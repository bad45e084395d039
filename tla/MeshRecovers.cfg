SPECIFICATION FairSpec
CONSTANTS
    NoNode = NoNode
    Client <- OneClient
    Node <- TwoNodes
    StartsOn <- TwoNodes
    Stopping <- First
    KeyTtl = 2
    MaxStreams = 2
    MaxFaults = 1
    MaxTicks = 0
PROPERTIES StreamSettles OneHome OrphansGo
CHECK_DEADLOCK FALSE
