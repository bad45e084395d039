SPECIFICATION Spec
CONSTANTS
    NoNode = NoNode
    Client <- OneClient
    Node <- TwoNodes
    StartsOn <- First
    Stopping <- First
    KeyTtl = 2
    MaxStreams = 3
    MaxFaults = 0
    MaxTicks = 1
INVARIANTS RegistryConsistent SettledAgrees ToldInOrder
CHECK_DEADLOCK FALSE
