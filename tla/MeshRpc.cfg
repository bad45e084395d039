SPECIFICATION FairSpec
CONSTANTS
    NoNode = NoNode
    Node <- TwoNodes
    Early <- First
    Serving <- Second
    Timeout = 12
    Beat = 9
    MaxDelay = 1
    MaxSent = 1
    MaxFaults = 2
    MaxInFlight = 2
INVARIANTS HandledInTime SettledOrWatched
PROPERTIES SettlesOnce NotStranded
CHECK_DEADLOCK FALSE
