SPECIFICATION Spec
CONSTANTS
    NoToken = NoToken
    Node <- TwoNodes
    Serial <- Uuids
    Timely = TRUE
    RestartWhen = "quiet"
    TTL = 6
    RenewEvery = 1
    MaxDelay = 2
    MaxStarts = 2
    MaxFaults = 1
    MaxInFlight = 4
INVARIANTS OneLoop StoppedLeavesNothing LeaseCovers
PROPERTIES ImplementsElection
