SPECIFICATION FairSpec
CONSTANTS
    NoToken = NoToken
    Node <- TwoNodes
    Serial <- Uuids
    Timely = FALSE
    RestartWhen = "any"
    TTL = 2
    RenewEvery = 1
    MaxDelay = 0
    MaxStarts = 2
    MaxFaults = 1
    MaxInFlight = 2
INVARIANTS NeverDropsOut
PROPERTIES EventuallyLedUnlessLeaked ZombieDemoted
