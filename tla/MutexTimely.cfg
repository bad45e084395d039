SPECIFICATION Spec
CONSTANTS
    NoToken = NoToken
    Caller <- Callers
    Key <- TwoKeys
    KeysOf <- Nested
    Timely = TRUE
    TTL = 6
    RenewEvery = 1
    MaxDelay = 2
    RetryFor = 3
    MaxFaults = 1
    MaxInFlight = 4
INVARIANTS HeldWhileInside
