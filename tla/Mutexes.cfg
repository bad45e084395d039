SPECIFICATION BothSpec
CONSTANTS
    NoToken = NoToken
    Caller <- Callers
    Key <- TwoKeys
    KeysOf <- Crossed
    Timely = FALSE
    TTL = 1
    RenewEvery = 1
    MaxDelay = 0
    RetryFor = 1
    MaxFaults = 1
    MaxInFlight = 1
    Calls = {c1, c2, c3, c4}
    NoCall = NoCall
    MayThrow = FALSE
    MidQueue = TRUE
INVARIANTS EndedLeavesNothing
PROPERTIES LossIsTold EveryWaiterSettles
CHECK_DEADLOCK FALSE
