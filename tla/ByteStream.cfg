SPECIFICATION Spec
CONSTANTS
    Ways = {"up", "down"}
    MaxPending = 1
    MaxSenders = 2
    MaxChunks = 2
    MaxSessions = 2
INVARIANTS PendingIsBounded EndsReachBoth
PROPERTIES ImplementsChannel
CHECK_DEADLOCK FALSE
