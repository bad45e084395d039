SPECIFICATION FairSpec
CONSTANTS
    Client = {c1}
    MaxSockets = 2
    MaxCalls = 2
    MaxInvokes = 1
    MaxEvents = 2
INVARIANTS OneStream EndsForCause TidyClient
PROPERTIES ServerCallSettles ReconnectsOrTold
CHECK_DEADLOCK FALSE
