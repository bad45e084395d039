SPECIFICATION Spec
CONSTANTS
    Calls = {c1, c2, c3}
    NoCall = NoCall
    MayThrow = FALSE
    MidQueue = FALSE
INVARIANTS MutualExclusion
CHECK_DEADLOCK FALSE
