SPECIFICATION PartsSpec
CONSTANTS
    Part = {"transactions"}
    Txn = {t1, t2, t3}
    MaxHooks = 0
    SameProcess = FALSE
    Runner = {r1}
    Job = {j1}
    MaxTerms = 1
    MaxLost = 0
    Run = {m1}
    Files = 1
    MaxColumns = 1
    Topics = {"http", "db", "mutex", "srpc"}
    Capacity = 1
    MaxThings = 2
    MaxSockets = 2
    MaxUnread = 2
    MaxSpent = 1
    MaxStreams = 2
    MaxChanges = 1
    MaxUpdates = 1
    Proc = {p1}
    Retries = 2
    Service = {s}
    Caller = {1, 2}
    MaxIds = 3
    MaxFailures = 1
    MaxCrashes = 1
    TestTxn = {s1}
    MaxTests = 2
    MaxWrites = 2
    MaxErrors = 1
INVARIANTS LockExcludes
CHECK_DEADLOCK FALSE
