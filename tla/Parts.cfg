SPECIFICATION PartsSpec
CONSTANTS
    Part = {"transactions", "worker", "migrations", "schema", "types", "keys", "console", "repl", "http", "upgrades", "metadata", "nodes", "devbuild", "tests"}
    Txn = {t1}
    MaxHooks = 2
    SameProcess = FALSE
    Runner = {r1, r2}
    Job = {j1}
    MaxTerms = 3
    MaxLost = 2
    Run = {m1, m2}
    Files = 3
    MaxColumns = 3
    Topics = {"http", "db", "mutex", "srpc"}
    Capacity = 1
    MaxThings = 2
    MaxSockets = 2
    MaxUnread = 2
    MaxSpent = 1
    MaxStreams = 2
    MaxChanges = 1
    MaxUpdates = 1
    Proc = {p1, p2, p3}
    Retries = 2
    Service = {s}
    Caller = {1, 2}
    MaxIds = 3
    MaxFailures = 1
    MaxCrashes = 1
    TestTxn = {s1, s2}
    MaxTests = 2
    MaxWrites = 2
    MaxErrors = 1
INVARIANTS AllOrNothing NoJobForgotten RecordedWasApplied MigrationFits NothingLeft PageAgrees RequestHandled MetaAgrees NodeOrNothing BuiltInTurn TestsApart
CHECK_DEADLOCK FALSE
