----------------------------- MODULE MCMutexes -----------------------------
(***************************************************************************)
(* Both mutexes of src/helpers/redis/mutex.ts.  MUTEX_MODE chooses one of  *)
(* them for the whole process, so each behaviour is of one mutex and the   *)
(* other one stays as it is.                                               *)
(***************************************************************************)
EXTENDS MCRedisMutex

CONSTANTS
    Calls, NoCall, MayThrow, MidQueue   \* of LocalMutex

VARIABLES
    mode,
    entry, localPhase, settled, awaited, jobs

L == INSTANCE LocalMutex WITH phase <- localPhase

lvars   == <<entry, localPhase, settled, awaited, jobs>>
allVars == <<mode, vars, lvars>>

BothInit == mode \in {"redis", "local"} /\ Init /\ L!Init

BothNext ==
    /\ mode' = mode
    /\ \/ mode = "redis" /\ Next /\ UNCHANGED lvars
       \/ mode = "local" /\ L!Next /\ UNCHANGED vars

\* Nothing that is fair can happen in a mutex in which nothing was called.
BothSpec == BothInit /\ [][BothNext]_allVars /\ Fairness /\ L!Fairness

\* A waiter of either mutex gets in or is rejected (redisMutexExec and localMutexExec).  That of the
\* local one never finds the key of an ended call, nor waits for a promise that has settled.
EveryWaiterSettles ==
    /\ WaiterSettles /\ L!WaiterSettles
    /\ [](L!TypeOK /\ L!NoStaleEntry /\ L!NoLostWaiter)
=============================================================================
