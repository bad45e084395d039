----------------------------- MODULE LocalMutex -----------------------------
(***************************************************************************)
(* The in-process mutex (localMutexExec in src/helpers/redis/mutex.ts) for *)
(* one key.  A holder's promise sits in a map; the others await it in a    *)
(* loop until the key is gone from the map.                                *)
(*                                                                         *)
(* What matters is the order of microtasks, so the queue of the event loop *)
(* is modelled: settling a promise appends the continuations of those who  *)
(* await it, and a job runs to its end before the next one starts.  fn     *)
(* settles at any moment; a timer fires only when the queue is empty.      *)
(***************************************************************************)
EXTENDS Naturals, Sequences

CONSTANTS
    Calls,       \* the calls of withMutex with this key
    NoCall,
    MayThrow,   \* TRUE: fn may be a function that throws before it returns a promise
    MidQueue    \* TRUE: continuations call withMutex too; FALSE: timers and I/O events only

VARIABLES
    entry,      \* localMutexes.get(key): the call whose promise is stored, or NoCall
    phase,      \* call -> where its execution is
    settled,    \* the calls whose stored promise has settled
    awaited,    \* call -> the calls whose loop is suspended on its promise, in order
    jobs        \* the microtask queue

vars == <<entry, phase, settled, awaited, jobs>>

\* "loop": in the while loop; "entering": out of it; "closing": fn's promise has settled and
\* finally() is to come; "broken": fn threw; "gaveUp": the timeout rejected it.
Phase == {"idle", "loop", "entering", "running", "closing", "closed", "broken", "gaveUp"}

\* What a job is the continuation of: the await in the loop, the await of the loop, or one
\* of fn().then(resolve).catch(reject).finally(...), which a rejection or a result may pass.
JobKind == {"resume", "enter", "then", "pastThen", "catch", "pastCatch", "finally"}

Job(kind, c) == [kind |-> kind, call |-> c]

TypeOK ==
    /\ entry \in Calls \cup {NoCall}
    /\ phase \in [Calls -> Phase]
    /\ settled \subseteq Calls
    /\ awaited \in [Calls -> Seq(Calls)]
    /\ jobs \in Seq([kind : JobKind, call : Calls])

-----------------------------------------------------------------------------
\* One turn of the while loop, with the key in the map: await what is stored there.
AwaitEntry(c, queue) ==
    IF entry \in settled
    THEN jobs' = Append(queue, Job("resume", c)) /\ UNCHANGED awaited
    ELSE jobs' = queue /\ awaited' = [awaited EXCEPT ![entry] = Append(@, c)]

\* The rest of localMutexExec: fn is called and the promise stored, at once.
CallFn(c) ==
    /\ entry' = c
    /\ \/ phase' = [phase EXCEPT ![c] = "running"] /\ UNCHANGED settled
       \/ MayThrow /\ phase' = [phase EXCEPT ![c] = "broken"] /\ settled' = settled \cup {c}

MayCall(c) == phase[c] = "idle" /\ (MidQueue \/ jobs = <<>>)

CallFree(c) ==
    /\ MayCall(c)
    /\ entry = NoCall
    /\ CallFn(c)
    /\ UNCHANGED <<awaited, jobs>>

CallTaken(c) ==
    /\ MayCall(c)
    /\ entry # NoCall
    /\ phase' = [phase EXCEPT ![c] = "loop"]
    /\ AwaitEntry(c, jobs)
    /\ UNCHANGED <<entry, settled>>

\* fn's promise settles, with a result or a rejection.
FnSettles(c) ==
    /\ phase[c] = "running"
    /\ phase' = [phase EXCEPT ![c] = "closing"]
    /\ \E kind \in {"then", "pastThen"} : jobs' = Append(jobs, Job(kind, c))
    /\ UNCHANGED <<entry, settled, awaited>>

\* The timeout of retryDelay * retryCount; the loop goes on and will end in a return.
TimesOut(c) ==
    /\ phase[c] = "loop"
    /\ jobs = <<>>
    /\ phase' = [phase EXCEPT ![c] = "gaveUp"]
    /\ UNCHANGED <<entry, settled, awaited, jobs>>

-----------------------------------------------------------------------------
(* The jobs. *)

Runs(c, kind) == jobs # <<>> /\ Head(jobs) = Job(kind, c)

\* resolve or reject of the stored promise, then the next link of the chain.
Settle(c, next) ==
    /\ settled' = settled \cup {c}
    /\ jobs' = Tail(jobs) \o [i \in DOMAIN awaited[c] |-> Job("resume", awaited[c][i])]
                          \o <<Job(next, c)>>
    /\ awaited' = [awaited EXCEPT ![c] = <<>>]
    /\ UNCHANGED <<entry, phase>>

Pass(c, next) ==
    /\ jobs' = Append(Tail(jobs), Job(next, c))
    /\ UNCHANGED <<entry, phase, settled, awaited>>

LoopsAgain(c) ==
    /\ Runs(c, "resume")
    /\ entry # NoCall
    /\ AwaitEntry(c, Tail(jobs))
    /\ UNCHANGED <<entry, phase, settled>>

LeavesLoop(c) ==
    /\ Runs(c, "resume")
    /\ entry = NoCall
    /\ IF phase[c] = "gaveUp"
       THEN jobs' = Tail(jobs) /\ UNCHANGED phase
       ELSE /\ jobs' = Append(Tail(jobs), Job("enter", c))
            /\ phase' = [phase EXCEPT ![c] = "entering"]
    /\ UNCHANGED <<entry, settled, awaited>>

Enters(c) ==
    /\ Runs(c, "enter")
    /\ CallFn(c)
    /\ jobs' = Tail(jobs)
    /\ UNCHANGED awaited

Then(c) == Runs(c, "then") /\ Settle(c, "pastCatch")

PastThen(c) == Runs(c, "pastThen") /\ Pass(c, "catch")

Catch(c) == Runs(c, "catch") /\ Settle(c, "finally")

PastCatch(c) == Runs(c, "pastCatch") /\ Pass(c, "finally")

\* finally() deletes the key, whosever promise the map holds by then.
Finally(c) ==
    /\ Runs(c, "finally")
    /\ entry' = NoCall
    /\ phase' = [phase EXCEPT ![c] = "closed"]
    /\ jobs' = Tail(jobs)
    /\ UNCHANGED <<settled, awaited>>

-----------------------------------------------------------------------------
Init ==
    /\ entry = NoCall
    /\ phase = [c \in Calls |-> "idle"]
    /\ settled = {}
    /\ awaited = [c \in Calls |-> <<>>]
    /\ jobs = <<>>

RunJob(c) ==
    \/ LoopsAgain(c) \/ LeavesLoop(c) \/ Enters(c)
    \/ Then(c) \/ PastThen(c) \/ Catch(c) \/ PastCatch(c) \/ Finally(c)

Next ==
    \E c \in Calls :
        CallFree(c) \/ CallTaken(c) \/ FnSettles(c) \/ TimesOut(c) \/ RunJob(c)

Spec == Init /\ [][Next]_vars

\* The event loop runs its jobs and a due timer; an fn may hang.
Fairness ==
    /\ WF_vars(\E c \in Calls : RunJob(c))
    /\ \A c \in Calls : WF_vars(TimesOut(c))

FairSpec == Spec /\ Fairness

-----------------------------------------------------------------------------
(* Properties. *)

\* What docs/content/redis.md promises of fn: one call of it runs at a time.
MutualExclusion ==
    \A c, d \in Calls : phase[c] = "running" /\ phase[d] = "running" => c = d

\* The map never keeps the promise of a call whose finally() has run: nobody else would
\* delete it, and every later call would spin on a settled promise.
NoStaleEntry ==
    entry # NoCall => phase[entry] \in {"running", "closing"}

\* A suspended loop is suspended on a promise that is still to settle, and a loop that is
\* not suspended has its continuation in the queue: no waiter is lost.
NoLostWaiter ==
    \A c \in Calls : phase[c] = "loop" =>
        \/ \E d \in Calls : \E i \in DOMAIN awaited[d] :
              awaited[d][i] = c /\ d \notin settled /\ phase[d] \in {"running", "closing"}
        \/ \E i \in DOMAIN jobs : jobs[i] = Job("resume", c)

\* A call that waits gets the mutex or is rejected by its timeout, whatever the holders'
\* functions do: the loop does not starve the timers.
WaiterSettles ==
    \A c \in Calls : phase[c] = "loop" ~> phase[c] \in {"running", "closing", "closed", "broken", "gaveUp"}
=============================================================================
