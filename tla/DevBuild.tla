------------------------------ MODULE DevBuild ------------------------------
(***************************************************************************)
(* `dksf-dev run` in several terminals of one project: the first process   *)
(* builds, the others wait for it and use its build (src/cli/dksf-dev.ts,  *)
(* ensureDevBuild and what it calls).  They talk through two files: a lock *)
(* with the pid of the builder, and the state with the pids that run.      *)
(*                                                                         *)
(* Each operation on a file is a step: a write first creates or truncates  *)
(* the file and then fills it, which is lost if the file has been unlinked *)
(* in between.  Pids are not used again.  What `build`, `migrate`, `repl`  *)
(* and `test` do with the files is to read the state.                      *)
(***************************************************************************)
EXTENDS FiniteSets, Integers

CONSTANTS
    Proc,       \* processes, by their pids
    Retries,    \* of tryAcquireBuildLock
    MaxCrashes  \* bound

VARIABLES
    step,       \* process -> what it does next
    retries,    \* process -> attempts left in tryAcquireBuildLock()
    read,       \* process -> the state that it is about to write
    lock,       \* the lock file: who has created it, and whether its pid is there
    state,      \* the state file: [ready, pids], or what is no JSON
    filling,    \* processes that have the present state file open to fill it
    crashes,
    doubt       \* a builder has died, or somebody read a lock before its pid was there

vars == <<step, retries, read, lock, state, filling, crashes, doubt>>

NoLock == [by |-> {}, named |-> FALSE]
Locked == lock # NoLock

Alive(p) == step[p] \notin {"new", "gone"}

\* isPidAlive() of what the file has: what is no number is no process.
\* Mutant: a lock without a pid is taken for one of a running process.
AbandonedByName == lock.named /\ ~\E p \in lock.by : Alive(p)

Abandoned == ~lock.named \/ ~\E p \in lock.by : Alive(p)

Unreadable == <<>>  \* No file, or an empty one.
IsState == state # Unreadable
Ready   == IsState /\ state.ready
DevRunning == Ready /\ \E p \in state.pids : Alive(p)

Builds(p) == step[p] \in {"naming", "locked", "clearing", "building", "announcing", "releasing"}
Goes(p, next) == step' = [step EXCEPT ![p] = next]

-----------------------------------------------------------------------------
(* The state file. *)

\* Opens the file and truncates it.
Opens(p, from, to, content) ==
    /\ step[p] = from /\ Goes(p, to)
    /\ state' = Unreadable /\ filling' = filling \cup {p}
    /\ read' = [read EXCEPT ![p] = content]
    /\ UNCHANGED <<retries, lock, crashes, doubt>>

Fills(p, from, to) ==
    /\ step[p] = from /\ Goes(p, to)
    /\ state' = IF p \in filling THEN read[p] ELSE state
    /\ filling' = filling \ {p} /\ read' = [read EXCEPT ![p] = Unreadable]
    /\ UNCHANGED <<retries, lock, crashes, doubt>>

Content(ready, pids) == [ready |-> ready, pids |-> pids]

-----------------------------------------------------------------------------
(* tryAcquireBuildLock() *)

Locks(p) == Goes(p, "locking") /\ retries' = [retries EXCEPT ![p] = Retries]

Create(p) ==
    /\ step[p] = "locking" /\ retries[p] > 0 /\ ~Locked
    /\ lock' = [by |-> {p}, named |-> FALSE]
    /\ Goes(p, "naming") /\ retries' = [retries EXCEPT ![p] = 0]
    /\ UNCHANGED <<read, state, filling, crashes, doubt>>

Name(p) ==
    /\ step[p] = "naming" /\ Goes(p, "locked")
    /\ lock' = IF p \in lock.by THEN [lock EXCEPT !.named = TRUE] ELSE lock
    /\ UNCHANGED <<retries, read, state, filling, crashes, doubt>>

Exists(p) ==
    /\ step[p] = "locking" /\ retries[p] > 0 /\ Locked /\ Goes(p, "reading")
    /\ UNCHANGED <<retries, read, lock, state, filling, crashes, doubt>>

ReadLock(p) ==
    /\ step[p] = "reading"
    /\ doubt' = (doubt \/ (Locked /\ ~lock.named))
    /\ IF ~Locked THEN Goes(p, "locking") /\ retries' = [retries EXCEPT ![p] = @ - 1]
       ELSE IF Abandoned THEN Goes(p, "stealing") /\ UNCHANGED retries
       ELSE Goes(p, "waiting") /\ retries' = [retries EXCEPT ![p] = 0]
    /\ UNCHANGED <<read, lock, state, filling, crashes>>

\* Whatever lock is there by now.
Steal(p) ==
    /\ step[p] = "stealing"
    /\ lock' = NoLock
    /\ Goes(p, "locking") /\ retries' = [retries EXCEPT ![p] = @ - 1]
    /\ UNCHANGED <<read, state, filling, crashes, doubt>>

GiveUp(p) ==
    /\ step[p] = "locking" /\ retries[p] = 0 /\ Goes(p, "waiting")
    /\ UNCHANGED <<retries, read, lock, state, filling, crashes, doubt>>

-----------------------------------------------------------------------------
(* ensureDevBuild() and performLockedWatchBuild() *)

Begin(p) ==
    /\ step[p] = "new"
    /\ IF DevRunning THEN Goes(p, "joining") /\ UNCHANGED retries ELSE Locks(p)
    /\ UNCHANGED <<read, lock, state, filling, crashes, doubt>>

\* After 200 ms.
Poll(p) ==
    /\ step[p] = "waiting" /\ Goes(p, IF Ready THEN "joining" ELSE "checking")
    /\ UNCHANGED <<retries, read, lock, state, filling, crashes, doubt>>

Check(p) ==
    /\ step[p] = "checking"
    /\ doubt' = (doubt \/ (Locked /\ ~lock.named))
    /\ IF ~Locked THEN Goes(p, "looking again") /\ UNCHANGED retries
       ELSE IF Abandoned THEN Locks(p) ELSE Goes(p, "waiting") /\ UNCHANGED retries
    /\ UNCHANGED <<read, lock, state, filling, crashes>>

LookAgain(p) ==
    /\ step[p] = "looking again"
    /\ IF Ready THEN Goes(p, "joining") /\ UNCHANGED retries ELSE Locks(p)
    /\ UNCHANGED <<read, lock, state, filling, crashes, doubt>>

Clears(p) ==
    \/ Opens(p, "locked", "clearing", Content(FALSE, {}))
    \/ Fills(p, "clearing", "building")

TscWatches(p) ==
    \/ Opens(p, "building", "announcing", Content(TRUE, {}))
    \/ Fills(p, "announcing", "releasing")

TscFails(p) ==
    /\ step[p] = "building" /\ Goes(p, "gone") /\ doubt' = TRUE
    /\ UNCHANGED <<retries, read, lock, state, filling, crashes>>

Release(p) ==
    /\ step[p] = "releasing" /\ lock' = NoLock /\ Goes(p, "joining")
    /\ UNCHANGED <<retries, read, state, filling, crashes, doubt>>

-----------------------------------------------------------------------------
(* registerDevPid(), and unregisterDevPid() when the process exits. *)

Living(pids) == {q \in pids : Alive(q)}

ReadsToJoin(p) ==
    /\ step[p] = "joining" /\ Goes(p, "registering")
    /\ LET before == IF IsState THEN state ELSE Content(TRUE, {})
       IN read' = [read EXCEPT ![p] = Content(before.ready, Living(before.pids) \cup {p})]
    /\ UNCHANGED <<retries, lock, state, filling, crashes, doubt>>

Registers(p) ==
    \/ Opens(p, "registering", "filling", read[p])
    \/ Fills(p, "filling", "running")

ReadsToLeave(p) ==
    /\ step[p] = "running"
    /\ IF IsState
       THEN LET others == Living(state.pids) \ {p} IN
            IF others = {} THEN Goes(p, "unlinking") /\ UNCHANGED read
            ELSE Goes(p, "unregistering") /\ read' = [read EXCEPT ![p] = Content(state.ready, others)]
       ELSE Goes(p, "gone") /\ UNCHANGED read
    /\ UNCHANGED <<retries, lock, state, filling, crashes, doubt>>

Unregisters(p) ==
    \/ Opens(p, "unregistering", "leaving", read[p])
    \/ Fills(p, "leaving", "gone")
    \/ /\ step[p] = "unlinking" /\ Goes(p, "gone")
       /\ state' = Unreadable /\ filling' = {}
       /\ UNCHANGED <<retries, read, lock, crashes, doubt>>

Crash(p) ==
    /\ Alive(p) /\ crashes < MaxCrashes
    /\ crashes' = crashes + 1 /\ Goes(p, "gone") /\ doubt' = (doubt \/ Builds(p))
    /\ UNCHANGED <<retries, read, lock, state, filling>>

-----------------------------------------------------------------------------
Init ==
    /\ step = [p \in Proc |-> "new"] /\ retries = [p \in Proc |-> 0]
    /\ read = [p \in Proc |-> Unreadable]
    /\ lock = NoLock /\ state = Unreadable /\ filling = {}
    /\ crashes = 0 /\ doubt = FALSE

Next == \E p \in Proc :
    \/ Create(p) \/ Name(p) \/ Exists(p) \/ ReadLock(p) \/ Steal(p) \/ GiveUp(p)
    \/ Begin(p) \/ Poll(p) \/ Check(p) \/ LookAgain(p)
    \/ Clears(p) \/ TscWatches(p) \/ TscFails(p) \/ Release(p)
    \/ ReadsToJoin(p) \/ Registers(p) \/ ReadsToLeave(p) \/ Unregisters(p) \/ Crash(p)

Spec == Init /\ [][Next]_vars

-----------------------------------------------------------------------------
(* Properties. *)

\* A process waits for a build that somebody makes: with nobody at it, its next look at the files
\* gets it on, whoever crashed or failed wherever.  Until a builder has died, or a lock was read
\* that had no pid yet, there are never two builders (ensureDevBuild, tryAcquireBuildLock).
BuiltInTurn ==
    /\ \A p \in Proc : (step[p] = "waiting" /\ \A q \in Proc : ~Builds(q)) =>
          Ready \/ ~Locked \/ Abandoned
    /\ ~doubt => \A p, q \in Proc : Builds(p) /\ Builds(q) => p = q
=============================================================================
