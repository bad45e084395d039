----------------------------- MODULE PartsProofs -----------------------------
(***************************************************************************)
(* Proofs about the modules that MCParts composes, part by part, for any   *)
(* processes, transactions, runners, jobs and files.  Each part has an     *)
(* inductive invariant of its own, which its steps keep, and the other     *)
(* parts' steps leave its variables alone.                                 *)
(***************************************************************************)
EXTENDS MCParts, TLAPS

-----------------------------------------------------------------------------
(* Builds of `dksf-dev run`.  A lock that names a living process names a   *)
(* builder; and until a builder has died, or a lock was read that had no   *)
(* pid yet, nobody has judged a lock abandoned, and the builder is the one *)
(* in the lock.                                                            *)

BuildSteps == {"new", "gone", "locking", "naming", "reading", "stealing", "locked", "waiting", "checking",
          "looking again", "clearing", "building", "announcing", "releasing", "joining", "registering",
          "filling", "running", "unregistering", "leaving", "unlinking"}

BuildingSteps == {"naming", "locked", "clearing", "building", "announcing", "releasing"}

BuildTypes ==
    /\ step \in [Proc -> BuildSteps]
    /\ lock \in [by : SUBSET Proc, named : BOOLEAN]
    /\ doubt \in BOOLEAN
    /\ lock.by = {} => ~lock.named

\* Whose lock it is either builds or is dead.
LockOfBuilder == \A p \in lock.by : step[p] = "gone" \/ B!Builds(p)

\* While nothing is in doubt, the lock has the builder, and nobody is about to take it away.
Undoubted ==
    ~doubt =>
        /\ \A p \in Proc : step[p] # "stealing"
        /\ \A p \in Proc : B!Builds(p) => lock.by = {p}
        /\ \A p \in lock.by : B!Builds(p)

BuildInv == BuildTypes /\ LockOfBuilder /\ Undoubted

-----------------------------------------------------------------------------
\* Nobody builds, and there is no lock.
LEMMA BuildInit == B!Init => BuildInv
<1> SUFFICES ASSUME B!Init PROVE BuildInv
  OBVIOUS
<1>1. lock.by = {} /\ lock.named = FALSE /\ lock \in [by : SUBSET Proc, named : BOOLEAN]
  BY DEF B!Init, B!NoLock
<1>2. step \in [Proc -> BuildSteps] /\ \A p \in Proc : step[p] = "new"
  BY DEF B!Init, BuildSteps
<1>3. doubt = FALSE
  BY DEF B!Init
<1> QED
  BY <1>1, <1>2, <1>3 DEF BuildInv, BuildTypes, LockOfBuilder, Undoubted, B!Builds

\* A process takes its next step and leaves the lock alone: a builder goes on building, or dies in
\* doubt; nobody else becomes one.
BuildMoves(p, to) ==
    /\ step[p] # "gone" /\ to \in BuildSteps
    /\ step' = [step EXCEPT ![p] = to] /\ lock' = lock
    /\ doubt' \in BOOLEAN /\ (doubt => doubt')
    /\ to = "stealing" => doubt'
    /\ B!Builds(p) => to \in BuildingSteps \/ (to = "gone" /\ doubt')
    /\ to \in BuildingSteps => B!Builds(p)

\* What B!Builds says of a state.
LEMMA BuildsIs == \A p \in Proc : B!Builds(p) <=> step[p] \in BuildingSteps
BY DEF B!Builds, BuildingSteps

\* Such a step keeps the invariant: whose lock it is was a builder, for it is not gone.
LEMMA BuildMovesKeep == ASSUME BuildInv, NEW p \in Proc, NEW to, BuildMoves(p, to) PROVE BuildInv'
<1>1. BuildTypes /\ LockOfBuilder /\ Undoubted
  BY DEF BuildInv
<1>2. /\ step' \in [Proc -> BuildSteps] /\ step'[p] = to
      /\ \A q \in Proc \ {p} : step'[q] = step[q]
  BY <1>1 DEF BuildMoves, BuildTypes
<1>3. /\ \A q \in Proc \ {p} : B!Builds(q)' <=> B!Builds(q)
      /\ B!Builds(p)' <=> to \in BuildingSteps
  BY <1>2 DEF B!Builds, BuildingSteps
<1>4. BuildTypes'
  BY <1>1, <1>2 DEF BuildMoves, BuildTypes
<1>5. LockOfBuilder'
  <2>1. p \in lock.by => B!Builds(p)
    BY <1>1 DEF BuildMoves, LockOfBuilder
  <2>2. p \in lock.by => to = "gone" \/ to \in BuildingSteps
    BY <2>1 DEF BuildMoves
  <2>3. lock.by \subseteq Proc
    BY <1>1 DEF BuildTypes
  <2> QED
    BY <1>1, <1>2, <1>3, <2>2, <2>3 DEF BuildMoves, LockOfBuilder
<1>6. Undoubted'
  <2> SUFFICES ASSUME ~doubt' PROVE Undoubted'
    BY DEF Undoubted
  <2>1. ~doubt /\ to # "stealing" /\ (B!Builds(p) <=> to \in BuildingSteps) /\ lock' = lock
    BY DEF BuildMoves
  <2>2. /\ \A q \in Proc : step[q] # "stealing"
        /\ \A q \in Proc : B!Builds(q) => lock.by = {q}
        /\ \A q \in lock.by : B!Builds(q)
    BY <1>1, <2>1 DEF Undoubted
  <2>3. \A q \in Proc : B!Builds(q)' <=> B!Builds(q)
    BY <1>3, <2>1
  <2>4. lock.by \subseteq Proc
    BY <1>1 DEF BuildTypes
  <2> QED
    BY <1>2, <2>1, <2>2, <2>3, <2>4 DEF Undoubted
<1> QED
  BY <1>4, <1>5, <1>6 DEF BuildInv

\* What B!Goes() does to the steps, as BuildMoves wants it.
LEMMA GoesOn ==
    ASSUME BuildInv, NEW p \in Proc, NEW from, NEW to \in BuildSteps, step[p] = from, from # "gone",
           B!Goes(p, to), lock' = lock, doubt' = doubt, to # "stealing",
           from \in BuildingSteps <=> to \in BuildingSteps
    PROVE  BuildInv'
<1>1. doubt \in BOOLEAN /\ (B!Builds(p) <=> from \in BuildingSteps)
  BY BuildsIs DEF BuildInv, BuildTypes
<1>2. BuildMoves(p, to)
  BY <1>1 DEF BuildMoves, B!Goes
<1> QED
  BY <1>2, BuildMovesKeep

\* The process that creates the lock is the one in it: there was no builder, or there is doubt.
LEMMA CreateKeeps == ASSUME BuildInv, NEW p \in Proc, B!Create(p) PROVE BuildInv'
<1>1. BuildTypes /\ LockOfBuilder /\ Undoubted
  BY DEF BuildInv
<1>2. lock.by = {} /\ lock'.by = {p} /\ lock'.named = FALSE /\ lock' \in [by : SUBSET Proc, named : BOOLEAN]
  <2>1. lock = [by |-> {}, named |-> FALSE]
    BY DEF B!Create, B!Locked, B!NoLock
  <2>2. lock' = [by |-> {p}, named |-> FALSE] /\ {p} \in SUBSET Proc
    BY DEF B!Create
  <2> QED
    BY <2>1, <2>2
<1>3. /\ step' \in [Proc -> BuildSteps] /\ step'[p] = "naming" /\ doubt' = doubt
      /\ \A q \in Proc \ {p} : step'[q] = step[q]
  BY <1>1 DEF B!Create, B!Goes, BuildTypes, BuildSteps
<1>4. B!Builds(p)' /\ \A q \in Proc \ {p} : B!Builds(q)' <=> B!Builds(q)
  BY <1>3 DEF B!Builds
<1>5. BuildTypes' /\ LockOfBuilder'
  BY <1>1, <1>2, <1>3, <1>4 DEF BuildTypes, LockOfBuilder
<1>6. Undoubted'
  <2>1. ASSUME ~doubt PROVE \A q \in Proc : ~B!Builds(q) /\ step[q] # "stealing"
    BY <1>1, <1>2, <2>1 DEF Undoubted
  <2> QED
    BY <1>2, <1>3, <1>4, <2>1 DEF Undoubted
<1> QED
  BY <1>5, <1>6 DEF BuildInv

\* The builder writes its pid into the lock, which may be another's by now.
LEMMA NameKeeps == ASSUME BuildInv, NEW p \in Proc, B!Name(p) PROVE BuildInv'
<1>1. BuildTypes /\ LockOfBuilder /\ Undoubted
  BY DEF BuildInv
<1>2. /\ lock'.by = lock.by /\ lock' \in [by : SUBSET Proc, named : BOOLEAN]
      /\ lock.by = {} => ~lock'.named
  BY <1>1 DEF B!Name, BuildTypes
<1>3. /\ step' \in [Proc -> BuildSteps] /\ step[p] = "naming" /\ step'[p] = "locked" /\ doubt' = doubt
      /\ \A q \in Proc \ {p} : step'[q] = step[q]
  BY <1>1 DEF B!Name, B!Goes, BuildTypes, BuildSteps
<1>4. \A q \in Proc : B!Builds(q)' <=> B!Builds(q)
  BY <1>3 DEF B!Builds
<1>5. BuildTypes'
  BY <1>1, <1>2, <1>3 DEF BuildTypes
<1>6. LockOfBuilder'
  <2>1. \A q \in lock.by : step'[q] = "gone" \/ B!Builds(q)'
    <3>1. lock.by \subseteq Proc
      BY <1>1 DEF BuildTypes
    <3> QED
      BY <1>1, <1>3, <1>4, <3>1 DEF LockOfBuilder
  <2> QED
    BY <1>2, <2>1 DEF LockOfBuilder
<1>7. Undoubted'
  <2> SUFFICES ASSUME ~doubt PROVE Undoubted'
    BY <1>3 DEF Undoubted
  <2>1. /\ \A q \in Proc : step[q] # "stealing"
        /\ \A q \in Proc : B!Builds(q) => lock.by = {q}
        /\ \A q \in lock.by : q \in Proc /\ B!Builds(q)
    BY <1>1 DEF Undoubted, BuildTypes
  <2> QED
    BY <1>2, <1>3, <1>4, <2>1 DEF Undoubted
<1> QED
  BY <1>5, <1>6, <1>7 DEF BuildInv

\* The lock is removed: by the builder, that builds no more, or by one that stole it, in doubt.
LEMMA UnlockKeeps ==
    ASSUME BuildInv, NEW p \in Proc, NEW to \in BuildSteps \ BuildingSteps, B!Goes(p, to), lock' = B!NoLock, doubt' = doubt,
           to # "stealing", ~doubt => B!Builds(p)
    PROVE  BuildInv'
<1>1. BuildTypes /\ Undoubted
  BY DEF BuildInv
<1>2. lock'.by = {} /\ lock'.named = FALSE /\ lock' \in [by : SUBSET Proc, named : BOOLEAN]
  BY DEF B!NoLock
<1>3. /\ step' \in [Proc -> BuildSteps] /\ step'[p] = to
      /\ \A q \in Proc \ {p} : step'[q] = step[q]
  BY <1>1 DEF B!Goes, BuildTypes
<1>4. ~B!Builds(p)' /\ \A q \in Proc \ {p} : B!Builds(q)' <=> B!Builds(q)
  BY <1>3 DEF B!Builds, BuildingSteps
<1>5. BuildTypes' /\ LockOfBuilder'
  BY <1>1, <1>2, <1>3 DEF BuildTypes, LockOfBuilder
<1>6. Undoubted'
  <2> SUFFICES ASSUME ~doubt PROVE Undoubted'
    BY DEF Undoubted
  <2>1. \A q \in Proc \ {p} : ~B!Builds(q) /\ step[q] # "stealing"
    <3>1. lock.by = {p}
      BY <1>1 DEF Undoubted
    <3> QED
      BY <1>1, <3>1 DEF Undoubted
  <2> QED
    BY <1>2, <1>3, <1>4, <2>1 DEF Undoubted
<1> QED
  BY <1>5, <1>6 DEF BuildInv

\* A look at the lock: whoever finds it abandoned has cause for doubt, since a builder would be alive.
LEMMA LooksKeep ==
    ASSUME BuildInv, NEW p \in Proc, NEW to \in BuildSteps \ BuildingSteps, step[p] \in {"reading", "checking"},
           B!Goes(p, to), lock' = lock, doubt' = (doubt \/ (B!Locked /\ ~lock.named)),
           to = "stealing" => B!Locked /\ B!Abandoned
    PROVE  BuildInv'
<1>1. doubt \in BOOLEAN /\ ~B!Builds(p)
  BY DEF BuildInv, BuildTypes, B!Builds
<1>2. to = "stealing" => doubt'
  <2> SUFFICES ASSUME ~doubt, B!Locked, B!Abandoned, lock.named PROVE FALSE
    OBVIOUS
  <2>1. PICK q \in lock.by : q \in Proc
    BY DEF BuildInv, BuildTypes
  <2>2. B!Builds(q)
    BY <2>1 DEF BuildInv, Undoubted
  <2>3. B!Alive(q)
    BY <2>2 DEF B!Builds, B!Alive
  <2> QED
    BY <2>1, <2>3 DEF B!Abandoned
<1>3. doubt' \in BOOLEAN /\ (doubt => doubt')
  BY <1>1
<1>4. BuildMoves(p, to)
  BY <1>1, <1>2, <1>3 DEF BuildMoves, B!Goes
<1> QED
  BY <1>4, BuildMovesKeep

\* Every operation on the files keeps the invariant.
LEMMA BuildStepping == BuildInv /\ B!Next => BuildInv'
<1> SUFFICES ASSUME BuildInv, NEW p \in Proc,
                    \/ B!Create(p) \/ B!Name(p) \/ B!Exists(p) \/ B!ReadLock(p) \/ B!Steal(p) \/ B!GiveUp(p)
                    \/ B!Begin(p) \/ B!Poll(p) \/ B!Check(p) \/ B!LookAgain(p)
                    \/ B!Clears(p) \/ B!TscWatches(p) \/ B!TscFails(p) \/ B!Release(p)
                    \/ B!ReadsToJoin(p) \/ B!Registers(p) \/ B!ReadsToLeave(p) \/ B!Unregisters(p) \/ B!Crash(p)
             PROVE  BuildInv'
  BY DEF B!Next
<1> USE DEF BuildSteps, BuildingSteps
<1>1. CASE B!Create(p)
  BY <1>1, CreateKeeps
<1>2. CASE B!Name(p)
  BY <1>2, NameKeeps
<1>3. CASE B!Exists(p)
  BY <1>3, GoesOn DEF B!Exists
<1>4. CASE B!ReadLock(p)
  <2>1. PICK to \in {"locking", "stealing", "waiting"} : B!Goes(p, to) /\ (to = "stealing" => B!Locked /\ B!Abandoned)
    BY <1>4 DEF B!ReadLock
  <2>2. step[p] = "reading" /\ lock' = lock /\ doubt' = (doubt \/ (B!Locked /\ ~lock.named))
    BY <1>4 DEF B!ReadLock
  <2>3. to \in BuildSteps \ BuildingSteps
    BY <2>1
  <2> HIDE DEF BuildSteps, BuildingSteps
  <2> QED
    BY <2>1, <2>2, <2>3, LooksKeep
<1>5. CASE B!Steal(p)
  <2>1. step[p] = "stealing" /\ lock' = B!NoLock /\ doubt' = doubt /\ B!Goes(p, "locking")
    BY <1>5 DEF B!Steal
  <2>2. doubt
    BY <2>1 DEF BuildInv, Undoubted
  <2> QED
    BY <2>1, <2>2, UnlockKeeps
<1>6. CASE B!GiveUp(p)
  BY <1>6, GoesOn DEF B!GiveUp
<1>7. CASE B!Begin(p)
  <2>1. PICK to \in {"joining", "locking"} : B!Goes(p, to)
    BY <1>7 DEF B!Begin, B!Locks
  <2>2. step[p] = "new" /\ lock' = lock /\ doubt' = doubt
    BY <1>7 DEF B!Begin
  <2> QED
    BY <2>1, <2>2, GoesOn
<1>8. CASE B!Poll(p)
  <2>1. PICK to \in {"joining", "checking"} : B!Goes(p, to)
    BY <1>8 DEF B!Poll
  <2>2. step[p] = "waiting" /\ lock' = lock /\ doubt' = doubt
    BY <1>8 DEF B!Poll
  <2> QED
    BY <2>1, <2>2, GoesOn
<1>9. CASE B!Check(p)
  <2>1. PICK to \in {"looking again", "locking", "waiting"} : B!Goes(p, to)
    BY <1>9 DEF B!Check, B!Locks
  <2>2. step[p] = "checking" /\ lock' = lock /\ doubt' = (doubt \/ (B!Locked /\ ~lock.named))
    BY <1>9 DEF B!Check
  <2>3. to \in BuildSteps \ BuildingSteps /\ to # "stealing"
    BY <2>1
  <2> HIDE DEF BuildSteps, BuildingSteps
  <2> QED
    BY <2>1, <2>2, <2>3, LooksKeep
<1>10. CASE B!LookAgain(p)
  <2>1. PICK to \in {"joining", "locking"} : B!Goes(p, to)
    BY <1>10 DEF B!LookAgain, B!Locks
  <2>2. step[p] = "looking again" /\ lock' = lock /\ doubt' = doubt
    BY <1>10 DEF B!LookAgain
  <2> QED
    BY <2>1, <2>2, GoesOn
<1>11. CASE B!Clears(p)
  <2>1. /\ lock' = lock /\ doubt' = doubt
        /\ \/ step[p] = "locked" /\ B!Goes(p, "clearing")
           \/ step[p] = "clearing" /\ B!Goes(p, "building")
    BY <1>11 DEF B!Clears, B!Opens, B!Fills
  <2> QED
    BY <2>1, GoesOn
<1>12. CASE B!TscWatches(p)
  <2>1. /\ lock' = lock /\ doubt' = doubt
        /\ \/ step[p] = "building" /\ B!Goes(p, "announcing")
           \/ step[p] = "announcing" /\ B!Goes(p, "releasing")
    BY <1>12 DEF B!TscWatches, B!Opens, B!Fills
  <2> QED
    BY <2>1, GoesOn
<1>13. CASE B!TscFails(p)
  <2>1. step[p] = "building" /\ B!Goes(p, "gone") /\ doubt' /\ doubt' \in BOOLEAN /\ lock' = lock
    BY <1>13 DEF B!TscFails
  <2>2. BuildMoves(p, "gone")
    BY <2>1 DEF BuildMoves, B!Goes
  <2> QED
    BY <2>2, BuildMovesKeep
<1>14. CASE B!Release(p)
  <2>1. step[p] = "releasing" /\ lock' = B!NoLock /\ doubt' = doubt /\ B!Goes(p, "joining") /\ B!Builds(p)
    BY <1>14 DEF B!Release, B!Builds
  <2> QED
    BY <2>1, UnlockKeeps
<1>15. CASE B!ReadsToJoin(p)
  BY <1>15, GoesOn DEF B!ReadsToJoin
<1>16. CASE B!Registers(p)
  <2>1. /\ lock' = lock /\ doubt' = doubt
        /\ \/ step[p] = "registering" /\ B!Goes(p, "filling")
           \/ step[p] = "filling" /\ B!Goes(p, "running")
    BY <1>16 DEF B!Registers, B!Opens, B!Fills
  <2> QED
    BY <2>1, GoesOn
<1>17. CASE B!ReadsToLeave(p)
  <2>1. PICK to \in {"unlinking", "unregistering", "gone"} : B!Goes(p, to)
    BY <1>17 DEF B!ReadsToLeave
  <2>2. step[p] = "running" /\ lock' = lock /\ doubt' = doubt
    BY <1>17 DEF B!ReadsToLeave
  <2> QED
    BY <2>1, <2>2, GoesOn
<1>18. CASE B!Unregisters(p)
  <2>1. /\ lock' = lock /\ doubt' = doubt
        /\ \/ step[p] = "unregistering" /\ B!Goes(p, "leaving")
           \/ step[p] = "leaving" /\ B!Goes(p, "gone")
           \/ step[p] = "unlinking" /\ B!Goes(p, "gone")
    BY <1>18 DEF B!Unregisters, B!Opens, B!Fills
  <2> QED
    BY <2>1, GoesOn
<1>19. CASE B!Crash(p)
  <2>1. /\ step[p] # "gone" /\ B!Goes(p, "gone") /\ lock' = lock
        /\ doubt' = (doubt \/ B!Builds(p)) /\ doubt \in BOOLEAN
    BY <1>19 DEF B!Crash, B!Alive, BuildInv, BuildTypes
  <2>2. BuildMoves(p, "gone")
    BY <2>1 DEF BuildMoves, B!Goes
  <2> QED
    BY <2>2, BuildMovesKeep
<1> QED
  BY <1>1, <1>2, <1>3, <1>4, <1>5, <1>6, <1>7, <1>8, <1>9, <1>10, <1>11, <1>12, <1>13, <1>14, <1>15,
     <1>16, <1>17, <1>18, <1>19

\* Processes build in turn and wait for somebody, however many there are and wherever they die
\* (ensureDevBuild, tryAcquireBuildLock).
THEOREM BuildsAreInTurn == PartsSpec => []BuiltInTurn
<1>1. PartsInit => BuildInv
  BY BuildInit DEF PartsInit
<1>2. UNCHANGED bvars /\ BuildInv => BuildInv'
  BY DEF BuildInv, BuildTypes, LockOfBuilder, Undoubted, B!Builds, bvars
<1>3. BuildInv /\ [PartsNext]_allVars => BuildInv'
  BY <1>2, BuildStepping DEF PartsNext, allVars
<1>4. BuildInv => BuiltInTurn
  <2> SUFFICES ASSUME BuildInv PROVE B!BuiltInTurn
    BY DEF BuiltInTurn
  <2>1. ASSUME NEW q \in Proc, \A p \in Proc : ~B!Builds(p) PROVE B!Abandoned
    BY <2>1 DEF BuildInv, BuildTypes, LockOfBuilder, B!Abandoned, B!Alive
  <2>2. ASSUME ~doubt, NEW p \in Proc, NEW q \in Proc, B!Builds(p), B!Builds(q) PROVE p = q
    BY <2>2 DEF BuildInv, Undoubted
  <2> QED
    BY <2>1, <2>2 DEF B!BuiltInTurn
<1> QED
  BY <1>1, <1>3, <1>4, PTL DEF PartsSpec

\* The parts that share the dialect with others leave it as it is.
LEMMA PartsKeepDialect ==
    /\ S!Next => dialect' = dialect
    /\ C!Next => dialect' = dialect
    /\ K!Next => dialect' = dialect
    /\ I!Next => dialect' = dialect
<1>1. S!Next => dialect' = dialect
  BY DEF S!Next, S!MakeMigration, S!Execute, S!Finish
<1>2. C!Next => dialect' = dialect
  BY DEF C!Next, C!Migrate
<1>3. K!Next => dialect' = dialect
  BY DEF K!Next, K!Migrate
<1>4. I!Next => dialect' = dialect
  BY DEF I!Next, I!FirstReset, I!Reset, I!Stop, I!Write, I!Delete, I!QueryFails, I!Begin, I!Commit, I!Rollback
<1> QED
  BY <1>1, <1>2, <1>3, <1>4

-----------------------------------------------------------------------------
(* Transactions. *)

TxnRec ==
    [at : {"new", "body", "prepare", "insert", "update", "before", "commit", "after", "over"},
     queued : Nat, flushed : Nat, before : Seq(T!Hook), after : Seq(T!Hook),
     ranBefore : Nat, ranAfter : Nat, held : BOOLEAN,
     outcome : {"none", "committed", "rolledBack", "rejected"}]

Mine(t) == {e \in stored : e[1] = t}
All(t, r) == {<<t, n>> : n \in 1..(r.queued + r.flushed)}

\* What is in the database of a transaction, and which hooks have run, by the place where it is.
TxnFits(t, r, mine) ==
    /\ r.ranBefore <= Len(r.before) /\ r.ranAfter <= Len(r.after)
    /\ r.at \in {"new", "body", "prepare", "insert", "update"} => r.ranBefore = 0
    /\ r.at = "commit" => r.ranBefore = Len(r.before)
    /\ r.at \notin {"after", "over"} => r.ranAfter = 0 /\ mine = {}
    /\ r.at = "after" => r.outcome = "committed" /\ r.ranBefore = Len(r.before) /\ mine = All(t, r)
    /\ r.at = "over" =>
          /\ r.outcome = "rolledBack" => r.ranAfter = 0 /\ mine = {}
          /\ r.outcome # "rolledBack" => mine = All(t, r) /\ r.ranBefore = Len(r.before)
          /\ r.outcome = "committed" => r.ranAfter = Len(r.after)
          /\ r.outcome = "rejected" => r.after[r.ranAfter] = "throws"

TxnInv == T!TypeOK /\ \A t \in Txn : TxnFits(t, txn[t], Mine(t))

\* The record type is the one of TypeOK.
LEMMA TxnTyped ==
    T!TypeOK <=>
        /\ dialect \in {"mysql", "postgres"} /\ txn \in [Txn -> TxnRec] /\ stored \subseteq Txn \X Nat
        /\ row \in {"absent", "new", "fresh", "old"} /\ owner \subseteq Txn
        /\ prepared \in [T!Process -> {"no", "purging", "done", "failed"}]
BY DEF T!TypeOK, TxnRec

\* Nothing has begun.
LEMMA TxnBegins == T!Init => TxnInv
<1> SUFFICES ASSUME T!Init PROVE TxnInv
  OBVIOUS
<1>1. T!Idle \in TxnRec
  BY DEF T!Idle, TxnRec
<1>2. txn = [t \in Txn |-> T!Idle] /\ stored = {} /\ owner = {}
  BY DEF T!Init
<1>3. T!TypeOK
  <2>1. row \in {"absent", "new", "fresh", "old"} /\ prepared \in [T!Process -> {"no", "purging", "done", "failed"}]
    BY DEF T!Init
  <2> QED
    BY <1>1, <1>2, <2>1, TxnTyped DEF T!Init
<1>4. ASSUME NEW t \in Txn PROVE TxnFits(t, txn[t], Mine(t))
  <2>1. txn[t] = T!Idle /\ Mine(t) = {}
    BY <1>2 DEF Mine
  <2> QED
    BY <2>1 DEF TxnFits, T!Idle
<1> QED
  BY <1>3, <1>4 DEF TxnInv

\* A transaction gets a new record; nothing of the others changes in the database.
LEMMA TxnSets ==
    ASSUME TxnInv, NEW t \in Txn, NEW r, T!Set(t, r), r \in TxnRec, TxnFits(t, r, Mine(t)'),
           \A u \in Txn \ {t} : Mine(u)' = Mine(u),
           dialect' = dialect, stored' \subseteq Txn \X Nat, row' \in {"absent", "new", "fresh", "old"},
           owner' \subseteq Txn, prepared' \in [T!Process -> {"no", "purging", "done", "failed"}]
    PROVE  TxnInv'
<1>1. txn \in [Txn -> TxnRec] /\ dialect \in {"mysql", "postgres"}
  BY TxnTyped DEF TxnInv
<1>2. txn' \in [Txn -> TxnRec] /\ txn'[t] = r /\ \A u \in Txn \ {t} : txn'[u] = txn[u]
  BY <1>1 DEF T!Set
<1>3. T!TypeOK'
  BY <1>1, <1>2 DEF T!TypeOK, TxnRec
<1>4. ASSUME NEW u \in Txn PROVE TxnFits(u, txn'[u], Mine(u)')
  BY <1>2 DEF TxnInv
<1> QED
  BY <1>3, <1>4 DEF TxnInv

\* The same when nothing but the record changes.
LEMMA TxnMoves ==
    ASSUME TxnInv, NEW t \in Txn, NEW r, T!Set(t, r), r \in TxnRec, TxnFits(t, r, Mine(t)),
           dialect' = dialect, stored' = stored, row' \in {"absent", "new", "fresh", "old"},
           owner' \subseteq Txn, prepared' = prepared
    PROVE  TxnInv'
<1>1. \A u \in Txn : Mine(u)' = Mine(u)
  BY DEF Mine
<1>2. stored \subseteq Txn \X Nat /\ prepared \in [T!Process -> {"no", "purging", "done", "failed"}]
  BY TxnTyped DEF TxnInv
<1> QED
  BY <1>1, <1>2, TxnSets

\* What a transaction's record has.
LEMMA TxnIs ==
    ASSUME TxnInv, NEW t \in Txn
    PROVE  /\ txn[t] \in TxnRec /\ TxnFits(t, txn[t], Mine(t))
           /\ Len(txn[t].before) \in Nat /\ Len(txn[t].after) \in Nat
           /\ owner \subseteq Txn /\ row \in {"absent", "new", "fresh", "old"} /\ stored \subseteq Txn \X Nat
           /\ prepared \in [T!Process -> {"no", "purging", "done", "failed"}]
<1>1. txn[t] \in TxnRec
  BY TxnTyped DEF TxnInv
<1>2. txn[t].before \in Seq(T!Hook) /\ txn[t].after \in Seq(T!Hook)
  BY <1>1 DEF TxnRec
<1> QED
  BY <1>1, <1>2, TxnTyped DEF TxnInv

\* One more hook at the end of an array.
LEMMA HookAdded ==
    ASSUME NEW hooks \in Seq(T!Hook), NEW hook \in T!Hook
    PROVE  Append(hooks, hook) \in Seq(T!Hook) /\ Len(Append(hooks, hook)) = Len(hooks) + 1
OBVIOUS

\* The queue of a transaction is written to the database, inside the transaction.
LEMMA FlushIs ==
    ASSUME NEW r \in TxnRec
    PROVE  /\ T!Flushed(r) \in TxnRec /\ T!Flushed(r).flushed = r.flushed + r.queued /\ T!Flushed(r).queued = 0
           /\ T!Flushed(r).at = r.at /\ T!Flushed(r).before = r.before /\ T!Flushed(r).after = r.after
           /\ T!Flushed(r).ranBefore = r.ranBefore /\ T!Flushed(r).ranAfter = r.ranAfter
<1>1. PICK n : n = r.flushed + r.queued /\ n \in Nat
  BY DEF TxnRec
<1>2. PICK m : m = [r EXCEPT !.flushed = n]
  OBVIOUS
<1>3. /\ m \in TxnRec /\ m.flushed = n /\ m.queued = r.queued /\ m.at = r.at /\ m.before = r.before
      /\ m.after = r.after /\ m.ranBefore = r.ranBefore /\ m.ranAfter = r.ranAfter
  BY <1>1, <1>2 DEF TxnRec
<1>4. T!Flushed(r) = [m EXCEPT !.queued = 0]
  BY <1>1, <1>2, <1>3 DEF T!Flushed, TxnRec
<1>5. PICK f : f = [m EXCEPT !.queued = 0]
  OBVIOUS
<1>6. /\ f \in TxnRec /\ f.flushed = n /\ f.queued = 0 /\ f.at = m.at /\ f.before = m.before
      /\ f.after = m.after /\ f.ranBefore = m.ranBefore /\ f.ranAfter = m.ranAfter
  BY <1>3, <1>5 DEF TxnRec
<1> QED
  BY <1>1, <1>3, <1>4, <1>5, <1>6

\* What a step of the callback does to the record: only the hooks that wait grow, and what is queued.
LEMMA BodyKeeps ==
    ASSUME TxnInv, NEW t \in Txn,
           \/ T!Begin(t) \/ T!QueueEntity(t) \/ T!FlushQueue(t) \/ T!AskLock(t) \/ T!InsertRow(t) \/ T!UpdateRow(t)
    PROVE  TxnInv'
<1>1. PICK r : r = txn[t]
  OBVIOUS
<1>2. /\ r \in TxnRec /\ TxnFits(t, r, Mine(t)) /\ owner \subseteq Txn /\ row \in {"absent", "new", "fresh", "old"}
      /\ Len(r.before) \in Nat /\ Len(r.after) \in Nat
  BY <1>1, TxnIs
<1>3. CASE T!Begin(t)
  <2>1. PICK n : n = [r EXCEPT !.at = "body"]
    OBVIOUS
  <2>2. n \in TxnRec /\ TxnFits(t, n, Mine(t))
    BY <1>1, <1>2, <1>3, <2>1 DEF TxnRec, TxnFits, T!Begin
  <2> QED
    BY <1>1, <1>2, <1>3, <2>1, <2>2, TxnMoves DEF T!Begin
<1>4. CASE T!QueueEntity(t)
  <2>1. PICK n : n = [r EXCEPT !.queued = @ + 1]
    OBVIOUS
  <2>2. n \in TxnRec /\ TxnFits(t, n, Mine(t))
    BY <1>1, <1>2, <1>4, <2>1 DEF TxnRec, TxnFits, T!QueueEntity
  <2> QED
    BY <1>1, <1>2, <1>4, <2>1, <2>2, TxnMoves DEF T!QueueEntity
<1>5. CASE T!FlushQueue(t)
  <2>1. PICK n : n = T!Flushed(r)
    OBVIOUS
  <2>2. /\ n.flushed = r.flushed + r.queued /\ n.queued = 0 /\ n \in TxnRec
        /\ n.at = r.at /\ n.before = r.before /\ n.after = r.after /\ n.ranBefore = r.ranBefore /\ n.ranAfter = r.ranAfter
    BY <1>2, <2>1, FlushIs
  <2>3. r.at = "body"
    BY <1>1, <1>5 DEF T!FlushQueue
  <2>4. TxnFits(t, n, Mine(t))
    BY <1>2, <2>2, <2>3 DEF TxnFits
  <2> QED
    BY <1>1, <1>2, <1>5, <2>1, <2>2, <2>4, TxnMoves DEF T!FlushQueue
<1>6. CASE T!AskLock(t)
  <2>1. PICK n : n = [r EXCEPT !.at = IF dialect = "mysql" THEN "prepare" ELSE "update"]
    OBVIOUS
  <2>2. n \in TxnRec /\ TxnFits(t, n, Mine(t))
    BY <1>1, <1>2, <1>6, <2>1 DEF TxnRec, TxnFits, T!AskLock
  <2> QED
    BY <1>1, <1>2, <1>6, <2>1, <2>2, TxnMoves DEF T!AskLock
<1>7. CASE T!InsertRow(t)
  <2>1. PICK n : n = [r EXCEPT !.at = "update"]
    OBVIOUS
  <2>2. n \in TxnRec /\ TxnFits(t, n, Mine(t))
    BY <1>1, <1>2, <1>7, <2>1 DEF TxnRec, TxnFits, T!InsertRow
  <2>3. row' \in {"absent", "new", "fresh", "old"}
    BY <1>2, <1>7 DEF T!InsertRow
  <2> QED
    BY <1>1, <1>2, <1>7, <2>1, <2>2, <2>3, TxnMoves DEF T!InsertRow
<1>8. CASE T!UpdateRow(t)
  <2>1. PICK n : n = [r EXCEPT !.at = "body", !.held = TRUE]
    OBVIOUS
  <2>2. n \in TxnRec /\ TxnFits(t, n, Mine(t))
    BY <1>1, <1>2, <1>8, <2>1 DEF TxnRec, TxnFits, T!UpdateRow
  <2>3. owner' \subseteq Txn
    BY <1>2, <1>8 DEF T!UpdateRow
  <2> QED
    BY <1>1, <1>2, <1>8, <2>1, <2>2, <2>3, TxnMoves DEF T!UpdateRow
<1> QED
  BY <1>3, <1>4, <1>5, <1>6, <1>7, <1>8

\* The callback adds a hook.
LEMMA AddHookKeeps == ASSUME TxnInv, NEW t \in Txn, NEW hook \in T!Hook, T!AddHook(t, hook) PROVE TxnInv'
<1>1. PICK r : r = txn[t]
  OBVIOUS
<1>2. /\ r \in TxnRec /\ TxnFits(t, r, Mine(t)) /\ owner \subseteq Txn /\ row \in {"absent", "new", "fresh", "old"}
      /\ Len(r.before) \in Nat /\ Len(r.after) \in Nat
  BY <1>1, TxnIs
<1>3. PICK b \in Seq(T!Hook), a \in Seq(T!Hook) : b = r.before /\ a = r.after
  BY <1>2 DEF TxnRec
<1>4. PICK b2, a2 : b2 = Append(b, hook) /\ a2 = Append(a, hook)
  OBVIOUS
<1>5. /\ b2 \in Seq(T!Hook) /\ Len(b2) = Len(b) + 1
      /\ a2 \in Seq(T!Hook) /\ Len(a2) = Len(a) + 1
  BY <1>3, <1>4, HookAdded
<1>6. r.at = "body" /\ r.ranBefore = 0 /\ r.ranAfter = 0 /\ Mine(t) = {}
  BY <1>1, <1>2 DEF T!AddHook, TxnFits
<1>7. \/ T!Set(t, [r EXCEPT !.before = b2])
      \/ T!Set(t, [r EXCEPT !.after = a2])
  BY <1>1, <1>3, <1>4 DEF T!AddHook
<1>8. CASE T!Set(t, [r EXCEPT !.before = b2])
  <2>1. PICK n : n = [r EXCEPT !.before = b2]
    OBVIOUS
  <2>2. n \in TxnRec /\ TxnFits(t, n, Mine(t))
    <3>1. n \in TxnRec /\ n.before = b2 /\ n.at = "body" /\ n.ranBefore = 0 /\ n.ranAfter = 0 /\ n.after = a
      BY <1>2, <1>3, <1>5, <1>6, <2>1 DEF TxnRec
    <3> QED
      BY <1>3, <1>5, <1>6, <3>1 DEF TxnFits
  <2> QED
    BY <1>2, <1>8, <2>1, <2>2, TxnMoves DEF T!AddHook
<1>9. CASE T!Set(t, [r EXCEPT !.after = a2])
  <2>1. PICK n : n = [r EXCEPT !.after = a2]
    OBVIOUS
  <2>2. n \in TxnRec /\ TxnFits(t, n, Mine(t))
    <3>1. n \in TxnRec /\ n.after = a2 /\ n.at = "body" /\ n.ranBefore = 0 /\ n.ranAfter = 0 /\ n.before = b
      BY <1>2, <1>3, <1>5, <1>6, <2>1 DEF TxnRec
    <3> QED
      BY <1>3, <1>5, <1>6, <3>1 DEF TxnFits
  <2> QED
    BY <1>2, <1>9, <2>1, <2>2, TxnMoves DEF T!AddHook
<1> QED
  BY <1>7, <1>8, <1>9

\* ensureMysqlLocksTable() is nothing to what is stored, nor is the time that passes.
LEMMA LocksKeep ==
    ASSUME TxnInv, \/ \E t \in Txn : T!Prepare(t)
                   \/ T!Age \/ \E p \in T!Process : T!Purge(p)
    PROVE  TxnInv'
<1>1. /\ prepared \in [T!Process -> {"no", "purging", "done", "failed"}]
      /\ row \in {"absent", "new", "fresh", "old"} /\ owner \subseteq Txn
      /\ txn \in [Txn -> TxnRec] /\ stored \subseteq Txn \X Nat /\ dialect \in {"mysql", "postgres"}
  BY TxnTyped DEF TxnInv
<1>2. ASSUME txn' = txn, stored' = stored, dialect' = dialect, owner' = owner,
             row' \in {"absent", "new", "fresh", "old"},
             prepared' \in [T!Process -> {"no", "purging", "done", "failed"}]
      PROVE  TxnInv'
  <2>1. T!TypeOK'
    BY <1>1, <1>2 DEF T!TypeOK, TxnRec
  <2>2. \A t \in Txn : TxnFits(t, txn'[t], Mine(t)')
    BY <1>2 DEF Mine, TxnInv
  <2> QED
    BY <2>1, <2>2 DEF TxnInv
<1>3. ASSUME NEW t \in Txn, T!Prepare(t) PROVE TxnInv'
  <2>1. CASE txn' = txn
    <3>1. PICK p : prepared' = [prepared EXCEPT ![p] = "purging"]
      <4>1. txn[t].at = "prepare"
        BY <1>3 DEF T!Prepare
      <4>2. ASSUME T!Set(t, [txn[t] EXCEPT !.at = "insert"]) PROVE FALSE
        <5>1. txn'[t].at = "insert"
          BY <1>1, <4>2 DEF T!Set, TxnRec
        <5> QED
          BY <2>1, <4>1, <5>1
      <4> QED
        BY <1>3, <4>2 DEF T!Prepare
    <3>2. prepared' \in [T!Process -> {"no", "purging", "done", "failed"}]
      BY <1>1, <3>1
    <3> QED
      BY <1>1, <1>2, <1>3, <2>1, <3>2 DEF T!Prepare
  <2>2. CASE txn' # txn
    <3>1. PICK n : n = [txn[t] EXCEPT !.at = "insert"]
      OBVIOUS
    <3>2. T!Set(t, n) /\ prepared' = prepared /\ stored' = stored /\ row' = row /\ owner' = owner /\ dialect' = dialect
          /\ txn[t].at = "prepare"
      BY <1>3, <2>2, <3>1 DEF T!Prepare
    <3>3. n \in TxnRec /\ TxnFits(t, n, Mine(t))
      BY <3>1, <3>2, TxnIs DEF TxnRec, TxnFits
    <3> QED
      BY <1>1, <3>2, <3>3, TxnMoves
  <2> QED
    BY <2>1, <2>2
<1>4. CASE T!Age
  BY <1>1, <1>2, <1>4 DEF T!Age
<1>5. ASSUME NEW p \in T!Process, T!Purge(p) PROVE TxnInv'
  <2>1. /\ txn' = txn /\ stored' = stored /\ dialect' = dialect /\ owner' = owner
        /\ row' \in {"absent", "new", "fresh", "old"}
    BY <1>1, <1>5 DEF T!Purge
  <2>2. prepared' \in [T!Process -> {"no", "purging", "done", "failed"}]
    BY <1>1, <1>5 DEF T!Purge
  <2> QED
    BY <1>2, <2>1, <2>2
<1> QED
  BY <1>3, <1>4, <1>5

\* Nothing of it is in the database, and no hook after the commit has run.
LEMMA RollbackKeeps == ASSUME TxnInv, NEW t \in Txn, T!Rollback(t) PROVE TxnInv'
<1>1. PICK r : r = txn[t]
  OBVIOUS
<1>2. r \in TxnRec /\ TxnFits(t, r, Mine(t)) /\ owner \subseteq Txn /\ row \in {"absent", "new", "fresh", "old"}
  BY <1>1, TxnIs
<1>3. r.at \notin {"after", "over"} /\ r.ranAfter = 0 /\ Mine(t) = {}
  BY <1>1, <1>2 DEF T!Rollback, TxnFits
<1>4. PICK n : n = [r EXCEPT !.at = "over", !.outcome = "rolledBack", !.held = FALSE]
  OBVIOUS
<1>5. n \in TxnRec /\ n.at = "over" /\ n.outcome = "rolledBack" /\ n.ranAfter = 0
      /\ n.before = r.before /\ n.after = r.after /\ n.ranBefore = r.ranBefore
  BY <1>2, <1>3, <1>4 DEF TxnRec
<1>6. TxnFits(t, n, Mine(t))
  BY <1>2, <1>3, <1>5 DEF TxnFits
<1>7. owner' \subseteq Txn
  BY <1>2 DEF T!Rollback, T!Release
<1> QED
  BY <1>1, <1>2, <1>4, <1>5, <1>6, <1>7, TxnMoves DEF T!Rollback

\* No hook has run yet; without any there is nothing to run.
LEMMA ReturnKeeps == ASSUME TxnInv, NEW t \in Txn, T!Return(t) PROVE TxnInv'
<1>1. PICK r : r = txn[t]
  OBVIOUS
<1>2. r \in TxnRec /\ TxnFits(t, r, Mine(t)) /\ owner \subseteq Txn /\ row \in {"absent", "new", "fresh", "old"}
  BY <1>1, TxnIs
<1>3. r.at = "body" /\ r.ranAfter = 0 /\ r.ranBefore = 0 /\ Mine(t) = {}
  BY <1>1, <1>2 DEF T!Return, TxnFits
<1>4. CASE r.before = <<>>
  <2>1. PICK n : n = [r EXCEPT !.at = "commit"]
    OBVIOUS
  <2>2. n \in TxnRec /\ n.at = "commit" /\ n.ranAfter = 0 /\ n.ranBefore = 0 /\ n.before = <<>> /\ n.after = r.after
    BY <1>2, <1>3, <1>4, <2>1 DEF TxnRec
  <2>3. TxnFits(t, n, Mine(t))
    BY <1>2, <1>3, <2>2 DEF TxnFits
  <2> QED
    BY <1>1, <1>2, <1>4, <2>1, <2>2, <2>3, TxnMoves DEF T!Return
<1>5. CASE r.before # <<>>
  <2>1. PICK f : f = T!Flushed(r)
    OBVIOUS
  <2>2. f \in TxnRec /\ f.before = r.before /\ f.after = r.after /\ f.ranBefore = 0 /\ f.ranAfter = 0
    BY <1>2, <1>3, <2>1, FlushIs
  <2>3. PICK n : n = [f EXCEPT !.at = "before"]
    OBVIOUS
  <2>4. n \in TxnRec /\ n.at = "before" /\ n.ranAfter = 0 /\ n.ranBefore = 0 /\ n.before = r.before /\ n.after = r.after
    BY <2>2, <2>3 DEF TxnRec
  <2>5. TxnFits(t, n, Mine(t))
    BY <1>2, <1>3, <2>4 DEF TxnFits
  <2> QED
    BY <1>1, <1>2, <1>5, <2>1, <2>3, <2>4, <2>5, TxnMoves DEF T!Return
<1> QED
  BY <1>4, <1>5

\* The loop ends when every hook has run, those included that hooks have added.
LEMMA RunBeforeKeeps == ASSUME TxnInv, NEW t \in Txn, T!RunBefore(t) PROVE TxnInv'
<1>1. PICK r : r = txn[t]
  OBVIOUS
<1>2. r \in TxnRec /\ TxnFits(t, r, Mine(t)) /\ owner \subseteq Txn /\ row \in {"absent", "new", "fresh", "old"}
  BY <1>1, TxnIs
<1>3. r.at = "before" /\ r.ranAfter = 0 /\ Mine(t) = {} /\ r.ranBefore \in Nat /\ r.ranBefore <= Len(r.before)
  BY <1>1, <1>2 DEF T!RunBefore, TxnFits, TxnRec
<1>4. PICK b \in Seq(T!Hook) : b = r.before /\ Len(b) \in Nat
  BY <1>2 DEF TxnRec
<1>5. CASE r.ranBefore = Len(r.before)
  <2>1. PICK n : n = [r EXCEPT !.at = "commit"]
    OBVIOUS
  <2>2. n \in TxnRec /\ n.at = "commit" /\ n.ranAfter = 0 /\ n.ranBefore = Len(r.before) /\ n.before = r.before /\ n.after = r.after
    BY <1>2, <1>3, <1>5, <2>1 DEF TxnRec
  <2>3. TxnFits(t, n, Mine(t))
    BY <1>2, <1>3, <2>2 DEF TxnFits
  <2> QED
    BY <1>1, <1>2, <1>5, <2>1, <2>2, <2>3, TxnMoves DEF T!RunBefore
<1>6. CASE r.ranBefore # Len(r.before)
  <2>1. PICK hook : hook = b[r.ranBefore + 1]
    OBVIOUS
  <2>2. PICK k, g, q : /\ k = r.ranBefore + 1 /\ g = (IF hook = "adds" THEN Append(b, "ok") ELSE b)
                       /\ q = (IF hook = "queues" THEN r.queued + 1 ELSE r.queued)
    OBVIOUS
  <2>3. k \in Nat /\ k <= Len(b)
    BY <1>3, <1>4, <1>6, <2>2
  <2>4. g \in Seq(T!Hook) /\ Len(g) \in Nat /\ Len(b) <= Len(g)
    <3>1. "ok" \in T!Hook
      BY DEF T!Hook
    <3>2. Append(b, "ok") \in Seq(T!Hook) /\ Len(Append(b, "ok")) = Len(b) + 1
      BY <3>1, HookAdded
    <3> QED
      BY <1>4, <2>2, <3>2
  <2>5. q \in Nat
    BY <1>2, <2>2 DEF TxnRec
  <2>6. PICK n : n = [r EXCEPT !.ranBefore = k, !.before = g, !.queued = q]
    OBVIOUS
  <2>7. n \in TxnRec /\ n.at = "before" /\ n.ranAfter = 0 /\ n.ranBefore = k /\ n.before = g /\ n.after = r.after
    BY <1>2, <1>3, <2>3, <2>4, <2>5, <2>6 DEF TxnRec
  <2>8. TxnFits(t, n, Mine(t))
    BY <1>2, <1>3, <2>3, <2>4, <2>7 DEF TxnFits
  <2>9. T!Set(t, [r EXCEPT !.ranBefore = @ + 1,
                           !.before = IF hook = "adds" THEN Append(@, "ok") ELSE @,
                           !.queued = IF hook = "queues" THEN @ + 1 ELSE @])
    BY <1>1, <1>4, <1>6, <2>1 DEF T!RunBefore
  <2>10. n = [r EXCEPT !.ranBefore = @ + 1,
                       !.before = IF hook = "adds" THEN Append(@, "ok") ELSE @,
                       !.queued = IF hook = "queues" THEN @ + 1 ELSE @]
    <3>1. r = [at |-> r.at, queued |-> r.queued, flushed |-> r.flushed, before |-> r.before, after |-> r.after,
               ranBefore |-> r.ranBefore, ranAfter |-> r.ranAfter, held |-> r.held, outcome |-> r.outcome]
      BY <1>2 DEF TxnRec
    <3> QED
      BY <1>4, <2>2, <2>6, <3>1
  <2> QED
    BY <1>1, <1>2, <2>7, <2>8, <2>9, <2>10, TxnMoves DEF T!RunBefore
<1> QED
  BY <1>5, <1>6

\* The commit writes what is queued and all that has been flushed.
LEMMA CommitKeeps == ASSUME TxnInv, NEW t \in Txn, T!Commit(t) PROVE TxnInv'
<1>1. PICK r : r = txn[t]
  OBVIOUS
<1>2. /\ r \in TxnRec /\ TxnFits(t, r, Mine(t)) /\ owner \subseteq Txn /\ row \in {"absent", "new", "fresh", "old"}
      /\ stored \subseteq Txn \X Nat /\ prepared \in [T!Process -> {"no", "purging", "done", "failed"}]
  BY <1>1, TxnIs
<1>3. PICK f : f = T!Flushed(r)
  OBVIOUS
<1>4. /\ f \in TxnRec /\ f.queued = 0 /\ f.at = r.at /\ f.before = r.before /\ f.after = r.after
      /\ f.ranBefore = r.ranBefore /\ f.ranAfter = r.ranAfter
  BY <1>2, <1>3, FlushIs
<1>5. r.at = "commit" /\ r.ranAfter = 0 /\ r.ranBefore = Len(r.before) /\ Mine(t) = {}
  BY <1>1, <1>2, <1>3, <1>4 DEF T!Commit, TxnFits
<1>6. PICK n : n = [f EXCEPT !.at = "after", !.outcome = "committed", !.held = FALSE]
  OBVIOUS
<1>7. /\ n \in TxnRec /\ n.at = "after" /\ n.outcome = "committed" /\ n.queued = 0 /\ n.flushed = f.flushed
      /\ n.flushed \in Nat /\ n.before = r.before /\ n.after = r.after /\ n.ranBefore = r.ranBefore /\ n.ranAfter = 0
  BY <1>4, <1>5, <1>6 DEF TxnRec
<1>8. /\ T!Set(t, n) /\ stored' = stored \cup {<<t, k>> : k \in 1..f.flushed}
      /\ dialect' = dialect /\ prepared' = prepared
  BY <1>1, <1>3, <1>6 DEF T!Commit
<1>9. row' \in {"absent", "new", "fresh", "old"} /\ owner' \subseteq Txn
  BY <1>2 DEF T!Commit, T!Release
<1>10. stored' \subseteq Txn \X Nat
  BY <1>2, <1>7, <1>8
<1>11. Mine(t)' = All(t, n)
  <2>1. All(t, n) = {<<t, k>> : k \in 1..f.flushed}
    BY <1>7 DEF All
  <2> QED
    BY <1>5, <1>8, <2>1 DEF Mine
<1>12. \A u \in Txn \ {t} : Mine(u)' = Mine(u)
  BY <1>8 DEF Mine
<1>13. TxnFits(t, n, Mine(t)')
  BY <1>2, <1>5, <1>7, <1>11 DEF TxnFits
<1> QED
  BY <1>2, <1>7, <1>8, <1>9, <1>10, <1>12, <1>13, TxnSets

\* What is stored stays; the loop ends behind the last hook, or at one that throws.
LEMMA RunAfterKeeps == ASSUME TxnInv, NEW t \in Txn, T!RunAfter(t) PROVE TxnInv'
<1>1. PICK r : r = txn[t]
  OBVIOUS
<1>2. r \in TxnRec /\ TxnFits(t, r, Mine(t)) /\ owner \subseteq Txn /\ row \in {"absent", "new", "fresh", "old"}
  BY <1>1, TxnIs
<1>3. /\ r.at = "after" /\ r.outcome = "committed" /\ r.ranBefore = Len(r.before) /\ Mine(t) = All(t, r)
      /\ r.ranAfter \in Nat /\ r.ranAfter <= Len(r.after)
  BY <1>1, <1>2 DEF T!RunAfter, TxnFits, TxnRec
<1>4. PICK a \in Seq(T!Hook) : a = r.after /\ Len(a) \in Nat
  BY <1>2 DEF TxnRec
<1>5. CASE r.ranAfter = Len(r.after)
  <2>1. PICK n : n = [r EXCEPT !.at = "over"]
    OBVIOUS
  <2>2. /\ n \in TxnRec /\ n.at = "over" /\ n.outcome = "committed" /\ n.ranAfter = Len(r.after) /\ n.ranBefore = r.ranBefore
        /\ n.before = r.before /\ n.after = r.after /\ n.queued = r.queued /\ n.flushed = r.flushed
    BY <1>2, <1>3, <1>5, <2>1 DEF TxnRec
  <2>3. TxnFits(t, n, Mine(t))
    BY <1>2, <1>3, <2>2 DEF TxnFits, All
  <2> QED
    BY <1>1, <1>2, <1>5, <2>1, <2>2, <2>3, TxnMoves DEF T!RunAfter
<1>6. CASE r.ranAfter # Len(r.after)
  <2>1. PICK k, hook : k = r.ranAfter + 1 /\ hook = a[k]
    OBVIOUS
  <2>2. k \in Nat /\ k <= Len(a)
    BY <1>3, <1>4, <1>6, <2>1
  <2>3. CASE hook = "throws"
    <3>1. PICK n : n = [r EXCEPT !.ranAfter = k, !.at = "over", !.outcome = "rejected"]
      OBVIOUS
    <3>2. /\ n \in TxnRec /\ n.at = "over" /\ n.outcome = "rejected" /\ n.ranAfter = k /\ n.ranBefore = r.ranBefore
          /\ n.before = r.before /\ n.after = a /\ n.queued = r.queued /\ n.flushed = r.flushed
      BY <1>2, <1>4, <2>2, <3>1 DEF TxnRec
    <3>3. TxnFits(t, n, Mine(t))
      BY <1>2, <1>3, <2>1, <2>2, <2>3, <3>2 DEF TxnFits, All
    <3>4. T!Set(t, n)
      BY <1>1, <1>4, <1>6, <2>1, <2>3, <3>1 DEF T!RunAfter
    <3> QED
      BY <1>2, <3>2, <3>3, <3>4, TxnMoves DEF T!RunAfter
  <2>4. CASE hook # "throws"
    <3>1. PICK g : g = (IF hook = "adds" THEN Append(a, "ok") ELSE a)
      OBVIOUS
    <3>2. g \in Seq(T!Hook) /\ Len(g) \in Nat /\ Len(a) <= Len(g)
      <4>1. "ok" \in T!Hook
        BY DEF T!Hook
      <4>2. Append(a, "ok") \in Seq(T!Hook) /\ Len(Append(a, "ok")) = Len(a) + 1
        BY <4>1, HookAdded
      <4> QED
        BY <1>4, <3>1, <4>2
    <3>3. PICK n : n = [r EXCEPT !.ranAfter = k, !.after = g]
      OBVIOUS
    <3>4. /\ n \in TxnRec /\ n.at = "after" /\ n.outcome = "committed" /\ n.ranAfter = k /\ n.ranBefore = r.ranBefore
          /\ n.before = r.before /\ n.after = g /\ n.queued = r.queued /\ n.flushed = r.flushed
      BY <1>2, <1>3, <2>2, <3>2, <3>3 DEF TxnRec
    <3>5. TxnFits(t, n, Mine(t))
      BY <1>2, <1>3, <2>2, <3>2, <3>4 DEF TxnFits, All
    <3>6. T!Set(t, [r EXCEPT !.ranAfter = @ + 1, !.after = IF hook = "adds" THEN Append(@, "ok") ELSE @])
      BY <1>1, <1>4, <1>6, <2>1, <2>4 DEF T!RunAfter
    <3>7. n = [r EXCEPT !.ranAfter = @ + 1, !.after = IF hook = "adds" THEN Append(@, "ok") ELSE @]
      <4>1. r = [at |-> r.at, queued |-> r.queued, flushed |-> r.flushed, before |-> r.before, after |-> r.after,
                 ranBefore |-> r.ranBefore, ranAfter |-> r.ranAfter, held |-> r.held, outcome |-> r.outcome]
        BY <1>2 DEF TxnRec
      <4> QED
        BY <1>4, <2>1, <3>1, <3>3, <4>1
    <3> QED
      BY <1>2, <3>4, <3>5, <3>6, <3>7, TxnMoves DEF T!RunAfter
  <2> QED
    BY <2>3, <2>4
<1> QED
  BY <1>5, <1>6

\* Every step of a transaction and of the database keeps the invariant.
LEMMA TxnStepping == TxnInv /\ T!Next => TxnInv'
<1> SUFFICES ASSUME TxnInv, T!Next PROVE TxnInv'
  OBVIOUS
<1>1. ASSUME NEW t \in Txn,
             \/ T!Begin(t) \/ T!QueueEntity(t) \/ T!FlushQueue(t) \/ T!AskLock(t) \/ T!InsertRow(t) \/ T!UpdateRow(t)
      PROVE  TxnInv'
  BY <1>1, BodyKeeps
<1>2. ASSUME NEW t \in Txn, \/ T!Rollback(t) \/ T!Return(t) \/ T!RunBefore(t) \/ T!Commit(t) \/ T!RunAfter(t)
                            \/ \E hook \in T!Hook : T!AddHook(t, hook)
      PROVE  TxnInv'
  BY <1>2, RollbackKeeps, ReturnKeeps, RunBeforeKeeps, CommitKeeps, RunAfterKeeps, AddHookKeeps
<1>3. ASSUME \/ \E t \in Txn : T!Prepare(t)
             \/ T!Age \/ \E p \in T!Process : T!Purge(p)
      PROVE  TxnInv'
  BY <1>3, LocksKeep
<1> QED
  BY <1>1, <1>2, <1>3 DEF T!Next

\* Of any transactions of any processes, whatever their hooks do and wherever they fail: one that
\* is over has stored nothing and run no hook after a commit, or has stored all and run every hook
\* before the commit, and every hook after it up to one that threw (common.ts, transaction).
THEOREM TransactionsAreWhole == PartsSpec => []AllOrNothing
<1>1. PartsInit => TxnInv
  BY TxnBegins DEF PartsInit
<1>2. UNCHANGED T!vars /\ TxnInv => TxnInv'
  BY DEF T!vars, TxnInv, TxnFits, Mine, All, T!TypeOK
<1>3. TxnInv /\ [PartsNext]_allVars => TxnInv'
  BY <1>2, TxnStepping, PartsKeepDialect DEF PartsNext, allVars, T!vars, tvars
<1>4. TxnInv => AllOrNothing
  <2> SUFFICES ASSUME TxnInv PROVE T!AllOrNothing
    BY DEF AllOrNothing
  <2>1. ASSUME NEW t \in Txn, txn[t].at = "over"
        PROVE  LET r == txn[t] IN
                 /\ r.outcome = "rolledBack" => r.ranAfter = 0 /\ {e \in stored : e[1] = t} = {}
                 /\ r.outcome # "rolledBack" =>
                     /\ {e \in stored : e[1] = t} = {<<t, n>> : n \in 1..(r.queued + r.flushed)}
                     /\ r.ranBefore = Len(r.before)
                 /\ r.outcome = "committed" => r.ranAfter = Len(r.after)
                 /\ r.outcome = "rejected" => r.after[r.ranAfter] = "throws"
    BY <2>1 DEF TxnInv, TxnFits, Mine, All
  <2> QED
    BY <2>1 DEF TxnInv, T!AllOrNothing
<1> QED
  BY <1>1, <1>3, <1>4, PTL DEF PartsSpec

-----------------------------------------------------------------------------
(* Tests and their savepoints. *)

TestRow == [test : Nat, txn : TestTxn \cup {"none", "seed"}]
Savepoint == [name : TestTxn \cup {"after_seed"}, rows : SUBSET TestRow]
TestState == [state : {"idle", "open", "stuck", "committed", "rolled back"}, test : Nat, wrote : BOOLEAN, alone : BOOLEAN]

TestTypes ==
    /\ phase \in {"started", "isolated", "stopped"} /\ base \subseteq I!Seed
    /\ test \in Nat /\ seen \in SUBSET TestRow /\ saves \in Seq(Savepoint)
    /\ txns \in [TestTxn -> TestState]

\* The savepoint of the seed is the first; the others are of transactions of the test that runs.
SavedInOrder ==
    /\ Len(saves) > 0 /\ saves[1] = [name |-> "after_seed", rows |-> I!Seed]
    /\ \A i \in 2..Len(saves) : saves[i].name \in TestTxn /\ I!Present(saves[i].name)

\* Rows of the seed and of this test, and none of a transaction that is still to begin.
Clean(held) ==
    /\ \A r \in held \ I!Seed : r.test = test
    /\ \A t \in TestTxn : txns[t].test = 0 => I!Row(t) \notin held

\* While a lone transaction is open its savepoint is there, from before its first write, and no other
\* one of the test is open; when it is over, the savepoints of open ones agree with how it ended.
Lone(t) ==
    /\ t \in I!Begun =>
          /\ \A u \in TestTxn \ {t} : u \in I!Begun => ~I!Present(u)
          /\ I!IsSaved(t)
          /\ \A i \in DOMAIN saves : saves[i].name = t => I!Row(t) \notin saves[i].rows
          /\ txns[t].wrote => I!Row(t) \in seen
    /\ txns[t].state = "committed" /\ txns[t].wrote =>
          I!Row(t) \in seen /\ \A i \in DOMAIN saves : saves[i].name \in I!Begun => I!Row(t) \in saves[i].rows
    /\ txns[t].state = "rolled back" =>
          I!Row(t) \notin seen /\ \A i \in DOMAIN saves : saves[i].name \in I!Begun => I!Row(t) \notin saves[i].rows

KeptApart ==
    /\ test > 0 /\ SavedInOrder
    /\ Clean(seen) /\ \A i \in DOMAIN saves : Clean(saves[i].rows)
    /\ \A t \in TestTxn : txns[t].test <= test /\ (txns[t].state # "idle" => txns[t].test > 0)
    /\ \A t \in TestTxn : I!Present(t) /\ txns[t].alone => Lone(t)

TestInv ==
    /\ TestTypes
    /\ phase = "started" => test = 0 /\ \A t \in TestTxn : txns[t] = I!Idle
    /\ phase = "isolated" => KeptApart

\* The beginning of a sequence.
LEMMA PrefixIs ==
    ASSUME NEW Elem, NEW s \in Seq(Elem), NEW p \in Nat, p <= Len(s)
    PROVE  SubSeq(s, 1, p) \in Seq(Elem) /\ Len(SubSeq(s, 1, p)) = p /\ \A i \in 1..p : SubSeq(s, 1, p)[i] = s[i]
OBVIOUS

\* A sequence and one more element.
LEMMA AppendIs ==
    ASSUME NEW Elem, NEW s \in Seq(Elem), NEW e \in Elem
    PROVE  /\ Append(s, e) \in Seq(Elem) /\ Len(Append(s, e)) = Len(s) + 1 /\ Len(s) \in Nat
           /\ Append(s, e)[Len(s) + 1] = e /\ \A i \in 1..Len(s) : Append(s, e)[i] = s[i]
OBVIOUS

\* No test has run.
LEMMA TestsBegin == I!Init => TestInv
<1> SUFFICES ASSUME I!Init PROVE TestInv
  OBVIOUS
<1>1. I!Idle \in TestState
  BY DEF I!Idle, TestState
<1>2. TestTypes
  <2>1. <<>> \in Seq(Savepoint)
    OBVIOUS
  <2> QED
    BY <1>1, <2>1 DEF I!Init, TestTypes
<1> QED
  BY <1>2 DEF I!Init, TestInv

\* Where a savepoint is, and that the one of the seed is the first.
LEMMA PlaceIs ==
    ASSUME TestTypes, SavedInOrder
    PROVE  /\ Len(saves) \in Nat /\ I!PlaceOf("after_seed") = 1
           /\ \A t \in TestTxn : I!IsSaved(t) =>
                 /\ I!PlaceOf(t) \in 2..Len(saves) /\ saves[I!PlaceOf(t)].name = t /\ I!Present(t)
<1>1. Len(saves) \in Nat /\ DOMAIN saves = 1..Len(saves)
  BY DEF TestTypes
<1>2. \A i \in DOMAIN saves : saves[i].name = "after_seed" <=> i = 1
  BY <1>1, TestAssumption DEF SavedInOrder
<1>3. I!PlaceOf("after_seed") = 1
  BY <1>1, <1>2 DEF I!PlaceOf, SavedInOrder
<1>4. ASSUME NEW t \in TestTxn, I!IsSaved(t)
      PROVE  I!PlaceOf(t) \in 2..Len(saves) /\ saves[I!PlaceOf(t)].name = t /\ I!Present(t)
  <2>1. I!PlaceOf(t) \in DOMAIN saves /\ saves[I!PlaceOf(t)].name = t
    BY <1>4 DEF I!IsSaved, I!PlaceOf
  <2>2. I!PlaceOf(t) # 1
    BY <1>2, <2>1, TestAssumption
  <2> QED
    BY <1>1, <2>1, <2>2 DEF SavedInOrder
<1> QED
  BY <1>1, <1>3, <1>4

\* A savepoint is an element of its sequence.
LEMMA SavedIs ==
    ASSUME TestTypes
    PROVE  /\ DOMAIN saves = 1..Len(saves) /\ Len(saves) \in Nat
           /\ \A i \in DOMAIN saves : saves[i] \in Savepoint /\ saves[i].rows \in SUBSET TestRow
<1>1. saves \in Seq(Savepoint)
  BY DEF TestTypes
<1>2. \A e \in Savepoint : e.rows \in SUBSET TestRow
  BY DEF Savepoint
<1> QED
  BY <1>1, <1>2

\* seedData() and the first savepoint.
LEMMA FirstResetKeeps == ASSUME TestInv, I!FirstReset PROVE TestInv'
<1>1. /\ phase = "started" /\ phase' = "isolated" /\ test = 0 /\ test' = 1 /\ txns' = txns
      /\ base' = I!Seed /\ seen' = I!Seed /\ saves' = <<[name |-> "after_seed", rows |-> I!Seed]>>
      /\ TestTypes /\ \A t \in TestTxn : txns[t] = I!Idle
  BY DEF I!FirstReset, TestInv
<1>2. I!Seed \in SUBSET TestRow
  BY DEF I!Seed, TestRow
<1>3. saves' \in Seq(Savepoint) /\ Len(saves') = 1 /\ saves'[1] = [name |-> "after_seed", rows |-> I!Seed] /\ DOMAIN saves' = {1}
  <2>1. [name |-> "after_seed", rows |-> I!Seed] \in Savepoint
    BY <1>2 DEF Savepoint
  <2> QED
    BY <1>1, <2>1
<1>4. TestTypes'
  BY <1>1, <1>2, <1>3 DEF TestTypes
<1>5. Clean(I!Seed)'
  <2>1. ASSUME NEW t \in TestTxn PROVE I!Row(t)' \notin I!Seed
    BY <1>1 DEF I!Row, I!Seed
  <2> QED
    BY <2>1 DEF Clean
<1>6. Clean(seen)' /\ \A i \in DOMAIN saves' : Clean(saves[i].rows)'
  <2>1. seen' = I!Seed /\ \A i \in DOMAIN saves' : saves'[i].rows = I!Seed
    BY <1>1, <1>3
  <2> QED
    BY <1>5, <2>1 DEF Clean
<1>7. SavedInOrder'
  BY <1>3 DEF SavedInOrder
<1>8. \A t \in TestTxn : txns'[t].test = 0 /\ txns'[t].state = "idle"
  BY <1>1 DEF I!Idle
<1>9. KeptApart'
  BY <1>1, <1>6, <1>7, <1>8 DEF KeptApart, I!Present
<1> QED
  BY <1>1, <1>4, <1>9 DEF TestInv

\* Back to the seed, whatever is open: no transaction is of the new test.
LEMMA ResetKeeps == ASSUME TestInv, I!Reset PROVE TestInv'
<1>1. TestTypes /\ KeptApart /\ SavedInOrder
  BY DEF I!Reset, TestInv, KeptApart
<1>2. I!PlaceOf("after_seed") = 1 /\ Len(saves) \in Nat /\ Len(saves) > 0
  BY <1>1, PlaceIs DEF SavedInOrder
<1>3. /\ phase = "isolated" /\ phase' = phase /\ test' = test + 1 /\ base' = base /\ txns' = txns
      /\ seen' = saves[1].rows /\ saves' = SubSeq(saves, 1, 1)
  BY <1>2 DEF I!Reset, I!RollbackTo
<1>4. /\ saves' \in Seq(Savepoint) /\ Len(saves') = 1 /\ saves'[1] = [name |-> "after_seed", rows |-> I!Seed]
      /\ DOMAIN saves' = {1} /\ seen' = I!Seed
  <2>1. saves \in Seq(Savepoint) /\ 1 \in Nat /\ 1 <= Len(saves)
    BY <1>1, <1>2 DEF TestTypes
  <2>2. SubSeq(saves, 1, 1) \in Seq(Savepoint) /\ Len(SubSeq(saves, 1, 1)) = 1 /\ \A i \in 1..1 : SubSeq(saves, 1, 1)[i] = saves[i]
    BY <2>1, PrefixIs
  <2> QED
    BY <1>1, <1>3, <2>2 DEF SavedInOrder
<1>5. TestTypes'
  <2>1. I!Seed \in SUBSET TestRow
    BY DEF I!Seed, TestRow
  <2> QED
    BY <1>1, <1>3, <1>4, <2>1 DEF TestTypes
<1>6. test \in Nat /\ test > 0 /\ \A t \in TestTxn : txns[t].test \in Nat /\ txns[t].test <= test
  BY <1>1 DEF TestTypes, KeptApart, TestState
<1>7. Clean(I!Seed)'
  <2>1. ASSUME NEW t \in TestTxn PROVE I!Row(t)' \notin I!Seed
    BY <1>3, <1>6 DEF I!Row, I!Seed
  <2> QED
    BY <2>1 DEF Clean
<1>8. Clean(seen)' /\ \A i \in DOMAIN saves' : Clean(saves[i].rows)'
  <2>1. seen' = I!Seed /\ \A i \in DOMAIN saves' : saves'[i].rows = I!Seed
    BY <1>4
  <2> QED
    BY <1>7, <2>1 DEF Clean
<1>9. SavedInOrder'
  BY <1>4 DEF SavedInOrder
<1>10. \A t \in TestTxn : ~I!Present(t)'
  BY <1>3, <1>6 DEF I!Present
<1>11. KeptApart'
  BY <1>1, <1>3, <1>6, <1>8, <1>9, <1>10 DEF KeptApart
<1> QED
  BY <1>3, <1>5, <1>11 DEF TestInv

\* After stop() nobody asks.
LEMMA StopKeeps == ASSUME TestInv, I!Stop PROVE TestInv'
<1>1. /\ TestTypes /\ phase' = "stopped" /\ test' = test /\ base' = base /\ seen' = base /\ saves' = <<>>
      /\ txns' = [t \in TestTxn |-> [txns[t] EXCEPT !.state = "idle"]]
  BY DEF I!Stop, TestInv
<1>2. base \in SUBSET TestRow
  BY <1>1 DEF TestTypes, I!Seed, TestRow
<1>3. txns' \in [TestTxn -> TestState]
  BY <1>1 DEF TestTypes, TestState
<1>4. <<>> \in Seq(Savepoint)
  OBVIOUS
<1>5. TestTypes'
  BY <1>1, <1>2, <1>3, <1>4 DEF TestTypes
<1> QED
  BY <1>1, <1>5 DEF TestInv

\* A query that fails changes no rows and no savepoints.
LEMMA FailureKeeps == ASSUME TestInv, I!QueryFails PROVE TestInv'
<1>1. /\ phase' = phase /\ base' = base /\ test' = test /\ txns' = txns /\ seen' = seen /\ saves' = saves
  BY DEF I!QueryFails, I!Fails
<1> QED
  BY <1>1 DEF TestInv, TestTypes, KeptApart, SavedInOrder, Clean, Lone, I!Present, I!Begun, I!Row, I!IsSaved

\* What a transaction's record has, and which are open.
LEMMA TestTxnIs ==
    ASSUME TestTypes, NEW t \in TestTxn
    PROVE  /\ txns[t] \in TestState /\ txns[t].test \in Nat /\ test \in Nat /\ I!Row(t).test = test /\ I!Row(t).txn = t
           /\ t \in I!Begun <=> txns[t].state \in {"open", "stuck"}
BY DEF TestTypes, TestState, I!Row, I!Begun

\* A row is written by an open transaction, or by none.
LEMMA WriteKeeps == ASSUME TestInv, I!Write PROVE TestInv'
<1>1. /\ TestTypes /\ KeptApart /\ SavedInOrder /\ phase = "isolated" /\ phase' = phase /\ base' = base
      /\ saves' = saves /\ test' = test
  BY DEF I!Write, I!Succeeds, TestInv, KeptApart
<1>2. PICK w \in I!Open \cup {"none"} :
         /\ seen' = seen \cup {I!Row(w)}
         /\ txns' = [u \in TestTxn |-> IF u = w THEN [txns[u] EXCEPT !.wrote = @ \/ I!Present(u)] ELSE txns[u]]
  BY DEF I!Write
<1>3. w \in TestTxn \cup {"none"} /\ (w \in TestTxn => txns[w].state = "open" /\ w \in I!Begun /\ txns[w].test > 0)
  <2>1. w \in TestTxn => txns[w].state = "open"
    BY <1>2, TestAssumption DEF I!Open
  <2> QED
    BY <1>1, <1>2, <2>1 DEF I!Open, I!Begun, KeptApart
<1>4. ASSUME NEW u \in TestTxn
      PROVE  /\ txns'[u] \in TestState /\ txns'[u].state = txns[u].state /\ txns'[u].test = txns[u].test
             /\ txns'[u].alone = txns[u].alone
             /\ txns'[u].wrote => txns[u].wrote \/ (u = w /\ I!Present(u))
  <2>1. txns[u] \in TestState
    BY <1>1, TestTxnIs
  <2>2. I!Present(u) \in BOOLEAN
    BY DEF I!Present
  <2> QED
    BY <1>2, <2>1, <2>2 DEF TestState
<1>5. TestTypes'
  <2>1. txns' \in [TestTxn -> TestState]
    BY <1>2, <1>4
  <2>2. I!Row(w) \in TestRow
    BY <1>1, <1>3 DEF I!Row, TestRow, TestTypes
  <2> QED
    BY <1>1, <1>2, <2>1, <2>2 DEF TestTypes
<1>6. \A u \in TestTxn : I!Row(u)' = I!Row(u) /\ (I!Present(u)' <=> I!Present(u)) /\ (u \in I!Begun' <=> u \in I!Begun)
  BY <1>1, <1>4 DEF I!Row, I!Present, I!Begun
<1>7. \A u \in TestTxn : I!Row(u) = I!Row(w) => u = w
  BY DEF I!Row
<1>8. Clean(seen)' /\ \A i \in DOMAIN saves : Clean(saves[i].rows)'
  <2>1. Clean(seen) /\ I!Row(w).test = test /\ \A i \in DOMAIN saves : Clean(saves[i].rows)
    BY <1>1 DEF KeptApart, I!Row
  <2>2. \A t \in TestTxn : txns'[t].test = 0 => I!Row(t) # I!Row(w)
    BY <1>1, <1>3, <1>4, <1>7, TestTxnIs
  <2> QED
    BY <1>1, <1>2, <1>4, <1>6, <2>1, <2>2 DEF Clean
<1>9. SavedInOrder'
  BY <1>1, <1>6 DEF SavedInOrder
<1>10. ASSUME NEW t \in TestTxn, I!Present(t)', txns'[t].alone PROVE Lone(t)'
  <2>1. Lone(t) /\ I!Present(t)
    BY <1>1, <1>4, <1>6, <1>10 DEF KeptApart
  <2>2. DOMAIN saves' = DOMAIN saves /\ \A i \in DOMAIN saves : saves'[i] = saves[i]
    BY <1>1
  <2>3. \A i \in DOMAIN saves : saves[i].name \in I!Begun' <=> saves[i].name \in I!Begun
    BY <1>6 DEF I!Begun
  <2>4. txns'[t].wrote => I!Row(t) \in seen' \/ txns[t].wrote
    BY <1>2, <1>4
  <2>5. seen \subseteq seen' /\ I!Row(t)' = I!Row(t) /\ (I!IsSaved(t)' <=> I!IsSaved(t))
    BY <1>1, <1>2, <1>6 DEF I!IsSaved
  <2>6. t \in I!Begun' => Lone(t)'
    <3> SUFFICES ASSUME t \in I!Begun' PROVE Lone(t)'
      OBVIOUS
    <3>1. t \in I!Begun /\ txns'[t].state \in {"open", "stuck"}
      BY <1>6 DEF I!Begun
    <3>2. /\ \A u \in TestTxn \ {t} : u \in I!Begun => ~I!Present(u)
          /\ I!IsSaved(t)
          /\ \A i \in DOMAIN saves : saves[i].name = t => I!Row(t) \notin saves[i].rows
          /\ txns[t].wrote => I!Row(t) \in seen
      BY <2>1, <3>1 DEF Lone
    <3>3. \A u \in TestTxn \ {t} : u \in I!Begun' => ~I!Present(u)'
      BY <1>6, <3>2
    <3>4. \A i \in DOMAIN saves' : saves'[i].name = t => I!Row(t)' \notin saves'[i].rows
      BY <2>2, <2>5, <3>2
    <3>5. txns'[t].wrote => I!Row(t)' \in seen'
      BY <2>4, <2>5, <3>2
    <3> QED
      BY <2>5, <3>1, <3>2, <3>3, <3>4, <3>5 DEF Lone
  <2>7. txns'[t].state = "committed" => Lone(t)'
    <3>1. ASSUME txns'[t].state = "committed" PROVE t # w /\ t \notin I!Begun' /\ (txns'[t].wrote => txns[t].wrote)
      BY <1>3, <1>4, <3>1 DEF I!Begun
    <3> QED
      BY <1>4, <2>1, <2>2, <2>3, <2>5, <3>1 DEF Lone
  <2>8. txns'[t].state = "rolled back" => Lone(t)'
    <3> SUFFICES ASSUME txns'[t].state = "rolled back" PROVE Lone(t)'
      OBVIOUS
    <3>1. t # w /\ t \notin I!Begun' /\ I!Row(t) # I!Row(w) /\ txns[t].state = "rolled back"
      BY <1>3, <1>4, <1>7 DEF I!Begun
    <3> QED
      <4>1. I!Row(t)' \notin seen'
        BY <1>2, <1>4, <2>1, <2>5, <3>1 DEF Lone
      <4>2. \A i \in DOMAIN saves' : saves'[i].name \in I!Begun' => I!Row(t)' \notin saves'[i].rows
        <5>1. \A i \in DOMAIN saves : saves[i].name \in I!Begun => I!Row(t) \notin saves[i].rows
          BY <2>1, <3>1 DEF Lone
        <5> QED
          BY <2>2, <2>3, <2>5, <5>1
      <4> QED
        BY <3>1, <4>1, <4>2 DEF Lone
  <2> QED
    BY <2>6, <2>7, <2>8 DEF Lone, I!Begun
<1>11. KeptApart'
  BY <1>1, <1>4, <1>8, <1>9, <1>10 DEF KeptApart
<1> QED
  BY <1>1, <1>5, <1>11 DEF TestInv

\* What a test deletes may be anybody's: nobody is alone any more.
LEMMA DeleteKeeps == ASSUME TestInv, I!Delete PROVE TestInv'
<1>1. /\ TestTypes /\ KeptApart /\ SavedInOrder /\ phase = "isolated" /\ phase' = phase /\ base' = base
      /\ saves' = saves /\ test' = test /\ txns' = [t \in TestTxn |-> [txns[t] EXCEPT !.alone = FALSE]]
  BY DEF I!Delete, I!Succeeds, TestInv, KeptApart
<1>2. seen' \subseteq seen
  BY DEF I!Delete
<1>3. \A u \in TestTxn : /\ txns'[u] \in TestState /\ txns'[u].state = txns[u].state /\ txns'[u].test = txns[u].test
                         /\ ~txns'[u].alone
  BY <1>1 DEF TestTypes, TestState
<1>4. TestTypes'
  BY <1>1, <1>2, <1>3 DEF TestTypes
<1>5. \A u \in TestTxn : I!Row(u)' = I!Row(u) /\ (I!Present(u)' <=> I!Present(u))
  BY <1>1, <1>3 DEF I!Row, I!Present
<1>6. Clean(seen)' /\ \A i \in DOMAIN saves : Clean(saves[i].rows)'
  BY <1>1, <1>2, <1>3, <1>5 DEF Clean, KeptApart
<1>7. KeptApart'
  BY <1>1, <1>3, <1>5, <1>6 DEF KeptApart, SavedInOrder
<1> QED
  BY <1>1, <1>4, <1>7 DEF TestInv

\* The only open transaction of the test has the only savepoint that is open.
LEMMA LoneIsAlone ==
    ASSUME TestTypes, KeptApart, NEW t \in I!Begun, I!Present(t), txns[t].alone
    PROVE  /\ \A u \in I!Begun : I!IsSaved(u) => u = t
           /\ \A i \in DOMAIN saves : saves[i].name \in I!Begun => saves[i].name = t
           /\ Lone(t) /\ I!IsSaved(t)
           /\ \A u \in I!Begun : I!Present(u) => u = t
<1>1. t \in TestTxn /\ I!Begun \subseteq TestTxn
  BY DEF I!Begun
<1>2. Lone(t)
  BY <1>1 DEF KeptApart
<1>3. (\A u \in I!Begun : I!Present(u) => u = t) /\ I!IsSaved(t)
  BY <1>1, <1>2 DEF Lone
<1>4. \A u \in I!Begun : I!IsSaved(u) => I!Present(u)
  BY <1>1, PlaceIs DEF KeptApart
<1>5. \A i \in DOMAIN saves : saves[i].name \in I!Begun => I!IsSaved(saves[i].name)
  BY DEF I!IsSaved
<1> QED
  BY <1>2, <1>3, <1>4, <1>5

\* A transaction begins: it is alone if no other one of the test is open, and then none of those is.
LEMMA TxnBeginKeeps == ASSUME TestInv, NEW t \in TestTxn, I!Begin(t) PROVE TestInv'
<1>1. /\ TestTypes /\ KeptApart /\ SavedInOrder /\ phase = "isolated" /\ phase' = phase /\ base' = base
      /\ test' = test /\ test > 0 /\ seen' = seen
  BY DEF I!Begin, I!SaveAs, I!Succeeds, TestInv, KeptApart
<1>2. txns[t].state = "idle" /\ txns[t].test = 0 /\ t \notin I!Begun /\ ~I!Present(t)
  BY <1>1 DEF I!Begin, I!Begun, I!Present
<1>3. PICK others : others = {u \in I!Begun : I!Present(u)}
  OBVIOUS
<1>4. t \notin others /\ others \subseteq TestTxn
  BY <1>2, <1>3 DEF I!Begun
<1>5. /\ saves' = Append(saves, [name |-> t, rows |-> seen])
      /\ txns' = [u \in TestTxn |->
                    IF u = t THEN [state |-> "open", test |-> test, wrote |-> FALSE, alone |-> others = {}]
                    ELSE [txns[u] EXCEPT !.alone = @ /\ u \notin others]]
  BY <1>3 DEF I!Begin, I!SaveAs
<1>6. PICK e : e = [name |-> t, rows |-> seen]
  OBVIOUS
<1>7. e \in Savepoint /\ saves \in Seq(Savepoint)
  BY <1>1, <1>6 DEF TestTypes, Savepoint
<1>8. PICK n \in Nat : n = Len(saves)
  BY <1>7
<1>9. /\ saves' \in Seq(Savepoint) /\ Len(saves') = n + 1 /\ DOMAIN saves' = 1..(n + 1) /\ DOMAIN saves = 1..n
      /\ saves'[n + 1] = e /\ \A i \in 1..n : saves'[i] = saves[i]
  <2>1. /\ Append(saves, e) \in Seq(Savepoint) /\ Len(Append(saves, e)) = Len(saves) + 1
        /\ Append(saves, e)[Len(saves) + 1] = e /\ \A i \in 1..Len(saves) : Append(saves, e)[i] = saves[i]
    BY <1>7, AppendIs
  <2> QED
    BY <1>5, <1>6, <1>7, <1>8, <2>1
<1>10. /\ txns'[t] \in TestState /\ txns'[t].state = "open" /\ txns'[t].test = test /\ ~txns'[t].wrote
       /\ txns'[t].alone <=> others = {}
  BY <1>1, <1>5 DEF TestState, TestTypes
<1>11. ASSUME NEW u \in TestTxn \ {t}
       PROVE  /\ txns'[u] \in TestState /\ txns'[u].state = txns[u].state /\ txns'[u].test = txns[u].test
              /\ txns'[u].wrote = txns[u].wrote /\ (txns'[u].alone => txns[u].alone /\ u \notin others)
  <2>1. txns[u] \in TestState /\ (u \notin others) \in BOOLEAN
    BY <1>1, TestTxnIs
  <2> QED
    BY <1>5, <2>1 DEF TestState
<1>12. TestTypes'
  <2>1. txns' \in [TestTxn -> TestState]
    BY <1>5, <1>10, <1>11
  <2> QED
    BY <1>1, <1>9, <2>1 DEF TestTypes
<1>13. /\ \A u \in TestTxn : I!Row(u)' = I!Row(u)
       /\ \A u \in TestTxn \ {t} : (I!Present(u)' <=> I!Present(u)) /\ (u \in I!Begun' <=> u \in I!Begun)
       /\ I!Present(t)' /\ t \in I!Begun'
  BY <1>1, <1>10, <1>11 DEF I!Row, I!Present, I!Begun
<1>14. SavedInOrder'
  <2>1. n >= 1 /\ saves'[1] = [name |-> "after_seed", rows |-> I!Seed]
    BY <1>1, <1>8, <1>9 DEF SavedInOrder
  <2>2. ASSUME NEW i \in 2..(n + 1) PROVE saves'[i].name \in TestTxn /\ I!Present(saves[i].name)'
    <3>1. CASE i = n + 1
      BY <1>6, <1>9, <1>13, <3>1
    <3>2. CASE i # n + 1
      <4>1. i \in 2..n /\ saves'[i] = saves[i] /\ saves[i].name \in TestTxn /\ I!Present(saves[i].name)
        BY <1>1, <1>8, <1>9, <3>2 DEF SavedInOrder
      <4> QED
        BY <1>13, <4>1
    <3> QED
      BY <3>1, <3>2
  <2> QED
    BY <1>9, <2>1, <2>2 DEF SavedInOrder
<1>15. Clean(seen)' /\ \A i \in DOMAIN saves' : Clean(saves[i].rows)'
  <2>1. \A u \in TestTxn : txns'[u].test = 0 => txns[u].test = 0
    BY <1>1, <1>10, <1>11
  <2>2. Clean(seen) /\ \A i \in DOMAIN saves : Clean(saves[i].rows)
    BY <1>1 DEF KeptApart
  <2>3. Clean(seen)'
    BY <1>1, <1>13, <2>1, <2>2 DEF Clean
  <2>4. ASSUME NEW i \in 1..(n + 1) PROVE Clean(saves[i].rows)'
    <3>1. CASE i = n + 1
      <4>1. saves'[i].rows = seen'
        BY <1>1, <1>6, <1>9, <3>1
      <4> QED
        BY <2>3, <4>1 DEF Clean
    <3>2. CASE i # n + 1
      <4>1. i \in DOMAIN saves /\ saves'[i].rows = saves[i].rows
        BY <1>9, <3>2
      <4> QED
        BY <1>1, <1>13, <2>1, <2>2, <4>1 DEF Clean
    <3> QED
      BY <3>1, <3>2
  <2> QED
    BY <1>9, <2>3, <2>4
<1>16. ASSUME I!Present(t)', txns'[t].alone PROVE Lone(t)'
  <2>1. \A u \in TestTxn \ {t} : u \in I!Begun' => ~I!Present(u)'
    BY <1>3, <1>10, <1>13, <1>16
  <2>2. I!IsSaved(t)'
    BY <1>6, <1>8, <1>9 DEF I!IsSaved
  <2>3. ASSUME NEW i \in DOMAIN saves', saves'[i].name = t PROVE I!Row(t)' \notin saves'[i].rows
    <3>1. CASE i = n + 1
      BY <1>1, <1>2, <1>6, <1>9, <1>13, <3>1 DEF KeptApart, Clean
    <3>2. CASE i # n + 1
      <4>1. i \in 1..n /\ saves[i].name = t
        BY <1>9, <2>3, <3>2
      <4>2. i # 1
        BY <1>1, <4>1, TestAssumption DEF SavedInOrder
      <4> QED
        BY <1>1, <1>2, <1>8, <4>1, <4>2 DEF SavedInOrder
    <3> QED
      BY <3>1, <3>2
  <2> QED
    BY <1>10, <2>1, <2>2, <2>3 DEF Lone
<1>17. ASSUME NEW u \in TestTxn \ {t}, I!Present(u)', txns'[u].alone PROVE Lone(u)'
  <2>1. Lone(u) /\ u \notin I!Begun /\ u \notin I!Begun' /\ Clean(seen)
    BY <1>1, <1>3, <1>11, <1>13, <1>17 DEF KeptApart
  <2>2. ASSUME NEW i \in DOMAIN saves', i # n + 1, saves'[i].name \in I!Begun'
        PROVE  i \in DOMAIN saves /\ saves[i].name \in I!Begun /\ saves'[i].rows = saves[i].rows
    <3>1. i \in 1..n /\ saves'[i] = saves[i]
      BY <1>9, <2>2
    <3>2. saves[i].name # t
      <4>1. ASSUME saves[i].name = t PROVE FALSE
        <5>1. i # 1
          BY <1>1, <4>1, TestAssumption DEF SavedInOrder
        <5> QED
          BY <1>1, <1>2, <1>8, <3>1, <4>1, <5>1 DEF SavedInOrder
      <4> QED
        BY <4>1
    <3>3. saves[i].name \in TestTxn
      BY <2>2, <3>1 DEF I!Begun
    <3> QED
      BY <1>9, <1>13, <2>2, <3>1, <3>2, <3>3
  <2>3. ASSUME txns'[u].state = "committed", txns'[u].wrote
        PROVE  I!Row(u)' \in seen' /\ \A i \in DOMAIN saves' : saves'[i].name \in I!Begun' => I!Row(u)' \in saves'[i].rows
    <3>1. I!Row(u) \in seen /\ \A i \in DOMAIN saves : saves[i].name \in I!Begun => I!Row(u) \in saves[i].rows
      BY <1>11, <2>1, <2>3 DEF Lone
    <3> QED
      BY <1>1, <1>6, <1>9, <1>13, <2>2, <3>1
  <2>4. ASSUME txns'[u].state = "rolled back"
        PROVE  I!Row(u)' \notin seen' /\ \A i \in DOMAIN saves' : saves'[i].name \in I!Begun' => I!Row(u)' \notin saves'[i].rows
    <3>1. I!Row(u) \notin seen /\ \A i \in DOMAIN saves : saves[i].name \in I!Begun => I!Row(u) \notin saves[i].rows
      BY <1>11, <2>1, <2>4 DEF Lone
    <3> QED
      BY <1>1, <1>6, <1>9, <1>13, <2>2, <3>1
  <2> QED
    BY <2>1, <2>3, <2>4 DEF Lone
<1>18. KeptApart'
  <2>1. \A u \in TestTxn : txns'[u].test <= test' /\ (txns'[u].state # "idle" => txns'[u].test > 0)
    BY <1>1, <1>10, <1>11 DEF KeptApart, TestTypes
  <2>2. \A u \in TestTxn : I!Present(u)' /\ txns'[u].alone => Lone(u)'
    BY <1>16, <1>17
  <2> QED
    BY <1>1, <1>14, <1>15, <2>1, <2>2 DEF KeptApart
<1> QED
  BY <1>1, <1>12, <1>18 DEF TestInv

\* A transaction ends, or has failed to, and with it go savepoints; the rows of each savepoint that
\* stays are as they were.
Ending(t, to, p) ==
    /\ p \in 1..Len(saves)
    /\ saves' \in Seq(Savepoint) /\ Len(saves') = p /\ \A i \in 1..p : saves'[i] = saves[i]
    /\ t \in I!Begun /\ to \in {"stuck", "committed", "rolled back"}
    /\ txns' = [txns EXCEPT ![t].state = to]
    /\ phase = "isolated" /\ phase' = phase /\ base' = base /\ test' = test

\* What is so of the other records, and of the savepoints.
LEMMA EndingIs ==
    ASSUME TestInv, NEW t \in TestTxn, NEW to, NEW p, Ending(t, to, p)
    PROVE  /\ TestTypes /\ KeptApart /\ SavedInOrder
           /\ txns' \in [TestTxn -> TestState]
           /\ \A u \in TestTxn : /\ txns'[u].test = txns[u].test /\ txns'[u].wrote = txns[u].wrote
                                 /\ txns'[u].alone = txns[u].alone /\ (u # t => txns'[u].state = txns[u].state)
           /\ txns'[t].state = to
           /\ \A u \in TestTxn : I!Row(u)' = I!Row(u) /\ (I!Present(u)' <=> I!Present(u))
           /\ I!Begun' \subseteq I!Begun /\ (to # "stuck" => t \notin I!Begun')
           /\ DOMAIN saves' \subseteq DOMAIN saves /\ \A i \in DOMAIN saves' : saves'[i] = saves[i]
           /\ SavedInOrder'
<1>1. TestTypes /\ KeptApart /\ SavedInOrder
  BY DEF Ending, TestInv, KeptApart
<1>2. PICK r : r = [txns[t] EXCEPT !.state = to]
  OBVIOUS
<1>3. txns[t] \in TestState /\ r \in TestState /\ r.state = to /\ r.test = txns[t].test /\ r.wrote = txns[t].wrote
      /\ r.alone = txns[t].alone
  <2>1. txns[t] \in TestState /\ to \in {"stuck", "committed", "rolled back"}
    BY <1>1, TestTxnIs DEF Ending
  <2> QED
    BY <1>2, <2>1 DEF TestState
<1>4. /\ txns' \in [TestTxn -> TestState] /\ txns'[t] = r /\ \A u \in TestTxn \ {t} : txns'[u] = txns[u]
  BY <1>1, <1>2, <1>3 DEF Ending, TestTypes
<1>5. \A u \in TestTxn : /\ txns'[u].test = txns[u].test /\ txns'[u].wrote = txns[u].wrote
                         /\ txns'[u].alone = txns[u].alone /\ (u # t => txns'[u].state = txns[u].state)
  BY <1>3, <1>4
<1>6. \A u \in TestTxn : I!Row(u)' = I!Row(u) /\ (I!Present(u)' <=> I!Present(u))
  BY <1>5 DEF I!Row, I!Present, Ending
<1>7. I!Begun' \subseteq I!Begun /\ (to # "stuck" => t \notin I!Begun')
  BY <1>3, <1>4, <1>5 DEF I!Begun, Ending
<1>8. PICK m \in Nat : m = Len(saves)
  BY <1>1, SavedIs
<1>9. DOMAIN saves' = 1..p /\ DOMAIN saves = 1..m /\ p \in 1..m /\ Len(saves') = p /\ \A i \in 1..p : saves'[i] = saves[i]
  <2>1. p \in 1..Len(saves) /\ saves' \in Seq(Savepoint) /\ Len(saves') = p /\ \A i \in 1..p : saves'[i] = saves[i]
    BY DEF Ending
  <2>2. DOMAIN saves' = 1..p
    BY <2>1
  <2> QED
    BY <1>1, <1>8, <2>1, <2>2, SavedIs
<1>10. DOMAIN saves' \subseteq DOMAIN saves /\ \A i \in DOMAIN saves' : saves'[i] = saves[i]
  BY <1>9
<1>11. SavedInOrder'
  <2>1. ASSUME NEW i \in 2..p PROVE saves'[i].name \in TestTxn /\ I!Present(saves[i].name)'
    <3>1. saves'[i] = saves[i] /\ saves[i].name \in TestTxn /\ I!Present(saves[i].name)
      BY <1>1, <1>8, <1>9 DEF SavedInOrder
    <3> QED
      BY <1>6, <3>1
  <2>2. saves'[1] = [name |-> "after_seed", rows |-> I!Seed]
    BY <1>1, <1>9 DEF SavedInOrder
  <2> QED
    BY <1>9, <2>1, <2>2 DEF SavedInOrder
<1> QED
  BY <1>1, <1>3, <1>4, <1>5, <1>6, <1>7, <1>10, <1>11

\* For the transactions that have ended before nothing changes, if the rows are as they were, or
\* those of a savepoint of one that was open.
LEMMA OthersKeep ==
    ASSUME TestInv, NEW t \in TestTxn, NEW to, NEW p, Ending(t, to, p),
           seen' = seen \/ \E i \in DOMAIN saves : saves[i].name = t /\ seen' = saves[i].rows,
           NEW u \in TestTxn \ {t}, u \notin I!Begun, I!Present(u)', txns'[u].alone
    PROVE  Lone(u)'
<1>1. /\ u \notin I!Begun' /\ Lone(u) /\ I!Row(u)' = I!Row(u) /\ I!Begun' \subseteq I!Begun
      /\ DOMAIN saves' \subseteq DOMAIN saves /\ \A i \in DOMAIN saves' : saves'[i] = saves[i]
      /\ txns'[u].state = txns[u].state /\ txns'[u].wrote = txns[u].wrote
  BY EndingIs DEF KeptApart
<1>2. t \in I!Begun
  BY DEF Ending
<1>3. ASSUME txns[u].state = "committed", txns[u].wrote
      PROVE  I!Row(u) \in seen' /\ \A i \in DOMAIN saves' : saves'[i].name \in I!Begun' => I!Row(u) \in saves'[i].rows
  <2>1. I!Row(u) \in seen /\ \A i \in DOMAIN saves : saves[i].name \in I!Begun => I!Row(u) \in saves[i].rows
    BY <1>1, <1>3 DEF Lone
  <2> QED
    BY <1>1, <1>2, <2>1
<1>4. ASSUME txns[u].state = "rolled back"
      PROVE  I!Row(u) \notin seen' /\ \A i \in DOMAIN saves' : saves'[i].name \in I!Begun' => I!Row(u) \notin saves'[i].rows
  <2>1. I!Row(u) \notin seen /\ \A i \in DOMAIN saves : saves[i].name \in I!Begun => I!Row(u) \notin saves[i].rows
    BY <1>1, <1>4 DEF Lone
  <2> QED
    BY <1>1, <1>2, <2>1
<1> QED
  BY <1>1, <1>3, <1>4 DEF Lone

\* The rest of KeptApart, with the transactions that were open left to show.
LEMMA EndingKeeps ==
    ASSUME TestInv, NEW t \in TestTxn, NEW to, NEW p, Ending(t, to, p),
           seen' = seen \/ \E i \in DOMAIN saves : saves[i].name = t /\ seen' = saves[i].rows,
           \A u \in I!Begun : I!Present(u)' /\ txns'[u].alone => Lone(u)'
    PROVE  TestInv'
<1>1. /\ TestTypes /\ KeptApart /\ SavedInOrder' /\ txns' \in [TestTxn -> TestState]
      /\ \A u \in TestTxn : /\ txns'[u].test = txns[u].test /\ (u # t => txns'[u].state = txns[u].state)
                            /\ I!Row(u)' = I!Row(u)
      /\ DOMAIN saves' \subseteq DOMAIN saves /\ \A i \in DOMAIN saves' : saves'[i] = saves[i]
  BY EndingIs
<1>2. test' = test /\ phase = "isolated" /\ phase' = phase /\ base' = base /\ saves' \in Seq(Savepoint) /\ t \in I!Begun
  BY DEF Ending
<1>3. \A i \in DOMAIN saves : saves[i].rows \in SUBSET TestRow
  BY <1>1, SavedIs
<1>4. TestTypes'
  BY <1>1, <1>2, <1>3 DEF TestTypes
<1>5. Clean(seen) /\ \A i \in DOMAIN saves : Clean(saves[i].rows)
  BY <1>1 DEF KeptApart
<1>6. ASSUME NEW held, Clean(held) PROVE (\A r \in held \ I!Seed : r.test = test') /\ \A u \in TestTxn : txns'[u].test = 0 => I!Row(u)' \notin held
  BY <1>1, <1>2, <1>6 DEF Clean
<1>7. Clean(seen)'
  <2>2. CASE seen' = seen
    BY <1>5, <1>6, <2>2 DEF Clean
  <2>3. CASE \E i \in DOMAIN saves : saves[i].name = t /\ seen' = saves[i].rows
    BY <1>5, <1>6, <2>3 DEF Clean
  <2> QED
    BY <2>2, <2>3
<1>8. ASSUME NEW i \in DOMAIN saves' PROVE Clean(saves[i].rows)'
  <2>1. i \in DOMAIN saves /\ saves'[i].rows = saves[i].rows
    BY <1>1
  <2> QED
    BY <1>5, <1>6, <2>1 DEF Clean
<1>9. \A u \in TestTxn : txns'[u].test <= test' /\ (txns'[u].state # "idle" => txns'[u].test > 0)
  <2>1. txns[t].state # "idle"
    BY <1>2 DEF I!Begun
  <2> QED
    BY <1>1, <1>2, <2>1 DEF KeptApart
<1>10. ASSUME NEW u \in TestTxn, I!Present(u)', txns'[u].alone PROVE Lone(u)'
  BY <1>2, <1>10, OthersKeep
<1>11. KeptApart'
  BY <1>1, <1>2, <1>7, <1>8, <1>9, <1>10 DEF KeptApart
<1> QED
  BY <1>2, <1>4, <1>11 DEF TestInv

\* One that stays open, while another ends or it has failed to, is as it was.
LEMMA StillLone ==
    ASSUME TestInv, NEW t \in TestTxn, NEW to, NEW p, Ending(t, to, p), saves' = saves, seen' = seen,
           NEW u \in I!Begun, u = t => to = "stuck", I!Present(u)', txns'[u].alone
    PROVE  Lone(u)'
<1>1. /\ TestTypes /\ KeptApart /\ I!Begun' \subseteq I!Begun
      /\ \A v \in TestTxn : /\ txns'[v].wrote = txns[v].wrote /\ txns'[v].alone = txns[v].alone
                            /\ (v # t => txns'[v].state = txns[v].state)
                            /\ I!Row(v)' = I!Row(v) /\ (I!Present(v)' <=> I!Present(v))
      /\ txns'[t].state = to
  BY EndingIs
<1>2. u \in TestTxn /\ txns[u].state \in {"open", "stuck"}
  BY DEF I!Begun
<1>3. Lone(u) /\ txns'[u].state \notin {"committed", "rolled back"}
  BY <1>1, <1>2 DEF KeptApart
<1>4. /\ \A v \in TestTxn \ {u} : v \in I!Begun' => ~I!Present(v)'
      /\ I!IsSaved(u)'
      /\ \A i \in DOMAIN saves' : saves'[i].name = u => I!Row(u)' \notin saves'[i].rows
      /\ txns'[u].wrote => I!Row(u)' \in seen'
  BY <1>1, <1>2, <1>3 DEF Lone, I!IsSaved
<1> QED
  BY <1>3, <1>4 DEF Lone

\* COMMIT is a release of the savepoint, or fails.
LEMMA TxnCommitKeeps == ASSUME TestInv, NEW t \in TestTxn, I!Commit(t) PROVE TestInv'
<1>1. /\ TestTypes /\ KeptApart /\ SavedInOrder /\ phase = "isolated" /\ phase' = phase /\ base' = base /\ test' = test
      /\ txns[t].state = "open" /\ t \in I!Begun /\ seen' = seen
  BY DEF I!Commit, I!ReleaseSavepoint, I!Fails, I!Begun, TestInv, KeptApart
<1>2. PICK m \in Nat : m = Len(saves) /\ saves \in Seq(Savepoint) /\ m > 0
  BY <1>1, SavedIs DEF TestTypes, SavedInOrder
<1>3. CASE ~aborted /\ I!IsSaved(t)
  <2>1. PICK p : p = I!PlaceOf(t) - 1
    OBVIOUS
  <2>2. p \in 1..m /\ p \in Nat /\ p <= Len(saves)
    BY <1>1, <1>2, <1>3, <2>1, PlaceIs
  <2>3. saves' = SubSeq(saves, 1, p) /\ txns' = [txns EXCEPT ![t].state = "committed"]
    BY <1>3, <2>1 DEF I!Commit, I!ReleaseSavepoint, I!Ends
  <2>4. saves' \in Seq(Savepoint) /\ Len(saves') = p /\ \A i \in 1..p : saves'[i] = saves[i]
    BY <1>2, <2>2, <2>3, PrefixIs
  <2>5. Ending(t, "committed", p)
    BY <1>1, <1>2, <2>2, <2>3, <2>4 DEF Ending
  <2>6. ASSUME NEW u \in I!Begun, I!Present(u)', txns'[u].alone PROVE Lone(u)'
    <3>1. /\ u \in TestTxn /\ I!Present(u) /\ txns[u].alone
          /\ I!Row(t)' = I!Row(t) /\ txns'[t].wrote = txns[t].wrote /\ txns'[t].state = "committed"
          /\ I!Begun' \subseteq I!Begun /\ t \notin I!Begun'
          /\ DOMAIN saves' \subseteq DOMAIN saves /\ \A i \in DOMAIN saves' : saves'[i] = saves[i]
      <4>1. u \in TestTxn
        BY <2>6 DEF I!Begun
      <4> QED
        BY <2>5, <2>6, <4>1, EndingIs
    <3>2. /\ u = t /\ Lone(t)
          /\ \A i \in DOMAIN saves : saves[i].name \in I!Begun => saves[i].name = t
      BY <1>1, <1>3, <2>6, <3>1, LoneIsAlone
    <3>3. \A i \in DOMAIN saves' : saves'[i].name \notin I!Begun'
      BY <3>1, <3>2
    <3>4. txns'[t].wrote => I!Row(t)' \in seen'
      BY <1>1, <3>1, <3>2 DEF Lone
    <3> QED
      BY <3>1, <3>2, <3>3, <3>4 DEF Lone
  <2> QED
    BY <1>1, <2>5, <2>6, EndingKeeps
<1>4. CASE ~(~aborted /\ I!IsSaved(t))
  <2>1. saves' = saves /\ txns' = [txns EXCEPT ![t].state = "stuck"]
    BY <1>4 DEF I!Commit, I!Fails, I!Ends
  <2>2. Ending(t, "stuck", m)
    BY <1>1, <1>2, <2>1 DEF Ending
  <2>3. ASSUME NEW u \in I!Begun, I!Present(u)', txns'[u].alone PROVE Lone(u)'
    BY <1>1, <2>1, <2>2, <2>3, StillLone
  <2> QED
    BY <1>1, <2>2, <2>3, EndingKeeps
<1> QED
  BY <1>3, <1>4

\* ROLLBACK goes back to the savepoint, which stays, or there is none.
LEMMA TxnRollbackKeeps == ASSUME TestInv, NEW t \in TestTxn, I!Rollback(t) PROVE TestInv'
<1>1. /\ TestTypes /\ KeptApart /\ SavedInOrder /\ phase = "isolated" /\ phase' = phase /\ base' = base /\ test' = test
      /\ t \in I!Begun /\ txns' = [txns EXCEPT ![t].state = "rolled back"]
  BY DEF I!Rollback, I!Ends, TestInv, KeptApart
<1>2. PICK m \in Nat : m = Len(saves) /\ saves \in Seq(Savepoint) /\ m > 0
  BY <1>1, SavedIs DEF TestTypes, SavedInOrder
<1>3. CASE I!IsSaved(t)
  <2>1. PICK p : p = I!PlaceOf(t)
    OBVIOUS
  <2>2. p \in 1..m /\ p \in Nat /\ p <= Len(saves) /\ p \in DOMAIN saves /\ saves[p].name = t
    <3>1. p \in 2..Len(saves) /\ saves[p].name = t
      BY <1>1, <1>3, <2>1, PlaceIs
    <3>2. DOMAIN saves = 1..m
      BY <1>1, <1>2, SavedIs
    <3> QED
      BY <1>2, <3>1, <3>2
  <2>3. saves' = SubSeq(saves, 1, p) /\ seen' = saves[p].rows
    BY <1>3, <2>1 DEF I!Rollback, I!RollbackTo
  <2>4. saves' \in Seq(Savepoint) /\ Len(saves') = p /\ \A i \in 1..p : saves'[i] = saves[i]
    BY <1>2, <2>2, <2>3, PrefixIs
  <2>5. Ending(t, "rolled back", p)
    BY <1>1, <1>2, <2>2, <2>4 DEF Ending
  <2>6. ASSUME NEW u \in I!Begun, I!Present(u)', txns'[u].alone PROVE Lone(u)'
    <3>1. /\ u \in TestTxn /\ I!Present(u) /\ txns[u].alone
          /\ I!Row(t)' = I!Row(t) /\ txns'[t].state = "rolled back"
          /\ I!Begun' \subseteq I!Begun /\ t \notin I!Begun'
          /\ DOMAIN saves' \subseteq DOMAIN saves /\ \A i \in DOMAIN saves' : saves'[i] = saves[i]
      <4>1. u \in TestTxn
        BY <2>6 DEF I!Begun
      <4> QED
        BY <2>5, <2>6, <4>1, EndingIs
    <3>2. /\ u = t /\ Lone(t)
          /\ \A i \in DOMAIN saves : saves[i].name \in I!Begun => saves[i].name = t
      BY <1>1, <1>3, <2>6, <3>1, LoneIsAlone
    <3>3. \A i \in DOMAIN saves' : saves'[i].name \notin I!Begun'
      BY <3>1, <3>2
    <3>4. I!Row(t)' \notin seen'
      BY <1>1, <2>2, <2>3, <3>1, <3>2 DEF Lone
    <3> QED
      BY <3>1, <3>2, <3>3, <3>4 DEF Lone
  <2>7. \E i \in DOMAIN saves : saves[i].name = t /\ seen' = saves[i].rows
    BY <2>2, <2>3
  <2> QED
    BY <2>5, <2>6, <2>7, EndingKeeps
<1>4. CASE ~I!IsSaved(t)
  <2>1. saves' = saves /\ seen' = seen
    BY <1>4 DEF I!Rollback, I!Fails
  <2>2. Ending(t, "rolled back", m)
    <3>1. /\ m \in 1..Len(saves) /\ saves' \in Seq(Savepoint) /\ Len(saves') = m
          /\ \A i \in 1..m : saves'[i] = saves[i]
      BY <1>2, <2>1
    <3> QED
      BY <1>1, <3>1 DEF Ending
  <2>3. ASSUME NEW u \in I!Begun, I!Present(u)', txns'[u].alone PROVE Lone(u)'
    <3>1. u \in TestTxn /\ I!Present(u) /\ txns[u].alone
      BY <2>2, <2>3, EndingIs DEF I!Begun
    <3>2. u # t
      BY <1>1, <1>4, <2>3, <3>1, LoneIsAlone
    <3> QED
      BY <2>1, <2>2, <2>3, <3>2, StillLone
  <2> QED
    BY <2>1, <2>2, <2>3, EndingKeeps
<1> QED
  BY <1>3, <1>4

\* Every step of the tests keeps the invariant.
LEMMA TestStepping == TestInv /\ I!Next => TestInv'
BY FirstResetKeeps, ResetKeeps, StopKeeps, WriteKeeps, DeleteKeeps, FailureKeeps, TxnBeginKeeps,
   TxnCommitKeeps, TxnRollbackKeeps DEF I!Next

\* However many transactions tests start, leave open and end late, and whatever fails: a test begins
\* with the seed and sees only what was written since, a lone transaction is there as a whole or not
\* at all, and nothing is committed (testing/index.ts, resetToSeed).
THEOREM TestsStayApart == PartsSpec => []TestsApart
<1>1. PartsInit => TestInv
  BY TestsBegin DEF PartsInit
<1>2. UNCHANGED ivars /\ TestInv => TestInv'
  <2> SUFFICES ASSUME UNCHANGED ivars, TestInv PROVE TestInv'
    OBVIOUS
  <2>1. /\ phase' = phase /\ base' = base /\ test' = test /\ txns' = txns /\ seen' = seen /\ saves' = saves
    BY DEF ivars
  <2> QED
    BY <2>1 DEF TestInv, TestTypes, KeptApart, SavedInOrder, Clean, Lone, I!Present, I!Begun, I!Row, I!IsSaved
<1>3. TestInv /\ [PartsNext]_allVars => TestInv'
  BY <1>2, TestStepping DEF PartsNext, allVars
<1>4. TestInv => TestsApart
  <2> SUFFICES ASSUME TestInv, phase = "isolated"
               PROVE  /\ saves # <<>> /\ saves[1] = [name |-> "after_seed", rows |-> I!Seed]
                      /\ \A r \in seen \ I!Seed : r.test = test
                      /\ \A t \in TestTxn : I!Present(t) /\ txns[t].alone =>
                            /\ txns[t].state = "rolled back" => I!Row(t) \notin seen
                            /\ txns[t].state = "committed" /\ txns[t].wrote => I!Row(t) \in seen
    BY DEF TestsApart, I!TestsApart, TestInv, TestTypes
  <2>1. saves # <<>> /\ saves[1] = [name |-> "after_seed", rows |-> I!Seed]
    BY DEF TestInv, KeptApart, SavedInOrder
  <2>2. \A r \in seen \ I!Seed : r.test = test
    BY DEF TestInv, KeptApart, Clean
  <2>3. \A t \in TestTxn : I!Present(t) /\ txns[t].alone =>
            /\ txns[t].state = "rolled back" => I!Row(t) \notin seen
            /\ txns[t].state = "committed" /\ txns[t].wrote => I!Row(t) \in seen
    BY DEF TestInv, KeptApart, Lone
  <2> QED
    BY <2>1, <2>2, <2>3
<1> QED
  BY <1>1, <1>3, <1>4, PTL DEF PartsSpec

-----------------------------------------------------------------------------
(* Job runners and recorders. *)

Rec ==
    [on : BOOLEAN, hears : BOOLEAN, scan : {"none", "begun", "completed", "failed", "done"},
     found : SUBSET Job, tasks : SUBSET (Job \X {"log", "remove"})]

\* A job runs with one runner, and only an active one.
RunsActive ==
    \A r \in Runner : \A j \in running[r] :
        job[j] = "active" /\ \A q \in Runner : j \in running[q] => q = r

\* What the table says of a job, by its place in the queue.
RowsFit ==
    \A j \in Job :
        /\ job[j] \in {"none", "waiting", "active"} => rows[j] = "none"
        /\ job[j] = "removed" => rows[j] # "none"
        /\ job[j] \in W!Finished => rows[j] \in {"none", job[j]}

\* What a recorder is about to do is about jobs that have finished, and it removes none without a row.
InHand(rec) ==
    \A j \in Job :
        /\ <<j, "log">> \in rec.tasks => job[j] \in W!Finished \cup {"removed"}
        /\ <<j, "remove">> \in rec.tasks => job[j] \in W!Finished \cup {"removed"} /\ rows[j] # "none"
        /\ j \in rec.found => rec.scan \in {"completed", "failed"} /\ job[j] \in {rec.scan, "removed"}

\* A finished job is in the hands of a recorder that is on.
Kept(j, rec) ==
    job[j] \in W!Finished /\ rec.on /\ j \notin missed =>
        \/ j \in rec.found
        \/ \E task \in {"log", "remove"} : <<j, task>> \in rec.tasks
        \/ rec.scan = "begun"
        \/ rec.scan = "completed" /\ job[j] = "failed"

WorkInv ==
    /\ W!TypeOK /\ RunsActive /\ RowsFit
    /\ \A r \in Runner : InHand(recorder[r]) /\ \A j \in Job : Kept(j, recorder[r])

\* The parts of the type invariant.
LEMMA WorkTyped ==
    W!TypeOK <=>
        /\ job \in [Job -> {"none", "waiting", "active", "completed", "failed", "removed"}]
        /\ runner \in [Runner -> {"up", "stopped", "draining", "closed", "dead"}]
        /\ running \in [Runner -> SUBSET Job] /\ recorder \in [Runner -> Rec]
        /\ rows \in [Job -> {"completed", "failed", "none"}] /\ missed \subseteq Job
        /\ terms \in 0..MaxTerms /\ lost \in 0..MaxLost
<1>1. W!Finished \cup {"none"} = {"completed", "failed", "none"}
  BY DEF W!Finished
<1> QED
  BY <1>1 DEF W!TypeOK, Rec

\* No job, and no recorder.
LEMMA WorkBegins == W!Init => WorkInv
<1> SUFFICES ASSUME W!Init PROVE WorkInv
  OBVIOUS
<1>1. /\ job = [j \in Job |-> "none"] /\ running = [r \in Runner |-> {}] /\ rows = [j \in Job |-> "none"]
      /\ recorder = [r \in Runner |-> W!NoRecorder] /\ missed = {}
  BY DEF W!Init
<1>2. W!NoRecorder \in Rec /\ W!NoRecorder.found = {} /\ W!NoRecorder.tasks = {} /\ ~W!NoRecorder.on
  BY DEF W!NoRecorder, Rec
<1>3. W!TypeOK
  BY <1>1, <1>2, BoundsAssumption, WorkTyped DEF W!Init
<1>4. RunsActive /\ RowsFit
  BY <1>1 DEF RunsActive, RowsFit, W!Finished
<1>5. ASSUME NEW r \in Runner PROVE InHand(recorder[r]) /\ \A j \in Job : Kept(j, recorder[r])
  BY <1>1, <1>2 DEF InHand, Kept
<1> QED
  BY <1>3, <1>4, <1>5 DEF WorkInv

\* A recorder goes on, and may write rows of jobs that have finished.
LEMMA RecorderGoesOn ==
    ASSUME WorkInv, NEW r \in Runner, NEW rec \in Rec, recorder' = [recorder EXCEPT ![r] = rec],
           job' = job, running' = running, W!TypeOK',
           missed \subseteq missed',
           \A j \in Job : rows'[j] = rows[j] \/ (rows[j] = "none" /\ job[j] \in W!Finished /\ rows'[j] = job[j]),
           InHand(rec)', \A j \in Job : Kept(j, rec)'
    PROVE  WorkInv'
<1>1. recorder \in [Runner -> Rec]
  BY WorkTyped DEF WorkInv
<1>2. recorder'[r] = rec /\ \A q \in Runner \ {r} : recorder'[q] = recorder[q]
  BY <1>1
<1>3. RunsActive'
  BY DEF WorkInv, RunsActive
<1>4. RowsFit'
  BY DEF WorkInv, RowsFit, W!Finished
<1>5. ASSUME NEW q \in Runner \ {r} PROVE InHand(recorder[q])' /\ \A j \in Job : Kept(j, recorder[q])'
  <2>1. InHand(recorder[q]) /\ \A j \in Job : Kept(j, recorder[q])
    BY DEF WorkInv
  <2>2. \A j \in Job : rows[j] # "none" => rows'[j] # "none"
    BY DEF W!Finished
  <2>3. InHand(recorder[q])'
    BY <1>2, <2>1, <2>2 DEF InHand
  <2>4. \A j \in Job : Kept(j, recorder[q])'
    BY <1>2, <2>1 DEF Kept
  <2> QED
    BY <2>3, <2>4
<1>6. InHand(recorder[r])' /\ \A j \in Job : Kept(j, recorder[r])'
  BY <1>2 DEF InHand, Kept
<1> QED
  BY <1>3, <1>4, <1>5, <1>6 DEF WorkInv

\* What the invariant says of a recorder and of types.
LEMMA RecorderIs ==
    ASSUME WorkInv, NEW r \in Runner
    PROVE  /\ recorder[r] \in Rec /\ InHand(recorder[r]) /\ \A j \in Job : Kept(j, recorder[r])
           /\ job \in [Job -> {"none", "waiting", "active", "completed", "failed", "removed"}]
           /\ runner \in [Runner -> {"up", "stopped", "draining", "closed", "dead"}]
           /\ running \in [Runner -> SUBSET Job] /\ recorder \in [Runner -> Rec]
           /\ rows \in [Job -> {"completed", "failed", "none"}] /\ missed \subseteq Job
           /\ terms \in 0..MaxTerms /\ lost \in 0..MaxLost
BY WorkTyped DEF WorkInv

\* It is told that its runner leads, hears the events, or is stopped.
LEMMA OnAndOffKeep ==
    ASSUME WorkInv, NEW r \in Runner, W!Lead(r) \/ W!Hear(r) \/ W!Demote(r) \/ W!ShutdownBegins(r)
    PROVE  WorkInv'
<1>1. PICK old : old = recorder[r]
  OBVIOUS
<1>2. old \in Rec /\ InHand(old) /\ \A j \in Job : Kept(j, old)
  BY <1>1, RecorderIs
<1>3. /\ job' = job /\ running' = running /\ rows' = rows /\ missed' = missed /\ lost' = lost
      /\ runner' \in [Runner -> {"up", "stopped", "draining", "closed", "dead"}] /\ terms' \in 0..MaxTerms
  BY RecorderIs, BoundsAssumption DEF W!Lead, W!Hear, W!Demote, W!ShutdownBegins
<1>4. PICK rec \in Rec :
         /\ recorder' = [recorder EXCEPT ![r] = rec]
         /\ rec.found = old.found /\ rec.tasks = old.tasks
         /\ rec.on => (old.on /\ rec.scan = old.scan) \/ rec.scan = "begun"
         /\ rec.scan = old.scan \/ (rec.scan = "begun" /\ old.scan \in {"none", "done"})
  <2>1. CASE W!Lead(r)
    <3>1. PICK rec : rec = [old EXCEPT !.on = TRUE, !.scan = "begun"]
      OBVIOUS
    <3>2. rec \in Rec /\ rec.found = old.found /\ rec.tasks = old.tasks /\ rec.scan = "begun"
      BY <1>2, <3>1 DEF Rec
    <3>3. recorder' = [recorder EXCEPT ![r] = rec] /\ old.scan \in {"none", "done"}
      <4>1. recorder \in [Runner -> Rec]
        BY RecorderIs
      <4> QED
        BY <1>1, <1>2, <2>1, <3>1, <4>1 DEF W!Lead, Rec
    <3> QED
      BY <3>2, <3>3
  <2>2. CASE W!Hear(r)
    <3>1. PICK rec : rec = [old EXCEPT !.hears = TRUE]
      OBVIOUS
    <3>2. rec \in Rec /\ rec.found = old.found /\ rec.tasks = old.tasks /\ rec.scan = old.scan /\ rec.on = old.on
      BY <1>2, <3>1 DEF Rec
    <3>3. recorder' = [recorder EXCEPT ![r] = rec] /\ old.on
      BY <1>1, <2>2, <3>1 DEF W!Hear
    <3> QED
      BY <3>2, <3>3
  <2>3. CASE W!Demote(r) \/ W!ShutdownBegins(r)
    <3>1. PICK rec : rec = [old EXCEPT !.on = FALSE, !.hears = FALSE]
      OBVIOUS
    <3>2. rec \in Rec /\ rec.found = old.found /\ rec.tasks = old.tasks /\ rec.scan = old.scan /\ ~rec.on
      BY <1>2, <3>1 DEF Rec
    <3>3. recorder' = [recorder EXCEPT ![r] = rec]
      <4>1. recorder \in [Runner -> Rec]
        BY RecorderIs
      <4> QED
        BY <1>1, <1>2, <2>3, <3>1, <4>1 DEF W!Demote, W!ShutdownBegins, Rec
    <3> QED
      BY <3>2, <3>3
  <2> QED
    BY <2>1, <2>2, <2>3
<1>5. InHand(rec)'
  BY <1>2, <1>3, <1>4 DEF InHand
<1>6. \A j \in Job : Kept(j, rec)'
  BY <1>2, <1>3, <1>4 DEF Kept
<1>7. W!TypeOK'
  <2>1. recorder' \in [Runner -> Rec]
    BY <1>4, RecorderIs
  <2> QED
    BY <1>3, <2>1, RecorderIs DEF W!TypeOK, Rec, W!Finished
<1> QED
  BY <1>3, <1>4, <1>5, <1>6, <1>7, RecorderGoesOn

\* The scan asks for the next jobs, when it has none left of the last.
LEMMA ScanNextKeeps == ASSUME WorkInv, NEW r \in Runner, W!ScanNext(r) PROVE WorkInv'
<1>1. PICK old : old = recorder[r]
  OBVIOUS
<1>2. old \in Rec /\ InHand(old) /\ \A j \in Job : Kept(j, old)
  BY <1>1, RecorderIs
<1>3. /\ job' = job /\ running' = running /\ rows' = rows /\ missed' = missed /\ lost' = lost /\ runner' = runner
      /\ terms' = terms /\ old.scan \in {"begun", "completed", "failed"} /\ old.found = {}
  BY <1>1 DEF W!ScanNext
<1>4. PICK next : next = (CASE old.scan = "begun" -> "completed" [] old.scan = "completed" -> "failed" [] OTHER -> "done")
  OBVIOUS
<1>5. PICK some : some = {j \in Job : job[j] = next}
  OBVIOUS
<1>6. PICK rec : rec = [old EXCEPT !.scan = next, !.found = some]
  OBVIOUS
<1>7. /\ old.scan = "begun" => next = "completed"
      /\ old.scan = "completed" => next = "failed"
      /\ old.scan = "failed" => next = "done" /\ some = {}
  <2>1. \A j \in Job : job[j] # "done"
    BY RecorderIs
  <2> QED
    BY <1>4, <1>5, <2>1
<1>8. rec \in Rec /\ rec.scan = next /\ rec.found = some /\ rec.tasks = old.tasks /\ rec.on = old.on
  BY <1>2, <1>3, <1>5, <1>6, <1>7 DEF Rec
<1>9. recorder' = [recorder EXCEPT ![r] = rec]
  <2>1. recorder \in [Runner -> Rec]
    BY RecorderIs
  <2> QED
    BY <1>1, <1>2, <1>4, <1>5, <1>6, <2>1 DEF W!ScanNext, Rec
<1>10. InHand(rec)'
  BY <1>2, <1>3, <1>5, <1>7, <1>8 DEF InHand
<1>11. ASSUME NEW j \in Job PROVE Kept(j, rec)'
  <2> SUFFICES ASSUME job[j] \in W!Finished, old.on, j \notin missed
               PROVE  \/ j \in some
                      \/ \E task \in {"log", "remove"} : <<j, task>> \in old.tasks
                      \/ next = "completed" /\ job[j] = "failed"
    BY <1>3, <1>8 DEF Kept
  <2>1. \/ \E task \in {"log", "remove"} : <<j, task>> \in old.tasks
        \/ old.scan = "begun"
        \/ old.scan = "completed" /\ job[j] = "failed"
    BY <1>2, <1>3 DEF Kept
  <2>2. job[j] \in {"completed", "failed"}
    BY DEF W!Finished
  <2> QED
    BY <1>5, <1>7, <2>1, <2>2
<1>12. W!TypeOK'
  <2>1. recorder' \in [Runner -> Rec]
    BY <1>8, <1>9, RecorderIs
  <2> QED
    BY <1>3, <2>1, RecorderIs DEF W!TypeOK, Rec, W!Finished
<1> QED
  BY <1>3, <1>8, <1>9, <1>10, <1>11, <1>12, RecorderGoesOn

\* A job is recorded: it has a row now, or had one.
RowFor(j, status) == rows' = [rows EXCEPT ![j] = IF @ = "none" THEN status ELSE @]

LEMMA RowIs ==
    ASSUME WorkInv, NEW j \in Job, NEW status \in W!Finished, RowFor(j, status), job[j] \in {status, "removed"}
    PROVE  /\ rows' \in [Job -> {"completed", "failed", "none"}] /\ rows'[j] # "none"
           /\ \A i \in Job : rows'[i] = rows[i] \/ (rows[i] = "none" /\ job[i] \in W!Finished /\ rows'[i] = job[i])
           /\ \A i \in Job : rows[i] # "none" => rows'[i] # "none"
<1>1. rows \in [Job -> {"completed", "failed", "none"}] /\ status \in {"completed", "failed"}
  BY WorkTyped DEF WorkInv, W!Finished
<1>2. PICK s : s = (IF rows[j] = "none" THEN status ELSE rows[j])
  OBVIOUS
<1>3. rows' = [rows EXCEPT ![j] = s] /\ s \in {"completed", "failed"}
  BY <1>1, <1>2 DEF RowFor
<1>4. rows' \in [Job -> {"completed", "failed", "none"}] /\ rows'[j] = s /\ \A i \in Job \ {j} : rows'[i] = rows[i]
  BY <1>1, <1>3
<1>5. job[j] = "removed" => rows[j] # "none"
  BY DEF WorkInv, RowsFit
<1> QED
  BY <1>1, <1>2, <1>3, <1>4, <1>5

\* Tasks are told apart by their jobs and by what they do.
LEMMA TasksDiffer ==
    ASSUME NEW i, NEW j
    PROVE  <<i, "log">> # <<j, "remove">> /\ (<<i, "remove">> = <<j, "remove">> => i = j)
OBVIOUS

\* The handler of an event records its job, finds it gone, or fails.
LEMMA LogKeeps == ASSUME WorkInv, NEW r \in Runner, NEW j \in Job, W!Log(r, j) PROVE WorkInv'
<1>1. PICK old : old = recorder[r]
  OBVIOUS
<1>2. old \in Rec /\ InHand(old) /\ \A i \in Job : Kept(i, old)
  BY <1>1, RecorderIs
<1>3. job' = job /\ running' = running /\ runner' = runner /\ terms' = terms /\ <<j, "log">> \in old.tasks
  BY <1>1 DEF W!Log
<1>4. job[j] \in {"completed", "failed", "removed"}
  BY <1>2, <1>3 DEF InHand, W!Finished
<1>5. ASSUME NEW left, left = old.tasks \ {<<j, "log">>} \/ left = (old.tasks \ {<<j, "log">>}) \cup {<<j, "remove">>},
             recorder' = [recorder EXCEPT ![r].tasks = left]
      PROVE  /\ [old EXCEPT !.tasks = left] \in Rec
             /\ recorder' = [recorder EXCEPT ![r] = [old EXCEPT !.tasks = left]] /\ recorder' \in [Runner -> Rec]
  <2>1. recorder \in [Runner -> Rec]
    BY RecorderIs
  <2>2. left \subseteq Job \X {"log", "remove"}
    BY <1>2, <1>5 DEF Rec
  <2>3. [old EXCEPT !.tasks = left] \in Rec
    BY <1>2, <2>2 DEF Rec
  <2> QED
    BY <1>1, <1>5, <2>1, <2>3
<1>6. PICK less : less = old.tasks \ {<<j, "log">>}
  OBVIOUS
<1>7. ASSUME job[j] = "removed" \/ j \in missed', rows' = rows, missed \subseteq missed', missed' \subseteq Job,
             lost' \in 0..MaxLost, recorder' = [recorder EXCEPT ![r].tasks = less]
      PROVE  WorkInv'
  <2>1. PICK rec : rec = [old EXCEPT !.tasks = less]
    OBVIOUS
  <2>2. /\ rec \in Rec /\ recorder' = [recorder EXCEPT ![r] = rec] /\ recorder' \in [Runner -> Rec]
        /\ rec.tasks = less /\ rec.on = old.on /\ rec.scan = old.scan /\ rec.found = old.found
    BY <1>2, <1>5, <1>6, <1>7, <2>1 DEF Rec
  <2>3. InHand(rec)'
    BY <1>2, <1>3, <1>6, <1>7, <2>2 DEF InHand
  <2>4. \A i \in Job : Kept(i, rec)'
    BY <1>2, <1>3, <1>6, <1>7, <2>2 DEF Kept, W!Finished
  <2>5. W!TypeOK'
    BY <1>3, <1>7, <2>2, RecorderIs DEF W!TypeOK, Rec, W!Finished
  <2> QED
    BY <1>3, <1>7, <2>2, <2>3, <2>4, <2>5, RecorderGoesOn
<1>8. CASE job[j] = "removed"
  BY <1>1, <1>6, <1>7, <1>8, RecorderIs DEF W!Log
<1>9. CASE job[j] # "removed" /\ missed' # missed
  <2>1. /\ lost < MaxLost /\ lost' = lost + 1 /\ missed' = missed \cup {j} /\ rows' = rows
        /\ recorder' = [recorder EXCEPT ![r].tasks = less]
    BY <1>1, <1>6, <1>9 DEF W!Log
  <2>2. lost' \in 0..MaxLost /\ missed' \subseteq Job
    BY <2>1, RecorderIs, BoundsAssumption
  <2> QED
    BY <1>7, <2>1, <2>2
<1>10. CASE job[j] # "removed" /\ missed' = missed /\ lost' # lost
  <2>1. /\ lost < MaxLost /\ lost' = lost + 1 /\ missed' = missed \cup {j} /\ rows' = rows
        /\ recorder' = [recorder EXCEPT ![r].tasks = less]
    BY <1>1, <1>6, <1>10 DEF W!Log
  <2>2. lost' \in 0..MaxLost /\ missed' \subseteq Job /\ j \in missed'
    BY <2>1, RecorderIs, BoundsAssumption
  <2> QED
    BY <1>7, <2>1, <2>2
<1>11. CASE job[j] # "removed" /\ missed' = missed /\ lost' = lost
  <2>1. PICK more : more = (old.tasks \ {<<j, "log">>}) \cup {<<j, "remove">>}
    OBVIOUS
  <2>2. lost \in Nat
    BY RecorderIs
  <2>3. RowFor(j, job[j]) /\ recorder' = [recorder EXCEPT ![r].tasks = more]
    <3>1. recorder' = [recorder EXCEPT ![r].tasks = (@ \ {<<j, "log">>}) \cup {<<j, "remove">>}] /\ RowFor(j, job[j])
      BY <1>11, <2>2 DEF W!Log, RowFor
    <3>2. recorder \in [Runner -> Rec]
      BY RecorderIs
    <3> QED
      BY <1>1, <2>1, <3>1, <3>2
  <2>4. PICK rec : rec = [old EXCEPT !.tasks = more]
    OBVIOUS
  <2>5. /\ rec \in Rec /\ recorder' = [recorder EXCEPT ![r] = rec] /\ recorder' \in [Runner -> Rec]
        /\ rec.tasks = more /\ rec.on = old.on /\ rec.scan = old.scan /\ rec.found = old.found
    BY <1>2, <1>5, <2>1, <2>3, <2>4 DEF Rec
  <2>6. job[j] \in W!Finished
    BY <1>4, <1>11 DEF W!Finished
  <2>7. /\ rows' \in [Job -> {"completed", "failed", "none"}] /\ rows'[j] # "none"
        /\ \A i \in Job : rows'[i] = rows[i] \/ (rows[i] = "none" /\ job[i] \in W!Finished /\ rows'[i] = job[i])
        /\ \A i \in Job : rows[i] # "none" => rows'[i] # "none"
    BY <2>3, <2>6, RowIs
  <2>8. InHand(rec)'
    <3>1. ASSUME NEW i \in Job, <<i, "log">> \in rec.tasks PROVE job[i] \in W!Finished \cup {"removed"}
      <4>1. <<i, "log">> \in old.tasks
        BY <2>1, <2>5, <3>1, TasksDiffer
      <4> QED
        BY <1>2, <4>1 DEF InHand
    <3>2. ASSUME NEW i \in Job, <<i, "remove">> \in rec.tasks
          PROVE  job[i] \in W!Finished \cup {"removed"} /\ rows'[i] # "none"
      <4>1. CASE i = j
        BY <2>6, <2>7, <4>1
      <4>2. CASE i # j
        <5>1. <<i, "remove">> \in old.tasks
          BY <2>1, <2>5, <3>2, <4>2, TasksDiffer
        <5>2. job[i] \in W!Finished \cup {"removed"} /\ rows[i] # "none"
          BY <1>2, <5>1 DEF InHand
        <5> QED
          BY <2>7, <5>2
      <4> QED
        BY <4>1, <4>2
    <3>3. \A i \in Job : i \in rec.found => rec.scan \in {"completed", "failed"} /\ job[i] \in {rec.scan, "removed"}
      BY <1>2, <2>5 DEF InHand
    <3> QED
      BY <1>3, <3>1, <3>2, <3>3 DEF InHand
  <2>9. \A i \in Job : Kept(i, rec)'
    BY <1>2, <1>3, <1>11, <2>1, <2>5 DEF Kept
  <2>10. W!TypeOK'
    BY <1>3, <1>11, <2>5, <2>7, RecorderIs DEF W!TypeOK, Rec, W!Finished
  <2> QED
    BY <1>3, <1>11, <2>5, <2>7, <2>8, <2>9, <2>10, RecorderGoesOn
<1> QED
  BY <1>8, <1>9, <1>10, <1>11

\* The scan records a job of its list, or fails and has missed all that has finished.
LEMMA ScanJobKeeps == ASSUME WorkInv, NEW r \in Runner, NEW j \in Job, W!ScanJob(r, j) PROVE WorkInv'
<1>1. PICK old : old = recorder[r]
  OBVIOUS
<1>2. old \in Rec /\ InHand(old) /\ \A i \in Job : Kept(i, old)
  BY <1>1, RecorderIs
<1>3. /\ job' = job /\ running' = running /\ runner' = runner /\ terms' = terms
      /\ j \in old.found /\ old.scan \in {"completed", "failed"} /\ job[j] \in {old.scan, "removed"}
  BY <1>1, <1>2 DEF W!ScanJob, InHand
<1>4. recorder \in [Runner -> Rec] /\ missed \subseteq Job /\ lost \in 0..MaxLost
  BY RecorderIs
<1>5. CASE /\ RowFor(j, old.scan) /\ missed' = missed /\ lost' = lost
           /\ recorder' = [recorder EXCEPT ![r].found = @ \ {j}, ![r].tasks = @ \cup {<<j, "remove">>}]
  <2>1. PICK less, more : less = old.found \ {j} /\ more = old.tasks \cup {<<j, "remove">>}
    OBVIOUS
  <2>2. PICK rec : rec = [old EXCEPT !.found = less, !.tasks = more]
    OBVIOUS
  <2>3. rec \in Rec /\ rec.found = less /\ rec.tasks = more /\ rec.on = old.on /\ rec.scan = old.scan
    <3>1. less \in SUBSET Job /\ more \in SUBSET (Job \X {"log", "remove"})
      BY <1>2, <2>1 DEF Rec
    <3> QED
      BY <1>2, <2>2, <3>1 DEF Rec
  <2>4. recorder' = [recorder EXCEPT ![r] = rec]
    BY <1>1, <1>2, <1>4, <1>5, <2>1, <2>2 DEF Rec
  <2>5. old.scan \in W!Finished
    BY <1>3 DEF W!Finished
  <2>6. /\ rows' \in [Job -> {"completed", "failed", "none"}] /\ rows'[j] # "none"
        /\ \A i \in Job : rows'[i] = rows[i] \/ (rows[i] = "none" /\ job[i] \in W!Finished /\ rows'[i] = job[i])
        /\ \A i \in Job : rows[i] # "none" => rows'[i] # "none"
    BY <1>3, <1>5, <2>5, RowIs
  <2>7. InHand(rec)'
    <3>1. ASSUME NEW i \in Job, <<i, "log">> \in rec.tasks PROVE job[i] \in W!Finished \cup {"removed"}
      <4>1. <<i, "log">> \in old.tasks
        BY <2>1, <2>3, <3>1, TasksDiffer
      <4> QED
        BY <1>2, <4>1 DEF InHand
    <3>2. ASSUME NEW i \in Job, <<i, "remove">> \in rec.tasks
          PROVE  job[i] \in W!Finished \cup {"removed"} /\ rows'[i] # "none"
      <4>1. CASE i = j
        BY <1>3, <2>5, <2>6, <4>1
      <4>2. CASE i # j
        <5>1. <<i, "remove">> \in old.tasks
          BY <2>1, <2>3, <3>2, <4>2, TasksDiffer
        <5>2. job[i] \in W!Finished \cup {"removed"} /\ rows[i] # "none"
          BY <1>2, <5>1 DEF InHand
        <5> QED
          BY <2>6, <5>2
      <4> QED
        BY <4>1, <4>2
    <3>3. \A i \in Job : i \in rec.found => rec.scan \in {"completed", "failed"} /\ job[i] \in {rec.scan, "removed"}
      BY <1>2, <2>1, <2>3 DEF InHand
    <3> QED
      BY <1>3, <3>1, <3>2, <3>3 DEF InHand
  <2>8. \A i \in Job : Kept(i, rec)'
    BY <1>2, <1>3, <1>5, <2>1, <2>3 DEF Kept
  <2>9. W!TypeOK'
    <3>1. recorder' \in [Runner -> Rec]
      BY <1>4, <2>3, <2>4
    <3> QED
      BY <1>3, <1>5, <2>6, <3>1, RecorderIs DEF W!TypeOK, Rec, W!Finished
  <2> QED
    BY <1>3, <1>5, <2>3, <2>4, <2>6, <2>7, <2>8, <2>9, RecorderGoesOn
<1>6. CASE /\ lost < MaxLost /\ lost' = lost + 1 /\ rows' = rows
           /\ recorder' = [recorder EXCEPT ![r].found = {}, ![r].scan = "done"]
           /\ missed' = missed \cup {i \in Job : job[i] \in W!Finished}
  <2>1. PICK rec : rec = [old EXCEPT !.found = {}, !.scan = "done"]
    OBVIOUS
  <2>2. rec \in Rec /\ rec.found = {} /\ rec.tasks = old.tasks /\ rec.on = old.on /\ rec.scan = "done"
    BY <1>2, <2>1 DEF Rec
  <2>3. recorder' = [recorder EXCEPT ![r] = rec]
    BY <1>1, <1>2, <1>4, <1>6, <2>1 DEF Rec
  <2>4. InHand(rec)'
    BY <1>2, <1>3, <1>6, <2>2 DEF InHand
  <2>5. \A i \in Job : Kept(i, rec)'
    BY <1>3, <1>6 DEF Kept
  <2>6. W!TypeOK'
    <3>1. recorder' \in [Runner -> Rec] /\ missed' \subseteq Job /\ lost' \in 0..MaxLost
      <4>1. recorder' \in [Runner -> Rec]
        BY <1>4, <2>2, <2>3
      <4>2. missed' \subseteq Job
        BY <1>4, <1>6
      <4>3. lost' \in 0..MaxLost
        BY <1>4, <1>6, BoundsAssumption
      <4> QED
        BY <4>1, <4>2, <4>3
    <3> QED
      BY <1>3, <1>6, <3>1, RecorderIs DEF W!TypeOK, Rec, W!Finished
  <2> QED
    BY <1>3, <1>6, <2>2, <2>3, <2>4, <2>5, <2>6, RecorderGoesOn
<1> QED
  BY <1>1, <1>5, <1>6 DEF W!ScanJob, RowFor

\* The jobs move, and no recorder does: what was in hand still is.
LEMMA JobsMove ==
    ASSUME WorkInv, W!TypeOK', RunsActive', RowsFit', recorder' = recorder, rows' = rows, missed' = missed,
           \A j \in Job : job'[j] = job[j] \/ (job[j] \notin W!Finished \cup {"removed"} /\ job'[j] \notin W!Finished)
    PROVE  WorkInv'
<1> SUFFICES ASSUME NEW r \in Runner PROVE InHand(recorder[r])' /\ \A j \in Job : Kept(j, recorder[r])'
  BY DEF WorkInv
<1>1. InHand(recorder[r]) /\ (\A j \in Job : Kept(j, recorder[r])) /\ recorder'[r] = recorder[r] /\ recorder[r] \in Rec
  BY RecorderIs
<1>2. ASSUME NEW j \in Job, job'[j] # job[j]
      PROVE  <<j, "log">> \notin recorder[r].tasks /\ <<j, "remove">> \notin recorder[r].tasks /\ j \notin recorder[r].found
  BY <1>1, <1>2 DEF InHand, W!Finished
<1>3. InHand(recorder[r])'
  BY <1>1, <1>2 DEF InHand
<1>4. \A j \in Job : Kept(j, recorder[r])'
  BY <1>1 DEF Kept
<1> QED
  BY <1>3, <1>4

\* A job is queued or taken; a runner that stops takes none.
LEMMA QueueKeeps ==
    ASSUME WorkInv, \/ \E j \in Job : W!Queue(j)
                    \/ \E r \in Runner : W!Pause(r) \/ W!Close(r) \/ \E j \in Job : W!Take(r, j)
    PROVE  WorkInv'
<1>1. /\ job \in [Job -> {"none", "waiting", "active", "completed", "failed", "removed"}]
      /\ runner \in [Runner -> {"up", "stopped", "draining", "closed", "dead"}]
      /\ running \in [Runner -> SUBSET Job] /\ W!TypeOK /\ RunsActive /\ RowsFit
  BY WorkTyped DEF WorkInv
<1>2. ASSUME NEW j \in Job, W!Queue(j) PROVE WorkInv'
  <2>1. /\ job' = [job EXCEPT ![j] = "waiting"] /\ job[j] = "none" /\ running' = running /\ runner' = runner
        /\ recorder' = recorder /\ rows' = rows /\ missed' = missed /\ terms' = terms /\ lost' = lost
    BY <1>2 DEF W!Queue
  <2>2. W!TypeOK'
    BY <1>1, <2>1 DEF W!TypeOK
  <2>3. RunsActive' /\ RowsFit'
    BY <1>1, <2>1 DEF RunsActive, RowsFit, W!Finished
  <2>4. \A i \in Job : job'[i] = job[i] \/ (job[i] \notin W!Finished \cup {"removed"} /\ job'[i] \notin W!Finished)
    BY <1>1, <2>1 DEF W!Finished
  <2> QED
    BY <2>1, <2>2, <2>3, <2>4, JobsMove
<1>3. ASSUME NEW r \in Runner, W!Pause(r) \/ W!Close(r) PROVE WorkInv'
  <2>1. /\ job' = job /\ running' = running /\ runner' \in [Runner -> {"up", "stopped", "draining", "closed", "dead"}]
        /\ recorder' = recorder /\ rows' = rows /\ missed' = missed /\ terms' = terms /\ lost' = lost
    BY <1>1, <1>3 DEF W!Pause, W!Close
  <2>2. W!TypeOK' /\ RunsActive' /\ RowsFit'
    BY <1>1, <2>1 DEF W!TypeOK, RunsActive, RowsFit
  <2> QED
    BY <2>1, <2>2, JobsMove
<1>4. ASSUME NEW r \in Runner, NEW j \in Job, W!Take(r, j) PROVE WorkInv'
  <2>1. /\ job' = [job EXCEPT ![j] = "active"] /\ job[j] = "waiting" /\ runner' = runner /\ running[r] = {}
        /\ running' = [running EXCEPT ![r] = {j}]
        /\ recorder' = recorder /\ rows' = rows /\ missed' = missed /\ terms' = terms /\ lost' = lost
    BY <1>4 DEF W!Take
  <2>2. W!TypeOK'
    BY <1>1, <2>1 DEF W!TypeOK
  <2>3. \A q \in Runner : j \notin running[q]
    BY <1>1, <2>1 DEF RunsActive
  <2>4. RunsActive'
    <3>1. ASSUME NEW q \in Runner, NEW i \in running'[q]
          PROVE  job'[i] = "active" /\ \A p \in Runner : i \in running'[p] => p = q
      <4>1. i \in Job
        BY <1>1, <2>1, <3>1
      <4>2. CASE i = j
        BY <1>1, <2>1, <2>3, <3>1, <4>2
      <4>3. CASE i # j
        BY <1>1, <2>1, <3>1, <4>1, <4>3 DEF RunsActive
      <4> QED
        BY <4>2, <4>3
    <3> QED
      BY <3>1 DEF RunsActive
  <2>5. RowsFit'
    BY <1>1, <2>1 DEF RowsFit, W!Finished
  <2>6. \A i \in Job : job'[i] = job[i] \/ (job[i] \notin W!Finished \cup {"removed"} /\ job'[i] \notin W!Finished)
    BY <1>1, <2>1 DEF W!Finished
  <2> QED
    BY <2>1, <2>2, <2>4, <2>5, <2>6, JobsMove
<1> QED
  BY <1>2, <1>3, <1>4

\* A job finishes: whoever reads the events has it in hand, and who hears nothing yet will still ask
\* for jobs of its status, or has missed it.
LEMMA FinishKeeps ==
    ASSUME WorkInv, NEW r \in Runner, NEW j \in Job, NEW status \in W!Finished, W!Finish(r, j, status)
    PROVE  WorkInv'
<1>1. /\ job \in [Job -> {"none", "waiting", "active", "completed", "failed", "removed"}]
      /\ running \in [Runner -> SUBSET Job] /\ recorder \in [Runner -> Rec] /\ missed \subseteq Job
      /\ W!TypeOK /\ RunsActive /\ RowsFit /\ status \in {"completed", "failed"}
  BY WorkTyped DEF WorkInv, W!Finished
<1>2. PICK reading : reading = {q \in Runner : recorder[q].hears}
  OBVIOUS
<1>3. /\ job' = [job EXCEPT ![j] = status] /\ running' = [running EXCEPT ![r] = {}]
      /\ recorder' = [q \in Runner |-> IF q \in reading THEN [recorder[q] EXCEPT !.tasks = @ \cup {<<j, "log">>}]
                                       ELSE recorder[q]]
      /\ missed' = IF \E q \in Runner : W!InTheGap(q, status) THEN missed \cup {j} ELSE missed
      /\ rows' = rows /\ runner' = runner /\ terms' = terms /\ lost' = lost
  BY <1>2 DEF W!Finish
<1>4. job[j] = "active" /\ rows[j] = "none" /\ \A q \in Runner : j \in running[q] => q = r
  BY <1>1 DEF W!Finish, RunsActive, RowsFit
<1>5. job' \in [Job -> {"none", "waiting", "active", "completed", "failed", "removed"}] /\ job'[j] = status
      /\ \A i \in Job \ {j} : job'[i] = job[i]
  BY <1>1, <1>3
<1>6. ASSUME NEW q \in Runner
      PROVE  /\ recorder'[q] \in Rec /\ recorder'[q].on = recorder[q].on /\ recorder'[q].scan = recorder[q].scan
             /\ recorder'[q].found = recorder[q].found
             /\ recorder'[q].tasks = recorder[q].tasks \/ recorder'[q].tasks = recorder[q].tasks \cup {<<j, "log">>}
             /\ recorder[q].hears => <<j, "log">> \in recorder'[q].tasks
             /\ recorder[q].tasks \subseteq recorder'[q].tasks
  <2>1. recorder[q] \in Rec
    BY <1>1
  <2>2. PICK more : more = recorder[q].tasks \cup {<<j, "log">>}
    OBVIOUS
  <2>3. more \in SUBSET (Job \X {"log", "remove"})
    BY <2>1, <2>2 DEF Rec
  <2>4. PICK rec : rec = [recorder[q] EXCEPT !.tasks = more]
    OBVIOUS
  <2>5. /\ rec \in Rec /\ rec.tasks = more /\ rec.on = recorder[q].on /\ rec.scan = recorder[q].scan
        /\ rec.found = recorder[q].found
    BY <2>1, <2>3, <2>4 DEF Rec
  <2>6. CASE recorder[q].hears
    <3>1. recorder'[q] = rec
      BY <1>2, <1>3, <2>2, <2>4, <2>6
    <3> QED
      BY <2>2, <2>5, <3>1
  <2>7. CASE ~recorder[q].hears
    BY <1>2, <1>3, <2>1, <2>7
  <2> QED
    BY <2>6, <2>7
<1>7. W!TypeOK'
  <2>1. recorder' \in [Runner -> Rec]
    BY <1>3, <1>6
  <2>2. missed' \subseteq Job /\ running' \in [Runner -> SUBSET Job]
    BY <1>1, <1>3
  <2> QED
    BY <1>1, <1>3, <1>5, <2>1, <2>2 DEF W!TypeOK, Rec
<1>8. RunsActive'
  <2>1. ASSUME NEW q \in Runner, NEW i \in running'[q] PROVE q # r /\ i \in running[q] /\ i # j /\ i \in Job
    BY <1>1, <1>3, <1>4, <2>1
  <2>2. \A q \in Runner : running'[q] \subseteq running[q]
    BY <1>1, <1>3
  <2> QED
    BY <1>1, <1>5, <2>1, <2>2 DEF RunsActive
<1>9. RowsFit'
  BY <1>1, <1>3, <1>4, <1>5 DEF RowsFit, W!Finished
<1>10. ASSUME NEW q \in Runner PROVE InHand(recorder[q])'
  <2>1. InHand(recorder[q])
    BY DEF WorkInv
  <2>2. ASSUME NEW i \in Job, <<i, "log">> \in recorder'[q].tasks PROVE job'[i] \in W!Finished \cup {"removed"}
    <3>1. CASE i = j
      BY <1>5, <3>1
    <3>2. CASE i # j
      <4>1. <<i, "log">> \in recorder[q].tasks
        BY <1>6, <2>2, <3>2
      <4> QED
        BY <1>5, <2>1, <3>2, <4>1 DEF InHand
    <3> QED
      BY <3>1, <3>2
  <2>3. ASSUME NEW i \in Job, <<i, "remove">> \in recorder'[q].tasks
        PROVE  job'[i] \in W!Finished \cup {"removed"} /\ rows'[i] # "none"
    <3>1. <<i, "remove">> \in recorder[q].tasks
      BY <1>6, <2>3, TasksDiffer
    <3>2. job[i] \in W!Finished \cup {"removed"} /\ rows[i] # "none"
      BY <2>1, <3>1 DEF InHand
    <3> QED
      BY <1>3, <1>4, <1>5, <3>2
  <2>4. ASSUME NEW i \in Job, i \in recorder'[q].found
        PROVE  recorder'[q].scan \in {"completed", "failed"} /\ job'[i] \in {recorder'[q].scan, "removed"}
    <3>1. recorder[q].scan \in {"completed", "failed"} /\ job[i] \in {recorder[q].scan, "removed"}
      BY <1>6, <2>1, <2>4 DEF InHand
    <3>2. i # j
      BY <1>4, <3>1
    <3> QED
      BY <1>5, <1>6, <3>1, <3>2
  <2> QED
    BY <2>2, <2>3, <2>4 DEF InHand
<1>11. ASSUME NEW q \in Runner, NEW i \in Job PROVE Kept(i, recorder[q])'
  <2> SUFFICES ASSUME job'[i] \in W!Finished, recorder'[q].on, i \notin missed'
               PROVE  \/ i \in recorder'[q].found
                      \/ \E task \in {"log", "remove"} : <<i, task>> \in recorder'[q].tasks
                      \/ recorder'[q].scan = "begun"
                      \/ recorder'[q].scan = "completed" /\ job'[i] = "failed"
    BY DEF Kept
  <2>1. CASE i = j
    <3>1. CASE recorder[q].hears
      BY <1>6, <2>1, <3>1
    <3>2. CASE ~recorder[q].hears
      <4>1. ~W!InTheGap(q, status)
        BY <1>3, <2>1
      <4>2. recorder[q].scan = "begun" \/ (recorder[q].scan = "completed" /\ status # "completed")
        BY <1>6, <3>2, <4>1 DEF W!InTheGap
      <4> QED
        BY <1>1, <1>5, <1>6, <2>1, <4>2
    <3> QED
      BY <3>1, <3>2
  <2>2. CASE i # j
    <3>1. Kept(i, recorder[q]) /\ job'[i] = job[i] /\ i \notin missed
      BY <1>3, <1>5, <2>2 DEF WorkInv
    <3>2. \/ i \in recorder[q].found
          \/ \E task \in {"log", "remove"} : <<i, task>> \in recorder[q].tasks
          \/ recorder[q].scan = "begun"
          \/ recorder[q].scan = "completed" /\ job[i] = "failed"
      BY <1>6, <3>1 DEF Kept
    <3> QED
      BY <1>6, <3>1, <3>2
  <2> QED
    BY <2>1, <2>2
<1> QED
  BY <1>7, <1>8, <1>9, <1>10, <1>11 DEF WorkInv

\* A process dies: its job waits again, and its recorder is no more.
LEMMA WorkerCrashKeeps == ASSUME WorkInv, NEW r \in Runner, W!Crash(r) PROVE WorkInv'
<1>1. /\ job \in [Job -> {"none", "waiting", "active", "completed", "failed", "removed"}]
      /\ runner \in [Runner -> {"up", "stopped", "draining", "closed", "dead"}] /\ lost \in 0..MaxLost
      /\ running \in [Runner -> SUBSET Job] /\ recorder \in [Runner -> Rec]
      /\ W!TypeOK /\ RunsActive /\ RowsFit
  BY WorkTyped DEF WorkInv
<1>2. /\ runner' = [runner EXCEPT ![r] = "dead"] /\ running' = [running EXCEPT ![r] = {}]
      /\ job' = [j \in Job |-> IF j \in running[r] THEN "waiting" ELSE job[j]]
      /\ recorder' = [recorder EXCEPT ![r] = W!NoRecorder]
      /\ rows' = rows /\ missed' = missed /\ terms' = terms /\ lost < MaxLost /\ lost' = lost + 1
  BY DEF W!Crash
<1>3. W!NoRecorder \in Rec /\ W!NoRecorder.found = {} /\ W!NoRecorder.tasks = {} /\ ~W!NoRecorder.on
  BY DEF W!NoRecorder, Rec
<1>4. W!TypeOK'
  <2>1. lost' \in 0..MaxLost /\ recorder' \in [Runner -> Rec]
    BY <1>1, <1>2, <1>3, BoundsAssumption
  <2>2. job' \in [Job -> {"none", "waiting", "active", "completed", "failed", "removed"}]
    BY <1>1, <1>2
  <2> QED
    BY <1>1, <1>2, <2>1, <2>2 DEF W!TypeOK, Rec
<1>5. \A j \in Job : job'[j] = job[j] \/ (job[j] = "active" /\ job'[j] = "waiting")
  BY <1>1, <1>2 DEF RunsActive
<1>6. RunsActive'
  <2>1. ASSUME NEW q \in Runner, NEW j \in running'[q] PROVE q # r /\ j \in running[q] /\ j \in Job /\ j \notin running[r]
    BY <1>1, <1>2, <2>1 DEF RunsActive
  <2>2. \A q \in Runner : running'[q] \subseteq running[q]
    BY <1>1, <1>2
  <2> QED
    BY <1>1, <1>2, <2>1, <2>2 DEF RunsActive
<1>7. RowsFit'
  BY <1>1, <1>2, <1>5 DEF RowsFit, W!Finished
<1>8. ASSUME NEW q \in Runner PROVE InHand(recorder[q])' /\ \A j \in Job : Kept(j, recorder[q])'
  <2>1. CASE q = r
    <3>1. recorder'[q] = W!NoRecorder
      BY <1>1, <1>2, <2>1
    <3> QED
      BY <1>3, <3>1 DEF InHand, Kept
  <2>2. CASE q # r
    <3>1. recorder'[q] = recorder[q] /\ InHand(recorder[q]) /\ \A j \in Job : Kept(j, recorder[q])
      BY <1>1, <1>2, <2>2 DEF WorkInv
    <3>2. ASSUME NEW j \in Job, job[j] \in {"completed", "failed", "removed"} PROVE job'[j] = job[j]
      BY <1>5, <3>2
    <3>3. \A j \in Job : job'[j] \in W!Finished => job'[j] = job[j]
      BY <1>5 DEF W!Finished
    <3>4. InHand(recorder[q])'
      BY <1>2, <3>1, <3>2 DEF InHand, W!Finished
    <3>5. \A j \in Job : Kept(j, recorder[q])'
      BY <1>2, <3>1, <3>3 DEF Kept
    <3> QED
      BY <3>4, <3>5
  <2> QED
    BY <2>1, <2>2
<1> QED
  BY <1>4, <1>6, <1>7, <1>8 DEF WorkInv

\* A job with a row is removed.
LEMMA RemoveKeeps == ASSUME WorkInv, NEW r \in Runner, NEW j \in Job, W!Remove(r, j) PROVE WorkInv'
<1>1. /\ job \in [Job -> {"none", "waiting", "active", "completed", "failed", "removed"}]
      /\ running \in [Runner -> SUBSET Job] /\ recorder \in [Runner -> Rec] /\ W!TypeOK /\ RunsActive /\ RowsFit
  BY WorkTyped DEF WorkInv
<1>2. PICK less : less = recorder[r].tasks \ {<<j, "remove">>}
  OBVIOUS
<1>3. PICK rec : rec = [recorder[r] EXCEPT !.tasks = less]
  OBVIOUS
<1>4. /\ job' = [job EXCEPT ![j] = "removed"] /\ recorder' = [recorder EXCEPT ![r] = rec]
      /\ runner' = runner /\ running' = running /\ rows' = rows /\ missed' = missed /\ terms' = terms /\ lost' = lost
      /\ <<j, "remove">> \in recorder[r].tasks
  BY <1>1, <1>2, <1>3 DEF W!Remove, Rec
<1>5. job[j] \in W!Finished \cup {"removed"} /\ rows[j] # "none"
  BY <1>4 DEF WorkInv, InHand
<1>6. rec \in Rec /\ rec.tasks = less /\ rec.on = recorder[r].on /\ rec.scan = recorder[r].scan /\ rec.found = recorder[r].found
  <2>1. recorder[r] \in Rec /\ less \in SUBSET (Job \X {"log", "remove"})
    BY <1>1, <1>2 DEF Rec
  <2> QED
    BY <1>3, <2>1 DEF Rec
<1>7. job' \in [Job -> {"none", "waiting", "active", "completed", "failed", "removed"}] /\ job'[j] = "removed"
      /\ \A i \in Job \ {j} : job'[i] = job[i]
  BY <1>1, <1>4
<1>8. W!TypeOK'
  <2>1. recorder' \in [Runner -> Rec]
    BY <1>1, <1>4, <1>6
  <2> QED
    BY <1>1, <1>4, <1>7, <2>1 DEF W!TypeOK, Rec
<1>9. RunsActive' /\ RowsFit'
  BY <1>1, <1>4, <1>5, <1>7 DEF RunsActive, RowsFit, W!Finished
<1>10. ASSUME NEW q \in Runner PROVE InHand(recorder[q])' /\ \A i \in Job : Kept(i, recorder[q])'
  <2>1. /\ recorder'[q].on = recorder[q].on /\ recorder'[q].scan = recorder[q].scan /\ recorder'[q].found = recorder[q].found
        /\ recorder'[q].tasks \subseteq recorder[q].tasks
        /\ \A e \in recorder[q].tasks : e # <<j, "remove">> => e \in recorder'[q].tasks
    BY <1>1, <1>2, <1>4, <1>6
  <2>2. InHand(recorder[q]) /\ \A i \in Job : Kept(i, recorder[q])
    BY DEF WorkInv
  <2>3. \A i \in Job : job'[i] = job[i] \/ job'[i] = "removed"
    BY <1>7
  <2>4. InHand(recorder[q])'
    BY <1>4, <2>1, <2>2, <2>3 DEF InHand
  <2>5. ASSUME NEW i \in Job PROVE Kept(i, recorder[q])'
    <3> SUFFICES ASSUME job'[i] \in W!Finished, recorder[q].on, i \notin missed
                 PROVE  \/ i \in recorder[q].found
                        \/ \E task \in {"log", "remove"} : <<i, task>> \in recorder'[q].tasks
                        \/ recorder[q].scan = "begun"
                        \/ recorder[q].scan = "completed" /\ job'[i] = "failed"
      BY <1>4, <2>1 DEF Kept
    <3>1. i # j /\ job'[i] = job[i]
      BY <1>7 DEF W!Finished
    <3>2. \A task : <<i, task>> # <<j, "remove">>
      BY <3>1
    <3> QED
      BY <2>1, <2>2, <3>1, <3>2 DEF Kept
  <2> QED
    BY <2>4, <2>5
<1> QED
  BY <1>8, <1>9, <1>10 DEF WorkInv

\* Every step of the runners and recorders keeps the invariant.
LEMMA WorkStepping == WorkInv /\ W!Next => WorkInv'
BY OnAndOffKeep, ScanNextKeeps, LogKeeps, ScanJobKeeps, QueueKeeps, FinishKeeps, WorkerCrashKeeps, RemoveKeeps
   DEF W!Next

\* For any number of jobs and runners, under any changes of leadership and crashes: no finished job is
\* removed without its row, the row has its status, and a recorder that is on has each in hand, unless
\* writing failed or it finished between the scan and the first read (recorder.ts, start, logJob).
THEOREM JobsAreRecorded == PartsSpec => []NoJobForgotten
<1>1. PartsInit => WorkInv
  BY WorkBegins DEF PartsInit
<1>2. UNCHANGED wvars /\ WorkInv => WorkInv'
  <2> SUFFICES ASSUME UNCHANGED wvars, WorkInv PROVE WorkInv'
    OBVIOUS
  <2>1. /\ job' = job /\ runner' = runner /\ running' = running /\ recorder' = recorder /\ rows' = rows
        /\ missed' = missed /\ terms' = terms /\ lost' = lost
    BY DEF wvars
  <2> QED
    BY <2>1 DEF WorkInv, W!TypeOK, RunsActive, RowsFit, InHand, Kept
<1>3. WorkInv /\ [PartsNext]_allVars => WorkInv'
  BY <1>2, WorkStepping DEF PartsNext, allVars
<1>4. WorkInv => NoJobForgotten
  <2> SUFFICES ASSUME WorkInv PROVE W!NoJobForgotten
    BY DEF NoJobForgotten
  <2>1. \A j \in Job, r \in Runner :
          job[j] \in W!Finished /\ recorder[r].on /\ j \notin missed =>
            \/ j \in recorder[r].found
            \/ \E task \in {"log", "remove"} : <<j, task>> \in recorder[r].tasks
            \/ recorder[r].scan = "begun"
            \/ recorder[r].scan = "completed" /\ job[j] = "failed"
    BY DEF WorkInv, Kept
  <2> QED
    BY <2>1 DEF WorkInv, RowsFit, W!NoJobForgotten
<1> QED
  BY <1>1, <1>3, <1>4, PTL DEF PartsSpec

-----------------------------------------------------------------------------
(* migration:run. *)

RunRec ==
    [at : {"new", "create", "list", "apply", "record", "cron", "ended", "failed"}, todo : SUBSET M!Migration]

\* A run has yet to do all that is not recorded, and has applied what it is about to record.
RunFits(rec) ==
    /\ rec.at \in {"apply", "record"} => M!Migration \ executed \subseteq rec.todo
    /\ rec.at = "record" => \E m \in rec.todo : applied[m] > 0 /\ \A n \in rec.todo : m <= n
    /\ rec.at \in {"cron", "ended"} => executed = M!Migration

MigInv ==
    /\ M!TypeOK
    /\ \A m \in M!Migration : (m \in executed => applied[m] > 0) /\ (applied[m] > 1 => m \in repeated)
    /\ \A r \in Run : RunFits(run[r])

\* The types, with the records of the runs.
LEMMA MigTyped ==
    M!TypeOK <=>
        /\ run \in [Run -> RunRec] /\ table \in BOOLEAN /\ executed \subseteq M!Migration
        /\ applied \in [M!Migration -> Nat] /\ partial \subseteq M!Migration
        /\ repeated \subseteq M!Migration /\ cron \in BOOLEAN
BY DEF M!TypeOK, RunRec

\* A table may be there, with what was applied before.
LEMMA MigBegins == M!Init => MigInv
<1> SUFFICES ASSUME M!Init PROVE MigInv
  OBVIOUS
<1>1. /\ run = [r \in Run |-> [at |-> "new", todo |-> {}]] /\ executed \subseteq M!Migration
      /\ applied = [m \in M!Migration |-> IF m \in executed THEN 1 ELSE 0]
      /\ partial = {} /\ repeated = {} /\ table \in BOOLEAN /\ cron \in BOOLEAN
  BY DEF M!Init
<1>2. M!TypeOK
  BY <1>1, MigTyped DEF RunRec
<1>3. \A m \in M!Migration : (m \in executed => applied[m] > 0) /\ (applied[m] > 1 => m \in repeated)
  BY <1>1
<1>4. \A r \in Run : RunFits(run[r])
  BY <1>1 DEF RunFits
<1> QED
  BY <1>2, <1>3, <1>4 DEF MigInv

\* One run goes on; names are only added to the table, and what was applied stays so.
LEMMA RunGoesOn ==
    ASSUME MigInv, NEW r \in Run, NEW rec \in RunRec, run' = [run EXCEPT ![r] = rec], RunFits(rec)',
           table' \in BOOLEAN, executed \subseteq executed', executed' \subseteq M!Migration,
           applied' \in [M!Migration -> Nat], \A m \in M!Migration : applied[m] <= applied'[m],
           \A m \in M!Migration : (m \in executed' => applied'[m] > 0) /\ (applied'[m] > 1 => m \in repeated'),
           partial' \subseteq M!Migration, repeated' \subseteq M!Migration, cron' \in BOOLEAN
    PROVE  MigInv'
<1>1. run \in [Run -> RunRec] /\ applied \in [M!Migration -> Nat]
  BY MigTyped DEF MigInv
<1>2. run' \in [Run -> RunRec] /\ run'[r] = rec /\ \A q \in Run \ {r} : run'[q] = run[q]
  BY <1>1
<1>3. M!TypeOK'
  BY <1>2 DEF M!TypeOK, RunRec
<1>4. ASSUME NEW q \in Run \ {r} PROVE RunFits(run[q])'
  <2>1. RunFits(run[q]) /\ run[q] \in RunRec
    BY <1>1 DEF MigInv
  <2>2. \A m \in run[q].todo : m \in M!Migration
    BY <2>1 DEF RunRec
  <2>3. \A m \in run[q].todo : applied[m] > 0 => applied'[m] > 0
    BY <1>1, <2>2
  <2> QED
    BY <1>2, <2>1, <2>3 DEF RunFits
<1>5. RunFits(run[r])'
  BY <1>2 DEF RunFits
<1> QED
  BY <1>3, <1>4, <1>5 DEF MigInv

\* What the invariant says of a run.
LEMMA RunIs ==
    ASSUME MigInv, NEW r \in Run
    PROVE  /\ run[r] \in RunRec /\ RunFits(run[r]) /\ run \in [Run -> RunRec] /\ table \in BOOLEAN
           /\ executed \subseteq M!Migration /\ applied \in [M!Migration -> Nat] /\ partial \subseteq M!Migration
           /\ repeated \subseteq M!Migration /\ cron \in BOOLEAN /\ M!Migration \subseteq Nat
           /\ \A m \in M!Migration : (m \in executed => applied[m] > 0) /\ (applied[m] > 1 => m \in repeated)
BY MigTyped DEF MigInv, M!Migration

\* A run goes to a place that asks nothing of the table, or at which it knows that all is recorded.
LEMMA RunMoves ==
    ASSUME MigInv, NEW r \in Run, NEW place, M!At(r, place),
           place \in {"new", "create", "list", "cron", "ended", "failed"},
           place \in {"cron", "ended"} => executed = M!Migration,
           UNCHANGED <<executed, applied>>, table' \in BOOLEAN, partial' \subseteq M!Migration,
           repeated \subseteq repeated', repeated' \subseteq M!Migration, cron' \in BOOLEAN
    PROVE  MigInv'
<1>1. PICK rec : rec = [run[r] EXCEPT !.at = place]
  OBVIOUS
<1>2. rec \in RunRec /\ rec.at = place
  BY <1>1, RunIs DEF RunRec
<1>3. run' = [run EXCEPT ![r] = rec]
  BY <1>1 DEF M!At
<1>4. RunFits(rec)'
  BY <1>2 DEF RunFits
<1>5. \A m \in M!Migration : applied[m] <= applied'[m]
  BY RunIs
<1> QED
  BY <1>2, <1>3, <1>4, <1>5, RunIs, RunGoesOn

\* The steps before and after the migrations.
LEMMA AroundKeeps ==
    ASSUME MigInv, NEW r \in Run,
           M!LookForTable(r) \/ M!CreateTable(r) \/ M!AllApplied(r) \/ M!RemoveCron(r) \/ M!Kill(r)
    PROVE  MigInv'
<1>1. table \in BOOLEAN /\ executed \subseteq M!Migration /\ partial \subseteq M!Migration
      /\ repeated \subseteq M!Migration /\ cron \in BOOLEAN
  BY RunIs
<1>2. CASE M!LookForTable(r)
  <2>1. PICK place \in {"list", "create"} : M!At(r, place)
    BY <1>2 DEF M!LookForTable
  <2> QED
    BY <1>1, <1>2, <2>1, RunMoves DEF M!LookForTable
<1>3. CASE M!CreateTable(r)
  <2>1. PICK place \in {"failed", "list"} : M!At(r, place)
    BY <1>3 DEF M!CreateTable
  <2> QED
    BY <1>1, <1>3, <2>1, RunMoves DEF M!CreateTable
<1>4. CASE M!AllApplied(r)
  <2>1. executed = M!Migration
    BY <1>1, <1>4, RunIs DEF M!AllApplied, RunFits
  <2> QED
    BY <1>1, <1>4, <2>1, RunMoves DEF M!AllApplied
<1>5. CASE M!RemoveCron(r)
  <2>1. executed = M!Migration
    BY <1>5, RunIs DEF M!RemoveCron, RunFits
  <2> QED
    BY <1>1, <1>5, <2>1, RunMoves DEF M!RemoveCron
<1>6. CASE M!Kill(r)
  BY <1>1, <1>6, RunMoves DEF M!Kill
<1> QED
  BY <1>2, <1>3, <1>4, <1>5, <1>6

\* The run has all to do that is not in the table.
LEMMA ListKeeps == ASSUME MigInv, NEW r \in Run, M!List(r) PROVE MigInv'
<1>1. PICK rec : rec = [at |-> "apply", todo |-> M!Migration \ executed]
  OBVIOUS
<1>2. rec \in RunRec
  BY <1>1 DEF RunRec
<1>3. /\ run' = [run EXCEPT ![r] = rec] /\ table' = table /\ executed' = executed /\ applied' = applied
      /\ partial' = partial /\ repeated' = repeated /\ cron' = cron
  BY <1>1 DEF M!List
<1>4. RunFits(rec)'
  BY <1>1, <1>3 DEF RunFits
<1>5. \A m \in M!Migration : applied[m] <= applied'[m]
  BY <1>3, RunIs
<1> QED
  BY <1>2, <1>3, <1>4, <1>5, RunIs, RunGoesOn

\* A migration is applied, or fails half way.
LEMMA ApplyKeeps == ASSUME MigInv, NEW r \in Run, NEW m \in M!Migration, M!Apply(r, m) PROVE MigInv'
<1>1. /\ run[r] \in RunRec /\ RunFits(run[r]) /\ run[r].at = "apply" /\ m \in run[r].todo
      /\ \A n \in run[r].todo : m <= n
      /\ table' = table /\ executed' = executed /\ cron' = cron
      /\ repeated' = IF applied[m] > 0 \/ m \in partial THEN repeated \cup {m} ELSE repeated
  BY RunIs DEF M!Apply, M!First
<1>2. repeated \subseteq repeated' /\ repeated' \subseteq M!Migration /\ (applied[m] > 0 => m \in repeated')
  BY <1>1, RunIs
<1>3. CASE M!At(r, "failed") /\ partial' = partial \cup {m} /\ applied' = applied
  <2>1. partial' \subseteq M!Migration
    BY <1>3, RunIs
  <2> QED
    BY <1>1, <1>2, <1>3, <2>1, RunIs, RunMoves
<1>4. CASE M!At(r, "record") /\ applied' = [applied EXCEPT ![m] = @ + 1] /\ partial' = partial
  <2>1. applied \in [M!Migration -> Nat]
    BY RunIs
  <2>2. /\ applied' \in [M!Migration -> Nat] /\ applied'[m] = applied[m] + 1 /\ applied[m] \in Nat
        /\ \A n \in M!Migration \ {m} : applied'[n] = applied[n] /\ applied[n] \in Nat
    BY <1>4, <2>1
  <2>3. PICK rec : rec = [run[r] EXCEPT !.at = "record"]
    OBVIOUS
  <2>4. rec \in RunRec /\ rec.at = "record" /\ rec.todo = run[r].todo
    BY <1>1, <2>3 DEF RunRec
  <2>5. run' = [run EXCEPT ![r] = rec]
    BY <1>4, <2>3 DEF M!At
  <2>6. RunFits(rec)'
    <3>1. M!Migration \ executed' \subseteq rec.todo
      BY <1>1, <2>4 DEF RunFits
    <3>2. m \in rec.todo /\ applied'[m] > 0 /\ \A n \in rec.todo : m <= n
      BY <1>1, <2>2, <2>4
    <3> QED
      BY <2>4, <3>1, <3>2 DEF RunFits
  <2>7. \A n \in M!Migration : applied[n] <= applied'[n]
    BY <2>2
  <2>8. \A n \in M!Migration : (n \in executed' => applied'[n] > 0) /\ (applied'[n] > 1 => n \in repeated')
    BY <1>1, <1>2, <2>2, RunIs
  <2> QED
    BY <1>1, <1>2, <1>4, <2>2, <2>4, <2>5, <2>6, <2>7, <2>8, RunIs, RunGoesOn
<1> QED
  BY <1>3, <1>4 DEF M!Apply

\* What was applied is recorded, unless another run has done so.
LEMMA RecordKeeps == ASSUME MigInv, NEW r \in Run, NEW m \in M!Migration, M!Record(r, m) PROVE MigInv'
<1>1. /\ run[r] \in RunRec /\ RunFits(run[r]) /\ run[r].at = "record" /\ m \in run[r].todo
      /\ \A n \in run[r].todo : m <= n
      /\ table' = table /\ applied' = applied /\ partial' = partial /\ repeated' = repeated /\ cron' = cron
  BY RunIs DEF M!Record, M!First
<1>2. CASE m \in executed
  BY <1>1, <1>2, RunIs, RunMoves DEF M!Record
<1>3. CASE m \notin executed
  <2>1. PICK left : left = run[r].todo \ {m}
    OBVIOUS
  <2>2. PICK rec : rec = [at |-> "apply", todo |-> left]
    OBVIOUS
  <2>3. run' = [run EXCEPT ![r] = rec] /\ executed' = executed \cup {m}
    <3>1. run \in [Run -> RunRec]
      BY RunIs
    <3> QED
      BY <1>3, <2>1, <2>2, <3>1 DEF M!Record
  <2>4. rec \in RunRec
    BY <1>1, <2>1, <2>2 DEF RunRec
  <2>5. applied[m] > 0
    <3>1. PICK k \in run[r].todo : applied[k] > 0 /\ \A n \in run[r].todo : k <= n
      BY <1>1 DEF RunFits
    <3>2. k \in Nat /\ m \in Nat /\ k <= m /\ m <= k
      BY <1>1, <3>1, RunIs DEF RunRec
    <3> QED
      BY <3>1, <3>2
  <2>6. RunFits(rec)'
    BY <1>1, <2>1, <2>2, <2>3 DEF RunFits
  <2>7. \A n \in M!Migration : applied[n] <= applied'[n]
    BY <1>1, RunIs
  <2>8. executed' \subseteq M!Migration
    BY <2>3, RunIs
  <2>9. \A n \in M!Migration : (n \in executed' => applied'[n] > 0) /\ (applied'[n] > 1 => n \in repeated')
    BY <1>1, <2>3, <2>5, RunIs
  <2> QED
    BY <1>1, <2>3, <2>4, <2>6, <2>7, <2>8, <2>9, RunIs, RunGoesOn
<1> QED
  BY <1>2, <1>3

\* Every step of the runs keeps the invariant.
LEMMA MigStepping == MigInv /\ M!Next => MigInv'
<1>1. ASSUME MigInv, M!RegisterCron PROVE MigInv'
  BY <1>1 DEF M!RegisterCron, MigInv, M!TypeOK, RunFits
<1> QED
  BY <1>1, AroundKeeps, ListKeeps, ApplyKeeps, RecordKeeps DEF M!Next

\* For any number of runs and files, wherever they are killed: what the table names has been applied,
\* a run that ends has found all recorded, and what was applied twice was begun again
\* (MigrationRunCommand.ts, execute).
THEOREM RecordedIsApplied == PartsSpec => []RecordedWasApplied
<1>1. PartsInit => MigInv
  BY MigBegins DEF PartsInit
<1>2. UNCHANGED mvars /\ MigInv => MigInv'
  <2> SUFFICES ASSUME UNCHANGED mvars, MigInv PROVE MigInv'
    OBVIOUS
  <2>1. /\ run' = run /\ table' = table /\ executed' = executed /\ applied' = applied /\ partial' = partial
        /\ repeated' = repeated /\ cron' = cron
    BY DEF mvars
  <2> QED
    BY <2>1 DEF MigInv, M!TypeOK, RunFits
<1>3. MigInv /\ [PartsNext]_allVars => MigInv'
  BY <1>2, MigStepping DEF PartsNext, allVars
<1>4. MigInv => RecordedWasApplied
  BY DEF MigInv, RunFits, RecordedWasApplied, M!RecordedWasApplied
<1> QED
  BY <1>1, <1>3, <1>4, PTL DEF PartsSpec
=============================================================================
