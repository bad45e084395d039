---------------------------- MODULE Transactions ----------------------------
(***************************************************************************)
(* Database transactions (src/database/common.ts): queued entities, hooks  *)
(* before and after the commit, and session locks, which in MySQL are row  *)
(* locks of the table _locks and in Postgres are advisory locks.           *)
(*                                                                         *)
(* One lock key.  What Deepkit's Database.transaction() and the database   *)
(* do is modelled from how this code uses them: the callback, then a flush *)
(* and the commit; or a rollback when anything threw.  So are the row      *)
(* locks: InnoDB's, at its default isolation, which nothing here changes.  *)
(***************************************************************************)
EXTENDS Naturals, Sequences, FiniteSets

CONSTANTS
    Txn,            \* transactions
    ProcessOf,      \* the process that runs a transaction
    \* Bound
    MaxHooks        \* hooks of each kind of one transaction

VARIABLES
    dialect,    \* "mysql" or "postgres"
    txn,        \* the transactions
    stored,     \* entities in the database, each named after its transaction and a number
    row,        \* the row of the key in _locks: "absent", "new" (never touched), "fresh" or "old"
    owner,      \* the transactions that hold the lock; in MySQL that of the row, or of its gap
    prepared    \* process -> ensureMysqlLocksTable(): "no", "purging", "done" or "failed"

vars == <<dialect, txn, stored, row, owner, prepared>>

Process == {ProcessOf[t] : t \in Txn}

\* What a hook does: nothing of interest, throw, add another hook, or queue an entity.
Hook == {"ok", "throws", "adds", "queues"}

\* queued: added to the session and not flushed; before, after: the two arrays of hooks;
\* ran: how many of them have run; held: acquireSessionLock() has resolved.
Idle ==
    [at |-> "new", queued |-> 0, flushed |-> 0, before |-> <<>>, after |-> <<>>,
     ranBefore |-> 0, ranAfter |-> 0, held |-> FALSE, outcome |-> "none"]

TypeOK ==
    /\ dialect \in {"mysql", "postgres"}
    /\ txn \in [Txn -> [at : {"new", "body", "prepare", "insert", "update", "before", "commit", "after", "over"},
                        queued : Nat, flushed : Nat, before : Seq(Hook), after : Seq(Hook),
                        ranBefore : Nat, ranAfter : Nat, held : BOOLEAN,
                        outcome : {"none", "committed", "rolledBack", "rejected"}]]
    /\ stored \subseteq Txn \X Nat
    /\ row \in {"absent", "new", "fresh", "old"} /\ owner \subseteq Txn
    /\ prepared \in [Process -> {"no", "purging", "done", "failed"}]

Set(t, r) == txn' = [txn EXCEPT ![t] = r]

Flushed(r) == [r EXCEPT !.flushed = @ + r.queued, !.queued = 0]

-----------------------------------------------------------------------------
(* The callback. *)

Begin(t) ==
    /\ txn[t].at = "new"
    /\ Set(t, [txn[t] EXCEPT !.at = "body"])
    /\ UNCHANGED <<dialect, stored, row, owner, prepared>>

\* createQueuedEntity().
QueueEntity(t) ==
    /\ txn[t].at = "body" /\ txn[t].queued + txn[t].flushed < 1
    /\ Set(t, [txn[t] EXCEPT !.queued = @ + 1])
    /\ UNCHANGED <<dialect, stored, row, owner, prepared>>

\* persistEntities() with the session, rawExecute() and rawQuery() flush what is queued; also
\* inside withTransaction() and withSession(), which hand the session through.
FlushQueue(t) ==
    /\ txn[t].at = "body" /\ txn[t].queued > 0
    /\ Set(t, Flushed(txn[t]))
    /\ UNCHANGED <<dialect, stored, row, owner, prepared>>

AddHook(t, hook) ==
    /\ txn[t].at = "body"
    /\ \/ /\ Len(txn[t].before) < MaxHooks
          /\ Set(t, [txn[t] EXCEPT !.before = Append(@, hook)])
       \/ /\ Len(txn[t].after) < MaxHooks /\ hook # "queues"
          /\ Set(t, [txn[t] EXCEPT !.after = Append(@, hook)])
    /\ UNCHANGED <<dialect, stored, row, owner, prepared>>

-----------------------------------------------------------------------------
(* acquireSessionLock(). *)

AskLock(t) ==
    /\ txn[t].at = "body"
    /\ Set(t, [txn[t] EXCEPT !.at = IF dialect = "mysql" THEN "prepare" ELSE "update"])
    /\ UNCHANGED <<dialect, stored, row, owner, prepared>>

\* ensureMysqlLocksTable(): the first caller of a process creates the table and deletes old
\* rows, the others wait for it; if it fails, it has failed for the rest of the process.
Prepare(t) ==
    LET p == ProcessOf[t] IN
    /\ txn[t].at = "prepare"
    /\ \/ prepared[p] = "no" /\ prepared' = [prepared EXCEPT ![p] = "purging"] /\ UNCHANGED txn
       \/ /\ prepared[p] = "done" /\ Set(t, [txn[t] EXCEPT !.at = "insert"])
          /\ UNCHANGED prepared
    /\ UNCHANGED <<dialect, stored, row, owner>>

\* DELETE FROM _locks of rows over an hour old; it waits for a row that is locked, not for a gap.
Purge(p) ==
    /\ prepared[p] = "purging"
    /\ \/ /\ row = "absent" \/ owner = {}
          /\ prepared' = [prepared EXCEPT ![p] = "done"]
          /\ row' = IF row = "old" THEN "absent" ELSE row
       \/ prepared' = [prepared EXCEPT ![p] = "failed"] /\ UNCHANGED row
    /\ UNCHANGED <<dialect, txn, stored, owner>>

\* An hour passes in which the key is not locked, nor about to be.
Age ==
    /\ row = "fresh" /\ owner = {}
    /\ \A t \in Txn : txn[t].at \notin {"prepare", "insert", "update"}
    /\ row' = "old"
    /\ UNCHANGED <<dialect, txn, stored, owner, prepared>>

\* INSERT IGNORE on a connection of its own: it waits for whoever has locked the row, or the gap
\* it goes into, t itself included.
InsertRow(t) ==
    /\ txn[t].at = "insert" /\ owner = {}
    /\ row' = IF row = "absent" THEN "new" ELSE row
    /\ Set(t, [txn[t] EXCEPT !.at = "update"])
    /\ UNCHANGED <<dialect, stored, owner, prepared>>

\* The UPDATE, or pg_advisory_xact_lock(): waits for the owner.  An UPDATE that finds no row locks
\* the gap, which others may lock as well, and nobody looks at affectedRows.
UpdateRow(t) ==
    /\ txn[t].at = "update"
    /\ owner \subseteq {t} \/ (dialect = "mysql" /\ row = "absent")
    /\ Set(t, [txn[t] EXCEPT !.at = "body", !.held = TRUE])
    /\ owner' = owner \cup {t}
    /\ UNCHANGED <<dialect, stored, row, prepared>>

-----------------------------------------------------------------------------
(* The end of a transaction. *)

\* Locks go with the transaction.
Release(t) == owner' = owner \ {t}

\* The callback, a hook, an acquisition or the commit throws: transaction() rejects.
Rollback(t) ==
    /\ \/ txn[t].at \in {"body", "insert", "update", "commit"}
       \/ txn[t].at = "prepare" /\ prepared[ProcessOf[t]] = "failed"
       \/ txn[t].at = "before" /\ txn[t].ranBefore < Len(txn[t].before)
          /\ txn[t].before[txn[t].ranBefore + 1] = "throws"
    /\ Set(t, [txn[t] EXCEPT !.at = "over", !.outcome = "rolledBack", !.held = FALSE])
    /\ Release(t)
    /\ UNCHANGED <<dialect, stored, row, prepared>>

\* The callback has resolved: what it queued is flushed before the hooks, if there are any.
Return(t) ==
    /\ txn[t].at = "body"
    /\ Set(t, IF txn[t].before = <<>> THEN [txn[t] EXCEPT !.at = "commit"]
              ELSE [Flushed(txn[t]) EXCEPT !.at = "before"])
    /\ UNCHANGED <<dialect, stored, row, owner, prepared>>

\* Mutant: only the hooks that are there when the loop begins run.
RunsOneHook(t) ==
    LET r == txn[t] IN
    /\ r.at = "before"
    /\ r.before[1] # "throws"
    /\ Set(t, [r EXCEPT !.ranBefore = 1, !.at = "commit",
                        !.before = IF r.before[1] = "adds" THEN Append(@, "ok") ELSE @])
    /\ UNCHANGED <<dialect, stored, row, owner, prepared>>

\* A hook may add hooks to the array that the loop runs through, and queue entities, which
\* the flush of the commit writes.
RunBefore(t) ==
    LET r == txn[t]
        hook == r.before[r.ranBefore + 1]
    IN
    /\ r.at = "before"
    /\ IF r.ranBefore = Len(r.before) THEN Set(t, [r EXCEPT !.at = "commit"])
       ELSE /\ hook # "throws"
            /\ Set(t, [r EXCEPT !.ranBefore = @ + 1,
                  !.before = IF hook = "adds" THEN Append(@, "ok") ELSE @,
                  !.queued = IF hook = "queues" THEN @ + 1 ELSE @])
    /\ UNCHANGED <<dialect, stored, row, owner, prepared>>

Commit(t) ==
    LET r == Flushed(txn[t]) IN
    /\ r.at = "commit"
    /\ Set(t, [r EXCEPT !.at = "after", !.outcome = "committed", !.held = FALSE])
    /\ stored' = stored \cup {<<t, n>> : n \in 1..r.flushed}
    /\ row' = IF t \in owner /\ row # "absent" THEN "fresh" ELSE row
    /\ Release(t)
    /\ UNCHANGED <<dialect, prepared>>

\* A hook after the commit that throws ends the loop and rejects, although all is stored.
RunAfter(t) ==
    LET r == txn[t]
        hook == r.after[r.ranAfter + 1]
    IN
    /\ r.at = "after"
    /\ Set(t,
        IF r.ranAfter = Len(r.after) THEN [r EXCEPT !.at = "over"]
        ELSE IF hook = "throws" THEN [r EXCEPT !.ranAfter = @ + 1, !.at = "over", !.outcome = "rejected"]
        ELSE [r EXCEPT !.ranAfter = @ + 1, !.after = IF hook = "adds" THEN Append(@, "ok") ELSE @])
    /\ UNCHANGED <<dialect, stored, row, owner, prepared>>

Init ==
    /\ dialect \in {"mysql", "postgres"}
    /\ txn = [t \in Txn |-> Idle]
    /\ stored = {}
    /\ row \in IF dialect = "mysql" THEN {"absent", "new", "fresh", "old"} ELSE {"absent"}
    /\ owner = {}
    /\ prepared \in [Process -> {"no", "done"}]

Next ==
    \/ \E t \in Txn :
        \/ Begin(t) \/ QueueEntity(t) \/ FlushQueue(t) \/ AskLock(t) \/ Prepare(t) \/ InsertRow(t)
        \/ UpdateRow(t) \/ Rollback(t) \/ Return(t) \/ RunBefore(t) \/ Commit(t) \/ RunAfter(t)
        \/ \E hook \in Hook : AddHook(t, hook)
    \/ Age \/ \E p \in Process : Purge(p)

Spec == Init /\ [][Next]_vars

-----------------------------------------------------------------------------
(* Properties. *)

\* transaction() that is over has done one of three things: nothing, not even a hook after the
\* commit; all of it; or all of it up to a hook after the commit that threw.  "All" are the
\* entities that the callback and hooks queued and every hook, also one that a hook added.
AllOrNothing ==
    /\ TypeOK
    /\ \A t \in Txn : LET r == txn[t] IN
          r.at = "over" =>
              /\ r.outcome = "rolledBack" => r.ranAfter = 0 /\ {e \in stored : e[1] = t} = {}
              /\ r.outcome # "rolledBack" =>
                  /\ {e \in stored : e[1] = t} = {<<t, n>> : n \in 1..(r.queued + r.flushed)}
                  /\ r.ranBefore = Len(r.before)
              /\ r.outcome = "committed" => r.ranAfter = Len(r.after)
              /\ r.outcome = "rejected" => r.after[r.ranAfter] = "throws"

\* "Lock held until commit/rollback.  Other transactions attempting the same lock will wait."
LockExcludes ==
    \A t, u \in Txn : txn[t].held /\ txn[u].held => t = u

=============================================================================
