---------------------------- MODULE TestIsolation ----------------------------
(***************************************************************************)
(* Tests kept apart by savepoints (src/testing/index.ts, resetToSeed and   *)
(* what it calls): from the first reset on, every query of the application *)
(* goes over one connection with an open transaction, the application's    *)
(* own transactions are savepoints in it, and each reset goes back to the  *)
(* savepoint behind the seed.                                              *)
(*                                                                         *)
(* A row is [test, txn]: the test at the time it was written and the       *)
(* transaction that wrote it, or "none".  Tests need not await what they   *)
(* start: transactions overlap, and go on under the next test.  Statements *)
(* that commit by themselves (DDL on MySQL) are left out.                  *)
(***************************************************************************)
EXTENDS Naturals, Sequences, FiniteSets, Functions, SequencesExt

CONSTANTS
    TestTxn,    \* transactions that tests start
    MaxTests,   \* bounds
    MaxWrites,
    MaxErrors

VARIABLES
    dialect,    \* "mysql" or "postgres"
    phase,      \* "started", "isolated" or "stopped"
    base,       \* the rows that are committed
    seen,       \* the rows that the held connection sees
    saves,      \* its savepoints, oldest first: [name, rows]
    aborted,    \* PostgreSQL: a statement has failed, and all do until a savepoint is gone back to
    test,       \* the number of the test that runs
    txns,       \* transaction -> [state, test, wrote, alone]
    writes,
    errors

vars == <<dialect, phase, base, seen, saves, aborted, test, txns, writes, errors>>

Seed == {[test |-> 0, txn |-> "seed"]}
Row(t) == [test |-> test, txn |-> t]

Idle   == [state |-> "idle", test |-> 0, wrote |-> FALSE, alone |-> TRUE]
Open   == {t \in TestTxn : txns[t].state = "open"}
Begun  == {t \in TestTxn : txns[t].state \in {"open", "stuck"}}

\* Of the test that runs.
Present(t) == txns[t].test = test

-----------------------------------------------------------------------------
(* Savepoints (external). *)

IsSaved(name) == \E i \in DOMAIN saves : saves[i].name = name
PlaceOf(name) == CHOOSE i \in DOMAIN saves : saves[i].name = name

SaveAs(name) == saves' = Append(saves, [name |-> name, rows |-> seen]) /\ UNCHANGED <<seen, aborted>>

Fails == aborted' = (dialect = "postgres") /\ UNCHANGED <<seen, saves>>

\* Mutant: COMMIT ends the transaction that holds the test.
CommitForReal(name) ==
    saves' = <<>> /\ UNCHANGED <<seen, aborted>>

\* RELEASE SAVEPOINT: what has been written stays, the later savepoints go too.
ReleaseSavepoint(name) ==
    saves' = SubSeq(saves, 1, PlaceOf(name) - 1) /\ UNCHANGED <<seen, aborted>>

\* ROLLBACK TO SAVEPOINT: the savepoint stays.
RollbackTo(name) ==
    /\ seen' = saves[PlaceOf(name)].rows
    /\ saves' = SubSeq(saves, 1, PlaceOf(name))
    /\ aborted' = FALSE

-----------------------------------------------------------------------------
(* resetToSeed() and stop() *)

\* initSavepointIsolation(): seedData() still gets its connections from the pool, so what it
\* writes is committed; only then the pool is made to give out the connection that is held.
FirstReset ==
    /\ phase = "started" /\ test < MaxTests
    /\ base' = Seed /\ seen' = Seed
    /\ saves' = <<[name |-> "after_seed", rows |-> Seed]>>
    /\ phase' = "isolated" /\ test' = test + 1
    /\ UNCHANGED <<dialect, aborted, txns, writes, errors>>

\* A transaction of the test before may still be open.
Reset ==
    /\ phase = "isolated" /\ test < MaxTests
    /\ RollbackTo("after_seed")
    /\ test' = test + 1
    /\ UNCHANGED <<dialect, phase, base, txns, writes, errors>>

\* teardownSavepointIsolation(): the pool is itself again, and all is rolled back.
Stop ==
    /\ phase # "stopped" /\ phase' = "stopped"
    /\ seen' = base /\ saves' = <<>> /\ aborted' = FALSE
    /\ txns' = [t \in TestTxn |-> [txns[t] EXCEPT !.state = "idle"]]
    /\ UNCHANGED <<dialect, base, test, writes, errors>>

-----------------------------------------------------------------------------
(* Queries and transactions of the application, over the connection that is held. *)

Succeeds == phase = "isolated" /\ ~aborted

\* A write outside a transaction, or in one.
Write ==
    /\ Succeeds /\ writes < MaxWrites /\ writes' = writes + 1
    /\ \E t \in Open \cup {"none"} :
          /\ seen' = seen \cup {Row(t)}
          /\ txns' = [u \in TestTxn |-> IF u = t THEN [txns[u] EXCEPT !.wrote = @ \/ Present(u)] ELSE txns[u]]
    /\ UNCHANGED <<dialect, phase, base, saves, aborted, test, errors>>

\* A test deletes what it likes.
Delete ==
    /\ Succeeds /\ writes < MaxWrites /\ writes' = writes + 1
    /\ \E row \in seen : seen' = seen \ {row}
    /\ txns' = [t \in TestTxn |-> [txns[t] EXCEPT !.alone = FALSE]]
    /\ UNCHANGED <<dialect, phase, base, saves, aborted, test, errors>>

\* A query fails.
QueryFails ==
    /\ phase = "isolated" /\ errors < MaxErrors /\ errors' = errors + 1
    /\ Fails
    /\ UNCHANGED <<dialect, phase, base, test, txns, writes>>

\* transaction.begin(), with the transaction's first query.
Begin(t) ==
    /\ Succeeds /\ txns[t].state = "idle" /\ txns[t].test = 0
    /\ SaveAs(t)
    /\ LET others == {u \in Begun : Present(u)} IN
       txns' = [u \in TestTxn |->
                    IF u = t THEN [state |-> "open", test |-> test, wrote |-> FALSE, alone |-> others = {}]
                    ELSE [txns[u] EXCEPT !.alone = @ /\ u \notin others]]
    /\ UNCHANGED <<dialect, phase, base, test, writes, errors>>

Ends(t, state) == txns' = [txns EXCEPT ![t].state = state]

\* transaction.commit(): a savepoint that is gone is an error, and then the transaction is rolled
\* back in the same way.
Commit(t) ==
    /\ phase = "isolated" /\ txns[t].state = "open"
    /\ IF ~aborted /\ IsSaved(t) THEN ReleaseSavepoint(t) /\ Ends(t, "committed")
       ELSE Fails /\ Ends(t, "stuck")
    /\ UNCHANGED <<dialect, phase, base, test, writes, errors>>

\* transaction.rollback(), for an error in the transaction or of its commit.
Rollback(t) ==
    /\ phase = "isolated" /\ t \in Begun
    /\ IF IsSaved(t) THEN RollbackTo(t) ELSE Fails
    /\ Ends(t, "rolled back")
    /\ UNCHANGED <<dialect, phase, base, test, writes, errors>>

-----------------------------------------------------------------------------
Init ==
    /\ dialect \in {"mysql", "postgres"}
    /\ phase = "started" /\ base = {} /\ seen = {} /\ saves = <<>> /\ aborted = FALSE
    /\ test = 0 /\ txns = [t \in TestTxn |-> Idle] /\ writes = 0 /\ errors = 0

Next ==
    \/ FirstReset \/ Reset \/ Stop \/ Write \/ Delete \/ QueryFails
    \/ \E t \in TestTxn : Begin(t) \/ Commit(t) \/ Rollback(t)

Spec == Init /\ [][Next]_vars

-----------------------------------------------------------------------------
(* Properties. *)

\* Every test begins with the seed and sees only what was written since, whatever transactions
\* the tests before have left open; a transaction that overlaps no other one of its test is all
\* there or not there at all while its test runs; and what tests write is never committed (resetToSeed, the
\* patched begin, commit and rollback).
TestsApart ==
    /\ base \subseteq Seed
    /\ phase = "isolated" =>
          /\ saves # <<>> /\ saves[1] = [name |-> "after_seed", rows |-> Seed]
          /\ \A row \in seen \ Seed : row.test = test
          /\ \A t \in TestTxn : Present(t) /\ txns[t].alone =>
                 /\ txns[t].state = "rolled back" => Row(t) \notin seen
                 /\ txns[t].state = "committed" /\ txns[t].wrote => Row(t) \in seen
=============================================================================
