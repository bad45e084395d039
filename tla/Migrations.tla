----------------------------- MODULE Migrations -----------------------------
(***************************************************************************)
(* migration:run (src/database/migration/MigrationRunCommand.ts): the      *)
(* migrations of the package that the table _migrations does not name, one *)
(* after the other in the order of their names, and then the repeatable    *)
(* jobs of the worker's queue, which the application registers again when  *)
(* it starts.  Several runs may be under way, on several machines.         *)
(***************************************************************************)
EXTENDS Naturals

CONSTANTS
    Run,        \* runs of the command
    Files       \* migrations are 1..Files, in the order of their names

VARIABLES
    run,        \* the state of each run
    table,      \* _migrations exists
    executed,   \* the names in it
    applied,    \* how often the function of a migration, and the schema's flush(), have succeeded
    partial,    \* migrations whose function failed half way
    repeated,   \* migrations that a run began although another run had begun them
    cron        \* the scheduled job is registered in the queue

vars == <<run, table, executed, applied, partial, repeated, cron>>

Migration == 1..Files

TypeOK ==
    /\ run \in [Run -> [at : {"new", "create", "list", "apply", "record", "cron", "ended", "failed"},
                        todo : SUBSET Migration]]
    /\ table \in BOOLEAN /\ executed \subseteq Migration
    /\ applied \in [Migration -> Nat] /\ partial \subseteq Migration
    /\ repeated \subseteq Migration /\ cron \in BOOLEAN

At(r, place) == run' = [run EXCEPT ![r].at = place]

\* createMigrationsTableIfNotExists() looks first and creates later.
LookForTable(r) ==
    /\ run[r].at = "new"
    /\ At(r, IF table THEN "list" ELSE "create")
    /\ UNCHANGED <<table, executed, applied, partial, repeated, cron>>

\* It fails when another run has created it meanwhile.
CreateTable(r) ==
    /\ run[r].at = "create"
    /\ At(r, IF table THEN "failed" ELSE "list")
    /\ table' = TRUE
    /\ UNCHANGED <<executed, applied, partial, repeated, cron>>

\* The difference of the file names and the names in the table.
List(r) ==
    /\ run[r].at = "list"
    /\ run' = [run EXCEPT ![r] = [at |-> "apply", todo |-> Migration \ executed]]
    /\ UNCHANGED <<table, executed, applied, partial, repeated, cron>>

\* They are run in the order of their names.
First(r, m) == m \in run[r].todo /\ \A n \in run[r].todo : m <= n

\* Mutant: the migration is recorded before it runs.
RecordFirst(r, m) ==
    /\ run[r].at = "apply" /\ First(r, m)
    /\ executed' = executed \cup {m}
    /\ \/ /\ applied' = [applied EXCEPT ![m] = @ + 1]
          /\ run' = [run EXCEPT ![r].todo = @ \ {m}]
       \/ At(r, "failed") /\ UNCHANGED applied
    /\ UNCHANGED <<table, partial, repeated, cron>>

\* runCodeMigration(); a failure ends the run, and MySQL does not undo what the function did.
Apply(r, m) ==
    /\ run[r].at = "apply" /\ First(r, m)
    /\ repeated' = IF applied[m] > 0 \/ m \in partial THEN repeated \cup {m} ELSE repeated
    /\ \/ /\ At(r, "record")
          /\ applied' = [applied EXCEPT ![m] = @ + 1]
          /\ UNCHANGED partial
       \/ /\ At(r, "failed")
          /\ partial' = partial \cup {m}
          /\ UNCHANGED applied
    /\ UNCHANGED <<table, executed, cron>>

\* createPersistedEntity(); the name is the primary key, so it fails for the second of two runs.
Record(r, m) ==
    /\ run[r].at = "record" /\ First(r, m)
    /\ IF m \in executed
       THEN At(r, "failed") /\ UNCHANGED executed
       ELSE /\ executed' = executed \cup {m}
            /\ run' = [run EXCEPT ![r] = [at |-> "apply", todo |-> @.todo \ {m}]]
    /\ UNCHANGED <<table, applied, partial, repeated, cron>>

\* When all is applied, repeatable jobs are removed.
AllApplied(r) ==
    /\ run[r].at = "apply" /\ run[r].todo = {}
    /\ At(r, "cron")
    /\ UNCHANGED <<table, executed, applied, partial, repeated, cron>>

RemoveCron(r) ==
    /\ run[r].at = "cron"
    /\ At(r, "ended")
    /\ cron' = FALSE
    /\ UNCHANGED <<table, executed, applied, partial, repeated>>

\* start() of a job runner registers its scheduled jobs.
RegisterCron ==
    /\ ~cron /\ cron' = TRUE
    /\ UNCHANGED <<run, table, executed, applied, partial, repeated>>

\* The process dies.
Kill(r) ==
    /\ run[r].at \notin {"new", "ended", "failed"}
    /\ At(r, "failed")
    /\ UNCHANGED <<table, executed, applied, partial, repeated, cron>>

Init ==
    /\ run = [r \in Run |-> [at |-> "new", todo |-> {}]]
    /\ table \in BOOLEAN
    /\ executed \in IF table THEN SUBSET Migration ELSE {{}}
    /\ applied = [m \in Migration |-> IF m \in executed THEN 1 ELSE 0]
    /\ partial = {} /\ repeated = {} /\ cron \in BOOLEAN

Next ==
    \/ RegisterCron
    \/ \E r \in Run :
        \/ LookForTable(r) \/ CreateTable(r) \/ List(r)
        \/ \E m \in Migration : Apply(r, m) \/ Record(r, m)
        \/ AllApplied(r) \/ RemoveCron(r) \/ Kill(r)

Spec == Init /\ [][Next]_vars

-----------------------------------------------------------------------------
(* Properties. *)

\* What the table names has been applied, by whichever run and however often runs were killed;
\* a run that ends has applied everything; and a migration that was applied more than once was
\* begun again after a run had stopped between the migration and its row, or by a second run.
RecordedWasApplied ==
    /\ TypeOK
    /\ \A m \in Migration :
        /\ m \in executed => applied[m] > 0
        /\ applied[m] > 1 => m \in repeated
    /\ \A r \in Run : run[r].at \in {"cron", "ended"} => executed = Migration
=============================================================================
