------------------------------- MODULE Worker -------------------------------
(***************************************************************************)
(* Job runners and the recorder (src/services/worker/runner.ts,            *)
(* recorder.ts).  Every runner takes jobs from one BullMQ queue, one at a  *)
(* time; the one that leads also records: it writes each finished job to   *)
(* the table _jobs and removes it from the queue.                          *)
(*                                                                         *)
(* BullMQ, Redis and the table are modelled from how this code uses them.  *)
(* Leadership is any sequence of becoming and losing it (Leader.tla shows  *)
(* that two runners may hold it for a moment): a runner is told of it by   *)
(* its callbacks, which start and stop its recorder.                       *)
(***************************************************************************)
EXTENDS Naturals, FiniteSets

CONSTANTS
    Runner, Job,
    \* Bounds
    MaxTerms,       \* how often runners become the leader
    MaxFailures     \* failures of the database, and crashes

VARIABLES
    job,        \* the state of each job in the queue
    runner,     \* the state of each runner
    running,    \* the jobs whose handler runs, by runner: its runningJob
    recorder,   \* the recorder of each runner
    rows,       \* _jobs: job -> the status recorded, or "none"
    missed,     \* jobs whose recording failed, or that finished where no one looks
    terms, failures

vars == <<job, runner, running, recorder, rows, missed, terms, failures>>

Finished == {"completed", "failed"}

\* on: the observer exists; hears: it reads the event stream; scan: where start() is; found:
\* what is left of the list that getCompleted() or getFailed() returned; tasks: what event
\* handlers and the scan are about to do with a job.
NoRecorder == [on |-> FALSE, hears |-> FALSE, scan |-> "none", found |-> {}, tasks |-> {}]

TypeOK ==
    /\ job \in [Job -> {"none", "waiting", "active", "completed", "failed", "removed"}]
    /\ runner \in [Runner -> {"up", "stopped", "draining", "closed", "dead"}]
    /\ running \in [Runner -> SUBSET Job]
    /\ recorder \in [Runner ->
          [on : BOOLEAN, hears : BOOLEAN, scan : {"none", "begun", "completed", "failed", "done"},
           found : SUBSET Job, tasks : SUBSET (Job \X {"log", "remove"})]]
    /\ rows \in [Job -> Finished \cup {"none"}]
    /\ missed \subseteq Job
    /\ terms \in 0..MaxTerms /\ failures \in 0..MaxFailures

-----------------------------------------------------------------------------
(* Jobs and runners. *)

Queue(j) ==
    /\ job[j] = "none"
    /\ job' = [job EXCEPT ![j] = "waiting"]
    /\ UNCHANGED <<runner, running, recorder, rows, missed, terms, failures>>

\* Concurrency 1; a paused or closed worker takes none.
Take(r, j) ==
    /\ runner[r] \in {"up", "stopped"} /\ running[r] = {} /\ job[j] = "waiting"
    /\ job' = [job EXCEPT ![j] = "active"]
    /\ running' = [running EXCEPT ![r] = {j}]
    /\ UNCHANGED <<runner, recorder, rows, missed, terms, failures>>

\* The scan of recorder q has passed over jobs of this status, and its observer hears nothing yet.
InTheGap(q, status) ==
    /\ recorder[q].on /\ ~recorder[q].hears
    /\ recorder[q].scan # "begun"
    /\ recorder[q].scan = "completed" => status = "completed"

\* The handler settles, or there is none for this name; every recorder that reads the event
\* stream starts a handler of its own for the event.
Finish(r, j, status) ==
    LET heard == {q \in Runner : recorder[q].hears} IN
    /\ j \in running[r]
    /\ job' = [job EXCEPT ![j] = status]
    /\ running' = [running EXCEPT ![r] = {}]
    /\ recorder' = [q \in Runner |-> IF q \in heard
          THEN [recorder[q] EXCEPT !.tasks = @ \cup {<<j, "log">>}] ELSE recorder[q]]
    /\ missed' = IF \E q \in Runner : InTheGap(q, status) THEN missed \cup {j} ELSE missed
    /\ UNCHANGED <<runner, rows, terms, failures>>

\* A process dies; BullMQ hands its job out again when it finds it stalled.
Crash(r) ==
    /\ runner[r] \notin {"closed", "dead"}
    /\ failures < MaxFailures /\ failures' = failures + 1
    /\ runner' = [runner EXCEPT ![r] = "dead"]
    /\ running' = [running EXCEPT ![r] = {}]
    /\ job' = [j \in Job |-> IF j \in running[r] THEN "waiting" ELSE job[j]]
    /\ recorder' = [recorder EXCEPT ![r] = NoRecorder]
    /\ UNCHANGED <<rows, missed, terms>>

-----------------------------------------------------------------------------
(* The recorder. *)

\* The callback of leadership: start() makes the observer, which connects meanwhile.
Lead(r) ==
    /\ runner[r] = "up" /\ ~recorder[r].on /\ recorder[r].scan \in {"none", "done"}
    /\ terms < MaxTerms /\ terms' = terms + 1
    /\ recorder' = [recorder EXCEPT ![r].on = TRUE, ![r].scan = "begun"]
    /\ UNCHANGED <<job, runner, running, rows, missed, failures>>

\* The observer's first read of the event stream, from its end.
Hear(r) ==
    /\ recorder[r].on /\ ~recorder[r].hears
    /\ recorder' = [recorder EXCEPT ![r].hears = TRUE]
    /\ UNCHANGED <<job, runner, running, rows, missed, terms, failures>>

\* Mutant: failed jobs are not looked for.
ScanCompletedOnly(r) ==
    /\ recorder[r].scan \in {"begun", "completed"} /\ recorder[r].found = {}
    /\ recorder' = [recorder EXCEPT
          ![r].scan = IF @ = "begun" THEN "completed" ELSE "done",
          ![r].found = IF recorder[r].scan = "begun" THEN {j \in Job : job[j] = "completed"} ELSE {}]
    /\ UNCHANGED <<job, runner, running, rows, missed, terms, failures>>

\* start() asks for the completed jobs, then, when it has gone through them, for the failed ones.
ScanNext(r) ==
    LET next == CASE recorder[r].scan = "begun"     -> "completed"
                  [] recorder[r].scan = "completed" -> "failed"
                  [] OTHER                          -> "done"
    IN
    /\ recorder[r].scan \in {"begun", "completed", "failed"} /\ recorder[r].found = {}
    /\ recorder' = [recorder EXCEPT ![r].scan = next, ![r].found = {j \in Job : job[j] = next}]
    /\ UNCHANGED <<job, runner, running, rows, missed, terms, failures>>

\* An event's getJob() and logJob(), in which the job may be gone.  A row of the same job and
\* attempt is there already: fine.  Any other failure ends the handler.
Log(r, j) ==
    /\ <<j, "log">> \in recorder[r].tasks
    /\ IF job[j] = "removed"
       THEN /\ recorder' = [recorder EXCEPT ![r].tasks = @ \ {<<j, "log">>}]
            /\ UNCHANGED <<rows, missed, failures>>
       ELSE \/ /\ rows' = [rows EXCEPT ![j] = IF @ = "none" THEN job[j] ELSE @]
               /\ recorder' = [recorder EXCEPT ![r].tasks = (@ \ {<<j, "log">>}) \cup {<<j, "remove">>}]
               /\ UNCHANGED <<missed, failures>>
            \/ /\ failures < MaxFailures /\ failures' = failures + 1
               /\ recorder' = [recorder EXCEPT ![r].tasks = @ \ {<<j, "log">>}]
               /\ missed' = missed \cup {j}
               /\ UNCHANGED rows
    /\ UNCHANGED <<job, runner, running, terms>>

Remove(r, j) ==
    /\ <<j, "remove">> \in recorder[r].tasks
    /\ job' = [job EXCEPT ![j] = "removed"]
    /\ recorder' = [recorder EXCEPT ![r].tasks = @ \ {<<j, "remove">>}]
    /\ UNCHANGED <<runner, running, rows, missed, terms, failures>>

\* The scan's own logJob(), before its remove(); the scan goes on when the recorder is stopped.
ScanJob(r, j) ==
    /\ j \in recorder[r].found
    /\ \/ /\ rows' = [rows EXCEPT ![j] = IF @ = "none" THEN recorder[r].scan ELSE @]
          /\ recorder' = [recorder EXCEPT ![r].found = @ \ {j}, ![r].tasks = @ \cup {<<j, "remove">>}]
          /\ UNCHANGED <<missed, failures>>
       \/ /\ failures < MaxFailures /\ failures' = failures + 1
          /\ recorder' = [recorder EXCEPT ![r].found = {}, ![r].scan = "done"]
          /\ missed' = missed \cup {i \in Job : job[i] \in Finished}
          /\ UNCHANGED rows
    /\ UNCHANGED <<job, runner, running, terms>>

\* The callback of lost leadership: stop() closes the observer.
Demote(r) ==
    /\ runner[r] = "up" /\ recorder[r].on
    /\ recorder' = [recorder EXCEPT ![r].on = FALSE, ![r].hears = FALSE]
    /\ UNCHANGED <<job, runner, running, rows, missed, terms, failures>>

-----------------------------------------------------------------------------
(* shutdown(): the leadership and the recorder first, then the worker. *)

ShutdownBegins(r) ==
    /\ runner[r] = "up"
    /\ runner' = [runner EXCEPT ![r] = "stopped"]
    /\ recorder' = [recorder EXCEPT ![r].on = FALSE, ![r].hears = FALSE]
    /\ UNCHANGED <<job, running, rows, missed, terms, failures>>

Pause(r) ==
    /\ runner[r] = "stopped"
    /\ runner' = [runner EXCEPT ![r] = "draining"]
    /\ UNCHANGED <<job, running, recorder, rows, missed, terms, failures>>

Close(r) ==
    /\ runner[r] = "draining" /\ running[r] = {}
    /\ runner' = [runner EXCEPT ![r] = "closed"]
    /\ UNCHANGED <<job, running, recorder, rows, missed, terms, failures>>

Init ==
    /\ job = [j \in Job |-> "none"]
    /\ runner = [r \in Runner |-> "up"]
    /\ running = [r \in Runner |-> {}]
    /\ recorder = [r \in Runner |-> NoRecorder]
    /\ rows = [j \in Job |-> "none"]
    /\ missed = {} /\ terms = 0 /\ failures = 0

Next ==
    \/ \E j \in Job : Queue(j)
    \/ \E r \in Runner :
        \/ Crash(r) \/ Lead(r) \/ Hear(r) \/ ScanNext(r) \/ Demote(r)
        \/ ShutdownBegins(r) \/ Pause(r) \/ Close(r)
        \/ \E j \in Job :
            \/ Take(r, j) \/ Log(r, j) \/ Remove(r, j) \/ ScanJob(r, j)
            \/ \E status \in Finished : Finish(r, j, status)

Spec == Init /\ [][Next]_vars

-----------------------------------------------------------------------------
(* Properties. *)

\* No job is lost between the queue and the table: one that is gone from the queue has its row;
\* one that finished, and is not gone, has no other status in the table, and is in the hands of
\* every recorder that is on: of its event handler, or of its scan, which goes on or is still to
\* ask for jobs of this status.  Unless writing failed, or the job finished in the gap between a
\* recorder's scan and its observer's first read.
NoJobForgotten ==
    /\ TypeOK
    /\ \A j \in Job : job[j] = "removed" => rows[j] # "none"
    /\ \A j \in Job : job[j] \in Finished => rows[j] \in {"none", job[j]}
    /\ \A j \in Job, r \in Runner :
        job[j] \in Finished /\ recorder[r].on /\ j \notin missed =>
            \/ j \in recorder[r].found
            \/ \E step \in {"log", "remove"} : <<j, step>> \in recorder[r].tasks
            \/ recorder[r].scan = "begun"
            \/ recorder[r].scan = "completed" /\ job[j] = "failed"
=============================================================================
