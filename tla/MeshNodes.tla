----------------------------- MODULE MeshNodes -----------------------------
(***************************************************************************)
(* How a MeshService joins and leaves the list of nodes                    *)
(* (src/services/mesh.ts, start, stop, doHeartbeat, doCleanup): its id, a  *)
(* connection that subscribes to its channels, the heartbeats, the leader  *)
(* service, and what Redis lists.                                          *)
(*                                                                         *)
(* Each await is the end of a step.  Commands of one process go over one   *)
(* connection, in order; one may fail, having been executed or not.  Who   *)
(* leads is left open, and so is how long anything takes.  What start()    *)
(* creates is known by the id that it was given.                           *)
(*                                                                         *)
(* stop() may be called at any time and any number of times, except while  *)
(* start() is at work; and start() while nothing is.  Nothing in the code  *)
(* makes sure of that: start() looks at `running` and sets it four awaits  *)
(* later.                                                                  *)
(***************************************************************************)
EXTENDS FiniteSets, Integers

CONSTANTS
    Service,        \* instances of MeshService, each in a process of its own
    Caller,         \* numbers, of calls of start() and stop() that may be in flight at one service
    MaxIds, MaxFailures, MaxCrashes     \* bounds

VARIABLES
    service,    \* service -> its fields; 0 is null, or no id
    calls,      \* service -> caller -> where its start() or stop() waits, and how the command ends
    alive,      \* service -> by kind, what exists of what its starts have created
    issued,     \* next_id
    beats,      \* heartbeats: id -> whether its time is up
    names,      \* nodes: the ids with a hostname
    removed,    \* ids that CLEANUP has taken off the list
    owned,      \* service -> ids it was given since its process began
    spoiled,    \* ids that a command has failed for
    failures, crashes

vars == <<service, calls, alive, issued, beats, names, removed, owned, spoiled, failures, crashes>>

Stopped == [running |-> FALSE, id |-> 0, client |-> 0, timer |-> 0, leader |-> 0]
Nothing == [clients |-> {}, listening |-> {}, timers |-> {}, leaders |-> {}]
NoCall  == [at |-> "idle", id |-> 0, ok |-> TRUE]

Waits(s, c, at) == calls[s][c].at = at
\* Callers are alike: a call is made by the first that has none in flight.
MayCall(s, c) == Waits(s, c, "idle") /\ \A d \in Caller : d < c => ~Waits(s, d, "idle")
Busy(s)     == \E c \in Caller : ~Waits(s, c, "idle")
Starting(s) ==
    \E c \in Caller : calls[s][c].at \in {"issuing", "subscribing", "registering", "naming", "undoing"}

Goes(s, c, at, id, ok) == calls' = [calls EXCEPT ![s][c] = [at |-> at, id |-> id, ok |-> ok]]
Ends(s, c) == calls' = [calls EXCEPT ![s][c] = NoCall]

\* How a command for an id goes: executed and answered, executed only, or neither.
Command(id, done, ok) ==
    /\ ok => done
    /\ IF ok THEN UNCHANGED <<failures, spoiled>>
             ELSE failures < MaxFailures /\ failures' = failures + 1 /\ spoiled' = spoiled \cup {id}

HEARTBEAT(id, done) ==
    beats' = IF done THEN [i \in DOMAIN beats \cup {id} |-> i # id /\ beats[i]] ELSE beats

Without(ids) == [i \in DOMAIN beats \ ids |-> beats[i]]

-----------------------------------------------------------------------------
(* start() *)

Start(s, c, done, ok) ==
    /\ MayCall(s, c) /\ ~Busy(s) /\ ~service[s].running /\ issued < MaxIds
    /\ Command(0, done, ok)
    /\ issued' = IF done THEN issued + 1 ELSE issued
    /\ Goes(s, c, "issuing", issued + 1, ok)
    /\ UNCHANGED <<service, alive, beats, names, removed, owned, crashes>>

Subscribe(s, c, done, ok) ==
    LET id == calls[s][c].id IN
    /\ Waits(s, c, "issuing") /\ calls[s][c].ok
    /\ Command(id, done, ok)
    /\ service' = [service EXCEPT ![s].id = id, ![s].client = id]
    /\ alive' = [alive EXCEPT ![s].clients = @ \cup {id}]
    /\ owned' = [owned EXCEPT ![s] = @ \cup {id}]
    /\ Goes(s, c, "subscribing", id, ok)
    /\ UNCHANGED <<issued, beats, names, removed, crashes>>

NoId(s, c) ==
    /\ Waits(s, c, "issuing") /\ ~calls[s][c].ok /\ Ends(s, c)
    /\ UNCHANGED <<service, alive, issued, beats, names, removed, owned, spoiled, failures, crashes>>

Register(s, c, done, ok) ==
    LET id == calls[s][c].id IN
    /\ Waits(s, c, "subscribing") /\ calls[s][c].ok
    /\ Command(service[s].id, done, ok) /\ HEARTBEAT(service[s].id, done)
    /\ alive' = [alive EXCEPT ![s].listening = @ \cup ({id} \cap alive[s].clients)]
    /\ Goes(s, c, "registering", id, ok)
    /\ UNCHANGED <<service, issued, names, removed, owned, crashes>>

Name(s, c, done, ok) ==
    /\ Waits(s, c, "registering") /\ calls[s][c].ok
    /\ Command(service[s].id, done, ok)
    /\ names' = IF done THEN names \cup {service[s].id} ELSE names
    /\ Goes(s, c, "naming", calls[s][c].id, ok)
    /\ UNCHANGED <<service, alive, issued, beats, removed, owned, crashes>>

Started(s, c) ==
    LET id == calls[s][c].id IN
    /\ Waits(s, c, "naming") /\ calls[s][c].ok /\ Ends(s, c)
    /\ service' = [service EXCEPT ![s].running = TRUE, ![s].timer = id, ![s].leader = id]
    /\ alive' = [alive EXCEPT ![s].timers = @ \cup {id}, ![s].leaders = @ \cup {id}]
    /\ UNCHANGED <<issued, beats, names, removed, owned, spoiled, failures, crashes>>

\* Mutant: the connection of a start() that failed is forgotten.
Forget(s, c, done, ok) ==
    LET id == calls[s][c].id IN
    /\ calls[s][c].at \in {"subscribing", "registering", "naming"} /\ ~calls[s][c].ok
    /\ Command(id, done, ok)
    /\ Goes(s, c, "undoing", id, ok)
    /\ UNCHANGED <<service, alive, issued, beats, names, removed, owned, crashes>>

\* unsubscribe() and quit()
Undo(s, c, done, ok) ==
    LET id == calls[s][c].id IN
    /\ calls[s][c].at \in {"subscribing", "registering", "naming"} /\ ~calls[s][c].ok
    /\ Command(id, done, ok)
    /\ alive' = [alive EXCEPT ![s].listening = @ \ {id}, ![s].clients = IF done THEN @ \ {id} ELSE @]
    /\ Goes(s, c, "undoing", id, ok)
    /\ UNCHANGED <<service, issued, beats, names, removed, owned, crashes>>

Undone(s, c) ==
    /\ Waits(s, c, "undoing") /\ Ends(s, c)
    /\ service' = [service EXCEPT ![s].client = 0]
    /\ UNCHANGED <<alive, issued, beats, names, removed, owned, spoiled, failures, crashes>>

-----------------------------------------------------------------------------
(* stop() *)

\* DEREGISTER, for the id of `v`, the fields as they are by now; nothing if there is no id.
Deregister(s, c, v, done, ok) ==
    IF v.id = 0
    THEN /\ done /\ ok
         /\ service' = [service EXCEPT ![s] = v] /\ Ends(s, c)
         /\ UNCHANGED <<beats, names, spoiled, failures>>
    ELSE /\ Command(v.id, done, ok)
         /\ service' = [service EXCEPT ![s] = [v EXCEPT !.id = 0]]
         /\ beats' = IF done THEN Without({v.id}) ELSE beats
         /\ names' = IF done THEN names \ {v.id} ELSE names
         /\ Goes(s, c, "deregistering", 0, ok)

\* From the end of the leader service on: the timer, and the connection if there is one.
Leaves(s, c, v, done, ok) ==
    LET cleared == [v EXCEPT !.leader = 0, !.timer = 0]
        without == [alive EXCEPT ![s].timers = @ \ {v.timer}, ![s].leaders = @ \ {v.leader}] IN
    IF v.client = 0
    THEN /\ Deregister(s, c, cleared, done, ok)
         /\ alive' = without
    ELSE /\ Command(v.client, done, ok)
         /\ service' = [service EXCEPT ![s] = cleared]
         /\ alive' = [without EXCEPT ![s].listening = @ \ {v.client}]
         /\ Goes(s, c, "unsubscribing", 0, ok)
         /\ UNCHANGED <<beats, names>>

Stop(s, c, done, ok) ==
    LET v == [service[s] EXCEPT !.running = FALSE] IN
    /\ MayCall(s, c) /\ ~Starting(s)
    /\ IF v.leader = 0
       THEN Leaves(s, c, v, done, ok)
       ELSE /\ done /\ ok
            /\ service' = [service EXCEPT ![s] = v]
            /\ alive' = [alive EXCEPT ![s].leaders = @ \ {v.leader}]
            /\ Goes(s, c, "resigning", 0, ok)
            /\ UNCHANGED <<beats, names, spoiled, failures>>
    /\ UNCHANGED <<issued, removed, owned, crashes>>

Resigned(s, c, done, ok) ==
    /\ Waits(s, c, "resigning")
    /\ Leaves(s, c, service[s], done, ok)
    /\ UNCHANGED <<issued, removed, owned, crashes>>

\* quit(); another stop() may have left no client to call it on.
Quit(s, c, done, ok) ==
    LET client == service[s].client IN
    /\ Waits(s, c, "unsubscribing") /\ calls[s][c].ok /\ client # 0
    /\ Command(client, done, ok)
    /\ alive' = IF done THEN [alive EXCEPT ![s].clients = @ \ {client}, ![s].listening = @ \ {client}]
                        ELSE alive
    /\ Goes(s, c, "quitting", 0, ok)
    /\ UNCHANGED <<service, issued, beats, names, removed, owned, crashes>>

Left(s, c, done, ok) ==
    /\ \/ Waits(s, c, "quitting")
       \/ Waits(s, c, "unsubscribing") /\ (~calls[s][c].ok \/ service[s].client = 0)
    /\ Deregister(s, c, [service[s] EXCEPT !.client = 0], done, ok)
    /\ UNCHANGED <<alive, issued, removed, owned, crashes>>

Deregistered(s, c) ==
    /\ Waits(s, c, "deregistering") /\ Ends(s, c)
    /\ UNCHANGED <<service, alive, issued, beats, names, removed, owned, spoiled, failures, crashes>>

-----------------------------------------------------------------------------
(* Heartbeats. *)

Beat(s, done, ok) ==
    /\ service[s].running /\ alive[s].timers # {}
    /\ Command(service[s].id, done, ok) /\ HEARTBEAT(service[s].id, done)
    /\ UNCHANGED <<service, calls, alive, issued, names, removed, owned, crashes>>

\* CLEANUP, of whichever node leads.
Cleanup ==
    LET late == {i \in DOMAIN beats : beats[i]} IN
    /\ late # {}
    /\ beats' = Without(late) /\ names' = names \ late /\ removed' = removed \cup late
    /\ UNCHANGED <<service, calls, alive, issued, owned, spoiled, failures, crashes>>

\* nodeTtlMs passes without a heartbeat.
Late(i) ==
    /\ i \in DOMAIN beats /\ ~beats[i] /\ beats' = [beats EXCEPT ![i] = TRUE]
    /\ UNCHANGED <<service, calls, alive, issued, names, removed, owned, spoiled, failures, crashes>>

\* The process dies, and another one begins.
Crash(s) ==
    /\ crashes < MaxCrashes /\ crashes' = crashes + 1
    /\ service' = [service EXCEPT ![s] = Stopped] /\ alive' = [alive EXCEPT ![s] = Nothing]
    /\ calls' = [calls EXCEPT ![s] = [c \in Caller |-> NoCall]]
    /\ owned' = [owned EXCEPT ![s] = {}]
    /\ UNCHANGED <<issued, beats, names, removed, spoiled, failures>>

-----------------------------------------------------------------------------
Init ==
    /\ service = [s \in Service |-> Stopped] /\ alive = [s \in Service |-> Nothing]
    /\ calls = [s \in Service |-> [c \in Caller |-> NoCall]]
    /\ issued = 0 /\ beats = [i \in {} |-> FALSE] /\ names = {} /\ removed = {}
    /\ owned = [s \in Service |-> {}] /\ spoiled = {}
    /\ failures = 0 /\ crashes = 0

Next ==
    \/ \E s \in Service, c \in Caller : Started(s, c) \/ NoId(s, c) \/ Undone(s, c) \/ Deregistered(s, c)
    \/ \E s \in Service, c \in Caller, done \in BOOLEAN, ok \in BOOLEAN :
          \/ Start(s, c, done, ok) \/ Subscribe(s, c, done, ok) \/ Register(s, c, done, ok)
          \/ Name(s, c, done, ok) \/ Undo(s, c, done, ok)
          \/ Stop(s, c, done, ok) \/ Resigned(s, c, done, ok) \/ Quit(s, c, done, ok) \/ Left(s, c, done, ok)
    \/ \E s \in Service, done \in BOOLEAN, ok \in BOOLEAN : Beat(s, done, ok)
    \/ Cleanup
    \/ \E i \in 1..MaxIds : Late(i)
    \/ \E s \in Service : Crash(s)

Spec == Init /\ [][Next]_vars

-----------------------------------------------------------------------------
(* Properties. *)

IsNode(s) ==
    LET id == service[s].id IN
    /\ alive[s].listening = {id} /\ alive[s].timers = {id} /\ alive[s].leaders = {id}
    /\ id \in DOMAIN beats \cup removed

LeftNothing(s) ==
    /\ alive[s].timers = {} /\ alive[s].leaders = {} /\ alive[s].clients \subseteq spoiled
    /\ owned[s] \cap (DOMAIN beats \cup names) \subseteq spoiled

\* With none of its calls in flight a service is either a node, which listens at its id, beats
\* for it with one timer, and is listed unless it was late; or it has left nothing behind but
\* what a failed command has kept it from taking back: no timer, no leader service, no
\* connection, no entry under any id it ever had.  So it is after any sequence of start() and
\* stop(), whichever of start()'s commands fails and with several stop() in flight, and whatever
\* was cleaned up meanwhile (mesh.ts, start, stop).
NodeOrNothing ==
    \A s \in Service : ~Busy(s) => IF service[s].running THEN IsNode(s) ELSE LeftNothing(s)
=============================================================================
