------------------------------ MODULE MeshRpc ------------------------------
(***************************************************************************)
(* The messages of MeshService (src/services/mesh.ts): requests to another *)
(* node and their answers, the heartbeats with which a node that still     *)
(* handles a request keeps its caller from giving up, and broadcasts.      *)
(*                                                                         *)
(* A message is published to the channel of a node and lost when that node *)
(* does not listen.  What one node publishes reaches another one in order. *)
(* Time is discrete; answers take at most MaxDelay until the first stall.  *)
(* A node here is one instance id: a service that starts again is another. *)
(* invoke() on the node itself is a function call and has no state.        *)
(***************************************************************************)
EXTENDS Integers, Sequences, FiniteSets

CONSTANTS
    Node, NoNode,
    Early,          \* the nodes that run before anything is sent; the others are starting
    Serving,        \* the nodes that have a handler for the requests' type
    Timeout,        \* a request's timeoutMs, in ticks
    Beat,           \* the interval of a handler's heartbeats: three quarters of Timeout
    MaxDelay,       \* what a message takes at most before the first stall
    \* Bounds
    MaxSent, MaxFaults, MaxInFlight

ASSUME MeshRpcAssumption ==
    /\ NoNode \notin Node
    /\ Early \subseteq Node /\ Serving \subseteq Node
    /\ Timeout \in Nat \ {0} /\ Beat \in Nat \ {0}
    /\ MaxDelay \in Nat
    /\ MaxSent \in Nat /\ MaxFaults \in Nat /\ MaxInFlight \in Nat

VARIABLES
    life,       \* node -> the life of its service
    requests,   \* the requests ever made, in the order they were
    works,      \* the executions of handlers that have not ended
    wire,       \* node -> node -> the messages on their way from one to the other
    aired,      \* the node whose broadcast is on its way or has been heard
    heard,      \* node -> how often it has handled the broadcast
    timely,     \* no process or connection has stalled yet
    faults      \* how much of MaxFaults is used

vars == <<life, requests, works, wire, aired, heard, timely, faults>>

Off == -1

\* "joining": subscribed and listed, running is still false.  "leaving": stop() waits for the
\* leader service.  "left": the rest of stop() is done; "dead": the process died.
Life == {"joining", "on", "leaving", "left", "dead"}

\* How a request ended.
Outcome == {"resolved", "handlerError", "noHandler", "timedOut", "unpublished", "stopped", "lost"}

Request ==
    [from  : Node,
     to    : Node,
     early : BOOLEAN,               \* it was made to a node that had not started yet
     state : {"pending"} \cup Outcome,
     timer : {Off} \cup 0..Timeout]

\* The copy tells two executions of one request apart.
Work == [r : 1..MaxSent, copy : 0..MaxFaults, beat : {Off} \cup 0..Beat]

\* Broadcasts are about no request.
Message ==
    [kind : {"request", "heartbeat", "broadcast", "resolved", "handlerError", "noHandler"},
     r    : 0..MaxSent,
     age  : 0..MaxDelay]

TypeOK ==
    /\ life \in [Node -> Life]
    /\ requests \in Seq(Request) /\ Len(requests) <= MaxSent
    /\ works \subseteq Work
    /\ wire \in [Node -> [Node -> Seq(Message)]]
    /\ aired \in Node \cup {NoNode}
    /\ heard \in [Node -> Nat]
    /\ timely \in BOOLEAN
    /\ faults \in Nat

-----------------------------------------------------------------------------
Alive(n) == life[n] # "dead"

Pending(r) == r \in DOMAIN requests /\ requests[r].state = "pending"

\* Requests and broadcasts count towards the bound.
MaySend == Len(requests) + Cardinality({aired} \ {NoNode}) < MaxSent

Msg(kind, r) == [kind |-> kind, r |-> r, age |-> 0]

Publish(a, b, m) == wire' = [wire EXCEPT ![a][b] = Append(@, m)]

\* The promise of a request settles and its timer is cleared.
Settle(r, outcome) ==
    requests' = [requests EXCEPT ![r].state = outcome, ![r].timer = Off]

\* invoke() on another node.
Invoke(a, b) ==
    /\ life[a] = "on"
    /\ a # b
    /\ MaySend
    /\ requests' = Append(requests, [from  |-> a, to |-> b, early |-> life[b] = "joining",
                                     state |-> "pending", timer |-> Timeout])
    /\ Publish(a, b, Msg("request", Len(requests) + 1))
    /\ UNCHANGED <<life, works, aired, heard, timely, faults>>

TimesOut(r) ==
    /\ Pending(r)
    /\ Alive(requests[r].from)
    /\ requests[r].timer = 0
    /\ Settle(r, "timedOut")
    /\ UNCHANGED <<life, works, wire, aired, heard, timely, faults>>

\* broadcast(); the channel is everybody's, the sender's too.
Broadcast(n) ==
    /\ life[n] = "on"
    /\ MaySend /\ aired = NoNode        \* bound: one broadcast
    /\ aired' = n
    /\ wire' = [wire EXCEPT ![n] = [b \in Node |-> Append(@[b], Msg("broadcast", 0))]]
    /\ heard' \in {heard, [heard EXCEPT ![n] = @ + 1]}       \* skipSelf, or not
    /\ UNCHANGED <<life, requests, works, timely, faults>>

-----------------------------------------------------------------------------
(* handleMessage and handleBroadcastIncoming. *)

\* The oldest message from a to b is of one of these kinds, and b listens to it.
Arrives(a, b, kinds) ==
    /\ wire[a][b] # <<>>
    /\ Head(wire[a][b]).kind \in kinds
    /\ life[b] = "on"

Consume(a, b) == wire' = [wire EXCEPT ![a][b] = Tail(@)]

Subject(a, b) == Head(wire[a][b]).r

\* A node that does not run is not subscribed, or does not look at the message.
Ignored(a, b) ==
    /\ wire[a][b] # <<>>
    /\ life[b] # "on"
    /\ Consume(a, b)
    /\ UNCHANGED <<life, requests, works, aired, heard, timely, faults>>

Unused(r) == {k \in 0..MaxFaults : \A w \in works : w.r = r => w.copy # k}

\* A request whose type nobody has registered is answered at once.
RequestRefused(a, b) ==
    /\ Arrives(a, b, {"request"})
    /\ b \notin Serving
    /\ wire' = [wire EXCEPT ![a][b] = Tail(@), ![b][a] = Append(@, Msg("noHandler", Subject(a, b)))]
    /\ UNCHANGED <<life, requests, works, aired, heard, timely, faults>>

\* The handler is called, and its heartbeats start.
RequestArrives(a, b) ==
    /\ Arrives(a, b, {"request"})
    /\ b \in Serving
    /\ Unused(Subject(a, b)) # {}
    /\ works' = works \cup {[r    |-> Subject(a, b),
                             copy |-> CHOOSE k \in Unused(Subject(a, b)) : TRUE,
                             beat |-> Beat]}
    /\ Consume(a, b)
    /\ UNCHANGED <<life, requests, aired, heard, timely, faults>>

\* Mutant: the heartbeat leaves the timer alone.
HeartbeatUnheard(a, b) ==
    /\ Arrives(a, b, {"heartbeat"})
    /\ Consume(a, b)
    /\ UNCHANGED <<life, requests, works, aired, heard, timely, faults>>

\* Mutant: the timer is cleared and not set again.
HeartbeatClears(a, b) ==
    /\ Arrives(a, b, {"heartbeat"})
    /\ requests' = IF Pending(Subject(a, b))
                   THEN [requests EXCEPT ![Subject(a, b)].timer = Off] ELSE requests
    /\ Consume(a, b)
    /\ UNCHANGED <<life, works, aired, heard, timely, faults>>

\* handleHeartbeatMessage: the timer of a pending request starts again.
HeartbeatArrives(a, b) ==
    /\ Arrives(a, b, {"heartbeat"})
    /\ requests' = IF Pending(Subject(a, b))
                   THEN [requests EXCEPT ![Subject(a, b)].timer = Timeout] ELSE requests
    /\ Consume(a, b)
    /\ UNCHANGED <<life, works, aired, heard, timely, faults>>

\* Mutant: an answer is taken whether the request still waits for it or not.
AnswerSettlesAgain(a, b) ==
    /\ Arrives(a, b, {"resolved", "handlerError", "noHandler"})
    /\ Settle(Subject(a, b), Head(wire[a][b]).kind)
    /\ Consume(a, b)
    /\ UNCHANGED <<life, works, aired, heard, timely, faults>>

\* handleResponseMessage: an answer to a request that is over is ignored.
AnswerArrives(a, b) ==
    /\ Arrives(a, b, {"resolved", "handlerError", "noHandler"})
    /\ IF Pending(Subject(a, b)) THEN Settle(Subject(a, b), Head(wire[a][b]).kind)
                                 ELSE UNCHANGED requests
    /\ Consume(a, b)
    /\ UNCHANGED <<life, works, aired, heard, timely, faults>>

\* The sender has delivered its own broadcast to itself already.
BroadcastArrives(a, b) ==
    /\ Arrives(a, b, {"broadcast"})
    /\ heard' = IF a = b THEN heard ELSE [heard EXCEPT ![b] = @ + 1]
    /\ Consume(a, b)
    /\ UNCHANGED <<life, requests, works, aired, timely, faults>>

-----------------------------------------------------------------------------
(* Handlers. *)

At(w) == requests[w.r].to

Caller(w) == requests[w.r].from

\* The interval of an execution fires.
BeatFires(w) ==
    /\ w \in works
    /\ w.beat = 0
    /\ Len(wire[At(w)][Caller(w)]) < MaxInFlight
    /\ works' = (works \ {w}) \cup {[w EXCEPT !.beat = Beat]}
    /\ Publish(At(w), Caller(w), Msg("heartbeat", w.r))
    /\ UNCHANGED <<life, requests, aired, heard, timely, faults>>

\* The handler settles, also after its node has stopped.
HandlerEnds(w) ==
    /\ w \in works
    /\ works' = works \ {w}
    /\ \E kind \in {"resolved", "handlerError"} : Publish(At(w), Caller(w), Msg(kind, w.r))
    /\ UNCHANGED <<life, requests, aired, heard, timely, faults>>

-----------------------------------------------------------------------------
(* The service's life. *)

\* start() ends.
Joins(n) ==
    /\ life[n] = "joining"
    /\ life' = [life EXCEPT ![n] = "on"]
    /\ UNCHANGED <<requests, works, wire, aired, heard, timely, faults>>

\* stop(), until the leader service has stopped.
Leaves(n) ==
    /\ life[n] = "on"
    /\ life' = [life EXCEPT ![n] = "leaving"]
    /\ UNCHANGED <<requests, works, wire, aired, heard, timely, faults>>

Silenced(n) == {IF At(w) = n THEN [w EXCEPT !.beat = Off] ELSE w : w \in works}

Abandoned(n, outcome) ==
    [r \in DOMAIN requests |->
        IF requests[r].from = n /\ Pending(r)
        THEN [requests[r] EXCEPT !.state = outcome, !.timer = Off] ELSE requests[r]]

\* Mutant: stop() clears the timers of the pending requests and forgets to reject them.
LeftSilently(n) ==
    /\ life[n] = "leaving"
    /\ life' = [life EXCEPT ![n] = "left"]
    /\ works' = Silenced(n)
    /\ requests' = [r \in DOMAIN requests |->
                       IF requests[r].from = n THEN [requests[r] EXCEPT !.timer = Off] ELSE requests[r]]
    /\ UNCHANGED <<wire, aired, heard, timely, faults>>

\* The rest of stop(): heartbeats of handlers end, pending requests are rejected.
Left(n) ==
    /\ life[n] = "leaving"
    /\ life' = [life EXCEPT ![n] = "left"]
    /\ works' = Silenced(n)
    /\ requests' = Abandoned(n, "stopped")
    /\ UNCHANGED <<wire, aired, heard, timely, faults>>

-----------------------------------------------------------------------------
(* Failures and time. *)

Fault == faults < MaxFaults /\ faults' = faults + 1

Crash(n) ==
    /\ Fault
    /\ Alive(n)
    /\ life' = [life EXCEPT ![n] = "dead"]
    /\ works' = {w \in works : At(w) # n}
    /\ requests' = Abandoned(n, "lost")
    /\ UNCHANGED <<wire, aired, heard, timely>>

\* What a dead process had published last may not have left it.
DiesWithSender(a, b) ==
    /\ ~Alive(a)
    /\ wire[a][b] # <<>>
    /\ wire' = [wire EXCEPT ![a][b] = SubSeq(@, 1, Len(@) - 1)]
    /\ UNCHANGED <<life, requests, works, aired, heard, timely, faults>>

\* The subscriber was reconnecting.
Lose(a, b) ==
    /\ Fault
    /\ wire[a][b] # <<>>
    /\ Consume(a, b)
    /\ UNCHANGED <<life, requests, works, aired, heard, timely>>

\* PUBLISH was executed, its answer was lost, and ioredis sends it again.
Resend(a, b) ==
    /\ Fault
    /\ Alive(a)
    /\ wire[a][b] # <<>>
    /\ Publish(a, b, [wire[a][b][Len(wire[a][b])] EXCEPT !.age = 0])
    /\ UNCHANGED <<life, requests, works, aired, heard, timely>>

\* PUBLISH fails, executed or not: the caller of a request is told, a handler is not.
PublishFails(a, b) ==
    /\ Fault
    /\ Alive(a)
    /\ wire[a][b] # <<>>
    /\ LET last == wire[a][b][Len(wire[a][b])] IN
          IF last.kind = "request" /\ Pending(last.r) THEN Settle(last.r, "unpublished")
                                                      ELSE UNCHANGED requests
    /\ wire' \in {wire, [wire EXCEPT ![a][b] = SubSeq(@, 1, Len(@) - 1)]}
    /\ UNCHANGED <<life, works, aired, heard, timely>>

\* From now on nothing is known about delays.
Stall ==
    /\ Fault
    /\ timely
    /\ timely' = FALSE
    /\ wire' = [a \in Node |-> [b \in Node |->
                   [i \in DOMAIN wire[a][b] |-> [wire[a][b][i] EXCEPT !.age = 0]]]]
    /\ UNCHANGED <<life, requests, works, aired, heard>>

\* As long as all is timely no message is late, and a timer that is due fires.
MayPass ==
    /\ \A a, b \in Node : \A i \in DOMAIN wire[a][b] : wire[a][b][i].age < MaxDelay
    /\ \A r \in DOMAIN requests : requests[r].timer # 0
    /\ \A w \in works : w.beat # 0

Sooner(timer) == IF timer > 0 THEN timer - 1 ELSE timer

\* Ages matter as long as they are bounded.
Older(m) == [m EXCEPT !.age = IF timely THEN @ + 1 ELSE @]

Tick ==
    /\ timely => MayPass
    /\ requests' = [r \in DOMAIN requests |-> [requests[r] EXCEPT !.timer = Sooner(@)]]
    /\ works' = {[w EXCEPT !.beat = Sooner(@)] : w \in works}
    /\ wire' = [a \in Node |-> [b \in Node |->
                   [i \in DOMAIN wire[a][b] |-> Older(wire[a][b][i])]]]
    /\ UNCHANGED <<life, aired, heard, timely, faults>>

-----------------------------------------------------------------------------
Init ==
    /\ life = [n \in Node |-> IF n \in Early THEN "on" ELSE "joining"]
    /\ requests = <<>>
    /\ works = {}
    /\ wire = [a \in Node |-> [b \in Node |-> <<>>]]
    /\ aired = NoNode
    /\ heard = [n \in Node |-> 0]
    /\ timely = TRUE
    /\ faults = 0

Delivery(a, b) ==
    \/ Ignored(a, b) \/ RequestRefused(a, b) \/ RequestArrives(a, b)
    \/ HeartbeatArrives(a, b) \/ AnswerArrives(a, b) \/ BroadcastArrives(a, b)

NodeEvent(n) == Broadcast(n) \/ Joins(n) \/ Leaves(n) \/ Left(n) \/ Crash(n)

Next ==
    \/ Tick
    \/ Stall
    \/ \E n \in Node : NodeEvent(n)
    \/ \E a, b \in Node :
          Invoke(a, b) \/ Delivery(a, b) \/ DiesWithSender(a, b)
          \/ Lose(a, b) \/ Resend(a, b) \/ PublishFails(a, b)
    \/ \E r \in 1..MaxSent : TimesOut(r)
    \/ \E w \in works : BeatFires(w) \/ HandlerEnds(w)

Spec == Init /\ [][Next]_vars

\* Timers fire, messages arrive, stop() goes on; a handler may hang.
FairSpec ==
    /\ Spec
    /\ WF_vars(Tick)
    /\ \A a, b \in Node : WF_vars(Delivery(a, b))
    /\ \A r \in 1..MaxSent : WF_vars(TimesOut(r))
    /\ WF_vars(\E w \in works : BeatFires(w))
    /\ \A n \in Node : WF_vars(Left(n))

-----------------------------------------------------------------------------
(* Properties. *)

\* Without failures no caller gives up on a node that still handles its request, however long
\* the handler takes, as long as both run: the heartbeats of handleRequestMessage reach it in
\* time.
HandledInTime ==
    faults = 0 =>
        \A r \in DOMAIN requests : requests[r].state = "timedOut" =>
            requests[r].early \/ life[requests[r].to] # "on" \/ life[requests[r].from] # "on"

\* Every request that waits has a timer that will end the wait, and a node that will look at
\* its answer or is about to reject it: stop() and handleHeartbeatMessage forget none.
SettledOrWatched ==
    \A r \in DOMAIN requests : Pending(r) =>
        requests[r].timer # Off /\ life[requests[r].from] \in {"on", "leaving"}

\* A request settles once: of a timeout, an answer, a failure to publish and a stop that race
\* the first one decides, and what comes later changes nothing.
SettlesOnce ==
    [][\A r \in DOMAIN requests :
          requests[r].state # "pending" => requests'[r] = requests[r]]_vars

\* Whatever fails, a caller does not wait for ever on a node that does not work for it.
NotStranded ==
    \A r \in 1..MaxSent :
        Pending(r) ~> ~Pending(r) \/ \E w \in works : w.r = r /\ life[At(w)] \in {"on", "leaving"}
=============================================================================
