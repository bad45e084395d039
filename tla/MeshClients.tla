----------------------------- MODULE MeshClients -----------------------------
(***************************************************************************)
(* Which node of a mesh a client is connected to: the streams of           *)
(* MeshSrpcServer, the chains in which it serialises what it does for one  *)
(* client, the registry in Redis, and the mesh service that kicks a client *)
(* off the node it left and cleans up after a dead node                    *)
(* (src/services/mesh-client/*.ts, the life of a stream in                 *)
(* src/srpc/SrpcServer.ts, and what they use of src/services/mesh.ts).     *)
(*                                                                         *)
(* A job of a chain runs until its answer from Redis; the next one starts  *)
(* in the microtasks after it, before the node handles another event.      *)
(* Metadata and its synchronisation are left out.                          *)
(***************************************************************************)
EXTENDS ClientRegistry, Sequences

CONSTANTS
    StartsOn,       \* the nodes whose mesh runs before the first client connects
    \* Bounds
    Stopping,       \* the nodes whose mesh may be stopped
    MaxStreams, MaxFaults, MaxTicks

ASSUME ClientsAssumption ==
    /\ StartsOn \subseteq Node
    /\ MaxStreams \in Nat /\ MaxTicks \in Nat

VARIABLES
    registry,
    mesh,       \* node -> the life of its mesh service
    listed,     \* the nodes in the heartbeats' sorted set
    duty,       \* node -> the nodes that it has taken off the list and must clean up after
    streams,    \* the streams ever accepted, in the order they were
    chain,      \* node -> client -> the jobs of clientRegistryChains
    callbacks,  \* node -> client -> the jobs of clientCallbackChains
    told,       \* node -> client -> the last callback the application saw
    kicks,      \* kickClient requests on their way
    faults, ticks

vars == <<registry, mesh, listed, duty, streams, chain, callbacks, told, kicks, faults, ticks>>

\* "starting" and "stopping": instanceId is set, running is not.  "closing": stop() waits
\* for CLEANUP_NODE, while the mesh below still listens.
MeshState == {"off", "starting", "on", "closing", "stopping", "closed", "dead"}

\* "checking": postEstablishCheck; "connecting": onStreamConnected; "activating" and
\* "announcing": the two halves of onStreamActivated; "open": requests are let in.
StreamState == {"checking", "connecting", "activating", "announcing", "open", "gone"}

Stream ==
    [client    : Client,
     node      : Node \cup {NoNode},     \* NoNode: it is gone
     polite    : BOOLEAN,       \* protocol version 2 without the supersede flag
     step      : StreamState,
     published : BOOLEAN]       \* in lifecycleConnectedStreams

Job ==
    [kind   : {"reserve", "backfill", "activate", "disconnect"},
     s      : 1..MaxStreams,
     told   : BOOLEAN,          \* publishedLifecycle
     active : BOOLEAN,          \* isActivated
     reply  : {"queued", "sent", "yes", "no", "error"},
     old    : Node \cup {NoNode}]

Callback == [kind : {"connected", "disconnected"}, s : 1..MaxStreams, running : BOOLEAN]

Kick == [node : Node, client : Client]

TypeOK ==
    /\ registry \in Registries
    /\ mesh \in [Node -> MeshState]
    /\ listed \subseteq Node
    /\ duty \in [Node -> SUBSET Node]
    /\ streams \in Seq(Stream) /\ Len(streams) <= MaxStreams
    /\ chain \in [Node -> [Client -> Seq(Job)]]
    /\ callbacks \in [Node -> [Client -> Seq(Callback)]]
    /\ told \in [Node -> [Client -> [kind : {"none", "connected", "disconnected"}, s : 0..MaxStreams]]]
    /\ kicks \subseteq Kick
    /\ faults \in Nat /\ ticks \in Nat

-----------------------------------------------------------------------------
Up(n) == mesh[n] # "dead"

Running(n) == mesh[n] = "on"

Live(s) == streams[s].step # "gone"

\* getCurrentStreamByClientId: the pending or the active stream, never both.
Current(n, c) ==
    {s \in DOMAIN streams : streams[s].node = n /\ streams[s].client = c}

NewJob(kind, s) == [kind |-> kind, s |-> s, told |-> FALSE, active |-> FALSE,
                    reply |-> "queued", old |-> NoNode]

\* What onStreamDisconnected enqueues.
Farewell(s) == [NewJob("disconnect", s) EXCEPT !.told = streams[s].published]

Gone(stream) ==
    [stream EXCEPT !.step = "gone", !.node = NoNode, !.polite = FALSE, !.published = FALSE]

\* cleanupStream of a stream of c at n, whose chain holds the queue otherwise.
Leave(n, c, s, queue) ==
    IF Live(s)
    THEN /\ streams' = [streams EXCEPT ![s] = Gone(@)]
         /\ chain' = [chain EXCEPT ![n][c] = Append(queue, Farewell(s))]
    ELSE /\ chain' = [chain EXCEPT ![n][c] = queue]
         /\ UNCHANGED streams

\* Every node's microtasks are done.  They read and write what is the node's own, so that an
\* event anywhere may as well wait for them.
Drained ==
    \A n \in Node, c \in Client : Up(n) =>
        /\ chain[n][c] # <<>> => Head(chain[n][c]).reply # "queued"
        /\ callbacks[n][c] # <<>> => Head(callbacks[n][c]).running

Due(n, c, kind) ==
    /\ Up(n)
    /\ chain[n][c] # <<>>
    /\ Head(chain[n][c]).reply = "queued"
    /\ Head(chain[n][c]).kind = kind

Answered(n, c, kind, replies) ==
    /\ Up(n)
    /\ chain[n][c] # <<>>
    /\ Head(chain[n][c]).reply \in replies
    /\ Head(chain[n][c]).kind = kind

Subject(n, c) == Head(chain[n][c]).s

Rest(n, c) == Tail(chain[n][c])

Send(n, c) == chain' = [chain EXCEPT ![n][c][1].reply = "sent"]

Finish(n, c) == chain' = [chain EXCEPT ![n][c] = Rest(n, c)]

Announce(n, c, kind, s) ==
    callbacks' = [callbacks EXCEPT ![n][c] = Append(@, [kind |-> kind, s |-> s, running |-> FALSE])]

\* Mutant: the node that lost the client is not asked to let it go.
KickNobody(n, c) == UNCHANGED kicks

\* kickClient to the node that REGISTER took the client from.
KickOld(n, c) ==
    LET old == Head(chain[n][c]).old
    IN kicks' = IF old = NoNode THEN kicks ELSE kicks \cup {[node |-> old, client |-> c]}

-----------------------------------------------------------------------------
(* Streams. *)

\* handleStreamEstablished: it refuses a polite stream of a client that is here already.
Connect(n, c, polite) ==
    /\ Up(n) /\ mesh[n] \notin {"stopping", "closed"}     \* bound: no client after meshStop
    /\ Len(streams) < MaxStreams
    /\ ~(polite /\ Current(n, c) # {})
    /\ LET s    == Len(streams) + 1
           kept == [t \in DOMAIN streams |->
                       IF t \in Current(n, c) THEN Gone(streams[t]) ELSE streams[t]]
           left == IF Current(n, c) = {} THEN <<>>
                   ELSE <<Farewell(CHOOSE t \in Current(n, c) : TRUE)>>
       IN /\ streams' = Append(kept, [client |-> c, node |-> n, polite |-> polite,
                                      step |-> "checking", published |-> FALSE])
          /\ chain' = [chain EXCEPT ![n][c] = (@ \o left) \o <<NewJob("reserve", s)>>]
    /\ UNCHANGED <<registry, mesh, listed, duty, callbacks, told, kicks, faults, ticks>>

\* The socket closes, the client is silent for too long, or a connection handler throws.
Drop(s) ==
    /\ s \in DOMAIN streams /\ Live(s)
    /\ LET n == streams[s].node
           c == streams[s].client
       IN Leave(n, c, s, chain[n][c])
    /\ UNCHANGED <<registry, mesh, listed, duty, callbacks, told, kicks, faults, ticks>>

ReserveStarts(n, c) ==
    /\ Due(n, c, "reserve")
    /\ LET s == Subject(n, c) IN
          IF Live(s) /\ Running(n)
          THEN Send(n, c) /\ UNCHANGED streams
          ELSE /\ Finish(n, c)
               /\ streams' = IF Live(s) THEN [streams EXCEPT ![s].step = "connecting"] ELSE streams
    /\ UNCHANGED <<registry, mesh, listed, duty, callbacks, told, kicks, faults, ticks>>

\* Mutant: a refused stream is not cleaned up.
ReserveEndsStuck(n, c) ==
    LET s == Subject(n, c) IN
    /\ Answered(n, c, "reserve", {"yes", "no", "error"})
    /\ KickOld(n, c)
    /\ Finish(n, c)
    /\ streams' = IF Live(s) /\ Head(chain[n][c]).reply = "yes"
                  THEN [streams EXCEPT ![s].step = "connecting"] ELSE streams
    /\ UNCHANGED <<registry, mesh, listed, duty, callbacks, told, faults, ticks>>

ReserveEnds(n, c) ==
    LET s == Subject(n, c) IN
    /\ \/ /\ Answered(n, c, "reserve", {"yes"})
          /\ KickOld(n, c)
          /\ Finish(n, c)
          /\ streams' = IF Live(s) THEN [streams EXCEPT ![s].step = "connecting"] ELSE streams
       \/ /\ Answered(n, c, "reserve", {"no", "error"})
          /\ Leave(n, c, s, Rest(n, c))
          /\ UNCHANGED kicks
    /\ UNCHANGED <<registry, mesh, listed, duty, callbacks, told, faults, ticks>>

\* onStreamConnected's handlers have settled: the stream is activated and, when the mesh has
\* an instance id, so is its registration.
HandlersSettle(s) ==
    /\ s \in DOMAIN streams
    /\ streams[s].step = "connecting"
    /\ LET n == streams[s].node
           c == streams[s].client
       IN IF mesh[n] \in {"off", "closed"}
          THEN /\ streams' = [streams EXCEPT ![s].step = "announcing"]
               /\ Announce(n, c, "connected", s)
               /\ UNCHANGED chain
          ELSE /\ streams' = [streams EXCEPT ![s].step = "activating"]
               /\ chain' = [chain EXCEPT ![n][c] = Append(@, NewJob("activate", s))]
               /\ UNCHANGED callbacks
    /\ UNCHANGED <<registry, mesh, listed, duty, told, kicks, faults, ticks>>

ActivateStarts(n, c) ==
    /\ Due(n, c, "activate")
    /\ IF Live(Subject(n, c)) /\ Running(n)
       THEN Send(n, c) /\ UNCHANGED streams
       ELSE Leave(n, c, Subject(n, c), Rest(n, c))
    /\ UNCHANGED <<registry, mesh, listed, duty, callbacks, told, kicks, faults, ticks>>

ActivateEnds(n, c) ==
    LET s == Subject(n, c) IN
    /\ \/ /\ Answered(n, c, "activate", {"yes"})
          /\ Announce(n, c, "connected", s)
          /\ Finish(n, c)
          /\ streams' = IF Live(s) THEN [streams EXCEPT ![s].step = "announcing"] ELSE streams
       \/ /\ Answered(n, c, "activate", {"no", "error"})
          /\ Leave(n, c, s, Rest(n, c))
          /\ UNCHANGED callbacks
    /\ UNCHANGED <<registry, mesh, listed, duty, told, kicks, faults, ticks>>

\* A replacement that is here already keeps the registration.
DisconnectStarts(n, c) ==
    /\ Due(n, c, "disconnect")
    /\ IF Current(n, c) = {} /\ Running(n) THEN Send(n, c) ELSE Finish(n, c)
    /\ UNCHANGED <<registry, mesh, listed, duty, streams, callbacks, told, kicks, faults, ticks>>

DisconnectEnds(n, c) ==
    /\ Answered(n, c, "disconnect", {"yes", "no", "error"})
    /\ IF Head(chain[n][c]).reply = "yes" /\ Head(chain[n][c]).told
       THEN Announce(n, c, "disconnected", Subject(n, c))
       ELSE UNCHANGED callbacks
    /\ Finish(n, c)
    /\ UNCHANGED <<registry, mesh, listed, duty, streams, told, kicks, faults, ticks>>

-----------------------------------------------------------------------------
(* The application's callbacks, one after the other for a client. *)

CallbackDue(n, c) ==
    Up(n) /\ callbacks[n][c] # <<>> /\ ~Head(callbacks[n][c]).running

\* onStreamActivated returns, and openClientRequests follows.
Opened(s) == IF Live(s) THEN [streams EXCEPT ![s].step = "open"] ELSE streams

\* Mutant: the callback runs for a stream that has gone in the meantime.
CallbackStartsStale(n, c) ==
    /\ CallbackDue(n, c)
    /\ LET job == Head(callbacks[n][c]) IN
          /\ callbacks' = [callbacks EXCEPT ![n][c][1].running = TRUE]
          /\ told' = [told EXCEPT ![n][c] = [kind |-> job.kind, s |-> job.s]]
          /\ streams' = [streams EXCEPT ![job.s].published = Live(job.s) /\ job.kind = "connected"]
    /\ UNCHANGED <<registry, mesh, listed, duty, chain, kicks, faults, ticks>>

CallbackStarts(n, c) ==
    /\ CallbackDue(n, c)
    /\ LET job == Head(callbacks[n][c]) IN
          /\ job.kind = "connected" => Live(job.s)
          /\ callbacks' = [callbacks EXCEPT ![n][c][1].running = TRUE]
          /\ told' = [told EXCEPT ![n][c] = [kind |-> job.kind, s |-> job.s]]
          /\ streams' = IF job.kind = "connected"
                        THEN [streams EXCEPT ![job.s].published = TRUE] ELSE streams
    /\ UNCHANGED <<registry, mesh, listed, duty, chain, kicks, faults, ticks>>

\* Its stream has gone, or meshStop has cleared the metadata.
CallbackSkipped(n, c) ==
    /\ CallbackDue(n, c)
    /\ LET job == Head(callbacks[n][c]) IN
          /\ job.kind = "connected"
          /\ ~Live(job.s) \/ mesh[n] = "closed"
          /\ callbacks' = [callbacks EXCEPT ![n][c] = Tail(@)]
          /\ streams' = Opened(job.s)
    /\ UNCHANGED <<registry, mesh, listed, duty, chain, told, kicks, faults, ticks>>

CallbackEnds(n, c) ==
    /\ callbacks[n][c] # <<>> /\ Head(callbacks[n][c]).running
    /\ LET job == Head(callbacks[n][c]) IN
          /\ callbacks' = [callbacks EXCEPT ![n][c] = Tail(@)]
          /\ streams' = IF job.kind = "connected" THEN Opened(job.s) ELSE streams
    /\ UNCHANGED <<registry, mesh, listed, duty, chain, told, kicks, faults, ticks>>

-----------------------------------------------------------------------------
(* The mesh service. *)

\* mesh.start() has drawn an instance id.
MeshStarting(n) ==
    /\ mesh[n] = "off"
    /\ mesh' = [mesh EXCEPT ![n] = "starting"]
    /\ UNCHANGED <<registry, listed, duty, streams, chain, callbacks, told, kicks, faults, ticks>>

\* meshStart registers the clients that are connected already.
MeshStarted(n) ==
    /\ mesh[n] = "starting"
    /\ mesh' = [mesh EXCEPT ![n] = "on"]
    /\ listed' = listed \cup {n}
    /\ chain' = [chain EXCEPT ![n] =
                    [c \in Client |->
                        IF Current(n, c) = {} THEN @[c]
                        ELSE Append(@[c], NewJob("backfill", CHOOSE s \in Current(n, c) : TRUE))]]
    /\ UNCHANGED <<registry, duty, streams, callbacks, told, kicks, faults, ticks>>

\* registerClient for an activated stream, reserveClient for one that is not.
BackfillStarts(n, c) ==
    /\ Due(n, c, "backfill")
    /\ LET s == Subject(n, c) IN
          IF Live(s) /\ Running(n)
          THEN chain' = [chain EXCEPT ![n][c][1].reply = "sent",
                                      ![n][c][1].active = streams[s].step \notin {"checking", "connecting"}]
          ELSE Finish(n, c)
    /\ UNCHANGED <<registry, mesh, listed, duty, streams, callbacks, told, kicks, faults, ticks>>

BackfillEnds(n, c) ==
    /\ \/ /\ Answered(n, c, "backfill", {"yes", "error"})
          /\ KickOld(n, c)
          /\ Finish(n, c)
          /\ UNCHANGED streams
       \/ /\ Answered(n, c, "backfill", {"no"})
          /\ Leave(n, c, Subject(n, c), Rest(n, c))
          /\ UNCHANGED kicks
    /\ UNCHANGED <<registry, mesh, listed, duty, callbacks, told, faults, ticks>>

MeshStops(n) ==
    /\ n \in Stopping
    /\ mesh[n] = "on"
    /\ mesh' = [mesh EXCEPT ![n] = "closing"]
    /\ UNCHANGED <<registry, listed, duty, streams, chain, callbacks, told, kicks, faults, ticks>>

Fault == faults < MaxFaults /\ faults' = faults + 1

\* CLEANUP_NODE of stop() is answered, after all that was sent before it, or has failed.
CleanupOwn(n) ==
    /\ mesh[n] = "closing"
    /\ \A c \in Client : chain[n][c] = <<>>
    /\ \/ registry' = CleanupNode(registry, n) /\ UNCHANGED faults
       \/ Fault /\ UNCHANGED registry
    /\ mesh' = [mesh EXCEPT ![n] = "stopping"]
    /\ UNCHANGED <<listed, duty, streams, chain, callbacks, told, kicks, ticks>>

\* mesh.stop() has settled.
MeshClosed(n) ==
    /\ mesh[n] = "stopping"
    /\ mesh' = [mesh EXCEPT ![n] = "closed"]
    /\ listed' = listed \ {n}
    /\ UNCHANGED <<registry, duty, streams, chain, callbacks, told, kicks, faults, ticks>>

\* The kickClient handler: the client's stream is superseded, whichever one it is by now.
Kicked(k) ==
    /\ k \in kicks
    /\ Up(k.node)
    /\ kicks' = kicks \ {k}
    /\ IF mesh[k.node] \in {"on", "closing"}
       THEN \/ \E s \in Current(k.node, k.client) : Leave(k.node, k.client, s, chain[k.node][k.client])
            \/ Current(k.node, k.client) = {} /\ UNCHANGED <<streams, chain>>
       ELSE UNCHANGED <<streams, chain>>
    /\ UNCHANGED <<registry, mesh, listed, duty, callbacks, told, faults, ticks>>

\* Nobody listens any more, or the publication is lost.
KickLost(k) ==
    /\ k \in kicks
    /\ kicks' = kicks \ {k}
    /\ \/ ~Up(k.node) /\ UNCHANGED faults
       \/ Fault
    /\ UNCHANGED <<registry, mesh, listed, duty, streams, chain, callbacks, told, ticks>>

Unsent(n) ==
    \A c \in Client : chain[n][c] # <<>> => Head(chain[n][c]).reply # "sent"

\* The leader's CLEANUP takes a node off the list whose heartbeats have stopped: it is dead,
\* or its event loop stood still for the nodeTtl, and its next heartbeat lists it again.
Expire(m, n) ==
    /\ m # n
    /\ Running(m)
    /\ n \in listed /\ Unsent(n)
    /\ duty' = [duty EXCEPT ![m] = @ \cup {n}]
    /\ \/ ~Up(n) /\ listed' = listed \ {n} /\ UNCHANGED faults
       \/ Up(n) /\ Fault /\ UNCHANGED listed
    /\ UNCHANGED <<registry, mesh, streams, chain, callbacks, told, kicks, ticks>>

\* nodeCleanedUpCallback, in the same run of the leader: CLEANUP_NODE, or its refusal.
CleanUp(m, n) ==
    /\ Up(m)
    /\ n \in duty[m]
    /\ duty' = [duty EXCEPT ![m] = @ \ {n}]
    /\ \/ registry' = CleanupNode(registry, n) /\ UNCHANGED faults
       \/ Fault /\ UNCHANGED registry
    /\ UNCHANGED <<mesh, listed, streams, chain, callbacks, told, kicks, ticks>>

-----------------------------------------------------------------------------
(* Redis, the process, time. *)

Answer(n, c, reply, old) ==
    chain' = [chain EXCEPT ![n][c][1].reply = reply, ![n][c][1].old = old]

Claims(n, c) == Head(chain[n][c]).kind \in {"reserve", "backfill"}

\* Mutant: any registration of the client will do.
OwnsAny(n, c) == Owner(registry, c) # NoNode

\* What ACTIVATE and UNREGISTER look for first.
Owns(n, c) == Owner(registry, c) = n

\* The registry executes the script of the job that waits for it.
Execute(n, c) ==
    /\ chain[n][c] # <<>>
    /\ Head(chain[n][c]).reply = "sent"
    /\ LET job   == Head(chain[n][c])
           owner == Owner(registry, c)
       IN \/ /\ Claims(n, c)
             /\ Conflicts(registry, c, n, ~streams[job.s].polite)
             /\ Answer(n, c, "no", NoNode)
             /\ UNCHANGED registry
          \/ /\ Claims(n, c)
             /\ ~Conflicts(registry, c, n, ~streams[job.s].polite)
             /\ registry' = Register(registry, c, n, IF job.active THEN "active" ELSE "pending")
             /\ Answer(n, c, "yes", IF Owns(n, c) THEN NoNode ELSE owner)
          \/ /\ job.kind = "activate" /\ Owns(n, c)
             /\ registry' = Activate(registry, c, n)
             /\ Answer(n, c, "yes", NoNode)
          \/ /\ job.kind = "disconnect" /\ Owns(n, c)
             /\ registry' = Unregister(registry, c, n)
             /\ Answer(n, c, "yes", NoNode)
          \/ /\ ~Claims(n, c) /\ ~Owns(n, c)
             /\ Answer(n, c, "no", NoNode)
             /\ UNCHANGED registry
    /\ UNCHANGED <<mesh, listed, duty, streams, callbacks, told, kicks, faults, ticks>>

Refuse(n, c) ==
    /\ Fault
    /\ chain[n][c] # <<>>
    /\ Head(chain[n][c]).reply = "sent"
    /\ Answer(n, c, "error", NoNode)
    /\ UNCHANGED <<registry, mesh, listed, duty, streams, callbacks, told, kicks, ticks>>

\* What the process has sent may still reach Redis.
Crash(n) ==
    /\ Up(n)
    /\ Fault
    /\ mesh' = [mesh EXCEPT ![n] = "dead"]
    /\ streams' = [s \in DOMAIN streams |->
                      IF streams[s].node = n THEN Gone(streams[s]) ELSE streams[s]]
    /\ chain' = [chain EXCEPT ![n] = [c \in Client |->
                     IF @[c] # <<>> /\ Head(@[c]).reply = "sent" THEN <<Head(@[c])>> ELSE <<>>]]
    /\ callbacks' = [callbacks EXCEPT ![n] = [c \in Client |-> <<>>]]
    /\ duty' = [duty EXCEPT ![n] = {}]
    /\ UNCHANGED <<registry, listed, told, kicks, ticks>>

Disconnect(n, c) ==
    /\ ~Up(n)
    /\ chain[n][c] # <<>>
    /\ chain' = [chain EXCEPT ![n][c] = <<>>]
    /\ UNCHANGED <<registry, mesh, listed, duty, streams, callbacks, told, kicks, faults, ticks>>

Tick ==
    /\ ticks < MaxTicks
    /\ ticks' = ticks + 1
    /\ registry' = Aged(registry)
    /\ UNCHANGED <<mesh, listed, duty, streams, chain, callbacks, told, kicks, faults>>

-----------------------------------------------------------------------------
Init ==
    /\ registry = Empty
    /\ mesh = [n \in Node |-> IF n \in StartsOn THEN "on" ELSE "off"]
    /\ listed = StartsOn
    /\ duty = [n \in Node |-> {}]
    /\ streams = <<>>
    /\ chain = [n \in Node |-> [c \in Client |-> <<>>]]
    /\ callbacks = [n \in Node |-> [c \in Client |-> <<>>]]
    /\ told = [n \in Node |-> [c \in Client |-> [kind |-> "none", s |-> 0]]]
    /\ kicks = {}
    /\ faults = 0
    /\ ticks = 0

JobStarts(n, c) ==
    ReserveStarts(n, c) \/ ActivateStarts(n, c) \/ DisconnectStarts(n, c) \/ BackfillStarts(n, c)

JobEnds(n, c) ==
    ReserveEnds(n, c) \/ ActivateEnds(n, c) \/ DisconnectEnds(n, c) \/ BackfillEnds(n, c)

Microtask(n, c) == JobStarts(n, c) \/ CallbackStarts(n, c) \/ CallbackSkipped(n, c)

MeshEvent(n) ==
    MeshStarting(n) \/ MeshStarted(n) \/ MeshStops(n) \/ CleanupOwn(n) \/ MeshClosed(n) \/ Crash(n)

ClientEvent(n, c) ==
    \/ \E polite \in BOOLEAN : Connect(n, c, polite)
    \/ JobEnds(n, c) \/ CallbackEnds(n, c)
    \/ Execute(n, c) \/ Refuse(n, c) \/ Disconnect(n, c)

Event ==
    \/ Tick
    \/ \E s \in 1..MaxStreams : Drop(s) \/ HandlersSettle(s)
    \/ \E k \in kicks : Kicked(k) \/ KickLost(k)
    \/ \E n \in Node : MeshEvent(n)
    \/ \E m, n \in Node : Expire(m, n) \/ CleanUp(m, n)
    \/ \E n \in Node, c \in Client : ClientEvent(n, c)

Next ==
    \/ \E n \in Node, c \in Client : Microtask(n, c)
    \/ Drained /\ Event

Spec == Init /\ [][Next]_vars

\* Handlers and callbacks of the application settle, Redis and the event loops go on, a kick
\* is delivered, and a dead node's heartbeat expires.
FairSpec ==
    /\ Spec
    /\ WF_vars(\E s \in 1..MaxStreams : HandlersSettle(s))
    /\ \A n \in Node :
        /\ \A c \in Client :
            /\ WF_vars(JobStarts(n, c) \/ Execute(n, c) \/ JobEnds(n, c))
            /\ WF_vars(CallbackStarts(n, c) \/ CallbackSkipped(n, c) \/ CallbackEnds(n, c))
            /\ WF_vars(Kicked([node |-> n, client |-> c]))
        /\ WF_vars(~Up(n) /\ \E m \in Node : Expire(m, n))
        /\ WF_vars(\E m \in Node : CleanUp(m, n))

-----------------------------------------------------------------------------
(* Properties. *)

\* Every node's set lists only clients that the hash gives to that node, so that cleaning up
\* after a node, or listing its clients, never meets a client that has moved; and no set
\* outlives the hash.
RegistryConsistent == Consistent(registry)

Quiet ==
    /\ faults = 0
    /\ kicks = {}
    /\ \A n \in Node, c \in Client : chain[n][c] = <<>>

Meshed(c) == UNION {Current(n, c) : n \in {m \in Node : Running(m)}}

\* When all work is done, a client that is connected to a meshed node is registered for
\* exactly that node, active once its stream is, and a client that is not connected to any is
\* registered at most until its node has stopped: whatever reconnections, supersessions and
\* stops came before.
SettledAgrees ==
    /\ TypeOK
    /\ Quiet => \A c \in Client :
          \/ Meshed(c) = {} /\ Owner(registry, c) \in {NoNode} \cup {n \in Node : mesh[n] = "closing"}
          \/ \E s \in Meshed(c) :
                /\ Meshed(c) = {s}
                /\ registry.hash[c] =
                      [node  |-> streams[s].node,
                       state |-> IF streams[s].step = "connecting" THEN "pending" ELSE "active"]

\* The application is told of a client in the order things happened: of an open stream the last
\* thing it heard is that it connected, and a client whose only stream has left a running
\* node is not left standing as connected.
ToldInOrder ==
    Quiet => \A n \in StartsOn, c \in Client :
        Running(n) /\ callbacks[n][c] = <<>> =>
            /\ \A s \in Current(n, c) : streams[s].step = "open" => told[n][c] = [kind |-> "connected", s |-> s]
            /\ Len(streams) = 1 /\ Current(n, c) = {} => told[n][c].kind # "connected"

\* A stream that has been accepted is opened or gone in the end.
StreamSettles ==
    \A s \in 1..MaxStreams :
        s \in DOMAIN streams ~> s \in DOMAIN streams /\ streams[s].step \in {"open", "gone"}

\* A client does not stay connected to two meshed nodes, unless the kick was lost.
OneHome ==
    \A c \in Client : Cardinality(Meshed(c)) > 1 ~> Cardinality(Meshed(c)) <= 1 \/ faults > 0

\* What a dead node had registered is removed as long as another node's mesh runs, unless the
\* leader that took the node off the list fails before it has cleaned up: nobody else will.
OrphansGo ==
    \A n \in Node, c \in Client :
        ~Up(n) /\ Owner(registry, c) = n ~>
            \/ Owner(registry, c) # n
            \/ faults > 1
            \/ \A m \in Node \ {n} : ~Running(m)
=============================================================================
