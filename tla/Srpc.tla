-------------------------------- MODULE Srpc --------------------------------
(***************************************************************************)
(* The sRPC client and server (src/srpc/SrpcClient.ts, SrpcServer.ts) and  *)
(* the web sockets between them.  All clients here use one client id, so   *)
(* they compete for the one stream that the server keeps for it.           *)
(*                                                                         *)
(* A web socket has two ends and a queue of frames in each direction.  An  *)
(* end that closes sends a last frame, "bye", and goes on reading until it *)
(* reads the other end's.  The network may cut a socket: nothing arrives   *)
(* any more, and each end finds out by itself, late or never.              *)
(*                                                                         *)
(* A timer fires at any moment after it was set; one that fires although   *)
(* the other side is there is counted by MaxEvents (slowness).             *)
(***************************************************************************)
EXTENDS Naturals, Sequences, FiniteSets

CONSTANTS
    Client,         \* client processes with the same client id
    \* Bounds
    MaxSockets, MaxCalls, MaxInvokes,
    MaxEvents       \* connect() over a connection, disconnect(), calls, invokes, pings, failures

ASSUME SrpcAssumption ==
    /\ {MaxSockets, MaxCalls, MaxInvokes, MaxEvents} \subseteq Nat
    /\ 0 \notin Client

VARIABLES
    client,     \* the fields of each SrpcClient
    ws,         \* the web sockets, numbered in the order of their connect()
    stream,     \* socket -> the server's SrpcStream for it
    maps,       \* streamsById, pendingStreamsByClientId, streamsByClientId
    calls,      \* all client.invoke() that were sent, in order
    invokes,    \* all server.invoke(), in order
    spent       \* how much of MaxEvents is used

vars == <<client, ws, stream, maps, calls, invokes, spent>>

Socket == 1..MaxSockets
Nobody == 0

-----------------------------------------------------------------------------
(* Timers that are set again without being cleared: one handle, any number of timers. *)

NoTimer   == [live |-> 0, handle |-> FALSE]
Set(t)    == [live |-> t.live + 1, handle |-> TRUE]
Clear(t)  == IF t.handle THEN [live |-> t.live - 1, handle |-> FALSE] ELSE t

Cause == {"none", "disconnect", "badArg", "conflict", "supersede", "timeout"}

Frame == [kind : {"accepted", "refused", "ping", "request", "reply", "bye"},
          id   : 0..(MaxCalls + MaxInvokes),
          cause : Cause]

Ping         == [kind |-> "ping", id |-> 0, cause |-> "none"]
Request(i)   == [kind |-> "request", id |-> i, cause |-> "none"]
Reply(i)     == [kind |-> "reply", id |-> i, cause |-> "none"]
Bye(cause)   == [kind |-> "bye", id |-> 0, cause |-> cause]
Accepted     == [kind |-> "accepted", id |-> 0, cause |-> "none"]
Refused      == [kind |-> "refused", id |-> 0, cause |-> "none"]

NoClient ==
    [ws |-> Nobody, connected |-> FALSE, enabled |-> TRUE, asking |-> FALSE, refused |-> FALSE,
     retry |-> NoTimer, interval |-> NoTimer, overlapped |-> FALSE, tasks |-> {}]

\* near, far: the readyState of the client's and the server's end.  ear: the client's message
\* listener, which is the handshake's until the first message.
NoSocket ==
    [owner |-> Nobody, supersede |-> FALSE, near |-> "unused", far |-> "unused",
     up |-> <<>>, down |-> <<>>, cut |-> FALSE, timer |-> FALSE, ear |-> "first"]

\* live: lastPingAt >= 0; told: calls of onStreamDisconnected; revived: live again after a
\* clean-up; held: pendingClientRequests; works: requests whose handler runs.
NoStream ==
    [phase |-> "none", live |-> FALSE, blocked |-> FALSE, revived |-> FALSE, told |-> 0,
     held |-> <<>>, started |-> <<>>, works |-> {}]

TypeOK ==
    /\ client \in [Client -> [ws : {Nobody} \cup Socket, connected : BOOLEAN, enabled : BOOLEAN,
                              asking : BOOLEAN, refused : BOOLEAN, overlapped : BOOLEAN,
                              retry : [live : Nat, handle : BOOLEAN],
                              interval : [live : Nat, handle : BOOLEAN],
                              tasks : SUBSET (1..MaxInvokes)]]
    /\ ws \in [Socket -> [owner : {Nobody} \cup Client, supersede : BOOLEAN,
                          near : {"unused", "connecting", "aborted", "open", "closing", "closed"},
                          far : {"unused", "open", "closing", "closed"},
                          up : Seq(Frame), down : Seq(Frame), cut : BOOLEAN, timer : BOOLEAN,
                          ear : {"first", "all", "deaf"}]]
    /\ stream \in [Socket -> [phase : {"none", "checking", "connecting", "activating", "open"},
                              live : BOOLEAN, blocked : BOOLEAN, revived : BOOLEAN, told : Nat,
                              held : Seq(1..MaxCalls), started : Seq(1..MaxCalls),
                              works : SUBSET (1..MaxCalls)]]
    /\ maps \in [byId : SUBSET Socket, pending : {Nobody} \cup Socket,
               active : {Nobody} \cup Socket, serving : BOOLEAN]
    /\ calls \in Seq([by : Client, state : {"pending", "answered", "expired", "rejected"}])
    /\ invokes \in Seq([on : Socket, fresh : BOOLEAN, threw : BOOLEAN, state : {"pending", "answered", "rejected"}])
    /\ spent \in 0..MaxEvents

-----------------------------------------------------------------------------
(* Writing and closing, as functions of the sockets w. *)


Queued(w, s, queue, frame) == IF w[s].cut THEN queue ELSE Append(queue, frame)

WriteUp(w, s, frame) ==
    IF s # Nobody /\ w[s].near = "open" THEN [w EXCEPT ![s].up = Queued(w, s, @, frame)] ELSE w

WriteDown(w, s, frame) ==
    IF w[s].far = "open" THEN [w EXCEPT ![s].down = Queued(w, s, @, frame)] ELSE w

\* ws.close() of the client; while it connects, an error event follows.
CloseNear(w, s, cause) ==
    IF s = Nobody \/ w[s].near \notin {"open", "connecting"} THEN w
    ELSE [w EXCEPT ![s].near = IF @ = "open" THEN "closing" ELSE "aborted",
                   ![s].up = Queued(w, s, @, Bye(cause))]

CloseFar(w, s, cause) ==
    IF w[s].far = "open"
    THEN [w EXCEPT ![s].far = "closing", ![s].down = Queued(w, s, @, Bye(cause))] ELSE w

\* The close event of an end: it has read "bye", or its socket is gone.
EndNear(w, s) ==
    [CloseNear(w, s, "disconnect") EXCEPT ![s].near = "closed", ![s].down = <<>>]

EndFar(w, s, cause) ==
    [CloseFar(w, s, cause) EXCEPT ![s].far = "closed", ![s].up = <<>>]

PopUp(w, s)   == [w EXCEPT ![s].up = Tail(@)]
PopDown(w, s) == [w EXCEPT ![s].down = Tail(@)]

\* Something that need not happen happens.
Spend == spent < MaxEvents /\ spent' = spent + 1

\* A timeout of one end against the other: due when the socket is cut, slowness otherwise.
Silent(s) == IF ws[s].cut THEN UNCHANGED spent ELSE Spend

-----------------------------------------------------------------------------
(* The client's connection. *)

Used == {s \in Socket : ws[s].owner # Nobody}

\* connect() runs into a socket that is established, or whose connect timer is still set.
Overlaps(c) == c.ws # Nobody /\ (ws[c.ws].timer \/ ws[c.ws].ear = "all")

\* connect() of client p, whose fields are c by now.
ConnectAs(p, c, supersede) ==
    LET s == Cardinality(Used) + 1 IN
    /\ s \in Socket
    /\ client' = [client EXCEPT ![p] =
          [c EXCEPT !.ws = s, !.asking = TRUE, !.refused = FALSE, !.overlapped = @ \/ Overlaps(c)]]
    /\ ws' = [CloseNear(ws, c.ws, "disconnect") EXCEPT ![s] =
          [NoSocket EXCEPT !.owner = p, !.supersede = supersede, !.near = "connecting", !.timer = TRUE]]
    /\ UNCHANGED <<stream, maps, calls, invokes>>

Connect(p, supersede) ==
    /\ IF Used = {} THEN ~supersede /\ UNCHANGED spent ELSE Spend
    /\ ConnectAs(p, [client[p] EXCEPT !.retry = Clear(@)], supersede)

\* queueReconnect()'s timeout.
RetryFires(p) ==
    /\ client[p].retry.live > 0
    /\ ConnectAs(p, [client[p] EXCEPT !.retry = [live |-> @.live - 1, handle |-> FALSE]], FALSE)
    /\ UNCHANGED spent

\* Mutant: the pings of a lost connection go on.
KeepsInterval(p, suppress) ==
    LET c == client[p] IN
    IF c.retry.handle THEN UNCHANGED <<client, calls>>
    ELSE /\ client' = [client EXCEPT ![p] = [c EXCEPT
                !.ws = Nobody, !.connected = FALSE, !.asking = FALSE,
                !.refused = suppress,
                !.retry = IF c.enabled /\ ~suppress THEN Set(@) ELSE @]]
         /\ calls' = [i \in DOMAIN calls |->
                IF calls[i].by = p /\ calls[i].state = "pending"
                THEN [calls[i] EXCEPT !.state = "rejected"] ELSE calls[i]]

\* Mutant: no reconnection unless the connection had been established.
RetriesEstablished(p, suppress) ==
    LET c == client[p] IN
    IF c.retry.handle THEN UNCHANGED <<client, calls>>
    ELSE /\ client' = [client EXCEPT ![p] = [c EXCEPT
                !.ws = Nobody, !.connected = FALSE, !.asking = FALSE,
                !.interval = Clear(@), !.refused = suppress,
                !.retry = IF c.enabled /\ c.connected /\ ~suppress THEN Set(@) ELSE @]]
         /\ calls' = [i \in DOMAIN calls |->
                IF calls[i].by = p /\ calls[i].state = "pending"
                THEN [calls[i] EXCEPT !.state = "rejected"] ELSE calls[i]]

\* handleDisconnect(); nothing at all when a reconnection is already scheduled.
HandleDisconnect(p, suppress) ==
    LET c == client[p] IN
    IF c.retry.handle THEN UNCHANGED <<client, calls>>
    ELSE /\ client' = [client EXCEPT ![p] = [c EXCEPT
                !.ws = Nobody, !.connected = FALSE, !.asking = FALSE,
                !.interval = Clear(@), !.refused = suppress,
                !.retry = IF c.enabled /\ ~suppress THEN Set(@) ELSE @]]
         /\ calls' = [i \in DOMAIN calls |->
                IF calls[i].by = p /\ calls[i].state = "pending"
                THEN [calls[i] EXCEPT !.state = "rejected"] ELSE calls[i]]

\* The close or error event of a socket: of no interest unless it is the current one.
NearEnds(s, cause) ==
    LET p == ws[s].owner IN
    /\ IF client[p].ws = s
       THEN /\ ws' = [EndNear(ws, s) EXCEPT ![s].timer = FALSE]
            /\ HandleDisconnect(p, cause = "conflict")
       ELSE ws' = EndNear(ws, s) /\ UNCHANGED <<client, calls>>
    /\ UNCHANGED <<stream, maps, invokes, spent>>

\* The connect timer also belongs to a socket that connect() has replaced.
ConnectTimesOut(s) ==
    LET p == ws[s].owner IN
    /\ ws[s].timer
    /\ IF client[p].ws = s THEN Silent(s) ELSE UNCHANGED spent
    /\ ws' = [CloseNear(ws, s, "disconnect") EXCEPT ![s].timer = FALSE]
    /\ client' = [client EXCEPT ![p].asking = FALSE,
                                ![p].retry = IF client[p].enabled THEN Set(@) ELSE @]
    /\ UNCHANGED <<stream, maps, calls, invokes>>

Disconnect(p) ==
    /\ Spend
    /\ client[p].enabled
    /\ client' = [client EXCEPT ![p].enabled = FALSE, ![p].retry = Clear(@), ![p].interval = Clear(@)]
    /\ ws' = CloseNear(ws, client[p].ws, "disconnect")
    /\ UNCHANGED <<stream, maps, calls, invokes>>

\* doPingPong() of an interval, or triggerConnectionCheck(): a ping.
PingFires(p) ==
    /\ Spend
    /\ client[p].interval.live > 0 \/ client[p].connected
    /\ client[p].ws # Nobody /\ ws[client[p].ws].near = "open"
    /\ ws' = WriteUp(ws, client[p].ws, Ping)
    /\ UNCHANGED <<client, stream, maps, calls, invokes>>

\* doPingPong() without a pong for 75 seconds.
PongTimesOut(p) ==
    LET s == client[p].ws IN
    /\ client[p].interval.live > 0
    /\ s # Nobody
    /\ ws[s].near = "open"
    /\ Silent(s)
    /\ ws' = CloseNear(ws, s, "timeout")
    /\ UNCHANGED <<client, stream, maps, calls, invokes>>

-----------------------------------------------------------------------------
(* What the client reads. *)

NearReads(s, kind) ==
    /\ ~ws[s].cut
    /\ ws[s].near \in {"connecting", "open", "closing"}
    /\ ws[s].down # <<>>
    /\ Head(ws[s].down).kind = kind

Opens(s) ==
    /\ NearReads(s, "accepted")
    /\ ws' = [PopDown(ws, s) EXCEPT ![s].near = "open"]
    /\ UNCHANGED <<client, stream, maps, calls, invokes, spent>>

\* handleInitialHandshake(): the server's first ping.
Handshake(s) ==
    LET p == ws[s].owner IN
    /\ NearReads(s, "ping")
    /\ ws[s].ear = "first"
    /\ IF client[p].ws = s
       THEN /\ ws' = [WriteUp(PopDown(ws, s), s, Ping) EXCEPT ![s].timer = FALSE, ![s].ear = "all"]
            /\ client' = [client EXCEPT ![p].connected = TRUE, ![p].asking = FALSE,
                                        ![p].interval = Set(@)]
       ELSE ws' = [PopDown(ws, s) EXCEPT ![s].ear = "deaf"] /\ UNCHANGED client
    /\ UNCHANGED <<stream, maps, calls, invokes, spent>>

\* A message after the first one, on a socket whose first one came too late.
Ignores(s) ==
    /\ NearReads(s, "request") \/ NearReads(s, "reply")
    /\ ws[s].ear = "deaf"
    /\ ws' = PopDown(ws, s)
    /\ UNCHANGED <<client, stream, maps, calls, invokes, spent>>

\* handleReply(): a reply to a request that is over closes the current socket, whichever
\* socket it came by.
ReplyRead(s) ==
    LET p == ws[s].owner
        i == Head(ws[s].down).id
    IN
    /\ NearReads(s, "reply")
    /\ ws[s].ear = "all"
    /\ IF calls[i].state = "pending"
       THEN calls' = [calls EXCEPT ![i].state = "answered"] /\ ws' = PopDown(ws, s)
       ELSE ws' = CloseNear(PopDown(ws, s), client[p].ws, "badArg") /\ UNCHANGED calls
    /\ UNCHANGED <<client, stream, maps, invokes, spent>>

RequestRead(s) ==
    /\ NearReads(s, "request")
    /\ ws[s].ear = "all"
    /\ ws' = PopDown(ws, s)
    /\ client' = [client EXCEPT ![ws[s].owner].tasks = @ \cup {Head(ws[s].down).id}]
    /\ UNCHANGED <<stream, maps, calls, invokes, spent>>

\* The server's "bye", its refusal of the upgrade, the event of an aborted connect, or the
\* end of a cut socket, which an end that has closed waits 30 seconds for.
CloseRead(s) == NearReads(s, "bye") /\ NearEnds(s, Head(ws[s].down).cause)

NearFails(s) ==
    /\ NearReads(s, "refused") \/ ws[s].near = "aborted" \/ (ws[s].cut /\ ws[s].near = "closing")
    /\ NearEnds(s, "disconnect")

NearNotices(s) ==
    /\ ws[s].cut /\ ws[s].near \in {"connecting", "open"}
    /\ NearEnds(s, "disconnect")

-----------------------------------------------------------------------------
(* Requests of the client. *)

\* invoke() on an open socket; on any other it is rejected at once.
Invoke(p) ==
    /\ Spend /\ Len(calls) < MaxCalls
    /\ client[p].ws # Nobody /\ ws[client[p].ws].near = "open"
    /\ calls' = Append(calls, [by |-> p, state |-> "pending"])
    /\ ws' = WriteUp(ws, client[p].ws, Request(Len(calls) + 1))
    /\ UNCHANGED <<client, stream, maps, invokes>>

CallTimesOut(i) ==
    /\ i \in DOMAIN calls /\ calls[i].state = "pending"
    /\ calls' = [calls EXCEPT ![i].state = "expired"]
    /\ UNCHANGED <<client, ws, stream, maps, invokes, spent>>

\* The handler of a server request settles; the reply goes to the socket of the moment.
TaskEnds(p, i) ==
    /\ i \in client[p].tasks
    /\ client' = [client EXCEPT ![p].tasks = @ \ {i}]
    /\ ws' = WriteUp(ws, client[p].ws, Reply(i))
    /\ UNCHANGED <<stream, maps, calls, invokes, spent>>

\* The handler throws: no reply is written.
TaskThrows(p, i) ==
    /\ i \in client[p].tasks
    /\ client' = [client EXCEPT ![p].tasks = @ \ {i}]
    /\ invokes' = [invokes EXCEPT ![i].threw = TRUE]
    /\ UNCHANGED <<ws, stream, maps, calls, spent>>

-----------------------------------------------------------------------------
(* The server's streams. *)

Current == IF maps.pending # Nobody THEN maps.pending ELSE maps.active

Forget(m, s) ==
    [m EXCEPT !.byId = @ \ {s},
              !.pending = IF @ = s THEN Nobody ELSE @,
              !.active = IF @ = s THEN Nobody ELSE @]

Cleaned(r) == [r EXCEPT !.live = FALSE, !.told = @ + 1, !.blocked = FALSE, !.held = <<>>]

RejectAll(streams) ==
    [i \in DOMAIN invokes |->
        IF invokes[i].on \in streams /\ invokes[i].state = "pending"
        THEN [invokes[i] EXCEPT !.state = "rejected"] ELSE invokes[i]]

\* Mutant: the requests to the client stay in $queue.
KeepsQueue(s) ==
    IF ~stream[s].live THEN UNCHANGED <<stream, maps, invokes>>
    ELSE /\ stream' = [stream EXCEPT ![s] = Cleaned(@)]
         /\ maps' = Forget(maps, s)
         /\ UNCHANGED invokes

\* cleanupStream() without its close, which is part of the callers' ws'.
Cleanup(s) ==
    IF ~stream[s].live THEN UNCHANGED <<stream, maps, invokes>>
    ELSE /\ stream' = [stream EXCEPT ![s] = Cleaned(@)]
         /\ maps' = Forget(maps, s)
         /\ invokes' = RejectAll({s})

\* Mutant: only an activated stream is in the way.
ConflictsActivated(s) == maps.active

\* The stream that a new one collides with.
Conflict(s) == Current

\* The upgrade is verified and answered; handleStreamEstablished().  A client of protocol
\* version 1 counts as one that supersedes.
Accept(s) ==
    LET old == Conflict(s)
        upgraded == [ws EXCEPT ![s].far = "open", ![s].down = Queued(ws, s, @, Accepted)]
    IN
    /\ ws[s].owner # Nobody /\ ws[s].far = "unused" /\ ~ws[s].cut
    /\ maps.serving
    /\ IF old # Nobody /\ ~ws[s].supersede
       THEN /\ ws' = CloseFar(upgraded, s, "conflict")
            /\ UNCHANGED <<stream, maps, invokes>>
       ELSE /\ ws' = IF old # Nobody THEN CloseFar(upgraded, old, "supersede") ELSE upgraded
            /\ stream' = [r \in Socket |->
                  CASE r = s   -> [NoStream EXCEPT !.phase = "checking", !.live = TRUE, !.blocked = TRUE]
                    [] r = old -> Cleaned(stream[r])
                    [] OTHER   -> stream[r]]
            /\ maps' = LET m == Forget(maps, old) IN
                          [m EXCEPT !.byId = @ \cup {s}, !.pending = s]
            /\ invokes' = RejectAll({old})
    /\ UNCHANGED <<client, calls, spent>>

\* verifyClient() or the closed web socket server answers 403, 500 or 503.
Refuse(s) ==
    /\ ws[s].owner # Nobody /\ ws[s].far = "unused" /\ ~ws[s].cut
    /\ IF maps.serving THEN Spend ELSE UNCHANGED spent
    /\ ws' = [ws EXCEPT ![s].far = "closed", ![s].down = Queued(ws, s, @, Refused)]
    /\ UNCHANGED <<client, stream, maps, calls, invokes>>

\* postEstablishCheck() has resolved: the first ping, and the listener for messages.
CheckPasses(s) ==
    /\ stream[s].phase = "checking" /\ stream[s].live
    /\ stream' = [stream EXCEPT ![s].phase = "connecting"]
    /\ ws' = WriteDown(ws, s, Ping)
    /\ UNCHANGED <<client, maps, calls, invokes, spent>>

\* onStreamConnected() has resolved; activateStream().
Activate(s) ==
    /\ stream[s].phase = "connecting" /\ stream[s].live
    /\ Current = s
    /\ stream' = [stream EXCEPT ![s].phase = "activating"]
    /\ maps' = [maps EXCEPT !.pending = Nobody, !.active = s]
    /\ UNCHANGED <<client, ws, calls, invokes, spent>>

Starts(r, requests) ==
    [r EXCEPT !.started = @ \o requests, !.works = @ \cup {requests[i] : i \in DOMAIN requests}]

\* onStreamActivated() has resolved; openClientRequests().
OpenRequests(s) ==
    /\ stream[s].phase = "activating" /\ stream[s].live
    /\ stream' = [stream EXCEPT ![s] =
          Starts([@ EXCEPT !.phase = "open", !.blocked = FALSE, !.held = <<>>], @.held)]
    /\ UNCHANGED <<client, ws, maps, calls, invokes, spent>>

\* The check, a connection handler or the activation fails.
HandlersFail(s) ==
    /\ stream[s].phase \in {"checking", "connecting", "activating"} /\ stream[s].live
    /\ Spend
    /\ Cleanup(s)
    /\ ws' = CloseFar(ws, s, "disconnect")
    /\ UNCHANGED <<client, calls>>

\* terminateInactiveStreams(): no ping for 75 seconds.
Inactive(s) ==
    /\ s \in maps.byId
    /\ Silent(s)
    /\ Cleanup(s)
    /\ ws' = CloseFar(ws, s, "timeout")
    /\ UNCHANGED <<client, calls>>

\* close() of the server: at most one stream is registered.
ServerCloses ==
    /\ maps.serving
    /\ Spend
    /\ maps' = [Forget(maps, Current) EXCEPT !.serving = FALSE]
    /\ IF Current = Nobody THEN UNCHANGED <<ws, stream, invokes>>
       ELSE /\ ws' = CloseFar(ws, Current, "disconnect")
            /\ stream' = [stream EXCEPT ![Current] = Cleaned(@)]
            /\ invokes' = RejectAll({Current})
    /\ UNCHANGED <<client, calls>>

-----------------------------------------------------------------------------
(* What the server reads. *)

FarReads(s, kind) ==
    /\ ~ws[s].cut
    /\ ws[s].far \in {"open", "closing"}
    /\ ws[s].up # <<>>
    /\ Head(ws[s].up).kind = kind

\* The message listener is there from the first ping on, and stays after a clean-up.
Listens(s) == stream[s].phase \in {"connecting", "activating", "open"}

Unheard(s) ==
    /\ \E kind \in {"ping", "request", "reply"} : FarReads(s, kind)
    /\ ~Listens(s)
    /\ ws' = PopUp(ws, s)
    /\ UNCHANGED <<client, stream, maps, calls, invokes, spent>>

\* A ping sets lastPingAt, also that of a stream that has been cleaned up.  The pong is left
\* out: the client only notes the time of it.
PingRead(s) ==
    /\ FarReads(s, "ping") /\ Listens(s)
    /\ stream' = [stream EXCEPT ![s].live = TRUE, ![s].revived = @ \/ ~stream[s].live]
    /\ ws' = PopUp(ws, s)
    /\ UNCHANGED <<client, maps, calls, invokes, spent>>

\* Requests wait for the end of the activation.
HoldsRequests(s) == stream[s].phase = "connecting" \/ stream[s].blocked

Holds(r, request) == [r EXCEPT !.held = Append(@, request)]

CallRead(s) ==
    LET i == Head(ws[s].up).id IN
    /\ FarReads(s, "request") /\ Listens(s)
    /\ stream' = [stream EXCEPT ![s] =
          IF HoldsRequests(s) THEN Holds(@, i) ELSE Starts(@, <<i>>)]
    /\ ws' = PopUp(ws, s)
    /\ UNCHANGED <<client, maps, calls, invokes, spent>>

\* A reply is looked up in the $queue of the stream it came by.
AnswerRead(s) ==
    LET i == Head(ws[s].up).id IN
    /\ FarReads(s, "reply") /\ Listens(s)
    /\ IF invokes[i].on = s /\ invokes[i].state = "pending"
       THEN invokes' = [invokes EXCEPT ![i].state = "answered"] /\ ws' = PopUp(ws, s)
       ELSE ws' = CloseFar(PopUp(ws, s), s, "badArg") /\ UNCHANGED invokes
    /\ UNCHANGED <<client, stream, maps, calls, spent>>

FarEnds(s, cause) ==
    /\ Cleanup(s)
    /\ ws' = EndFar(ws, s, cause)
    /\ UNCHANGED <<client, calls, spent>>

ByeRead(s) == FarReads(s, "bye") /\ FarEnds(s, Head(ws[s].up).cause)

FarFails(s) == ws[s].cut /\ ws[s].far = "closing" /\ FarEnds(s, "disconnect")

FarNotices(s) == ws[s].cut /\ ws[s].far = "open" /\ FarEnds(s, "disconnect")

\* Mutant: a reply is written by the handler and once more by the dispatcher.
WorkRepliesTwice(s, i) ==
    /\ i \in stream[s].works
    /\ stream' = [stream EXCEPT ![s].works = @ \ {i}]
    /\ ws' = WriteDown(WriteDown(ws, s, Reply(i)), s, Reply(i))
    /\ UNCHANGED <<client, maps, calls, invokes, spent>>

\* The handler of a client request settles: a result or an error is the reply.
WorkEnds(s, i) ==
    /\ i \in stream[s].works
    /\ stream' = [stream EXCEPT ![s].works = @ \ {i}]
    /\ ws' = WriteDown(ws, s, Reply(i))
    /\ UNCHANGED <<client, maps, calls, invokes, spent>>

\* invoke() of the server on a stream that the application has seen, alive or not.
ServerInvoke(s) ==
    /\ Spend /\ Len(invokes) < MaxInvokes
    /\ Listens(s)
    /\ invokes' = Append(invokes,
          [on |-> s, fresh |-> stream[s].live, threw |-> FALSE, state |-> "pending"])
    /\ ws' = WriteDown(ws, s, Request(Len(invokes) + 1))
    /\ UNCHANGED <<client, stream, maps, calls>>

-----------------------------------------------------------------------------
\* The network loses a socket without a word to either end.
Cut(s) ==
    /\ Spend
    /\ ws[s].owner # Nobody /\ ~ws[s].cut
    /\ ws[s].near # "closed" \/ ws[s].far # "closed"
    /\ ws' = [ws EXCEPT ![s].cut = TRUE, ![s].up = <<>>, ![s].down = <<>>]
    /\ UNCHANGED <<client, stream, maps, calls, invokes>>

Init ==
    /\ client = [p \in Client |-> NoClient]
    /\ ws = [s \in Socket |-> NoSocket]
    /\ stream = [s \in Socket |-> NoStream]
    /\ maps = [byId |-> {}, pending |-> Nobody, active |-> Nobody, serving |-> TRUE]
    /\ calls = <<>> /\ invokes = <<>>
    /\ spent = 0

\* What the owners, the applications and the network may do or not.
Choice ==
    \/ \E p \in Client :
        \/ \E supersede \in BOOLEAN : Connect(p, supersede)
        \/ Disconnect(p) \/ PingFires(p) \/ Invoke(p)
        \/ \E i \in DOMAIN invokes : TaskEnds(p, i) \/ TaskThrows(p, i)
    \/ \E s \in Socket :
        \/ Refuse(s) \/ HandlersFail(s) \/ ServerInvoke(s) \/ Cut(s)
        \/ NearNotices(s) \/ FarNotices(s)
        \/ \E i \in DOMAIN calls : WorkEnds(s, i)
    \/ ServerCloses

\* What the event loops, the timers and the network do.
Progress ==
    \/ \E p \in Client : RetryFires(p) \/ PongTimesOut(p)
    \/ \E i \in DOMAIN calls : CallTimesOut(i)
    \/ \E s \in Socket :
        \/ ConnectTimesOut(s) \/ Opens(s) \/ Handshake(s) \/ Ignores(s) \/ ReplyRead(s)
        \/ RequestRead(s) \/ CloseRead(s) \/ NearFails(s)
        \/ Accept(s) \/ CheckPasses(s) \/ Activate(s) \/ OpenRequests(s) \/ Inactive(s)
        \/ Unheard(s) \/ PingRead(s) \/ CallRead(s) \/ AnswerRead(s) \/ ByeRead(s) \/ FarFails(s)

Next == Choice \/ Progress

Spec == Init /\ [][Next]_vars

\* Every behaviour is finite, so one condition drives all of it; no fault is forced.
FairSpec == Spec /\ WF_vars(Progress /\ spent' = spent)

-----------------------------------------------------------------------------
(* Properties. *)

\* The client id has one registered stream at most, pending or activated, and the two maps by
\* client id agree with the one by stream id: also when a new stream supersedes one that is
\* still pending, and when a stream that was superseded ends later.  Handlers of a stream's
\* requests start in the order of the client's invoke() calls, each once, whether the requests
\* were held until activation or came after it.
OneStream ==
    /\ TypeOK
    /\ maps.byId = {maps.pending, maps.active} \ {Nobody}
    /\ maps.pending = Nobody \/ maps.active = Nobody
    /\ \A s \in maps.byId : stream[s].live /\ ws[s].far # "closed"
    /\ \A s \in Socket : \A i, j \in DOMAIN stream[s].started :
        i < j => stream[s].started[i] < stream[s].started[j]

\* Neither end accuses the other of a protocol error ("badArg") unless a request had timed
\* out before its reply, a handler of the client outlived the connection that its request came
\* by (the reply goes to the next one), or connect() had replaced a connection in use.  The
\* handlers of disconnections hear of every stream that has ended, and twice only of one that a
\* ping revived after its clean-up.
EndsForCause ==
    /\ \A s \in Socket :
        Bye("badArg") \in {ws[s].up[i] : i \in DOMAIN ws[s].up} \cup {ws[s].down[i] : i \in DOMAIN ws[s].down} =>
            \/ \E i \in DOMAIN calls : calls[i].state = "expired"
            \/ \E i \in DOMAIN invokes : invokes[i].state = "rejected"
            \/ \E p \in Client : client[p].overlapped
    /\ \A s \in Socket :
        /\ stream[s].phase # "none" /\ ws[s].far = "closed" => stream[s].told > 0
        /\ stream[s].told > 1 => stream[s].revived

\* As long as connect() does not run into a connection, a client has one interval for pings
\* at most, only while it is connected, and one reconnection at most is scheduled, with no
\* connection in use.
TidyClient ==
    \A p \in Client : LET c == client[p] IN
        ~c.overlapped =>
            /\ c.interval = (IF c.interval.handle THEN Set(NoTimer) ELSE NoTimer)
            /\ c.interval.handle => c.connected
            /\ c.retry = (IF c.retry.handle THEN Set(NoTimer) ELSE NoTimer)
            /\ c.connected => c.ws # Nobody

Unsettled(i) == i \in DOMAIN invokes /\ invokes[i].fresh /\ invokes[i].state = "pending"
InTheHandler(i) == \E p \in Client : i \in client[p].tasks

\* A request of the server to a living stream ends: by its reply, or with the stream.  The
\* server has no timer, so the client's handler must settle and must not throw.
ServerCallSettles ==
    \A i \in 1..MaxInvokes :
        Unsettled(i) ~> ~Unsettled(i) \/ invokes[i].threw \/ InTheHandler(i)

Established(p) ==
    LET s == client[p].ws IN
    s # Nobody /\ ws[s].ear = "all" /\ ws[s].near = "open" /\ ~ws[s].cut

\* A client with a connection, or the prospect of one, gets an established one unless its
\* owner disconnects, the server closes or it says that the client id is taken, which ends all
\* attempts (or MaxSockets does).
ReconnectsOrTold ==
    \A p \in Client :
        client[p].ws # Nobody \/ client[p].retry.live > 0 ~>
            \/ Established(p) \/ client[p].refused \/ ~client[p].enabled \/ ~maps.serving
            \/ Used = Socket /\ (client[p].ws = Nobody \/ client[p].retry.live > 0)

=============================================================================
