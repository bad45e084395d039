----------------------------- MODULE SrpcProofs -----------------------------
(***************************************************************************)
(* Proofs about Srpc, for any clients and any bounds: one stream per       *)
(* client id and requests in order, tidy timers, and no groundless         *)
(* protocol error.                                                         *)
(***************************************************************************)
EXTENDS Srpc, FiniteSetTheorems, TLAPS

ClientType ==
    [ws : {Nobody} \cup Socket, connected : BOOLEAN, enabled : BOOLEAN,
     asking : BOOLEAN, refused : BOOLEAN, overlapped : BOOLEAN,
     retry : [live : Nat, handle : BOOLEAN],
     interval : [live : Nat, handle : BOOLEAN],
     tasks : SUBSET (1..MaxInvokes)]

NearState == {"unused", "connecting", "aborted", "open", "closing", "closed"}
FarState  == {"unused", "open", "closing", "closed"}

SocketType ==
    [owner : {Nobody} \cup Client, supersede : BOOLEAN,
     near : NearState, far : FarState,
     up : Seq(Frame), down : Seq(Frame), cut : BOOLEAN, timer : BOOLEAN,
     ear : {"first", "all", "deaf"}]

StreamType ==
    [phase : {"none", "checking", "connecting", "activating", "open"},
     live : BOOLEAN, blocked : BOOLEAN, revived : BOOLEAN, told : Nat,
     held : Seq(1..MaxCalls), started : Seq(1..MaxCalls),
     works : SUBSET (1..MaxCalls)]

MapsType ==
    [byId : SUBSET Socket, pending : {Nobody} \cup Socket, active : {Nobody} \cup Socket, serving : BOOLEAN]

CallType   == [by : Client, state : {"pending", "answered", "expired", "rejected"}]
InvokeType == [on : Socket, fresh : BOOLEAN, threw : BOOLEAN, state : {"pending", "answered", "rejected"}]

-----------------------------------------------------------------------------
(* What there is, and whose it is. *)

\* The sockets are numbered in the order of their connect().
Numbered == \E n \in 0..MaxSockets : Used = 1..n

Counted(t) == t.handle => t.live # 0

Fields(p) ==
    LET c == client[p] IN
    /\ Counted(c.retry) /\ Counted(c.interval)
    /\ c.ws # Nobody => ws[c.ws].owner = p
    /\ \A i \in c.tasks : i \in DOMAIN invokes /\ ws[invokes[i].on].owner = p

Bare(s) ==
    /\ ws[s].owner = Nobody => ws[s] = NoSocket
    /\ ws[s].far = "unused" => stream[s].phase = "none"
    /\ stream[s].phase = "none" => stream[s] = NoStream

\* What is on its way was sent, and what is at work has come.
KnownUp(s) ==
    \A j \in DOMAIN ws[s].up : LET f == ws[s].up[j] IN
        /\ f.kind = "request" => f.id \in DOMAIN calls /\ calls[f.id].by = ws[s].owner
        /\ f.kind = "reply" => f.id \in DOMAIN invokes

KnownDown(s) ==
    \A j \in DOMAIN ws[s].down : LET f == ws[s].down[j] IN
        /\ f.kind = "request" => f.id \in DOMAIN invokes /\ invokes[f.id].on = s
        /\ f.kind = "reply" => f.id \in DOMAIN calls

KnownCalls(s) ==
    LET r == stream[s] IN
    /\ \A j \in DOMAIN r.held : r.held[j] \in DOMAIN calls /\ calls[r.held[j]].by = ws[s].owner
    /\ \A j \in DOMAIN r.started : r.started[j] \in DOMAIN calls /\ calls[r.started[j]].by = ws[s].owner
    /\ \A i \in r.works : \E j \in DOMAIN r.started : r.started[j] = i

Known(s) == KnownUp(s) /\ KnownDown(s) /\ KnownCalls(s)

Base ==
    /\ TypeOK /\ Len(calls) <= MaxCalls /\ Len(invokes) <= MaxInvokes /\ Numbered
    /\ \A p \in Client : Fields(p)
    /\ \A s \in Socket : Bare(s) /\ Known(s)

-----------------------------------------------------------------------------
(* The server's side. *)

Increasing(q) == \A i, j \in DOMAIN q : i < j => q[i] < q[j]

\* Requests of a socket have started, wait and come in the order in which they were sent.
Order(s) ==
    LET up == ws[s].up  r == stream[s] IN
    /\ Increasing(r.started) /\ Increasing(r.held)
    /\ \A i \in DOMAIN r.started, j \in DOMAIN r.held : r.started[i] < r.held[j]
    /\ \A j \in DOMAIN up : up[j].kind = "request" =>
          /\ \A i \in DOMAIN r.started : r.started[i] < up[j].id
          /\ \A i \in DOMAIN r.held : r.held[i] < up[j].id
          /\ \A i \in DOMAIN up : up[i].kind = "request" /\ i < j => up[i].id < up[j].id

Registered ==
    /\ maps.byId = {maps.pending, maps.active} \ {Nobody}
    /\ maps.pending = Nobody \/ maps.active = Nobody

\* A registered stream lives, and blocks requests until it is open; one that is not has been
\* cleaned up, and its end is closed.
Alive(s) ==
    LET r == stream[s] IN
    /\ s \in maps.byId =>
          /\ r.phase # "none" /\ r.live /\ ws[s].far \in {"open", "closing"}
          /\ r.phase # "open" => r.blocked
    /\ r.phase # "none" /\ ws[s].far = "open" => s \in maps.byId
    /\ r.held # <<>> => HoldsRequests(s)
    /\ r.phase # "none" /\ r.told = 0 => s \in maps.byId
    /\ r.told > 0 /\ r.live => r.revived
    /\ r.told > 1 => r.revived

\* A reply is to a request whose handler has started and ended, and there is one.
RepliesOnce(s) ==
    LET down == ws[s].down  r == stream[s] IN
    \A j \in DOMAIN down : down[j].kind = "reply" =>
        /\ \E i \in DOMAIN r.started : r.started[i] = down[j].id
        /\ down[j].id \notin r.works
        /\ \A k \in DOMAIN down : down[k].kind = "reply" /\ down[k].id = down[j].id => k = j

Served(s) == Order(s) /\ Alive(s) /\ RepliesOnce(s)

-----------------------------------------------------------------------------
(* The client's side. *)

Single(t) == t = (IF t.handle THEN Set(NoTimer) ELSE NoTimer)

\* Of the sockets of a client that was never connected twice, only the present one has a timer or
\* is listened to, and then no reconnection is due.
Tidy(p) ==
    LET c == client[p] IN
    ~c.overlapped =>
        /\ Single(c.interval) /\ Single(c.retry)
        /\ c.interval.handle => c.connected
        /\ c.connected => c.ws # Nobody /\ ws[c.ws].ear = "all"
        /\ \A s \in Socket : ws[s].owner = p =>
              /\ ws[s].timer => c.ws = s /\ ~c.retry.handle
              /\ ws[s].ear = "all" /\ ws[s].near # "closed" => c.ws = s

-----------------------------------------------------------------------------
(* Requests of the server: each is in one place. *)

AnswersOnce ==
    \A s, t \in Socket : \A j \in DOMAIN ws[s].up, k \in DOMAIN ws[t].up :
        /\ ws[s].up[j].kind = "reply" /\ ws[t].up[k].kind = "reply"
        /\ ws[s].up[j].id = ws[t].up[k].id
        => s = t /\ j = k

AskedOnce ==
    \A s \in Socket : \A j, k \in DOMAIN ws[s].down :
        /\ ws[s].down[j].kind = "request" /\ ws[s].down[k].kind = "request"
        /\ ws[s].down[j].id = ws[s].down[k].id
        => j = k

AskedOrAnswered ==
    \A s, t \in Socket : \A j \in DOMAIN ws[s].down, k \in DOMAIN ws[t].up :
        ws[s].down[j].kind = "request" /\ ws[t].up[k].kind = "reply" =>
            ws[s].down[j].id # ws[t].up[k].id

AtWork ==
    \A p \in Client : \A i \in client[p].tasks : \A s \in Socket :
        /\ \A j \in DOMAIN ws[s].down : ws[s].down[j].kind = "request" => ws[s].down[j].id # i
        /\ \A j \in DOMAIN ws[s].up : ws[s].up[j].kind = "reply" => ws[s].up[j].id # i

InvokesOnce == AnswersOnce /\ AskedOnce /\ AskedOrAnswered /\ AtWork

-----------------------------------------------------------------------------
(* No groundless protocol error: whatever is on its way is still expected. *)

Excuse ==
    \/ \E i \in DOMAIN calls : calls[i].state = "expired"
    \/ \E i \in DOMAIN invokes : invokes[i].state = "rejected"
    \/ \E p \in Client : client[p].overlapped

Bad(q) == \E j \in DOMAIN q : q[j].kind = "bye" /\ q[j].cause = "badArg"

InUse(s) == ws[s].owner # Nobody /\ ws[s].near # "closed" /\ client[ws[s].owner].ws = s

Pending(i) == calls[i].state = "pending"

CallsDue(s) ==
    InUse(s) =>
        /\ \A j \in DOMAIN ws[s].up : ws[s].up[j].kind = "request" => Pending(ws[s].up[j].id)
        /\ \A j \in DOMAIN ws[s].down : ws[s].down[j].kind = "reply" => Pending(ws[s].down[j].id)
        /\ \A j \in DOMAIN stream[s].held : Pending(stream[s].held[j])
        /\ \A i \in stream[s].works : Pending(i)

Waits(i) == invokes[i].state = "pending" /\ invokes[i].on \in maps.byId

\* Its reply goes to the stream that asked, or to one that does not listen yet.
Fits(i, s) == s = invokes[i].on \/ stream[s].phase = "none"

AskedDue(s)    == \A j \in DOMAIN ws[s].down : ws[s].down[j].kind = "request" => Waits(ws[s].down[j].id)
AnsweredDue(s) == \A j \in DOMAIN ws[s].up : ws[s].up[j].kind = "reply" => Waits(ws[s].up[j].id) /\ Fits(ws[s].up[j].id, s)
WorkDue(p)     == \A i \in client[p].tasks : Waits(i) /\ (client[p].ws # Nobody => Fits(i, client[p].ws))

Honest ==
    ~Excuse =>
        /\ \A s \in Socket : ~Bad(ws[s].up) /\ ~Bad(ws[s].down)
        /\ \A s \in Socket : CallsDue(s)
        /\ \A s \in Socket : AskedDue(s) /\ AnsweredDue(s)
        /\ \A p \in Client : WorkDue(p)

IInv ==
    /\ Base /\ Registered
    /\ \A s \in Socket : Served(s)
    /\ \A p \in Client : Tidy(p)
    /\ InvokesOnce /\ Honest

-----------------------------------------------------------------------------
(* Sequences: a queue that loses frames at its head and gets others behind keeps those with a mark *)
(* of K as they were.                                                                              *)

Mark(f) == IF f.kind = "bye" /\ f.cause = "badArg" THEN "bad" ELSE f.kind
Asks == {"request", "reply"}
Every == Asks \cup {"bad"}
Requests == {"request"}
Replies  == {"reply"}

Keeps(q1, q, K) ==
    \E d \in Nat : \A j \in DOMAIN q1 : (j + d \in DOMAIN q /\ q1[j] = q[j + d]) \/ Mark(q1[j]) \notin K

LEMMA KeepsSame ==
    ASSUME NEW q \in Seq(Frame), NEW K
    PROVE  Keeps(q, q, K)
<1>1. \A j \in DOMAIN q : j + 0 \in DOMAIN q /\ q[j] = q[j + 0]
  OBVIOUS
<1> QED
  BY <1>1 DEF Keeps

LEMMA KeepsNone ==
    ASSUME NEW q \in Seq(Frame), NEW K
    PROVE  Keeps(<<>>, q, K)
<1>1. \A j \in DOMAIN <<>> : j + 0 \in DOMAIN q
  OBVIOUS
<1>2. \A j \in DOMAIN <<>> : FALSE
  OBVIOUS
<1> QED
  BY <1>2 DEF Keeps

LEMMA KeepsTail ==
    ASSUME NEW q \in Seq(Frame), q # <<>>, NEW K
    PROVE  Tail(q) \in Seq(Frame) /\ Keeps(Tail(q), q, K)
<1>1. \A j \in DOMAIN Tail(q) : j + 1 \in DOMAIN q /\ Tail(q)[j] = q[j + 1]
  OBVIOUS
<1> QED
  BY <1>1 DEF Keeps

LEMMA KeepsAppend ==
    ASSUME NEW q \in Seq(Frame), NEW f \in Frame, NEW K, Mark(f) \notin K
    PROVE  Append(q, f) \in Seq(Frame) /\ Keeps(Append(q, f), q, K)
<1>1. PICK q1 : q1 = Append(q, f)
  OBVIOUS
<1>2. \A j \in DOMAIN q1 : (j + 0 \in DOMAIN q /\ q1[j] = q[j + 0]) \/ q1[j] = f
  BY <1>1
<1>3. Keeps(q1, q, K)
  BY <1>2 DEF Keeps
<1> QED
  BY <1>1, <1>3

LEMMA KeepsFewer ==
    ASSUME NEW q1, NEW q, NEW K, NEW L, Keeps(q1, q, K), L \subseteq K
    PROVE  Keeps(q1, q, L)
<1>1. PICK d \in Nat : \A j \in DOMAIN q1 : (j + d \in DOMAIN q /\ q1[j] = q[j + d]) \/ Mark(q1[j]) \notin K
  BY DEF Keeps
<1> QED
  BY <1>1 DEF Keeps

LEMMA KeepsTwice ==
    ASSUME NEW q \in Seq(Frame), NEW q1 \in Seq(Frame), NEW q2 \in Seq(Frame), NEW K,
           Keeps(q1, q, K), Keeps(q2, q1, K)
    PROVE  Keeps(q2, q, K)
<1>1. PICK d \in Nat : \A j \in DOMAIN q1 : (j + d \in DOMAIN q /\ q1[j] = q[j + d]) \/ Mark(q1[j]) \notin K
  BY DEF Keeps
<1>2. PICK e \in Nat : \A j \in DOMAIN q2 : (j + e \in DOMAIN q1 /\ q2[j] = q1[j + e]) \/ Mark(q2[j]) \notin K
  BY DEF Keeps
<1>3. PICK g \in Nat : g = d + e
  OBVIOUS
<1>4. ASSUME NEW j \in DOMAIN q2, j + e \in DOMAIN q1 /\ q2[j] = q1[j + e]
      PROVE  (j + g \in DOMAIN q /\ q2[j] = q[j + g]) \/ Mark(q2[j]) \notin K
  <2>1. PICK k \in DOMAIN q1 : k = j + e
    BY <1>4
  <2>2. (k + d \in DOMAIN q /\ q1[k] = q[k + d]) \/ Mark(q1[k]) \notin K
    BY <1>1
  <2>3. k + d = j + g
    BY <1>3, <2>1
  <2> QED
    BY <1>4, <2>1, <2>2, <2>3
<1>5. \A j \in DOMAIN q2 : (j + g \in DOMAIN q /\ q2[j] = q[j + g]) \/ Mark(q2[j]) \notin K
  BY <1>2, <1>4
<1> QED
  BY <1>5 DEF Keeps

LEMMA FramesAre ==
    /\ Ping \in Frame /\ Accepted \in Frame /\ Refused \in Frame
    /\ \A cause \in Cause : Bye(cause) \in Frame
    /\ \A i \in 1..MaxCalls : Request(i) \in Frame /\ Reply(i) \in Frame
    /\ \A i \in 1..MaxInvokes : Request(i) \in Frame /\ Reply(i) \in Frame
BY SrpcAssumption DEF Frame, Ping, Accepted, Refused, Bye, Request, Reply, Cause

LEMMA MarksAre ==
    /\ Mark(Ping) = "ping" /\ Mark(Accepted) = "accepted" /\ Mark(Refused) = "refused"
    /\ \A cause : Mark(Bye(cause)) = IF cause = "badArg" THEN "bad" ELSE "bye"
    /\ \A i : Mark(Request(i)) = "request" /\ Mark(Reply(i)) = "reply"
    /\ \A f \in Frame :
          /\ f.kind = "request" <=> Mark(f) = "request"
          /\ f.kind = "reply" <=> Mark(f) = "reply"
          /\ f.kind = "bye" /\ f.cause = "badArg" <=> Mark(f) = "bad"
BY DEF Frame, Mark, Ping, Accepted, Refused, Bye, Request, Reply

-----------------------------------------------------------------------------
(* Writing and closing. *)

Sockets == [Socket -> SocketType]

\* The fields that writing and closing of one end do not touch.
SameEnds(a, b) ==
    a.owner = b.owner /\ a.supersede = b.supersede /\ a.cut = b.cut /\ a.timer = b.timer /\ a.ear = b.ear

\* The near end does something: other frames up, fewer down.
NearDoes(w1, w, s, K) ==
    /\ w1 \in Sockets
    /\ \A t \in Socket :
          /\ SameEnds(w1[t], w[t]) /\ w1[t].far = w[t].far
          /\ Keeps(w1[t].up, w[t].up, K) /\ Keeps(w1[t].down, w[t].down, Every)
          /\ t # s => w1[t] = w[t]

FarDoes(w1, w, s, K) ==
    /\ w1 \in Sockets
    /\ \A t \in Socket :
          /\ SameEnds(w1[t], w[t]) /\ w1[t].near = w[t].near
          /\ Keeps(w1[t].down, w[t].down, K) /\ Keeps(w1[t].up, w[t].up, Every)
          /\ t # s => w1[t] = w[t]

LEMMA SocketFields ==
    ASSUME NEW w \in Sockets, NEW s \in Socket
    PROVE  /\ w[s] \in SocketType /\ w[s].up \in Seq(Frame) /\ w[s].down \in Seq(Frame)
           /\ \A K : Keeps(w[s].up, w[s].up, K) /\ Keeps(w[s].down, w[s].down, K)
BY KeepsSame DEF Sockets, SocketType

LEMMA NearStays ==
    ASSUME NEW w \in Sockets, NEW s, NEW K
    PROVE  NearDoes(w, w, s, K) /\ FarDoes(w, w, s, K)
BY SocketFields DEF NearDoes, FarDoes, SameEnds

\* One socket w[s] becomes v.
LEMMA NearChanges ==
    ASSUME NEW w \in Sockets, NEW s \in Socket, NEW v \in SocketType, NEW K,
           SameEnds(v, w[s]), v.far = w[s].far, Keeps(v.up, w[s].up, K), Keeps(v.down, w[s].down, Every)
    PROVE  NearDoes([w EXCEPT ![s] = v], w, s, K)
<1>1. PICK w1 : w1 = [w EXCEPT ![s] = v]
  OBVIOUS
<1>2. w1 \in Sockets /\ w1[s] = v /\ \A t \in Socket : t # s => w1[t] = w[t]
  BY <1>1 DEF Sockets
<1> QED
  BY <1>1, <1>2, SocketFields DEF NearDoes, SameEnds

LEMMA FarChanges ==
    ASSUME NEW w \in Sockets, NEW s \in Socket, NEW v \in SocketType, NEW K,
           SameEnds(v, w[s]), v.near = w[s].near, Keeps(v.down, w[s].down, K), Keeps(v.up, w[s].up, Every)
    PROVE  FarDoes([w EXCEPT ![s] = v], w, s, K)
<1>1. PICK w1 : w1 = [w EXCEPT ![s] = v]
  OBVIOUS
<1>2. w1 \in Sockets /\ w1[s] = v /\ \A t \in Socket : t # s => w1[t] = w[t]
  BY <1>1 DEF Sockets
<1> QED
  BY <1>1, <1>2, SocketFields DEF FarDoes, SameEnds

LEMMA QueuedDoes ==
    ASSUME NEW w \in Sockets, NEW s \in Socket, NEW q \in Seq(Frame), NEW f \in Frame, NEW K, Mark(f) \notin K
    PROVE  Queued(w, s, q, f) \in Seq(Frame) /\ Keeps(Queued(w, s, q, f), q, K)
BY KeepsSame, KeepsAppend DEF Queued

\* The record of a socket with another queue and readyState.
WithUp(x, n, q)   == [x EXCEPT !.near = n, !.up = q]
WithDown(x, n, q) == [x EXCEPT !.far = n, !.down = q]

LEMMA SocketWithUp ==
    ASSUME NEW x \in SocketType, NEW q \in Seq(Frame),
           NEW n \in NearState
    PROVE  /\ WithUp(x, n, q) \in SocketType /\ SameEnds(WithUp(x, n, q), x)
           /\ WithUp(x, n, q).near = n /\ WithUp(x, n, q).far = x.far
           /\ WithUp(x, n, q).up = q /\ WithUp(x, n, q).down = x.down
<1>1. WithUp(x, n, q) \in SocketType
  BY DEF SocketType, WithUp, NearState
<1> QED
  BY <1>1 DEF SocketType, SameEnds, WithUp

LEMMA SocketWithDown ==
    ASSUME NEW x \in SocketType, NEW q \in Seq(Frame), NEW n \in FarState
    PROVE  /\ WithDown(x, n, q) \in SocketType /\ SameEnds(WithDown(x, n, q), x)
           /\ WithDown(x, n, q).near = x.near /\ WithDown(x, n, q).far = n
           /\ WithDown(x, n, q).up = x.up /\ WithDown(x, n, q).down = q
<1>1. WithDown(x, n, q) \in SocketType
  BY DEF SocketType, WithDown, FarState
<1> QED
  BY <1>1 DEF SocketType, SameEnds, WithDown

LEMMA SocketStates ==
    ASSUME NEW w \in Sockets, NEW s \in Socket
    PROVE  /\ w[s].near \in NearState
           /\ w[s].far \in FarState
BY SocketFields DEF SocketType

LEMMA WriteUpDoes ==
    ASSUME NEW w \in Sockets, NEW s \in {Nobody} \cup Socket, NEW f \in Frame, NEW K, Mark(f) \notin K
    PROVE  /\ NearDoes(WriteUp(w, s, f), w, s, K)
           /\ \A t \in Socket : WriteUp(w, s, f)[t].near = w[t].near
           /\ \A t \in Socket : WriteUp(w, s, f)[t].up \in {w[t].up, Append(w[t].up, f)}
           /\ \A t \in Socket : WriteUp(w, s, f)[t].down = w[t].down
<1>1. CASE WriteUp(w, s, f) = w
  BY <1>1, NearStays
<1>2. CASE WriteUp(w, s, f) # w
  <2>1. s \in Socket
    BY <1>2 DEF WriteUp, WithUp, Sockets
  <2>2. PICK q : q = Queued(w, s, w[s].up, f)
    OBVIOUS
  <2>3. q \in Seq(Frame) /\ Keeps(q, w[s].up, K) /\ q \in {w[s].up, Append(w[s].up, f)}
    BY <2>1, <2>2, QueuedDoes, SocketFields DEF Queued
  <2>4. PICK v : v = WithUp(w[s], w[s].near, q)
    OBVIOUS
  <2>5. v \in SocketType /\ SameEnds(v, w[s]) /\ v.far = w[s].far /\ v.near = w[s].near /\ v.up = q /\ v.down = w[s].down
    BY <2>1, <2>3, <2>4, SocketFields, SocketStates, SocketWithUp
  <2>6. WriteUp(w, s, f) = [w EXCEPT ![s] = v]
    BY <1>2, <2>2, <2>4 DEF WriteUp, WithUp, Sockets
  <2>7. NearDoes([w EXCEPT ![s] = v], w, s, K)
    BY <2>1, <2>3, <2>5, NearChanges, SocketFields
  <2>8. \A t \in Socket : [w EXCEPT ![s] = v][t] = IF t = s THEN v ELSE w[t]
    BY DEF Sockets
  <2> QED
    BY <2>3, <2>5, <2>6, <2>7, <2>8
<1> QED
  BY <1>1, <1>2

LEMMA WriteDownDoes ==
    ASSUME NEW w \in Sockets, NEW s \in Socket, NEW f \in Frame, NEW K, Mark(f) \notin K
    PROVE  /\ FarDoes(WriteDown(w, s, f), w, s, K)
           /\ \A t \in Socket : WriteDown(w, s, f)[t].far = w[t].far
           /\ \A t \in Socket : WriteDown(w, s, f)[t].down \in {w[t].down, Append(w[t].down, f)}
           /\ w[s].far # "open" => WriteDown(w, s, f) = w
           /\ \A t \in Socket : WriteDown(w, s, f)[t].up = w[t].up
<1>1. CASE WriteDown(w, s, f) = w
  BY <1>1, NearStays
<1>2. CASE WriteDown(w, s, f) # w
  <2>1. w[s].far = "open"
    BY <1>2 DEF WriteDown, WithDown, Sockets
  <2>2. PICK q : q = Queued(w, s, w[s].down, f)
    OBVIOUS
  <2>3. q \in Seq(Frame) /\ Keeps(q, w[s].down, K) /\ q \in {w[s].down, Append(w[s].down, f)}
    BY <2>2, QueuedDoes, SocketFields DEF Queued
  <2>4. PICK v : v = WithDown(w[s], w[s].far, q)
    OBVIOUS
  <2>5. v \in SocketType /\ SameEnds(v, w[s]) /\ v.far = w[s].far /\ v.near = w[s].near /\ v.down = q /\ v.up = w[s].up
    BY <2>3, <2>4, SocketFields, SocketStates, SocketWithDown
  <2>6. WriteDown(w, s, f) = [w EXCEPT ![s] = v]
    BY <1>2, <2>2, <2>4 DEF WriteDown, WithDown, Sockets
  <2>7. FarDoes([w EXCEPT ![s] = v], w, s, K)
    BY <2>3, <2>5, FarChanges, SocketFields
  <2>8. \A t \in Socket : [w EXCEPT ![s] = v][t] = IF t = s THEN v ELSE w[t]
    BY DEF Sockets
  <2> QED
    BY <2>1, <2>3, <2>5, <2>6, <2>7, <2>8
<1> QED
  BY <1>1, <1>2

LEMMA CloseNearDoes ==
    ASSUME NEW w \in Sockets, NEW s \in {Nobody} \cup Socket, NEW cause \in Cause, NEW K,
           Mark(Bye(cause)) \notin K
    PROVE  /\ NearDoes(CloseNear(w, s, cause), w, s, K)
           /\ \A t \in Socket : CloseNear(w, s, cause)[t].near \in {w[t].near, "closing", "aborted"}
           /\ \A t \in Socket : w[t].near = "closed" => CloseNear(w, s, cause)[t].near = "closed"
           /\ \A t \in Socket : CloseNear(w, s, cause)[t].down = w[t].down
<1>1. CASE CloseNear(w, s, cause) = w
  BY <1>1, NearStays
<1>2. CASE CloseNear(w, s, cause) # w
  <2>1. s \in Socket /\ w[s].near \in {"open", "connecting"}
    BY <1>2 DEF CloseNear, WithUp, Sockets
  <2>2. PICK q : q = Queued(w, s, w[s].up, Bye(cause))
    OBVIOUS
  <2>3. q \in Seq(Frame) /\ Keeps(q, w[s].up, K)
    BY <2>1, <2>2, QueuedDoes, SocketFields, FramesAre
  <2>4. PICK n \in NearState : n = IF w[s].near = "open" THEN "closing" ELSE "aborted"
    BY DEF NearState
  <2>5. PICK v : v = WithUp(w[s], n, q)
    OBVIOUS
  <2>6. v \in SocketType /\ SameEnds(v, w[s]) /\ v.far = w[s].far /\ v.near = n /\ v.up = q /\ v.down = w[s].down
    BY <2>1, <2>3, <2>4, <2>5, SocketFields, SocketStates, SocketWithUp
  <2>7. CloseNear(w, s, cause) = [w EXCEPT ![s] = v]
    BY <1>2, <2>1, <2>2, <2>4, <2>5 DEF CloseNear, Sockets, WithUp
  <2>8. NearDoes([w EXCEPT ![s] = v], w, s, K)
    BY <2>1, <2>3, <2>6, NearChanges, SocketFields
  <2>9. \A t \in Socket : [w EXCEPT ![s] = v][t] = IF t = s THEN v ELSE w[t]
    BY DEF Sockets
  <2> QED
    BY <2>1, <2>4, <2>6, <2>7, <2>8, <2>9
<1> QED
  BY <1>1, <1>2

LEMMA CloseFarDoes ==
    ASSUME NEW w \in Sockets, NEW s \in Socket, NEW cause \in Cause, NEW K, Mark(Bye(cause)) \notin K
    PROVE  /\ FarDoes(CloseFar(w, s, cause), w, s, K)
           /\ CloseFar(w, s, cause)[s].far = IF w[s].far = "open" THEN "closing" ELSE w[s].far
           /\ \A t \in Socket : CloseFar(w, s, cause)[t].up = w[t].up
<1>1. CASE w[s].far # "open"
  BY <1>1, NearStays DEF CloseFar, WithDown, Sockets
<1>2. CASE w[s].far = "open"
  <2>2. PICK q : q = Queued(w, s, w[s].down, Bye(cause))
    OBVIOUS
  <2>3. q \in Seq(Frame) /\ Keeps(q, w[s].down, K)
    BY <2>2, QueuedDoes, SocketFields, FramesAre
  <2>5. PICK v : v = WithDown(w[s], "closing", q)
    OBVIOUS
  <2>6. v \in SocketType /\ SameEnds(v, w[s]) /\ v.far = "closing" /\ v.near = w[s].near /\ v.down = q /\ v.up = w[s].up
    <3>1. "closing" \in FarState
      BY DEF FarState
    <3> QED
      BY <2>3, <2>5, <3>1, SocketFields, SocketWithDown
  <2>7. CloseFar(w, s, cause) = [w EXCEPT ![s] = v]
    BY <1>2, <2>2, <2>5 DEF CloseFar, Sockets, WithDown
  <2>8. FarDoes([w EXCEPT ![s] = v], w, s, K)
    BY <2>3, <2>6, FarChanges, SocketFields
  <2>9. \A t \in Socket : [w EXCEPT ![s] = v][t] = IF t = s THEN v ELSE w[t]
    BY DEF Sockets
  <2> QED
    BY <1>2, <2>6, <2>7, <2>8, <2>9
<1> QED
  BY <1>1, <1>2

LEMMA EndNearDoes ==
    ASSUME NEW w \in Sockets, NEW s \in Socket
    PROVE  /\ NearDoes(EndNear(w, s), w, s, Every)
           /\ EndNear(w, s)[s].near = "closed"
<1>1. PICK w0 : w0 = CloseNear(w, s, "disconnect")
  OBVIOUS
<1>2. NearDoes(w0, w, s, Every)
  BY <1>1, CloseNearDoes, MarksAre DEF Cause, Every, Asks
<1>3. w0 \in Sockets /\ w0[s].up \in Seq(Frame) /\ w0[s] \in SocketType
  BY <1>2, SocketFields DEF NearDoes
<1>4. PICK v : v = [w0[s] EXCEPT !.near = "closed", !.down = <<>>]
  OBVIOUS
<1>5. v \in SocketType
  <2>1. "closed" \in NearState /\ <<>> \in Seq(Frame)
    BY DEF NearState
  <2> QED
    BY <1>3, <1>4, <2>1 DEF SocketType
<1>6. SameEnds(v, w0[s]) /\ v.near = "closed" /\ v.far = w0[s].far /\ v.up = w0[s].up /\ v.down = <<>>
  BY <1>3, <1>4, <1>5 DEF SocketType, SameEnds
<1>7. EndNear(w, s) = [w0 EXCEPT ![s] = v]
  BY <1>1, <1>3, <1>4 DEF EndNear, Sockets
<1>8. NearDoes([w0 EXCEPT ![s] = v], w0, s, Every)
  <2>1. Keeps(v.up, w0[s].up, Every)
    BY <1>3, <1>6, KeepsSame
  <2>2. Keeps(v.down, w0[s].down, Every)
    BY <1>3, <1>6, KeepsNone, SocketFields
  <2> QED
    BY <1>3, <1>5, <1>6, <2>1, <2>2, NearChanges
<1>9. PICK w1 : w1 = EndNear(w, s)
  OBVIOUS
<1>10. w1[s] = v
  BY <1>3, <1>7, <1>9 DEF Sockets
<1>11. \A t \in Socket : SameEnds(w1[t], w[t]) /\ w1[t].far = w[t].far /\ (t # s => w1[t] = w[t])
  BY <1>2, <1>7, <1>8, <1>9 DEF NearDoes, SameEnds
<1>12. \A t \in Socket : Keeps(w1[t].up, w[t].up, Every) /\ Keeps(w1[t].down, w[t].down, Every)
  <2>1. ASSUME NEW t \in Socket, t # s
        PROVE  Keeps(w1[t].up, w[t].up, Every) /\ Keeps(w1[t].down, w[t].down, Every)
    BY <2>1, <1>11, SocketFields
  <2>2. Keeps(w1[s].up, w[s].up, Every)
    BY <1>2, <1>6, <1>10 DEF NearDoes
  <2>3. Keeps(w1[s].down, w[s].down, Every)
    BY <1>6, <1>10, KeepsNone, SocketFields
  <2> QED
    BY <2>1, <2>2, <2>3
<1>13. w1 \in Sockets
  BY <1>7, <1>8, <1>9 DEF NearDoes
<1> QED
  BY <1>6, <1>9, <1>10, <1>11, <1>12, <1>13 DEF NearDoes

LEMMA EndFarDoes ==
    ASSUME NEW w \in Sockets, NEW s \in Socket, NEW cause \in Cause, NEW K, Mark(Bye(cause)) \notin K
    PROVE  /\ FarDoes(EndFar(w, s, cause), w, s, K)
           /\ EndFar(w, s, cause)[s].far = "closed"
           /\ EndFar(w, s, cause)[s].up = <<>>
<1>1. PICK w0 : w0 = CloseFar(w, s, cause)
  OBVIOUS
<1>2. FarDoes(w0, w, s, K)
  BY <1>1, CloseFarDoes
<1>3. w0 \in Sockets /\ w0[s].down \in Seq(Frame) /\ w0[s] \in SocketType
  BY <1>2, SocketFields DEF FarDoes
<1>4. PICK v : v = [w0[s] EXCEPT !.far = "closed", !.up = <<>>]
  OBVIOUS
<1>5. v \in SocketType
  <2>1. "closed" \in FarState /\ <<>> \in Seq(Frame)
    BY DEF FarState
  <2> QED
    BY <1>3, <1>4, <2>1 DEF SocketType
<1>6. SameEnds(v, w0[s]) /\ v.far = "closed" /\ v.near = w0[s].near /\ v.down = w0[s].down /\ v.up = <<>>
  BY <1>3, <1>4, <1>5 DEF SocketType, SameEnds
<1>7. EndFar(w, s, cause) = [w0 EXCEPT ![s] = v]
  BY <1>1, <1>3, <1>4 DEF EndFar, Sockets
<1>8. FarDoes([w0 EXCEPT ![s] = v], w0, s, Every)
  <2>1. Keeps(v.down, w0[s].down, Every)
    BY <1>3, <1>6, KeepsSame
  <2>2. Keeps(v.up, w0[s].up, Every)
    BY <1>3, <1>6, KeepsNone, SocketFields
  <2> QED
    BY <1>3, <1>5, <1>6, <2>1, <2>2, FarChanges
<1>9. PICK w1 : w1 = EndFar(w, s, cause)
  OBVIOUS
<1>10. w1[s] = v
  BY <1>3, <1>7, <1>9 DEF Sockets
<1>11. \A t \in Socket : SameEnds(w1[t], w[t]) /\ w1[t].near = w[t].near /\ (t # s => w1[t] = w[t])
  BY <1>2, <1>7, <1>8, <1>9 DEF FarDoes, SameEnds
<1>12. \A t \in Socket : Keeps(w1[t].down, w[t].down, K) /\ Keeps(w1[t].up, w[t].up, Every)
  <2>1. ASSUME NEW t \in Socket, t # s
        PROVE  Keeps(w1[t].down, w[t].down, K) /\ Keeps(w1[t].up, w[t].up, Every)
    BY <2>1, <1>11, SocketFields
  <2>2. Keeps(w1[s].down, w[s].down, K)
    BY <1>2, <1>6, <1>10 DEF FarDoes
  <2>3. Keeps(w1[s].up, w[s].up, Every)
    BY <1>6, <1>10, KeepsNone, SocketFields
  <2> QED
    BY <2>1, <2>2, <2>3
<1>13. w1 \in Sockets
  BY <1>7, <1>8, <1>9 DEF FarDoes
<1> QED
  BY <1>6, <1>9, <1>10, <1>11, <1>12, <1>13 DEF FarDoes

LEMMA PopUpDoes ==
    ASSUME NEW w \in Sockets, NEW s \in Socket, w[s].up # <<>>, NEW K
    PROVE  /\ FarDoes(PopUp(w, s), w, s, K)
           /\ \A t \in Socket : PopUp(w, s)[t].far = w[t].far /\ PopUp(w, s)[t].down = w[t].down
           /\ PopUp(w, s)[s].up = Tail(w[s].up)
<1>1. PICK q : q = Tail(w[s].up)
  OBVIOUS
<1>2. q \in Seq(Frame) /\ Keeps(q, w[s].up, Every)
  BY <1>1, KeepsTail, SocketFields
<1>3. PICK v : v = WithUp(w[s], w[s].near, q)
  OBVIOUS
<1>4. v \in SocketType /\ SameEnds(v, w[s]) /\ v.far = w[s].far /\ v.near = w[s].near /\ v.up = q /\ v.down = w[s].down
  BY <1>2, <1>3, SocketFields, SocketStates, SocketWithUp
<1>5. PopUp(w, s) = [w EXCEPT ![s] = v]
  BY <1>1, <1>3 DEF PopUp, WithUp, Sockets
<1>6. FarDoes([w EXCEPT ![s] = v], w, s, K)
  BY <1>2, <1>4, FarChanges, SocketFields
<1>7. \A t \in Socket : [w EXCEPT ![s] = v][t] = IF t = s THEN v ELSE w[t]
  BY DEF Sockets
<1> QED
  BY <1>1, <1>4, <1>5, <1>6, <1>7

LEMMA PopDownDoes ==
    ASSUME NEW w \in Sockets, NEW s \in Socket, w[s].down # <<>>, NEW K
    PROVE  /\ NearDoes(PopDown(w, s), w, s, K)
           /\ \A t \in Socket : PopDown(w, s)[t].near = w[t].near /\ PopDown(w, s)[t].up = w[t].up
           /\ PopDown(w, s)[s].down = Tail(w[s].down)
<1>1. PICK q : q = Tail(w[s].down)
  OBVIOUS
<1>2. q \in Seq(Frame) /\ Keeps(q, w[s].down, Every)
  BY <1>1, KeepsTail, SocketFields
<1>3. PICK v : v = WithDown(w[s], w[s].far, q)
  OBVIOUS
<1>4. v \in SocketType /\ SameEnds(v, w[s]) /\ v.far = w[s].far /\ v.near = w[s].near /\ v.down = q /\ v.up = w[s].up
  BY <1>2, <1>3, SocketFields, SocketStates, SocketWithDown
<1>5. PopDown(w, s) = [w EXCEPT ![s] = v]
  BY <1>1, <1>3 DEF PopDown, WithDown, Sockets
<1>6. NearDoes([w EXCEPT ![s] = v], w, s, K)
  BY <1>2, <1>4, NearChanges, SocketFields
<1>7. \A t \in Socket : [w EXCEPT ![s] = v][t] = IF t = s THEN v ELSE w[t]
  BY DEF Sockets
<1> QED
  BY <1>1, <1>4, <1>5, <1>6, <1>7

LEMMA FarTwice ==
    ASSUME NEW w \in Sockets, NEW w1, NEW w2, NEW s, NEW K, FarDoes(w1, w, s, K), FarDoes(w2, w1, s, K)
    PROVE  FarDoes(w2, w, s, K)
<1>1. w1 \in Sockets /\ w2 \in Sockets
  BY DEF FarDoes
<1>2. \A t \in Socket : SameEnds(w2[t], w[t]) /\ w2[t].near = w[t].near /\ (t # s => w2[t] = w[t])
  BY DEF FarDoes, SameEnds
<1>3. \A t \in Socket : Keeps(w2[t].down, w[t].down, K) /\ Keeps(w2[t].up, w[t].up, Every)
  BY <1>1, KeepsTwice, SocketFields DEF FarDoes
<1> QED
  BY <1>1, <1>2, <1>3 DEF FarDoes

LEMMA FarTwo ==
    ASSUME NEW w \in Sockets, NEW w1, NEW w2, NEW s, NEW t, NEW K,
           FarDoes(w1, w, s, K), FarDoes(w2, w1, t, K)
    PROVE  /\ w2 \in Sockets
           /\ \A r \in Socket : /\ SameEnds(w2[r], w[r]) /\ w2[r].near = w[r].near
                                /\ Keeps(w2[r].down, w[r].down, K) /\ Keeps(w2[r].up, w[r].up, Every)
<1>1. w1 \in Sockets /\ w2 \in Sockets
  BY DEF FarDoes
<1>2. \A r \in Socket : SameEnds(w2[r], w[r]) /\ w2[r].near = w[r].near
  BY DEF FarDoes, SameEnds
<1>3. \A r \in Socket : Keeps(w2[r].down, w[r].down, K) /\ Keeps(w2[r].up, w[r].up, Every)
  BY <1>1, KeepsTwice, SocketFields DEF FarDoes
<1> QED
  BY <1>1, <1>2, <1>3

LEMMA NearTwice ==
    ASSUME NEW w \in Sockets, NEW w1, NEW w2, NEW s, NEW t, NEW K,
           NearDoes(w1, w, s, K), NearDoes(w2, w1, t, K)
    PROVE  /\ w2 \in Sockets
           /\ \A r \in Socket : /\ SameEnds(w2[r], w[r]) /\ w2[r].far = w[r].far
                                /\ Keeps(w2[r].up, w[r].up, K) /\ Keeps(w2[r].down, w[r].down, Every)
<1>1. w1 \in Sockets /\ w2 \in Sockets
  BY DEF NearDoes
<1>2. \A r \in Socket : SameEnds(w2[r], w[r]) /\ w2[r].far = w[r].far
  BY DEF NearDoes, SameEnds
<1>3. \A r \in Socket : Keeps(w2[r].up, w[r].up, K) /\ Keeps(w2[r].down, w[r].down, Every)
  BY <1>1, KeepsTwice, SocketFields DEF NearDoes
<1> QED
  BY <1>1, <1>2, <1>3

-----------------------------------------------------------------------------
(* What each part of the invariant needs of a step. *)

LEMMA KeepsKind ==
    ASSUME NEW q1 \in Seq(Frame), NEW q \in Seq(Frame), NEW K, Keeps(q1, q, K),
           NEW m \in {"request", "reply"}, m \in K
    PROVE  \E d \in Nat : \A j \in DOMAIN q1 : q1[j].kind = m => j + d \in DOMAIN q /\ q1[j] = q[j + d]
<1>1. PICK d \in Nat : \A j \in DOMAIN q1 : (j + d \in DOMAIN q /\ q1[j] = q[j + d]) \/ Mark(q1[j]) \notin K
  BY DEF Keeps
<1>2. ASSUME NEW j \in DOMAIN q1, q1[j].kind = m
      PROVE  j + d \in DOMAIN q /\ q1[j] = q[j + d]
  <2>1. q1[j] \in Frame
    OBVIOUS
  <2>2. Mark(q1[j]) = m
    BY <1>2, <2>1, MarksAre
  <2> QED
    BY <1>1, <2>2
<1> QED
  BY <1>2

LEMMA AsksAre ==
    /\ "request" \in Asks /\ "reply" \in Asks /\ "bad" \notin Asks
    /\ "bye" \notin Every /\ "ping" \notin Every /\ "accepted" \notin Every /\ "refused" \notin Every
    /\ Asks \subseteq Every /\ "bad" \in Every
    /\ Requests \subseteq Asks /\ Replies \subseteq Asks /\ "request" \in Requests /\ "reply" \in Replies
    /\ Requests \subseteq Every /\ Replies \subseteq Every /\ Every \subseteq Every
BY DEF Asks, Every, Requests, Replies

LEMMA KeepsGood ==
    ASSUME NEW q1 \in Seq(Frame), NEW q \in Seq(Frame), NEW K, Keeps(q1, q, K), "bad" \in K, ~Bad(q)
    PROVE  ~Bad(q1)
<1>1. PICK d \in Nat : \A j \in DOMAIN q1 : (j + d \in DOMAIN q /\ q1[j] = q[j + d]) \/ Mark(q1[j]) \notin K
  BY DEF Keeps
<1>2. ASSUME NEW j \in DOMAIN q1, q1[j].kind = "bye", q1[j].cause = "badArg"
      PROVE  FALSE
  <2>1. Mark(q1[j]) = "bad"
    BY <1>2 DEF Mark
  <2>2. j + d \in DOMAIN q /\ q1[j] = q[j + d]
    BY <1>1, <2>1
  <2> QED
    BY <1>2, <2>2 DEF Bad
<1> QED
  BY <1>2 DEF Bad

Logs ==
    /\ \A i \in DOMAIN calls :
          i \in DOMAIN calls' /\ calls'[i].by = calls[i].by /\ (calls[i].state = "expired" => calls'[i].state = "expired")
    /\ \A i \in DOMAIN invokes :
          /\ i \in DOMAIN invokes' /\ invokes'[i].on = invokes[i].on
          /\ invokes[i].state = "rejected" => invokes'[i].state = "rejected"
    /\ \A p \in Client : client[p].overlapped => client'[p].overlapped

LEMMA ExcuseStays ==
    ASSUME Logs, Excuse
    PROVE  Excuse'
BY DEF Logs, Excuse

LEMMA KnownCarried ==
    ASSUME NEW s \in Socket, Known(s), Logs, ws \in Sockets, ws' \in Sockets, ws'[s].owner = ws[s].owner
    PROVE  /\ Keeps(ws'[s].up, ws[s].up, Asks) => KnownUp(s)'
           /\ Keeps(ws'[s].down, ws[s].down, Asks) => KnownDown(s)'
           /\ stream'[s] = stream[s] => KnownCalls(s)'
<1>1. ws'[s].up \in Seq(Frame) /\ ws[s].up \in Seq(Frame) /\ ws'[s].down \in Seq(Frame) /\ ws[s].down \in Seq(Frame)
  BY SocketFields
<1>2. "request" \in Asks /\ "reply" \in Asks
  BY DEF Asks
<1>3. ASSUME Keeps(ws'[s].up, ws[s].up, Asks)
      PROVE  KnownUp(s)'
  <2>1. PICK d \in Nat : \A j \in DOMAIN ws'[s].up : ws'[s].up[j].kind = "request" =>
                            j + d \in DOMAIN ws[s].up /\ ws'[s].up[j] = ws[s].up[j + d]
    BY <1>1, <1>2, <1>3, KeepsKind
  <2>2. PICK e \in Nat : \A j \in DOMAIN ws'[s].up : ws'[s].up[j].kind = "reply" =>
                            j + e \in DOMAIN ws[s].up /\ ws'[s].up[j] = ws[s].up[j + e]
    BY <1>1, <1>2, <1>3, KeepsKind
  <2> QED
    BY <2>1, <2>2 DEF Known, KnownUp, Logs
<1>4. ASSUME Keeps(ws'[s].down, ws[s].down, Asks)
      PROVE  KnownDown(s)'
  <2>1. PICK d \in Nat : \A j \in DOMAIN ws'[s].down : ws'[s].down[j].kind = "request" =>
                            j + d \in DOMAIN ws[s].down /\ ws'[s].down[j] = ws[s].down[j + d]
    BY <1>1, <1>2, <1>4, KeepsKind
  <2>2. PICK e \in Nat : \A j \in DOMAIN ws'[s].down : ws'[s].down[j].kind = "reply" =>
                            j + e \in DOMAIN ws[s].down /\ ws'[s].down[j] = ws[s].down[j + e]
    BY <1>1, <1>2, <1>4, KeepsKind
  <2> QED
    BY <2>1, <2>2 DEF Known, KnownDown, Logs
<1>5. ASSUME stream'[s] = stream[s]
      PROVE  KnownCalls(s)'
  BY <1>5 DEF Known, KnownCalls, Logs
<1> QED
  BY <1>3, <1>4, <1>5

LEMMA OrderCarried ==
    ASSUME NEW s \in Socket, Order(s), ws \in Sockets, ws' \in Sockets,
           Keeps(ws'[s].up, ws[s].up, Requests),
           stream'[s].started = stream[s].started, stream'[s].held \in {stream[s].held, <<>>}
    PROVE  Order(s)'
<1>1. ws'[s].up \in Seq(Frame) /\ ws[s].up \in Seq(Frame)
  BY SocketFields
<1>2. PICK d \in Nat : \A j \in DOMAIN ws'[s].up : ws'[s].up[j].kind = "request" =>
                          j + d \in DOMAIN ws[s].up /\ ws'[s].up[j] = ws[s].up[j + d]
  BY <1>1, AsksAre, KeepsKind
<1>3. ASSUME NEW i \in DOMAIN ws'[s].up, NEW j \in DOMAIN ws'[s].up,
             ws'[s].up[i].kind = "request", ws'[s].up[j].kind = "request", i < j
      PROVE  ws'[s].up[i].id < ws'[s].up[j].id
  <2>1. i + d \in DOMAIN ws[s].up /\ j + d \in DOMAIN ws[s].up
    BY <1>2, <1>3
  <2>2. ws'[s].up[i] = ws[s].up[i + d] /\ ws'[s].up[j] = ws[s].up[j + d]
    BY <1>2, <1>3
  <2>3. i + d < j + d
    BY <1>1, <1>3
  <2> QED
    BY <1>3, <2>1, <2>2, <2>3 DEF Order
<1>4. Increasing(stream'[s].started) /\ Increasing(stream'[s].held)
  BY DEF Order, Increasing
<1>5. \A j \in DOMAIN ws'[s].up : ws'[s].up[j].kind = "request" =>
          /\ \A i \in DOMAIN stream'[s].started : stream'[s].started[i] < ws'[s].up[j].id
          /\ \A i \in DOMAIN stream'[s].held : stream'[s].held[i] < ws'[s].up[j].id
  BY <1>2 DEF Order
<1>6. \A i \in DOMAIN stream'[s].started, j \in DOMAIN stream'[s].held : stream'[s].started[i] < stream'[s].held[j]
  BY DEF Order
<1> QED
  BY <1>3, <1>4, <1>5, <1>6 DEF Order

LEMMA RepliesCarried ==
    ASSUME NEW s \in Socket, RepliesOnce(s), ws \in Sockets, ws' \in Sockets,
           Keeps(ws'[s].down, ws[s].down, Replies),
           stream'[s].started = stream[s].started, stream'[s].works = stream[s].works
    PROVE  RepliesOnce(s)'
<1>1. ws'[s].down \in Seq(Frame) /\ ws[s].down \in Seq(Frame)
  BY SocketFields
<1>2. PICK d \in Nat : \A j \in DOMAIN ws'[s].down : ws'[s].down[j].kind = "reply" =>
                          j + d \in DOMAIN ws[s].down /\ ws'[s].down[j] = ws[s].down[j + d]
  BY <1>1, AsksAre, KeepsKind
<1>3. ASSUME NEW j \in DOMAIN ws'[s].down, NEW k \in DOMAIN ws'[s].down,
             ws'[s].down[j].kind = "reply", ws'[s].down[k].kind = "reply", ws'[s].down[k].id = ws'[s].down[j].id
      PROVE  k = j
  <2>1. j + d \in DOMAIN ws[s].down /\ k + d \in DOMAIN ws[s].down
    BY <1>2, <1>3
  <2>2. ws'[s].down[j] = ws[s].down[j + d] /\ ws'[s].down[k] = ws[s].down[k + d]
    BY <1>2, <1>3
  <2>3. k + d = j + d
    BY <1>3, <2>1, <2>2 DEF RepliesOnce
  <2> QED
    BY <1>1, <2>3
<1>4. \A j \in DOMAIN ws'[s].down : ws'[s].down[j].kind = "reply" =>
        /\ \E i \in DOMAIN stream'[s].started : stream'[s].started[i] = ws'[s].down[j].id
        /\ ws'[s].down[j].id \notin stream'[s].works
  BY <1>2 DEF RepliesOnce
<1> QED
  BY <1>3, <1>4 DEF RepliesOnce

LEMMA AliveSame ==
    ASSUME NEW s \in Socket, Alive(s), stream'[s] = stream[s], ws'[s].far = ws[s].far,
           s \in maps'.byId <=> s \in maps.byId
    PROVE  Alive(s)'
BY DEF Alive, HoldsRequests

LEMMA OnceKept ==
    ASSUME InvokesOnce, ws \in Sockets, ws' \in Sockets,
           \A s \in Socket : Keeps(ws'[s].up, ws[s].up, Replies) /\ Keeps(ws'[s].down, ws[s].down, Requests)
    PROVE  /\ AnswersOnce' /\ AskedOnce' /\ AskedOrAnswered'
           /\ (\A p \in Client : client'[p].tasks \subseteq client[p].tasks) => AtWork'
<1>1. \A s \in Socket : /\ ws'[s].up \in Seq(Frame) /\ ws[s].up \in Seq(Frame)
                        /\ ws'[s].down \in Seq(Frame) /\ ws[s].down \in Seq(Frame)
  BY SocketFields
<1>2. ASSUME NEW s \in Socket
      PROVE  \E d \in Nat : \A j \in DOMAIN ws'[s].up : ws'[s].up[j].kind = "reply" =>
                j + d \in DOMAIN ws[s].up /\ ws'[s].up[j] = ws[s].up[j + d]
  <2>1. Keeps(ws'[s].up, ws[s].up, Replies)
    OBVIOUS
  <2>2. "reply" \in Replies
    BY AsksAre
  <2> QED
    BY <1>1, <2>1, <2>2, KeepsKind
<1>3. ASSUME NEW s \in Socket
      PROVE  \E d \in Nat : \A j \in DOMAIN ws'[s].down : ws'[s].down[j].kind = "request" =>
                j + d \in DOMAIN ws[s].down /\ ws'[s].down[j] = ws[s].down[j + d]
  <2>1. Keeps(ws'[s].down, ws[s].down, Requests)
    OBVIOUS
  <2>2. "request" \in Requests
    BY AsksAre
  <2> QED
    BY <1>1, <2>1, <2>2, KeepsKind
<1>4. AnswersOnce'
  <2>1. SUFFICES ASSUME NEW s \in Socket, NEW t \in Socket,
                        NEW j \in DOMAIN ws'[s].up, NEW k \in DOMAIN ws'[t].up,
                        ws'[s].up[j].kind = "reply", ws'[t].up[k].kind = "reply",
                        ws'[s].up[j].id = ws'[t].up[k].id
                 PROVE  s = t /\ j = k
    BY DEF AnswersOnce
  <2>2. PICK d \in Nat : \A i \in DOMAIN ws'[s].up : ws'[s].up[i].kind = "reply" =>
                i + d \in DOMAIN ws[s].up /\ ws'[s].up[i] = ws[s].up[i + d]
    BY <1>2
  <2>3. PICK e \in Nat : \A i \in DOMAIN ws'[t].up : ws'[t].up[i].kind = "reply" =>
                i + e \in DOMAIN ws[t].up /\ ws'[t].up[i] = ws[t].up[i + e]
    BY <1>2
  <2>4. s = t
    BY <2>1, <2>2, <2>3 DEF InvokesOnce, AnswersOnce
  <2>5. k + d \in DOMAIN ws[s].up /\ ws'[t].up[k] = ws[s].up[k + d]
    BY <2>1, <2>2, <2>4
  <2>6. j + d = k + d
    BY <2>1, <2>2, <2>5 DEF InvokesOnce, AnswersOnce
  <2>7. j \in Nat /\ k \in Nat
    BY <1>1
  <2> QED
    BY <2>4, <2>6, <2>7
<1>5. AskedOnce'
  <2>1. SUFFICES ASSUME NEW s \in Socket, NEW j \in DOMAIN ws'[s].down, NEW k \in DOMAIN ws'[s].down,
                        ws'[s].down[j].kind = "request", ws'[s].down[k].kind = "request",
                        ws'[s].down[j].id = ws'[s].down[k].id
                 PROVE  j = k
    BY DEF AskedOnce
  <2>2. PICK d \in Nat : \A i \in DOMAIN ws'[s].down : ws'[s].down[i].kind = "request" =>
                i + d \in DOMAIN ws[s].down /\ ws'[s].down[i] = ws[s].down[i + d]
    BY <1>3
  <2>3. j + d = k + d
    BY <2>1, <2>2 DEF InvokesOnce, AskedOnce
  <2>4. j \in Nat /\ k \in Nat
    BY <1>1
  <2> QED
    BY <2>3, <2>4
<1>6. AskedOrAnswered'
  <2>1. SUFFICES ASSUME NEW s \in Socket, NEW t \in Socket,
                        NEW j \in DOMAIN ws'[s].down, NEW k \in DOMAIN ws'[t].up,
                        ws'[s].down[j].kind = "request", ws'[t].up[k].kind = "reply"
                 PROVE  ws'[s].down[j].id # ws'[t].up[k].id
    BY DEF AskedOrAnswered
  <2>2. \E i \in DOMAIN ws[s].down : ws'[s].down[j] = ws[s].down[i]
    BY <1>3, <2>1
  <2>3. \E i \in DOMAIN ws[t].up : ws'[t].up[k] = ws[t].up[i]
    BY <1>2, <2>1
  <2> QED
    BY <2>1, <2>2, <2>3 DEF InvokesOnce, AskedOrAnswered
<1>7. ASSUME \A p \in Client : client'[p].tasks \subseteq client[p].tasks
      PROVE  AtWork'
  <2>1. SUFFICES ASSUME NEW p \in Client, NEW i \in client'[p].tasks, NEW s \in Socket
                 PROVE  /\ \A j \in DOMAIN ws'[s].down : ws'[s].down[j].kind = "request" => ws'[s].down[j].id # i
                        /\ \A j \in DOMAIN ws'[s].up : ws'[s].up[j].kind = "reply" => ws'[s].up[j].id # i
    BY DEF AtWork
  <2>2. i \in client[p].tasks
    BY <1>7, <2>1
  <2>3. \A j \in DOMAIN ws'[s].down : ws'[s].down[j].kind = "request" =>
          \E k \in DOMAIN ws[s].down : ws'[s].down[j] = ws[s].down[k]
    BY <1>3
  <2>4. \A j \in DOMAIN ws'[s].up : ws'[s].up[j].kind = "reply" =>
          \E k \in DOMAIN ws[s].up : ws'[s].up[j] = ws[s].up[k]
    BY <1>2
  <2> QED
    BY <2>2, <2>3, <2>4 DEF InvokesOnce, AtWork
<1> QED
  BY <1>4, <1>5, <1>6, <1>7

LEMMA OnceCarried ==
    ASSUME InvokesOnce, ws \in Sockets, ws' \in Sockets,
           \A s \in Socket : Keeps(ws'[s].up, ws[s].up, Asks) /\ Keeps(ws'[s].down, ws[s].down, Asks)
    PROVE  /\ AnswersOnce' /\ AskedOnce' /\ AskedOrAnswered'
           /\ (\A p \in Client : client'[p].tasks \subseteq client[p].tasks) => AtWork'
<1>1. \A s \in Socket : Keeps(ws'[s].up, ws[s].up, Replies) /\ Keeps(ws'[s].down, ws[s].down, Requests)
  BY KeepsFewer, AsksAre
<1> QED
  BY <1>1, OnceKept

LEMMA GoodCarried ==
    ASSUME NEW s \in Socket, ws \in Sockets, ws' \in Sockets, ~Bad(ws[s].up), ~Bad(ws[s].down),
           Keeps(ws'[s].up, ws[s].up, Every), Keeps(ws'[s].down, ws[s].down, Every)
    PROVE  ~Bad(ws'[s].up) /\ ~Bad(ws'[s].down)
BY SocketFields, KeepsGood, AsksAre

\* Waits and Fits of the next state.
WaitsThen(i)   == invokes'[i].state = "pending" /\ invokes'[i].on \in maps'.byId
FitsThen(i, s) == s = invokes'[i].on \/ stream'[s].phase = "none"
Stays(i)       == WaitsThen(i) /\ \A t \in Socket : stream[t].phase = "none" => stream'[t].phase = "none"

\* The calls of a socket's owner that are pending stay so.
LEMMA CallsDueCarried ==
    ASSUME NEW s \in Socket, CallsDue(s), Known(s), RepliesOnce(s), ws \in Sockets, ws' \in Sockets,
           InUse(s)' => InUse(s),
           Keeps(ws'[s].up, ws[s].up, Requests), Keeps(ws'[s].down, ws[s].down, Replies),
           stream'[s].held \in {stream[s].held, <<>>}, stream'[s].works = stream[s].works,
           InUse(s)' => \A i \in DOMAIN calls : calls[i].by = ws[s].owner /\ Pending(i) => calls'[i].state = "pending"
    PROVE  CallsDue(s)'
<1>1. SUFFICES ASSUME InUse(s)'
               PROVE  /\ \A j \in DOMAIN ws'[s].up : ws'[s].up[j].kind = "request" => calls'[ws'[s].up[j].id].state = "pending"
                      /\ \A j \in DOMAIN ws'[s].down : ws'[s].down[j].kind = "reply" => calls'[ws'[s].down[j].id].state = "pending"
                      /\ \A j \in DOMAIN stream'[s].held : calls'[stream'[s].held[j]].state = "pending"
                      /\ \A i \in stream'[s].works : calls'[i].state = "pending"
  BY DEF CallsDue, Pending
<1>2. /\ ws'[s].up \in Seq(Frame) /\ ws[s].up \in Seq(Frame)
      /\ ws'[s].down \in Seq(Frame) /\ ws[s].down \in Seq(Frame)
  BY SocketFields
<1>3. ASSUME NEW j \in DOMAIN ws'[s].up, ws'[s].up[j].kind = "request"
      PROVE  calls'[ws'[s].up[j].id].state = "pending"
  <2>1. PICK k \in DOMAIN ws[s].up : ws'[s].up[j] = ws[s].up[k]
    BY <1>2, <1>3, AsksAre, KeepsKind
  <2>2. Pending(ws[s].up[k].id) /\ ws[s].up[k].id \in DOMAIN calls /\ calls[ws[s].up[k].id].by = ws[s].owner
    BY <1>1, <1>3, <2>1 DEF CallsDue, Known, KnownUp
  <2> QED
    BY <1>1, <2>1, <2>2
<1>4. ASSUME NEW j \in DOMAIN ws'[s].down, ws'[s].down[j].kind = "reply"
      PROVE  calls'[ws'[s].down[j].id].state = "pending"
  <2>1. PICK k \in DOMAIN ws[s].down : ws'[s].down[j] = ws[s].down[k]
    BY <1>2, <1>4, AsksAre, KeepsKind
  <2>2. PICK i \in DOMAIN stream[s].started : stream[s].started[i] = ws[s].down[k].id
    BY <1>4, <2>1 DEF RepliesOnce
  <2>3. Pending(ws[s].down[k].id) /\ ws[s].down[k].id \in DOMAIN calls /\ calls[ws[s].down[k].id].by = ws[s].owner
    BY <1>1, <1>4, <2>1, <2>2 DEF CallsDue, Known, KnownCalls
  <2> QED
    BY <1>1, <2>1, <2>3
<1>5. ASSUME NEW j \in DOMAIN stream'[s].held
      PROVE  calls'[stream'[s].held[j]].state = "pending"
  <2>1. stream'[s].held = stream[s].held
    BY <1>5
  <2>2. /\ Pending(stream[s].held[j]) /\ stream[s].held[j] \in DOMAIN calls
        /\ calls[stream[s].held[j]].by = ws[s].owner
    BY <1>1, <1>5, <2>1 DEF CallsDue, Known, KnownCalls
  <2> QED
    BY <1>1, <2>1, <2>2
<1>6. ASSUME NEW i \in stream'[s].works
      PROVE  calls'[i].state = "pending"
  <2>1. Pending(i) /\ i \in DOMAIN calls /\ calls[i].by = ws[s].owner
    BY <1>1, <1>6 DEF CallsDue, Known, KnownCalls
  <2> QED
    BY <1>1, <2>1
<1> QED
  BY <1>3, <1>4, <1>5, <1>6

LEMMA InvokesDueKept ==
    ASSUME NEW s \in Socket, AskedDue(s), AnsweredDue(s), Known(s), ws \in Sockets, ws' \in Sockets,
           Keeps(ws'[s].up, ws[s].up, Replies), Keeps(ws'[s].down, ws[s].down, Requests), Logs,
           \A i \in DOMAIN invokes : Waits(i) => Stays(i)
    PROVE  AskedDue(s)' /\ AnsweredDue(s)'
<1>1. /\ ws'[s].up \in Seq(Frame) /\ ws[s].up \in Seq(Frame)
      /\ ws'[s].down \in Seq(Frame) /\ ws[s].down \in Seq(Frame)
  BY SocketFields
<1>2. ASSUME NEW j \in DOMAIN ws'[s].down, ws'[s].down[j].kind = "request"
      PROVE  WaitsThen(ws'[s].down[j].id)
  <2>1. PICK k \in DOMAIN ws[s].down : ws'[s].down[j] = ws[s].down[k]
    BY <1>1, <1>2, AsksAre, KeepsKind
  <2>2. Waits(ws[s].down[k].id) /\ ws[s].down[k].id \in DOMAIN invokes
    BY <1>2, <2>1 DEF AskedDue, Known, KnownDown
  <2> QED
    BY <2>1, <2>2 DEF Stays
<1>3. ASSUME NEW j \in DOMAIN ws'[s].up, ws'[s].up[j].kind = "reply"
      PROVE  WaitsThen(ws'[s].up[j].id) /\ FitsThen(ws'[s].up[j].id, s)
  <2>1. PICK k \in DOMAIN ws[s].up : ws'[s].up[j] = ws[s].up[k]
    BY <1>1, <1>3, AsksAre, KeepsKind
  <2>2. PICK i \in DOMAIN invokes : i = ws[s].up[k].id /\ Waits(i) /\ Fits(i, s)
    BY <1>3, <2>1 DEF AnsweredDue, Known, KnownUp
  <2>3. WaitsThen(i) /\ FitsThen(i, s)
    BY <2>2 DEF Fits, FitsThen, Stays, Logs
  <2> QED
    BY <2>1, <2>2, <2>3
<1> QED
  BY <1>2, <1>3 DEF AskedDue, AnsweredDue, Waits, WaitsThen, Fits, FitsThen

LEMMA InvokesDueCarried ==
    ASSUME NEW s \in Socket, AskedDue(s), AnsweredDue(s), Known(s), ws \in Sockets, ws' \in Sockets,
           Keeps(ws'[s].up, ws[s].up, Asks), Keeps(ws'[s].down, ws[s].down, Asks), Logs,
           \A i \in DOMAIN invokes : Waits(i) => Stays(i)
    PROVE  AskedDue(s)' /\ AnsweredDue(s)'
<1>1. Keeps(ws'[s].up, ws[s].up, Replies) /\ Keeps(ws'[s].down, ws[s].down, Requests)
  BY KeepsFewer, AsksAre
<1> QED
  BY <1>1, InvokesDueKept

LEMMA WorkDueCarried ==
    ASSUME NEW p \in Client, WorkDue(p), Fields(p), Logs,
           client'[p].tasks \subseteq client[p].tasks, client'[p].ws \in {client[p].ws, Nobody},
           client[p].ws \in {Nobody} \cup Socket,
           \A i \in DOMAIN invokes : Waits(i) => Stays(i)
    PROVE  WorkDue(p)'
<1>1. SUFFICES ASSUME NEW i \in client'[p].tasks
               PROVE  WaitsThen(i) /\ (client'[p].ws # Nobody => FitsThen(i, client'[p].ws))
  BY DEF WorkDue, Waits, WaitsThen, Fits, FitsThen
<1>2. i \in DOMAIN invokes /\ Waits(i) /\ (client[p].ws # Nobody => Fits(i, client[p].ws))
  BY <1>1 DEF WorkDue, Fields
<1> QED
  BY <1>2 DEF Fits, FitsThen, Stays, Logs

-----------------------------------------------------------------------------
(* Steps after which nothing new is asked, answered or at work. *)

LEMMA NobodyIsNoSocket == Nobody \notin Socket /\ Nobody \notin Client /\ Socket \subseteq Nat
BY SrpcAssumption DEF Nobody, Socket

LEMMA TypesAre ==
    TypeOK <=>
        /\ client \in [Client -> ClientType] /\ ws \in Sockets /\ stream \in [Socket -> StreamType]
        /\ maps \in MapsType /\ calls \in Seq(CallType) /\ invokes \in Seq(InvokeType)
        /\ spent \in 0..MaxEvents
BY DEF TypeOK, ClientType, Sockets, SocketType, NearState, FarState, StreamType, MapsType, CallType, InvokeType

LEMMA InvokesAre ==
    ASSUME TypeOK, NEW i \in DOMAIN invokes
    PROVE  invokes[i] \in InvokeType /\ invokes[i].on \in Socket /\ i \in Nat
<1>1. invokes \in Seq(InvokeType)
  BY TypesAre
<1>2. invokes[i] \in InvokeType /\ i \in Nat
  BY <1>1
<1> QED
  BY <1>2 DEF InvokeType

LEMMA CallsAre ==
    ASSUME TypeOK, NEW i \in DOMAIN calls
    PROVE  calls[i] \in CallType /\ i \in Nat
<1>1. calls \in Seq(CallType)
  BY TypesAre
<1> QED
  BY <1>1

Carries(K) ==
    /\ ws' \in Sockets
    /\ \A t \in Socket :
          /\ ws'[t].owner = ws[t].owner
          /\ ws[t].owner = Nobody => ws'[t] = ws[t]
          /\ ws[t].near = "closed" => ws'[t].near = "closed"
          /\ Keeps(ws'[t].up, ws[t].up, K) /\ Keeps(ws'[t].down, ws[t].down, K)

LEMMA CarriesFewer ==
    ASSUME Carries(Every)
    PROVE  Carries(Asks)
BY KeepsFewer, AsksAre DEF Carries

LEMMA UsedSame ==
    ASSUME Base, \A t \in Socket : ws'[t].owner = ws[t].owner
    PROVE  Numbered'
<1>1. Used' = Used
  BY DEF Used
<1> QED
  BY <1>1 DEF Base, Numbered

\* A step of a client: streams and the invokes of the server stay, but for the fields "threw".
NearStep ==
    /\ TypeOK' /\ ws' \in Sockets
    /\ \A t \in Socket :
          /\ ws'[t].owner = ws[t].owner /\ ws'[t].far = ws[t].far
          /\ ws[t].owner = Nobody => ws'[t] = ws[t]
          /\ ws[t].near = "closed" => ws'[t].near = "closed"
    /\ UNCHANGED <<stream, maps>>
    /\ Logs /\ Len(calls') <= MaxCalls /\ Len(invokes') = Len(invokes)
    /\ \A i \in DOMAIN invokes : invokes'[i].state = invokes[i].state
    /\ \A p \in Client : /\ client'[p].ws \in {client[p].ws, Nobody}
                         /\ Counted(client'[p].retry) /\ Counted(client'[p].interval)

LEMMA NearStepKeeps ==
    ASSUME IInv, NearStep
    PROVE  /\ Numbered' /\ Registered' /\ Len(invokes') <= MaxInvokes
           /\ \A p \in Client : client'[p].tasks \subseteq client[p].tasks => Fields(p)'
           /\ \A s \in Socket : Bare(s)' /\ Alive(s)' /\ KnownCalls(s)'
           /\ \A s \in Socket : Keeps(ws'[s].up, ws[s].up, Asks) => KnownUp(s)' /\ Order(s)'
           /\ \A s \in Socket : Keeps(ws'[s].up, ws[s].up, Requests) => Order(s)'
           /\ \A s \in Socket : Keeps(ws'[s].down, ws[s].down, Asks) => KnownDown(s)' /\ RepliesOnce(s)'
<1>1. ws \in Sockets /\ ws' \in Sockets
  BY TypesAre DEF IInv, Base, NearStep
<1>2. Numbered'
  BY UsedSame DEF IInv, NearStep
<1>3. ASSUME NEW p \in Client, client'[p].tasks \subseteq client[p].tasks
      PROVE  Fields(p)'
  <2>1. Fields(p) /\ client[p] \in ClientType
    BY TypesAre DEF IInv, Base
  <2>2. client'[p].ws # Nobody => ws'[client'[p].ws].owner = p
    <3>1. client[p].ws \in {Nobody} \cup Socket
      BY <2>1 DEF ClientType
    <3>2. client'[p].ws \in {client[p].ws, Nobody}
      BY DEF NearStep
    <3>3. \A t \in Socket : ws'[t].owner = ws[t].owner
      BY DEF NearStep
    <3> QED
      BY <2>1, <3>1, <3>2, <3>3 DEF Fields
  <2>3. \A i \in client'[p].tasks : i \in DOMAIN invokes' /\ ws'[invokes'[i].on].owner = p
    <3>1. SUFFICES ASSUME NEW i \in client[p].tasks
                   PROVE  i \in DOMAIN invokes' /\ ws'[invokes'[i].on].owner = p
      BY <1>3
    <3>2. i \in DOMAIN invokes /\ ws[invokes[i].on].owner = p
      BY <2>1 DEF Fields
    <3>3. invokes[i].on \in Socket
      BY <3>2, InvokesAre DEF IInv, Base
    <3> QED
      BY <3>2, <3>3 DEF NearStep, Logs
  <2> QED
    BY <2>2, <2>3 DEF Fields, NearStep
<1>4. \A s \in Socket : Bare(s)'
  BY DEF IInv, Base, Bare, NearStep
<1>5. \A s \in Socket : KnownCalls(s)'
  BY <1>1, KnownCarried DEF IInv, Base, NearStep
<1>6. \A s \in Socket : Alive(s)'
  BY AliveSame DEF IInv, Served, NearStep
<1>7. \A s \in Socket : /\ Keeps(ws'[s].up, ws[s].up, Asks) => KnownUp(s)' /\ Order(s)'
                        /\ Keeps(ws'[s].up, ws[s].up, Requests) => Order(s)'
  <2>1. \A s \in Socket : Keeps(ws'[s].up, ws[s].up, Asks) => KnownUp(s)'
    BY <1>1, KnownCarried DEF IInv, Base, NearStep
  <2>2. \A s \in Socket : Keeps(ws'[s].up, ws[s].up, Requests) => Order(s)'
    BY <1>1, OrderCarried DEF IInv, Served, NearStep
  <2> QED
    BY <2>1, <2>2, KeepsFewer, AsksAre
<1>8. \A s \in Socket : Keeps(ws'[s].down, ws[s].down, Asks) => KnownDown(s)' /\ RepliesOnce(s)'
  <2>1. \A s \in Socket : Keeps(ws'[s].down, ws[s].down, Asks) => KnownDown(s)'
    BY <1>1, KnownCarried DEF IInv, Base, NearStep
  <2>2. \A s \in Socket : Keeps(ws'[s].down, ws[s].down, Replies) => RepliesOnce(s)'
    BY <1>1, RepliesCarried DEF IInv, Served, NearStep
  <2> QED
    BY <2>1, <2>2, KeepsFewer, AsksAre
<1>9. Registered' /\ Len(invokes') <= MaxInvokes
  BY DEF IInv, Base, Registered, NearStep
<1> QED
  BY <1>2, <1>3, <1>4, <1>5, <1>6, <1>7, <1>8, <1>9

\* One after which nothing new is on its way or at work.
NearQuiet ==
    /\ NearStep /\ Carries(Asks)
    /\ \A p \in Client : client'[p].tasks \subseteq client[p].tasks

LEMMA NearQuietKeeps ==
    ASSUME IInv, NearQuiet
    PROVE  /\ Base' /\ Registered' /\ \A s \in Socket : Served(s)'
           /\ InvokesOnce'
<1>1. ws \in Sockets /\ ws' \in Sockets
  BY TypesAre DEF IInv, Base, NearQuiet, Carries
<1>2. Base'
  <2>1. \A p \in Client : Fields(p)'
    BY NearStepKeeps DEF NearQuiet
  <2>2. \A s \in Socket : Bare(s)' /\ Known(s)'
    BY NearStepKeeps DEF NearQuiet, Carries, Known
  <2> QED
    BY <2>1, <2>2, NearStepKeeps DEF NearQuiet, NearStep, Base
<1>3. Registered'
  BY NearStepKeeps DEF NearQuiet
<1>4. \A s \in Socket : Served(s)'
  BY NearStepKeeps DEF NearQuiet, Carries, Served
<1>5. InvokesOnce'
  BY <1>1, OnceCarried DEF IInv, NearQuiet, Carries, InvokesOnce
<1> QED
  BY <1>2, <1>3, <1>4, <1>5

\* What was due is due, and no queue is bad.
LEMMA NearStepDue ==
    ASSUME IInv, NearStep, Carries(Every), ~Excuse
    PROVE  /\ \A s \in Socket : ~Bad(ws'[s].up) /\ ~Bad(ws'[s].down)
           /\ \A s \in Socket : AskedDue(s)' /\ AnsweredDue(s)'
           /\ \A i \in DOMAIN invokes : Waits(i) => Stays(i)
           /\ \A p \in Client : client'[p].tasks \subseteq client[p].tasks => WorkDue(p)'
<1>1. ws \in Sockets /\ ws' \in Sockets /\ Carries(Asks)
  BY TypesAre, CarriesFewer DEF IInv, Base, NearStep
<1>2. \A s \in Socket : ~Bad(ws'[s].up) /\ ~Bad(ws'[s].down)
  BY <1>1, GoodCarried DEF IInv, Honest, Carries
<1>3. \A i \in DOMAIN invokes : Waits(i) => Stays(i)
  BY DEF NearStep, Logs, Waits, WaitsThen, Stays
<1>4. \A s \in Socket : AskedDue(s)' /\ AnsweredDue(s)'
  BY <1>1, <1>3, InvokesDueCarried DEF IInv, Honest, Base, NearStep, Carries
<1>5. \A p \in Client : client'[p].tasks \subseteq client[p].tasks => WorkDue(p)'
  <2>1. ASSUME NEW p \in Client
        PROVE  client[p].ws \in {Nobody} \cup Socket
    <3>1. client[p] \in ClientType
      BY TypesAre DEF IInv, Base
    <3> QED
      BY <3>1 DEF ClientType
  <2>2. \A p \in Client : WorkDue(p) /\ Fields(p)
    BY DEF IInv, Honest, Base
  <2>3. Logs /\ \A p \in Client : client'[p].ws \in {client[p].ws, Nobody}
    BY DEF NearStep
  <2> QED
    BY <1>3, <2>1, <2>2, <2>3, WorkDueCarried
<1> QED
  BY <1>2, <1>3, <1>4, <1>5

LEMMA NearQuietHonest ==
    ASSUME IInv, NearQuiet,
           ~Excuse => Carries(Every),
           ~Excuse => \A s \in Socket : CallsDue(s)'
    PROVE  Honest'
<1>1. SUFFICES ASSUME ~Excuse'
               PROVE  /\ \A s \in Socket : ~Bad(ws'[s].up) /\ ~Bad(ws'[s].down)
                      /\ \A s \in Socket : CallsDue(s)'
                      /\ \A s \in Socket : AskedDue(s)' /\ AnsweredDue(s)'
                      /\ \A p \in Client : WorkDue(p)'
  BY DEF Honest, Bad
<1>2. ~Excuse
  BY <1>1, ExcuseStays DEF NearQuiet, NearStep
<1> QED
  BY <1>2, NearStepDue DEF NearQuiet

\* Calls stay as they are, of the owners of the sockets that remain in use.
LEMMA NearQuietCalls ==
    ASSUME IInv, NearStep, Carries(Asks), ~Excuse, NEW s \in Socket,
           InUse(s)' => \A i \in DOMAIN calls : calls[i].by = ws[s].owner => calls'[i] = calls[i]
    PROVE  CallsDue(s)'
<1>1. ws \in Sockets /\ ws' \in Sockets
  BY TypesAre DEF IInv, Base, NearStep
<1>2. InUse(s)' => InUse(s)
  <2>1. SUFFICES ASSUME InUse(s)' PROVE InUse(s)
    OBVIOUS
  <2>2. ws[s].owner \in Client
    BY <1>1, <2>1, SocketFields DEF InUse, SocketType, NearStep
  <2> QED
    BY <2>1, <2>2, NobodyIsNoSocket DEF InUse, NearStep
<1>3. CallsDue(s) /\ Known(s) /\ RepliesOnce(s)
  BY DEF IInv, Honest, Base, Served
<1>4. InUse(s)' => \A i \in DOMAIN calls : calls[i].by = ws[s].owner /\ Pending(i) => calls'[i].state = "pending"
  BY DEF Pending
<1>5. Keeps(ws'[s].up, ws[s].up, Requests) /\ Keeps(ws'[s].down, ws[s].down, Replies)
  BY KeepsFewer, AsksAre DEF Carries
<1> QED
  BY <1>1, <1>2, <1>3, <1>4, <1>5, CallsDueCarried DEF NearStep

Timer == [live : Nat, handle : BOOLEAN]

LEMMA TimersAre ==
    ASSUME NEW t \in Timer, Counted(t)
    PROVE  /\ Set(t) \in Timer /\ Counted(Set(t)) /\ Clear(t) \in Timer /\ Counted(Clear(t))
           /\ Single(t) => Clear(t) = NoTimer
           /\ Single(t) /\ ~t.handle => Set(t) = Set(NoTimer)
           /\ Single(NoTimer) /\ Single(Set(NoTimer)) /\ ~NoTimer.handle /\ Set(NoTimer).handle
           /\ NoTimer \in Timer /\ Counted(NoTimer)
           /\ Single(t) => (t.live > 0 <=> t.handle)
<1>1. t.live \in Nat /\ t.handle \in BOOLEAN
  BY DEF Timer
<1>2. NoTimer.live = 0 /\ NoTimer.handle = FALSE /\ Set(NoTimer).live = 1 /\ Set(NoTimer).handle = TRUE
  BY DEF NoTimer, Set
<1>3. Set(t) \in Timer /\ Counted(Set(t)) /\ Clear(t) \in Timer /\ Counted(Clear(t))
  BY <1>1 DEF Timer, Set, Clear, Counted
<1>4. Single(t) => Clear(t) = NoTimer
  <2>1. Single(t) /\ t.handle => t.live = 1
    BY <1>2 DEF Single
  <2>2. Single(t) /\ ~t.handle => t = NoTimer
    BY DEF Single
  <2>3. CASE t.handle
    <3>1. Single(t) => t.live - 1 = 0
      BY <1>1, <2>1, <2>3
    <3>2. Clear(t) = [live |-> t.live - 1, handle |-> FALSE]
      BY <2>3 DEF Clear
    <3>3. t.live - 1 = 0 => Clear(t) = NoTimer
      BY <3>2 DEF NoTimer
    <3> QED
      BY <3>1, <3>3
  <2>4. CASE ~t.handle
    <3>1. Clear(t) = t
      BY <2>4 DEF Clear
    <3> QED
      BY <2>2, <2>4, <3>1
  <2> QED
    BY <2>3, <2>4
<1>5. Single(t) /\ ~t.handle => Set(t) = Set(NoTimer)
  BY <1>1, <1>2 DEF Single, Set, NoTimer
<1>6. Single(NoTimer) /\ Single(Set(NoTimer))
  BY <1>2 DEF Single
<1>7. NoTimer \in Timer /\ Counted(NoTimer)
  BY <1>2 DEF Timer, NoTimer, Counted
<1>8. Single(t) => (t.live > 0 <=> t.handle)
  BY <1>1, <1>2 DEF Single
<1> QED
  BY <1>2, <1>3, <1>4, <1>5, <1>6, <1>7, <1>8

LEMMA ClientsAre ==
    ASSUME Base, NEW p \in Client
    PROVE  /\ client[p] \in ClientType
           /\ client[p].retry \in Timer /\ Counted(client[p].retry)
           /\ client[p].interval \in Timer /\ Counted(client[p].interval)
           /\ client[p].ws \in {Nobody} \cup Socket /\ client[p].tasks \subseteq 1..MaxInvokes
           /\ client[p].ws # Nobody => ws[client[p].ws].owner = p
<1>1. client[p] \in ClientType
  BY TypesAre DEF Base
<1> QED
  BY <1>1 DEF ClientType, Timer, Base, Fields

LEMMA SpentIs ==
    ASSUME Base, Spend \/ UNCHANGED spent
    PROVE  spent' \in 0..MaxEvents
BY SrpcAssumption, TypesAre DEF Base, Spend

LEMMA SilentSpends ==
    ASSUME NEW s, Silent(s)
    PROVE  Spend \/ UNCHANGED spent
BY DEF Silent

LEMMA NearCarries ==
    ASSUME NEW s, NEW K, K \subseteq Every, NearDoes(ws', ws, s, K), s \in Socket => ws[s].owner # Nobody,
           \A t \in Socket : ws[t].near = "closed" => ws'[t].near = "closed"
    PROVE  /\ Carries(K) /\ \A t \in Socket : ws'[t].far = ws[t].far
           /\ \A t \in Socket : ws'[t].timer = ws[t].timer /\ ws'[t].ear = ws[t].ear
<1>1. \A t \in Socket : Keeps(ws'[t].down, ws[t].down, K)
  BY KeepsFewer DEF NearDoes
<1> QED
  BY <1>1 DEF NearDoes, SameEnds, Carries

LEMMA TidyCarried ==
    ASSUME Base, NEW p \in Client, Tidy(p),
           client'[p].overlapped = client[p].overlapped, client'[p].interval = client[p].interval,
           client'[p].retry = client[p].retry, client'[p].connected = client[p].connected,
           client'[p].ws = client[p].ws,
           \A t \in Socket : ws'[t].owner = p <=> ws[t].owner = p,
           \A t \in Socket : ws[t].owner = p =>
              /\ ws'[t].timer = ws[t].timer /\ ws'[t].ear = ws[t].ear
              /\ ws[t].near = "closed" => ws'[t].near = "closed"
    PROVE  Tidy(p)'
<1>1. client[p].ws # Nobody => client[p].ws \in Socket /\ ws[client[p].ws].owner = p
  BY ClientsAre
<1>2. client[p].ws # Nobody => ws'[client[p].ws].ear = ws[client[p].ws].ear
  BY <1>1
<1> QED
  BY <1>2 DEF Tidy

\* Frames move or change, and nothing else.
LEMMA FramesOnly ==
    ASSUME IInv, Carries(Every), UNCHANGED <<client, stream, maps, calls, invokes>>, spent' \in 0..MaxEvents,
           \A t \in Socket : /\ ws'[t].far = ws[t].far
                             /\ ws'[t].timer = ws[t].timer /\ ws'[t].ear = ws[t].ear
    PROVE  IInv'
<1>1. TypeOK'
  BY TypesAre DEF IInv, Base, Carries, TypeOK, Sockets, SocketType, NearState, FarState
<1>2. NearQuiet
  <2>1. Logs
    BY DEF Logs
  <2> QED
    BY <1>1, <2>1, CarriesFewer, ClientsAre DEF NearQuiet, NearStep, Carries, IInv, Base
<1>3. \A p \in Client : Tidy(p)'
  BY TidyCarried DEF IInv, Carries
<1>4. Honest'
  BY <1>2, NearQuietHonest, NearQuietCalls DEF NearQuiet
<1> QED
  BY <1>2, <1>3, <1>4, NearQuietKeeps DEF IInv

-----------------------------------------------------------------------------
(* The client's steps. *)

LEMMA PingFiresKeeps ==
    ASSUME IInv, NEW p \in Client, PingFires(p)
    PROVE  IInv'
<1>1. PICK s : s = client[p].ws
  OBVIOUS
<1>2. s \in Socket /\ ws[s].owner = p /\ ws \in Sockets
  BY <1>1, ClientsAre, TypesAre DEF IInv, Base, PingFires
<1>3. ws' = WriteUp(ws, s, Ping)
  BY <1>1 DEF PingFires
<1>4. Mark(Ping) \notin Every /\ Ping \in Frame
  BY MarksAre, FramesAre, AsksAre
<1>5. NearDoes(ws', ws, s, Every) /\ \A t \in Socket : ws'[t].near = ws[t].near
  BY <1>2, <1>3, <1>4, WriteUpDoes
<1>6. Carries(Every) /\ \A t \in Socket : ws'[t].far = ws[t].far /\ ws'[t].timer = ws[t].timer /\ ws'[t].ear = ws[t].ear
  BY <1>2, <1>5, NearCarries, NobodyIsNoSocket
<1> QED
  BY <1>6, SpentIs, FramesOnly DEF PingFires, IInv

LEMMA PongTimesOutKeeps ==
    ASSUME IInv, NEW p \in Client, PongTimesOut(p)
    PROVE  IInv'
<1>1. PICK s : s = client[p].ws
  OBVIOUS
<1>2. s \in Socket /\ ws[s].owner = p /\ ws \in Sockets
  BY <1>1, ClientsAre, TypesAre DEF IInv, Base, PongTimesOut
<1>3. ws' = CloseNear(ws, s, "timeout") /\ Silent(s) /\ UNCHANGED <<client, stream, maps, calls, invokes>>
  BY <1>1 DEF PongTimesOut
<1>4. Mark(Bye("timeout")) \notin Every /\ "timeout" \in Cause
  BY MarksAre, AsksAre DEF Cause
<1>5. NearDoes(ws', ws, s, Every) /\ \A t \in Socket : ws[t].near = "closed" => ws'[t].near = "closed"
  BY <1>2, <1>3, <1>4, CloseNearDoes
<1>6. Carries(Every) /\ \A t \in Socket : ws'[t].far = ws[t].far /\ ws'[t].timer = ws[t].timer /\ ws'[t].ear = ws[t].ear
  BY <1>2, <1>5, NearCarries, NobodyIsNoSocket
<1>7. spent' \in 0..MaxEvents
  BY <1>3, SilentSpends, SpentIs DEF IInv
<1> QED
  BY <1>3, <1>6, <1>7, FramesOnly

\* A client reads on a socket that is its own, on which nobody has hung up.
LEMMA ReadsOwn ==
    ASSUME IInv, NEW s \in Socket, NEW kind, NearReads(s, kind)
    PROVE  /\ ws \in Sockets /\ ws[s].owner \in Client /\ ws[s].down # <<>> /\ ws[s].near # "closed"
           /\ Head(ws[s].down) \in Frame /\ Head(ws[s].down) = ws[s].down[1] /\ 1 \in DOMAIN ws[s].down
           /\ Head(ws[s].down).kind = kind
<1>1. ws \in Sockets /\ ws[s] \in SocketType /\ ws[s].down \in Seq(Frame)
  BY TypesAre, SocketFields DEF IInv, Base
<1>2. ws[s].down # <<>> /\ ws[s].near # "closed" /\ Head(ws[s].down).kind = kind
  BY DEF NearReads
<1>3. Head(ws[s].down) \in Frame /\ Head(ws[s].down) = ws[s].down[1] /\ 1 \in DOMAIN ws[s].down
  BY <1>1, <1>2
<1>4. ws[s].owner # Nobody
  <2>1. NoSocket.down = <<>>
    BY DEF NoSocket
  <2> QED
    BY <1>2, <2>1 DEF IInv, Base, Bare
<1>5. ws[s].owner \in Client
  BY <1>1, <1>4 DEF SocketType
<1> QED
  BY <1>1, <1>2, <1>3, <1>5

LEMMA IgnoresKeeps ==
    ASSUME IInv, NEW s \in Socket, Ignores(s)
    PROVE  IInv'
<1>1. ws \in Sockets /\ ws[s].owner \in Client /\ ws[s].down # <<>>
  BY ReadsOwn DEF Ignores
<1>2. ws' = PopDown(ws, s) /\ UNCHANGED <<client, stream, maps, calls, invokes, spent>>
  BY DEF Ignores
<1>3. NearDoes(ws', ws, s, Every) /\ \A t \in Socket : ws'[t].near = ws[t].near
  BY <1>1, <1>2, PopDownDoes
<1>4. Carries(Every) /\ \A t \in Socket : ws'[t].far = ws[t].far /\ ws'[t].timer = ws[t].timer /\ ws'[t].ear = ws[t].ear
  BY <1>1, <1>3, NearCarries, NobodyIsNoSocket
<1>5. spent' \in 0..MaxEvents
  BY <1>2, SpentIs DEF IInv
<1> QED
  BY <1>2, <1>4, <1>5, FramesOnly

LEMMA OpensKeeps ==
    ASSUME IInv, NEW s \in Socket, Opens(s)
    PROVE  IInv'
<1>1. ws \in Sockets /\ ws[s].owner \in Client /\ ws[s].down # <<>> /\ ws[s].near # "closed"
  BY ReadsOwn DEF Opens
<1>2. UNCHANGED <<client, stream, maps, calls, invokes, spent>>
  BY DEF Opens
<1>3. PICK w1 : w1 = PopDown(ws, s)
  OBVIOUS
<1>4. NearDoes(w1, ws, s, Every) /\ \A t \in Socket : w1[t].near = ws[t].near
  BY <1>1, <1>3, PopDownDoes
<1>5. w1 \in Sockets /\ w1[s] \in SocketType /\ w1[s].up \in Seq(Frame) /\ "open" \in NearState
  BY <1>4, SocketFields DEF NearDoes, NearState
<1>6. PICK v : v = WithUp(w1[s], "open", w1[s].up)
  OBVIOUS
<1>7. v \in SocketType /\ SameEnds(v, w1[s]) /\ v.near = "open" /\ v.far = w1[s].far /\ v.up = w1[s].up /\ v.down = w1[s].down
  BY <1>5, <1>6, SocketWithUp
<1>8. ws' = [w1 EXCEPT ![s] = v]
  BY <1>3, <1>5, <1>6 DEF Opens, WithUp, Sockets, SocketType
<1>9. \A t \in Socket : ws'[t] = IF t = s THEN v ELSE w1[t]
  BY <1>5, <1>8 DEF Sockets
<1>10. NearDoes(ws', w1, s, Every)
  <2>1. Keeps(v.up, w1[s].up, Every) /\ Keeps(v.down, w1[s].down, Every)
    BY <1>5, <1>7, SocketFields
  <2> QED
    BY <1>5, <1>7, <1>8, <2>1, NearChanges
<1>11. Carries(Every) /\ \A t \in Socket : ws'[t].far = ws[t].far /\ ws'[t].timer = ws[t].timer /\ ws'[t].ear = ws[t].ear
  <2>1. \A r \in Socket : /\ SameEnds(ws'[r], ws[r]) /\ ws'[r].far = ws[r].far
                          /\ Keeps(ws'[r].up, ws[r].up, Every) /\ Keeps(ws'[r].down, ws[r].down, Every)
    BY <1>1, <1>4, <1>10, NearTwice
  <2>2. ws' \in Sockets /\ \A t \in Socket : t # s => ws'[t] = ws[t]
    BY <1>4, <1>10 DEF NearDoes
  <2>3. \A t \in Socket : ws[t].near = "closed" => ws'[t].near = "closed"
    BY <1>1, <2>2
  <2> QED
    BY <1>1, <2>1, <2>2, <2>3, NobodyIsNoSocket DEF Carries, SameEnds
<1>12. spent' \in 0..MaxEvents
  BY <1>2, SpentIs DEF IInv
<1> QED
  BY <1>2, <1>11, <1>12, FramesOnly

\* The fields of client p become c, and perhaps its calls are rejected.
LEMMA OneClient ==
    ASSUME IInv, NEW p \in Client, NEW c \in ClientType, client' = [client EXCEPT ![p] = c],
           c.tasks \subseteq client[p].tasks, c.ws \in {client[p].ws, Nobody}, c.overlapped = client[p].overlapped,
           Counted(c.retry), Counted(c.interval),
           Carries(Every),
           \A t \in Socket : ws'[t].far = ws[t].far /\ (ws[t].owner # p => ws'[t] = ws[t]),
           UNCHANGED <<stream, maps, invokes>>, spent' \in 0..MaxEvents,
           calls' \in Seq(CallType), Len(calls') = Len(calls),
           \A i \in DOMAIN calls :
              /\ calls'[i].by = calls[i].by
              /\ calls[i].by # p \/ c.ws # Nobody => calls'[i] = calls[i]
              /\ calls[i].state = "expired" => calls'[i].state = "expired",
           Tidy(p)'
    PROVE  IInv'
<1>1. client \in [Client -> ClientType]
  BY TypesAre DEF IInv, Base
<1>2. client' \in [Client -> ClientType] /\ client'[p] = c /\ \A q \in Client : q # p => client'[q] = client[q]
  BY <1>1
<1>3. TypeOK'
  <2>1. ws' \in Sockets
    BY DEF Carries
  <2>2. stream \in [Socket -> StreamType] /\ maps \in MapsType /\ invokes \in Seq(InvokeType)
    BY TypesAre DEF IInv, Base
  <2>3. /\ client' \in [Client -> ClientType] /\ ws' \in Sockets /\ stream' \in [Socket -> StreamType]
        /\ maps' \in MapsType /\ calls' \in Seq(CallType) /\ invokes' \in Seq(InvokeType)
        /\ spent' \in 0..MaxEvents
    BY <1>2, <2>1, <2>2
  <2> QED
    BY <2>3 DEF TypeOK, ClientType, Sockets, SocketType, NearState, FarState, StreamType, MapsType, CallType, InvokeType
<1>4. Logs
  <2>1. DOMAIN calls' = DOMAIN calls
    <3>1. calls \in Seq(CallType)
      BY TypesAre DEF IInv, Base
    <3> QED
      BY <3>1
  <2> QED
    BY <1>2, <2>1 DEF Logs
<1>5. NearQuiet
  <2>1. \A q \in Client : /\ client'[q].tasks \subseteq client[q].tasks /\ client'[q].ws \in {client[q].ws, Nobody}
                          /\ Counted(client'[q].retry) /\ Counted(client'[q].interval)
    BY <1>2, ClientsAre DEF IInv
  <2> QED
    BY <1>3, <1>4, <2>1, CarriesFewer DEF NearQuiet, NearStep, Carries, IInv, Base
<1>6. ASSUME NEW q \in Client
      PROVE  Tidy(q)'
  <2>1. CASE q = p
    BY <2>1
  <2>2. CASE q # p
    <3>1. \A t \in Socket : ws[t].owner = q => ws'[t] = ws[t]
      BY <2>2
    <3>2. \A t \in Socket : ws'[t].owner = ws[t].owner
      BY DEF Carries
    <3> QED
      BY <1>2, <2>2, <3>1, <3>2, TidyCarried DEF IInv
  <2> QED
    BY <2>1, <2>2
<1>7. ASSUME ~Excuse, NEW s \in Socket
      PROVE  CallsDue(s)'
  <2>1. InUse(s)' => \A i \in DOMAIN calls : calls[i].by = ws[s].owner => calls'[i] = calls[i]
    <3>1. CASE c.ws # Nobody
      BY <3>1
    <3>2. CASE c.ws = Nobody
      <4>1. ws'[s].owner = ws[s].owner
        BY DEF Carries
      <4>2. InUse(s)' => ws[s].owner # p
        BY <1>2, <3>2, <4>1, NobodyIsNoSocket DEF InUse
      <4> QED
        BY <4>2
    <3> QED
      BY <3>1, <3>2
  <2> QED
    BY <1>5, <1>7, <2>1, NearQuietCalls DEF NearQuiet
<1>8. Honest'
  BY <1>5, <1>7, NearQuietHonest
<1> QED
  BY <1>5, <1>6, <1>8, NearQuietKeeps DEF IInv

LEMMA DisconnectKeeps ==
    ASSUME IInv, NEW p \in Client, Disconnect(p)
    PROVE  IInv'
<1>1. PICK c : c = [client[p] EXCEPT !.enabled = FALSE, !.retry = Clear(client[p].retry), !.interval = Clear(client[p].interval)]
  OBVIOUS
<1>2. /\ client[p] \in ClientType /\ client[p].retry \in Timer /\ client[p].interval \in Timer
      /\ Counted(client[p].retry) /\ Counted(client[p].interval) /\ client[p].ws \in {Nobody} \cup Socket
      /\ client[p].ws # Nobody => ws[client[p].ws].owner = p
  BY ClientsAre DEF IInv
<1>3. Clear(client[p].retry) \in Timer /\ Clear(client[p].interval) \in Timer /\ Counted(Clear(client[p].retry)) /\ Counted(Clear(client[p].interval))
  BY <1>2, TimersAre
<1>4. c \in ClientType
  BY <1>1, <1>2, <1>3 DEF ClientType, Timer
<1>5. /\ c.retry = Clear(client[p].retry) /\ c.interval = Clear(client[p].interval)
      /\ c.ws = client[p].ws /\ c.tasks = client[p].tasks /\ c.overlapped = client[p].overlapped /\ c.connected = client[p].connected
  BY <1>1, <1>2 DEF ClientType
<1>6. client' = [client EXCEPT ![p] = c] /\ client'[p] = c
  BY <1>1, TypesAre DEF Disconnect, IInv, Base
<1>7. ws \in Sockets
  BY TypesAre DEF IInv, Base
<1>8. /\ NearDoes(ws', ws, client[p].ws, Every)
      /\ \A t \in Socket : ws[t].near = "closed" => ws'[t].near = "closed"
  BY <1>2, <1>7, CloseNearDoes, MarksAre, AsksAre DEF Disconnect, Cause
<1>9. /\ Carries(Every) /\ \A t \in Socket : ws'[t].far = ws[t].far
      /\ \A t \in Socket : ws'[t].timer = ws[t].timer /\ ws'[t].ear = ws[t].ear
  BY <1>2, <1>8, NearCarries, NobodyIsNoSocket
<1>10. \A t \in Socket : ws[t].owner # p => ws'[t] = ws[t]
  <2>1. \A t \in Socket : t # client[p].ws => ws'[t] = ws[t]
    BY <1>8 DEF NearDoes
  <2>2. \A t \in Socket : t = client[p].ws => ws[t].owner = p
    BY <1>2, NobodyIsNoSocket
  <2> QED
    BY <2>1, <2>2
<1>11. Tidy(p)'
  <2>1. SUFFICES ASSUME ~c.overlapped
        PROVE  /\ Single(c.interval) /\ Single(c.retry)
               /\ c.interval.handle => c.connected
               /\ c.connected => c.ws # Nobody /\ ws'[c.ws].ear = "all"
               /\ \A s \in Socket : ws'[s].owner = p =>
                     /\ ws'[s].timer => c.ws = s /\ ~c.retry.handle
                     /\ ws'[s].ear = "all" /\ ws'[s].near # "closed" => c.ws = s
    BY <1>6 DEF Tidy
  <2>2. Tidy(p) /\ ~client[p].overlapped
    BY <1>5, <2>1 DEF IInv
  <2>3. c.retry = NoTimer /\ c.interval = NoTimer
    BY <1>2, <1>5, <2>2, TimersAre DEF Tidy
  <2>4. Single(NoTimer) /\ ~NoTimer.handle
    BY <1>2, TimersAre
  <2>5. c.connected => c.ws # Nobody /\ ws'[c.ws].ear = "all"
    BY <1>2, <1>5, <1>9, <2>2 DEF Tidy
  <2>6. \A s \in Socket : ws'[s].owner = ws[s].owner /\ (ws[s].near = "closed" => ws'[s].near = "closed")
    BY <1>9 DEF Carries
  <2> QED
    BY <1>5, <1>9, <2>2, <2>3, <2>4, <2>5, <2>6 DEF Tidy
<1>12. spent' \in 0..MaxEvents
  BY SpentIs DEF Disconnect, IInv
<1>13. calls' = calls /\ UNCHANGED <<stream, maps, invokes>> /\ calls \in Seq(CallType)
  BY TypesAre DEF Disconnect, IInv, Base
<1> QED
  BY <1>3, <1>4, <1>5, <1>6, <1>9, <1>10, <1>11, <1>12, <1>13, OneClient

LEMMA ConnectTimesOutKeeps ==
    ASSUME IInv, NEW s \in Socket, ConnectTimesOut(s)
    PROVE  IInv'
<1>1. ws \in Sockets /\ ws[s].timer /\ ws[s] \in SocketType
  BY TypesAre, SocketFields DEF IInv, Base, ConnectTimesOut
<1>2. PICK p \in Client : ws[s].owner = p
  <2>1. ws[s].owner # Nobody
    BY <1>1 DEF IInv, Base, Bare, NoSocket
  <2> QED
    BY <1>1, <2>1 DEF SocketType
<1>3. PICK r : r = IF client[p].enabled THEN Set(client[p].retry) ELSE client[p].retry
  OBVIOUS
<1>4. PICK c : c = [client[p] EXCEPT !.asking = FALSE, !.retry = r]
  OBVIOUS
<1>5. /\ client[p] \in ClientType /\ client[p].retry \in Timer /\ client[p].interval \in Timer
      /\ Counted(client[p].retry) /\ Counted(client[p].interval) /\ client[p].ws \in {Nobody} \cup Socket
      /\ client[p].ws # Nobody => ws[client[p].ws].owner = p
  BY ClientsAre DEF IInv
<1>6. r \in Timer /\ Counted(r)
  BY <1>3, <1>5, TimersAre
<1>7. c \in ClientType
  BY <1>4, <1>5, <1>6 DEF ClientType, Timer
<1>8. /\ c.retry = r /\ c.interval = client[p].interval
      /\ c.ws = client[p].ws /\ c.tasks = client[p].tasks /\ c.overlapped = client[p].overlapped /\ c.connected = client[p].connected
  BY <1>4, <1>5 DEF ClientType
<1>9. client' = [client EXCEPT ![p] = c] /\ client'[p] = c
  BY <1>2, <1>3, <1>4, TypesAre DEF ConnectTimesOut, IInv, Base
<1>10. PICK w1 : w1 = CloseNear(ws, s, "disconnect")
  OBVIOUS
<1>11. /\ NearDoes(w1, ws, s, Every)
       /\ \A t \in Socket : ws[t].near = "closed" => w1[t].near = "closed"
  BY <1>1, <1>10, CloseNearDoes, MarksAre, AsksAre DEF Cause
<1>12. ws' = [w1 EXCEPT ![s].timer = FALSE] /\ w1 \in Sockets /\ w1[s] \in SocketType
  BY <1>10, <1>11, SocketFields DEF ConnectTimesOut, NearDoes
<1>13. PICK v : v = [w1[s] EXCEPT !.timer = FALSE]
  OBVIOUS
<1>14. v \in SocketType
  BY <1>12, <1>13 DEF SocketType
<1>15. /\ v.owner = w1[s].owner /\ v.near = w1[s].near /\ v.far = w1[s].far /\ v.up = w1[s].up
       /\ v.down = w1[s].down /\ v.timer = FALSE /\ v.ear = w1[s].ear
  BY <1>12, <1>13 DEF SocketType
<1>16. ws' \in Sockets /\ \A t \in Socket : ws'[t] = IF t = s THEN v ELSE w1[t]
  BY <1>12, <1>13, <1>14 DEF Sockets
<1>17. \A t \in Socket : /\ w1[t].owner = ws[t].owner /\ w1[t].far = ws[t].far /\ (t # s => w1[t] = ws[t])
                         /\ Keeps(w1[t].up, ws[t].up, Every) /\ Keeps(w1[t].down, ws[t].down, Every)
                         /\ w1[t].ear = ws[t].ear /\ w1[t].timer = ws[t].timer
  BY <1>11 DEF NearDoes, SameEnds
<1>18. Carries(Every)
  BY <1>2, <1>11, <1>15, <1>16, <1>17, NobodyIsNoSocket DEF Carries
<1>19. \A t \in Socket : /\ ws'[t].owner = ws[t].owner /\ ws'[t].far = ws[t].far /\ (t # s => ws'[t] = ws[t])
                         /\ ws'[t].ear = ws[t].ear /\ (ws'[t].timer => ws[t].timer /\ t # s)
                         /\ (ws[t].near = "closed" => ws'[t].near = "closed")
  BY <1>11, <1>15, <1>16, <1>17
<1>20. Tidy(p)'
  <2>1. SUFFICES ASSUME ~c.overlapped
        PROVE  /\ Single(c.interval) /\ Single(c.retry)
               /\ c.interval.handle => c.connected
               /\ c.connected => c.ws # Nobody /\ ws'[c.ws].ear = "all"
               /\ \A t \in Socket : ws'[t].owner = p =>
                     /\ ws'[t].timer => c.ws = t /\ ~c.retry.handle
                     /\ ws'[t].ear = "all" /\ ws'[t].near # "closed" => c.ws = t
    BY <1>9 DEF Tidy
  <2>2. Tidy(p) /\ ~client[p].overlapped
    BY <1>8, <2>1 DEF IInv
  <2>3. client[p].ws = s /\ ~client[p].retry.handle
    BY <1>1, <1>2, <2>2 DEF Tidy
  <2>4. Single(r)
    BY <1>3, <1>5, <2>2, <2>3, TimersAre DEF Tidy
  <2>5. c.connected => c.ws # Nobody /\ ws'[c.ws].ear = "all"
    BY <1>5, <1>8, <1>19, <2>2 DEF Tidy
  <2>6. \A t \in Socket : ws[t].owner = p => ~ws'[t].timer
    BY <1>19, <2>2, <2>3 DEF Tidy
  <2> QED
    BY <1>8, <1>19, <2>2, <2>4, <2>5, <2>6 DEF Tidy
<1>21. spent' \in 0..MaxEvents
  <2>1. Spend \/ UNCHANGED spent
    BY SilentSpends DEF ConnectTimesOut
  <2> QED
    BY <2>1, SpentIs DEF IInv
<1>22. calls' = calls /\ UNCHANGED <<stream, maps, invokes>> /\ calls \in Seq(CallType)
  BY TypesAre DEF ConnectTimesOut, IInv, Base
<1>23. \A t \in Socket : ws'[t].far = ws[t].far /\ (ws[t].owner # p => ws'[t] = ws[t])
  BY <1>2, <1>19
<1> QED
  BY <1>5, <1>6, <1>7, <1>8, <1>9, <1>18, <1>20, <1>21, <1>22, <1>23, OneClient

LEMMA HandshakeKeeps ==
    ASSUME IInv, NEW s \in Socket, Handshake(s)
    PROVE  IInv'
<1>1. /\ ws \in Sockets /\ ws[s].owner \in Client /\ ws[s].down # <<>> /\ ws[s].near # "closed" /\ ws[s].ear = "first"
  BY ReadsOwn DEF Handshake
<1>2. PICK p \in Client : ws[s].owner = p
  BY <1>1
<1>3. UNCHANGED <<stream, maps, calls, invokes, spent>>
  BY DEF Handshake
<1>4. PICK w1 : w1 = PopDown(ws, s)
  OBVIOUS
<1>5. NearDoes(w1, ws, s, Every) /\ w1 \in Sockets /\ \A t \in Socket : w1[t].near = ws[t].near
  BY <1>1, <1>4, PopDownDoes DEF NearDoes
<1>6. PICK w2 : w2 = IF client[p].ws = s THEN WriteUp(w1, s, Ping) ELSE w1
  OBVIOUS
<1>7. NearDoes(w2, w1, s, Every) /\ w2 \in Sockets /\ \A t \in Socket : w2[t].near = ws[t].near
  <2>1. NearDoes(WriteUp(w1, s, Ping), w1, s, Every) /\ \A t \in Socket : WriteUp(w1, s, Ping)[t].near = ws[t].near
    BY <1>5, WriteUpDoes, MarksAre, FramesAre, AsksAre
  <2>2. NearDoes(w1, w1, s, Every)
    BY <1>5, NearStays
  <2>3. NearDoes(w2, w1, s, Every) /\ \A t \in Socket : w2[t].near = ws[t].near
    BY <1>5, <1>6, <2>1, <2>2
  <2> QED
    BY <2>3 DEF NearDoes
<1>8. \A t \in Socket : /\ w2[t].owner = ws[t].owner /\ w2[t].far = ws[t].far /\ (t # s => w2[t] = ws[t])
                        /\ Keeps(w2[t].up, ws[t].up, Every) /\ Keeps(w2[t].down, ws[t].down, Every)
                        /\ w2[t].ear = ws[t].ear /\ w2[t].timer = ws[t].timer
  <2>1. \A t \in Socket : /\ SameEnds(w2[t], ws[t]) /\ w2[t].far = ws[t].far
                          /\ Keeps(w2[t].up, ws[t].up, Every) /\ Keeps(w2[t].down, ws[t].down, Every)
    BY <1>1, <1>5, <1>7, NearTwice
  <2>2. \A t \in Socket : t # s => w2[t] = ws[t]
    BY <1>5, <1>7 DEF NearDoes
  <2> QED
    BY <2>1, <2>2 DEF SameEnds
<1>9. PICK v : v = IF client[p].ws = s THEN [w2[s] EXCEPT !.timer = FALSE, !.ear = "all"] ELSE [w2[s] EXCEPT !.ear = "deaf"]
  OBVIOUS
<1>10. w2[s] \in SocketType
  BY <1>7, SocketFields
<1>11. v \in SocketType
  BY <1>9, <1>10 DEF SocketType
<1>12. /\ v.owner = w2[s].owner /\ v.near = w2[s].near /\ v.far = w2[s].far /\ v.up = w2[s].up /\ v.down = w2[s].down
       /\ v.timer = (IF client[p].ws = s THEN FALSE ELSE w2[s].timer)
       /\ v.ear = (IF client[p].ws = s THEN "all" ELSE "deaf")
  BY <1>9, <1>10 DEF SocketType
<1>13. ws' \in Sockets /\ \A t \in Socket : ws'[t] = IF t = s THEN v ELSE w2[t]
  <2>1. ws' = [w2 EXCEPT ![s] = v]
    BY <1>2, <1>4, <1>6, <1>7, <1>9 DEF Handshake, Sockets
  <2> QED
    BY <1>7, <1>11, <2>1 DEF Sockets
<1>14. Carries(Every)
  BY <1>1, <1>7, <1>8, <1>12, <1>13, NobodyIsNoSocket DEF Carries
<1>15. \A t \in Socket : /\ ws'[t].owner = ws[t].owner /\ ws'[t].far = ws[t].far /\ (t # s => ws'[t] = ws[t])
                         /\ (ws[t].near = "closed" => ws'[t].near = "closed")
  BY <1>7, <1>8, <1>12, <1>13
<1>16. /\ client[p] \in ClientType /\ client[p].retry \in Timer /\ client[p].interval \in Timer
       /\ Counted(client[p].retry) /\ Counted(client[p].interval) /\ client[p].ws \in {Nobody} \cup Socket
       /\ client[p].ws # Nobody => ws[client[p].ws].owner = p
  BY ClientsAre DEF IInv
<1>17. PICK c : c = IF client[p].ws = s
                    THEN [client[p] EXCEPT !.connected = TRUE, !.asking = FALSE, !.interval = Set(client[p].interval)]
                    ELSE client[p]
  OBVIOUS
<1>18. Set(client[p].interval) \in Timer /\ Counted(Set(client[p].interval))
  BY <1>16, TimersAre
<1>19. c \in ClientType
  BY <1>16, <1>17, <1>18 DEF ClientType, Timer
<1>20. /\ c.retry = client[p].retry /\ c.interval = (IF client[p].ws = s THEN Set(client[p].interval) ELSE client[p].interval)
       /\ c.ws = client[p].ws /\ c.tasks = client[p].tasks /\ c.overlapped = client[p].overlapped
       /\ c.connected = (client[p].connected \/ client[p].ws = s)
  BY <1>16, <1>17 DEF ClientType
<1>21. client' = [client EXCEPT ![p] = c] /\ client'[p] = c
  BY <1>2, <1>17, TypesAre DEF Handshake, IInv, Base
<1>22. Tidy(p)'
  <2>1. SUFFICES ASSUME ~c.overlapped
        PROVE  /\ Single(c.interval) /\ Single(c.retry)
               /\ c.interval.handle => c.connected
               /\ c.connected => c.ws # Nobody /\ ws'[c.ws].ear = "all"
               /\ \A t \in Socket : ws'[t].owner = p =>
                     /\ ws'[t].timer => c.ws = t /\ ~c.retry.handle
                     /\ ws'[t].ear = "all" /\ ws'[t].near # "closed" => c.ws = t
    BY <1>21 DEF Tidy
  <2>2. Tidy(p) /\ ~client[p].overlapped
    BY <1>20, <2>1 DEF IInv
  <2>3. Single(c.retry)
    BY <1>20, <2>2 DEF Tidy
  <2>4. CASE client[p].ws = s
    <3>1. ~client[p].connected
      BY <1>1, <2>2, <2>4 DEF Tidy
    <3>2. Single(client[p].interval) /\ ~client[p].interval.handle
      BY <2>2, <3>1 DEF Tidy
    <3>3. Single(c.interval)
      BY <1>16, <1>20, <2>4, <3>2, TimersAre
    <3>4. ws'[s].ear = "all" /\ ~ws'[s].timer
      BY <1>12, <1>13, <2>4
    <3>5. \A t \in Socket : ws'[t].owner = p =>
                     /\ ws'[t].timer => c.ws = t /\ ~c.retry.handle
                     /\ ws'[t].ear = "all" /\ ws'[t].near # "closed" => c.ws = t
      BY <1>15, <1>20, <2>2, <2>4, <3>4 DEF Tidy
    <3> QED
      BY <1>20, <2>3, <2>4, <3>3, <3>4, <3>5, NobodyIsNoSocket
  <2>5. CASE client[p].ws # s
    <3>1. Single(c.interval) /\ (c.interval.handle => c.connected)
      BY <1>20, <2>2, <2>5 DEF Tidy
    <3>2. c.connected => c.ws # Nobody /\ ws'[c.ws].ear = "all"
      BY <1>15, <1>16, <1>20, <2>2, <2>5 DEF Tidy
    <3>3. ws'[s].ear # "all" /\ ws'[s].timer = ws[s].timer
      BY <1>8, <1>12, <1>13, <2>5
    <3>4. \A t \in Socket : ws'[t].owner = p =>
                     /\ ws'[t].timer => c.ws = t /\ ~c.retry.handle
                     /\ ws'[t].ear = "all" /\ ws'[t].near # "closed" => c.ws = t
      BY <1>15, <1>20, <2>2, <3>3 DEF Tidy
    <3> QED
      BY <2>3, <3>1, <3>2, <3>4
  <2> QED
    BY <2>4, <2>5
<1>23. Counted(c.retry) /\ Counted(c.interval)
  BY <1>16, <1>18, <1>20
<1>24. spent' \in 0..MaxEvents
  BY <1>3, SpentIs DEF IInv
<1>25. calls \in Seq(CallType)
  BY TypesAre DEF IInv, Base
<1>26. \A t \in Socket : ws'[t].far = ws[t].far /\ (ws[t].owner # p => ws'[t] = ws[t])
  BY <1>2, <1>15
<1> QED
  BY <1>3, <1>14, <1>19, <1>20, <1>21, <1>22, <1>23, <1>24, <1>25, <1>26, OneClient

\* An end of a socket in use is gone.
LEMMA NearEndsKeeps ==
    ASSUME IInv, NEW s \in Socket, NEW cause, ws[s].owner # Nobody, NearEnds(s, cause)
    PROVE  IInv'
<1>1. ws \in Sockets /\ ws[s] \in SocketType
  BY TypesAre, SocketFields DEF IInv, Base
<1>2. PICK p \in Client : ws[s].owner = p
  BY <1>1 DEF SocketType
<1>3. UNCHANGED <<stream, maps, invokes, spent>> /\ spent' \in 0..MaxEvents
  BY SpentIs DEF NearEnds, IInv
<1>4. PICK w1 : w1 = EndNear(ws, s)
  OBVIOUS
<1>5. NearDoes(w1, ws, s, Every) /\ w1[s].near = "closed" /\ w1 \in Sockets /\ w1[s] \in SocketType
  BY <1>1, <1>4, EndNearDoes, SocketFields DEF NearDoes
<1>6. \A t \in Socket : /\ w1[t].owner = ws[t].owner /\ w1[t].far = ws[t].far /\ (t # s => w1[t] = ws[t])
                        /\ Keeps(w1[t].up, ws[t].up, Every) /\ Keeps(w1[t].down, ws[t].down, Every)
                        /\ w1[t].ear = ws[t].ear /\ w1[t].timer = ws[t].timer
                        /\ (ws[t].near = "closed" => w1[t].near = "closed")
  BY <1>5 DEF NearDoes, SameEnds
<1>7. CASE client[p].ws # s
  <2>1. ws' = w1 /\ UNCHANGED <<client, calls>>
    BY <1>2, <1>4, <1>7 DEF NearEnds
  <2>2. Carries(Every)
    BY <1>2, <1>5, <1>6, <2>1, NobodyIsNoSocket DEF Carries
  <2> QED
    BY <1>3, <1>6, <2>1, <2>2, FramesOnly
<1>8. CASE client[p].ws = s
  <2>1. ws' = [w1 EXCEPT ![s].timer = FALSE] /\ HandleDisconnect(p, cause = "conflict")
    BY <1>2, <1>4, <1>8 DEF NearEnds
  <2>2. PICK v : v = [w1[s] EXCEPT !.timer = FALSE]
    OBVIOUS
  <2>3. v \in SocketType
    BY <1>5, <2>2 DEF SocketType
  <2>4. /\ v.owner = w1[s].owner /\ v.near = w1[s].near /\ v.far = w1[s].far /\ v.up = w1[s].up
        /\ v.down = w1[s].down /\ v.timer = FALSE /\ v.ear = w1[s].ear
    BY <1>5, <2>2 DEF SocketType
  <2>5. ws' \in Sockets /\ \A t \in Socket : ws'[t] = IF t = s THEN v ELSE w1[t]
    BY <1>5, <2>1, <2>2, <2>3 DEF Sockets
  <2>6. Carries(Every)
    BY <1>2, <1>5, <1>6, <2>4, <2>5, NobodyIsNoSocket DEF Carries
  <2>7. \A t \in Socket : /\ ws'[t].owner = ws[t].owner /\ ws'[t].far = ws[t].far /\ (ws[t].owner # p => ws'[t] = ws[t])
                          /\ ws'[t].ear = ws[t].ear /\ (ws'[t].timer => ws[t].timer /\ t # s)
                          /\ (ws[t].near = "closed" \/ t = s => ws'[t].near = "closed")
    BY <1>2, <1>5, <1>6, <2>4, <2>5
  <2>8. /\ client[p] \in ClientType /\ client[p].retry \in Timer /\ client[p].interval \in Timer
        /\ Counted(client[p].retry) /\ Counted(client[p].interval)
    BY ClientsAre DEF IInv
  <2>9. client \in [Client -> ClientType] /\ calls \in Seq(CallType)
    BY TypesAre DEF IInv, Base
  <2>10. CASE client[p].retry.handle
    <3>1. client' = client /\ calls' = calls
      BY <2>1, <2>10 DEF HandleDisconnect
    <3>2. client' = [client EXCEPT ![p] = client[p]]
      BY <2>9, <3>1
    <3>3. Tidy(p)'
      <4>1. SUFFICES ASSUME ~client[p].overlapped
            PROVE  /\ Single(client[p].interval) /\ Single(client[p].retry)
                   /\ client[p].interval.handle => client[p].connected
                   /\ client[p].connected => client[p].ws # Nobody /\ ws'[client[p].ws].ear = "all"
                   /\ \A t \in Socket : ws'[t].owner = p =>
                         /\ ws'[t].timer => client[p].ws = t /\ ~client[p].retry.handle
                         /\ ws'[t].ear = "all" /\ ws'[t].near # "closed" => client[p].ws = t
        BY <3>1 DEF Tidy
      <4>2. Tidy(p)
        BY DEF IInv
      <4> QED
        BY <1>8, <2>7, <4>1, <4>2 DEF Tidy
    <3> QED
      BY <1>3, <2>6, <2>7, <2>8, <2>9, <3>1, <3>2, <3>3, OneClient
  <2>11. CASE ~client[p].retry.handle
    <3>1. PICK r : r = IF client[p].enabled /\ cause # "conflict" THEN Set(client[p].retry) ELSE client[p].retry
      OBVIOUS
    <3>2. r \in Timer /\ Counted(r) /\ Clear(client[p].interval) \in Timer /\ Counted(Clear(client[p].interval))
      BY <2>8, <3>1, TimersAre
    <3>3. PICK c : c = [client[p] EXCEPT !.ws = Nobody, !.connected = FALSE, !.asking = FALSE,
                           !.interval = Clear(client[p].interval), !.refused = (cause = "conflict"), !.retry = r]
      OBVIOUS
    <3>4. c \in ClientType
      BY <2>8, <3>2, <3>3 DEF ClientType, Timer
    <3>5. /\ c.retry = r /\ c.interval = Clear(client[p].interval) /\ c.ws = Nobody /\ c.connected = FALSE
          /\ c.tasks = client[p].tasks /\ c.overlapped = client[p].overlapped
      BY <2>8, <3>3 DEF ClientType
    <3>6. client' = [client EXCEPT ![p] = c] /\ client'[p] = c
      BY <2>1, <2>9, <2>11, <3>1, <3>3 DEF HandleDisconnect
    <3>7. /\ calls' \in Seq(CallType) /\ Len(calls') = Len(calls)
          /\ \A i \in DOMAIN calls :
                /\ calls'[i].by = calls[i].by
                /\ calls[i].by # p => calls'[i] = calls[i]
                /\ calls[i].state = "expired" => calls'[i].state = "expired"
      <4>1. calls' = [i \in DOMAIN calls |-> IF calls[i].by = p /\ calls[i].state = "pending"
                                             THEN [calls[i] EXCEPT !.state = "rejected"] ELSE calls[i]]
        BY <2>1, <2>11 DEF HandleDisconnect
      <4>2. ASSUME NEW i \in DOMAIN calls
            PROVE  [calls[i] EXCEPT !.state = "rejected"] \in CallType
        <5>1. calls[i] \in CallType
          BY <2>9
        <5> QED
          BY <5>1 DEF CallType
      <4>3. \A i \in DOMAIN calls : calls'[i] \in CallType
        BY <2>9, <4>1, <4>2
      <4>4. calls' \in Seq(CallType) /\ Len(calls') = Len(calls)
        BY <2>9, <4>1, <4>3
      <4>5. \A i \in DOMAIN calls : [calls[i] EXCEPT !.state = "rejected"].by = calls[i].by
        BY <2>9 DEF CallType
      <4> QED
        BY <4>1, <4>4, <4>5
    <3>8. Tidy(p)'
      <4>1. SUFFICES ASSUME ~c.overlapped
            PROVE  /\ Single(c.interval) /\ Single(c.retry)
                   /\ c.interval.handle => c.connected
                   /\ c.connected => c.ws # Nobody /\ ws'[c.ws].ear = "all"
                   /\ \A t \in Socket : ws'[t].owner = p =>
                         /\ ws'[t].timer => c.ws = t /\ ~c.retry.handle
                         /\ ws'[t].ear = "all" /\ ws'[t].near # "closed" => c.ws = t
        BY <3>6 DEF Tidy
      <4>2. Tidy(p) /\ ~client[p].overlapped
        BY <3>5, <4>1 DEF IInv
      <4>3. c.interval = NoTimer /\ Single(c.interval) /\ ~c.interval.handle
        BY <2>8, <3>5, <4>2, TimersAre DEF Tidy
      <4>4. Single(r)
        BY <2>8, <2>11, <3>1, <4>2, TimersAre DEF Tidy
      <4>5. \A t \in Socket : ws'[t].owner = p => ~ws'[t].timer /\ (ws'[t].ear = "all" => ws'[t].near = "closed")
        BY <1>8, <2>7, <4>2 DEF Tidy
      <4> QED
        BY <3>5, <4>3, <4>4, <4>5
    <3> QED
      BY <1>3, <2>6, <2>7, <3>2, <3>4, <3>5, <3>6, <3>7, <3>8, OneClient
  <2> QED
    BY <2>10, <2>11
<1> QED
  BY <1>7, <1>8

LEMMA CloseReadKeeps ==
    ASSUME IInv, NEW s \in Socket, CloseRead(s) \/ NearFails(s) \/ NearNotices(s)
    PROVE  IInv'
<1>1. ws[s].owner # Nobody
  <2>1. NoSocket.down = <<>> /\ NoSocket.near = "unused"
    BY DEF NoSocket
  <2>2. ws[s].owner = Nobody => ws[s].down = <<>> /\ ws[s].near = "unused"
    BY <2>1 DEF IInv, Base, Bare
  <2> QED
    BY <2>2 DEF CloseRead, NearFails, NearNotices, NearReads
<1>2. \E cause : NearEnds(s, cause)
  BY DEF CloseRead, NearFails, NearNotices
<1> QED
  BY <1>1, <1>2, NearEndsKeeps

\* Call i gets another state.
LEMMA CallBecomes ==
    ASSUME TypeOK, NEW i \in DOMAIN calls, NEW x \in {"pending", "answered", "expired", "rejected"},
           calls[i].state = "pending", calls' = [calls EXCEPT ![i].state = x]
    PROVE  /\ calls' \in Seq(CallType) /\ Len(calls') = Len(calls) /\ calls'[i].state = x
           /\ \A k \in DOMAIN calls :
                 /\ k \in DOMAIN calls' /\ calls'[k].by = calls[k].by /\ (k # i => calls'[k] = calls[k])
                 /\ calls[k].state = "expired" => calls'[k].state = "expired"
<1>1. calls \in Seq(CallType) /\ calls[i] \in CallType
  BY TypesAre, CallsAre
<1>2. PICK c : c = [calls[i] EXCEPT !.state = x]
  OBVIOUS
<1>3. c \in CallType
  BY <1>1, <1>2 DEF CallType
<1>4. c.by = calls[i].by /\ c.state = x
  BY <1>1, <1>2 DEF CallType
<1>5. calls' = [calls EXCEPT ![i] = c]
  BY <1>1, <1>2
<1> QED
  BY <1>1, <1>3, <1>4, <1>5

LEMMA CallTimesOutKeeps ==
    ASSUME IInv, NEW i, CallTimesOut(i)
    PROVE  IInv'
<1>1. i \in DOMAIN calls /\ UNCHANGED <<client, ws, stream, maps, invokes, spent>>
  BY DEF CallTimesOut
<1>2. /\ calls' \in Seq(CallType) /\ Len(calls') = Len(calls) /\ calls'[i].state = "expired"
      /\ \A k \in DOMAIN calls :
            /\ k \in DOMAIN calls' /\ calls'[k].by = calls[k].by
            /\ calls[k].state = "expired" => calls'[k].state = "expired"
  BY <1>1, CallBecomes DEF CallTimesOut, IInv, Base
<1>3. Excuse'
  BY <1>1, <1>2 DEF Excuse
<1>4. TypeOK'
  <2>1. TypeOK /\ calls' \in Seq([by : Client, state : {"pending", "answered", "expired", "rejected"}])
    BY <1>2 DEF IInv, Base, CallType
  <2> QED
    BY <1>1, <2>1 DEF TypeOK
<1>5. Logs
  BY <1>1, <1>2 DEF Logs
<1>6. ws \in Sockets /\ ws' = ws
  BY <1>1, TypesAre DEF IInv, Base
<1>7. Carries(Asks)
  BY <1>6, SocketFields DEF Carries
<1>8. NearQuiet
  BY <1>1, <1>2, <1>4, <1>5, <1>6, <1>7, ClientsAre DEF NearQuiet, NearStep, IInv, Base
<1>9. \A p \in Client : Tidy(p)'
  BY <1>1, TidyCarried DEF IInv
<1> QED
  BY <1>3, <1>8, <1>9, NearQuietKeeps DEF IInv, Honest

\* The tasks of client p become T.
LEMMA TasksBecome ==
    ASSUME Base, NEW p \in Client, NEW T \in SUBSET (1..MaxInvokes), client' = [client EXCEPT ![p].tasks = T]
    PROVE  /\ client' \in [Client -> ClientType] /\ client'[p].tasks = T
           /\ \A q \in Client :
                 /\ client'[q].ws = client[q].ws /\ client'[q].connected = client[q].connected
                 /\ client'[q].retry = client[q].retry /\ client'[q].interval = client[q].interval
                 /\ client'[q].overlapped = client[q].overlapped /\ (q # p => client'[q] = client[q])
                 /\ Counted(client'[q].retry) /\ Counted(client'[q].interval)
<1>1. client \in [Client -> ClientType] /\ client[p] \in ClientType
  BY TypesAre DEF Base
<1>2. PICK c : c = [client[p] EXCEPT !.tasks = T]
  OBVIOUS
<1>3. c \in ClientType
  BY <1>1, <1>2 DEF ClientType
<1>4. /\ c.ws = client[p].ws /\ c.connected = client[p].connected /\ c.retry = client[p].retry
      /\ c.interval = client[p].interval /\ c.overlapped = client[p].overlapped /\ c.tasks = T
  BY <1>1, <1>2 DEF ClientType
<1>5. client' = [client EXCEPT ![p] = c]
  BY <1>1, <1>2
<1> QED
  BY <1>1, <1>3, <1>4, <1>5, ClientsAre

LEMMA TaskThrowsKeeps ==
    ASSUME IInv, NEW p \in Client, NEW i, TaskThrows(p, i)
    PROVE  IInv'
<1>1. UNCHANGED <<ws, stream, maps, calls, spent>> /\ i \in client[p].tasks /\ i \in DOMAIN invokes
  BY DEF TaskThrows, IInv, Base, Fields
<1>2. PICK T \in SUBSET (1..MaxInvokes) : T = client[p].tasks \ {i}
  BY ClientsAre DEF IInv
<1>3. client' = [client EXCEPT ![p].tasks = T]
  BY <1>2 DEF TaskThrows
<1>4. /\ client' \in [Client -> ClientType]
      /\ \A q \in Client :
            /\ client'[q].ws = client[q].ws /\ client'[q].connected = client[q].connected
            /\ client'[q].retry = client[q].retry /\ client'[q].interval = client[q].interval
            /\ client'[q].overlapped = client[q].overlapped /\ client'[q].tasks \subseteq client[q].tasks
            /\ Counted(client'[q].retry) /\ Counted(client'[q].interval)
  <2>1. client'[p].tasks \subseteq client[p].tasks
    BY <1>2, <1>3, TasksBecome DEF IInv
  <2>2. \A q \in Client : q # p => client'[q].tasks = client[q].tasks
    BY <1>3, TasksBecome DEF IInv
  <2> QED
    BY <1>3, <2>1, <2>2, TasksBecome DEF IInv
<1>5. /\ invokes' \in Seq(InvokeType) /\ Len(invokes') = Len(invokes)
      /\ \A k \in DOMAIN invokes : /\ k \in DOMAIN invokes' /\ invokes'[k].on = invokes[k].on
                                   /\ invokes'[k].state = invokes[k].state
  <2>1. invokes \in Seq(InvokeType) /\ invokes[i] \in InvokeType
    BY <1>1, TypesAre, InvokesAre DEF IInv, Base
  <2>2. PICK v : v = [invokes[i] EXCEPT !.threw = TRUE]
    OBVIOUS
  <2>3. v \in InvokeType
    BY <2>1, <2>2 DEF InvokeType
  <2>4. v.on = invokes[i].on /\ v.state = invokes[i].state
    BY <2>1, <2>2 DEF InvokeType
  <2>5. invokes' = [invokes EXCEPT ![i] = v]
    BY <2>1, <2>2 DEF TaskThrows
  <2> QED
    BY <1>1, <2>1, <2>3, <2>4, <2>5
<1>6. TypeOK'
  <2>1. /\ ws \in Sockets /\ stream \in [Socket -> StreamType] /\ maps \in MapsType
        /\ calls \in Seq(CallType) /\ spent \in 0..MaxEvents
    BY TypesAre DEF IInv, Base
  <2>2. /\ client' \in [Client -> ClientType] /\ ws' \in Sockets /\ stream' \in [Socket -> StreamType]
        /\ maps' \in MapsType /\ calls' \in Seq(CallType) /\ invokes' \in Seq(InvokeType)
        /\ spent' \in 0..MaxEvents
    BY <1>1, <1>4, <1>5, <2>1
  <2> QED
    BY <2>2 DEF TypeOK, ClientType, Sockets, SocketType, NearState, FarState, StreamType, MapsType, CallType, InvokeType
<1>7. Logs
  BY <1>1, <1>4, <1>5 DEF Logs
<1>8. ws \in Sockets /\ ws' = ws
  BY <1>1, TypesAre DEF IInv, Base
<1>9. Carries(Every)
  BY <1>8, SocketFields DEF Carries
<1>10. NearQuiet
  BY <1>1, <1>4, <1>5, <1>6, <1>7, <1>8, <1>9, CarriesFewer DEF NearQuiet, NearStep, IInv, Base
<1>11. \A q \in Client : Tidy(q)'
  BY <1>1, <1>4, TidyCarried DEF IInv
<1>12. Honest'
  BY <1>1, <1>9, <1>10, NearQuietHonest, NearQuietCalls DEF NearQuiet
<1> QED
  BY <1>10, <1>11, <1>12, NearQuietKeeps DEF IInv

LEMMA TypesThen ==
    ASSUME client' \in [Client -> ClientType], ws' \in Sockets, stream' \in [Socket -> StreamType],
           maps' \in MapsType, calls' \in Seq(CallType), invokes' \in Seq(InvokeType), spent' \in 0..MaxEvents
    PROVE  TypeOK'
BY DEF TypeOK, ClientType, Sockets, SocketType, NearState, FarState, StreamType, MapsType, CallType, InvokeType

LEMMA ReplyReadKeeps ==
    ASSUME IInv, NEW s \in Socket, ReplyRead(s)
    PROVE  IInv'
<1>1. /\ ws \in Sockets /\ ws[s].owner \in Client /\ ws[s].down # <<>> /\ ws[s].near # "closed" /\ ws[s].ear = "all"
      /\ Head(ws[s].down) = ws[s].down[1] /\ 1 \in DOMAIN ws[s].down /\ ws[s].down[1].kind = "reply"
  BY ReadsOwn DEF ReplyRead
<1>2. PICK p \in Client : ws[s].owner = p
  BY <1>1
<1>3. UNCHANGED <<client, stream, maps, invokes, spent>>
  BY DEF ReplyRead
<1>4. PICK i : i = ws[s].down[1].id
  OBVIOUS
<1>5. i \in DOMAIN calls /\ calls[i] \in CallType /\ calls[i].by = p
  <2>1. PICK k \in DOMAIN stream[s].started : stream[s].started[k] = i
    BY <1>1, <1>4 DEF IInv, Served, RepliesOnce
  <2>2. i \in DOMAIN calls /\ calls[i].by = p
    BY <1>2, <2>1 DEF IInv, Base, Known, KnownCalls
  <2> QED
    BY <2>2, CallsAre DEF IInv, Base
<1>6. PICK w1 : w1 = PopDown(ws, s)
  OBVIOUS
<1>7. /\ NearDoes(w1, ws, s, Every) /\ w1 \in Sockets /\ \A t \in Socket : w1[t].near = ws[t].near /\ w1[t].up = ws[t].up
      /\ w1[s].down = Tail(ws[s].down)
  BY <1>1, <1>6, PopDownDoes DEF NearDoes
<1>8. PICK r : r = client[p].ws
  OBVIOUS
<1>9. r \in {Nobody} \cup Socket /\ (r # Nobody => ws[r].owner = p)
  BY <1>8, ClientsAre DEF IInv
<1>10. ~Excuse => client[p].ws = s /\ InUse(s) /\ calls[i].state = "pending"
  <2>1. SUFFICES ASSUME ~Excuse PROVE client[p].ws = s /\ InUse(s) /\ calls[i].state = "pending"
    OBVIOUS
  <2>2. Tidy(p) /\ ~client[p].overlapped
    BY <2>1 DEF Excuse, IInv
  <2>3. client[p].ws = s /\ InUse(s)
    BY <1>1, <1>2, <2>2, NobodyIsNoSocket DEF Tidy, InUse
  <2>4. CallsDue(s)
    BY <2>1 DEF IInv, Honest
  <2> QED
    BY <1>1, <1>4, <2>3, <2>4 DEF CallsDue, Pending
<1>11. CASE calls[i].state = "pending"
  <2>1. calls' = [calls EXCEPT ![i].state = "answered"] /\ ws' = w1
    BY <1>1, <1>4, <1>6, <1>11 DEF ReplyRead
  <2>2. /\ calls' \in Seq(CallType) /\ Len(calls') = Len(calls) /\ calls'[i].state = "answered"
        /\ \A k \in DOMAIN calls :
              /\ k \in DOMAIN calls' /\ calls'[k].by = calls[k].by /\ (k # i => calls'[k] = calls[k])
              /\ calls[k].state = "expired" => calls'[k].state = "expired"
    BY <1>5, <1>11, <2>1, CallBecomes DEF IInv, Base
  <2>3. Carries(Every) /\ \A t \in Socket : ws'[t].far = ws[t].far /\ ws'[t].timer = ws[t].timer /\ ws'[t].ear = ws[t].ear
    BY <1>1, <1>7, <2>1, NearCarries, NobodyIsNoSocket, AsksAre
  <2>4. TypeOK'
    <3>1. /\ client \in [Client -> ClientType] /\ stream \in [Socket -> StreamType] /\ maps \in MapsType
          /\ invokes \in Seq(InvokeType) /\ spent \in 0..MaxEvents
      BY TypesAre DEF IInv, Base
    <3> QED
      BY <1>3, <1>7, <2>1, <2>2, <3>1, TypesThen
  <2>5. NearQuiet
    <3>1. Logs
      BY <1>3, <2>2 DEF Logs
    <3> QED
      BY <1>3, <1>7, <2>1, <2>2, <2>3, <2>4, <3>1, CarriesFewer, ClientsAre DEF NearQuiet, NearStep, Carries, IInv, Base
  <2>6. \A q \in Client : Tidy(q)'
    BY <1>3, <2>3, TidyCarried DEF IInv, Carries
  <2>7. ASSUME ~Excuse, NEW t \in Socket, t # s
        PROVE  CallsDue(t)'
    <3>1. InUse(t)' => ws[t].owner # p
      BY <1>3, <1>10, <2>3, <2>7 DEF InUse, Carries
    <3>2. InUse(t)' => \A k \in DOMAIN calls : calls[k].by = ws[t].owner => calls'[k] = calls[k]
      BY <1>5, <2>2, <3>1
    <3> QED
      BY <2>5, <2>7, <3>2, NearQuietCalls DEF NearQuiet
  <2>8. ASSUME ~Excuse
        PROVE  CallsDue(s)'
    <3>1. CallsDue(s) /\ InUse(s) /\ Order(s) /\ RepliesOnce(s) /\ Known(s)
      BY <1>10, <2>8 DEF IInv, Honest, Served, Base
    <3>2. PICK k \in DOMAIN stream[s].started : stream[s].started[k] = i
      BY <1>1, <1>4, <3>1 DEF RepliesOnce
    <3>3. \A j \in DOMAIN ws'[s].up : ws'[s].up[j].kind = "request" => calls'[ws'[s].up[j].id].state = "pending"
      <4>1. SUFFICES ASSUME NEW j \in DOMAIN ws[s].up, ws[s].up[j].kind = "request"
                     PROVE  calls'[ws[s].up[j].id].state = "pending"
        BY <1>7, <2>1
      <4>2. i < ws[s].up[j].id
        BY <3>1, <3>2, <4>1 DEF Order
      <4>3. ws[s].up[j].id \in DOMAIN calls /\ calls[ws[s].up[j].id].state = "pending"
        BY <3>1, <4>1 DEF Known, KnownUp, CallsDue, Pending
      <4>4. i \in Nat
        BY <1>5, CallsAre DEF IInv, Base
      <4>5. ws[s].up[j].id # i
        BY <4>2, <4>4
      <4> QED
        BY <2>2, <4>3, <4>5
    <3>4. \A j \in DOMAIN stream[s].held : calls'[stream[s].held[j]].state = "pending"
      <4>1. SUFFICES ASSUME NEW j \in DOMAIN stream[s].held
                     PROVE  calls'[stream[s].held[j]].state = "pending"
        OBVIOUS
      <4>2. i < stream[s].held[j]
        BY <3>1, <3>2 DEF Order
      <4>3. stream[s].held[j] \in DOMAIN calls /\ calls[stream[s].held[j]].state = "pending"
        BY <3>1, <4>1 DEF Known, KnownCalls, CallsDue, Pending
      <4>4. i \in Nat
        BY <1>5, CallsAre DEF IInv, Base
      <4>5. stream[s].held[j] # i
        BY <4>2, <4>4
      <4> QED
        BY <2>2, <4>3, <4>5
    <3>5. \A k1 \in stream[s].works : calls'[k1].state = "pending"
      <4>1. i \notin stream[s].works
        BY <1>1, <1>4, <3>1 DEF RepliesOnce
      <4>2. \A k1 \in stream[s].works : k1 \in DOMAIN calls /\ calls[k1].state = "pending"
        BY <3>1 DEF Known, KnownCalls, CallsDue, Pending
      <4> QED
        BY <2>2, <4>1, <4>2
    <3>6. \A j \in DOMAIN ws'[s].down : ws'[s].down[j].kind = "reply" => calls'[ws'[s].down[j].id].state = "pending"
      <4>1. SUFFICES ASSUME NEW j \in DOMAIN Tail(ws[s].down), Tail(ws[s].down)[j].kind = "reply"
                     PROVE  calls'[Tail(ws[s].down)[j].id].state = "pending"
        BY <1>7, <2>1
      <4>2. ws[s].down \in Seq(Frame)
        BY <1>1, SocketFields
      <4>3. PICK k1 \in DOMAIN ws[s].down : k1 # 1 /\ Tail(ws[s].down)[j] = ws[s].down[k1]
        <5>1. j + 1 \in DOMAIN ws[s].down /\ j + 1 # 1 /\ Tail(ws[s].down)[j] = ws[s].down[j + 1]
          BY <1>1, <4>1, <4>2
        <5> QED
          BY <5>1
      <4>4. ws[s].down[k1].id # i
        BY <1>1, <1>4, <3>1, <4>1, <4>3 DEF RepliesOnce
      <4>5. PICK k2 \in DOMAIN stream[s].started : stream[s].started[k2] = ws[s].down[k1].id
        BY <3>1, <4>1, <4>3 DEF RepliesOnce
      <4>6. ws[s].down[k1].id \in DOMAIN calls /\ calls[ws[s].down[k1].id].state = "pending"
        BY <3>1, <4>1, <4>3, <4>5 DEF Known, KnownCalls, CallsDue, Pending
      <4> QED
        BY <2>2, <4>3, <4>4, <4>6
    <3> QED
      BY <1>3, <3>3, <3>4, <3>5, <3>6 DEF CallsDue, Pending
  <2>9. Honest'
    BY <2>3, <2>5, <2>7, <2>8, NearQuietHonest
  <2> QED
    BY <2>5, <2>6, <2>9, NearQuietKeeps DEF IInv
<1>12. CASE calls[i].state # "pending"
  <2>1. calls' = calls /\ ws' = CloseNear(w1, r, "badArg")
    BY <1>1, <1>2, <1>4, <1>6, <1>8, <1>12 DEF ReplyRead
  <2>2. Excuse
    BY <1>10, <1>12
  <2>3. /\ NearDoes(ws', w1, r, Asks) /\ ws' \in Sockets
        /\ \A t \in Socket : ws[t].near = "closed" => ws'[t].near = "closed"
    <3>1. "badArg" \in Cause /\ Mark(Bye("badArg")) \notin Asks
      BY MarksAre, AsksAre DEF Cause
    <3>2. \A t \in Socket : w1[t].near = ws[t].near
      BY <1>7
    <3>3. NearDoes(ws', w1, r, Asks) /\ \A t \in Socket : w1[t].near = "closed" => ws'[t].near = "closed"
      BY <1>7, <1>9, <2>1, <3>1, CloseNearDoes
    <3> QED
      BY <3>2, <3>3 DEF NearDoes
  <2>4. NearDoes(w1, ws, s, Asks)
    BY <1>1, <1>6, PopDownDoes
  <2>5. \A t \in Socket : /\ SameEnds(ws'[t], ws[t]) /\ ws'[t].far = ws[t].far
                          /\ Keeps(ws'[t].up, ws[t].up, Asks) /\ Keeps(ws'[t].down, ws[t].down, Asks)
                          /\ ws[t].owner # p => ws'[t] = ws[t]
    <3>1. \A t \in Socket : /\ SameEnds(ws'[t], ws[t]) /\ ws'[t].far = ws[t].far
                            /\ Keeps(ws'[t].up, ws[t].up, Asks) /\ Keeps(ws'[t].down, ws[t].down, Every)
      BY <1>1, <2>3, <2>4, NearTwice
    <3>2. \A t \in Socket : t # s /\ t # r => ws'[t] = ws[t]
      BY <2>3, <2>4 DEF NearDoes
    <3>3. \A t \in Socket : Keeps(ws'[t].down, ws[t].down, Asks)
      BY <3>1, KeepsFewer, AsksAre
    <3>4. \A t \in Socket : ws[t].owner # p => t # s /\ t # r
      BY <1>2, <1>9, NobodyIsNoSocket
    <3> QED
      BY <3>1, <3>2, <3>3, <3>4
  <2>6. Carries(Asks)
    BY <2>3, <2>5, NobodyIsNoSocket DEF Carries, SameEnds
  <2>7. TypeOK'
    <3>1. /\ client \in [Client -> ClientType] /\ stream \in [Socket -> StreamType] /\ maps \in MapsType
          /\ calls \in Seq(CallType) /\ invokes \in Seq(InvokeType) /\ spent \in 0..MaxEvents
      BY TypesAre DEF IInv, Base
    <3> QED
      BY <1>3, <2>1, <2>3, <3>1, TypesThen
  <2>8. NearQuiet
    <3>1. Logs
      BY <1>3, <2>1 DEF Logs
    <3> QED
      BY <1>3, <2>1, <2>3, <2>5, <2>6, <2>7, <3>1, ClientsAre DEF NearQuiet, NearStep, Carries, IInv, Base
  <2>9. \A q \in Client : Tidy(q)'
    BY <1>3, <2>3, <2>5, TidyCarried DEF IInv, SameEnds
  <2>10. Honest'
    BY <2>2, <2>8, ExcuseStays DEF NearQuiet, NearStep, Honest
  <2> QED
    BY <2>8, <2>9, <2>10, NearQuietKeeps DEF IInv
<1> QED
  BY <1>11, <1>12

LEMMA RequestReadKeeps ==
    ASSUME IInv, NEW s \in Socket, RequestRead(s)
    PROVE  IInv'
<1>1. /\ ws \in Sockets /\ ws[s].owner \in Client /\ ws[s].down # <<>> /\ ws[s].near # "closed" /\ ws[s].ear = "all"
      /\ Head(ws[s].down) = ws[s].down[1] /\ 1 \in DOMAIN ws[s].down /\ ws[s].down[1].kind = "request"
  BY ReadsOwn DEF RequestRead
<1>2. PICK p \in Client : ws[s].owner = p
  BY <1>1
<1>3. UNCHANGED <<stream, maps, calls, invokes, spent>> /\ ws' = PopDown(ws, s)
  BY DEF RequestRead
<1>4. PICK i : i = ws[s].down[1].id
  OBVIOUS
<1>5. i \in DOMAIN invokes /\ invokes[i].on = s
  BY <1>1, <1>4 DEF IInv, Base, Known, KnownDown
<1>6. PICK T \in SUBSET (1..MaxInvokes) : T = client[p].tasks \cup {i}
  <2>1. i \in 1..MaxInvokes
    BY <1>5, TypesAre, SrpcAssumption DEF IInv, Base
  <2> QED
    BY <2>1, ClientsAre DEF IInv
<1>7. client' = [client EXCEPT ![p].tasks = T]
  BY <1>1, <1>2, <1>4, <1>6 DEF RequestRead
<1>8. /\ client' \in [Client -> ClientType] /\ client'[p].tasks = client[p].tasks \cup {i}
      /\ \A q \in Client :
            /\ client'[q].ws = client[q].ws /\ client'[q].connected = client[q].connected
            /\ client'[q].retry = client[q].retry /\ client'[q].interval = client[q].interval
            /\ client'[q].overlapped = client[q].overlapped /\ (q # p => client'[q] = client[q])
            /\ Counted(client'[q].retry) /\ Counted(client'[q].interval)
  BY <1>6, <1>7, TasksBecome DEF IInv
<1>9. /\ NearDoes(ws', ws, s, Every) /\ \A t \in Socket : ws'[t].near = ws[t].near /\ ws'[t].up = ws[t].up
      /\ ws'[s].down = Tail(ws[s].down) /\ ws' \in Sockets
  BY <1>1, <1>3, PopDownDoes DEF NearDoes
<1>10. Carries(Every) /\ \A t \in Socket : ws'[t].far = ws[t].far /\ ws'[t].timer = ws[t].timer /\ ws'[t].ear = ws[t].ear
  BY <1>1, <1>9, NearCarries, NobodyIsNoSocket, AsksAre
<1>11. TypeOK'
  <2>1. /\ stream \in [Socket -> StreamType] /\ maps \in MapsType /\ calls \in Seq(CallType)
        /\ invokes \in Seq(InvokeType) /\ spent \in 0..MaxEvents
    BY TypesAre DEF IInv, Base
  <2> QED
    BY <1>3, <1>8, <1>9, <2>1, TypesThen
<1>12. NearStep /\ Carries(Asks)
  <2>1. Logs
    BY <1>3, <1>8 DEF Logs
  <2> QED
    BY <1>3, <1>8, <1>10, <1>11, <2>1, CarriesFewer DEF NearStep, Carries, IInv, Base
<1>13. Base'
  <2>1. \A q \in Client : q # p => Fields(q)'
    BY <1>8, <1>12, NearStepKeeps
  <2>2. Fields(p)'
    <3>1. Fields(p) /\ (client[p].ws # Nobody => client[p].ws \in Socket)
      BY ClientsAre DEF IInv, Base
    <3>2. \A k \in client'[p].tasks : k \in DOMAIN invokes' /\ ws'[invokes'[k].on].owner = p
      <4>1. SUFFICES ASSUME NEW k \in client[p].tasks \cup {i}
                     PROVE  k \in DOMAIN invokes /\ ws'[invokes[k].on].owner = p
        BY <1>3, <1>8
      <4>2. k \in DOMAIN invokes /\ ws[invokes[k].on].owner = p
        BY <1>2, <1>5, <3>1, <4>1 DEF Fields
      <4>3. invokes[k].on \in Socket
        BY <4>2, InvokesAre DEF IInv, Base
      <4> QED
        BY <1>10, <4>2, <4>3 DEF Carries
    <3> QED
      BY <1>8, <1>10, <3>1, <3>2 DEF Fields, Carries
  <2>3. \A t \in Socket : Bare(t)' /\ Known(t)'
    BY <1>12, NearStepKeeps DEF Carries, Known
  <2>4. \A q \in Client : Fields(q)'
    BY <2>1, <2>2
  <2> QED
    BY <1>11, <1>12, <2>3, <2>4, NearStepKeeps DEF Base, NearStep
<1>14. Registered' /\ \A t \in Socket : Served(t)'
  BY <1>12, NearStepKeeps DEF Carries, Served
<1>15. \A q \in Client : Tidy(q)'
  BY <1>8, <1>10, TidyCarried DEF IInv, Carries
<1>16. InvokesOnce'
  <2>1. AnswersOnce' /\ AskedOnce' /\ AskedOrAnswered'
    BY <1>1, <1>12, OnceCarried DEF IInv, Carries
  <2>2. AtWork'
    <3>1. SUFFICES ASSUME NEW q \in Client, NEW k \in client'[q].tasks, NEW t \in Socket
                   PROVE  /\ \A j \in DOMAIN ws'[t].down : ws'[t].down[j].kind = "request" => ws'[t].down[j].id # k
                          /\ \A j \in DOMAIN ws'[t].up : ws'[t].up[j].kind = "reply" => ws'[t].up[j].id # k
      BY DEF AtWork
    <3>2. ws[s].down \in Seq(Frame)
      BY <1>1, SocketFields
    <3>3. \A j \in DOMAIN Tail(ws[s].down) : j + 1 \in DOMAIN ws[s].down /\ j + 1 # 1 /\ Tail(ws[s].down)[j] = ws[s].down[j + 1]
      BY <1>1, <3>2
    <3>4. \A j \in DOMAIN ws'[t].down : \E m \in DOMAIN ws[t].down :
             ws'[t].down[j] = ws[t].down[m] /\ (t = s => m # 1)
      <4>1. CASE t = s
        BY <1>9, <3>3, <4>1
      <4>2. CASE t # s
        BY <1>9, <4>2 DEF NearDoes
      <4> QED
        BY <4>1, <4>2
    <3>5. CASE k \in client[q].tasks
      BY <1>9, <3>4, <3>5 DEF IInv, InvokesOnce, AtWork
    <3>6. CASE k \notin client[q].tasks
      <4>1. k = i
        BY <1>8, <3>1, <3>6
      <4>2. ASSUME NEW j \in DOMAIN ws'[t].down, ws'[t].down[j].kind = "request", ws'[t].down[j].id = i
            PROVE  FALSE
        <5>1. PICK m \in DOMAIN ws[t].down : ws'[t].down[j] = ws[t].down[m] /\ (t = s => m # 1)
          BY <3>4, <4>2
        <5>2. t = s
          BY <1>5, <4>2, <5>1 DEF IInv, Base, Known, KnownDown
        <5> QED
          BY <1>1, <1>4, <4>2, <5>1, <5>2 DEF IInv, InvokesOnce, AskedOnce
      <4>3. \A j \in DOMAIN ws[t].up : ws[t].up[j].kind = "reply" => ws[t].up[j].id # i
        BY <1>1, <1>4 DEF IInv, InvokesOnce, AskedOrAnswered
      <4> QED
        BY <1>9, <4>1, <4>2, <4>3
    <3> QED
      BY <3>5, <3>6
  <2> QED
    BY <2>1, <2>2 DEF InvokesOnce
<1>17. Honest'
  <2>1. SUFFICES ASSUME ~Excuse'
                 PROVE  /\ \A t \in Socket : ~Bad(ws'[t].up) /\ ~Bad(ws'[t].down)
                        /\ \A t \in Socket : CallsDue(t)'
                        /\ \A t \in Socket : AskedDue(t)' /\ AnsweredDue(t)'
                        /\ \A q \in Client : WorkDue(q)'
    BY DEF Honest, Bad
  <2>2. ~Excuse
    BY <1>12, <2>1, ExcuseStays DEF NearStep
  <2>3. \A t \in Socket : CallsDue(t)'
    BY <1>3, <1>12, <2>2, NearQuietCalls
  <2>4. client[p].ws = s
    <3>1. Tidy(p) /\ ~client[p].overlapped
      BY <2>2 DEF Excuse, IInv
    <3> QED
      BY <1>1, <1>2, <3>1 DEF Tidy
  <2>5. WorkDue(p)'
    <3>1. \A k \in client[p].tasks : Waits(k) /\ Fits(k, s)
      BY <2>2, <2>4, NobodyIsNoSocket DEF IInv, Honest, WorkDue
    <3>2. Waits(i) /\ Fits(i, s)
      BY <1>1, <1>4, <1>5, <2>2 DEF IInv, Honest, AskedDue, Fits
    <3>3. \A k \in client'[p].tasks : Waits(k) /\ Fits(k, s)
      BY <1>8, <3>1, <3>2
    <3> QED
      BY <1>3, <1>8, <2>4, <3>3 DEF WorkDue, Waits, Fits
  <2>6. \A q \in Client : q # p => WorkDue(q)'
    BY <1>8, <1>10, <1>12, <2>2, NearStepDue
  <2> QED
    BY <1>10, <1>12, <2>2, <2>3, <2>5, <2>6, NearStepDue
<1> QED
  BY <1>13, <1>14, <1>15, <1>16, <1>17 DEF IInv

LEMMA Appended ==
    ASSUME NEW q \in Seq(Frame), NEW f \in Frame, NEW q1 \in {q, Append(q, f)}
    PROVE  /\ q1 \in Seq(Frame)
           /\ \A j \in DOMAIN q1 : (j \in DOMAIN q /\ q1[j] = q[j]) \/ (q1[j] = f /\ j = Len(q) + 1)
OBVIOUS

\* A client writes f on its socket s, if it has one.
LEMMA ClientWrites ==
    ASSUME IInv, NEW p \in Client, NEW s, s = client[p].ws, NEW f \in Frame, ws' = WriteUp(ws, s, f)
    PROVE  /\ ws \in Sockets /\ ws' \in Sockets
           /\ \A t \in Socket :
                 /\ ws'[t].owner = ws[t].owner /\ ws'[t].near = ws[t].near /\ ws'[t].far = ws[t].far
                 /\ ws'[t].timer = ws[t].timer /\ ws'[t].ear = ws[t].ear /\ ws'[t].down = ws[t].down
                 /\ ws[t].owner # p => ws'[t] = ws[t]
                 /\ t # s => ws'[t] = ws[t]
                 /\ \A j \in DOMAIN ws'[t].up :
                       \/ j \in DOMAIN ws[t].up /\ ws'[t].up[j] = ws[t].up[j]
                       \/ t = s /\ ws'[t].up[j] = f /\ j = Len(ws[t].up) + 1
                 /\ \A K : Mark(f) \notin K => Keeps(ws'[t].up, ws[t].up, K)
           /\ s # Nobody => s \in Socket /\ ws[s].owner = p
<1>1. ws \in Sockets /\ s \in {Nobody} \cup Socket /\ (s # Nobody => ws[s].owner = p)
  BY ClientsAre, TypesAre DEF IInv, Base
<1>2. \A K : Mark(f) \notin K => NearDoes(ws', ws, s, K)
  BY <1>1, WriteUpDoes
<1>3. NearDoes(ws', ws, s, {})
  BY <1>2
<1>4. /\ \A t \in Socket : ws'[t].near = ws[t].near /\ ws'[t].down = ws[t].down
      /\ \A t \in Socket : ws'[t].up \in {ws[t].up, Append(ws[t].up, f)}
  <2>1. PICK K : K = {}
    OBVIOUS
  <2>2. Mark(f) \notin K
    BY <2>1
  <2> QED
    BY <1>1, <2>2, WriteUpDoes
<1>5. ASSUME NEW t \in Socket
      PROVE  \A j \in DOMAIN ws'[t].up :
                 \/ j \in DOMAIN ws[t].up /\ ws'[t].up[j] = ws[t].up[j]
                 \/ t = s /\ ws'[t].up[j] = f /\ j = Len(ws[t].up) + 1
  <2>1. CASE t # s
    BY <1>3, <2>1 DEF NearDoes
  <2>2. CASE t = s
    <3>1. ws[t].up \in Seq(Frame) /\ ws'[t].up \in {ws[t].up, Append(ws[t].up, f)}
      BY <1>1, <1>4, SocketFields
    <3>2. PICK q \in Seq(Frame) : q = ws[t].up
      BY <3>1
    <3>3. PICK q1 \in {q, Append(q, f)} : q1 = ws'[t].up
      BY <3>1, <3>2
    <3>4. \A j \in DOMAIN q1 : (j \in DOMAIN q /\ q1[j] = q[j]) \/ (q1[j] = f /\ j = Len(q) + 1)
      BY Appended
    <3> QED
      BY <2>2, <3>2, <3>3, <3>4
  <2> QED
    BY <2>1, <2>2
<1>6. \A t \in Socket : ws[t].owner # p => t # s
  BY <1>1, NobodyIsNoSocket
<1>7. \A t \in Socket : \A K : Mark(f) \notin K => Keeps(ws'[t].up, ws[t].up, K)
  BY <1>2 DEF NearDoes
<1> QED
  BY <1>1, <1>3, <1>4, <1>5, <1>6, <1>7 DEF NearDoes, SameEnds

LEMMA TaskEndsKeeps ==
    ASSUME IInv, NEW p \in Client, NEW i, TaskEnds(p, i)
    PROVE  IInv'
<1>1. UNCHANGED <<stream, maps, calls, invokes, spent>> /\ i \in client[p].tasks /\ i \in DOMAIN invokes
  BY DEF TaskEnds, IInv, Base, Fields
<1>2. PICK T \in SUBSET (1..MaxInvokes) : T = client[p].tasks \ {i}
  BY ClientsAre DEF IInv
<1>3. client' = [client EXCEPT ![p].tasks = T]
  BY <1>2 DEF TaskEnds
<1>4. /\ client' \in [Client -> ClientType] /\ client'[p].tasks = client[p].tasks \ {i}
      /\ \A q \in Client :
            /\ client'[q].ws = client[q].ws /\ client'[q].connected = client[q].connected
            /\ client'[q].retry = client[q].retry /\ client'[q].interval = client[q].interval
            /\ client'[q].overlapped = client[q].overlapped /\ (q # p => client'[q] = client[q])
            /\ Counted(client'[q].retry) /\ Counted(client'[q].interval)
  BY <1>2, <1>3, TasksBecome DEF IInv
<1>5. \A q \in Client : client'[q].tasks \subseteq client[q].tasks
  BY <1>4
<1>6. PICK s : s = client[p].ws
  OBVIOUS
<1>7. PICK f \in Frame : f = Reply(i)
  BY <1>1, ClientsAre, FramesAre DEF IInv
<1>8. f.kind = "reply" /\ f.id = i /\ Mark(f) = "reply"
  BY <1>7, MarksAre DEF Reply
<1>9. ws' = WriteUp(ws, s, f)
  BY <1>6, <1>7 DEF TaskEnds
<1>10. /\ ws \in Sockets /\ ws' \in Sockets
       /\ \A t \in Socket :
             /\ ws'[t].owner = ws[t].owner /\ ws'[t].near = ws[t].near /\ ws'[t].far = ws[t].far
             /\ ws'[t].timer = ws[t].timer /\ ws'[t].ear = ws[t].ear /\ ws'[t].down = ws[t].down
             /\ ws[t].owner # p => ws'[t] = ws[t]
             /\ t # s => ws'[t] = ws[t]
             /\ \A j \in DOMAIN ws'[t].up :
                   \/ j \in DOMAIN ws[t].up /\ ws'[t].up[j] = ws[t].up[j]
                   \/ t = s /\ ws'[t].up[j] = f /\ j = Len(ws[t].up) + 1
             /\ \A K : Mark(f) \notin K => Keeps(ws'[t].up, ws[t].up, K)
       /\ s # Nobody => s \in Socket /\ ws[s].owner = p
  BY <1>6, <1>9, ClientWrites
<1>11. TypeOK'
  <2>1. /\ stream \in [Socket -> StreamType] /\ maps \in MapsType /\ calls \in Seq(CallType)
        /\ invokes \in Seq(InvokeType) /\ spent \in 0..MaxEvents
    BY TypesAre DEF IInv, Base
  <2> QED
    BY <1>1, <1>4, <1>10, <2>1, TypesThen
<1>12. NearStep
  <2>1. Logs
    BY <1>1, <1>4 DEF Logs
  <2> QED
    BY <1>1, <1>4, <1>10, <1>11, <2>1, NobodyIsNoSocket DEF NearStep, IInv, Base
<1>13. \A t \in Socket : Keeps(ws'[t].down, ws[t].down, Asks)
  BY <1>10, SocketFields
<1>14. \A t \in Socket : Keeps(ws'[t].up, ws[t].up, Requests)
  <2>1. "reply" \notin Requests
    BY DEF Requests
  <2> QED
    BY <1>8, <1>10, <2>1
<1>15. Base'
  <2>1. ASSUME NEW t \in Socket
        PROVE  KnownUp(t)'
    <3>1. SUFFICES ASSUME NEW j \in DOMAIN ws'[t].up
                   PROVE  /\ ws'[t].up[j].kind = "request" => ws'[t].up[j].id \in DOMAIN calls' /\ calls'[ws'[t].up[j].id].by = ws'[t].owner
                          /\ ws'[t].up[j].kind = "reply" => ws'[t].up[j].id \in DOMAIN invokes'
      BY DEF KnownUp
    <3>2. CASE j \in DOMAIN ws[t].up /\ ws'[t].up[j] = ws[t].up[j]
      BY <1>1, <1>10, <3>2 DEF IInv, Base, Known, KnownUp
    <3>3. CASE ws'[t].up[j] = f
      BY <1>1, <1>8, <3>3
    <3> QED
      BY <1>10, <3>2, <3>3
  <2>2. \A t \in Socket : Bare(t)' /\ Known(t)'
    BY <1>12, <1>13, <2>1, NearStepKeeps DEF Known
  <2> QED
    BY <1>5, <1>11, <1>12, <2>2, NearStepKeeps DEF Base, NearStep
<1>16. Registered' /\ \A t \in Socket : Served(t)'
  BY <1>12, <1>13, <1>14, NearStepKeeps DEF Served
<1>17. \A q \in Client : Tidy(q)'
  BY <1>4, <1>10, TidyCarried DEF IInv
<1>18. InvokesOnce'
  <2>1. /\ \A t \in Socket : \A j \in DOMAIN ws[t].up : ws[t].up[j].kind = "reply" => ws[t].up[j].id # i
        /\ \A t \in Socket : \A j \in DOMAIN ws[t].down : ws[t].down[j].kind = "request" => ws[t].down[j].id # i
    BY <1>1 DEF IInv, InvokesOnce, AtWork
  <2>2. AskedOnce'
    BY <1>10 DEF IInv, InvokesOnce, AskedOnce
  <2>3. AskedOrAnswered'
    BY <1>8, <1>10, <2>1 DEF IInv, InvokesOnce, AskedOrAnswered
  <2>4. AnswersOnce'
    <3>1. SUFFICES ASSUME NEW t \in Socket, NEW u \in Socket,
                          NEW j \in DOMAIN ws'[t].up, NEW k \in DOMAIN ws'[u].up,
                          ws'[t].up[j].kind = "reply", ws'[u].up[k].kind = "reply",
                          ws'[t].up[j].id = ws'[u].up[k].id
                   PROVE  t = u /\ j = k
      BY DEF AnswersOnce
    <3>2. CASE j \in DOMAIN ws[t].up /\ ws'[t].up[j] = ws[t].up[j]
      <4>1. ws[t].up[j].id # i
        BY <2>1, <3>1, <3>2
      <4>2. ws'[u].up[k] # f
        BY <1>8, <3>1, <3>2, <4>1
      <4>3. k \in DOMAIN ws[u].up /\ ws'[u].up[k] = ws[u].up[k]
        BY <1>10, <4>2
      <4> QED
        BY <3>1, <3>2, <4>3 DEF IInv, InvokesOnce, AnswersOnce
    <3>3. CASE t = s /\ ws'[t].up[j] = f /\ j = Len(ws[t].up) + 1
      <4>1. ws'[u].up[k].id = i
        BY <1>8, <3>1, <3>3
      <4>2. ~(k \in DOMAIN ws[u].up /\ ws'[u].up[k] = ws[u].up[k])
        BY <2>1, <3>1, <4>1
      <4>3. u = s /\ k = Len(ws[u].up) + 1
        BY <1>10, <4>2
      <4> QED
        BY <3>3, <4>3
    <3> QED
      BY <1>10, <3>2, <3>3
  <2>5. AtWork'
    <3>1. SUFFICES ASSUME NEW q \in Client, NEW k \in client'[q].tasks, NEW t \in Socket
                   PROVE  /\ \A j \in DOMAIN ws'[t].down : ws'[t].down[j].kind = "request" => ws'[t].down[j].id # k
                          /\ \A j \in DOMAIN ws'[t].up : ws'[t].up[j].kind = "reply" => ws'[t].up[j].id # k
      BY DEF AtWork
    <3>2. k \in client[q].tasks
      BY <1>5, <3>1
    <3>3. k # i
      <4>1. CASE q = p
        BY <1>4, <3>1, <4>1
      <4>2. CASE q # p
        BY <1>1, <3>2, <4>2 DEF IInv, Base, Fields
      <4> QED
        BY <4>1, <4>2
    <3>4. \A j \in DOMAIN ws'[t].up : ws'[t].up[j].kind = "reply" => ws'[t].up[j].id # k
      BY <1>8, <1>10, <3>2, <3>3 DEF IInv, InvokesOnce, AtWork
    <3>5. \A j \in DOMAIN ws'[t].down : ws'[t].down[j].kind = "request" => ws'[t].down[j].id # k
      BY <1>10, <3>2 DEF IInv, InvokesOnce, AtWork
    <3> QED
      BY <3>4, <3>5
  <2> QED
    BY <2>2, <2>3, <2>4, <2>5 DEF InvokesOnce
<1>19. Honest'
  <2>1. SUFFICES ASSUME ~Excuse'
                 PROVE  /\ \A t \in Socket : ~Bad(ws'[t].up) /\ ~Bad(ws'[t].down)
                        /\ \A t \in Socket : CallsDue(t)'
                        /\ \A t \in Socket : AskedDue(t)' /\ AnsweredDue(t)'
                        /\ \A q \in Client : WorkDue(q)'
    BY DEF Honest, Bad
  <2>2. ~Excuse
    BY <1>12, <2>1, ExcuseStays DEF NearStep
  <2>3. ASSUME NEW t \in Socket
        PROVE  ~Bad(ws'[t].up) /\ ~Bad(ws'[t].down)
    <3>1. ~Bad(ws[t].up) /\ ~Bad(ws[t].down)
      BY <2>2 DEF IInv, Honest
    <3> QED
      BY <1>8, <1>10, <3>1 DEF Bad
  <2>4. ASSUME NEW t \in Socket
        PROVE  CallsDue(t)'
    <3>1. InUse(t)' => InUse(t)
      <4>1. SUFFICES ASSUME InUse(t)' PROVE InUse(t)
        OBVIOUS
      <4>2. ws[t].owner \in Client
        BY <1>10, <4>1, SocketFields DEF InUse, SocketType
      <4> QED
        BY <1>4, <1>10, <4>1, <4>2 DEF InUse
    <3>2. CallsDue(t) /\ Known(t) /\ RepliesOnce(t)
      BY <2>2 DEF IInv, Honest, Base, Served
    <3>3. Keeps(ws'[t].down, ws[t].down, Replies)
      BY <1>13, KeepsFewer, AsksAre
    <3> QED
      BY <1>1, <1>10, <1>14, <3>1, <3>2, <3>3, CallsDueCarried DEF Pending
  <2>5. ASSUME NEW t \in Socket
        PROVE  AskedDue(t)' /\ AnsweredDue(t)'
    <3>1. AskedDue(t) /\ AnsweredDue(t)
      BY <2>2 DEF IInv, Honest
    <3>2. t = s => Waits(i) /\ Fits(i, s)
      BY <1>1, <1>6, <2>2, NobodyIsNoSocket DEF IInv, Honest, WorkDue
    <3>3. AskedDue(t)'
      BY <1>1, <1>10, <3>1 DEF AskedDue, Waits
    <3>4. AnsweredDue(t)'
      BY <1>1, <1>8, <1>10, <3>1, <3>2 DEF AnsweredDue, Waits, Fits
    <3> QED
      BY <3>3, <3>4
  <2>6. \A q \in Client : WorkDue(q)'
    BY <1>1, <1>4, <1>5, <2>2 DEF IInv, Honest, WorkDue, Waits, Fits
  <2> QED
    BY <2>3, <2>4, <2>5, <2>6
<1> QED
  BY <1>15, <1>16, <1>17, <1>18, <1>19 DEF IInv

LEMMA InvokeKeeps ==
    ASSUME IInv, NEW p \in Client, Invoke(p)
    PROVE  IInv'
<1>1. UNCHANGED <<client, stream, maps, invokes>> /\ Len(calls) < MaxCalls /\ spent' \in 0..MaxEvents
  BY SpentIs DEF Invoke, IInv
<1>2. PICK s : s = client[p].ws
  OBVIOUS
<1>3. calls \in Seq(CallType) /\ Len(calls) \in Nat /\ MaxCalls \in Nat
  BY TypesAre, SrpcAssumption DEF IInv, Base
<1>4. PICK n \in 1..MaxCalls : n = Len(calls) + 1
  BY <1>1, <1>3
<1>5. PICK x \in CallType : x.by = p /\ x.state = "pending" /\ calls' = Append(calls, x)
  <2>1. PICK x : x = [by |-> p, state |-> "pending"]
    OBVIOUS
  <2>2. x \in CallType /\ x.by = p /\ x.state = "pending"
    BY <2>1 DEF CallType
  <2> QED
    BY <2>1, <2>2 DEF Invoke
<1>6. /\ calls' \in Seq(CallType) /\ Len(calls') = n /\ n \in DOMAIN calls' /\ calls'[n] = x
      /\ \A k \in DOMAIN calls : k \in DOMAIN calls' /\ calls'[k] = calls[k] /\ k < n
  BY <1>3, <1>4, <1>5
<1>7. PICK f \in Frame : f = Request(n)
  BY FramesAre
<1>8. f.kind = "request" /\ f.id = n /\ Mark(f) = "request"
  BY <1>7, MarksAre DEF Request
<1>9. ws' = WriteUp(ws, s, f)
  BY <1>2, <1>4, <1>7 DEF Invoke
<1>10. /\ ws \in Sockets /\ ws' \in Sockets
       /\ \A t \in Socket :
             /\ ws'[t].owner = ws[t].owner /\ ws'[t].near = ws[t].near /\ ws'[t].far = ws[t].far
             /\ ws'[t].timer = ws[t].timer /\ ws'[t].ear = ws[t].ear /\ ws'[t].down = ws[t].down
             /\ ws[t].owner # p => ws'[t] = ws[t]
             /\ t # s => ws'[t] = ws[t]
             /\ \A j \in DOMAIN ws'[t].up :
                   \/ j \in DOMAIN ws[t].up /\ ws'[t].up[j] = ws[t].up[j]
                   \/ t = s /\ ws'[t].up[j] = f /\ j = Len(ws[t].up) + 1
             /\ \A K : Mark(f) \notin K => Keeps(ws'[t].up, ws[t].up, K)
       /\ s # Nobody => s \in Socket /\ ws[s].owner = p
  BY <1>2, <1>9, ClientWrites
<1>11. TypeOK'
  <2>1. /\ client \in [Client -> ClientType] /\ stream \in [Socket -> StreamType] /\ maps \in MapsType
        /\ invokes \in Seq(InvokeType)
    BY TypesAre DEF IInv, Base
  <2> QED
    BY <1>1, <1>6, <1>10, <2>1, TypesThen
<1>12. NearStep
  <2>1. Logs
    BY <1>1, <1>6 DEF Logs
  <2>2. Len(calls') <= MaxCalls
    BY <1>3, <1>6
  <2> QED
    BY <1>1, <1>10, <1>11, <2>1, <2>2, NobodyIsNoSocket, ClientsAre DEF NearStep, IInv, Base
<1>13. \A t \in Socket : Keeps(ws'[t].down, ws[t].down, Asks)
  BY <1>10, SocketFields
<1>14. \A t \in Socket : t # s => Keeps(ws'[t].up, ws[t].up, Asks)
  BY <1>10, SocketFields
<1>15. Base'
  <2>1. ASSUME NEW t \in Socket
        PROVE  KnownUp(t)'
    <3>1. SUFFICES ASSUME NEW j \in DOMAIN ws'[t].up
                   PROVE  /\ ws'[t].up[j].kind = "request" => ws'[t].up[j].id \in DOMAIN calls' /\ calls'[ws'[t].up[j].id].by = ws'[t].owner
                          /\ ws'[t].up[j].kind = "reply" => ws'[t].up[j].id \in DOMAIN invokes'
      BY DEF KnownUp
    <3>2. CASE j \in DOMAIN ws[t].up /\ ws'[t].up[j] = ws[t].up[j]
      <4>1. /\ ws[t].up[j].kind = "request" => ws[t].up[j].id \in DOMAIN calls /\ calls[ws[t].up[j].id].by = ws[t].owner
            /\ ws[t].up[j].kind = "reply" => ws[t].up[j].id \in DOMAIN invokes
        BY <3>2 DEF IInv, Base, Known, KnownUp
      <4> QED
        BY <1>1, <1>6, <1>10, <3>2, <4>1
    <3>3. CASE t = s /\ ws'[t].up[j] = f
      <4>1. ws[t].owner = p
        BY <1>10, <3>3, NobodyIsNoSocket
      <4> QED
        BY <1>5, <1>6, <1>8, <1>10, <3>3, <4>1
    <3> QED
      BY <1>10, <3>2, <3>3
  <2>2. \A t \in Socket : Bare(t)' /\ Known(t)'
    BY <1>12, <1>13, <2>1, NearStepKeeps DEF Known
  <2> QED
    BY <1>1, <1>11, <1>12, <2>2, NearStepKeeps DEF Base, NearStep
<1>16. Registered' /\ \A t \in Socket : Served(t)'
  <2>1. ASSUME NEW t \in Socket
        PROVE  Order(t)'
    <3>1. Order(t) /\ Known(t)
      BY DEF IInv, Served, Base
    <3>2. /\ \A j \in DOMAIN stream[t].started : stream[t].started[j] < n
          /\ \A j \in DOMAIN stream[t].held : stream[t].held[j] < n
          /\ \A j \in DOMAIN ws[t].up : ws[t].up[j].kind = "request" => ws[t].up[j].id < n
      BY <1>6, <3>1 DEF Known, KnownUp, KnownCalls
    <3>3. \A j \in DOMAIN ws'[t].up : ws'[t].up[j].kind = "request" =>
            /\ \A i \in DOMAIN stream[t].started : stream[t].started[i] < ws'[t].up[j].id
            /\ \A i \in DOMAIN stream[t].held : stream[t].held[i] < ws'[t].up[j].id
      BY <1>8, <1>10, <3>1, <3>2 DEF Order
    <3>4. ASSUME NEW i \in DOMAIN ws'[t].up, NEW j \in DOMAIN ws'[t].up,
                 ws'[t].up[i].kind = "request", ws'[t].up[j].kind = "request", i < j
          PROVE  ws'[t].up[i].id < ws'[t].up[j].id
      <4>1. CASE i \in DOMAIN ws[t].up /\ ws'[t].up[i] = ws[t].up[i] /\ j \in DOMAIN ws[t].up /\ ws'[t].up[j] = ws[t].up[j]
        BY <3>1, <3>4, <4>1 DEF Order
      <4>2. CASE i \in DOMAIN ws[t].up /\ ws'[t].up[i] = ws[t].up[i] /\ ws'[t].up[j] = f
        BY <1>8, <3>2, <3>4, <4>2
      <4>3. CASE i = Len(ws[t].up) + 1
        <5>1. ws[t].up \in Seq(Frame) /\ ws'[t].up \in Seq(Frame)
          BY <1>10, SocketFields
        <5>2. j \in 1..Len(ws[t].up) \/ j = Len(ws[t].up) + 1
          BY <1>10, <5>1
        <5>3. Len(ws[t].up) \in Nat
          BY <5>1
        <5> QED
          BY <3>4, <4>3, <5>2, <5>3
      <4> QED
        BY <1>10, <4>1, <4>2, <4>3
    <3>5. /\ Increasing(stream[t].started) /\ Increasing(stream[t].held)
          /\ \A i \in DOMAIN stream[t].started, j \in DOMAIN stream[t].held : stream[t].started[i] < stream[t].held[j]
      BY <3>1 DEF Order
    <3> QED
      BY <1>1, <3>3, <3>4, <3>5 DEF Order, Increasing
  <2> QED
    BY <1>12, <1>13, <2>1, NearStepKeeps DEF Served
<1>17. \A q \in Client : Tidy(q)'
  BY <1>1, <1>10, TidyCarried DEF IInv
<1>18. InvokesOnce'
  <2>1. \A t \in Socket : \A j \in DOMAIN ws'[t].up : ws'[t].up[j].kind = "reply" =>
            j \in DOMAIN ws[t].up /\ ws'[t].up[j] = ws[t].up[j]
    BY <1>8, <1>10
  <2>2. AskedOnce'
    BY <1>10 DEF IInv, InvokesOnce, AskedOnce
  <2>3. AskedOrAnswered'
    BY <1>10, <2>1 DEF IInv, InvokesOnce, AskedOrAnswered
  <2>4. AnswersOnce'
    BY <2>1 DEF IInv, InvokesOnce, AnswersOnce
  <2>5. AtWork'
    BY <1>1, <1>10, <2>1 DEF IInv, InvokesOnce, AtWork
  <2> QED
    BY <2>2, <2>3, <2>4, <2>5 DEF InvokesOnce
<1>19. Honest'
  <2>1. SUFFICES ASSUME ~Excuse'
                 PROVE  /\ \A t \in Socket : ~Bad(ws'[t].up) /\ ~Bad(ws'[t].down)
                        /\ \A t \in Socket : CallsDue(t)'
                        /\ \A t \in Socket : AskedDue(t)' /\ AnsweredDue(t)'
                        /\ \A q \in Client : WorkDue(q)'
    BY DEF Honest, Bad
  <2>2. ~Excuse
    BY <1>12, <2>1, ExcuseStays DEF NearStep
  <2>3. ASSUME NEW t \in Socket
        PROVE  ~Bad(ws'[t].up) /\ ~Bad(ws'[t].down)
    <3>1. ~Bad(ws[t].up) /\ ~Bad(ws[t].down)
      BY <2>2 DEF IInv, Honest
    <3> QED
      BY <1>8, <1>10, <3>1 DEF Bad
  <2>4. ASSUME NEW t \in Socket
        PROVE  CallsDue(t)'
    <3>1. SUFFICES ASSUME InUse(t)' PROVE CallsDue(t)'
      BY DEF CallsDue
    <3>2. InUse(t)
      BY <1>1, <1>10, <3>1 DEF InUse
    <3>3. CallsDue(t) /\ Known(t) /\ RepliesOnce(t)
      BY <2>2 DEF IInv, Honest, Base, Served
    <3>4. \A j \in DOMAIN ws'[t].up : ws'[t].up[j].kind = "request" => calls'[ws'[t].up[j].id].state = "pending"
      <4>1. \A j \in DOMAIN ws[t].up : ws[t].up[j].kind = "request" => calls'[ws[t].up[j].id].state = "pending"
        BY <1>6, <3>2, <3>3 DEF CallsDue, Pending, Known, KnownUp
      <4>2. calls'[f.id].state = "pending"
        BY <1>5, <1>6, <1>8
      <4>3. \A j \in DOMAIN ws'[t].up : (j \in DOMAIN ws[t].up /\ ws'[t].up[j] = ws[t].up[j]) \/ ws'[t].up[j] = f
        BY <1>10
      <4> QED
        BY <4>1, <4>2, <4>3
    <3>5. \A j \in DOMAIN ws'[t].down : ws'[t].down[j].kind = "reply" => calls'[ws'[t].down[j].id].state = "pending"
      <4>1. \A j \in DOMAIN ws[t].down : ws[t].down[j].kind = "reply" => ws[t].down[j].id \in DOMAIN calls
        BY <3>3 DEF Known, KnownDown
      <4> QED
        BY <1>6, <1>10, <3>2, <3>3, <4>1 DEF CallsDue, Pending
    <3>6. /\ \A j \in DOMAIN stream[t].held : calls'[stream[t].held[j]].state = "pending"
          /\ \A i \in stream[t].works : calls'[i].state = "pending"
      BY <1>6, <3>2, <3>3 DEF CallsDue, Pending, Known, KnownCalls
    <3> QED
      BY <1>1, <3>4, <3>5, <3>6 DEF CallsDue, Pending
  <2>5. ASSUME NEW t \in Socket
        PROVE  AskedDue(t)' /\ AnsweredDue(t)'
    <3>1. AskedDue(t) /\ AnsweredDue(t)
      BY <2>2 DEF IInv, Honest
    <3>2. AskedDue(t)'
      BY <1>1, <1>10, <3>1 DEF AskedDue, Waits
    <3>3. AnsweredDue(t)'
      BY <1>1, <1>8, <1>10, <3>1 DEF AnsweredDue, Waits, Fits
    <3> QED
      BY <3>2, <3>3
  <2>6. \A q \in Client : WorkDue(q)'
    BY <1>1, <2>2 DEF IInv, Honest, WorkDue, Waits, Fits
  <2> QED
    BY <2>3, <2>4, <2>5, <2>6
<1> QED
  BY <1>15, <1>16, <1>17, <1>18, <1>19 DEF IInv

\* Client p connects anew, whatever it had.
LEMMA ConnectAsKeeps ==
    ASSUME IInv, NEW p \in Client, NEW r \in Timer, Counted(r), ~client[p].overlapped => r = NoTimer,
           NEW supersede \in BOOLEAN, ConnectAs(p, [client[p] EXCEPT !.retry = r], supersede),
           spent' \in 0..MaxEvents
    PROVE  IInv'
<1>1. PICK n \in 0..MaxSockets : Used = 1..n
  BY DEF IInv, Base, Numbered
<1>2. MaxSockets \in Nat /\ n \in Nat /\ Cardinality(Used) = n
  <2>1. MaxSockets \in Nat /\ n \in Nat
    BY SrpcAssumption
  <2>2. Cardinality(1..n) = n
    BY <2>1, FS_Interval
  <2> QED
    BY <1>1, <2>1, <2>2
<1>3. UNCHANGED <<stream, maps, calls, invokes>>
  BY DEF ConnectAs
<1>4. PICK s \in Socket : s = n + 1
  BY <1>2 DEF ConnectAs
<1>5. ws[s].owner = Nobody /\ ws[s] = NoSocket /\ stream[s] = NoStream
  <2>1. s \notin Used
    BY <1>1, <1>2, <1>4
  <2>2. ws[s].owner = Nobody
    BY <2>1 DEF Used
  <2>3. NoSocket.far = "unused"
    BY DEF NoSocket
  <2>4. Bare(s)
    BY DEF IInv, Base
  <2> QED
    BY <2>2, <2>3, <2>4 DEF Bare
<1>6. /\ client[p] \in ClientType /\ client[p].interval \in Timer /\ Counted(client[p].interval)
      /\ client[p].ws \in {Nobody} \cup Socket /\ (client[p].ws # Nobody => ws[client[p].ws].owner = p)
  BY ClientsAre DEF IInv
<1>7. PICK o \in {Nobody} \cup Socket : o = client[p].ws
  BY <1>6
<1>8. PICK b \in BOOLEAN : b = (client[p].overlapped \/ Overlaps([client[p] EXCEPT !.retry = r]))
  OBVIOUS
<1>9. PICK c : c = [client[p] EXCEPT !.retry = r, !.ws = s, !.asking = TRUE, !.refused = FALSE, !.overlapped = b]
  OBVIOUS
<1>10. c \in ClientType
  BY <1>6, <1>9 DEF ClientType, Timer
<1>11. /\ c.retry = r /\ c.interval = client[p].interval /\ c.ws = s /\ c.connected = client[p].connected
       /\ c.tasks = client[p].tasks /\ c.overlapped = b
  BY <1>6, <1>9 DEF ClientType
<1>12. ~b => ~client[p].overlapped /\ (o # Nobody => ~ws[o].timer /\ ws[o].ear # "all")
  <2>1. [client[p] EXCEPT !.retry = r].ws = o
    BY <1>6, <1>7 DEF ClientType
  <2> QED
    BY <1>8, <2>1 DEF Overlaps
<1>13. client \in [Client -> ClientType] /\ ws \in Sockets
  BY TypesAre DEF IInv, Base
<1>14. client' = [client EXCEPT ![p] = c]
  <2>1. PICK d : d = [client[p] EXCEPT !.retry = r]
    OBVIOUS
  <2>2. d \in ClientType /\ d.overlapped = client[p].overlapped
    BY <1>6, <2>1 DEF ClientType, Timer
  <2>3. c = [d EXCEPT !.ws = s, !.asking = TRUE, !.refused = FALSE, !.overlapped = @ \/ Overlaps(d)]
    BY <1>6, <1>8, <1>9, <2>1, <2>2 DEF ClientType
  <2> QED
    BY <1>2, <1>4, <2>1, <2>3 DEF ConnectAs
<1>15. client' \in [Client -> ClientType] /\ client'[p] = c /\ \A q \in Client : q # p => client'[q] = client[q]
  BY <1>10, <1>13, <1>14
<1>16. PICK w1 : w1 = CloseNear(ws, o, "disconnect")
  OBVIOUS
<1>17. /\ NearDoes(w1, ws, o, Every) /\ w1 \in Sockets
       /\ \A t \in Socket : ws[t].near = "closed" => w1[t].near = "closed"
  <2>1. "disconnect" \in Cause /\ Mark(Bye("disconnect")) \notin Every
    BY MarksAre, AsksAre DEF Cause
  <2>2. NearDoes(w1, ws, o, Every) /\ \A t \in Socket : ws[t].near = "closed" => w1[t].near = "closed"
    BY <1>13, <1>16, <2>1, CloseNearDoes
  <2> QED
    BY <2>2 DEF NearDoes
<1>18. PICK v : v = [NoSocket EXCEPT !.owner = p, !.supersede = supersede, !.near = "connecting", !.timer = TRUE]
  OBVIOUS
<1>19. /\ v \in SocketType /\ v.owner = p /\ v.near = "connecting" /\ v.far = "unused" /\ v.up = <<>> /\ v.down = <<>>
       /\ v.timer = TRUE /\ v.ear = "first"
  <2>1. "connecting" \in NearState /\ NoSocket \in SocketType
    BY <1>5, <1>13, SocketFields DEF NearState
  <2>2. NoSocket.far = "unused" /\ NoSocket.up = <<>> /\ NoSocket.down = <<>> /\ NoSocket.ear = "first"
    BY DEF NoSocket
  <2>3. v \in SocketType
    BY <1>18, <2>1 DEF SocketType
  <2> QED
    BY <1>18, <2>1, <2>2, <2>3 DEF SocketType
<1>20. ws' = [w1 EXCEPT ![s] = v]
  <2>1. [client[p] EXCEPT !.retry = r].ws = o
    BY <1>6, <1>7 DEF ClientType
  <2> QED
    BY <1>2, <1>4, <1>16, <1>18, <2>1 DEF ConnectAs
<1>21. ws' \in Sockets /\ \A t \in Socket : ws'[t] = IF t = s THEN v ELSE w1[t]
  BY <1>17, <1>19, <1>20 DEF Sockets
<1>22. o # s /\ (o # Nobody => ws[o].owner = p)
  BY <1>5, <1>6, <1>7, NobodyIsNoSocket
<1>23. \A t \in Socket : t # s =>
          /\ ws'[t].owner = ws[t].owner /\ ws'[t].timer = ws[t].timer /\ ws'[t].ear = ws[t].ear
          /\ ws[t].near = "closed" => ws'[t].near = "closed"
          /\ ws[t].owner # p => ws'[t] = ws[t]
  BY <1>17, <1>21, <1>22, NobodyIsNoSocket DEF NearDoes, SameEnds
<1>24. ASSUME NEW t \in Socket
       PROVE  ws'[t].far = ws[t].far /\ Keeps(ws'[t].up, ws[t].up, Every) /\ Keeps(ws'[t].down, ws[t].down, Every)
  <2>1. CASE t # s
    BY <1>17, <1>21, <2>1 DEF NearDoes
  <2>2. CASE t = s
    <3>1. ws[s].far = "unused"
      BY <1>5 DEF NoSocket
    <3> QED
      BY <1>13, <1>19, <1>21, <2>2, <3>1, KeepsNone, SocketFields
  <2> QED
    BY <2>1, <2>2
<1>25. \A t \in Socket : /\ Keeps(ws'[t].up, ws[t].up, Asks) /\ Keeps(ws'[t].down, ws[t].down, Asks)
                         /\ Keeps(ws'[t].up, ws[t].up, Requests) /\ Keeps(ws'[t].down, ws[t].down, Replies)
  BY <1>24, KeepsFewer, AsksAre
<1>26. Logs
  BY <1>3, <1>8, <1>11, <1>15 DEF Logs
<1>27. TypeOK'
  <2>1. stream \in [Socket -> StreamType] /\ maps \in MapsType /\ calls \in Seq(CallType) /\ invokes \in Seq(InvokeType)
    BY TypesAre DEF IInv, Base
  <2> QED
    BY <1>3, <1>15, <1>21, <2>1, TypesThen
<1>28. Base'
  <2>1. Numbered'
    <3>1. Used' = Used \cup {s}
      BY <1>19, <1>21, <1>23, NobodyIsNoSocket DEF Used
    <3>2. Used' = 1..(n + 1)
      BY <1>1, <1>2, <1>4, <3>1
    <3>3. n + 1 \in 0..MaxSockets
      BY <1>2, <1>4 DEF Socket
    <3> QED
      BY <3>2, <3>3 DEF Numbered
  <2>2. ASSUME NEW q \in Client
        PROVE  Fields(q)'
    <3>1. Fields(q) /\ client[q].ws \in {Nobody} \cup Socket
      BY ClientsAre DEF IInv, Base
    <3>2. ASSUME NEW i \in client[q].tasks
          PROVE  i \in DOMAIN invokes /\ ws'[invokes[i].on].owner = q
      <4>1. i \in DOMAIN invokes /\ ws[invokes[i].on].owner = q
        BY <3>1, <3>2 DEF Fields
      <4>2. invokes[i].on \in Socket /\ invokes[i].on # s
        BY <1>5, <4>1, InvokesAre, NobodyIsNoSocket DEF IInv, Base
      <4> QED
        BY <1>23, <4>1, <4>2
    <3>3. CASE q = p
      BY <1>3, <1>11, <1>15, <1>19, <1>21, <1>6, <3>2, <3>3 DEF Fields
    <3>4. CASE q # p
      <4>1. client[q].ws # Nobody => client[q].ws \in Socket /\ client[q].ws # s
        BY <1>5, <3>1, NobodyIsNoSocket DEF Fields
      <4> QED
        BY <1>3, <1>15, <1>23, <3>1, <3>2, <3>4, <4>1 DEF Fields
    <3> QED
      BY <3>3, <3>4
  <2>3. ASSUME NEW t \in Socket, t # s
        PROVE  Bare(t)' /\ Known(t)'
    <3>1. Bare(t) /\ Known(t)
      BY DEF IInv, Base
    <3>2. Known(t)'
      BY <1>3, <1>13, <1>21, <1>23, <1>25, <1>26, <2>3, <3>1, KnownCarried DEF Known
    <3>3. Bare(t)'
      BY <1>3, <1>23, <1>24, <2>3, <3>1, NobodyIsNoSocket DEF Bare
    <3> QED
      BY <3>2, <3>3
  <2>4. Bare(s)' /\ Known(s)'
    <3>1. NoStream.phase = "none" /\ NoStream.held = <<>> /\ NoStream.started = <<>> /\ NoStream.works = {}
      BY DEF NoStream
    <3>2. stream'[s] = NoStream /\ ws'[s] = v
      BY <1>3, <1>5, <1>21
    <3>3. Bare(s)'
      BY <1>19, <3>1, <3>2, NobodyIsNoSocket DEF Bare
    <3>4. DOMAIN ws'[s].up = {} /\ DOMAIN ws'[s].down = {}
      BY <1>19, <3>2
    <3>5. KnownUp(s)' /\ KnownDown(s)'
      BY <3>4 DEF KnownUp, KnownDown
    <3>6. DOMAIN stream'[s].held = {} /\ DOMAIN stream'[s].started = {} /\ stream'[s].works = {}
      BY <3>1, <3>2
    <3>7. KnownCalls(s)'
      BY <3>6 DEF KnownCalls
    <3> QED
      BY <3>3, <3>5, <3>7 DEF Known
  <2>5. \A t \in Socket : Bare(t)' /\ Known(t)'
    BY <2>3, <2>4
  <2> QED
    BY <1>3, <1>27, <2>1, <2>2, <2>5 DEF IInv, Base
<1>29. Registered'
  BY <1>3 DEF IInv, Registered
<1>30. ASSUME NEW t \in Socket
       PROVE  Served(t)'
  <2>1. Order(t)' /\ RepliesOnce(t)'
    BY <1>3, <1>13, <1>21, <1>25, OrderCarried, RepliesCarried DEF IInv, Served
  <2>2. Alive(t)'
    BY <1>3, <1>24, AliveSame DEF IInv, Served
  <2> QED
    BY <2>1, <2>2 DEF Served
<1>31. \A q \in Client : client'[q].tasks = client[q].tasks
  BY <1>11, <1>15
<1>32. InvokesOnce'
  BY <1>13, <1>21, <1>25, <1>31, OnceCarried DEF IInv, InvokesOnce
<1>33. ASSUME NEW q \in Client
       PROVE  Tidy(q)'
  <2>1. CASE q # p
    <3>1. \A t \in Socket : ws'[t].owner = q <=> ws[t].owner = q
      BY <1>5, <1>19, <1>21, <1>23, <2>1, NobodyIsNoSocket
    <3>2. \A t \in Socket : ws[t].owner = q => t # s
      BY <1>5, NobodyIsNoSocket
    <3> QED
      BY <1>15, <1>23, <2>1, <3>1, <3>2, TidyCarried DEF IInv
  <2>2. CASE q = p
    <3>1. SUFFICES ASSUME ~c.overlapped
          PROVE  /\ Single(c.interval) /\ Single(c.retry)
                 /\ c.interval.handle => c.connected
                 /\ c.connected => c.ws # Nobody /\ ws'[c.ws].ear = "all"
                 /\ \A t \in Socket : ws'[t].owner = p =>
                       /\ ws'[t].timer => c.ws = t /\ ~c.retry.handle
                       /\ ws'[t].ear = "all" /\ ws'[t].near # "closed" => c.ws = t
      BY <1>15, <2>2 DEF Tidy
    <3>2. Tidy(p) /\ ~client[p].overlapped
      BY <1>11, <1>12, <3>1 DEF IInv
    <3>3. c.retry = NoTimer /\ Single(c.retry) /\ ~c.retry.handle
      BY <1>6, <1>11, <3>2, TimersAre
    <3>4. ~client[p].connected
      BY <1>7, <1>11, <1>12, <3>1, <3>2 DEF Tidy
    <3>5. \A t \in Socket : ws'[t].owner = p =>
                       /\ ws'[t].timer => s = t
                       /\ ws'[t].ear = "all" /\ ws'[t].near # "closed" => s = t
      <4>1. SUFFICES ASSUME NEW t \in Socket, ws'[t].owner = p, t # s
                     PROVE  ~ws'[t].timer /\ ~(ws'[t].ear = "all" /\ ws'[t].near # "closed")
        OBVIOUS
      <4>2. ws[t].owner = p
        BY <1>23, <4>1
      <4>3. ws[t].timer => t = o
        BY <1>7, <3>2, <4>2 DEF Tidy
      <4>4. ws[t].ear = "all" /\ ws[t].near # "closed" => t = o
        BY <1>7, <3>2, <4>2 DEF Tidy
      <4>5. t = o => ~ws[t].timer /\ ws[t].ear # "all"
        BY <1>11, <1>12, <3>1, NobodyIsNoSocket
      <4> QED
        BY <1>23, <4>1, <4>3, <4>4, <4>5
    <3>6. Single(c.interval) /\ ~c.interval.handle
      BY <1>11, <3>2, <3>4 DEF Tidy
    <3> QED
      BY <1>11, <3>3, <3>4, <3>5, <3>6
  <2> QED
    BY <2>1, <2>2
<1>34. Honest'
  <2>1. SUFFICES ASSUME ~Excuse'
                 PROVE  /\ \A t \in Socket : ~Bad(ws'[t].up) /\ ~Bad(ws'[t].down)
                        /\ \A t \in Socket : CallsDue(t)'
                        /\ \A t \in Socket : AskedDue(t)' /\ AnsweredDue(t)'
                        /\ \A q \in Client : WorkDue(q)'
    BY DEF Honest, Bad
  <2>2. ~Excuse
    BY <1>26, <2>1, ExcuseStays
  <2>3. \A t \in Socket : ~Bad(ws'[t].up) /\ ~Bad(ws'[t].down)
    BY <1>13, <1>21, <1>24, <2>2, GoodCarried DEF IInv, Honest
  <2>4. \A i \in DOMAIN invokes : Waits(i) => Stays(i)
    BY <1>3 DEF Waits, WaitsThen, Stays
  <2>5. \A t \in Socket : AskedDue(t)' /\ AnsweredDue(t)'
    BY <1>3, <1>13, <1>21, <1>25, <1>26, <2>2, <2>4, InvokesDueCarried DEF IInv, Honest, Base
  <2>6. ASSUME NEW t \in Socket, t # s
        PROVE  CallsDue(t)'
    <3>1. InUse(t)' => InUse(t)
      <4>1. SUFFICES ASSUME InUse(t)' PROVE InUse(t)
        OBVIOUS
      <4>2. ws[t].owner \in Client /\ ws'[t].owner = ws[t].owner
        BY <1>13, <1>23, <2>6, <4>1, SocketFields DEF InUse, SocketType
      <4>3. ws[t].owner # p
        BY <1>11, <1>15, <2>6, <4>1, <4>2 DEF InUse
      <4> QED
        BY <1>15, <1>23, <2>6, <4>1, <4>2, <4>3 DEF InUse
    <3>2. CallsDue(t) /\ Known(t) /\ RepliesOnce(t)
      BY <2>2 DEF IInv, Honest, Base, Served
    <3> QED
      BY <1>3, <1>13, <1>21, <1>25, <3>1, <3>2, CallsDueCarried DEF Pending
  <2>7. CallsDue(s)'
    <3>1. NoStream.held = <<>> /\ NoStream.works = {}
      BY DEF NoStream
    <3>2. stream'[s] = NoStream /\ ws'[s] = v
      BY <1>3, <1>5, <1>21
    <3>3. DOMAIN ws'[s].up = {} /\ DOMAIN ws'[s].down = {} /\ DOMAIN stream'[s].held = {} /\ stream'[s].works = {}
      BY <1>19, <3>1, <3>2
    <3> QED
      BY <3>3 DEF CallsDue
  <2>8. ASSUME NEW q \in Client
        PROVE  WorkDue(q)'
    <3>1. WorkDue(q)
      BY <2>2 DEF IInv, Honest
    <3>2. CASE q # p
      BY <1>3, <1>15, <3>1, <3>2 DEF WorkDue, Waits, Fits
    <3>3. CASE q = p
      <4>1. stream'[s].phase = "none"
        BY <1>3, <1>5 DEF NoStream
      <4> QED
        BY <1>3, <1>11, <1>15, <3>1, <3>3, <4>1 DEF WorkDue, Waits, Fits
    <3> QED
      BY <3>2, <3>3
  <2> QED
    BY <2>3, <2>5, <2>6, <2>7, <2>8
<1> QED
  BY <1>28, <1>29, <1>30, <1>32, <1>33, <1>34 DEF IInv

LEMMA ConnectKeeps ==
    ASSUME IInv, NEW p \in Client, NEW supersede \in BOOLEAN, Connect(p, supersede)
    PROVE  IInv'
<1>1. /\ client[p].retry \in Timer /\ Counted(client[p].retry)
  BY ClientsAre DEF IInv
<1>2. PICK r : r = Clear(client[p].retry)
  OBVIOUS
<1>3. r \in Timer /\ Counted(r)
  BY <1>1, <1>2, TimersAre
<1>4. ~client[p].overlapped => r = NoTimer
  BY <1>1, <1>2, TimersAre DEF IInv, Tidy
<1>5. ConnectAs(p, [client[p] EXCEPT !.retry = r], supersede)
  BY <1>2 DEF Connect
<1>6. spent' \in 0..MaxEvents
  BY SpentIs DEF Connect, IInv
<1> QED
  BY <1>3, <1>4, <1>5, <1>6, ConnectAsKeeps

LEMMA RetryFiresKeeps ==
    ASSUME IInv, NEW p \in Client, RetryFires(p)
    PROVE  IInv'
<1>1. /\ client[p].retry \in Timer /\ Counted(client[p].retry) /\ client[p].retry.live > 0
  BY ClientsAre DEF IInv, RetryFires
<1>2. PICK r : r = [live |-> client[p].retry.live - 1, handle |-> FALSE]
  OBVIOUS
<1>3. r \in Timer /\ Counted(r)
  BY <1>1, <1>2 DEF Timer, Counted
<1>4. ~client[p].overlapped => r = NoTimer
  <2>1. SUFFICES ASSUME Single(client[p].retry) PROVE r = NoTimer
    BY DEF IInv, Tidy
  <2>2. client[p].retry = Set(NoTimer)
    BY <1>1, <2>1, TimersAre DEF Single
  <2>3. client[p].retry.live - 1 = 0
    BY <2>2 DEF Set, NoTimer
  <2> QED
    BY <1>2, <2>3 DEF NoTimer
<1>5. ConnectAs(p, [client[p] EXCEPT !.retry = r], FALSE)
  BY <1>2 DEF RetryFires
<1>6. spent' \in 0..MaxEvents
  BY SpentIs DEF RetryFires, IInv
<1> QED
  BY <1>3, <1>4, <1>5, <1>6, ConnectAsKeeps

-----------------------------------------------------------------------------
(* The server's steps. *)

\* A step of the server, as the clients see it.
FarStep ==
    /\ TypeOK' /\ ws' \in Sockets /\ UNCHANGED <<client, calls>> /\ Logs /\ Len(invokes') <= MaxInvokes
    /\ \A t \in Socket :
          /\ ws'[t].owner = ws[t].owner /\ ws'[t].near = ws[t].near
          /\ ws'[t].timer = ws[t].timer /\ ws'[t].ear = ws[t].ear
          /\ ws[t].owner = Nobody => ws'[t] = ws[t]

\* The handlers of a stream's requests are as before.
SameWork(t) ==
    /\ stream'[t].started = stream[t].started /\ stream'[t].works = stream[t].works
    /\ stream'[t].held \in {stream[t].held, <<>>}

LEMMA FarStepKeeps ==
    ASSUME IInv, FarStep
    PROVE  /\ Numbered' /\ Len(calls') <= MaxCalls
           /\ \A p \in Client : Fields(p)' /\ Tidy(p)'
           /\ \A s \in Socket : Keeps(ws'[s].up, ws[s].up, Asks) => KnownUp(s)'
           /\ \A s \in Socket : Keeps(ws'[s].down, ws[s].down, Asks) => KnownDown(s)'
           /\ \A s \in Socket : SameWork(s) => KnownCalls(s)'
           /\ \A s \in Socket : SameWork(s) /\ Keeps(ws'[s].up, ws[s].up, Requests) => Order(s)'
           /\ \A s \in Socket : SameWork(s) /\ Keeps(ws'[s].down, ws[s].down, Replies) => RepliesOnce(s)'
<1>1. ws \in Sockets /\ ws' \in Sockets
  BY TypesAre DEF IInv, Base, FarStep
<1>2. Numbered'
  BY UsedSame DEF IInv, FarStep
<1>3. ASSUME NEW p \in Client
      PROVE  Fields(p)' /\ Tidy(p)'
  <2>1. Fields(p) /\ client[p].ws \in {Nobody} \cup Socket
    BY ClientsAre DEF IInv, Base
  <2>2. ASSUME NEW i \in client[p].tasks
        PROVE  i \in DOMAIN invokes' /\ ws'[invokes'[i].on].owner = p
    <3>1. i \in DOMAIN invokes /\ ws[invokes[i].on].owner = p
      BY <2>1, <2>2 DEF Fields
    <3>2. invokes[i].on \in Socket
      BY <3>1, InvokesAre DEF IInv, Base
    <3> QED
      BY <3>1, <3>2 DEF FarStep, Logs
  <2>3. Fields(p)'
    BY <2>1, <2>2 DEF Fields, FarStep
  <2>4. Tidy(p)'
    BY TidyCarried DEF IInv, FarStep
  <2> QED
    BY <2>3, <2>4
<1>4. \A s \in Socket : Keeps(ws'[s].up, ws[s].up, Asks) => KnownUp(s)'
  BY <1>1, KnownCarried DEF IInv, Base, FarStep
<1>5. \A s \in Socket : Keeps(ws'[s].down, ws[s].down, Asks) => KnownDown(s)'
  BY <1>1, KnownCarried DEF IInv, Base, FarStep
<1>6. ASSUME NEW s \in Socket, SameWork(s)
      PROVE  KnownCalls(s)'
  <2>1. KnownCalls(s)
    BY DEF IInv, Base, Known
  <2>2. \A j \in DOMAIN stream'[s].held : j \in DOMAIN stream[s].held /\ stream'[s].held[j] = stream[s].held[j]
    BY <1>6 DEF SameWork
  <2> QED
    BY <1>6, <2>1, <2>2 DEF KnownCalls, SameWork, FarStep
<1>7. \A s \in Socket : SameWork(s) /\ Keeps(ws'[s].up, ws[s].up, Requests) => Order(s)'
  BY <1>1, OrderCarried DEF IInv, Served, SameWork
<1>8. \A s \in Socket : SameWork(s) /\ Keeps(ws'[s].down, ws[s].down, Replies) => RepliesOnce(s)'
  BY <1>1, RepliesCarried DEF IInv, Served, SameWork
<1>9. Len(calls') <= MaxCalls
  BY DEF IInv, Base, FarStep
<1> QED
  BY <1>2, <1>3, <1>4, <1>5, <1>6, <1>7, <1>8, <1>9

\* One that asks and answers nothing new.
FarQuiet ==
    /\ FarStep
    /\ \A t \in Socket :
          /\ SameWork(t) /\ Bare(t)' /\ Alive(t)'
          /\ Keeps(ws'[t].up, ws[t].up, Asks) /\ Keeps(ws'[t].down, ws[t].down, Asks)
    /\ Registered'

LEMMA FarQuietRest ==
    ASSUME IInv, FarQuiet
    PROVE  /\ Base' /\ Registered' /\ InvokesOnce'
           /\ \A t \in Socket : Served(t)'
           /\ \A p \in Client : Tidy(p)'
           /\ ~Excuse => \A t \in Socket : CallsDue(t)'
<1>1. ws \in Sockets /\ ws' \in Sockets /\ FarStep
  BY TypesAre DEF IInv, Base, FarQuiet, FarStep
<1>2. \A t \in Socket : Keeps(ws'[t].up, ws[t].up, Requests) /\ Keeps(ws'[t].down, ws[t].down, Replies)
  BY KeepsFewer, AsksAre DEF FarQuiet
<1>3. Base'
  <2>1. \A t \in Socket : Bare(t)' /\ Known(t)'
    BY <1>1, FarStepKeeps DEF FarQuiet, Known
  <2> QED
    BY <1>1, <2>1, FarStepKeeps DEF Base, FarStep
<1>4. \A t \in Socket : Served(t)'
  BY <1>1, <1>2, FarStepKeeps DEF FarQuiet, Served
<1>5. InvokesOnce'
  BY <1>1, OnceCarried DEF IInv, InvokesOnce, FarQuiet, FarStep
<1>6. ASSUME ~Excuse, NEW t \in Socket
      PROVE  CallsDue(t)'
  <2>1. InUse(t)' => InUse(t)
    BY <1>1 DEF InUse, FarStep
  <2>2. CallsDue(t) /\ Known(t) /\ RepliesOnce(t)
    BY <1>6 DEF IInv, Honest, Base, Served
  <2> QED
    BY <1>1, <1>2, <2>1, <2>2, CallsDueCarried DEF FarQuiet, FarStep, SameWork, Pending
<1> QED
  BY <1>1, <1>3, <1>4, <1>5, <1>6, FarStepKeeps DEF FarQuiet

LEMMA FarQuietKeeps ==
    ASSUME IInv, FarQuiet,
           ~Excuse' /\ ~Excuse =>
              /\ \A i \in DOMAIN invokes : Waits(i) => Stays(i)
              /\ \A t \in Socket : Keeps(ws'[t].up, ws[t].up, Every) /\ Keeps(ws'[t].down, ws[t].down, Every)
    PROVE  IInv'
<1>1. ws \in Sockets /\ ws' \in Sockets /\ Logs /\ client' = client
  BY TypesAre DEF IInv, Base, FarQuiet, FarStep
<1>2. Honest'
  <2>1. SUFFICES ASSUME ~Excuse'
                 PROVE  /\ \A t \in Socket : ~Bad(ws'[t].up) /\ ~Bad(ws'[t].down)
                        /\ \A t \in Socket : CallsDue(t)'
                        /\ \A t \in Socket : AskedDue(t)' /\ AnsweredDue(t)'
                        /\ \A q \in Client : WorkDue(q)'
    BY DEF Honest, Bad
  <2>2. ~Excuse
    BY <1>1, <2>1, ExcuseStays
  <2>3. \A t \in Socket : ~Bad(ws'[t].up) /\ ~Bad(ws'[t].down)
    BY <1>1, <2>1, <2>2, GoodCarried DEF IInv, Honest
  <2>4. \A t \in Socket : CallsDue(t)'
    BY <2>2, FarQuietRest
  <2>5. \A t \in Socket : AskedDue(t)' /\ AnsweredDue(t)'
    BY <1>1, <2>1, <2>2, InvokesDueCarried DEF IInv, Honest, Base, FarQuiet
  <2>6. \A q \in Client : WorkDue(q)'
    <3>1. \A q \in Client : client[q].ws \in {Nobody} \cup Socket
      BY ClientsAre DEF IInv
    <3>2. \A q \in Client : WorkDue(q) /\ Fields(q)
      BY <2>2 DEF IInv, Honest, Base
    <3> QED
      BY <1>1, <2>1, <2>2, <3>1, <3>2, WorkDueCarried
  <2> QED
    BY <2>3, <2>4, <2>5, <2>6
<1> QED
  BY <1>2, FarQuietRest DEF IInv

LEMMA FarCarries ==
    ASSUME NEW s, NEW K, K \subseteq Every, FarDoes(ws', ws, s, K), s \in Socket => ws[s].owner # Nobody
    PROVE  /\ ws' \in Sockets
           /\ \A t \in Socket :
                 /\ ws'[t].owner = ws[t].owner /\ ws'[t].near = ws[t].near
                 /\ ws'[t].timer = ws[t].timer /\ ws'[t].ear = ws[t].ear
                 /\ ws[t].owner = Nobody => ws'[t] = ws[t]
                 /\ t # s => ws'[t] = ws[t]
                 /\ Keeps(ws'[t].up, ws[t].up, K) /\ Keeps(ws'[t].down, ws[t].down, K)
<1>1. \A t \in Socket : Keeps(ws'[t].up, ws[t].up, K)
  BY KeepsFewer DEF FarDoes
<1> QED
  BY <1>1 DEF FarDoes, SameEnds

\* Frames come and go, and nothing else.
LEMMA FarFramesOnly ==
    ASSUME IInv, ws' \in Sockets, UNCHANGED <<client, stream, calls, invokes>>, spent' \in 0..MaxEvents,
           maps' \in MapsType, maps'.byId = maps.byId, maps'.pending = maps.pending, maps'.active = maps.active,
           \A t \in Socket :
              /\ ws'[t].owner = ws[t].owner /\ ws'[t].near = ws[t].near /\ ws'[t].far = ws[t].far
              /\ ws'[t].timer = ws[t].timer /\ ws'[t].ear = ws[t].ear
              /\ ws[t].owner = Nobody => ws'[t] = ws[t]
              /\ Keeps(ws'[t].up, ws[t].up, Every) /\ Keeps(ws'[t].down, ws[t].down, Every)
    PROVE  IInv'
<1>1. TypeOK'
  <2>1. /\ client \in [Client -> ClientType] /\ stream \in [Socket -> StreamType]
        /\ calls \in Seq(CallType) /\ invokes \in Seq(InvokeType)
    BY TypesAre DEF IInv, Base
  <2> QED
    BY <2>1, TypesThen
<1>2. FarStep
  <2>1. Logs
    BY DEF Logs
  <2> QED
    BY <1>1, <2>1 DEF FarStep, IInv, Base
<1>3. ASSUME NEW t \in Socket
      PROVE  Bare(t)' /\ Alive(t)' /\ SameWork(t)
  <2>1. Bare(t)'
    BY DEF IInv, Base, Bare
  <2>2. Alive(t)'
    BY AliveSame DEF IInv, Served
  <2> QED
    BY <2>1, <2>2 DEF SameWork
<1>4. FarQuiet
  <2>1. \A t \in Socket : Keeps(ws'[t].up, ws[t].up, Asks) /\ Keeps(ws'[t].down, ws[t].down, Asks)
    BY KeepsFewer, AsksAre
  <2> QED
    BY <1>2, <1>3, <2>1 DEF FarQuiet, IInv, Registered
<1>5. \A i \in DOMAIN invokes : Waits(i) => Stays(i)
  BY DEF Waits, WaitsThen, Stays
<1> QED
  BY <1>4, <1>5, FarQuietKeeps

\* The server reads on a socket that has an owner and that it has accepted.
LEMMA ReadsOther ==
    ASSUME IInv, NEW s \in Socket, NEW kind, FarReads(s, kind)
    PROVE  /\ ws \in Sockets /\ ws[s].owner # Nobody /\ ws[s].up # <<>> /\ ws[s].far \in {"open", "closing"}
           /\ Head(ws[s].up) \in Frame /\ Head(ws[s].up) = ws[s].up[1] /\ 1 \in DOMAIN ws[s].up
           /\ Head(ws[s].up).kind = kind
<1>1. ws \in Sockets /\ ws[s].up \in Seq(Frame)
  BY TypesAre, SocketFields DEF IInv, Base
<1>2. ws[s].up # <<>> /\ ws[s].far \in {"open", "closing"} /\ Head(ws[s].up).kind = kind
  BY DEF FarReads
<1>3. Head(ws[s].up) \in Frame /\ Head(ws[s].up) = ws[s].up[1] /\ 1 \in DOMAIN ws[s].up
  BY <1>1, <1>2
<1>4. ws[s].owner # Nobody
  <2>1. NoSocket.up = <<>>
    BY DEF NoSocket
  <2> QED
    BY <1>2, <2>1 DEF IInv, Base, Bare
<1> QED
  BY <1>1, <1>2, <1>3, <1>4

\* What a stream that was accepted has.
LEMMA StreamsAre ==
    ASSUME IInv, NEW s \in Socket
    PROVE  /\ stream[s] \in StreamType /\ stream \in [Socket -> StreamType] /\ maps \in MapsType
           /\ stream[s].phase # "none" => ws[s].far # "unused" /\ ws[s].owner # Nobody
           /\ stream[s].live => stream[s].phase # "none"
<1>1. stream \in [Socket -> StreamType] /\ maps \in MapsType
  BY TypesAre DEF IInv, Base
<1>2. stream[s].phase # "none" => ws[s].far # "unused" /\ ws[s].owner # Nobody
  BY DEF IInv, Base, Bare, NoSocket
<1>3. stream[s].live => stream[s].phase # "none"
  <2>1. NoStream.live = FALSE
    BY DEF NoStream
  <2> QED
    BY <2>1 DEF IInv, Base, Bare
<1> QED
  BY <1>1, <1>2, <1>3

LEMMA UnheardKeeps ==
    ASSUME IInv, NEW s \in Socket, Unheard(s)
    PROVE  IInv'
<1>1. ws \in Sockets /\ ws[s].owner # Nobody /\ ws[s].up # <<>>
  BY ReadsOther DEF Unheard
<1>2. ws' = PopUp(ws, s) /\ UNCHANGED <<client, stream, maps, calls, invokes, spent>> /\ spent' \in 0..MaxEvents
  BY SpentIs DEF Unheard, IInv
<1>3. FarDoes(ws', ws, s, Every) /\ \A t \in Socket : ws'[t].far = ws[t].far
  BY <1>1, <1>2, PopUpDoes
<1>4. maps' = maps /\ maps \in MapsType
  BY <1>2, StreamsAre
<1> QED
  BY <1>1, <1>2, <1>3, <1>4, FarCarries, FarFramesOnly, AsksAre

LEMMA CutKeeps ==
    ASSUME IInv, NEW s \in Socket, Cut(s)
    PROVE  IInv'
<1>1. ws \in Sockets /\ ws[s] \in SocketType /\ ws[s].owner # Nobody /\ spent' \in 0..MaxEvents
  BY TypesAre, SpentIs, SocketFields DEF Cut, IInv, Base
<1>2. PICK v : v = [ws[s] EXCEPT !.cut = TRUE, !.up = <<>>, !.down = <<>>]
  OBVIOUS
<1>3. v \in SocketType
  <2>1. <<>> \in Seq(Frame)
    OBVIOUS
  <2> QED
    BY <1>1, <1>2, <2>1 DEF SocketType
<1>4. /\ v.owner = ws[s].owner /\ v.near = ws[s].near /\ v.far = ws[s].far /\ v.timer = ws[s].timer /\ v.ear = ws[s].ear
      /\ v.up = <<>> /\ v.down = <<>>
  BY <1>1, <1>2 DEF SocketType
<1>5. ws' = [ws EXCEPT ![s] = v]
  BY <1>1, <1>2 DEF Cut, Sockets
<1>6. ws' \in Sockets /\ \A t \in Socket : ws'[t] = IF t = s THEN v ELSE ws[t]
  BY <1>1, <1>3, <1>5 DEF Sockets
<1>7. \A t \in Socket : Keeps(ws'[t].up, ws[t].up, Every) /\ Keeps(ws'[t].down, ws[t].down, Every)
  <2>1. ASSUME NEW t \in Socket
        PROVE  Keeps(ws'[t].up, ws[t].up, Every) /\ Keeps(ws'[t].down, ws[t].down, Every)
    <3>1. CASE t = s
      BY <1>1, <1>4, <1>6, <3>1, KeepsNone, SocketFields
    <3>2. CASE t # s
      BY <1>1, <1>6, <3>2, SocketFields
    <3> QED
      BY <3>1, <3>2
  <2> QED
    BY <2>1
<1>8. UNCHANGED <<client, stream, maps, calls, invokes>> /\ maps \in MapsType
  BY TypesAre DEF Cut, IInv, Base
<1>9. \A t \in Socket :
              /\ ws'[t].owner = ws[t].owner /\ ws'[t].near = ws[t].near /\ ws'[t].far = ws[t].far
              /\ ws'[t].timer = ws[t].timer /\ ws'[t].ear = ws[t].ear
              /\ ws[t].owner = Nobody => ws'[t] = ws[t]
  BY <1>1, <1>4, <1>6
<1> QED
  BY <1>1, <1>6, <1>7, <1>8, <1>9, FarFramesOnly

\* Stream s becomes r, with the same requests at work, and socket s perhaps gets frames.
LEMMA OneStreamChanges ==
    ASSUME IInv, NEW s \in Socket, NEW r \in StreamType, stream' = [stream EXCEPT ![s] = r],
           r.started = stream[s].started, r.works = stream[s].works, r.held = stream[s].held,
           r.phase # "none", ws[s].owner # Nobody,
           FarDoes(ws', ws, s, Every), \A t \in Socket : ws'[t].far = ws[t].far, ws[s].far # "unused",
           UNCHANGED <<client, calls, invokes, spent>>, maps' \in MapsType, maps'.byId = maps.byId, Registered',
           stream[s].phase # "none", Alive(s)'
    PROVE  IInv'
<1>1. stream \in [Socket -> StreamType]
  BY TypesAre DEF IInv, Base
<1>2. stream' \in [Socket -> StreamType] /\ \A t \in Socket : stream'[t] = IF t = s THEN r ELSE stream[t]
  BY <1>1
<1>3. /\ ws' \in Sockets
      /\ \A t \in Socket :
            /\ ws'[t].owner = ws[t].owner /\ ws'[t].near = ws[t].near
            /\ ws'[t].timer = ws[t].timer /\ ws'[t].ear = ws[t].ear
            /\ ws[t].owner = Nobody => ws'[t] = ws[t]
            /\ t # s => ws'[t] = ws[t]
            /\ Keeps(ws'[t].up, ws[t].up, Every) /\ Keeps(ws'[t].down, ws[t].down, Every)
  BY FarCarries, AsksAre
<1>4. TypeOK'
  <2>1. /\ client \in [Client -> ClientType] /\ spent \in 0..MaxEvents
        /\ calls \in Seq(CallType) /\ invokes \in Seq(InvokeType)
    BY TypesAre DEF IInv, Base
  <2> QED
    BY <1>2, <1>3, <2>1, TypesThen
<1>5. FarStep
  <2>1. Logs
    BY DEF Logs
  <2> QED
    BY <1>3, <1>4, <2>1 DEF FarStep, IInv, Base
<1>6. ASSUME NEW t \in Socket
      PROVE  Bare(t)' /\ Alive(t)' /\ SameWork(t)
  <2>1. Bare(t)'
    BY <1>2, <1>3 DEF IInv, Base, Bare
  <2>2. Alive(t)'
    BY <1>2, AliveSame DEF IInv, Served
  <2> QED
    BY <1>2, <2>1, <2>2 DEF SameWork
<1>7. FarQuiet
  <2>1. \A t \in Socket : Keeps(ws'[t].up, ws[t].up, Asks) /\ Keeps(ws'[t].down, ws[t].down, Asks)
    BY <1>3, KeepsFewer, AsksAre
  <2> QED
    BY <1>5, <1>6, <2>1 DEF FarQuiet
<1>8. \A i \in DOMAIN invokes : Waits(i) => Stays(i)
  BY <1>2 DEF Waits, WaitsThen, Stays
<1> QED
  BY <1>3, <1>7, <1>8, FarQuietKeeps

LEMMA CheckPassesKeeps ==
    ASSUME IInv, NEW s \in Socket, CheckPasses(s)
    PROVE  IInv'
<1>1. /\ stream[s] \in StreamType /\ stream[s].phase = "checking" /\ maps \in MapsType
      /\ ws[s].far # "unused" /\ ws[s].owner # Nobody
  BY StreamsAre DEF CheckPasses
<1>2. PICK r : r = [stream[s] EXCEPT !.phase = "connecting"]
  OBVIOUS
<1>3. r \in StreamType
  BY <1>1, <1>2 DEF StreamType
<1>4. /\ r.phase = "connecting" /\ r.live = stream[s].live /\ r.blocked = stream[s].blocked
      /\ r.revived = stream[s].revived /\ r.told = stream[s].told
      /\ r.held = stream[s].held /\ r.started = stream[s].started /\ r.works = stream[s].works
  BY <1>1, <1>2 DEF StreamType
<1>5. stream' = [stream EXCEPT ![s] = r] /\ UNCHANGED <<client, maps, calls, invokes, spent>>
  BY <1>2 DEF CheckPasses
<1>6. stream'[s] = r
  BY <1>5, StreamsAre
<1>7. FarDoes(ws', ws, s, Every) /\ \A t \in Socket : ws'[t].far = ws[t].far
  <2>1. ws \in Sockets /\ Ping \in Frame /\ Mark(Ping) \notin Every
    BY TypesAre, FramesAre, MarksAre, AsksAre DEF IInv, Base
  <2> QED
    BY <2>1, WriteDownDoes DEF CheckPasses
<1>8. Alive(s)'
  BY <1>1, <1>4, <1>5, <1>6, <1>7 DEF IInv, Served, Alive, HoldsRequests
<1>9. Registered'
  BY <1>5 DEF IInv, Registered
<1> QED
  BY <1>1, <1>3, <1>4, <1>5, <1>7, <1>8, <1>9, OneStreamChanges

LEMMA ActivateKeeps ==
    ASSUME IInv, NEW s \in Socket, Activate(s)
    PROVE  IInv'
<1>1. /\ stream[s] \in StreamType /\ stream[s].phase = "connecting" /\ maps \in MapsType
      /\ ws[s].far # "unused" /\ ws[s].owner # Nobody /\ s # Nobody
  BY StreamsAre, NobodyIsNoSocket DEF Activate
<1>2. PICK r : r = [stream[s] EXCEPT !.phase = "activating"]
  OBVIOUS
<1>3. r \in StreamType
  BY <1>1, <1>2 DEF StreamType
<1>4. /\ r.phase = "activating" /\ r.live = stream[s].live /\ r.blocked = stream[s].blocked
      /\ r.revived = stream[s].revived /\ r.told = stream[s].told
      /\ r.held = stream[s].held /\ r.started = stream[s].started /\ r.works = stream[s].works
  BY <1>1, <1>2 DEF StreamType
<1>5. stream' = [stream EXCEPT ![s] = r] /\ UNCHANGED <<client, ws, calls, invokes, spent>>
  BY <1>2 DEF Activate
<1>6. stream'[s] = r
  BY <1>5, StreamsAre
<1>7. FarDoes(ws', ws, s, Every) /\ \A t \in Socket : ws'[t].far = ws[t].far
  <2>1. ws \in Sockets /\ ws' = ws
    BY <1>5, TypesAre DEF IInv, Base
  <2> QED
    BY <2>1, NearStays
<1>8. maps' \in MapsType /\ maps'.byId = maps.byId /\ maps'.pending = Nobody /\ maps'.active = s
  <2>1. maps' = [maps EXCEPT !.pending = Nobody, !.active = s]
    BY DEF Activate
  <2>2. maps' \in MapsType
    BY <1>1, <2>1 DEF MapsType
  <2> QED
    BY <1>1, <2>1, <2>2 DEF MapsType
<1>9. maps.byId = {s}
  BY <1>1 DEF IInv, Registered, Activate, Current
<1>10. Registered'
  BY <1>1, <1>8, <1>9 DEF Registered
<1>11. Alive(s)'
  <2>1. s \in maps.byId /\ stream[s].blocked
    BY <1>1, <1>9 DEF IInv, Served, Alive
  <2> QED
    BY <1>1, <1>4, <1>6, <1>7, <1>8, <2>1 DEF IInv, Served, Alive, HoldsRequests
<1> QED
  BY <1>1, <1>3, <1>4, <1>5, <1>7, <1>8, <1>10, <1>11, OneStreamChanges

LEMMA PingReadKeeps ==
    ASSUME IInv, NEW s \in Socket, PingRead(s)
    PROVE  IInv'
<1>1. ws \in Sockets /\ ws[s].owner # Nobody /\ ws[s].up # <<>> /\ ws[s].far # "unused"
  BY ReadsOther DEF PingRead
<1>2. stream[s] \in StreamType /\ stream[s].phase # "none" /\ maps \in MapsType
  BY StreamsAre DEF PingRead, Listens
<1>3. PICK r : r = [stream[s] EXCEPT !.live = TRUE, !.revived = (stream[s].revived \/ ~stream[s].live)]
  OBVIOUS
<1>4. r \in StreamType
  BY <1>2, <1>3 DEF StreamType
<1>5. /\ r.phase = stream[s].phase /\ r.live = TRUE /\ r.blocked = stream[s].blocked
      /\ r.revived = (stream[s].revived \/ ~stream[s].live) /\ r.told = stream[s].told
      /\ r.held = stream[s].held /\ r.started = stream[s].started /\ r.works = stream[s].works
  BY <1>2, <1>3 DEF StreamType
<1>6. stream' = [stream EXCEPT ![s] = r] /\ UNCHANGED <<client, maps, calls, invokes, spent>>
  BY <1>3 DEF PingRead
<1>7. stream'[s] = r
  BY <1>6, StreamsAre
<1>8. FarDoes(ws', ws, s, Every) /\ \A t \in Socket : ws'[t].far = ws[t].far
  BY <1>1, PopUpDoes DEF PingRead
<1>9. Alive(s)'
  <2>1. Alive(s) /\ r.told \in Nat /\ maps' = maps /\ ws'[s].far = ws[s].far
    BY <1>4, <1>6, <1>8 DEF IInv, Served, StreamType
  <2>2. r.told > 0 => r.revived
    BY <1>5, <2>1 DEF Alive
  <2> QED
    BY <1>2, <1>5, <1>7, <2>1, <2>2 DEF Alive, HoldsRequests
<1>10. Registered'
  BY <1>6 DEF IInv, Registered
<1> QED
  BY <1>1, <1>2, <1>4, <1>5, <1>6, <1>8, <1>9, <1>10, OneStreamChanges

LEMMA RejectAllDoes ==
    ASSUME TypeOK, NEW S, invokes' = RejectAll(S)
    PROVE  /\ invokes' \in Seq(InvokeType) /\ Len(invokes') = Len(invokes)
           /\ \A i \in DOMAIN invokes :
                 /\ i \in DOMAIN invokes' /\ invokes'[i].on = invokes[i].on
                 /\ invokes'[i].state = IF invokes[i].on \in S /\ invokes[i].state = "pending" THEN "rejected" ELSE invokes[i].state
<1>1. invokes \in Seq(InvokeType)
  BY TypesAre
<1>2. invokes' = [i \in DOMAIN invokes |-> IF invokes[i].on \in S /\ invokes[i].state = "pending"
                                           THEN [invokes[i] EXCEPT !.state = "rejected"] ELSE invokes[i]]
  BY DEF RejectAll
<1>3. ASSUME NEW i \in DOMAIN invokes
      PROVE  /\ [invokes[i] EXCEPT !.state = "rejected"] \in InvokeType
             /\ [invokes[i] EXCEPT !.state = "rejected"].on = invokes[i].on
             /\ [invokes[i] EXCEPT !.state = "rejected"].state = "rejected"
  <2>1. invokes[i] \in InvokeType
    BY <1>1
  <2> QED
    BY <2>1 DEF InvokeType
<1>4. \A i \in DOMAIN invokes : invokes'[i] \in InvokeType
  BY <1>1, <1>2, <1>3
<1>5. invokes' \in Seq(InvokeType) /\ Len(invokes') = Len(invokes)
  BY <1>1, <1>2, <1>4
<1> QED
  BY <1>2, <1>3, <1>5

LEMMA CleanedIs ==
    ASSUME NEW r \in StreamType
    PROVE  /\ Cleaned(r) \in StreamType /\ Cleaned(r).phase = r.phase /\ Cleaned(r).live = FALSE
           /\ Cleaned(r).revived = r.revived /\ Cleaned(r).told = r.told + 1 /\ Cleaned(r).held = <<>>
           /\ Cleaned(r).started = r.started /\ Cleaned(r).works = r.works
<1>1. Cleaned(r) \in StreamType
  <2>1. PICK k \in Nat : k = r.told + 1
    BY DEF StreamType
  <2>2. PICK q : q = <<>>
    OBVIOUS
  <2>3. q \in Seq(1..MaxCalls)
    BY <2>2
  <2>4. Cleaned(r) = [r EXCEPT !.live = FALSE, !.told = k, !.blocked = FALSE, !.held = q]
    BY <2>1, <2>2 DEF Cleaned
  <2> QED
    BY <2>3, <2>4 DEF StreamType
<1> QED
  BY <1>1 DEF StreamType, Cleaned

LEMMA ForgetDoes ==
    ASSUME NEW m \in MapsType, NEW s
    PROVE  /\ Forget(m, s) \in MapsType /\ Forget(m, s).byId = m.byId \ {s}
           /\ Forget(m, s).pending = (IF m.pending = s THEN Nobody ELSE m.pending)
           /\ Forget(m, s).active = (IF m.active = s THEN Nobody ELSE m.active)
<1>1. Forget(m, s) \in MapsType
  BY DEF MapsType, Forget
<1> QED
  BY <1>1 DEF MapsType, Forget

\* A living stream is cleaned up.
Cleans(s) ==
    /\ stream[s].live
    /\ stream' = [stream EXCEPT ![s] = Cleaned(stream[s])]
    /\ maps' \in MapsType /\ maps'.byId = maps.byId \ {s}
    /\ maps'.pending = (IF maps.pending = s THEN Nobody ELSE maps.pending)
    /\ maps'.active = (IF maps.active = s THEN Nobody ELSE maps.active)
    /\ invokes' = RejectAll({s})

LEMMA CleanupDoes ==
    ASSUME IInv, NEW s \in Socket, Cleanup(s)
    PROVE  Cleans(s) \/ (~stream[s].live /\ UNCHANGED <<stream, maps, invokes>>)
<1>1. CASE stream[s].live
  <2>1. maps' = Forget(maps, s) /\ maps \in MapsType
    BY <1>1, StreamsAre DEF Cleanup
  <2> QED
    BY <1>1, <2>1, ForgetDoes DEF Cleanup, Cleans
<1>2. CASE ~stream[s].live
  BY <1>2 DEF Cleanup
<1> QED
  BY <1>1, <1>2

\* The server's end of socket s closes.
LEMMA StreamEnds ==
    ASSUME IInv, NEW s \in Socket, ws[s].owner # Nobody,
           Cleans(s) \/ (~stream[s].live /\ UNCHANGED <<stream, maps, invokes>>),
           FarDoes(ws', ws, s, Asks), ~Excuse => FarDoes(ws', ws, s, Every),
           ws'[s].far # "open", ws'[s].far = "unused" => ws[s].far = "unused",
           UNCHANGED <<client, calls>>, spent' \in 0..MaxEvents
    PROVE  IInv'
<1>1. /\ ws' \in Sockets
      /\ \A t \in Socket :
            /\ ws'[t].owner = ws[t].owner /\ ws'[t].near = ws[t].near
            /\ ws'[t].timer = ws[t].timer /\ ws'[t].ear = ws[t].ear
            /\ ws[t].owner = Nobody => ws'[t] = ws[t]
            /\ t # s => ws'[t] = ws[t]
            /\ Keeps(ws'[t].up, ws[t].up, Asks) /\ Keeps(ws'[t].down, ws[t].down, Asks)
  BY FarCarries, AsksAre
<1>2. ~Excuse => \A t \in Socket : Keeps(ws'[t].up, ws[t].up, Every) /\ Keeps(ws'[t].down, ws[t].down, Every)
  BY FarCarries, AsksAre
<1>3. /\ client \in [Client -> ClientType] /\ stream \in [Socket -> StreamType] /\ maps \in MapsType
      /\ calls \in Seq(CallType) /\ invokes \in Seq(InvokeType)
  BY TypesAre DEF IInv, Base
<1>4. stream[s] \in StreamType /\ (stream[s].live => stream[s].phase # "none")
  BY StreamsAre
<1>5. CASE Cleans(s)
  <2>1. /\ invokes' \in Seq(InvokeType) /\ Len(invokes') = Len(invokes)
        /\ \A i \in DOMAIN invokes :
              /\ i \in DOMAIN invokes' /\ invokes'[i].on = invokes[i].on
              /\ invokes'[i].state = IF invokes[i].on \in {s} /\ invokes[i].state = "pending" THEN "rejected" ELSE invokes[i].state
    BY <1>5, RejectAllDoes DEF IInv, Base, Cleans
  <2>2. PICK r : r = Cleaned(stream[s])
    OBVIOUS
  <2>3. /\ r \in StreamType /\ r.phase = stream[s].phase /\ r.live = FALSE
        /\ r.revived = stream[s].revived /\ r.told = stream[s].told + 1 /\ r.held = <<>>
        /\ r.started = stream[s].started /\ r.works = stream[s].works
    BY <1>4, <2>2, CleanedIs
  <2>4. stream' \in [Socket -> StreamType] /\ \A t \in Socket : stream'[t] = IF t = s THEN r ELSE stream[t]
    BY <1>3, <1>5, <2>2, <2>3 DEF Cleans
  <2>5. TypeOK'
    BY <1>1, <1>3, <1>5, <2>1, <2>4, TypesThen DEF Cleans
  <2>6. FarStep
    <3>1. Logs
      BY <2>1 DEF Logs
    <3> QED
      BY <1>1, <2>1, <2>5, <3>1 DEF FarStep, IInv, Base
  <2>7. ASSUME NEW t \in Socket
        PROVE  SameWork(t) /\ Bare(t)' /\ Alive(t)'
    <3>1. CASE t # s
      <4>1. stream'[t] = stream[t] /\ ws'[t] = ws[t] /\ (t \in maps'.byId <=> t \in maps.byId)
        BY <1>1, <1>5, <2>4, <3>1 DEF Cleans
      <4> QED
        BY <4>1, AliveSame DEF IInv, Base, Served, Bare, SameWork
    <3>2. CASE t = s
      <4>1. stream'[s] = r /\ s \notin maps'.byId
        BY <1>5, <2>4 DEF Cleans
      <4>2. SameWork(s)
        BY <2>3, <4>1 DEF SameWork
      <4>3. Bare(s)'
        BY <1>1, <1>4, <1>5, <2>3, <4>1 DEF IInv, Base, Bare, Cleans
      <4>4. stream[s].told \in Nat /\ r.told > 0
        BY <1>4, <2>3 DEF StreamType
      <4>5. r.told > 1 => r.revived
        BY <1>5, <2>3, <4>4 DEF IInv, Served, Alive, Cleans
      <4>6. Alive(s)'
        BY <2>3, <4>1, <4>4, <4>5 DEF Alive
      <4> QED
        BY <3>2, <4>2, <4>3, <4>6
    <3> QED
      BY <3>1, <3>2
  <2>8. Registered'
    BY <1>5, NobodyIsNoSocket DEF IInv, Registered, Cleans
  <2>9. FarQuiet
    BY <1>1, <2>6, <2>7, <2>8 DEF FarQuiet
  <2>10. ASSUME ~Excuse', NEW i \in DOMAIN invokes, Waits(i)
         PROVE  Stays(i)
    <3>1. invokes'[i].state # "rejected"
      BY <2>1, <2>10 DEF Excuse
    <3>2. invokes[i].on # s /\ invokes'[i].state = "pending"
      BY <2>1, <2>10, <3>1 DEF Waits
    <3>3. invokes'[i].on \in maps'.byId
      BY <1>5, <2>1, <2>10, <3>2 DEF Waits, Cleans
    <3> QED
      BY <2>3, <2>4, <3>2, <3>3 DEF Stays, WaitsThen
  <2> QED
    BY <1>2, <2>9, <2>10, FarQuietKeeps
<1>6. CASE ~stream[s].live /\ UNCHANGED <<stream, maps, invokes>>
  <2>1. TypeOK'
    BY <1>1, <1>3, <1>6, TypesThen
  <2>2. FarStep
    <3>1. Logs
      BY <1>6 DEF Logs
    <3> QED
      BY <1>1, <1>6, <2>1, <3>1 DEF FarStep, IInv, Base
  <2>3. ASSUME NEW t \in Socket
        PROVE  SameWork(t) /\ Bare(t)' /\ Alive(t)'
    <3>1. CASE t # s
      <4>1. stream'[t] = stream[t] /\ ws'[t] = ws[t] /\ (t \in maps'.byId <=> t \in maps.byId)
        BY <1>1, <1>6, <3>1
      <4> QED
        BY <4>1, AliveSame DEF IInv, Base, Served, Bare, SameWork
    <3>2. CASE t = s
      <4>1. stream'[s] = stream[s] /\ maps' = maps
        BY <1>6
      <4>2. s \notin maps.byId
        BY <1>6 DEF IInv, Served, Alive
      <4>3. Alive(s)'
        BY <4>1, <4>2 DEF IInv, Served, Alive, HoldsRequests
      <4>4. Bare(s)'
        BY <1>1, <4>1 DEF IInv, Base, Bare
      <4> QED
        BY <3>2, <4>1, <4>3, <4>4 DEF SameWork
    <3> QED
      BY <3>1, <3>2
  <2>4. FarQuiet
    BY <1>1, <1>6, <2>2, <2>3 DEF FarQuiet, IInv, Registered
  <2>5. \A i \in DOMAIN invokes : Waits(i) => Stays(i)
    BY <1>6 DEF Waits, WaitsThen, Stays
  <2> QED
    BY <1>2, <2>4, <2>5, FarQuietKeeps
<1> QED
  BY <1>5, <1>6

LEMMA ClosesFar ==
    ASSUME IInv, NEW s \in Socket, NEW cause \in Cause, cause # "badArg", ws' = CloseFar(ws, s, cause)
    PROVE  /\ FarDoes(ws', ws, s, Asks) /\ FarDoes(ws', ws, s, Every)
           /\ ws'[s].far # "open" /\ (ws'[s].far = "unused" => ws[s].far = "unused")
<1>1. ws \in Sockets /\ Mark(Bye(cause)) \notin Every /\ Mark(Bye(cause)) \notin Asks
  BY TypesAre, MarksAre, AsksAre DEF IInv, Base
<1> QED
  BY <1>1, CloseFarDoes

LEMMA HandlersFailKeeps ==
    ASSUME IInv, NEW s \in Socket, HandlersFail(s) \/ Inactive(s)
    PROVE  IInv'
<1>1. Cleanup(s) /\ UNCHANGED <<client, calls>>
  BY DEF HandlersFail, Inactive
<1>2. ws[s].owner # Nobody
  <2>1. stream[s].phase # "none"
    BY DEF IInv, Served, Alive, HandlersFail, Inactive
  <2> QED
    BY <2>1, StreamsAre
<1>3. spent' \in 0..MaxEvents
  BY SilentSpends, SpentIs DEF HandlersFail, Inactive, IInv
<1>4. PICK cause \in Cause : cause # "badArg" /\ ws' = CloseFar(ws, s, cause)
  <2>1. "disconnect" \in Cause /\ "timeout" \in Cause
    BY DEF Cause
  <2> QED
    BY <2>1 DEF HandlersFail, Inactive
<1>5. /\ FarDoes(ws', ws, s, Asks) /\ FarDoes(ws', ws, s, Every)
      /\ ws'[s].far # "open" /\ (ws'[s].far = "unused" => ws[s].far = "unused")
  BY <1>4, ClosesFar
<1> QED
  BY <1>1, <1>2, <1>3, <1>5, CleanupDoes, StreamEnds

LEMMA FarEndsKeeps ==
    ASSUME IInv, NEW s \in Socket, ByeRead(s) \/ FarFails(s) \/ FarNotices(s)
    PROVE  IInv'
<1>1. PICK cause \in Cause : FarEnds(s, cause) /\ (~Excuse => cause # "badArg")
  <2>1. CASE ByeRead(s)
    <3>1. PICK f \in Frame : f = Head(ws[s].up) /\ f = ws[s].up[1] /\ 1 \in DOMAIN ws[s].up /\ f.kind = "bye"
      BY <2>1, ReadsOther DEF ByeRead
    <3>2. f.cause \in Cause /\ FarEnds(s, f.cause)
      BY <2>1, <3>1 DEF ByeRead, Frame
    <3>3. ~Excuse => f.cause # "badArg"
      BY <3>1 DEF IInv, Honest, Bad
    <3> QED
      BY <3>2, <3>3
  <2>2. CASE FarFails(s) \/ FarNotices(s)
    <3>1. "disconnect" \in Cause
      BY DEF Cause
    <3> QED
      BY <2>2, <3>1 DEF FarFails, FarNotices
  <2> QED
    BY <2>1, <2>2
<1>2. ws[s].owner # Nobody
  <2>1. CASE ByeRead(s)
    BY <2>1, ReadsOther DEF ByeRead
  <2>2. CASE FarFails(s) \/ FarNotices(s)
    BY <2>2 DEF FarFails, FarNotices, IInv, Base, Bare, NoSocket
  <2> QED
    BY <2>1, <2>2
<1>3. ws' = EndFar(ws, s, cause) /\ Cleanup(s) /\ UNCHANGED <<client, calls, spent>> /\ spent' \in 0..MaxEvents
  BY <1>1, SpentIs DEF FarEnds, IInv
<1>4. ws \in Sockets /\ Mark(Bye(cause)) \notin Asks /\ (~Excuse => Mark(Bye(cause)) \notin Every)
  BY <1>1, TypesAre, MarksAre, AsksAre DEF IInv, Base
<1>5. FarDoes(ws', ws, s, Asks) /\ ws'[s].far = "closed"
  BY <1>3, <1>4, EndFarDoes
<1>6. ~Excuse => FarDoes(ws', ws, s, Every)
  BY <1>3, <1>4, EndFarDoes
<1> QED
  BY <1>2, <1>3, <1>5, <1>6, CleanupDoes, StreamEnds

LEMMA CurrentIs ==
    ASSUME IInv
    PROVE  /\ Current \in {Nobody} \cup Socket /\ maps.byId = {Current} \ {Nobody}
           /\ Current = Nobody => maps.pending = Nobody /\ maps.active = Nobody
           /\ maps.pending \in {Nobody, Current} /\ maps.active \in {Nobody, Current}
<1>1. maps \in MapsType
  BY TypesAre DEF IInv, Base
<1>2. maps.pending \in {Nobody} \cup Socket /\ maps.active \in {Nobody} \cup Socket
  BY <1>1 DEF MapsType
<1>3. Registered
  BY DEF IInv
<1>4. CASE maps.pending = Nobody
  BY <1>2, <1>3, <1>4 DEF Current, Registered
<1>5. CASE maps.pending # Nobody
  BY <1>2, <1>3, <1>5 DEF Current, Registered
<1> QED
  BY <1>4, <1>5

LEMMA ServerClosesKeeps ==
    ASSUME IInv, ServerCloses
    PROVE  IInv'
<1>1. maps \in MapsType
  BY TypesAre DEF IInv, Base
<1>2. PICK s : s = Current
  OBVIOUS
<1>3. PICK m \in MapsType : /\ m = Forget(maps, s) /\ m.byId = maps.byId \ {s}
                            /\ m.pending = (IF maps.pending = s THEN Nobody ELSE maps.pending)
                            /\ m.active = (IF maps.active = s THEN Nobody ELSE maps.active)
  BY <1>1, ForgetDoes
<1>4. maps' \in MapsType /\ maps'.byId = m.byId /\ maps'.pending = m.pending /\ maps'.active = m.active
  <2>1. maps' = [m EXCEPT !.serving = FALSE]
    BY <1>2, <1>3 DEF ServerCloses
  <2>2. maps' \in MapsType
    BY <2>1 DEF MapsType
  <2> QED
    BY <2>1, <2>2 DEF MapsType
<1>5. UNCHANGED <<client, calls>> /\ spent' \in 0..MaxEvents
  BY SpentIs DEF ServerCloses, IInv
<1>6. CASE s = Nobody
  <2>1. UNCHANGED <<ws, stream, invokes>> /\ ws \in Sockets
    BY <1>2, <1>6, TypesAre DEF ServerCloses, IInv, Base
  <2>2. maps'.byId = maps.byId /\ maps'.pending = maps.pending /\ maps'.active = maps.active
    BY <1>2, <1>3, <1>4, <1>6, CurrentIs
  <2>3. \A t \in Socket : Keeps(ws'[t].up, ws[t].up, Every) /\ Keeps(ws'[t].down, ws[t].down, Every)
    BY <2>1, SocketFields
  <2> QED
    BY <1>4, <1>5, <2>1, <2>2, <2>3, FarFramesOnly
<1>7. CASE s # Nobody
  <2>1. s \in Socket /\ s \in maps.byId
    BY <1>2, <1>7, CurrentIs
  <2>2. stream[s].live /\ ws[s].owner # Nobody
    BY <2>1, StreamsAre DEF IInv, Served, Alive
  <2>3. ws' = CloseFar(ws, s, "disconnect") /\ stream' = [stream EXCEPT ![s] = Cleaned(stream[s])] /\ invokes' = RejectAll({s})
    BY <1>2, <1>7 DEF ServerCloses
  <2>4. Cleans(s)
    BY <1>3, <1>4, <2>2, <2>3 DEF Cleans
  <2>5. /\ FarDoes(ws', ws, s, Asks) /\ FarDoes(ws', ws, s, Every)
        /\ ws'[s].far # "open" /\ (ws'[s].far = "unused" => ws[s].far = "unused")
    <3>1. "disconnect" \in Cause
      BY DEF Cause
    <3> QED
      BY <2>1, <2>3, <3>1, ClosesFar
  <2> QED
    BY <1>5, <2>1, <2>2, <2>4, <2>5, StreamEnds
<1> QED
  BY <1>6, <1>7

\* The answer to the upgrade of socket s.
Upgraded(w, s, n, f) == [w EXCEPT ![s].far = n, ![s].down = Queued(w, s, @, f)]

LEMMA Upgrades ==
    ASSUME NEW w \in Sockets, NEW s \in Socket, NEW n \in FarState, NEW f \in Frame, Mark(f) \notin Every
    PROVE  FarDoes(Upgraded(w, s, n, f), w, s, Every) /\ Upgraded(w, s, n, f)[s].far = n
<1>1. PICK q : q = Queued(w, s, w[s].down, f)
  OBVIOUS
<1>2. q \in Seq(Frame) /\ Keeps(q, w[s].down, Every)
  BY <1>1, QueuedDoes, SocketFields
<1>3. PICK v : v = WithDown(w[s], n, q)
  OBVIOUS
<1>4. v \in SocketType /\ SameEnds(v, w[s]) /\ v.far = n /\ v.near = w[s].near /\ v.down = q /\ v.up = w[s].up
  BY <1>2, <1>3, SocketFields, SocketWithDown
<1>5. Upgraded(w, s, n, f) = [w EXCEPT ![s] = v]
  BY <1>1, <1>3 DEF Sockets, WithDown, Upgraded
<1>6. FarDoes([w EXCEPT ![s] = v], w, s, Every)
  BY <1>2, <1>4, FarChanges, SocketFields
<1>7. [w EXCEPT ![s] = v][s] = v
  BY <1>4 DEF Sockets
<1> QED
  BY <1>4, <1>5, <1>6, <1>7

\* A socket that the server has not seen has no stream.
LEMMA UnusedIs ==
    ASSUME IInv, NEW s \in Socket, ws[s].far = "unused"
    PROVE  stream[s] = NoStream /\ ~stream[s].live /\ s \notin maps.byId
<1>1. stream[s] = NoStream
  BY DEF IInv, Base, Bare
<1>2. NoStream.live = FALSE
  BY DEF NoStream
<1>3. s \notin maps.byId
  BY DEF IInv, Served, Alive
<1> QED
  BY <1>1, <1>2, <1>3

LEMMA RefuseKeeps ==
    ASSUME IInv, NEW s \in Socket, Refuse(s)
    PROVE  IInv'
<1>1. /\ ws[s].owner # Nobody /\ ws[s].far = "unused" /\ ~stream[s].live /\ ws \in Sockets
      /\ UNCHANGED <<client, stream, maps, calls, invokes>> /\ spent' \in 0..MaxEvents
  BY UnusedIs, SpentIs, TypesAre DEF Refuse, IInv, Base
<1>2. ws' = Upgraded(ws, s, "closed", Refused)
  BY DEF Refuse, Upgraded
<1>3. FarDoes(ws', ws, s, Every) /\ ws'[s].far = "closed"
  <2>1. "closed" \in FarState /\ Refused \in Frame /\ Mark(Refused) \notin Every
    BY FramesAre, MarksAre, AsksAre DEF FarState
  <2> QED
    BY <1>1, <1>2, <2>1, Upgrades
<1>4. FarDoes(ws', ws, s, Asks)
  BY <1>3, KeepsFewer, AsksAre DEF FarDoes
<1> QED
  BY <1>1, <1>3, <1>4, StreamEnds

\* Sockets after the upgrade of s, and the end of the stream that s supersedes, if there is one.
LEMMA Supersedes ==
    ASSUME IInv, NEW s \in Socket, ws[s].owner # Nobody, ws[s].far = "unused", NEW old, old = Current,
           NEW u, u = Upgraded(ws, s, "open", Accepted),
           ws' = IF old # Nobody THEN CloseFar(u, old, "supersede") ELSE u
    PROVE  /\ ws' \in Sockets
           /\ \A t \in Socket :
                 /\ ws'[t].owner = ws[t].owner /\ ws'[t].near = ws[t].near
                 /\ ws'[t].timer = ws[t].timer /\ ws'[t].ear = ws[t].ear
                 /\ ws[t].owner = Nobody => ws'[t] = ws[t]
                 /\ t # s /\ t # old => ws'[t] = ws[t]
                 /\ Keeps(ws'[t].up, ws[t].up, Every) /\ Keeps(ws'[t].down, ws[t].down, Every)
           /\ ws'[s].far = "open"
           /\ old # Nobody => old \in Socket /\ old # s /\ ws'[old].far \notin {"open", "unused"}
<1>1. ws \in Sockets /\ s \notin maps.byId
  BY UnusedIs, TypesAre DEF IInv, Base
<1>2. old # Nobody => old \in Socket /\ old \in maps.byId /\ old # s
  BY <1>1, CurrentIs
<1>3. FarDoes(u, ws, s, Every) /\ u[s].far = "open"
  <2>1. "open" \in FarState /\ Accepted \in Frame /\ Mark(Accepted) \notin Every
    BY FramesAre, MarksAre, AsksAre DEF FarState
  <2> QED
    BY <1>1, <2>1, Upgrades
<1>4. CASE old = Nobody
  <2>1. ws' = u
    BY <1>4
  <2> QED
    BY <1>1, <1>3, <1>4, <2>1, FarCarries, AsksAre
<1>5. CASE old # Nobody
  <2>1. ws' = CloseFar(u, old, "supersede") /\ u \in Sockets
    BY <1>3, <1>5 DEF FarDoes
  <2>2. "supersede" \in Cause /\ Mark(Bye("supersede")) \notin Every
    BY MarksAre, AsksAre DEF Cause
  <2>3. FarDoes(ws', u, old, Every) /\ ws'[old].far = (IF u[old].far = "open" THEN "closing" ELSE u[old].far)
    BY <1>2, <1>5, <2>1, <2>2, CloseFarDoes
  <2>4. /\ ws' \in Sockets
        /\ \A r \in Socket : /\ SameEnds(ws'[r], ws[r]) /\ ws'[r].near = ws[r].near
                             /\ Keeps(ws'[r].down, ws[r].down, Every) /\ Keeps(ws'[r].up, ws[r].up, Every)
    BY <1>1, <1>3, <2>3, FarTwo
  <2>5. \A t \in Socket : t # s /\ t # old => ws'[t] = ws[t]
    BY <1>3, <2>3 DEF FarDoes
  <2>6. ws'[s].far = "open"
    BY <1>2, <1>3, <1>5, <2>3 DEF FarDoes
  <2>7. ws'[old].far \notin {"open", "unused"}
    <3>1. u[old] = ws[old]
      BY <1>2, <1>3, <1>5 DEF FarDoes
    <3>2. ws[old].far \in {"open", "closing"}
      BY <1>2, <1>5 DEF IInv, Served, Alive
    <3> QED
      BY <2>3, <3>1, <3>2
  <2>8. \A t \in Socket : ws[t].owner = Nobody => t # s /\ t # old
    <3>1. ws[old].owner # Nobody
      BY <1>2, <1>5, StreamsAre DEF IInv, Served, Alive
    <3> QED
      BY <3>1
  <2> QED
    BY <1>2, <1>5, <2>4, <2>5, <2>6, <2>7, <2>8 DEF SameEnds
<1> QED
  BY <1>4, <1>5

LEMMA AcceptKeeps ==
    ASSUME IInv, NEW s \in Socket, Accept(s)
    PROVE  IInv'
<1>1. /\ ws[s].owner # Nobody /\ ws[s].far = "unused" /\ stream[s] = NoStream /\ ~stream[s].live /\ s \notin maps.byId
      /\ ws \in Sockets /\ UNCHANGED <<client, calls, spent>> /\ spent' \in 0..MaxEvents
  BY UnusedIs, TypesAre, SpentIs DEF Accept, IInv, Base
<1>2. PICK old : old = Current
  OBVIOUS
<1>3. PICK u : u = Upgraded(ws, s, "open", Accepted)
  OBVIOUS
<1>4. CASE old # Nobody /\ ~ws[s].supersede
  <2>1. ws' = CloseFar(u, s, "conflict") /\ UNCHANGED <<stream, maps, invokes>>
    BY <1>2, <1>3, <1>4 DEF Accept, Conflict, Upgraded
  <2>2. FarDoes(u, ws, s, Every)
    <3>1. "open" \in FarState /\ Accepted \in Frame /\ Mark(Accepted) \notin Every
      BY FramesAre, MarksAre, AsksAre DEF FarState
    <3> QED
      BY <1>1, <1>3, <3>1, Upgrades
  <2>3. u \in Sockets /\ u[s].far = "open"
    <3>1. "open" \in FarState /\ Accepted \in Frame /\ Mark(Accepted) \notin Every
      BY FramesAre, MarksAre, AsksAre DEF FarState
    <3> QED
      BY <1>1, <1>3, <2>2, <3>1, Upgrades DEF FarDoes
  <2>4. FarDoes(ws', u, s, Every) /\ ws'[s].far = "closing"
    <3>1. "conflict" \in Cause /\ Mark(Bye("conflict")) \notin Every
      BY MarksAre, AsksAre DEF Cause
    <3> QED
      BY <2>1, <2>3, <3>1, CloseFarDoes
  <2>5. FarDoes(ws', ws, s, Every)
    BY <1>1, <2>2, <2>4, FarTwice
  <2>6. FarDoes(ws', ws, s, Asks)
    BY <2>5, KeepsFewer, AsksAre DEF FarDoes
  <2> QED
    BY <1>1, <2>1, <2>4, <2>5, <2>6, StreamEnds
<1>5. CASE ~(old # Nobody /\ ~ws[s].supersede)
  <2>1. /\ ws' = IF old # Nobody THEN CloseFar(u, old, "supersede") ELSE u
        /\ invokes' = RejectAll({old})
        /\ stream' = [r \in Socket |->
                  CASE r = s   -> [NoStream EXCEPT !.phase = "checking", !.live = TRUE, !.blocked = TRUE]
                    [] r = old -> Cleaned(stream[r])
                    [] OTHER   -> stream[r]]
        /\ maps' = [Forget(maps, old) EXCEPT !.byId = @ \cup {s}, !.pending = s]
    BY <1>2, <1>3, <1>5 DEF Accept, Conflict, Upgraded
  <2>2. /\ ws' \in Sockets
        /\ \A t \in Socket :
              /\ ws'[t].owner = ws[t].owner /\ ws'[t].near = ws[t].near
              /\ ws'[t].timer = ws[t].timer /\ ws'[t].ear = ws[t].ear
              /\ ws[t].owner = Nobody => ws'[t] = ws[t]
              /\ t # s /\ t # old => ws'[t] = ws[t]
              /\ Keeps(ws'[t].up, ws[t].up, Every) /\ Keeps(ws'[t].down, ws[t].down, Every)
        /\ ws'[s].far = "open"
        /\ old # Nobody => old \in Socket /\ old # s /\ ws'[old].far \notin {"open", "unused"}
    BY <1>1, <1>2, <1>3, <2>1, Supersedes
  <2>3. /\ client \in [Client -> ClientType] /\ stream \in [Socket -> StreamType] /\ maps \in MapsType
        /\ calls \in Seq(CallType) /\ invokes \in Seq(InvokeType)
    BY TypesAre DEF IInv, Base
  <2>4. PICK r : r = [stream[s] EXCEPT !.phase = "checking", !.live = TRUE, !.blocked = TRUE]
    OBVIOUS
  <2>5. r \in StreamType
    BY <2>3, <2>4 DEF StreamType
  <2>6. /\ r.phase = "checking" /\ r.live = TRUE /\ r.blocked = TRUE /\ r.told = 0 /\ r.held = <<>>
        /\ r.held = stream[s].held /\ r.started = stream[s].started /\ r.works = stream[s].works
    <3>1. stream[s].told = 0 /\ stream[s].held = <<>>
      BY <1>1 DEF NoStream
    <3> QED
      BY <2>3, <2>4, <3>1 DEF StreamType
  <2>7. /\ invokes' \in Seq(InvokeType) /\ Len(invokes') = Len(invokes)
        /\ \A i \in DOMAIN invokes :
              /\ i \in DOMAIN invokes' /\ invokes'[i].on = invokes[i].on
              /\ invokes'[i].state = IF invokes[i].on \in {old} /\ invokes[i].state = "pending" THEN "rejected" ELSE invokes[i].state
    BY <2>1, RejectAllDoes DEF IInv, Base
  <2>8. \A t \in Socket : stream'[t] = IF t = s THEN r ELSE IF t = old THEN Cleaned(stream[t]) ELSE stream[t]
    <3>1. r = [NoStream EXCEPT !.phase = "checking", !.live = TRUE, !.blocked = TRUE]
      BY <1>1, <2>4
    <3>2. stream' = [x \in Socket |-> CASE x = s -> r [] x = old -> Cleaned(stream[x]) [] OTHER -> stream[x]]
      BY <2>1, <3>1
    <3>3. ASSUME NEW t \in Socket
          PROVE  stream'[t] = IF t = s THEN r ELSE IF t = old THEN Cleaned(stream[t]) ELSE stream[t]
      <4>1. stream'[t] = CASE t = s -> r [] t = old -> Cleaned(stream[t]) [] OTHER -> stream[t]
        BY <3>2
      <4>2. s # old
        BY <2>2, NobodyIsNoSocket
      <4> QED
        BY <4>1, <4>2
    <3> QED
      BY <3>3
  <2>9. \A t \in Socket :
           /\ Cleaned(stream[t]) \in StreamType /\ Cleaned(stream[t]).phase = stream[t].phase
           /\ Cleaned(stream[t]).live = FALSE /\ Cleaned(stream[t]).revived = stream[t].revived
           /\ Cleaned(stream[t]).told = stream[t].told + 1 /\ Cleaned(stream[t]).held = <<>>
           /\ Cleaned(stream[t]).started = stream[t].started /\ Cleaned(stream[t]).works = stream[t].works
    BY <2>3, CleanedIs
  <2>10. stream' \in [Socket -> StreamType]
    <3>1. \A t \in Socket : stream'[t] \in StreamType
      BY <2>3, <2>5, <2>8, <2>9
    <3> QED
      BY <2>1, <3>1
  <2>11. maps' \in MapsType /\ maps'.byId = {s} /\ maps'.pending = s /\ maps'.active = Nobody
    <3>1. PICK m \in MapsType : /\ m = Forget(maps, old) /\ m.byId = maps.byId \ {old}
                                /\ m.active = (IF maps.active = old THEN Nobody ELSE maps.active)
      BY <2>3, ForgetDoes
    <3>2. m.byId = {} /\ m.active = Nobody
      BY <1>2, <3>1, CurrentIs
    <3>3. maps' = [m EXCEPT !.byId = m.byId \cup {s}, !.pending = s]
      BY <2>1, <3>1
    <3>4. maps' \in MapsType
      BY <3>3 DEF MapsType
    <3> QED
      BY <3>2, <3>3, <3>4 DEF MapsType
  <2>12. Registered'
    BY <2>11, NobodyIsNoSocket DEF Registered
  <2>13. TypeOK'
    BY <1>1, <2>2, <2>3, <2>7, <2>10, <2>11, TypesThen
  <2>14. FarStep
    <3>1. Logs
      BY <1>1, <2>7 DEF Logs
    <3> QED
      BY <1>1, <2>2, <2>7, <2>13, <3>1 DEF FarStep, IInv, Base
  <2>15. ASSUME NEW t \in Socket
         PROVE  SameWork(t) /\ Bare(t)' /\ Alive(t)'
    <3>1. CASE t = s
      <4>1. stream'[s] = r /\ s \in maps'.byId
        BY <2>8, <2>11
      <4>2. SameWork(s)
        BY <2>6, <4>1 DEF SameWork
      <4>3. Bare(s)'
        BY <1>1, <2>2, <2>6, <4>1 DEF Bare
      <4>4. Alive(s)'
        BY <2>2, <2>6, <4>1 DEF Alive
      <4> QED
        BY <3>1, <4>2, <4>3, <4>4
    <3>2. CASE t # s /\ t = old
      <4>1. stream'[t] = Cleaned(stream[t]) /\ t \notin maps'.byId /\ old # Nobody
        BY <2>8, <2>11, <3>2, NobodyIsNoSocket
      <4>2. SameWork(t)
        BY <2>9, <4>1 DEF SameWork
      <4>3. t \in maps.byId
        BY <1>2, <3>2, <4>1, CurrentIs
      <4>4. stream[t].phase # "none" /\ stream[t].live /\ ws[t].owner # Nobody
        BY <4>3, StreamsAre DEF IInv, Served, Alive
      <4>5. Bare(t)'
        BY <2>2, <2>9, <3>2, <4>1, <4>4 DEF Bare
      <4>6. stream[t].told \in Nat /\ Cleaned(stream[t]).told > 0
        BY <2>3, <2>9 DEF StreamType
      <4>7. Cleaned(stream[t]).told > 1 => stream[t].revived
        BY <2>9, <4>4, <4>6 DEF IInv, Served, Alive
      <4>8. Alive(t)'
        BY <2>2, <2>9, <3>2, <4>1, <4>6, <4>7 DEF Alive
      <4> QED
        BY <4>2, <4>5, <4>8
    <3>3. CASE t # s /\ t # old
      <4>1. stream'[t] = stream[t] /\ ws'[t] = ws[t] /\ t \notin maps'.byId
        BY <2>2, <2>8, <2>11, <3>3
      <4>2. t \notin maps.byId
        BY <1>2, <3>3, CurrentIs
      <4> QED
        BY <4>1, <4>2, AliveSame DEF IInv, Base, Served, Bare, SameWork
    <3> QED
      BY <3>1, <3>2, <3>3
  <2>16. FarQuiet
    <3>1. \A t \in Socket : Keeps(ws'[t].up, ws[t].up, Asks) /\ Keeps(ws'[t].down, ws[t].down, Asks)
      BY <2>2, KeepsFewer, AsksAre
    <3> QED
      BY <2>12, <2>14, <2>15, <3>1 DEF FarQuiet
  <2>17. ASSUME ~Excuse', NEW i \in DOMAIN invokes, Waits(i)
         PROVE  FALSE
    <3>1. invokes[i].on = old
      BY <1>2, <2>17, CurrentIs DEF Waits
    <3>2. invokes'[i].state = "rejected" /\ i \in DOMAIN invokes'
      BY <2>7, <2>17, <3>1 DEF Waits
    <3> QED
      BY <2>17, <3>2 DEF Excuse
  <2> QED
    BY <2>2, <2>16, <2>17, FarQuietKeeps
<1> QED
  BY <1>4, <1>5

\* The server writes f on socket s, if it is open.
LEMMA FarWrites ==
    ASSUME IInv, NEW s \in Socket, ws[s].owner # Nobody, NEW f \in Frame, ws' = WriteDown(ws, s, f)
    PROVE  /\ ws \in Sockets /\ ws' \in Sockets
           /\ \A t \in Socket :
                 /\ ws'[t].owner = ws[t].owner /\ ws'[t].near = ws[t].near /\ ws'[t].far = ws[t].far
                 /\ ws'[t].timer = ws[t].timer /\ ws'[t].ear = ws[t].ear /\ ws'[t].up = ws[t].up
                 /\ ws[t].owner = Nobody => ws'[t] = ws[t]
                 /\ t # s => ws'[t] = ws[t]
                 /\ \A j \in DOMAIN ws'[t].down :
                       \/ j \in DOMAIN ws[t].down /\ ws'[t].down[j] = ws[t].down[j]
                       \/ t = s /\ ws'[t].down[j] = f /\ j = Len(ws[t].down) + 1
                 /\ \A K : Mark(f) \notin K => Keeps(ws'[t].down, ws[t].down, K)
           /\ ws[s].far # "open" => ws' = ws
<1>1. ws \in Sockets
  BY TypesAre DEF IInv, Base
<1>2. \A K : Mark(f) \notin K => FarDoes(ws', ws, s, K)
  BY <1>1, WriteDownDoes
<1>3. FarDoes(ws', ws, s, {})
  BY <1>2
<1>4. /\ \A t \in Socket : ws'[t].far = ws[t].far /\ ws'[t].up = ws[t].up
      /\ \A t \in Socket : ws'[t].down \in {ws[t].down, Append(ws[t].down, f)}
      /\ ws[s].far # "open" => ws' = ws
  <2>1. PICK K : K = {}
    OBVIOUS
  <2>2. Mark(f) \notin K
    BY <2>1
  <2> QED
    BY <1>1, <2>2, WriteDownDoes
<1>5. ASSUME NEW t \in Socket
      PROVE  \A j \in DOMAIN ws'[t].down :
                 \/ j \in DOMAIN ws[t].down /\ ws'[t].down[j] = ws[t].down[j]
                 \/ t = s /\ ws'[t].down[j] = f /\ j = Len(ws[t].down) + 1
  <2>1. CASE t # s
    BY <1>3, <2>1 DEF FarDoes
  <2>2. CASE t = s
    <3>1. ws[t].down \in Seq(Frame) /\ ws'[t].down \in {ws[t].down, Append(ws[t].down, f)}
      BY <1>1, <1>4, SocketFields
    <3>2. PICK q \in Seq(Frame) : q = ws[t].down
      BY <3>1
    <3>3. PICK q1 \in {q, Append(q, f)} : q1 = ws'[t].down
      BY <3>1, <3>2
    <3>4. \A j \in DOMAIN q1 : (j \in DOMAIN q /\ q1[j] = q[j]) \/ (q1[j] = f /\ j = Len(q) + 1)
      BY Appended
    <3> QED
      BY <2>2, <3>2, <3>3, <3>4
  <2> QED
    BY <2>1, <2>2
<1>6. \A t \in Socket : \A K : Mark(f) \notin K => Keeps(ws'[t].down, ws[t].down, K)
  BY <1>2 DEF FarDoes
<1>7. \A t \in Socket : ws[t].owner = Nobody => t # s
  OBVIOUS
<1> QED
  BY <1>1, <1>3, <1>4, <1>5, <1>6, <1>7 DEF FarDoes, SameEnds

\* A step at the work of the streams, with no request of the server asked or answered.
LEMMA FarWorkKeeps ==
    ASSUME IInv, FarStep, Registered',
           \A t \in Socket :
              /\ Bare(t)' /\ Alive(t)' /\ KnownUp(t)' /\ KnownDown(t)' /\ KnownCalls(t)'
              /\ Order(t)' /\ RepliesOnce(t)'
              /\ Keeps(ws'[t].up, ws[t].up, Replies) /\ Keeps(ws'[t].down, ws[t].down, Requests),
           ~Excuse =>
              /\ \A i \in DOMAIN invokes : Waits(i) => Stays(i)
              /\ \A t \in Socket : CallsDue(t)'
              /\ \A t \in Socket : ~Bad(ws'[t].up) /\ ~Bad(ws'[t].down)
    PROVE  IInv'
<1>1. ws \in Sockets /\ ws' \in Sockets /\ Logs /\ client' = client
  BY TypesAre DEF IInv, Base, FarStep
<1>2. Base'
  BY FarStepKeeps DEF Base, FarStep, Known
<1>3. \A t \in Socket : Served(t)'
  BY DEF Served
<1>4. InvokesOnce'
  BY <1>1, OnceKept DEF IInv, InvokesOnce
<1>5. Honest'
  <2>1. SUFFICES ASSUME ~Excuse'
                 PROVE  /\ \A t \in Socket : ~Bad(ws'[t].up) /\ ~Bad(ws'[t].down)
                        /\ \A t \in Socket : CallsDue(t)'
                        /\ \A t \in Socket : AskedDue(t)' /\ AnsweredDue(t)'
                        /\ \A q \in Client : WorkDue(q)'
    BY DEF Honest, Bad
  <2>2. ~Excuse
    BY <1>1, <2>1, ExcuseStays
  <2>3. \A t \in Socket : AskedDue(t)' /\ AnsweredDue(t)'
    BY <1>1, <2>2, InvokesDueKept DEF IInv, Honest, Base
  <2>4. \A q \in Client : WorkDue(q)'
    <3>1. \A q \in Client : client[q].ws \in {Nobody} \cup Socket
      BY ClientsAre DEF IInv
    <3>2. \A q \in Client : WorkDue(q) /\ Fields(q)
      BY <2>2 DEF IInv, Honest, Base
    <3> QED
      BY <1>1, <2>2, <3>1, <3>2, WorkDueCarried
  <2> QED
    BY <2>2, <2>3, <2>4
<1> QED
  BY <1>2, <1>3, <1>4, <1>5, FarStepKeeps DEF IInv

LEMMA CallsDueSame ==
    ASSUME NEW t \in Socket, CallsDue(t), stream'[t] = stream[t], ws'[t] = ws[t], UNCHANGED <<client, calls>>
    PROVE  CallsDue(t)'
BY DEF CallsDue, InUse, Pending

\* Stream s becomes r, with other requests at work.
LEMMA OneStreamWorks ==
    ASSUME IInv, NEW s \in Socket, NEW r \in StreamType, stream' = [stream EXCEPT ![s] = r],
           stream[s].phase # "none", r.phase # "none", ws[s].owner # Nobody,
           UNCHANGED <<client, maps, calls, invokes, spent>>, ws' \in Sockets,
           \A t \in Socket :
              /\ ws'[t].owner = ws[t].owner /\ ws'[t].near = ws[t].near /\ ws'[t].far = ws[t].far
              /\ ws'[t].timer = ws[t].timer /\ ws'[t].ear = ws[t].ear
              /\ ws[t].owner = Nobody => ws'[t] = ws[t]
              /\ t # s => ws'[t] = ws[t],
           Keeps(ws'[s].up, ws[s].up, Every), Keeps(ws'[s].down, ws[s].down, Requests),
           Bad(ws'[s].down) => Bad(ws[s].down),
           Alive(s)', KnownDown(s)', KnownCalls(s)', Order(s)', RepliesOnce(s)', ~Excuse => CallsDue(s)'
    PROVE  IInv'
<1>1. ws \in Sockets /\ ws[s].far # "unused"
  BY StreamsAre, TypesAre DEF IInv, Base
<1>2. stream \in [Socket -> StreamType]
  BY TypesAre DEF IInv, Base
<1>3. stream' \in [Socket -> StreamType] /\ \A t \in Socket : stream'[t] = IF t = s THEN r ELSE stream[t]
  BY <1>2
<1>4. TypeOK'
  <2>1. /\ client \in [Client -> ClientType] /\ maps \in MapsType /\ spent \in 0..MaxEvents
        /\ calls \in Seq(CallType) /\ invokes \in Seq(InvokeType)
    BY TypesAre DEF IInv, Base
  <2> QED
    BY <1>3, <2>1, TypesThen
<1>5. FarStep
  <2>1. Logs
    BY DEF Logs
  <2> QED
    BY <1>4, <2>1 DEF FarStep, IInv, Base
<1>6. \A t \in Socket : Keeps(ws'[t].up, ws[t].up, Every) /\ Keeps(ws'[t].down, ws[t].down, Requests)
  BY <1>1, SocketFields
<1>7. \A t \in Socket : /\ Keeps(ws'[t].up, ws[t].up, Asks) /\ Keeps(ws'[t].up, ws[t].up, Requests)
                        /\ Keeps(ws'[t].up, ws[t].up, Replies)
  BY <1>6, KeepsFewer, AsksAre
<1>8. ASSUME NEW t \in Socket
      PROVE  /\ Bare(t)' /\ Alive(t)' /\ KnownUp(t)' /\ KnownDown(t)' /\ KnownCalls(t)'
             /\ Order(t)' /\ RepliesOnce(t)'
  <2>1. KnownUp(t)'
    BY <1>5, <1>7, FarStepKeeps
  <2>2. CASE t = s
    <3>1. Bare(s)'
      BY <1>1, <1>3 DEF Bare
    <3> QED
      BY <2>1, <2>2, <3>1
  <2>3. CASE t # s
    <3>1. stream'[t] = stream[t] /\ ws'[t] = ws[t] /\ SameWork(t)
      BY <1>3, <2>3 DEF SameWork
    <3>2. Bare(t)'
      BY <3>1 DEF IInv, Base, Bare
    <3>3. Alive(t)'
      BY <3>1, AliveSame DEF IInv, Served
    <3>4. \A K : Keeps(ws'[t].down, ws[t].down, K)
      BY <1>1, <3>1, SocketFields
    <3> QED
      BY <1>5, <1>7, <2>1, <3>1, <3>2, <3>3, <3>4, FarStepKeeps
  <2> QED
    BY <2>2, <2>3
<1>9. Registered'
  BY DEF IInv, Registered
<1>10. ASSUME ~Excuse
       PROVE  /\ \A i \in DOMAIN invokes : Waits(i) => Stays(i)
              /\ \A t \in Socket : CallsDue(t)'
              /\ \A t \in Socket : ~Bad(ws'[t].up) /\ ~Bad(ws'[t].down)
  <2>1. \A i \in DOMAIN invokes : Waits(i) => Stays(i)
    BY <1>3 DEF Waits, WaitsThen, Stays
  <2>2. ASSUME NEW t \in Socket
        PROVE  CallsDue(t)'
    <3>1. CASE t = s
      BY <1>10, <3>1
    <3>2. CASE t # s
      <4>1. stream'[t] = stream[t] /\ ws'[t] = ws[t]
        BY <1>3, <3>2
      <4>2. CallsDue(t)
        BY <1>10 DEF IInv, Honest
      <4> QED
        BY <4>1, <4>2, CallsDueSame
    <3> QED
      BY <3>1, <3>2
  <2>3. ASSUME NEW t \in Socket
        PROVE  ~Bad(ws'[t].up) /\ ~Bad(ws'[t].down)
    <3>1. ~Bad(ws[t].up) /\ ~Bad(ws[t].down)
      BY <1>10 DEF IInv, Honest
    <3>2. ws'[t].up \in Seq(Frame) /\ ws[t].up \in Seq(Frame)
      BY <1>1, SocketFields
    <3>3. ~Bad(ws'[t].up)
      BY <1>6, <3>1, <3>2, KeepsGood, AsksAre
    <3>4. ~Bad(ws'[t].down)
      BY <3>1
    <3> QED
      BY <3>3, <3>4
  <2> QED
    BY <2>1, <2>2, <2>3
<1> QED
  BY <1>5, <1>6, <1>7, <1>8, <1>9, <1>10, FarWorkKeeps

LEMMA WorkEndsKeeps ==
    ASSUME IInv, NEW s \in Socket, NEW i, WorkEnds(s, i)
    PROVE  IInv'
<1>1. /\ i \in stream[s].works /\ i \in DOMAIN calls /\ calls[i].by = ws[s].owner
      /\ \E j \in DOMAIN stream[s].started : stream[s].started[j] = i
  BY DEF WorkEnds, IInv, Base, Known, KnownCalls
<1>2. stream[s] \in StreamType /\ stream[s].phase # "none" /\ ws[s].owner # Nobody
  <2>1. NoStream.works = {}
    BY DEF NoStream
  <2>2. stream[s].phase # "none"
    BY <1>1, <2>1 DEF IInv, Base, Bare
  <2> QED
    BY <2>2, StreamsAre
<1>3. PICK W \in SUBSET (1..MaxCalls) : W = stream[s].works \ {i}
  BY <1>2 DEF StreamType
<1>4. PICK r : r = [stream[s] EXCEPT !.works = W]
  OBVIOUS
<1>5. r \in StreamType
  BY <1>2, <1>4 DEF StreamType
<1>6. /\ r.phase = stream[s].phase /\ r.live = stream[s].live /\ r.blocked = stream[s].blocked
      /\ r.revived = stream[s].revived /\ r.told = stream[s].told
      /\ r.held = stream[s].held /\ r.started = stream[s].started /\ r.works = stream[s].works \ {i}
  BY <1>2, <1>3, <1>4 DEF StreamType
<1>7. stream' = [stream EXCEPT ![s] = r] /\ UNCHANGED <<client, maps, calls, invokes, spent>>
  BY <1>3, <1>4 DEF WorkEnds
<1>8. stream'[s] = r
  BY <1>7, StreamsAre
<1>9. PICK f \in Frame : f = Reply(i)
  <2>1. i \in 1..MaxCalls
    BY <1>1, <1>2 DEF StreamType
  <2> QED
    BY <2>1, FramesAre
<1>10. f.kind = "reply" /\ f.id = i /\ Mark(f) = "reply"
  BY <1>9, MarksAre DEF Reply
<1>11. ws' = WriteDown(ws, s, f)
  BY <1>9 DEF WorkEnds
<1>12. /\ ws \in Sockets /\ ws' \in Sockets
       /\ \A t \in Socket :
             /\ ws'[t].owner = ws[t].owner /\ ws'[t].near = ws[t].near /\ ws'[t].far = ws[t].far
             /\ ws'[t].timer = ws[t].timer /\ ws'[t].ear = ws[t].ear /\ ws'[t].up = ws[t].up
             /\ ws[t].owner = Nobody => ws'[t] = ws[t]
             /\ t # s => ws'[t] = ws[t]
             /\ \A j \in DOMAIN ws'[t].down :
                   \/ j \in DOMAIN ws[t].down /\ ws'[t].down[j] = ws[t].down[j]
                   \/ t = s /\ ws'[t].down[j] = f /\ j = Len(ws[t].down) + 1
             /\ \A K : Mark(f) \notin K => Keeps(ws'[t].down, ws[t].down, K)
  BY <1>2, <1>11, FarWrites
<1>13. Keeps(ws'[s].up, ws[s].up, Every) /\ Keeps(ws'[s].down, ws[s].down, Requests)
  <2>1. "reply" \notin Requests
    BY DEF Requests
  <2> QED
    BY <1>10, <1>12, <2>1, SocketFields
<1>14. Bad(ws'[s].down) => Bad(ws[s].down)
  BY <1>10, <1>12 DEF Bad
<1>15. Alive(s)'
  BY <1>6, <1>7, <1>8, <1>12 DEF IInv, Served, Alive, HoldsRequests
<1>16. KnownDown(s)'
  <2>1. SUFFICES ASSUME NEW j \in DOMAIN ws'[s].down
                 PROVE  /\ ws'[s].down[j].kind = "request" => ws'[s].down[j].id \in DOMAIN invokes' /\ invokes'[ws'[s].down[j].id].on = s
                        /\ ws'[s].down[j].kind = "reply" => ws'[s].down[j].id \in DOMAIN calls'
    BY DEF KnownDown
  <2>2. CASE j \in DOMAIN ws[s].down /\ ws'[s].down[j] = ws[s].down[j]
    BY <1>7, <2>2 DEF IInv, Base, Known, KnownDown
  <2>3. CASE ws'[s].down[j] = f
    BY <1>1, <1>7, <1>10, <2>3
  <2> QED
    BY <1>12, <2>2, <2>3
<1>17. KnownCalls(s)'
  BY <1>6, <1>7, <1>8, <1>12 DEF IInv, Base, Known, KnownCalls
<1>18. Order(s)'
  BY <1>6, <1>8, <1>12 DEF IInv, Served, Order
<1>19. RepliesOnce(s)'
  <2>1. RepliesOnce(s)
    BY DEF IInv, Served
  <2>2. SUFFICES ASSUME NEW j \in DOMAIN ws'[s].down, ws'[s].down[j].kind = "reply"
                 PROVE  /\ \E k \in DOMAIN r.started : r.started[k] = ws'[s].down[j].id
                        /\ ws'[s].down[j].id \notin r.works
                        /\ \A k \in DOMAIN ws'[s].down :
                              ws'[s].down[k].kind = "reply" /\ ws'[s].down[k].id = ws'[s].down[j].id => k = j
    BY <1>8 DEF RepliesOnce
  <2>3. \A k \in DOMAIN ws[s].down : ws[s].down[k].kind = "reply" => ws[s].down[k].id # i
    BY <1>1, <2>1 DEF RepliesOnce
  <2>4. CASE j \in DOMAIN ws[s].down /\ ws'[s].down[j] = ws[s].down[j]
    <3>1. ASSUME NEW k \in DOMAIN ws'[s].down,
                 ws'[s].down[k].kind = "reply", ws'[s].down[k].id = ws'[s].down[j].id
          PROVE  k = j
      <4>1. ws'[s].down[k] # f
        BY <1>10, <2>2, <2>3, <2>4, <3>1
      <4>2. k \in DOMAIN ws[s].down /\ ws'[s].down[k] = ws[s].down[k]
        BY <1>12, <4>1
      <4> QED
        BY <2>1, <2>2, <2>4, <3>1, <4>2 DEF RepliesOnce
    <3>2. /\ \E k \in DOMAIN r.started : r.started[k] = ws'[s].down[j].id
          /\ ws'[s].down[j].id \notin r.works
      BY <1>6, <2>1, <2>2, <2>4 DEF RepliesOnce
    <3> QED
      BY <3>1, <3>2
  <2>5. CASE ws'[s].down[j] = f /\ j = Len(ws[s].down) + 1
    <3>1. ASSUME NEW k \in DOMAIN ws'[s].down,
                 ws'[s].down[k].kind = "reply", ws'[s].down[k].id = ws'[s].down[j].id
          PROVE  k = j
      BY <1>10, <1>12, <2>3, <2>5, <3>1
    <3>2. /\ \E k \in DOMAIN r.started : r.started[k] = i
          /\ i \notin r.works
      BY <1>1, <1>6
    <3> QED
      BY <1>10, <2>5, <3>1, <3>2
  <2> QED
    BY <1>12, <2>4, <2>5
<1>20. ASSUME ~Excuse
       PROVE  CallsDue(s)'
  <2>1. CallsDue(s) /\ (InUse(s)' => InUse(s))
    BY <1>7, <1>12, <1>20 DEF IInv, Honest, InUse
  <2>2. SUFFICES ASSUME InUse(s)'
                 PROVE  /\ \A j \in DOMAIN ws'[s].up : ws'[s].up[j].kind = "request" => Pending(ws'[s].up[j].id)
                        /\ \A j \in DOMAIN ws'[s].down : ws'[s].down[j].kind = "reply" => Pending(ws'[s].down[j].id)
                        /\ \A j \in DOMAIN stream'[s].held : Pending(stream'[s].held[j])
                        /\ \A k \in stream'[s].works : Pending(k)
    BY <1>7 DEF CallsDue, Pending
  <2>3. Pending(i)
    BY <1>1, <2>1, <2>2 DEF CallsDue
  <2>4. ASSUME NEW j \in DOMAIN ws'[s].down, ws'[s].down[j].kind = "reply"
        PROVE  Pending(ws'[s].down[j].id)
    BY <1>10, <1>12, <2>1, <2>2, <2>3, <2>4 DEF CallsDue
  <2> QED
    BY <1>6, <1>8, <1>12, <2>1, <2>2, <2>4 DEF CallsDue
<1> QED
  BY <1>2, <1>5, <1>6, <1>7, <1>12, <1>13, <1>14, <1>15, <1>16, <1>17, <1>18, <1>19, <1>20, OneStreamWorks

LEMMA Elements ==
    ASSUME NEW q \in Seq(1..MaxCalls)
    PROVE  \A i \in DOMAIN q : q[i] \in 1..MaxCalls /\ q[i] \in Nat
<1>1. PICK S : S = 1..MaxCalls
  OBVIOUS
<1>2. q \in Seq(S)
  BY <1>1
<1>3. \A i \in DOMAIN q : q[i] \in S
  BY <1>2
<1>4. \A x \in 1..MaxCalls : x \in Nat
  OBVIOUS
<1> QED
  BY <1>1, <1>3, <1>4

LEMMA Joined ==
    ASSUME NEW q1 \in Seq(1..MaxCalls), NEW q2 \in Seq(1..MaxCalls), NEW q, q = q1 \o q2
    PROVE  /\ q \in Seq(1..MaxCalls)
           /\ \A i \in DOMAIN q1 : i \in DOMAIN q /\ q[i] = q1[i]
           /\ \A i \in DOMAIN q : \/ i \in DOMAIN q1 /\ q[i] = q1[i]
                                  \/ \E j \in DOMAIN q2 : j = i - Len(q1) /\ q[i] = q2[j] /\ i \notin DOMAIN q1
<1>1. q \in Seq(1..MaxCalls) /\ Len(q) = Len(q1) + Len(q2)
  OBVIOUS
<1>2. \A i \in 1..Len(q1) + Len(q2) : q[i] = IF i <= Len(q1) THEN q1[i] ELSE q2[i - Len(q1)]
  OBVIOUS
<1>3. DOMAIN q1 = 1..Len(q1) /\ DOMAIN q2 = 1..Len(q2) /\ DOMAIN q = 1..Len(q1) + Len(q2) /\ Len(q1) \in Nat /\ Len(q2) \in Nat
  BY <1>1
<1>5. ASSUME NEW i \in DOMAIN q
      PROVE  \/ i \in DOMAIN q1 /\ q[i] = q1[i]
             \/ \E j \in DOMAIN q2 : j = i - Len(q1) /\ q[i] = q2[j] /\ i \notin DOMAIN q1
  <2>1. CASE i <= Len(q1)
    BY <1>2, <1>3, <2>1
  <2>2. CASE ~(i <= Len(q1))
    <3>1. i - Len(q1) \in DOMAIN q2 /\ q[i] = q2[i - Len(q1)] /\ i \notin DOMAIN q1
      BY <1>2, <1>3, <2>2
    <3> QED
      BY <3>1
  <2> QED
    BY <2>1, <2>2
<1>6. \A i \in DOMAIN q1 : i \in DOMAIN q /\ q[i] = q1[i]
  BY <1>2, <1>3
<1> QED
  BY <1>1, <1>5, <1>6

LEMMA JoinedHas ==
    ASSUME NEW q1 \in Seq(1..MaxCalls), NEW q2 \in Seq(1..MaxCalls), NEW q, q = q1 \o q2, NEW i \in DOMAIN q2
    PROVE  i + Len(q1) \in DOMAIN q /\ q[i + Len(q1)] = q2[i]
<1>1. Len(q) = Len(q1) + Len(q2) /\ q \in Seq(1..MaxCalls)
  OBVIOUS
<1>2. \A k \in 1..Len(q1) + Len(q2) : q[k] = IF k <= Len(q1) THEN q1[k] ELSE q2[k - Len(q1)]
  OBVIOUS
<1>3. DOMAIN q1 = 1..Len(q1) /\ DOMAIN q2 = 1..Len(q2) /\ DOMAIN q = 1..Len(q1) + Len(q2) /\ Len(q1) \in Nat /\ Len(q2) \in Nat
  BY <1>1
<1> QED
  BY <1>2, <1>3

LEMMA JoinedIncreases ==
    ASSUME NEW q1 \in Seq(1..MaxCalls), NEW q2 \in Seq(1..MaxCalls), NEW q, q = q1 \o q2,
           Increasing(q1), Increasing(q2), \A i \in DOMAIN q1, j \in DOMAIN q2 : q1[i] < q2[j]
    PROVE  Increasing(q)
<1>1. SUFFICES ASSUME NEW i \in DOMAIN q, NEW j \in DOMAIN q, i < j
               PROVE  q[i] < q[j]
  BY DEF Increasing
<1>2. q \in Seq(1..MaxCalls) /\ i \in Nat /\ j \in Nat /\ Len(q1) \in Nat /\ DOMAIN q1 = 1..Len(q1) /\ i >= 1
  BY Joined
<1>3. CASE i \in DOMAIN q1 /\ q[i] = q1[i]
  <2>1. CASE j \in DOMAIN q1 /\ q[j] = q1[j]
    BY <1>1, <1>3, <2>1 DEF Increasing
  <2>2. CASE \E k \in DOMAIN q2 : q[j] = q2[k]
    BY <1>3, <2>2
  <2> QED
    BY <2>1, <2>2, Joined
<1>4. CASE \E k \in DOMAIN q2 : k = i - Len(q1) /\ q[i] = q2[k] /\ i \notin DOMAIN q1
  <2>1. PICK k \in DOMAIN q2 : k = i - Len(q1) /\ q[i] = q2[k] /\ i \notin DOMAIN q1
    BY <1>4
  <2>2. j \notin DOMAIN q1
    BY <1>1, <1>2, <2>1
  <2>3. PICK m \in DOMAIN q2 : m = j - Len(q1) /\ q[j] = q2[m]
    BY <2>2, Joined
  <2>4. k < m
    BY <1>1, <1>2, <2>1, <2>3
  <2> QED
    BY <2>1, <2>3, <2>4 DEF Increasing
<1> QED
  BY <1>3, <1>4, Joined

LEMMA StartsIs ==
    ASSUME NEW r \in StreamType, NEW q \in Seq(1..MaxCalls)
    PROVE  /\ Starts(r, q) \in StreamType /\ Starts(r, q).phase = r.phase /\ Starts(r, q).live = r.live
           /\ Starts(r, q).blocked = r.blocked /\ Starts(r, q).revived = r.revived /\ Starts(r, q).told = r.told
           /\ Starts(r, q).held = r.held /\ Starts(r, q).started = r.started \o q
           /\ Starts(r, q).works = r.works \cup {q[i] : i \in DOMAIN q}
<1>0. r.started \in Seq(1..MaxCalls) /\ r.works \in SUBSET (1..MaxCalls)
  BY DEF StreamType
<1>1. PICK a \in Seq(1..MaxCalls) : a = r.started \o q
  <2>1. r.started \o q \in Seq(1..MaxCalls)
    BY <1>0, Joined
  <2> QED
    BY <2>1
<1>2. PICK W \in SUBSET (1..MaxCalls) : W = r.works \cup {q[i] : i \in DOMAIN q}
  <2>1. \A i \in DOMAIN q : q[i] \in 1..MaxCalls
    BY Elements
  <2> QED
    BY <1>0, <2>1
<1>3. Starts(r, q) = [r EXCEPT !.started = a, !.works = W]
  BY <1>1, <1>2 DEF Starts
<1>4. Starts(r, q) \in StreamType
  BY <1>3 DEF StreamType
<1> QED
  BY <1>1, <1>2, <1>3, <1>4 DEF StreamType

LEMMA OpenRequestsKeeps ==
    ASSUME IInv, NEW s \in Socket, OpenRequests(s)
    PROVE  IInv'
<1>1. /\ stream[s] \in StreamType /\ stream[s].phase = "activating" /\ stream[s].live
      /\ ws[s].owner # Nobody /\ ws \in Sockets
  BY StreamsAre, TypesAre DEF OpenRequests, IInv, Base
<1>2. PICK held \in Seq(1..MaxCalls) : held = stream[s].held
  BY <1>1 DEF StreamType
<1>3. PICK none : none = <<>>
  OBVIOUS
<1>4. PICK r0 : r0 = [stream[s] EXCEPT !.phase = "open", !.blocked = FALSE, !.held = none]
  OBVIOUS
<1>5. r0 \in StreamType
  <2>1. none \in Seq(1..MaxCalls)
    BY <1>3
  <2> QED
    BY <1>1, <1>4, <2>1 DEF StreamType
<1>6. /\ r0.phase = "open" /\ r0.live = stream[s].live /\ r0.blocked = FALSE /\ r0.revived = stream[s].revived
      /\ r0.told = stream[s].told /\ r0.held = none /\ r0.started = stream[s].started /\ r0.works = stream[s].works
  BY <1>1, <1>4 DEF StreamType
<1>7. PICK r : r = Starts(r0, held)
  OBVIOUS
<1>8. /\ r \in StreamType /\ r.phase = "open" /\ r.live = stream[s].live /\ r.blocked = FALSE
      /\ r.revived = stream[s].revived /\ r.told = stream[s].told /\ r.held = <<>>
      /\ r.started = stream[s].started \o held /\ r.works = stream[s].works \cup {held[i] : i \in DOMAIN held}
  BY <1>3, <1>5, <1>6, <1>7, StartsIs
<1>9. stream' = [stream EXCEPT ![s] = r] /\ UNCHANGED <<client, ws, maps, calls, invokes, spent>>
  BY <1>2, <1>3, <1>4, <1>7 DEF OpenRequests
<1>10. stream'[s] = r
  BY <1>9, StreamsAre
<1>11. stream[s].started \in Seq(1..MaxCalls)
  BY <1>1 DEF StreamType
<1>12. /\ \A i \in DOMAIN stream[s].started : i \in DOMAIN r.started /\ r.started[i] = stream[s].started[i]
       /\ \A i \in DOMAIN held : \E j \in DOMAIN r.started : r.started[j] = held[i]
       /\ \A i \in DOMAIN r.started : \/ i \in DOMAIN stream[s].started /\ r.started[i] = stream[s].started[i]
                                      \/ \E j \in DOMAIN held : r.started[i] = held[j]
  <2>1. PICK q : q = r.started
    OBVIOUS
  <2>2. q = stream[s].started \o held
    BY <1>8, <2>1
  <2>3. PICK q1 \in Seq(1..MaxCalls) : q1 = stream[s].started
    BY <1>11
  <2>4. q = q1 \o held
    BY <2>2, <2>3
  <2>5. \A i \in DOMAIN q1 : i \in DOMAIN q /\ q[i] = q1[i]
    BY <2>4, Joined
  <2>7. ASSUME NEW i \in DOMAIN held
        PROVE  \E j \in DOMAIN q : q[j] = held[i]
    <3>1. i + Len(q1) \in DOMAIN q /\ q[i + Len(q1)] = held[i]
      BY <2>4, JoinedHas
    <3> QED
      BY <3>1
  <2>6. \A i \in DOMAIN q : \/ i \in DOMAIN q1 /\ q[i] = q1[i]
                            \/ \E j \in DOMAIN held : q[i] = held[j]
    BY <2>4, Joined
  <2> QED
    BY <2>1, <2>3, <2>5, <2>6, <2>7
<1>13. Order(s) /\ RepliesOnce(s) /\ KnownCalls(s) /\ KnownDown(s) /\ Alive(s)
  BY DEF IInv, Served, Base, Known
<1>14. Alive(s)'
  BY <1>1, <1>8, <1>9, <1>10, <1>13 DEF Alive
<1>15. KnownDown(s)'
  BY <1>9, <1>13 DEF KnownDown
<1>16. KnownCalls(s)'
  <2>1. \A j \in DOMAIN r.started : r.started[j] \in DOMAIN calls /\ calls[r.started[j]].by = ws[s].owner
    BY <1>2, <1>12, <1>13 DEF KnownCalls
  <2>2. \A i \in r.works : \E j \in DOMAIN r.started : r.started[j] = i
    BY <1>8, <1>12, <1>13 DEF KnownCalls
  <2>3. \A j \in DOMAIN r.held : FALSE
    BY <1>8
  <2> QED
    BY <1>9, <1>10, <2>1, <2>2, <2>3 DEF KnownCalls
<1>17. Order(s)'
  <2>1. Increasing(r.started)
    BY <1>2, <1>8, <1>11, <1>13, JoinedIncreases DEF Order
  <2>2. Increasing(r.held)
    BY <1>8 DEF Increasing
  <2>3. \A j \in DOMAIN ws[s].up : ws[s].up[j].kind = "request" =>
          \A i \in DOMAIN r.started : r.started[i] < ws[s].up[j].id
    BY <1>2, <1>12, <1>13 DEF Order
  <2>4. \A j \in DOMAIN r.held : FALSE
    BY <1>8
  <2> QED
    BY <1>9, <1>10, <1>13, <2>1, <2>2, <2>3, <2>4 DEF Order
<1>18. RepliesOnce(s)'
  <2>1. SUFFICES ASSUME NEW j \in DOMAIN ws[s].down, ws[s].down[j].kind = "reply"
                 PROVE  /\ \E k \in DOMAIN r.started : r.started[k] = ws[s].down[j].id
                        /\ ws[s].down[j].id \notin r.works
    BY <1>9, <1>10, <1>13 DEF RepliesOnce
  <2>2. PICK k \in DOMAIN stream[s].started : stream[s].started[k] = ws[s].down[j].id
    BY <1>13, <2>1 DEF RepliesOnce
  <2>3. ws[s].down[j].id \notin stream[s].works
    BY <1>13, <2>1 DEF RepliesOnce
  <2>4. \A i \in DOMAIN held : held[i] # ws[s].down[j].id
    <3>1. SUFFICES ASSUME NEW i \in DOMAIN held PROVE held[i] # ws[s].down[j].id
      OBVIOUS
    <3>2. stream[s].started[k] < held[i]
      BY <1>2, <1>13 DEF Order
    <3>3. held[i] \in Nat /\ stream[s].started[k] \in Nat
      BY <1>11, Elements
    <3> QED
      BY <2>2, <3>2, <3>3
  <2> QED
    BY <1>8, <1>12, <2>2, <2>3, <2>4
<1>19. ASSUME ~Excuse
       PROVE  CallsDue(s)'
  <2>1. CallsDue(s)
    BY <1>19 DEF IInv, Honest
  <2>2. InUse(s) => \A i \in r.works : Pending(i)
    BY <1>2, <1>8, <2>1 DEF CallsDue
  <2>3. SUFFICES ASSUME InUse(s)'
                 PROVE  /\ \A j \in DOMAIN ws[s].up : ws[s].up[j].kind = "request" => Pending(ws[s].up[j].id)
                        /\ \A j \in DOMAIN ws[s].down : ws[s].down[j].kind = "reply" => Pending(ws[s].down[j].id)
                        /\ \A j \in DOMAIN r.held : Pending(r.held[j])
                        /\ \A k \in r.works : Pending(k)
    BY <1>9, <1>10 DEF CallsDue, Pending
  <2>4. InUse(s)
    BY <1>9, <2>3 DEF InUse
  <2> QED
    BY <1>8, <2>1, <2>2, <2>4 DEF CallsDue
<1>20. Keeps(ws'[s].up, ws[s].up, Every) /\ Keeps(ws'[s].down, ws[s].down, Requests) /\ ws' \in Sockets
  BY <1>1, <1>9, SocketFields
<1> QED
  BY <1>1, <1>8, <1>9, <1>14, <1>15, <1>16, <1>17, <1>18, <1>19, <1>20, OneStreamWorks

\* The request that the server reads next was made after all that the stream knows.
LEMMA CallIs ==
    ASSUME IInv, NEW s \in Socket, FarReads(s, "request"), Listens(s)
    PROVE  /\ ws[s].up[1].id \in 1..MaxCalls /\ ws[s].up[1].id \in DOMAIN calls
           /\ calls[ws[s].up[1].id].by = ws[s].owner
           /\ Head(ws[s].up) = ws[s].up[1] /\ 1 \in DOMAIN ws[s].up /\ ws[s].up[1].kind = "request"
           /\ \A k \in DOMAIN stream[s].started : stream[s].started[k] < ws[s].up[1].id
           /\ \A k \in DOMAIN stream[s].held : stream[s].held[k] < ws[s].up[1].id
           /\ \A k \in DOMAIN Tail(ws[s].up) :
                 /\ k + 1 \in DOMAIN ws[s].up /\ Tail(ws[s].up)[k] = ws[s].up[k + 1] /\ k \in Nat
                 /\ Tail(ws[s].up)[k].kind = "request" => ws[s].up[1].id < Tail(ws[s].up)[k].id
<1>1. /\ Head(ws[s].up) = ws[s].up[1] /\ 1 \in DOMAIN ws[s].up /\ ws[s].up[1].kind = "request"
      /\ ws \in Sockets /\ ws[s].up # <<>>
  BY ReadsOther
<1>2. ws[s].up[1].id \in DOMAIN calls /\ calls[ws[s].up[1].id].by = ws[s].owner
  BY <1>1 DEF IInv, Base, Known, KnownUp
<1>3. ws[s].up[1].id \in 1..MaxCalls
  <2>1. calls \in Seq(CallType) /\ Len(calls) <= MaxCalls /\ MaxCalls \in Nat
    BY TypesAre, SrpcAssumption DEF IInv, Base
  <2> QED
    BY <1>2, <2>1
<1>4. Order(s)
  BY DEF IInv, Served
<1>5. \A k \in DOMAIN Tail(ws[s].up) : k + 1 \in DOMAIN ws[s].up /\ Tail(ws[s].up)[k] = ws[s].up[k + 1] /\ k \in Nat /\ 1 < k + 1
  <2>1. PICK q \in Seq(Frame) : q = ws[s].up /\ q # <<>>
    BY <1>1, SocketFields
  <2>2. \A k \in DOMAIN Tail(q) : k + 1 \in DOMAIN q /\ Tail(q)[k] = q[k + 1] /\ k \in Nat /\ 1 < k + 1
    OBVIOUS
  <2> QED
    BY <2>1, <2>2
<1>6. \A k \in DOMAIN stream[s].started : stream[s].started[k] < ws[s].up[1].id
  BY <1>1, <1>4 DEF Order
<1>7. \A k \in DOMAIN stream[s].held : stream[s].held[k] < ws[s].up[1].id
  BY <1>1, <1>4 DEF Order
<1>8. \A k \in DOMAIN Tail(ws[s].up) : Tail(ws[s].up)[k].kind = "request" => ws[s].up[1].id < Tail(ws[s].up)[k].id
  BY <1>1, <1>4, <1>5 DEF Order
<1> QED
  BY <1>1, <1>2, <1>3, <1>5, <1>6, <1>7, <1>8

LEMMA OneElement ==
    ASSUME NEW S, NEW i \in S
    PROVE  <<i>> \in Seq(S)
OBVIOUS

\* Stream s becomes r, which holds or starts the request as well.
HeldLast(s, r, i) ==
    /\ HoldsRequests(s) /\ r.held = stream[s].held \o <<i>>
    /\ r.started = stream[s].started /\ r.works = stream[s].works

StartedLast(s, r, i) ==
    /\ stream[s].held = <<>> /\ r.held = stream[s].held
    /\ r.started = stream[s].started \o <<i>> /\ r.works = stream[s].works \cup {i}

PopsFor(s, r) ==
    /\ stream' = [stream EXCEPT ![s] = r]
    /\ r.phase = stream[s].phase /\ r.live = stream[s].live /\ r.blocked = stream[s].blocked
    /\ r.revived = stream[s].revived /\ r.told = stream[s].told
    /\ ws' = PopUp(ws, s) /\ UNCHANGED <<client, maps, calls, invokes, spent>>

LEMMA CallReadThen ==
    ASSUME IInv, NEW s \in Socket, FarReads(s, "request"), Listens(s), NEW i, i = ws[s].up[1].id,
           NEW r \in StreamType, PopsFor(s, r), HeldLast(s, r, i) \/ StartedLast(s, r, i)
    PROVE  IInv'
<1>1. /\ i \in 1..MaxCalls /\ i \in DOMAIN calls /\ calls[i].by = ws[s].owner
      /\ Head(ws[s].up) = ws[s].up[1] /\ 1 \in DOMAIN ws[s].up /\ ws[s].up[1].kind = "request"
      /\ \A k \in DOMAIN stream[s].started : stream[s].started[k] < i
      /\ \A k \in DOMAIN stream[s].held : stream[s].held[k] < i
      /\ \A k \in DOMAIN Tail(ws[s].up) :
            /\ k + 1 \in DOMAIN ws[s].up /\ Tail(ws[s].up)[k] = ws[s].up[k + 1] /\ k \in Nat
            /\ Tail(ws[s].up)[k].kind = "request" => i < Tail(ws[s].up)[k].id
  BY CallIs
<1>2. /\ ws \in Sockets /\ ws[s].owner # Nobody /\ ws[s].up # <<>>
      /\ stream[s] \in StreamType /\ stream[s].phase # "none"
  BY ReadsOther, StreamsAre DEF Listens
<1>3. /\ FarDoes(ws', ws, s, Every)
      /\ \A t \in Socket : ws'[t].far = ws[t].far /\ ws'[t].down = ws[t].down
      /\ ws'[s].up = Tail(ws[s].up)
  BY <1>2, PopUpDoes DEF PopsFor
<1>4. /\ ws' \in Sockets
      /\ \A t \in Socket :
              /\ ws'[t].owner = ws[t].owner /\ ws'[t].near = ws[t].near /\ ws'[t].far = ws[t].far
              /\ ws'[t].timer = ws[t].timer /\ ws'[t].ear = ws[t].ear
              /\ ws[t].owner = Nobody => ws'[t] = ws[t]
              /\ t # s => ws'[t] = ws[t]
      /\ Keeps(ws'[s].up, ws[s].up, Every) /\ Keeps(ws'[s].down, ws[s].down, Requests)
  <2>1. Keeps(ws'[s].down, ws[s].down, Requests)
    BY <1>2, <1>3, SocketFields
  <2> QED
    BY <1>2, <1>3, <2>1, FarCarries, AsksAre
<1>5. stream'[s] = r
  BY StreamsAre DEF PopsFor
<1>16. stream' = [stream EXCEPT ![s] = r] /\ r.phase # "none" /\ UNCHANGED <<client, maps, calls, invokes, spent>>
  BY <1>2 DEF PopsFor
<1>17. /\ r.phase = stream[s].phase /\ r.live = stream[s].live /\ r.blocked = stream[s].blocked
       /\ r.revived = stream[s].revived /\ r.told = stream[s].told /\ maps' = maps /\ ws'[s].far = ws[s].far
  BY <1>4 DEF PopsFor
<1>6. PICK one \in Seq(1..MaxCalls) : one = <<i>> /\ DOMAIN one = {1} /\ one[1] = i
  <2>1. PICK one : one = <<i>>
    OBVIOUS
  <2>2. DOMAIN one = {1} /\ one[1] = i
    BY <2>1
  <2>3. one \in Seq(1..MaxCalls)
    <3>1. PICK S : S = 1..MaxCalls
      OBVIOUS
    <3>2. <<i>> \in Seq(S)
      BY <1>1, <3>1, OneElement
    <3> QED
      BY <2>1, <3>1, <3>2
  <2> QED
    BY <2>1, <2>2, <2>3
<1>7. Increasing(one)
  BY <1>6 DEF Increasing
<1>8. PICK started \in Seq(1..MaxCalls) : started = stream[s].started
  BY <1>2 DEF StreamType
<1>9. PICK held \in Seq(1..MaxCalls) : held = stream[s].held
  BY <1>2 DEF StreamType
<1>10. Order(s) /\ RepliesOnce(s) /\ KnownCalls(s) /\ KnownDown(s) /\ Alive(s)
  BY DEF IInv, Served, Base, Known
<1>11. KnownDown(s)'
  BY <1>3, <1>10, <1>16 DEF KnownDown
<1>12. \A j \in DOMAIN ws'[s].up : ws'[s].up[j].kind = "request" =>
          /\ i < ws'[s].up[j].id
          /\ \A k \in DOMAIN started : started[k] < ws'[s].up[j].id
          /\ \A k \in DOMAIN held : held[k] < ws'[s].up[j].id
          /\ \A k \in DOMAIN ws'[s].up : ws'[s].up[k].kind = "request" /\ k < j => ws'[s].up[k].id < ws'[s].up[j].id
  <2>1. SUFFICES ASSUME NEW j \in DOMAIN ws'[s].up, ws'[s].up[j].kind = "request"
                 PROVE  /\ i < ws'[s].up[j].id
                        /\ \A k \in DOMAIN started : started[k] < ws'[s].up[j].id
                        /\ \A k \in DOMAIN held : held[k] < ws'[s].up[j].id
                        /\ \A k \in DOMAIN ws'[s].up : ws'[s].up[k].kind = "request" /\ k < j => ws'[s].up[k].id < ws'[s].up[j].id
    OBVIOUS
  <2>2. /\ j + 1 \in DOMAIN ws[s].up /\ ws'[s].up[j] = ws[s].up[j + 1] /\ j \in Nat
        /\ i < ws'[s].up[j].id
    BY <1>1, <1>3, <2>1
  <2>3. /\ \A k \in DOMAIN started : started[k] < ws'[s].up[j].id
        /\ \A k \in DOMAIN held : held[k] < ws'[s].up[j].id
    BY <1>8, <1>9, <1>10, <2>1, <2>2 DEF Order
  <2>4. ASSUME NEW k \in DOMAIN ws'[s].up, ws'[s].up[k].kind = "request", k < j
        PROVE  ws'[s].up[k].id < ws'[s].up[j].id
    <3>1. k + 1 \in DOMAIN ws[s].up /\ ws'[s].up[k] = ws[s].up[k + 1] /\ k \in Nat
      BY <1>1, <1>3
    <3>2. k + 1 < j + 1
      BY <2>2, <2>4, <3>1
    <3> QED
      BY <1>10, <2>1, <2>2, <2>4, <3>1, <3>2 DEF Order
  <2> QED
    BY <2>2, <2>3, <2>4
<1>15. ws'[s].down = ws[s].down /\ ws'[s].owner = ws[s].owner /\ ws'[s].near = ws[s].near
  BY <1>3, <1>4
<1>13. ASSUME HeldLast(s, r, i)
       PROVE  IInv'
  <2>10. HoldsRequests(s) /\ r.held = held \o one /\ r.started = started /\ r.works = stream[s].works
    BY <1>6, <1>8, <1>9, <1>13 DEF HeldLast
  <2>1. PICK q : q = r.held
    OBVIOUS
  <2>2. q = held \o one
    BY <2>10, <2>1
  <2>3. \A k \in DOMAIN q : \/ k \in DOMAIN held /\ q[k] = held[k]
                            \/ q[k] = i
    BY <1>6, <2>2, Joined
  <2>4. Increasing(q)
    <3>1. \A k \in DOMAIN held, m \in DOMAIN one : held[k] < one[m]
      BY <1>1, <1>6, <1>9
    <3>2. Increasing(held)
      BY <1>9, <1>10 DEF Order
    <3> QED
      BY <1>7, <2>2, <3>1, <3>2, JoinedIncreases
  <2>5. Order(s)'
    <3>1. \A k \in DOMAIN started, m \in DOMAIN q : started[k] < q[m]
      BY <1>1, <1>8, <1>9, <1>10, <2>3 DEF Order
    <3>2. \A j \in DOMAIN ws'[s].up : ws'[s].up[j].kind = "request" =>
             \A k \in DOMAIN q : q[k] < ws'[s].up[j].id
      BY <1>12, <2>3
    <3>3. Increasing(started)
      BY <1>8, <1>10 DEF Order
    <3> QED
      BY <1>5, <1>12, <2>10, <2>1, <2>4, <3>1, <3>2, <3>3 DEF Order
  <2>6. KnownCalls(s)'
    <3>1. \A k \in DOMAIN q : q[k] \in DOMAIN calls /\ calls[q[k]].by = ws[s].owner
      BY <1>1, <1>9, <1>10, <2>3 DEF KnownCalls
    <3>2. \A k \in DOMAIN started : started[k] \in DOMAIN calls /\ calls[started[k]].by = ws[s].owner
      BY <1>8, <1>10 DEF KnownCalls
    <3>3. \A k \in r.works : \E j \in DOMAIN started : started[j] = k
      BY <1>8, <1>10, <2>10 DEF KnownCalls
    <3>4. /\ \A k \in DOMAIN r.held : r.held[k] \in DOMAIN calls /\ calls[r.held[k]].by = ws[s].owner
          /\ \A k \in DOMAIN r.started : r.started[k] \in DOMAIN calls /\ calls[r.started[k]].by = ws[s].owner
          /\ \A k \in r.works : \E j \in DOMAIN r.started : r.started[j] = k
      BY <2>10, <2>1, <3>1, <3>2, <3>3
    <3> QED
      BY <1>5, <1>15, <1>16, <3>4 DEF KnownCalls
  <2>7. RepliesOnce(s)'
    BY <1>5, <1>8, <1>10, <2>10, <1>15 DEF RepliesOnce
  <2>8. Alive(s)'
    BY <1>5, <1>10, <1>17, <2>10 DEF Alive, HoldsRequests
  <2>9. ASSUME ~Excuse
        PROVE  CallsDue(s)'
    <3>1. CallsDue(s)
      BY <2>9 DEF IInv, Honest
    <3>2. InUse(s) => \A k \in DOMAIN q : Pending(q[k])
      BY <1>1, <1>9, <2>3, <3>1 DEF CallsDue
    <3>3. InUse(s)' => InUse(s)
      BY <1>4, <1>16 DEF InUse
    <3>4. ASSUME InUse(s), NEW j \in DOMAIN ws'[s].up, ws'[s].up[j].kind = "request"
          PROVE  Pending(ws'[s].up[j].id)
      <4>1. j + 1 \in DOMAIN ws[s].up /\ ws'[s].up[j] = ws[s].up[j + 1]
        BY <1>1, <1>3
      <4> QED
        BY <3>1, <3>4, <4>1 DEF CallsDue
    <3>5. /\ InUse(s)' => \A k \in DOMAIN stream'[s].held : Pending(stream'[s].held[k])
          /\ InUse(s)' => \A k \in stream'[s].works : Pending(k)
          /\ InUse(s)' => \A k \in DOMAIN ws'[s].down : ws'[s].down[k].kind = "reply" => Pending(ws'[s].down[k].id)
      BY <1>5, <2>10, <1>15, <2>1, <3>1, <3>2, <3>3 DEF CallsDue
    <3> QED
      BY <1>16, <3>3, <3>4, <3>5 DEF CallsDue, Pending
  <2> QED
    BY <1>2, <1>4, <1>11, <1>16, <2>5, <2>6, <2>7, <2>8, <2>9, <1>3, OneStreamWorks
<1>14. ASSUME StartedLast(s, r, i)
       PROVE  IInv'
  <2>12. held = <<>> /\ r.held = held /\ r.started = started \o one /\ r.works = stream[s].works \cup {i}
    BY <1>6, <1>8, <1>9, <1>14 DEF StartedLast
  <2>1. PICK q : q = r.started
    OBVIOUS
  <2>2. q = started \o one
    BY <2>12, <2>1
  <2>3. \A k \in DOMAIN q : \/ k \in DOMAIN started /\ q[k] = started[k]
                            \/ q[k] = i
    BY <1>6, <2>2, Joined
  <2>4. Increasing(q)
    <3>1. \A k \in DOMAIN started, m \in DOMAIN one : started[k] < one[m]
      BY <1>1, <1>6, <1>8
    <3>2. Increasing(started)
      BY <1>8, <1>10 DEF Order
    <3> QED
      BY <1>7, <2>2, <3>1, <3>2, JoinedIncreases
  <2>5. /\ \A k \in DOMAIN started : k \in DOMAIN q /\ q[k] = started[k]
        /\ \E k \in DOMAIN q : q[k] = i
    <3>1. \A k \in DOMAIN started : k \in DOMAIN q /\ q[k] = started[k]
      BY <2>2, Joined
    <3>2. 1 + Len(started) \in DOMAIN q /\ q[1 + Len(started)] = one[1]
      BY <1>6, <2>2, JoinedHas
    <3> QED
      BY <1>6, <3>1, <3>2
  <2>6. \A k \in DOMAIN r.held : FALSE
    BY <2>12
  <2>7. Order(s)'
    <3>1. \A j \in DOMAIN ws'[s].up : ws'[s].up[j].kind = "request" =>
             \A k \in DOMAIN q : q[k] < ws'[s].up[j].id
      BY <1>12, <2>3
    <3>2. Increasing(r.held)
      BY <2>6 DEF Increasing
    <3> QED
      BY <1>5, <1>12, <2>1, <2>4, <2>6, <3>1, <3>2 DEF Order
  <2>8. KnownCalls(s)'
    <3>1. \A k \in DOMAIN q : q[k] \in DOMAIN calls /\ calls[q[k]].by = ws[s].owner
      BY <1>1, <1>8, <1>10, <2>3 DEF KnownCalls
    <3>2. \A k \in r.works : \E j \in DOMAIN q : q[j] = k
      BY <1>8, <1>10, <2>12, <2>5 DEF KnownCalls
    <3> QED
      BY <1>5, <1>15, <1>16, <2>1, <2>6, <3>1, <3>2 DEF KnownCalls
  <2>9. RepliesOnce(s)'
    <3>1. SUFFICES ASSUME NEW j \in DOMAIN ws[s].down, ws[s].down[j].kind = "reply"
                   PROVE  /\ \E k \in DOMAIN q : q[k] = ws[s].down[j].id
                          /\ ws[s].down[j].id \notin r.works
      BY <1>5, <1>10, <1>15, <2>1 DEF RepliesOnce
    <3>2. PICK k \in DOMAIN started : started[k] = ws[s].down[j].id
      BY <1>8, <1>10, <3>1 DEF RepliesOnce
    <3>3. ws[s].down[j].id \notin stream[s].works
      BY <1>10, <3>1 DEF RepliesOnce
    <3>4. started[k] < i /\ started[k] \in Nat /\ i \in Nat
      <4>1. started[k] \in Nat /\ one[1] \in Nat
        BY <1>6, Elements
      <4> QED
        BY <1>1, <1>6, <1>8, <4>1
    <3> QED
      BY <2>12, <2>5, <3>2, <3>3, <3>4
  <2>10. Alive(s)'
    BY <1>5, <1>10, <1>17, <2>12 DEF Alive
  <2>11. ASSUME ~Excuse
         PROVE  CallsDue(s)'
    <3>1. CallsDue(s)
      BY <2>11 DEF IInv, Honest
    <3>2. InUse(s) => \A k \in r.works : Pending(k)
      BY <1>1, <2>12, <3>1 DEF CallsDue
    <3>3. InUse(s)' => InUse(s)
      BY <1>4, <1>16 DEF InUse
    <3>4. ASSUME InUse(s), NEW j \in DOMAIN ws'[s].up, ws'[s].up[j].kind = "request"
          PROVE  Pending(ws'[s].up[j].id)
      <4>1. j + 1 \in DOMAIN ws[s].up /\ ws'[s].up[j] = ws[s].up[j + 1]
        BY <1>1, <1>3
      <4> QED
        BY <3>1, <3>4, <4>1 DEF CallsDue
    <3>5. /\ InUse(s)' => \A k \in DOMAIN stream'[s].held : Pending(stream'[s].held[k])
          /\ InUse(s)' => \A k \in stream'[s].works : Pending(k)
          /\ InUse(s)' => \A k \in DOMAIN ws'[s].down : ws'[s].down[k].kind = "reply" => Pending(ws'[s].down[k].id)
      BY <1>5, <1>15, <2>6, <3>1, <3>2, <3>3 DEF CallsDue
    <3> QED
      BY <1>16, <3>3, <3>4, <3>5 DEF CallsDue, Pending
  <2> QED
    BY <1>2, <1>3, <1>4, <1>11, <1>16, <2>7, <2>8, <2>9, <2>10, <2>11, OneStreamWorks
<1> QED
  BY <1>13, <1>14

LEMMA CallReadKeeps ==
    ASSUME IInv, NEW s \in Socket, CallRead(s)
    PROVE  IInv'
<1>1. FarReads(s, "request") /\ Listens(s) /\ UNCHANGED <<client, maps, calls, invokes, spent>> /\ ws' = PopUp(ws, s)
  BY DEF CallRead
<1>2. PICK i : i = ws[s].up[1].id
  OBVIOUS
<1>3. i \in 1..MaxCalls /\ i = Head(ws[s].up).id
  BY <1>1, <1>2, CallIs
<1>4. stream[s] \in StreamType /\ stream[s].held \in Seq(1..MaxCalls)
  BY StreamsAre DEF StreamType
<1>5. PICK one \in Seq(1..MaxCalls) : one = <<i>>
  <2>1. PICK S : S = 1..MaxCalls
    OBVIOUS
  <2>2. <<i>> \in Seq(S)
    BY <1>3, <2>1, OneElement
  <2> QED
    BY <2>1, <2>2
<1>6. CASE HoldsRequests(s)
  <2>1. PICK q : q = stream[s].held \o one
    OBVIOUS
  <2>2. q \in Seq(1..MaxCalls)
    BY <1>4, <2>1, Joined
  <2>3. q = Append(stream[s].held, i)
    <3>1. PICK S : S = 1..MaxCalls
      OBVIOUS
    <3>2. \A h \in Seq(S) : Append(h, i) = h \o <<i>>
      BY <1>3, <3>1
    <3> QED
      BY <1>4, <1>5, <2>1, <3>1, <3>2
  <2>4. PICK r : r = [stream[s] EXCEPT !.held = q]
    OBVIOUS
  <2>5. r \in StreamType
    BY <1>4, <2>2, <2>4 DEF StreamType
  <2>6. /\ r.phase = stream[s].phase /\ r.live = stream[s].live /\ r.blocked = stream[s].blocked
        /\ r.revived = stream[s].revived /\ r.told = stream[s].told /\ r.held = q
        /\ r.started = stream[s].started /\ r.works = stream[s].works
    BY <1>4, <2>4 DEF StreamType
  <2>7. stream' = [stream EXCEPT ![s] = r]
    <3>1. r = [stream[s] EXCEPT !.held = Append(stream[s].held, i)]
      BY <2>3, <2>4
    <3>2. r = Holds(stream[s], i)
      BY <3>1 DEF Holds
    <3> QED
      BY <1>3, <1>6, <3>2 DEF CallRead
  <2> QED
    <3>1. PopsFor(s, r)
      BY <1>1, <2>6, <2>7 DEF PopsFor
    <3>2. HeldLast(s, r, i)
      BY <1>5, <1>6, <2>1, <2>6 DEF HeldLast
    <3> QED
      BY <1>1, <1>2, <2>5, <3>1, <3>2, CallReadThen
<1>7. CASE ~HoldsRequests(s)
  <2>1. PICK r : r = Starts(stream[s], one)
    OBVIOUS
  <2>2. /\ r \in StreamType /\ r.phase = stream[s].phase /\ r.live = stream[s].live /\ r.blocked = stream[s].blocked
        /\ r.revived = stream[s].revived /\ r.told = stream[s].told /\ r.held = stream[s].held
        /\ r.started = stream[s].started \o one /\ r.works = stream[s].works \cup {one[k] : k \in DOMAIN one}
    BY <1>4, <2>1, StartsIs
  <2>3. {one[k] : k \in DOMAIN one} = {i}
    BY <1>5
  <2>4. stream[s].held = <<>>
    BY <1>7 DEF IInv, Served, Alive
  <2>5. stream' = [stream EXCEPT ![s] = r]
    BY <1>3, <1>5, <1>7, <2>1 DEF CallRead
  <2> QED
    <3>1. PopsFor(s, r)
      BY <1>1, <2>2, <2>5 DEF PopsFor
    <3>2. StartedLast(s, r, i)
      BY <1>5, <2>2, <2>3, <2>4 DEF StartedLast
    <3> QED
      BY <1>1, <1>2, <2>2, <3>1, <3>2, CallReadThen
<1> QED
  BY <1>6, <1>7

LEMMA AnsweredBecomes ==
    ASSUME TypeOK, NEW i \in DOMAIN invokes, invokes' = [invokes EXCEPT ![i].state = "answered"]
    PROVE  /\ invokes' \in Seq(InvokeType) /\ Len(invokes') = Len(invokes) /\ DOMAIN invokes' = DOMAIN invokes
           /\ invokes'[i].on = invokes[i].on /\ invokes'[i].state = "answered"
           /\ \A k \in DOMAIN invokes : k # i => invokes'[k] = invokes[k]
<1>1. invokes \in Seq(InvokeType) /\ invokes[i] \in InvokeType
  BY TypesAre, InvokesAre
<1>2. PICK r : r = [invokes[i] EXCEPT !.state = "answered"]
  OBVIOUS
<1>3. r \in InvokeType /\ r.on = invokes[i].on /\ r.state = "answered"
  BY <1>1, <1>2 DEF InvokeType
<1>4. invokes' = [invokes EXCEPT ![i] = r]
  BY <1>2
<1> QED
  BY <1>1, <1>3, <1>4

LEMMA AnswerReadKeeps ==
    ASSUME IInv, NEW s \in Socket, AnswerRead(s)
    PROVE  IInv'
<1>1. /\ FarReads(s, "reply") /\ Listens(s)
      /\ UNCHANGED <<client, stream, maps, calls, spent>> /\ spent' \in 0..MaxEvents
  BY SpentIs DEF AnswerRead, IInv
<1>2. /\ ws \in Sockets /\ ws[s].owner # Nobody /\ ws[s].up # <<>> /\ ws[s].far \in {"open", "closing"}
      /\ Head(ws[s].up) = ws[s].up[1] /\ 1 \in DOMAIN ws[s].up /\ ws[s].up[1].kind = "reply"
  BY <1>1, ReadsOther
<1>3. PICK i : i = ws[s].up[1].id
  OBVIOUS
<1>4. i \in DOMAIN invokes
  BY <1>2, <1>3 DEF IInv, Base, Known, KnownUp
<1>5. PICK w : w = PopUp(ws, s)
  OBVIOUS
<1>6. /\ FarDoes(w, ws, s, Every) /\ FarDoes(w, ws, s, Asks) /\ w \in Sockets
      /\ \A t \in Socket : w[t].far = ws[t].far /\ w[t].down = ws[t].down
      /\ w[s].up = Tail(ws[s].up)
  <2>1. FarDoes(w, ws, s, Every) /\ FarDoes(w, ws, s, Asks)
    BY <1>2, <1>5, PopUpDoes
  <2>2. w \in Sockets
    BY <2>1 DEF FarDoes
  <2> QED
    BY <1>2, <1>5, <2>1, <2>2, PopUpDoes
<1>7. /\ client \in [Client -> ClientType] /\ stream \in [Socket -> StreamType] /\ maps \in MapsType
      /\ calls \in Seq(CallType) /\ invokes \in Seq(InvokeType)
  BY TypesAre DEF IInv, Base
<1>8. CASE invokes[i].on = s /\ invokes[i].state = "pending"
  <2>1. invokes' = [invokes EXCEPT ![i].state = "answered"] /\ ws' = w
    BY <1>2, <1>3, <1>5, <1>8 DEF AnswerRead
  <2>2. /\ invokes' \in Seq(InvokeType) /\ Len(invokes') = Len(invokes) /\ DOMAIN invokes' = DOMAIN invokes
        /\ invokes'[i].on = invokes[i].on /\ invokes'[i].state = "answered"
        /\ \A k \in DOMAIN invokes : k # i => invokes'[k] = invokes[k]
    BY <1>4, <2>1, AnsweredBecomes DEF IInv, Base
  <2>3. /\ ws' \in Sockets
        /\ \A t \in Socket :
              /\ ws'[t].owner = ws[t].owner /\ ws'[t].near = ws[t].near
              /\ ws'[t].timer = ws[t].timer /\ ws'[t].ear = ws[t].ear
              /\ ws[t].owner = Nobody => ws'[t] = ws[t]
              /\ t # s => ws'[t] = ws[t]
              /\ Keeps(ws'[t].up, ws[t].up, Every) /\ Keeps(ws'[t].down, ws[t].down, Every)
    BY <1>2, <1>6, <2>1, FarCarries, AsksAre
  <2>4. TypeOK'
    BY <1>1, <1>7, <2>2, <2>3, TypesThen
  <2>5. FarStep
    <3>1. Logs
      BY <1>1, <1>4, <1>8, <2>2 DEF Logs
    <3> QED
      BY <1>1, <2>2, <2>3, <2>4, <3>1 DEF FarStep, IInv, Base
  <2>6. ASSUME NEW t \in Socket
        PROVE  SameWork(t) /\ Bare(t)' /\ Alive(t)'
    <3>1. stream'[t] = stream[t] /\ ws'[t].far = ws[t].far /\ ws'[t].owner = ws[t].owner /\ maps' = maps
      BY <1>1, <1>6, <2>1, <2>3
    <3>2. Bare(t)'
      BY <2>3, <3>1 DEF IInv, Base, Bare
    <3>3. Alive(t)'
      BY <3>1, AliveSame DEF IInv, Served
    <3> QED
      BY <3>1, <3>2, <3>3 DEF SameWork
  <2>7. FarQuiet
    <3>1. \A t \in Socket : Keeps(ws'[t].up, ws[t].up, Asks) /\ Keeps(ws'[t].down, ws[t].down, Asks)
      BY <2>3, KeepsFewer, AsksAre
    <3> QED
      BY <1>1, <2>5, <2>6, <3>1 DEF FarQuiet, IInv, Registered
  <2>8. Honest'
    <3>1. SUFFICES ASSUME ~Excuse'
                   PROVE  /\ \A t \in Socket : ~Bad(ws'[t].up) /\ ~Bad(ws'[t].down)
                          /\ \A t \in Socket : CallsDue(t)'
                          /\ \A t \in Socket : AskedDue(t)' /\ AnsweredDue(t)'
                          /\ \A q \in Client : WorkDue(q)'
      BY DEF Honest, Bad
    <3>2. ~Excuse
      BY <2>5, <3>1, ExcuseStays DEF FarStep
    <3>3. \A t \in Socket : ~Bad(ws'[t].up) /\ ~Bad(ws'[t].down)
      BY <1>2, <2>3, <3>2, GoodCarried DEF IInv, Honest
    <3>4. \A k \in DOMAIN invokes : k # i /\ Waits(k) => WaitsThen(k) /\ invokes'[k].on = invokes[k].on
      BY <1>1, <2>2 DEF Waits, WaitsThen
    <3>5. ASSUME NEW t \in Socket
          PROVE  AskedDue(t)'
      <4>1. SUFFICES ASSUME NEW j \in DOMAIN ws[t].down, ws[t].down[j].kind = "request"
                     PROVE  WaitsThen(ws[t].down[j].id)
        BY <1>6, <2>1 DEF AskedDue, Waits, WaitsThen
      <4>2. ws[t].down[j].id # i
        BY <1>2, <1>3, <4>1 DEF IInv, InvokesOnce, AskedOrAnswered
      <4>3. Waits(ws[t].down[j].id) /\ ws[t].down[j].id \in DOMAIN invokes
        BY <3>2, <4>1 DEF IInv, Honest, AskedDue, Base, Known, KnownDown
      <4> QED
        BY <3>4, <4>2, <4>3
    <3>6. ASSUME NEW t \in Socket
          PROVE  AnsweredDue(t)'
      <4>1. SUFFICES ASSUME NEW j \in DOMAIN ws'[t].up, ws'[t].up[j].kind = "reply"
                     PROVE  /\ WaitsThen(ws'[t].up[j].id)
                            /\ ws'[t].up[j].id # i /\ ws'[t].up[j].id \in DOMAIN invokes /\ Fits(ws'[t].up[j].id, t)
        BY <1>1, <2>2 DEF AnsweredDue, Waits, WaitsThen, Fits
      <4>2. PICK k \in DOMAIN ws[t].up : ws'[t].up[j] = ws[t].up[k] /\ (t = s => k # 1)
        <5>1. CASE t = s
          <6>1. PICK q \in Seq(Frame) : q = ws[s].up /\ q # <<>>
            BY <1>2, SocketFields
          <6>2. \A m \in DOMAIN Tail(q) : m + 1 \in DOMAIN q /\ Tail(q)[m] = q[m + 1] /\ m + 1 # 1
            OBVIOUS
          <6>3. j \in DOMAIN Tail(q) /\ ws'[s].up = Tail(q)
            BY <1>6, <2>1, <4>1, <5>1, <6>1
          <6> QED
            BY <5>1, <6>1, <6>2, <6>3
        <5>2. CASE t # s
          BY <2>3, <4>1, <5>2
        <5> QED
          BY <5>1, <5>2
      <4>3. ws[t].up[k].id # i
        <5>1. ~(t = s /\ k = 1)
          BY <4>2
        <5>2. ws[t].up[k].kind = "reply"
          BY <4>1, <4>2
        <5> QED
          BY <1>2, <1>3, <5>1, <5>2 DEF IInv, InvokesOnce, AnswersOnce
      <4>4. Waits(ws[t].up[k].id) /\ Fits(ws[t].up[k].id, t) /\ ws[t].up[k].id \in DOMAIN invokes
        BY <3>2, <4>1, <4>2 DEF IInv, Honest, AnsweredDue, Base, Known, KnownUp
      <4> QED
        BY <3>4, <4>2, <4>3, <4>4
    <3>7. ASSUME NEW q \in Client
          PROVE  WorkDue(q)'
      <4>1. SUFFICES ASSUME NEW k \in client[q].tasks
                     PROVE  /\ WaitsThen(k) /\ k # i /\ k \in DOMAIN invokes
                            /\ (client[q].ws # Nobody => Fits(k, client[q].ws))
        BY <1>1, <2>2 DEF WorkDue, Waits, WaitsThen, Fits
      <4>2. k # i
        BY <1>2, <1>3, <4>1 DEF IInv, InvokesOnce, AtWork
      <4>3. Waits(k) /\ k \in DOMAIN invokes /\ (client[q].ws # Nobody => Fits(k, client[q].ws))
        BY <3>2, <4>1 DEF IInv, Honest, WorkDue, Base, Fields
      <4> QED
        BY <3>4, <4>2, <4>3
    <3>8. \A t \in Socket : CallsDue(t)'
      BY <2>7, <3>2, FarQuietRest
    <3> QED
      BY <3>3, <3>5, <3>6, <3>7, <3>8
  <2> QED
    BY <2>7, <2>8, FarQuietRest DEF IInv
<1>9. CASE ~(invokes[i].on = s /\ invokes[i].state = "pending")
  <2>1. Excuse
    <3>1. SUFFICES ASSUME ~Excuse PROVE FALSE
      OBVIOUS
    <3>2. Waits(i) /\ Fits(i, s)
      BY <1>2, <1>3, <3>1 DEF IInv, Honest, AnsweredDue
    <3>3. stream[s].phase # "none"
      BY <1>1 DEF Listens
    <3> QED
      BY <1>9, <3>2, <3>3 DEF Waits, Fits
  <2>2. ws' = CloseFar(w, s, "badArg") /\ UNCHANGED invokes
    BY <1>2, <1>3, <1>5, <1>9 DEF AnswerRead
  <2>3. FarDoes(ws', w, s, Asks) /\ ws'[s].far = IF w[s].far = "open" THEN "closing" ELSE w[s].far
    <3>1. "badArg" \in Cause /\ Mark(Bye("badArg")) \notin Asks
      BY MarksAre, AsksAre DEF Cause
    <3> QED
      BY <1>6, <2>2, <3>1, CloseFarDoes
  <2>4. FarDoes(ws', ws, s, Asks) /\ ws'[s].far = "closing"
    BY <1>2, <1>6, <2>3, FarTwice
  <2>5. /\ ws' \in Sockets
        /\ \A t \in Socket :
              /\ ws'[t].owner = ws[t].owner /\ ws'[t].near = ws[t].near
              /\ ws'[t].timer = ws[t].timer /\ ws'[t].ear = ws[t].ear
              /\ ws[t].owner = Nobody => ws'[t] = ws[t]
              /\ t # s => ws'[t] = ws[t]
              /\ Keeps(ws'[t].up, ws[t].up, Asks) /\ Keeps(ws'[t].down, ws[t].down, Asks)
    BY <1>2, <2>4, FarCarries, AsksAre
  <2>6. TypeOK'
    BY <1>1, <1>7, <2>2, <2>5, TypesThen
  <2>7. Logs
    BY <1>1, <2>2 DEF Logs
  <2>8. FarStep
    BY <1>1, <2>2, <2>5, <2>6, <2>7 DEF FarStep, IInv, Base
  <2>9. ASSUME NEW t \in Socket
        PROVE  SameWork(t) /\ Bare(t)' /\ Alive(t)'
    <3>1. CASE t # s
      <4>1. stream'[t] = stream[t] /\ ws'[t] = ws[t] /\ maps' = maps
        BY <1>1, <2>5, <3>1
      <4> QED
        BY <4>1, AliveSame DEF IInv, Base, Served, Bare, SameWork
    <3>2. CASE t = s
      <4>1. stream'[s] = stream[s] /\ maps' = maps
        BY <1>1
      <4>2. Alive(s)'
        BY <2>4, <4>1 DEF IInv, Served, Alive, HoldsRequests
      <4>3. Bare(s)'
        BY <1>2, <2>4, <2>5, <4>1 DEF IInv, Base, Bare
      <4> QED
        BY <3>2, <4>1, <4>2, <4>3 DEF SameWork
    <3> QED
      BY <3>1, <3>2
  <2>10. FarQuiet
    BY <1>1, <2>5, <2>8, <2>9 DEF FarQuiet, IInv, Registered
  <2> QED
    BY <2>1, <2>10, FarQuietKeeps
<1> QED
  BY <1>8, <1>9

LEMMA InvokedBecomes ==
    ASSUME TypeOK, NEW s \in Socket, NEW fresh \in BOOLEAN,
           invokes' = Append(invokes, [on |-> s, fresh |-> fresh, threw |-> FALSE, state |-> "pending"])
    PROVE  /\ invokes' \in Seq(InvokeType) /\ Len(invokes') = Len(invokes) + 1 /\ Len(invokes) \in Nat
           /\ Len(invokes) + 1 \in DOMAIN invokes' /\ Len(invokes) + 1 \notin DOMAIN invokes
           /\ invokes'[Len(invokes) + 1].on = s /\ invokes'[Len(invokes) + 1].state = "pending"
           /\ \A k \in DOMAIN invokes : k \in DOMAIN invokes' /\ invokes'[k] = invokes[k]
<1>1. PICK e : e = [on |-> s, fresh |-> fresh, threw |-> FALSE, state |-> "pending"]
  OBVIOUS
<1>2. e \in InvokeType /\ e.on = s /\ e.state = "pending"
  BY <1>1 DEF InvokeType
<1>3. invokes \in Seq(InvokeType) /\ invokes' = Append(invokes, e)
  BY <1>1, TypesAre
<1> QED
  BY <1>2, <1>3

LEMMA ServerInvokeKeeps ==
    ASSUME IInv, NEW s \in Socket, ServerInvoke(s)
    PROVE  IInv'
<1>1. UNCHANGED <<client, stream, maps, calls>> /\ Len(invokes) < MaxInvokes /\ spent' \in 0..MaxEvents
  BY SpentIs DEF ServerInvoke, IInv
<1>2. stream[s] \in StreamType /\ stream[s].phase # "none" /\ ws[s].owner # Nobody /\ ws[s].far # "unused"
  BY StreamsAre DEF ServerInvoke, Listens
<1>3. PICK n : n = Len(invokes) + 1
  OBVIOUS
<1>4. /\ invokes' \in Seq(InvokeType) /\ Len(invokes') = n /\ Len(invokes) \in Nat /\ n = Len(invokes) + 1
      /\ n \in DOMAIN invokes' /\ n \notin DOMAIN invokes
      /\ invokes'[n].on = s /\ invokes'[n].state = "pending"
      /\ \A k \in DOMAIN invokes : k \in DOMAIN invokes' /\ invokes'[k] = invokes[k]
  <2>1. PICK fresh \in BOOLEAN : fresh = stream[s].live
    BY <1>2 DEF StreamType
  <2>2. invokes' = Append(invokes, [on |-> s, fresh |-> fresh, threw |-> FALSE, state |-> "pending"])
    BY <2>1 DEF ServerInvoke
  <2>3. TypeOK
    BY DEF IInv, Base
  <2> QED
    BY <1>3, <2>2, <2>3, InvokedBecomes
<1>5. PICK f \in Frame : f = Request(n)
  <2>1. n \in 1..MaxInvokes
    BY <1>1, <1>4, SrpcAssumption
  <2> QED
    BY <2>1, FramesAre
<1>6. f.kind = "request" /\ f.id = n /\ Mark(f) = "request"
  BY <1>5, MarksAre DEF Request
<1>7. ws' = WriteDown(ws, s, f)
  BY <1>3, <1>5 DEF ServerInvoke
<1>8. /\ ws \in Sockets /\ ws' \in Sockets
      /\ \A t \in Socket :
            /\ ws'[t].owner = ws[t].owner /\ ws'[t].near = ws[t].near /\ ws'[t].far = ws[t].far
            /\ ws'[t].timer = ws[t].timer /\ ws'[t].ear = ws[t].ear /\ ws'[t].up = ws[t].up
            /\ ws[t].owner = Nobody => ws'[t] = ws[t]
            /\ t # s => ws'[t] = ws[t]
            /\ \A j \in DOMAIN ws'[t].down :
                  \/ j \in DOMAIN ws[t].down /\ ws'[t].down[j] = ws[t].down[j]
                  \/ t = s /\ ws'[t].down[j] = f /\ j = Len(ws[t].down) + 1
            /\ \A K : Mark(f) \notin K => Keeps(ws'[t].down, ws[t].down, K)
      /\ ws[s].far # "open" => ws' = ws
  BY <1>2, <1>7, FarWrites
<1>9. TypeOK'
  <2>1. /\ client \in [Client -> ClientType] /\ stream \in [Socket -> StreamType] /\ maps \in MapsType
        /\ calls \in Seq(CallType)
    BY TypesAre DEF IInv, Base
  <2> QED
    BY <1>1, <1>4, <1>8, <2>1, TypesThen
<1>10. FarStep
  <2>1. Logs
    BY <1>1, <1>4 DEF Logs
  <2>2. Len(invokes') <= MaxInvokes
    BY <1>1, <1>4, SrpcAssumption
  <2> QED
    BY <1>1, <1>8, <1>9, <2>1, <2>2 DEF FarStep
<1>11. \A t \in Socket : /\ Keeps(ws'[t].up, ws[t].up, Asks) /\ Keeps(ws'[t].up, ws[t].up, Requests)
                         /\ Keeps(ws'[t].down, ws[t].down, Replies)
  <2>1. "request" \notin Replies
    BY DEF Replies
  <2> QED
    BY <1>6, <1>8, <2>1, SocketFields
<1>12. \A t \in Socket : SameWork(t) /\ KnownUp(t)' /\ KnownCalls(t)' /\ Order(t)' /\ RepliesOnce(t)'
  <2>1. \A t \in Socket : SameWork(t)
    BY <1>1 DEF SameWork
  <2> QED
    BY <1>10, <1>11, <2>1, FarStepKeeps
<1>13. ASSUME NEW t \in Socket
       PROVE  Bare(t)' /\ Alive(t)' /\ KnownDown(t)'
  <2>1. Bare(t)'
    BY <1>1, <1>8 DEF IInv, Base, Bare
  <2>2. Alive(t)'
    BY <1>1, <1>8, AliveSame DEF IInv, Served
  <2>3. SUFFICES ASSUME NEW j \in DOMAIN ws'[t].down
                 PROVE  /\ ws'[t].down[j].kind = "request" => ws'[t].down[j].id \in DOMAIN invokes' /\ invokes'[ws'[t].down[j].id].on = t
                        /\ ws'[t].down[j].kind = "reply" => ws'[t].down[j].id \in DOMAIN calls'
    BY <2>1, <2>2 DEF KnownDown
  <2>4. CASE j \in DOMAIN ws[t].down /\ ws'[t].down[j] = ws[t].down[j]
    BY <1>1, <1>4, <2>4 DEF IInv, Base, Known, KnownDown
  <2>5. CASE t = s /\ ws'[t].down[j] = f
    BY <1>4, <1>6, <2>5
  <2> QED
    BY <1>8, <2>4, <2>5
<1>14. Base'
  BY <1>9, <1>10, <1>12, <1>13, FarStepKeeps DEF Base, Known, FarStep
<1>15. Registered'
  BY <1>1 DEF IInv, Registered
<1>16. \A t \in Socket : Served(t)'
  BY <1>12, <1>13 DEF Served
<1>17. \A t \in Socket : \A j \in DOMAIN ws[t].down : ws[t].down[j].kind = "request" => ws[t].down[j].id # n
  BY <1>4 DEF IInv, Base, Known, KnownDown
<1>18. \A t \in Socket : \A j \in DOMAIN ws[t].up : ws[t].up[j].kind = "reply" => ws[t].up[j].id # n
  BY <1>4 DEF IInv, Base, Known, KnownUp
<1>19. InvokesOnce'
  <2>1. AnswersOnce'
    BY <1>8 DEF IInv, InvokesOnce, AnswersOnce
  <2>2. AskedOnce'
    <3>1. SUFFICES ASSUME NEW t \in Socket, NEW j \in DOMAIN ws'[t].down, NEW k \in DOMAIN ws'[t].down,
                          ws'[t].down[j].kind = "request", ws'[t].down[k].kind = "request",
                          ws'[t].down[j].id = ws'[t].down[k].id
                   PROVE  j = k
      BY DEF AskedOnce
    <3>2. CASE j \in DOMAIN ws[t].down /\ ws'[t].down[j] = ws[t].down[j]
      <4>1. ws'[t].down[k] # f
        BY <1>6, <1>17, <3>1, <3>2
      <4>2. k \in DOMAIN ws[t].down /\ ws'[t].down[k] = ws[t].down[k]
        BY <1>8, <4>1
      <4> QED
        BY <3>1, <3>2, <4>2 DEF IInv, InvokesOnce, AskedOnce
    <3>3. CASE ws'[t].down[j] = f /\ j = Len(ws[t].down) + 1
      <4>1. ws'[t].down[k].id = n
        BY <1>6, <3>1, <3>3
      <4>2. ~(k \in DOMAIN ws[t].down /\ ws'[t].down[k] = ws[t].down[k])
        BY <1>17, <3>1, <4>1
      <4>3. k = Len(ws[t].down) + 1
        BY <1>8, <4>2
      <4> QED
        BY <3>3, <4>3
    <3> QED
      BY <1>8, <3>2, <3>3
  <2>3. AskedOrAnswered'
    BY <1>6, <1>8, <1>18 DEF IInv, InvokesOnce, AskedOrAnswered
  <2>4. AtWork'
    <3>1. SUFFICES ASSUME NEW q \in Client, NEW k \in client[q].tasks, NEW t \in Socket
                   PROVE  /\ \A j \in DOMAIN ws'[t].down : ws'[t].down[j].kind = "request" => ws'[t].down[j].id # k
                          /\ \A j \in DOMAIN ws'[t].up : ws'[t].up[j].kind = "reply" => ws'[t].up[j].id # k
      BY <1>1 DEF AtWork
    <3>2. k # n
      BY <1>4, <3>1 DEF IInv, Base, Fields
    <3> QED
      BY <1>6, <1>8, <3>1, <3>2 DEF IInv, InvokesOnce, AtWork
  <2> QED
    BY <2>1, <2>2, <2>3, <2>4 DEF InvokesOnce
<1>20. Honest'
  <2>1. SUFFICES ASSUME ~Excuse'
                 PROVE  /\ \A t \in Socket : ~Bad(ws'[t].up) /\ ~Bad(ws'[t].down)
                        /\ \A t \in Socket : CallsDue(t)'
                        /\ \A t \in Socket : AskedDue(t)' /\ AnsweredDue(t)'
                        /\ \A q \in Client : WorkDue(q)'
    BY DEF Honest, Bad
  <2>2. ~Excuse
    BY <1>10, <2>1, ExcuseStays DEF FarStep
  <2>3. ASSUME NEW t \in Socket
        PROVE  ~Bad(ws'[t].up) /\ ~Bad(ws'[t].down)
    <3>1. ~Bad(ws[t].up) /\ ~Bad(ws[t].down)
      BY <2>2 DEF IInv, Honest
    <3> QED
      BY <1>6, <1>8, <3>1 DEF Bad
  <2>4. ASSUME NEW t \in Socket
        PROVE  CallsDue(t)'
    <3>1. InUse(t)' => InUse(t)
      BY <1>1, <1>8 DEF InUse
    <3>2. CallsDue(t) /\ Known(t) /\ RepliesOnce(t)
      BY <2>2 DEF IInv, Honest, Base, Served
    <3> QED
      BY <1>1, <1>8, <1>11, <3>1, <3>2, CallsDueCarried DEF Pending
  <2>5. \A k \in DOMAIN invokes : (Waits(k) => WaitsThen(k)) /\ invokes'[k].on = invokes[k].on
    BY <1>1, <1>4 DEF Waits, WaitsThen
  <2>6. ws[s].far = "open" => WaitsThen(n)
    BY <1>1, <1>2, <1>4 DEF IInv, Served, Alive, WaitsThen
  <2>7. ASSUME NEW t \in Socket
        PROVE  AskedDue(t)'
    <3>1. SUFFICES ASSUME NEW j \in DOMAIN ws'[t].down, ws'[t].down[j].kind = "request"
                   PROVE  WaitsThen(ws'[t].down[j].id)
      BY DEF AskedDue, Waits, WaitsThen
    <3>2. CASE j \in DOMAIN ws[t].down /\ ws'[t].down[j] = ws[t].down[j]
      BY <2>2, <2>5, <3>1, <3>2 DEF IInv, Honest, AskedDue, Base, Known, KnownDown
    <3>3. CASE ~(j \in DOMAIN ws[t].down /\ ws'[t].down[j] = ws[t].down[j])
      <4>1. ws'[t].down[j] = f /\ ws[s].far = "open"
        BY <1>8, <3>1, <3>3
      <4> QED
        BY <1>6, <2>6, <4>1
    <3> QED
      BY <3>2, <3>3
  <2>8. ASSUME NEW t \in Socket
        PROVE  AnsweredDue(t)'
    <3>1. SUFFICES ASSUME NEW j \in DOMAIN ws[t].up, ws[t].up[j].kind = "reply"
                   PROVE  WaitsThen(ws[t].up[j].id) /\ FitsThen(ws[t].up[j].id, t)
      BY <1>8 DEF AnsweredDue, Waits, WaitsThen, Fits, FitsThen
    <3>2. Waits(ws[t].up[j].id) /\ Fits(ws[t].up[j].id, t) /\ ws[t].up[j].id \in DOMAIN invokes
      BY <2>2, <3>1 DEF IInv, Honest, AnsweredDue, Base, Known, KnownUp
    <3> QED
      BY <1>1, <2>5, <3>2 DEF Fits, FitsThen
  <2>9. ASSUME NEW q \in Client
        PROVE  WorkDue(q)'
    <3>1. SUFFICES ASSUME NEW k \in client[q].tasks
                   PROVE  WaitsThen(k) /\ (client[q].ws # Nobody => FitsThen(k, client[q].ws))
      BY <1>1 DEF WorkDue, Waits, WaitsThen, Fits, FitsThen
    <3>2. Waits(k) /\ k \in DOMAIN invokes /\ (client[q].ws # Nobody => Fits(k, client[q].ws))
      BY <2>2, <3>1 DEF IInv, Honest, WorkDue, Base, Fields
    <3> QED
      BY <1>1, <2>5, <3>2 DEF Fits, FitsThen
  <2> QED
    BY <2>3, <2>4, <2>7, <2>8, <2>9
<1> QED
  BY <1>10, <1>14, <1>15, <1>16, <1>19, <1>20, FarStepKeeps DEF IInv

-----------------------------------------------------------------------------
(* The theorems. *)

LEMMA InitHolds == Init => IInv
<1> SUFFICES ASSUME Init PROVE IInv
  OBVIOUS
<1>1. /\ client = [p \in Client |-> NoClient] /\ ws = [s \in Socket |-> NoSocket] /\ stream = [s \in Socket |-> NoStream]
      /\ maps = [byId |-> {}, pending |-> Nobody, active |-> Nobody, serving |-> TRUE]
      /\ calls = <<>> /\ invokes = <<>> /\ spent = 0
  BY DEF Init
<1>2. TypeOK
  <2>1. NoClient \in ClientType
    BY DEF NoClient, ClientType, NoTimer, Nobody
  <2>2. NoSocket \in SocketType
    BY DEF NoSocket, SocketType, NearState, FarState, Nobody
  <2>3. NoStream \in StreamType
    BY DEF NoStream, StreamType
  <2>4. maps \in MapsType
    BY <1>1 DEF MapsType, Nobody
  <2>5. spent \in 0..MaxEvents
    BY <1>1, SrpcAssumption
  <2> QED
    BY <1>1, <2>1, <2>2, <2>3, <2>4, <2>5, TypesAre DEF Sockets
<1>3. Numbered
  <2>1. Used = {}
    BY <1>1 DEF Used, NoSocket
  <2>2. Used = 1..0 /\ 0 \in 0..MaxSockets
    BY <2>1, SrpcAssumption
  <2> QED
    BY <2>2 DEF Numbered
<1>4. ASSUME NEW p \in Client
      PROVE  Fields(p) /\ Tidy(p) /\ WorkDue(p)
  <2>1. client[p] = NoClient
    BY <1>1
  <2>2. Fields(p) /\ WorkDue(p)
    BY <2>1 DEF Fields, WorkDue, NoClient, Counted, NoTimer
  <2>3. \A s \in Socket : ws[s].owner # p
    BY <1>1, SrpcAssumption DEF NoSocket, Nobody
  <2>4. Tidy(p)
    BY <2>1, <2>3 DEF Tidy, NoClient, Single, NoTimer
  <2> QED
    BY <2>2, <2>4
<1>5. ASSUME NEW s \in Socket
      PROVE  /\ ws[s] = NoSocket /\ stream[s] = NoStream
             /\ ws[s].owner = Nobody /\ ws[s].far = "unused" /\ ws[s].up = <<>> /\ ws[s].down = <<>>
             /\ stream[s].phase = "none" /\ stream[s].held = <<>> /\ stream[s].started = <<>>
             /\ stream[s].works = {} /\ stream[s].told = 0
  BY <1>1 DEF NoSocket, NoStream
<1>6. ASSUME NEW s \in Socket
      PROVE  Bare(s) /\ Known(s) /\ Order(s) /\ Alive(s) /\ RepliesOnce(s)
  <2>1. Bare(s) /\ Known(s)
    BY <1>5 DEF Bare, Known, KnownUp, KnownDown, KnownCalls
  <2>2. Order(s) /\ RepliesOnce(s)
    BY <1>5 DEF Order, Increasing, RepliesOnce
  <2>3. Alive(s)
    BY <1>1, <1>5 DEF Alive
  <2> QED
    BY <2>1, <2>2, <2>3
<1>7. ASSUME NEW s \in Socket
      PROVE  ~Bad(ws[s].up) /\ ~Bad(ws[s].down) /\ CallsDue(s) /\ AskedDue(s) /\ AnsweredDue(s)
  BY <1>5 DEF Bad, CallsDue, InUse, AskedDue, AnsweredDue
<1>8. Registered
  BY <1>1 DEF Registered
<1>9. InvokesOnce
  <2>1. AnswersOnce /\ AskedOnce /\ AskedOrAnswered
    BY <1>5 DEF AnswersOnce, AskedOnce, AskedOrAnswered
  <2>2. AtWork
    BY <1>1 DEF AtWork, NoClient
  <2> QED
    BY <2>1, <2>2 DEF InvokesOnce
<1>10. Len(calls) <= MaxCalls /\ Len(invokes) <= MaxInvokes
  BY <1>1, SrpcAssumption
<1>11. Base
  BY <1>2, <1>3, <1>4, <1>6, <1>10 DEF Base
<1>12. Honest
  BY <1>4, <1>7 DEF Honest
<1>13. (\A s \in Socket : Served(s)) /\ (\A p \in Client : Tidy(p))
  BY <1>4, <1>6 DEF Served
<1> QED
  BY <1>8, <1>9, <1>11, <1>12, <1>13 DEF IInv

LEMMA StutterKeeps == ASSUME IInv, UNCHANGED vars PROVE IInv'
<1>1. UNCHANGED <<client, ws, stream, maps, calls, invokes, spent>>
  BY DEF vars
<1>2. Base'
  <2>1. TypeOK'
    BY <1>1, TypesAre, TypesThen DEF IInv, Base
  <2>2. Len(calls') <= MaxCalls /\ Len(invokes') <= MaxInvokes /\ Numbered'
    BY <1>1 DEF IInv, Base, Numbered, Used
  <2>3. \A p \in Client : Fields(p)'
    BY <1>1 DEF IInv, Base, Fields
  <2>4. \A s \in Socket : Bare(s)' /\ Known(s)'
    BY <1>1 DEF IInv, Base, Bare, Known, KnownUp, KnownDown, KnownCalls
  <2> QED
    BY <2>1, <2>2, <2>3, <2>4 DEF Base
<1>3. Registered' /\ \A s \in Socket : Served(s)'
  BY <1>1 DEF IInv, Registered, Served, Order, Alive, RepliesOnce, HoldsRequests
<1>4. \A p \in Client : Tidy(p)'
  BY <1>1 DEF IInv, Tidy
<1>5. InvokesOnce'
  BY <1>1 DEF IInv, InvokesOnce, AnswersOnce, AskedOnce, AskedOrAnswered, AtWork
<1>6. Honest'
  BY <1>1 DEF IInv, Honest, Excuse, CallsDue, InUse, Pending, AskedDue, AnsweredDue, WorkDue, Waits, Fits
<1> QED
  BY <1>2, <1>3, <1>4, <1>5, <1>6 DEF IInv

LEMMA ChoiceKeeps == ASSUME IInv, Choice PROVE IInv'
<1>1. ASSUME NEW p \in Client, NEW supersede \in BOOLEAN, Connect(p, supersede) PROVE IInv'
  BY <1>1, ConnectKeeps
<1>2. ASSUME NEW p \in Client, Disconnect(p) \/ PingFires(p) \/ Invoke(p) PROVE IInv'
  BY <1>2, DisconnectKeeps, PingFiresKeeps, InvokeKeeps
<1>3. ASSUME NEW p \in Client, NEW i \in DOMAIN invokes, TaskEnds(p, i) \/ TaskThrows(p, i) PROVE IInv'
  BY <1>3, TaskEndsKeeps, TaskThrowsKeeps
<1>4. ASSUME NEW s \in Socket, Refuse(s) \/ HandlersFail(s) \/ ServerInvoke(s) \/ Cut(s) PROVE IInv'
  BY <1>4, RefuseKeeps, HandlersFailKeeps, ServerInvokeKeeps, CutKeeps
<1>5. ASSUME NEW s \in Socket, NearNotices(s) \/ FarNotices(s) PROVE IInv'
  BY <1>5, CloseReadKeeps, FarEndsKeeps
<1>6. ASSUME NEW s \in Socket, NEW i \in DOMAIN calls, WorkEnds(s, i) PROVE IInv'
  BY <1>6, WorkEndsKeeps
<1>7. CASE ServerCloses
  BY <1>7, ServerClosesKeeps
<1> QED
  BY <1>1, <1>2, <1>3, <1>4, <1>5, <1>6, <1>7 DEF Choice

LEMMA ProgressKeeps == ASSUME IInv, Progress PROVE IInv'
<1>1. ASSUME NEW p \in Client, RetryFires(p) \/ PongTimesOut(p) PROVE IInv'
  BY <1>1, RetryFiresKeeps, PongTimesOutKeeps
<1>2. ASSUME NEW i \in DOMAIN calls, CallTimesOut(i) PROVE IInv'
  BY <1>2, CallTimesOutKeeps
<1>3. ASSUME NEW s \in Socket, ConnectTimesOut(s) \/ Opens(s) \/ Handshake(s) \/ Ignores(s) \/ ReplyRead(s) PROVE IInv'
  BY <1>3, ConnectTimesOutKeeps, OpensKeeps, HandshakeKeeps, IgnoresKeeps, ReplyReadKeeps
<1>4. ASSUME NEW s \in Socket, RequestRead(s) \/ CloseRead(s) \/ NearFails(s) PROVE IInv'
  BY <1>4, RequestReadKeeps, CloseReadKeeps
<1>5. ASSUME NEW s \in Socket, Accept(s) \/ CheckPasses(s) \/ Activate(s) \/ OpenRequests(s) \/ Inactive(s) PROVE IInv'
  BY <1>5, AcceptKeeps, CheckPassesKeeps, ActivateKeeps, OpenRequestsKeeps, HandlersFailKeeps
<1>6. ASSUME NEW s \in Socket, Unheard(s) \/ PingRead(s) \/ CallRead(s) \/ AnswerRead(s) PROVE IInv'
  BY <1>6, UnheardKeeps, PingReadKeeps, CallReadKeeps, AnswerReadKeeps
<1>7. ASSUME NEW s \in Socket, ByeRead(s) \/ FarFails(s) PROVE IInv'
  BY <1>7, FarEndsKeeps
<1> QED
  BY <1>1, <1>2, <1>3, <1>4, <1>5, <1>6, <1>7 DEF Progress

LEMMA Inductive == Spec => []IInv
<1>1. IInv /\ [Next]_vars => IInv'
  BY ChoiceKeeps, ProgressKeeps, StutterKeeps DEF Next
<1> QED
  BY <1>1, InitHolds, PTL DEF Spec

LEMMA IsOneStream == IInv => OneStream
<1> SUFFICES ASSUME IInv PROVE OneStream
  OBVIOUS
<1>1. TypeOK /\ maps.byId = {maps.pending, maps.active} \ {Nobody} /\ (maps.pending = Nobody \/ maps.active = Nobody)
  BY DEF IInv, Base, Registered
<1>2. maps.byId \subseteq Socket
  BY <1>1, TypesAre DEF MapsType
<1>3. \A s \in maps.byId : stream[s].live /\ ws[s].far # "closed"
  BY <1>2 DEF IInv, Served, Alive
<1>4. \A s \in Socket : \A i, j \in DOMAIN stream[s].started : i < j => stream[s].started[i] < stream[s].started[j]
  BY DEF IInv, Served, Order, Increasing
<1> QED
  BY <1>1, <1>3, <1>4 DEF OneStream

LEMMA IsTidy == IInv => TidyClient
BY DEF IInv, Tidy, TidyClient, Single

LEMMA IsHonest == IInv => EndsForCause
<1> SUFFICES ASSUME IInv PROVE EndsForCause
  OBVIOUS
<1>1. ASSUME NEW s \in Socket,
             Bye("badArg") \in {ws[s].up[i] : i \in DOMAIN ws[s].up} \cup {ws[s].down[i] : i \in DOMAIN ws[s].down}
      PROVE  Excuse
  <2>1. Bad(ws[s].up) \/ Bad(ws[s].down)
    BY <1>1 DEF Bad, Bye
  <2> QED
    BY <2>1 DEF IInv, Honest
<1>2. ASSUME NEW s \in Socket
      PROVE  /\ stream[s].phase # "none" /\ ws[s].far = "closed" => stream[s].told > 0
             /\ stream[s].told > 1 => stream[s].revived
  <2>1. stream[s].told \in Nat
    BY TypesAre DEF IInv, Base, StreamType
  <2>2. Alive(s)
    BY DEF IInv, Served
  <2> QED
    BY <2>1, <2>2 DEF Alive
<1> QED
  BY <1>1, <1>2 DEF EndsForCause, Excuse

\* However streams are accepted, superseded, refused and ended, in whatever order the events of
\* their sockets come: the server keeps one stream for the client id at most, in maps that agree,
\* and starts the handlers of its requests in the order in which they were sent (SrpcServer's
\* handleUpgrade(), activateStream(), cleanupStream() and handleStreamDataReceived()).
THEOREM StreamIsOne == Spec => []OneStream
BY Inductive, IsOneStream, PTL

\* A client that never runs connect() into a connection has one ping interval and one scheduled
\* reconnection at most, in every state: connect(), handleInitialHandshake(), handleDisconnect()
\* and queueReconnect() of SrpcClient clear what they set.
THEOREM ClientIsTidy == Spec => []TidyClient
BY Inductive, IsTidy, PTL

\* Neither end closes a socket with "badArg" without a timeout, a handler that outlived its
\* connection or an overlapping connect(), and every stream that has ended was announced to the
\* handlers of disconnections (handleReply() of both ends, cleanupStream()).
THEOREM EndsHaveCause == Spec => []EndsForCause
BY Inductive, IsHonest, PTL

=============================================================================
