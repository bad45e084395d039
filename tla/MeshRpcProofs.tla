--------------------------- MODULE MeshRpcProofs ---------------------------
(***************************************************************************)
(* Proofs about MeshRpc.  As long as nothing has failed, a request that    *)
(* waits between two running nodes is covered: its message is on its way,  *)
(* a handler works for it, or its answer is on its way, and its timer has  *)
(* enough left for what must happen next.                                  *)
(***************************************************************************)
EXTENDS MeshRpc, TLAPS, FiniteSetTheorems, SequenceTheorems

\* A heartbeat interval and the delays of a request and a heartbeat stay below the timeout.
TimelyAssumption == Beat + 2 * MaxDelay < Timeout

From(r) == requests[r].from
To(r) == requests[r].to
Timer(r) == requests[r].timer

Answers == {"resolved", "handlerError", "noHandler"}

\* The message at place i between two nodes is one of these about r.
At3(a, b, i, kinds, r) == wire[a][b][i].kind \in kinds /\ wire[a][b][i].r = r

\* The heartbeat at place i reaches r's caller before its timer is due.
Saves(r, i) ==
    /\ At3(To(r), From(r), i, {"heartbeat"}, r)
    /\ Timer(r) > MaxDelay - wire[To(r)][From(r)][i].age

\* The request itself is at place i, and its timer has run since it was sent.
Asks(r, i) ==
    /\ At3(From(r), To(r), i, {"request"}, r)
    /\ Timer(r) >= Timeout - wire[From(r)][To(r)][i].age

Asked(r) == \E i \in DOMAIN wire[From(r)][To(r)] : Asks(r, i)

\* The execution works for it, and its next heartbeat or one on its way comes in time.
Works(r, w) ==
    /\ w.r = r /\ w.beat # Off
    /\ \/ Timer(r) > w.beat + MaxDelay
       \/ \E i \in DOMAIN wire[To(r)][From(r)] : Saves(r, i)

Worked(r) == \E w \in works : Works(r, w)

\* Its answer comes in time, or a heartbeat before it.
Replied(r) ==
    \E i \in DOMAIN wire[To(r)][From(r)] :
        /\ At3(To(r), From(r), i, Answers, r)
        /\ \/ Timer(r) > MaxDelay - wire[To(r)][From(r)][i].age
           \/ \E j \in DOMAIN wire[To(r)][From(r)] : j < i /\ Saves(r, j)

Covered(r) == Asked(r) \/ Worked(r) \/ Replied(r)

\* Both ends run, and did when the request was made.
Between(r) == ~requests[r].early /\ life[To(r)] = "on" /\ life[From(r)] = "on"

\* Nobody asks before it has started, nor itself.
Started ==
    \A r \in DOMAIN requests :
        /\ From(r) # To(r)
        /\ life[From(r)] # "joining"
        /\ life[To(r)] = "joining" => requests[r].early

Addressed(r, a, b) == r \in DOMAIN requests /\ From(r) = a /\ To(r) = b

\* What is on its way and what is worked for is a request that was made.
KnownOnWire ==
    \A a, b \in Node : \A i \in DOMAIN wire[a][b] :
        wire[a][b][i].kind = "request" => Addressed(wire[a][b][i].r, a, b)

KnownAtWork == \A w \in works : w.r \in DOMAIN requests

Known == KnownOnWire /\ KnownAtWork

InTime ==
    faults = 0 =>
        /\ timely
        /\ \A r \in DOMAIN requests : Between(r) =>
              requests[r].state # "timedOut" /\ (Pending(r) => Covered(r))

\* A request that is over has no timer.
Cleared == \A r \in DOMAIN requests : ~Pending(r) => Timer(r) = Off

WInv == TypeOK /\ Started /\ Known /\ Cleared /\ SettledOrWatched

-----------------------------------------------------------------------------
(* What the operations do to sequences, channels and requests. *)

\* A message appended to a channel is its last one and moves no other.
LEMMA AppendFacts ==
    ASSUME NEW S, NEW s \in Seq(S), NEW e \in S
    PROVE  /\ Append(s, e) \in Seq(S)
           /\ Len(s) \in Nat /\ DOMAIN s = 1..Len(s)
           /\ Len(Append(s, e)) = Len(s) + 1
           /\ DOMAIN Append(s, e) = 1..(Len(s) + 1)
           /\ \A i \in 1..Len(s) : Append(s, e)[i] = s[i]
           /\ Append(s, e)[Len(s) + 1] = e
  OBVIOUS

\* Consuming a channel's head moves every other message one place forward.
LEMMA TailFacts ==
    ASSUME NEW S, NEW s \in Seq(S), s # <<>>
    PROVE  /\ Tail(s) \in Seq(S)
           /\ Head(s) = s[1] /\ Head(s) \in S
           /\ Len(s) \in Nat /\ Len(s) >= 1 /\ DOMAIN s = 1..Len(s)
           /\ DOMAIN Tail(s) = 1..(Len(s) - 1)
           /\ \A i \in 1..(Len(s) - 1) : Tail(s)[i] = s[i + 1]
  OBVIOUS

\* A sequence rewritten element by element keeps its length.
LEMMA RewriteFacts ==
    ASSUME NEW S, NEW s \in Seq(S), NEW t, t = [i \in DOMAIN s |-> t[i]],
           \A i \in DOMAIN s : t[i] \in S
    PROVE  t \in Seq(S) /\ Len(t) = Len(s) /\ DOMAIN t = DOMAIN s
  OBVIOUS

WireType == wire \in [Node -> [Node -> Seq(Message)]]

\* Publishing changes one channel.
LEMMA PublishEffect ==
    ASSUME WireType, NEW a \in Node, NEW b \in Node, NEW m \in Message, Publish(a, b, m)
    PROVE  /\ WireType'
           /\ Len(wire[a][b]) \in Nat
           /\ DOMAIN wire[a][b] = 1..Len(wire[a][b])
           /\ DOMAIN wire'[a][b] = 1..(Len(wire[a][b]) + 1)
           /\ \A i \in DOMAIN wire[a][b] : wire'[a][b][i] = wire[a][b][i]
           /\ wire'[a][b][Len(wire[a][b]) + 1] = m
           /\ \A x, y \in Node : x # a \/ y # b => wire'[x][y] = wire[x][y]
<1>1. wire[a] \in [Node -> Seq(Message)] /\ wire[a][b] \in Seq(Message)
  BY DEF WireType
<1>2. Append(wire[a][b], m) \in Seq(Message)
  BY <1>1, AppendFacts
<1>3. wire' = [wire EXCEPT ![a] = [wire[a] EXCEPT ![b] = Append(wire[a][b], m)]]
  BY <1>1 DEF Publish, WireType
<1>4. /\ WireType' /\ wire'[a][b] = Append(wire[a][b], m)
      /\ \A x, y \in Node : x # a \/ y # b => wire'[x][y] = wire[x][y]
  BY <1>1, <1>2, <1>3 DEF WireType
<1> QED BY <1>1, <1>4, AppendFacts

\* Consuming changes one channel.
LEMMA ConsumeEffect ==
    ASSUME WireType, NEW a \in Node, NEW b \in Node, wire[a][b] # <<>>, Consume(a, b)
    PROVE  /\ WireType'
           /\ Len(wire[a][b]) \in Nat \ {0}
           /\ DOMAIN wire[a][b] = 1..Len(wire[a][b])
           /\ DOMAIN wire'[a][b] = 1..(Len(wire[a][b]) - 1)
           /\ \A i \in 1..(Len(wire[a][b]) - 1) : wire'[a][b][i] = wire[a][b][i + 1]
           /\ \A x, y \in Node : x # a \/ y # b => wire'[x][y] = wire[x][y]
<1>1. wire[a] \in [Node -> Seq(Message)] /\ wire[a][b] \in Seq(Message)
  BY DEF WireType
<1>2. Tail(wire[a][b]) \in Seq(Message)
  BY <1>1, TailFacts
<1>3. wire' = [wire EXCEPT ![a] = [wire[a] EXCEPT ![b] = Tail(wire[a][b])]]
  BY <1>1 DEF Consume, WireType
<1>4. /\ WireType' /\ wire'[a][b] = Tail(wire[a][b])
      /\ \A x, y \in Node : x # a \/ y # b => wire'[x][y] = wire[x][y]
  BY <1>1, <1>2, <1>3 DEF WireType
<1> QED BY <1>1, <1>4, TailFacts

\* Settling a request changes its state and its timer only, and no other request.
LEMMA SettleEffect ==
    ASSUME requests \in Seq(Request), NEW r \in DOMAIN requests, NEW outcome \in Outcome,
           Settle(r, outcome)
    PROVE  /\ requests' \in Seq(Request) /\ Len(requests') = Len(requests)
           /\ DOMAIN requests' = DOMAIN requests
           /\ \A q \in DOMAIN requests : q # r => requests'[q] = requests[q]
           /\ requests'[r].state = outcome /\ requests'[r].timer = Off
           /\ requests'[r].from = requests[r].from /\ requests'[r].to = requests[r].to
           /\ requests'[r].early = requests[r].early
<1> DEFINE q == [requests[r] EXCEPT !.state = outcome, !.timer = Off]
<1>1. requests[r] \in Request
  OBVIOUS
<1>2. /\ q \in Request /\ q.state = outcome /\ q.timer = Off
      /\ q.from = requests[r].from /\ q.to = requests[r].to /\ q.early = requests[r].early
  BY <1>1 DEF Request
<1>3. requests' = [requests EXCEPT ![r] = q]
  BY <1>1 DEF Settle, Request
<1> HIDE DEF q
<1> QED BY <1>2, <1>3

\* The requests a node leaves behind are rejected, the others stay as they are.
LEMMA AbandonedEffect ==
    ASSUME requests \in Seq(Request), NEW n \in Node, NEW outcome \in Outcome
    PROVE  LET after == Abandoned(n, outcome) IN
           /\ after \in Seq(Request) /\ Len(after) = Len(requests)
           /\ DOMAIN after = DOMAIN requests
           /\ \A r \in DOMAIN requests :
                 /\ requests[r].from = n /\ Pending(r) => after[r].state = outcome /\ after[r].timer = Off
                 /\ ~(requests[r].from = n /\ Pending(r)) => after[r] = requests[r]
                 /\ after[r].from = requests[r].from /\ after[r].to = requests[r].to
                 /\ after[r].early = requests[r].early
<1> DEFINE after == Abandoned(n, outcome)
           gone(r) == [requests[r] EXCEPT !.state = outcome, !.timer = Off]
<1>1. \A r \in DOMAIN requests :
         /\ requests[r] \in Request
         /\ gone(r) \in Request /\ gone(r).state = outcome /\ gone(r).timer = Off
         /\ gone(r).from = requests[r].from /\ gone(r).to = requests[r].to
         /\ gone(r).early = requests[r].early
  <2> SUFFICES ASSUME NEW r \in DOMAIN requests
               PROVE  /\ requests[r] \in Request
                      /\ gone(r) \in Request /\ gone(r).state = outcome /\ gone(r).timer = Off
                      /\ gone(r).from = requests[r].from /\ gone(r).to = requests[r].to
                      /\ gone(r).early = requests[r].early
    OBVIOUS
  <2>1. requests[r] \in Request OBVIOUS
  <2> QED BY <2>1 DEF Request
<1>2. after = [r \in DOMAIN requests |->
                  IF requests[r].from = n /\ Pending(r) THEN gone(r) ELSE requests[r]]
  BY DEF Abandoned
<1> HIDE DEF gone, after
<1>3. \A r \in DOMAIN requests : after[r] \in Request
  BY <1>1, <1>2
<1>4. after = [r \in DOMAIN requests |-> after[r]]
  BY <1>2
<1>5. after \in Seq(Request) /\ Len(after) = Len(requests) /\ DOMAIN after = DOMAIN requests
  BY <1>3, <1>4, RewriteFacts
<1> QED BY <1>1, <1>2, <1>5 DEF after

\* A tick shortens timers and lengthens ages.
LEMMA TickEffect ==
    ASSUME TypeOK, Tick
    PROVE  /\ requests' \in Seq(Request) /\ Len(requests') = Len(requests)
           /\ DOMAIN requests' = DOMAIN requests
           /\ \A r \in DOMAIN requests :
                 /\ requests'[r].timer = Sooner(requests[r].timer)
                 /\ requests'[r].state = requests[r].state /\ requests'[r].early = requests[r].early
                 /\ requests'[r].from = requests[r].from /\ requests'[r].to = requests[r].to
           /\ \A w \in works : [w EXCEPT !.beat = Sooner(@)] \in works'
           /\ \A w \in works : /\ [w EXCEPT !.beat = Sooner(@)].r = w.r
                               /\ [w EXCEPT !.beat = Sooner(@)].beat = Sooner(w.beat)
           /\ works' \subseteq Work
           /\ \A v \in works' : \E w \in works : v.r = w.r
           /\ WireType'
           /\ \A a, b \in Node :
                 /\ DOMAIN wire'[a][b] = DOMAIN wire[a][b]
                 /\ \A i \in DOMAIN wire[a][b] :
                       /\ wire'[a][b][i].kind = wire[a][b][i].kind /\ wire'[a][b][i].r = wire[a][b][i].r
                       /\ wire'[a][b][i].age = IF timely THEN wire[a][b][i].age + 1 ELSE wire[a][b][i].age
<1>1. \A t \in {Off} \cup 0..Timeout : Sooner(t) \in {Off} \cup 0..Timeout
  BY MeshRpcAssumption DEF Sooner, Off
<1>2. \A t \in {Off} \cup 0..Beat : Sooner(t) \in {Off} \cup 0..Beat
  BY MeshRpcAssumption DEF Sooner, Off
<1>3. \A r \in DOMAIN requests :
         LET q == [requests[r] EXCEPT !.timer = Sooner(@)] IN
         /\ q \in Request /\ q.timer = Sooner(requests[r].timer) /\ q.state = requests[r].state
         /\ q.early = requests[r].early /\ q.from = requests[r].from /\ q.to = requests[r].to
  <2> SUFFICES ASSUME NEW r \in DOMAIN requests
               PROVE  LET q == [requests[r] EXCEPT !.timer = Sooner(@)] IN
                      /\ q \in Request /\ q.timer = Sooner(requests[r].timer) /\ q.state = requests[r].state
                      /\ q.early = requests[r].early /\ q.from = requests[r].from /\ q.to = requests[r].to
    OBVIOUS
  <2>1. requests[r] \in Request BY DEF TypeOK
  <2> QED BY <1>1, <2>1 DEF Request
<1>4. requests' = [r \in DOMAIN requests |-> [requests[r] EXCEPT !.timer = Sooner(@)]]
  BY DEF Tick
<1>5. /\ requests' \in Seq(Request) /\ Len(requests') = Len(requests)
      /\ DOMAIN requests' = DOMAIN requests
  <2>1. requests \in Seq(Request) BY DEF TypeOK
  <2>2. \A r \in DOMAIN requests : requests'[r] \in Request BY <1>3, <1>4
  <2>3. requests' = [r \in DOMAIN requests |-> requests'[r]] BY <1>4
  <2> QED BY <2>1, <2>2, <2>3, RewriteFacts
<1>6. \A w \in works : LET v == [w EXCEPT !.beat = Sooner(@)] IN
         v \in Work /\ v.r = w.r /\ v.beat = Sooner(w.beat)
  <2> SUFFICES ASSUME NEW w \in works
               PROVE  LET v == [w EXCEPT !.beat = Sooner(@)] IN
                      v \in Work /\ v.r = w.r /\ v.beat = Sooner(w.beat)
    OBVIOUS
  <2>1. w \in Work BY DEF TypeOK
  <2> QED BY <1>2, <2>1 DEF Work
<1>7. works' = {[w EXCEPT !.beat = Sooner(@)] : w \in works}
  BY DEF Tick
<1>8. /\ WireType'
      /\ \A a, b \in Node :
            /\ DOMAIN wire'[a][b] = DOMAIN wire[a][b]
            /\ \A i \in DOMAIN wire[a][b] :
                  /\ wire'[a][b][i].kind = wire[a][b][i].kind /\ wire'[a][b][i].r = wire[a][b][i].r
                  /\ wire'[a][b][i].age = IF timely THEN wire[a][b][i].age + 1 ELSE wire[a][b][i].age
  <2>1. WireType BY DEF TypeOK, WireType
  <2>2. wire' = [a \in Node |-> [b \in Node |-> [i \in DOMAIN wire[a][b] |-> Older(wire[a][b][i])]]]
    BY DEF Tick
  <2>3. ASSUME NEW a \in Node, NEW b \in Node, NEW i \in DOMAIN wire[a][b]
        PROVE  LET m == wire[a][b][i] IN
               /\ Older(m) \in Message /\ Older(m).kind = m.kind /\ Older(m).r = m.r
               /\ Older(m).age = IF timely THEN m.age + 1 ELSE m.age
    <3>1. wire[a][b] \in Seq(Message) BY <2>1 DEF WireType
    <3>2. wire[a][b][i] \in Message BY <3>1
    <3>3. timely => wire[a][b][i].age < MaxDelay BY DEF Tick, MayPass
    <3> QED BY <3>2, <3>3, MeshRpcAssumption DEF Older, Message
  <2>4. ASSUME NEW a \in Node, NEW b \in Node
        PROVE  wire'[a][b] \in Seq(Message) /\ DOMAIN wire'[a][b] = DOMAIN wire[a][b]
    <3>1. wire[a][b] \in Seq(Message) BY <2>1 DEF WireType
    <3>2. wire'[a][b] = [i \in DOMAIN wire[a][b] |-> Older(wire[a][b][i])] BY <2>2
    <3>3. \A i \in DOMAIN wire[a][b] : wire'[a][b][i] \in Message BY <2>3, <3>2
    <3>4. wire'[a][b] = [i \in DOMAIN wire[a][b] |-> wire'[a][b][i]] BY <3>2
    <3> QED BY <3>1, <3>3, <3>4, RewriteFacts
  <2>5. WireType' BY <2>2, <2>4 DEF WireType
  <2>6. \A a, b \in Node : \A i \in DOMAIN wire[a][b] : wire'[a][b][i] = Older(wire[a][b][i])
    BY <2>2
  <2> QED BY <2>3, <2>4, <2>5, <2>6
<1>9. \A r \in DOMAIN requests :
         /\ requests'[r].timer = Sooner(requests[r].timer)
         /\ requests'[r].state = requests[r].state /\ requests'[r].early = requests[r].early
         /\ requests'[r].from = requests[r].from /\ requests'[r].to = requests[r].to
  <2> DEFINE sooner(q) == [q EXCEPT !.timer = Sooner(@)]
  <2>1. \A r \in DOMAIN requests : requests'[r] = sooner(requests[r])
    BY <1>4
  <2>2. \A r \in DOMAIN requests :
           LET q == sooner(requests[r]) IN
           /\ q.timer = Sooner(requests[r].timer) /\ q.state = requests[r].state
           /\ q.early = requests[r].early /\ q.from = requests[r].from /\ q.to = requests[r].to
    BY <1>3
  <2> HIDE DEF sooner
  <2> QED BY <2>1, <2>2
<1>10. /\ \A w \in works : [w EXCEPT !.beat = Sooner(@)] \in works'
       /\ \A w \in works : /\ [w EXCEPT !.beat = Sooner(@)].r = w.r
                           /\ [w EXCEPT !.beat = Sooner(@)].beat = Sooner(w.beat)
       /\ works' \subseteq Work
       /\ \A v \in works' : \E w \in works : v.r = w.r
  <2> DEFINE sooner(w) == [w EXCEPT !.beat = Sooner(@)]
  <2>1. works' = {sooner(w) : w \in works}
    BY <1>7
  <2>2. \A w \in works : sooner(w) \in Work /\ sooner(w).r = w.r /\ sooner(w).beat = Sooner(w.beat)
    BY <1>6
  <2>3. /\ \A w \in works : sooner(w) \in works' /\ sooner(w).r = w.r /\ sooner(w).beat = Sooner(w.beat)
        /\ works' \subseteq Work
        /\ \A v \in works' : \E w \in works : v.r = w.r
    <3> HIDE DEF sooner
    <3> QED BY <2>1, <2>2
  <2> QED BY <2>3
<1> QED BY <1>5, <1>8, <1>9, <1>10

\* Losing a channel's last message changes one channel.
LEMMA DropLastEffect ==
    ASSUME WireType, NEW a \in Node, NEW b \in Node, wire[a][b] # <<>>,
           wire' = [wire EXCEPT ![a][b] = SubSeq(@, 1, Len(@) - 1)]
    PROVE  /\ WireType'
           /\ Len(wire[a][b]) \in Nat \ {0} /\ wire'[a][b] = SubSeq(wire[a][b], 1, Len(wire[a][b]) - 1)
           /\ DOMAIN wire'[a][b] = 1..(Len(wire[a][b]) - 1)
           /\ \A i \in DOMAIN wire'[a][b] : wire'[a][b][i] = wire[a][b][i]
           /\ \A x, y \in Node : x # a \/ y # b => wire'[x][y] = wire[x][y]
<1> DEFINE s == wire[a][b]
           t == SubSeq(s, 1, Len(s) - 1)
<1>1. wire[a] \in [Node -> Seq(Message)] /\ s \in Seq(Message)
  BY DEF WireType
<1>2. t \in Seq(Message) /\ Len(s) \in Nat \ {0} /\ DOMAIN t = 1..(Len(s) - 1)
      /\ \A i \in DOMAIN t : t[i] = s[i]
  <2>1. Len(s) \in Nat /\ Len(s) # 0 BY <1>1
  <2>2. t = [i \in 1..(Len(s) - 1) |-> s[i]]
    BY <1>1, <2>1
  <2> HIDE DEF t
  <2>3. DOMAIN t = 1..(Len(s) - 1) /\ \A i \in DOMAIN t : t[i] = s[i] /\ t[i] \in Message
    BY <1>1, <2>1, <2>2
  <2>4. t \in Seq(Message)
    <3>1. t \in [1..(Len(s) - 1) -> Message] BY <2>2, <2>3
    <3>2. Len(s) - 1 \in Nat BY <2>1
    <3> QED BY <3>1, <3>2, SeqDef
  <2> QED BY <2>1, <2>3, <2>4
<1>3. wire' = [wire EXCEPT ![a] = [wire[a] EXCEPT ![b] = t]]
  BY <1>1 DEF WireType
<1> HIDE DEF t
<1>4. wire'[a][b] = t /\ WireType' /\ \A x, y \in Node : x # a \/ y # b => wire'[x][y] = wire[x][y]
  BY <1>1, <1>2, <1>3 DEF WireType
<1> QED BY <1>2, <1>4 DEF t

\* Refusing a request consumes one channel and appends to the one back.
Refuse(a, b, m) == wire' = [wire EXCEPT ![a][b] = Tail(@), ![b][a] = Append(@, m)]

LEMMA RefuseEffect ==
    ASSUME WireType, NEW a \in Node, NEW b \in Node, a # b, NEW m \in Message, wire[a][b] # <<>>,
           Refuse(a, b, m)
    PROVE  /\ WireType'
           /\ Len(wire[a][b]) \in Nat \ {0}
           /\ DOMAIN wire[a][b] = 1..Len(wire[a][b])
           /\ DOMAIN wire'[a][b] = 1..(Len(wire[a][b]) - 1)
           /\ \A i \in 1..(Len(wire[a][b]) - 1) : wire'[a][b][i] = wire[a][b][i + 1]
           /\ Len(wire[b][a]) \in Nat
           /\ DOMAIN wire[b][a] = 1..Len(wire[b][a])
           /\ DOMAIN wire'[b][a] = 1..(Len(wire[b][a]) + 1)
           /\ \A i \in DOMAIN wire[b][a] : wire'[b][a][i] = wire[b][a][i]
           /\ wire'[b][a][Len(wire[b][a]) + 1] = m
           /\ \A x, y \in Node : (x # a \/ y # b) /\ (x # b \/ y # a) => wire'[x][y] = wire[x][y]
<1>1. /\ wire[a] \in [Node -> Seq(Message)] /\ wire[a][b] \in Seq(Message)
      /\ wire[b] \in [Node -> Seq(Message)] /\ wire[b][a] \in Seq(Message)
  BY DEF WireType
<1>2. Tail(wire[a][b]) \in Seq(Message) /\ Append(wire[b][a], m) \in Seq(Message)
  BY <1>1, TailFacts, AppendFacts
<1>3. wire' = [wire EXCEPT ![a] = [wire[a] EXCEPT ![b] = Tail(wire[a][b])],
                           ![b] = [wire[b] EXCEPT ![a] = Append(wire[b][a], m)]]
  BY <1>1 DEF WireType, Refuse
<1>4. /\ [wire[a] EXCEPT ![b] = Tail(wire[a][b])] \in [Node -> Seq(Message)]
      /\ [wire[b] EXCEPT ![a] = Append(wire[b][a], m)] \in [Node -> Seq(Message)]
  BY <1>1, <1>2
<1>5. WireType'
  BY <1>3, <1>4 DEF WireType
<1>6. /\ wire'[a] = [wire[a] EXCEPT ![b] = Tail(wire[a][b])]
      /\ wire'[b] = [wire[b] EXCEPT ![a] = Append(wire[b][a], m)]
      /\ \A x \in Node \ {a, b} : wire'[x] = wire[x]
  BY <1>3 DEF WireType
<1>7. wire'[a][b] = Tail(wire[a][b]) /\ wire'[b][a] = Append(wire[b][a], m)
  BY <1>1, <1>6
<1>8. ASSUME NEW x \in Node, NEW y \in Node, x # a \/ y # b, x # b \/ y # a
      PROVE  wire'[x][y] = wire[x][y]
  <2>1. CASE x = a BY <1>1, <1>6, <1>8, <2>1
  <2>2. CASE x = b BY <1>1, <1>6, <1>8, <2>2
  <2>3. CASE x \notin {a, b} BY <1>6, <2>3
  <2> QED BY <2>1, <2>2, <2>3
<1>9. /\ Len(wire[a][b]) \in Nat \ {0}
      /\ DOMAIN wire[a][b] = 1..Len(wire[a][b])
      /\ DOMAIN wire'[a][b] = 1..(Len(wire[a][b]) - 1)
      /\ \A i \in 1..(Len(wire[a][b]) - 1) : wire'[a][b][i] = wire[a][b][i + 1]
  <2>1. LET s == wire[a][b] IN
        /\ Len(s) \in Nat \ {0} /\ DOMAIN s = 1..Len(s)
        /\ DOMAIN Tail(s) = 1..(Len(s) - 1)
        /\ \A i \in 1..(Len(s) - 1) : Tail(s)[i] = s[i + 1]
    BY <1>1, TailFacts
  <2> QED BY <1>7, <2>1, Zenon
<1>10. /\ Len(wire[b][a]) \in Nat
       /\ DOMAIN wire[b][a] = 1..Len(wire[b][a])
       /\ DOMAIN wire'[b][a] = 1..(Len(wire[b][a]) + 1)
       /\ \A i \in DOMAIN wire[b][a] : wire'[b][a][i] = wire[b][a][i]
       /\ wire'[b][a][Len(wire[b][a]) + 1] = m
  <2>1. LET s == wire[b][a] IN
        /\ Len(s) \in Nat /\ DOMAIN s = 1..Len(s)
        /\ DOMAIN Append(s, m) = 1..(Len(s) + 1)
        /\ \A i \in 1..Len(s) : Append(s, m)[i] = s[i]
        /\ Append(s, m)[Len(s) + 1] = m
    BY <1>1, AppendFacts
  <2> QED BY <1>7, <2>1, Zenon
<1> QED BY <1>5, <1>8, <1>9, <1>10

\* A broadcast is appended to every channel of its sender.
LEMMA AirEffect ==
    ASSUME WireType, NEW n \in Node, NEW m \in Message,
           wire' = [wire EXCEPT ![n] = [b \in Node |-> Append(@[b], m)]]
    PROVE  /\ WireType'
           /\ \A b \in Node :
                 /\ Len(wire[n][b]) \in Nat
                 /\ DOMAIN wire[n][b] = 1..Len(wire[n][b])
                 /\ DOMAIN wire'[n][b] = 1..(Len(wire[n][b]) + 1)
                 /\ \A i \in DOMAIN wire[n][b] : wire'[n][b][i] = wire[n][b][i]
                 /\ wire'[n][b][Len(wire[n][b]) + 1] = m
           /\ \A x, y \in Node : x # n => wire'[x][y] = wire[x][y]
<1>1. \A x, y \in Node : wire[x] \in [Node -> Seq(Message)] /\ wire[x][y] \in Seq(Message)
  BY DEF WireType
<1>2. \A b \in Node : Append(wire[n][b], m) \in Seq(Message)
  BY <1>1, AppendFacts
<1>3. [b \in Node |-> Append(wire[n][b], m)] \in [Node -> Seq(Message)]
  BY <1>2
<1>4. /\ WireType' /\ \A b \in Node : wire'[n][b] = Append(wire[n][b], m)
      /\ \A x, y \in Node : x # n => wire'[x][y] = wire[x][y]
  BY <1>1, <1>3 DEF WireType
<1>5. ASSUME NEW b \in Node
      PROVE  /\ Len(wire[n][b]) \in Nat
             /\ DOMAIN wire[n][b] = 1..Len(wire[n][b])
             /\ DOMAIN wire'[n][b] = 1..(Len(wire[n][b]) + 1)
             /\ \A i \in DOMAIN wire[n][b] : wire'[n][b][i] = wire[n][b][i]
             /\ wire'[n][b][Len(wire[n][b]) + 1] = m
  BY <1>1, <1>4, AppendFacts
<1> QED BY <1>4, <1>5

\* A stall changes ages only.
LEMMA StallEffect ==
    ASSUME WireType, Stall
    PROVE  /\ WireType'
           /\ \A a, b \in Node :
                 /\ DOMAIN wire'[a][b] = DOMAIN wire[a][b]
                 /\ \A i \in DOMAIN wire[a][b] :
                       wire'[a][b][i].kind = wire[a][b][i].kind /\ wire'[a][b][i].r = wire[a][b][i].r
<1> DEFINE fresh(m) == [m EXCEPT !.age = 0]
<1>1. wire' = [a \in Node |-> [b \in Node |-> [i \in DOMAIN wire[a][b] |-> fresh(wire[a][b][i])]]]
  BY DEF Stall
<1>2. ASSUME NEW m \in Message
      PROVE  fresh(m) \in Message /\ fresh(m).kind = m.kind /\ fresh(m).r = m.r
  BY MeshRpcAssumption DEF Message
<1> HIDE DEF fresh
<1>3. ASSUME NEW a \in Node, NEW b \in Node
      PROVE  /\ wire'[a][b] \in Seq(Message) /\ DOMAIN wire'[a][b] = DOMAIN wire[a][b]
             /\ \A i \in DOMAIN wire[a][b] :
                   wire'[a][b][i].kind = wire[a][b][i].kind /\ wire'[a][b][i].r = wire[a][b][i].r
  <2>1. wire[a][b] \in Seq(Message) BY DEF WireType
  <2>2. wire'[a][b] = [i \in DOMAIN wire[a][b] |-> fresh(wire[a][b][i])] BY <1>1
  <2>3. \A i \in DOMAIN wire[a][b] : wire[a][b][i] \in Message BY <2>1
  <2>4. \A i \in DOMAIN wire[a][b] :
           /\ wire'[a][b][i] \in Message
           /\ wire'[a][b][i].kind = wire[a][b][i].kind /\ wire'[a][b][i].r = wire[a][b][i].r
    BY <1>2, <2>2, <2>3
  <2>5. wire'[a][b] = [i \in DOMAIN wire[a][b] |-> wire'[a][b][i]] BY <2>2
  <2> QED BY <2>1, <2>4, <2>5, RewriteFacts
<1>4. WireType' BY <1>1, <1>3 DEF WireType
<1> QED BY <1>3, <1>4

-----------------------------------------------------------------------------
(* What a step does to the requests. *)

\* A request never changes its ends; a request that is over stays as it is; one that waits
\* has a timer.
SameRequest(r) ==
    /\ requests'[r].from = requests[r].from /\ requests'[r].to = requests[r].to
    /\ requests'[r].early = requests[r].early
    /\ ~Pending(r) => requests'[r] = requests[r]
    /\ requests'[r].state = "pending" => requests'[r].timer # Off
    /\ requests'[r].state # "pending" => requests'[r].timer = Off

RequestsKept ==
    /\ requests' \in Seq(Request) /\ Len(requests') = Len(requests)
    /\ DOMAIN requests' = DOMAIN requests
    /\ \A r \in DOMAIN requests : SameRequest(r)

\* Settling a request that waits.
LEMMA SettleKeeps ==
    ASSUME WInv, NEW r \in DOMAIN requests, Pending(r), NEW outcome \in Outcome, Settle(r, outcome)
    PROVE  RequestsKept
<1>1. requests \in Seq(Request) BY DEF WInv, TypeOK
<1>2. outcome # "pending" BY DEF Outcome
<1>3. \A q \in DOMAIN requests :
         (Pending(q) <=> requests[q].state = "pending")
         /\ (Pending(q) => requests[q].timer # Off) /\ (~Pending(q) => requests[q].timer = Off)
  BY DEF WInv, SettledOrWatched, Cleared, Pending, Timer
<1> QED BY <1>1, <1>2, <1>3, SettleEffect DEF RequestsKept, SameRequest

\* Requests nobody touches.
LEMMA UntouchedKeeps ==
    ASSUME WInv, UNCHANGED requests
    PROVE  RequestsKept
<1>1. requests \in Seq(Request) BY DEF WInv, TypeOK
<1>3. \A q \in DOMAIN requests :
         (Pending(q) <=> requests[q].state = "pending")
         /\ (Pending(q) => requests[q].timer # Off) /\ (~Pending(q) => requests[q].timer = Off)
  BY DEF WInv, SettledOrWatched, Cleared, Pending, Timer
<1> QED BY <1>1, <1>3 DEF RequestsKept, SameRequest

\* A heartbeat for a request that waits.
LEMMA ExtendKeeps ==
    ASSUME WInv, NEW r \in DOMAIN requests, Pending(r),
           requests' = [requests EXCEPT ![r].timer = Timeout]
    PROVE  /\ RequestsKept
           /\ requests'[r].timer = Timeout /\ requests'[r].state = "pending"
           /\ \A q \in DOMAIN requests : q # r => requests'[q] = requests[q]
<1> DEFINE q == [requests[r] EXCEPT !.timer = Timeout]
<1>1. requests \in Seq(Request) /\ requests[r] \in Request /\ requests[r].state = "pending"
  BY DEF WInv, TypeOK, Pending
<1>2. Timeout # Off /\ Timeout \in 0..Timeout
  BY MeshRpcAssumption DEF Off
<1>3. /\ q \in Request /\ q.timer = Timeout /\ q.state = requests[r].state
      /\ q.from = requests[r].from /\ q.to = requests[r].to /\ q.early = requests[r].early
  BY <1>1, <1>2 DEF Request
<1>4. requests' = [requests EXCEPT ![r] = q]
  BY <1>1 DEF Request
<1>5. \A p \in DOMAIN requests :
         (Pending(p) <=> requests[p].state = "pending")
         /\ (Pending(p) => requests[p].timer # Off) /\ (~Pending(p) => requests[p].timer = Off)
  BY DEF WInv, SettledOrWatched, Cleared, Pending, Timer
<1> HIDE DEF q
<1>6. /\ requests' \in Seq(Request) /\ Len(requests') = Len(requests)
      /\ DOMAIN requests' = DOMAIN requests
      /\ requests'[r] = q /\ \A p \in DOMAIN requests : p # r => requests'[p] = requests[p]
  BY <1>1, <1>3, <1>4
<1> QED BY <1>1, <1>2, <1>3, <1>5, <1>6 DEF RequestsKept, SameRequest

\* A node that stops or dies rejects what it waits for.
LEMMA AbandonKeeps ==
    ASSUME WInv, NEW n \in Node, NEW outcome \in Outcome, requests' = Abandoned(n, outcome)
    PROVE  RequestsKept
<1>1. requests \in Seq(Request) BY DEF WInv, TypeOK
<1>2. outcome # "pending" BY DEF Outcome
<1>3. \A q \in DOMAIN requests :
         (Pending(q) <=> requests[q].state = "pending")
         /\ (Pending(q) => requests[q].timer # Off) /\ (~Pending(q) => requests[q].timer = Off)
  BY DEF WInv, SettledOrWatched, Cleared, Pending, Timer
<1> QED BY <1>1, <1>2, <1>3, AbandonedEffect DEF RequestsKept, SameRequest

\* Time.
LEMMA TickKeeps ==
    ASSUME WInv, Tick
    PROVE  RequestsKept
<1>1. requests \in Seq(Request) BY DEF WInv, TypeOK
<1>2. \A q \in DOMAIN requests :
         (Pending(q) <=> requests[q].state = "pending")
         /\ (Pending(q) => requests[q].timer # Off) /\ (~Pending(q) => requests[q].timer = Off)
  BY DEF WInv, SettledOrWatched, Cleared, Pending, Timer
<1>3. /\ requests' \in Seq(Request) /\ Len(requests') = Len(requests)
      /\ DOMAIN requests' = DOMAIN requests
      /\ \A r \in DOMAIN requests :
            /\ requests'[r].timer = Sooner(requests[r].timer)
            /\ requests'[r].state = requests[r].state /\ requests'[r].early = requests[r].early
            /\ requests'[r].from = requests[r].from /\ requests'[r].to = requests[r].to
  BY TickEffect DEF WInv
<1>4. Sooner(Off) = Off /\ \A t \in 0..Timeout : Sooner(t) # Off
  BY DEF Sooner, Off
<1>5. ASSUME NEW r \in DOMAIN requests
      PROVE  SameRequest(r)
  <2>1. requests[r] \in Request /\ requests'[r] \in Request
    BY <1>1, <1>3
  <2>2. requests[r].timer \in {Off} \cup 0..Timeout
    BY <2>1 DEF Request
  <2>3. requests[r].timer = Off => requests'[r] = requests[r]
    BY <1>3, <1>4, <2>1 DEF Request
  <2> QED BY <1>2, <1>3, <1>4, <2>2, <2>3 DEF SameRequest
<1> QED BY <1>3, <1>5 DEF RequestsKept

\* The bound leaves room for one more.
LEMMA RoomForOne ==
    ASSUME TypeOK, MaySend
    PROVE  Len(requests) \in Nat /\ Len(requests) + 1 \in 1..MaxSent
<1>1. Len(requests) \in Nat BY DEF TypeOK
<1>2. IsFiniteSet({aired} \ {NoNode}) BY FS_Singleton, FS_Difference
<1>3. Cardinality({aired} \ {NoNode}) \in Nat BY <1>2, FS_CardinalityType
<1> QED BY <1>1, <1>3, MeshRpcAssumption DEF MaySend

\* invoke() adds one request at the end and one message.
LEMMA InvokeEffect ==
    ASSUME WInv, NEW a \in Node, NEW b \in Node, Invoke(a, b)
    PROVE  LET new == Len(requests) + 1 IN
           /\ requests' \in Seq(Request) /\ Len(requests') = new /\ new \in 1..MaxSent
           /\ DOMAIN requests' = DOMAIN requests \cup {new} /\ new \notin DOMAIN requests
           /\ \A r \in DOMAIN requests : requests'[r] = requests[r] /\ SameRequest(r)
           /\ requests'[new].from = a /\ requests'[new].to = b
           /\ (requests'[new].early <=> life[b] = "joining")
           /\ requests'[new].state = "pending" /\ requests'[new].timer = Timeout
           /\ Msg("request", new) \in Message
<1> DEFINE new == Len(requests) + 1
           q == [from  |-> a, to |-> b, early |-> life[b] = "joining",
                 state |-> "pending", timer |-> Timeout]
<1>1. requests \in Seq(Request) /\ new \in 1..MaxSent
  BY RoomForOne DEF WInv, TypeOK, Invoke
<1>2. q \in Request /\ q.from = a /\ q.to = b /\ (q.early <=> life[b] = "joining")
      /\ q.state = "pending" /\ q.timer = Timeout
  <2>1. Timeout \in 0..Timeout
    BY MeshRpcAssumption
  <2>2. ASSUME NEW e \in BOOLEAN
        PROVE  LET p == [from  |-> a, to |-> b, early |-> e, state |-> "pending", timer |-> Timeout] IN
               /\ p \in Request /\ p.from = a /\ p.to = b /\ p.early = e
               /\ p.state = "pending" /\ p.timer = Timeout
    BY <2>1 DEF Request
  <2>3. (life[b] = "joining") \in BOOLEAN
    OBVIOUS
  <2> QED BY <2>2, <2>3, Zenon
<1>3. requests' = Append(requests, q)
  BY DEF Invoke
<1> HIDE DEF q
<1>4. /\ requests' \in Seq(Request) /\ Len(requests') = new
      /\ DOMAIN requests' = DOMAIN requests \cup {new} /\ new \notin DOMAIN requests
      /\ \A r \in DOMAIN requests : requests'[r] = requests[r]
      /\ requests'[new] = q
  BY <1>1, <1>2, <1>3, AppendFacts
<1>5. \A p \in DOMAIN requests :
         (Pending(p) <=> requests[p].state = "pending")
         /\ (Pending(p) => requests[p].timer # Off) /\ (~Pending(p) => requests[p].timer = Off)
  BY DEF WInv, SettledOrWatched, Cleared, Pending, Timer
<1>6. Msg("request", new) \in Message
  BY <1>1, MeshRpcAssumption DEF Msg, Message
<1> QED BY <1>1, <1>2, <1>4, <1>5, <1>6 DEF SameRequest

\* Every step but invoke() keeps the requests.
LEMMA StepKeeps ==
    ASSUME WInv, [Next]_vars
    PROVE  RequestsKept \/ \E a, b \in Node : Invoke(a, b)
<1>1. CASE UNCHANGED vars
  BY <1>1, UntouchedKeeps DEF vars
<1>2. CASE Tick
  BY <1>2, TickKeeps
<1>3. CASE Stall
  BY <1>3, UntouchedKeeps DEF Stall
<1>4. ASSUME NEW n \in Node, NodeEvent(n)
      PROVE  RequestsKept
  <2>1. CASE Broadcast(n) \/ Joins(n) \/ Leaves(n)
    BY <2>1, UntouchedKeeps DEF Broadcast, Joins, Leaves
  <2>2. CASE Left(n)
    BY <2>2, AbandonKeeps DEF Left, Outcome
  <2>3. CASE Crash(n)
    BY <2>3, AbandonKeeps DEF Crash, Outcome
  <2> QED BY <1>4, <2>1, <2>2, <2>3 DEF NodeEvent
<1>5. ASSUME NEW a \in Node, NEW b \in Node, Delivery(a, b)
      PROVE  RequestsKept
  <2>1. CASE Ignored(a, b) \/ RequestRefused(a, b) \/ RequestArrives(a, b) \/ BroadcastArrives(a, b)
    BY <2>1, UntouchedKeeps DEF Ignored, RequestRefused, RequestArrives, BroadcastArrives
  <2>2. CASE HeartbeatArrives(a, b)
    BY <2>2, UntouchedKeeps, ExtendKeeps DEF HeartbeatArrives, Pending
  <2>3. CASE AnswerArrives(a, b)
    <3>1. Head(wire[a][b]).kind \in Outcome BY <2>3 DEF AnswerArrives, Arrives, Outcome
    <3> QED BY <2>3, <3>1, UntouchedKeeps, SettleKeeps DEF AnswerArrives, Pending
  <2> QED BY <1>5, <2>1, <2>2, <2>3 DEF Delivery
<1>6. ASSUME NEW a \in Node, NEW b \in Node, DiesWithSender(a, b) \/ Lose(a, b) \/ Resend(a, b)
      PROVE  RequestsKept
  BY <1>6, UntouchedKeeps DEF DiesWithSender, Lose, Resend
<1>7. ASSUME NEW a \in Node, NEW b \in Node, PublishFails(a, b)
      PROVE  RequestsKept
  <2> DEFINE last == wire[a][b][Len(wire[a][b])]
  <2>1. IF last.kind = "request" /\ Pending(last.r) THEN Settle(last.r, "unpublished")
                                                    ELSE UNCHANGED requests
    BY <1>7 DEF PublishFails
  <2>2. Pending(last.r) => last.r \in DOMAIN requests
    BY DEF Pending
  <2> HIDE DEF last
  <2> QED BY <2>1, <2>2, UntouchedKeeps, SettleKeeps DEF Outcome
<1>8. ASSUME NEW r \in 1..MaxSent, TimesOut(r)
      PROVE  RequestsKept
  BY <1>8, SettleKeeps DEF TimesOut, Outcome, Pending
<1>9. ASSUME NEW w \in works, BeatFires(w) \/ HandlerEnds(w)
      PROVE  RequestsKept
  BY <1>9, UntouchedKeeps DEF BeatFires, HandlerEnds
<1> QED BY <1>1, <1>2, <1>3, <1>4, <1>5, <1>6, <1>7, <1>8, <1>9 DEF Next

\* No request is lost, and none changes its ends.
EndsKept == \A r, a, b : Addressed(r, a, b) => Addressed(r, a, b)'

LEMMA NoRequestIsLost ==
    ASSUME WInv, [Next]_vars
    PROVE  EndsKept
  BY StepKeeps, InvokeEffect DEF RequestsKept, SameRequest, EndsKept, Addressed, From, To

-----------------------------------------------------------------------------
(* What a step does to channels and executions. *)

\* A channel that gets messages only about known requests.
LEMMA PublishKnown ==
    ASSUME WireType, KnownOnWire, EndsKept,
           NEW a \in Node, NEW b \in Node, NEW m \in Message, Publish(a, b, m),
           m.kind = "request" => Addressed(m.r, a, b)'
    PROVE  WireType' /\ KnownOnWire'
<1>1. /\ WireType'
      /\ Len(wire[a][b]) \in Nat
      /\ DOMAIN wire[a][b] = 1..Len(wire[a][b])
      /\ DOMAIN wire'[a][b] = 1..(Len(wire[a][b]) + 1)
      /\ \A i \in DOMAIN wire[a][b] : wire'[a][b][i] = wire[a][b][i]
      /\ wire'[a][b][Len(wire[a][b]) + 1] = m
      /\ \A x, y \in Node : x # a \/ y # b => wire'[x][y] = wire[x][y]
  BY PublishEffect
<1>3. ASSUME NEW x \in Node, NEW y \in Node, NEW i \in DOMAIN wire'[x][y],
             wire'[x][y][i].kind = "request"
      PROVE  Addressed(wire[x][y][i].r, x, y)'
  <2>1. CASE x = a /\ y = b
    <3>1. i \in DOMAIN wire[a][b] \/ i = Len(wire[a][b]) + 1
      BY <1>1, <1>3, <2>1
    <3> QED BY <1>1, <1>3, <2>1, <3>1 DEF KnownOnWire, EndsKept
  <2>2. CASE x # a \/ y # b
    BY <1>1, <1>3, <2>2 DEF KnownOnWire, EndsKept
  <2> QED BY <2>1, <2>2
<1> QED BY <1>1, <1>3 DEF KnownOnWire, EndsKept

\* A channel that loses its head.
LEMMA ConsumeKnown ==
    ASSUME WireType, KnownOnWire, EndsKept,
           NEW a \in Node, NEW b \in Node, wire[a][b] # <<>>, Consume(a, b)
    PROVE  WireType' /\ KnownOnWire'
<1>1. /\ WireType'
      /\ Len(wire[a][b]) \in Nat \ {0}
      /\ DOMAIN wire[a][b] = 1..Len(wire[a][b])
      /\ DOMAIN wire'[a][b] = 1..(Len(wire[a][b]) - 1)
      /\ \A i \in 1..(Len(wire[a][b]) - 1) : wire'[a][b][i] = wire[a][b][i + 1]
      /\ \A x, y \in Node : x # a \/ y # b => wire'[x][y] = wire[x][y]
  BY ConsumeEffect
<1>3. ASSUME NEW x \in Node, NEW y \in Node, NEW i \in DOMAIN wire'[x][y],
             wire'[x][y][i].kind = "request"
      PROVE  Addressed(wire[x][y][i].r, x, y)'
  <2>1. CASE x = a /\ y = b
    <3>1. i \in 1..(Len(wire[a][b]) - 1)
      BY <1>1, <2>1
    <3>2. i + 1 \in DOMAIN wire[a][b]
      BY <1>1, <3>1
    <3>3. wire'[a][b][i] = wire[a][b][i + 1]
      BY <1>1, <3>1
    <3> QED BY <1>3, <2>1, <3>2, <3>3 DEF KnownOnWire, EndsKept
  <2>2. CASE x # a \/ y # b
    BY <1>1, <1>3, <2>2 DEF KnownOnWire, EndsKept
  <2> QED BY <2>1, <2>2
<1> QED BY <1>1, <1>3 DEF KnownOnWire, EndsKept

\* A channel that loses its last message.
LEMMA DropLastKnown ==
    ASSUME WireType, KnownOnWire, EndsKept,
           NEW a \in Node, NEW b \in Node, wire[a][b] # <<>>,
           wire' = [wire EXCEPT ![a][b] = SubSeq(@, 1, Len(@) - 1)]
    PROVE  WireType' /\ KnownOnWire'
<1>1. /\ WireType'
      /\ Len(wire[a][b]) \in Nat \ {0}
      /\ DOMAIN wire'[a][b] = 1..(Len(wire[a][b]) - 1)
      /\ \A i \in DOMAIN wire'[a][b] : wire'[a][b][i] = wire[a][b][i]
      /\ \A x, y \in Node : x # a \/ y # b => wire'[x][y] = wire[x][y]
  BY DropLastEffect
<1>2. DOMAIN wire[a][b] = 1..Len(wire[a][b])
  BY DEF WireType
<1>3. DOMAIN wire'[a][b] \subseteq DOMAIN wire[a][b]
  BY <1>1, <1>2
<1>4. ASSUME NEW x \in Node, NEW y \in Node, NEW i \in DOMAIN wire'[x][y],
             wire'[x][y][i].kind = "request"
      PROVE  Addressed(wire[x][y][i].r, x, y)'
  <2>1. CASE x = a /\ y = b
    BY <1>1, <1>3, <1>4, <2>1 DEF KnownOnWire, EndsKept
  <2>2. CASE x # a \/ y # b
    BY <1>1, <1>4, <2>2 DEF KnownOnWire, EndsKept
  <2> QED BY <2>1, <2>2
<1> QED BY <1>1, <1>4 DEF KnownOnWire, EndsKept

\* What arrives is a message of its channel.
LEMMA ArrivalFacts ==
    ASSUME TypeOK, NEW a \in Node, NEW b \in Node, NEW kinds, Arrives(a, b, kinds)
    PROVE  /\ wire[a][b] \in Seq(Message) /\ wire[a][b] # <<>>
           /\ 1 \in DOMAIN wire[a][b] /\ Head(wire[a][b]) = wire[a][b][1]
           /\ wire[a][b][1] \in Message /\ wire[a][b][1].kind \in kinds
           /\ Subject(a, b) = wire[a][b][1].r /\ Subject(a, b) \in 0..MaxSent
<1>1. wire[a][b] \in Seq(Message) BY DEF TypeOK
<1>2. wire[a][b][1] \in Message /\ Head(wire[a][b]) = wire[a][b][1] /\ 1 \in DOMAIN wire[a][b]
  BY <1>1, TailFacts DEF Arrives
<1> QED BY <1>1, <1>2 DEF Arrives, Subject, Message

\* The ends of an execution are nodes, and what is said about it is a message.
LEMMA WorkFacts ==
    ASSUME WInv, NEW w \in works
    PROVE  /\ w \in Work /\ w.r \in DOMAIN requests /\ w.r \in 1..MaxSent
           /\ At(w) \in Node /\ Caller(w) \in Node
           /\ \A kind \in {"heartbeat", "resolved", "handlerError"} :
                 /\ Msg(kind, w.r) \in Message /\ Msg(kind, w.r).age = 0
                 /\ Msg(kind, w.r).kind = kind /\ Msg(kind, w.r).r = w.r
<1>1. w \in Work /\ w.r \in DOMAIN requests BY DEF WInv, TypeOK, Known, KnownAtWork
<1>2. requests[w.r] \in Request BY <1>1 DEF WInv, TypeOK
<1>3. w.r \in 1..MaxSent BY <1>1 DEF Work
<1> QED BY <1>1, <1>2, <1>3, MeshRpcAssumption DEF At, Caller, Request, Msg, Message

\* Every step leaves the channels well-typed and without requests nobody made.
LEMMA WireStep ==
    ASSUME WInv, [Next]_vars
    PROVE  WireType' /\ KnownOnWire'
<1> USE DEF WInv, Known
<1>1. WireType /\ KnownOnWire /\ EndsKept
  BY NoRequestIsLost DEF TypeOK, WireType
<1>2. CASE UNCHANGED wire
  BY <1>1, <1>2 DEF WireType, KnownOnWire, EndsKept
<1>3. CASE Tick
  BY <1>1, <1>3, TickEffect DEF KnownOnWire, EndsKept
<1>4. CASE Stall
  BY <1>1, <1>4, StallEffect DEF KnownOnWire, EndsKept
<1>5. ASSUME NEW n \in Node, NodeEvent(n)
      PROVE  WireType' /\ KnownOnWire'
  <2>1. CASE Broadcast(n)
    <3>1. Msg("broadcast", 0) \in Message /\ Msg("broadcast", 0).kind = "broadcast"
      BY MeshRpcAssumption DEF Msg, Message
    <3>2. wire' = [wire EXCEPT ![n] = [b \in Node |-> Append(@[b], Msg("broadcast", 0))]]
      BY <2>1 DEF Broadcast
    <3>3. /\ WireType'
          /\ \A b \in Node :
                /\ Len(wire[n][b]) \in Nat
                /\ DOMAIN wire[n][b] = 1..Len(wire[n][b])
                /\ DOMAIN wire'[n][b] = 1..(Len(wire[n][b]) + 1)
                /\ \A i \in DOMAIN wire[n][b] : wire'[n][b][i] = wire[n][b][i]
                /\ wire'[n][b][Len(wire[n][b]) + 1] = Msg("broadcast", 0)
          /\ \A x, y \in Node : x # n => wire'[x][y] = wire[x][y]
      BY <1>1, <3>1, <3>2, AirEffect
    <3>4. ASSUME NEW x \in Node, NEW y \in Node, NEW i \in DOMAIN wire'[x][y],
                 wire'[x][y][i].kind = "request"
          PROVE  Addressed(wire[x][y][i].r, x, y)'
      <4>1. CASE x = n
        <5>1. i \in DOMAIN wire[n][y] \/ i = Len(wire[n][y]) + 1
          BY <3>3, <4>1
        <5>2. i # Len(wire[n][y]) + 1
          BY <3>1, <3>3, <3>4, <4>1
        <5> QED BY <1>1, <3>3, <3>4, <4>1, <5>1, <5>2 DEF KnownOnWire, EndsKept
      <4>2. CASE x # n
        BY <1>1, <3>3, <3>4, <4>2 DEF KnownOnWire, EndsKept
      <4> QED BY <4>1, <4>2
    <3> QED BY <3>3, <3>4 DEF KnownOnWire, EndsKept
  <2>2. CASE Joins(n) \/ Leaves(n) \/ Left(n) \/ Crash(n)
    BY <1>2, <2>2 DEF Joins, Leaves, Left, Crash
  <2> QED BY <1>5, <2>1, <2>2 DEF NodeEvent
<1>6. ASSUME NEW a \in Node, NEW b \in Node, Invoke(a, b)
      PROVE  WireType' /\ KnownOnWire'
  <2>1. PICK new : new = Len(requests) + 1
    OBVIOUS
  <2>2. Addressed(new, a, b)' /\ Msg("request", new) \in Message
    BY <1>6, <2>1, InvokeEffect DEF Addressed, From, To
  <2>3. Publish(a, b, Msg("request", new)) /\ Msg("request", new).r = new
    BY <1>6, <2>1 DEF Invoke, Msg
  <2> QED BY <1>1, <2>2, <2>3, PublishKnown
<1>7. ASSUME NEW a \in Node, NEW b \in Node, Delivery(a, b)
      PROVE  WireType' /\ KnownOnWire'
  <2>1. CASE \/ Ignored(a, b) \/ RequestArrives(a, b) \/ HeartbeatArrives(a, b)
             \/ AnswerArrives(a, b) \/ BroadcastArrives(a, b)
    <3>1. wire[a][b] # <<>> /\ Consume(a, b)
      BY <2>1 DEF Ignored, RequestArrives, HeartbeatArrives, AnswerArrives, BroadcastArrives, Arrives
    <3> QED BY <1>1, <3>1, ConsumeKnown
  <2>2. CASE RequestRefused(a, b)
    <3> DEFINE m == Msg("noHandler", Subject(a, b))
    <3>1. /\ wire[a][b] # <<>> /\ m \in Message /\ m.kind = "noHandler"
      BY <2>2, ArrivalFacts, MeshRpcAssumption DEF RequestRefused, Msg, Message
    <3>2. Refuse(a, b, m)
      BY <2>2 DEF RequestRefused, Refuse
    <3> HIDE DEF m
    <3>3. a # b
      <4>1. Addressed(Subject(a, b), a, b)
        BY <1>1, <2>2, ArrivalFacts DEF RequestRefused, KnownOnWire
      <4> QED BY <4>1 DEF Started, Addressed
    <3>4. /\ WireType'
          /\ Len(wire[a][b]) \in Nat \ {0}
          /\ DOMAIN wire[a][b] = 1..Len(wire[a][b])
          /\ DOMAIN wire'[a][b] = 1..(Len(wire[a][b]) - 1)
          /\ \A i \in 1..(Len(wire[a][b]) - 1) : wire'[a][b][i] = wire[a][b][i + 1]
          /\ Len(wire[b][a]) \in Nat
          /\ DOMAIN wire[b][a] = 1..Len(wire[b][a])
          /\ DOMAIN wire'[b][a] = 1..(Len(wire[b][a]) + 1)
          /\ \A i \in DOMAIN wire[b][a] : wire'[b][a][i] = wire[b][a][i]
          /\ wire'[b][a][Len(wire[b][a]) + 1] = m
          /\ \A x, y \in Node : (x # a \/ y # b) /\ (x # b \/ y # a) => wire'[x][y] = wire[x][y]
      BY <1>1, <3>1, <3>2, <3>3, RefuseEffect
    <3>5. ASSUME NEW x \in Node, NEW y \in Node, NEW i \in DOMAIN wire'[x][y],
                 wire'[x][y][i].kind = "request"
          PROVE  Addressed(wire[x][y][i].r, x, y)'
      <4>1. CASE x = a /\ y = b
        <5>1. i \in 1..(Len(wire[a][b]) - 1) BY <3>4, <4>1
        <5>2. i + 1 \in DOMAIN wire[a][b] BY <3>4, <5>1
        <5>3. wire'[a][b][i] = wire[a][b][i + 1] BY <3>4, <5>1
        <5> QED BY <1>1, <3>5, <4>1, <5>2, <5>3 DEF KnownOnWire, EndsKept
      <4>2. CASE x = b /\ y = a
        <5>1. i \in DOMAIN wire[b][a] \/ i = Len(wire[b][a]) + 1
          BY <3>4, <4>2
        <5>2. i # Len(wire[b][a]) + 1
          BY <3>1, <3>4, <3>5, <4>2
        <5> QED BY <1>1, <3>4, <3>5, <4>2, <5>1, <5>2 DEF KnownOnWire, EndsKept
      <4>3. CASE (x # a \/ y # b) /\ (x # b \/ y # a)
        BY <1>1, <3>4, <3>5, <4>3 DEF KnownOnWire, EndsKept
      <4> QED BY <4>1, <4>2, <4>3
    <3> QED BY <3>4, <3>5 DEF KnownOnWire, EndsKept
  <2> QED BY <1>7, <2>1, <2>2 DEF Delivery
<1>8. ASSUME NEW a \in Node, NEW b \in Node,
             DiesWithSender(a, b) \/ Lose(a, b) \/ Resend(a, b) \/ PublishFails(a, b)
      PROVE  WireType' /\ KnownOnWire'
  <2>1. CASE DiesWithSender(a, b)
    BY <1>1, <2>1, DropLastKnown DEF DiesWithSender
  <2>2. CASE Lose(a, b)
    BY <1>1, <2>2, ConsumeKnown DEF Lose
  <2>3. CASE Resend(a, b)
    <3>1. PICK s, last : s = wire[a][b] /\ last = s[Len(s)]
      OBVIOUS
    <3>2. s \in Seq(Message) /\ s # <<>> /\ Len(s) \in DOMAIN s /\ last \in Message
      BY <1>1, <2>3, <3>1 DEF WireType, Resend
    <3>3. PICK m : m = [last EXCEPT !.age = 0]
      OBVIOUS
    <3>4. m \in Message /\ m.kind = last.kind /\ m.r = last.r
      BY <3>2, <3>3, MeshRpcAssumption DEF Message
    <3>5. Publish(a, b, m)
      BY <2>3, <3>1, <3>3 DEF Resend
    <3>6. m.kind = "request" => Addressed(m.r, a, b)
      BY <1>1, <3>1, <3>2, <3>4 DEF KnownOnWire
    <3>7. m.kind = "request" => Addressed(m.r, a, b)'
      BY <1>1, <3>6 DEF EndsKept
    <3> QED BY <1>1, <3>4, <3>5, <3>7, PublishKnown
  <2>4. CASE PublishFails(a, b)
    BY <1>1, <1>2, <2>4, DropLastKnown DEF PublishFails
  <2> QED BY <1>8, <2>1, <2>2, <2>3, <2>4
<1>9. ASSUME NEW w \in works, BeatFires(w) \/ HandlerEnds(w)
      PROVE  WireType' /\ KnownOnWire'
  <2>1. PICK kind \in {"heartbeat", "resolved", "handlerError"} :
           Publish(At(w), Caller(w), Msg(kind, w.r))
    BY <1>9 DEF BeatFires, HandlerEnds
  <2>2. /\ At(w) \in Node /\ Caller(w) \in Node /\ Msg(kind, w.r) \in Message
        /\ Msg(kind, w.r).kind # "request"
    BY WorkFacts
  <2> QED BY <1>1, <2>1, <2>2, PublishKnown
<1>10. ASSUME NEW r \in 1..MaxSent, TimesOut(r)
       PROVE  WireType' /\ KnownOnWire'
  BY <1>2, <1>10 DEF TimesOut
<1>11. CASE UNCHANGED vars
  BY <1>2, <1>11 DEF vars
<1> QED BY <1>3, <1>4, <1>5, <1>6, <1>7, <1>8, <1>9, <1>10, <1>11 DEF Next

\* Executions stay those of known requests, at most one of each copy.
LEMMA WorksStep ==
    ASSUME WInv, [Next]_vars
    PROVE  works' \subseteq Work /\ KnownAtWork'
<1> USE DEF WInv, Known
<1>1. /\ works \subseteq Work /\ KnownAtWork
      /\ \A r \in DOMAIN requests : r \in DOMAIN requests'
  BY StepKeeps, InvokeEffect DEF TypeOK, RequestsKept
<1>2. CASE works' \subseteq works
  BY <1>1, <1>2 DEF KnownAtWork
<1>3. CASE Tick
  BY <1>1, <1>3, TickEffect DEF KnownAtWork
<1>4. CASE Stall
  BY <1>2, <1>4 DEF Stall
<1>5. ASSUME NEW n \in Node, NodeEvent(n)
      PROVE  works' \subseteq Work /\ KnownAtWork'
  <2>1. CASE Broadcast(n) \/ Joins(n) \/ Leaves(n) \/ Crash(n)
    BY <1>2, <2>1 DEF Broadcast, Joins, Leaves, Crash
  <2>2. CASE Left(n)
    <3>1. ASSUME NEW w \in works
          PROVE  [w EXCEPT !.beat = Off] \in Work /\ [w EXCEPT !.beat = Off].r = w.r
      BY <1>1 DEF Work
    <3>2. \A v \in Silenced(n) : v \in Work /\ \E w \in works : v.r = w.r
      BY <1>1, <3>1 DEF Silenced
    <3> QED BY <1>1, <2>2, <3>2 DEF Left, KnownAtWork
  <2> QED BY <1>5, <2>1, <2>2 DEF NodeEvent
<1>6. ASSUME NEW a \in Node, NEW b \in Node, Invoke(a, b)
      PROVE  works' \subseteq Work /\ KnownAtWork'
  BY <1>2, <1>6 DEF Invoke
<1>7. ASSUME NEW a \in Node, NEW b \in Node, Delivery(a, b)
      PROVE  works' \subseteq Work /\ KnownAtWork'
  <2>1. CASE \/ Ignored(a, b) \/ RequestRefused(a, b) \/ HeartbeatArrives(a, b)
             \/ AnswerArrives(a, b) \/ BroadcastArrives(a, b)
    BY <1>2, <2>1 DEF Ignored, RequestRefused, HeartbeatArrives, AnswerArrives, BroadcastArrives
  <2>2. CASE RequestArrives(a, b)
    <3>1. PICK r, k : /\ r = Subject(a, b)
                      /\ k = CHOOSE copy \in Unused(Subject(a, b)) : TRUE
                      /\ works' = works \cup {[r |-> r, copy |-> k, beat |-> Beat]}
      BY <2>2 DEF RequestArrives
    <3>2. k \in 0..MaxFaults
      BY <2>2, <3>1 DEF RequestArrives, Unused
    <3>3. Addressed(r, a, b)
      BY <2>2, <3>1, ArrivalFacts DEF RequestArrives, KnownOnWire
    <3>4. r \in DOMAIN requests /\ r \in 1..MaxSent
      <4>1. Len(requests) \in Nat /\ Len(requests) <= MaxSent /\ DOMAIN requests = 1..Len(requests)
        BY DEF TypeOK
      <4> QED BY <3>3, <4>1, MeshRpcAssumption DEF Addressed
    <3>5. PICK v : v = [r |-> r, copy |-> k, beat |-> Beat]
      OBVIOUS
    <3>6. v \in Work /\ v.r = r
      BY <3>2, <3>4, <3>5, MeshRpcAssumption DEF Work
    <3>7. works' = works \cup {v}
      BY <3>1, <3>5
    <3> QED BY <1>1, <3>4, <3>6, <3>7 DEF KnownAtWork
  <2> QED BY <1>7, <2>1, <2>2 DEF Delivery
<1>8. ASSUME NEW a \in Node, NEW b \in Node,
             DiesWithSender(a, b) \/ Lose(a, b) \/ Resend(a, b) \/ PublishFails(a, b)
      PROVE  works' \subseteq Work /\ KnownAtWork'
  BY <1>2, <1>8 DEF DiesWithSender, Lose, Resend, PublishFails
<1>9. ASSUME NEW w \in works, BeatFires(w)
      PROVE  works' \subseteq Work /\ KnownAtWork'
  <2>1. PICK v : v = [w EXCEPT !.beat = Beat]
    OBVIOUS
  <2>2. v \in Work /\ v.r = w.r
    BY <1>1, <2>1, MeshRpcAssumption DEF Work
  <2> QED BY <1>1, <1>9, <2>1, <2>2 DEF BeatFires, KnownAtWork
<1>10. ASSUME NEW w \in works, HandlerEnds(w)
       PROVE  works' \subseteq Work /\ KnownAtWork'
  BY <1>2, <1>10 DEF HandlerEnds
<1>11. ASSUME NEW r \in 1..MaxSent, TimesOut(r)
       PROVE  works' \subseteq Work /\ KnownAtWork'
  BY <1>2, <1>11 DEF TimesOut
<1>12. CASE UNCHANGED vars
  BY <1>2, <1>12 DEF vars
<1> QED BY <1>3, <1>4, <1>5, <1>6, <1>7, <1>8, <1>9, <1>10, <1>11, <1>12 DEF Next

-----------------------------------------------------------------------------
(* What a step does to a node's life. *)

\* A node joins, leaves and dies, and never comes back.
LifeKept(n) ==
    /\ life'[n] \in Life
    /\ life'[n] = "joining" => life[n] = "joining"
    /\ life'[n] = "on" => life[n] \in {"joining", "on"}
    /\ life[n] = "on" => life'[n] # "joining"

OthersTyped ==
    /\ aired' \in Node \cup {NoNode} /\ heard' \in [Node -> Nat]
    /\ timely' \in BOOLEAN /\ faults' \in Nat
    /\ (timely' => timely) /\ (faults' = 0 => faults = 0 /\ timely' = timely)

LEMMA LifeStep ==
    ASSUME TypeOK, [Next]_vars
    PROVE  life' \in [Node -> Life] /\ (\A n \in Node : LifeKept(n)) /\ OthersTyped
<1> DEFINE Goal == life' \in [Node -> Life] /\ (\A n \in Node : LifeKept(n)) /\ OthersTyped
<1> SUFFICES Goal OBVIOUS
<1>1. /\ life \in [Node -> Life] /\ aired \in Node \cup {NoNode} /\ heard \in [Node -> Nat]
      /\ timely \in BOOLEAN /\ faults \in Nat
  BY DEF TypeOK
<1>2. UNCHANGED life => life' \in [Node -> Life] /\ \A n \in Node : LifeKept(n)
  BY <1>1 DEF LifeKept, Life
<1>3. UNCHANGED timely => timely' \in BOOLEAN /\ (timely' => timely)
  <2> SUFFICES ASSUME timely' = timely PROVE timely' \in BOOLEAN /\ (timely' => timely)
    OBVIOUS
  <2>1. timely' \in BOOLEAN
    BY <1>1
  <2>2. timely' => timely
    OBVIOUS
  <2> QED BY <2>1, <2>2
<1>4. UNCHANGED faults \/ Fault => faults' \in Nat /\ (faults' = 0 => faults = 0)
  BY <1>1 DEF Fault
<1>5. ASSUME UNCHANGED <<life, aired, heard, timely>>, UNCHANGED faults \/ Fault
      PROVE  Goal
  BY <1>1, <1>2, <1>3, <1>4, <1>5 DEF OthersTyped
<1>6. CASE Tick \/ UNCHANGED vars
  BY <1>5, <1>6 DEF Tick, vars
<1>7. CASE Stall
  <2>1. UNCHANGED <<life, aired, heard>> /\ Fault /\ timely' = FALSE
    BY <1>7 DEF Stall
  <2>2. faults' # 0 /\ faults' \in Nat
    BY <1>1, <2>1 DEF Fault
  <2> QED BY <1>1, <1>2, <2>1, <2>2 DEF OthersTyped
<1>8. ASSUME NEW n \in Node, NodeEvent(n)
      PROVE  Goal
  <2>1. CASE Broadcast(n)
    BY <1>1, <1>2, <1>3, <1>4, <2>1 DEF Broadcast, OthersTyped
  <2>2. ASSUME NEW l \in {"on", "leaving", "left", "dead"}, life' = [life EXCEPT ![n] = l],
               l = "on" => life[n] = "joining",
               UNCHANGED <<aired, heard, timely>>, UNCHANGED faults \/ Fault
        PROVE  Goal
    <3>1. life' \in [Node -> Life] /\ \A m \in Node : LifeKept(m)
      BY <1>1, <2>2 DEF LifeKept, Life
    <3> QED BY <1>1, <1>3, <1>4, <2>2, <3>1 DEF OthersTyped
  <2>3. CASE Joins(n)
    BY <2>2, <2>3 DEF Joins
  <2>4. CASE Leaves(n)
    BY <2>2, <2>4 DEF Leaves
  <2>5. CASE Left(n)
    BY <2>2, <2>5 DEF Left
  <2>6. CASE Crash(n)
    BY <2>2, <2>6 DEF Crash
  <2> QED BY <1>8, <2>1, <2>3, <2>4, <2>5, <2>6 DEF NodeEvent
<1>9. ASSUME NEW a \in Node, NEW b \in Node, Invoke(a, b) \/ Delivery(a, b)
      PROVE  Goal
  <2>1. CASE BroadcastArrives(a, b)
    <3>1. heard' \in [Node -> Nat]
      BY <1>1, <2>1 DEF BroadcastArrives
    <3> QED BY <1>1, <1>2, <1>3, <1>4, <2>1, <3>1 DEF BroadcastArrives, OthersTyped
  <2>2. CASE ~BroadcastArrives(a, b)
    <3>1. UNCHANGED <<life, aired, heard, timely, faults>>
      BY <1>9, <2>2 DEF Invoke, Delivery, Ignored, RequestRefused, RequestArrives,
                        HeartbeatArrives, AnswerArrives
    <3> QED BY <1>5, <3>1
  <2> QED BY <2>1, <2>2
<1>10. ASSUME NEW a \in Node, NEW b \in Node,
              DiesWithSender(a, b) \/ Lose(a, b) \/ Resend(a, b) \/ PublishFails(a, b)
       PROVE  Goal
  BY <1>5, <1>10 DEF DiesWithSender, Lose, Resend, PublishFails
<1>11. ASSUME NEW r \in 1..MaxSent, TimesOut(r)
       PROVE  Goal
  BY <1>5, <1>11 DEF TimesOut
<1>12. ASSUME NEW w \in works, BeatFires(w) \/ HandlerEnds(w)
       PROVE  Goal
  BY <1>5, <1>12 DEF BeatFires, HandlerEnds
<1> HIDE DEF Goal
<1> QED BY <1>6, <1>7, <1>8, <1>9, <1>10, <1>11, <1>12 DEF Next

-----------------------------------------------------------------------------
(* Types, and what stop() owes the requests. *)

LEMMA LivesChange ==
    ASSUME [Next]_vars
    PROVE  UNCHANGED life \/ \E n \in Node : NodeEvent(n)
<1>1. CASE Tick \/ Stall \/ UNCHANGED vars
  BY <1>1 DEF Tick, Stall, vars
<1>2. ASSUME NEW a \in Node, NEW b \in Node, Invoke(a, b) \/ Delivery(a, b)
      PROVE  UNCHANGED life
  BY <1>2 DEF Invoke, Delivery, Ignored, RequestRefused, RequestArrives, HeartbeatArrives,
     AnswerArrives, BroadcastArrives
<1>3. ASSUME NEW a \in Node, NEW b \in Node,
             DiesWithSender(a, b) \/ Lose(a, b) \/ Resend(a, b) \/ PublishFails(a, b)
      PROVE  UNCHANGED life
  BY <1>3 DEF DiesWithSender, Lose, Resend, PublishFails
<1>4. ASSUME NEW r \in 1..MaxSent, TimesOut(r)
      PROVE  UNCHANGED life
  BY <1>4 DEF TimesOut
<1>5. ASSUME NEW w \in works, BeatFires(w) \/ HandlerEnds(w)
      PROVE  UNCHANGED life
  BY <1>5 DEF BeatFires, HandlerEnds
<1> QED BY <1>1, <1>2, <1>3, <1>4, <1>5 DEF Next

LEMMA WInit == Init => WInv
<1> SUFFICES ASSUME Init PROVE WInv OBVIOUS
<1>1. /\ requests = <<>> /\ works = {} /\ timely = TRUE /\ faults = 0 /\ aired = NoNode
      /\ wire = [a \in Node |-> [b \in Node |-> <<>>]] /\ heard = [n \in Node |-> 0]
  BY DEF Init
<1>2. <<>> \in Seq(Request) /\ <<>> \in Seq(Message) /\ Len(<<>>) = 0 /\ DOMAIN <<>> = {}
  OBVIOUS
<1>3. wire \in [Node -> [Node -> Seq(Message)]]
  BY <1>1, <1>2
<1>4. life \in [Node -> Life]
  BY DEF Init, Life
<1>5. TypeOK
  BY <1>1, <1>2, <1>3, <1>4, MeshRpcAssumption DEF TypeOK
<1>6. Started /\ Cleared /\ SettledOrWatched
  BY <1>1, <1>2 DEF Started, Cleared, SettledOrWatched
<1>7. Known
  BY <1>1, <1>2 DEF Known, KnownOnWire, KnownAtWork
<1> QED BY <1>5, <1>6, <1>7 DEF WInv

LEMMA TypeStep == WInv /\ [Next]_vars => TypeOK'
<1> SUFFICES ASSUME WInv, [Next]_vars PROVE TypeOK' OBVIOUS
<1>1. TypeOK BY DEF WInv
<1>2. requests' \in Seq(Request) /\ Len(requests') <= MaxSent
  <2>1. CASE RequestsKept
    BY <1>1, <2>1 DEF RequestsKept, TypeOK
  <2>2. ASSUME NEW a \in Node, NEW b \in Node, Invoke(a, b)
        PROVE  requests' \in Seq(Request) /\ Len(requests') <= MaxSent
    BY <2>2, InvokeEffect
  <2> QED BY <2>1, <2>2, StepKeeps
<1>3. wire' \in [Node -> [Node -> Seq(Message)]] /\ works' \subseteq Work
  BY WireStep, WorksStep DEF WireType
<1>4. /\ life' \in [Node -> Life] /\ aired' \in Node \cup {NoNode} /\ heard' \in [Node -> Nat]
      /\ timely' \in BOOLEAN /\ faults' \in Nat
  BY <1>1, LifeStep DEF OthersTyped
<1> QED BY <1>2, <1>3, <1>4 DEF TypeOK

\* Who asks runs, and whoever runs stays until it has rejected what it waits for.
LEMMA WatchStep == WInv /\ [Next]_vars => (Started /\ Cleared /\ SettledOrWatched)'
<1> SUFFICES ASSUME WInv, [Next]_vars PROVE (Started /\ Cleared /\ SettledOrWatched)' OBVIOUS
<1>1. TypeOK /\ Started /\ Cleared /\ SettledOrWatched BY DEF WInv
<1>2. \A n \in Node : LifeKept(n) /\ life[n] \in Life
  BY <1>1, LifeStep DEF TypeOK
<1>3. \A r \in DOMAIN requests : requests[r].from \in Node /\ requests[r].to \in Node
  <2>1. \A r \in DOMAIN requests : requests[r] \in Request BY <1>1 DEF TypeOK
  <2> QED BY <2>1 DEF Request
<1>4. ASSUME RequestsKept
      PROVE  Started' /\ Cleared'
  <2>1. Started'
    BY <1>1, <1>2, <1>3, <1>4 DEF RequestsKept, SameRequest, Started, From, To, LifeKept, Life
  <2>2. Cleared'
    BY <1>4 DEF RequestsKept, SameRequest, Cleared, Pending, Timer
  <2> QED BY <2>1, <2>2
<1>5. ASSUME RequestsKept
      PROVE  SettledOrWatched'
  <2> SUFFICES ASSUME NEW r \in DOMAIN requests, requests'[r].state = "pending"
               PROVE  requests'[r].timer # Off /\ life'[requests'[r].from] \in {"on", "leaving"}
    BY <1>5 DEF RequestsKept, SettledOrWatched, Pending
  <2> DEFINE n == requests[r].from
  <2>1. SameRequest(r)
    BY <1>5 DEF RequestsKept
  <2>2. Pending(r)
    BY <2>1 DEF SameRequest, Pending
  <2>3. life[n] \in {"on", "leaving"} /\ n \in Node
    BY <1>1, <1>3, <2>2 DEF SettledOrWatched
  <2>4. life'[n] \in {"on", "leaving"}
    <3>1. CASE life'[n] = life[n]
      BY <2>3, <3>1
    <3>2. CASE life'[n] # life[n]
      <4>1. \E m \in Node : NodeEvent(m)
        BY <3>2, LivesChange
      <4>2. PICK m \in Node : NodeEvent(m)
        BY <4>1
      <4>3. CASE Broadcast(m)
        BY <3>2, <4>3 DEF Broadcast
      <4>4. CASE Joins(m) \/ Leaves(m)
        BY <1>1, <2>3, <4>4 DEF Joins, Leaves, TypeOK
      <4>5. ASSUME NEW outcome \in Outcome, requests' = Abandoned(m, outcome), m = n
            PROVE  FALSE
        <5>1. requests'[r].state = outcome
          BY <1>1, <2>2, <4>5, AbandonedEffect DEF TypeOK
        <5> QED BY <5>1 DEF Outcome
      <4>6. CASE Left(m)
        <5>1. m # n
          BY <4>5, <4>6 DEF Left, Outcome
        <5> QED BY <1>1, <2>3, <4>6, <5>1 DEF Left, TypeOK
      <4>7. CASE Crash(m)
        <5>1. m # n
          BY <4>5, <4>7 DEF Crash, Outcome
        <5> QED BY <1>1, <2>3, <4>7, <5>1 DEF Crash, TypeOK
      <4> QED BY <4>2, <4>3, <4>4, <4>6, <4>7 DEF NodeEvent
    <3> QED BY <3>1, <3>2
  <2> QED BY <2>1, <2>4 DEF SameRequest
<1>6. ASSUME NEW a \in Node, NEW b \in Node, Invoke(a, b)
      PROVE  (Started /\ Cleared /\ SettledOrWatched)'
  <2>1. PICK new : new = Len(requests) + 1
    OBVIOUS
  <2>2. /\ DOMAIN requests' = DOMAIN requests \cup {new} /\ new \notin DOMAIN requests
        /\ \A r \in DOMAIN requests : requests'[r] = requests[r] /\ SameRequest(r)
        /\ requests'[new].from = a /\ requests'[new].to = b
        /\ (requests'[new].early <=> life[b] = "joining")
        /\ requests'[new].state = "pending" /\ requests'[new].timer = Timeout
    BY <1>6, <2>1, InvokeEffect
  <2>3. life' = life /\ life[a] = "on" /\ a # b /\ Timeout # Off
    BY <1>6, MeshRpcAssumption DEF Invoke, Off
  <2>4. Started'
    BY <1>1, <2>2, <2>3 DEF Started, From, To
  <2>5. Cleared'
    BY <2>2 DEF SameRequest, Cleared, Pending, Timer
  <2>6. SettledOrWatched'
    BY <1>1, <2>2, <2>3 DEF SettledOrWatched, Pending
  <2> QED BY <2>4, <2>5, <2>6
<1> QED BY <1>4, <1>5, <1>6, StepKeeps

LEMMA WStep == WInv /\ [Next]_vars => WInv'
  BY TypeStep, WatchStep, WireStep, WorksStep DEF WInv, Known

LEMMA Watching == Spec => []WInv
  BY WInit, WStep, PTL DEF Spec

\* The state is always of its type.
THEOREM Typed == Spec => []TypeOK
<1>1. WInv => TypeOK BY DEF WInv
<1> QED BY <1>1, Watching, PTL

\* However many requests, failures and stops there are, each request that waits has a timer and
\* a caller that still reads its answers or is about to reject it.
THEOREM NoneForgotten == Spec => []SettledOrWatched
<1>1. WInv => SettledOrWatched BY DEF WInv
<1> QED BY <1>1, Watching, PTL

\* What ends a request first decides it: a late answer, a late timeout and a stop change nothing.
THEOREM SettledForGood == Spec => SettlesOnce
<1>1. WInv /\ [Next]_vars =>
         [\A r \in DOMAIN requests : requests[r].state # "pending" => requests'[r] = requests[r]]_vars
  <2> SUFFICES ASSUME WInv, [Next]_vars, NEW r \in DOMAIN requests, requests[r].state # "pending"
               PROVE  requests'[r] = requests[r]
    OBVIOUS
  <2>1. ~Pending(r) BY DEF Pending
  <2> QED BY <2>1, StepKeeps, InvokeEffect DEF RequestsKept, SameRequest
<1> QED BY <1>1, Watching, PTL DEF Spec, SettlesOnce

-----------------------------------------------------------------------------
(* What keeps a request covered. *)

\* The channel from a to b has lost its first k messages and keeps the others in order.
Shift(a, b, k) ==
    \A i \in DOMAIN wire[a][b] :
        i > k => i - k \in DOMAIN wire'[a][b] /\ wire'[a][b][i - k] = wire[a][b][i]

\* The quantities that are compared are numbers.
Numerical ==
    /\ \A r \in DOMAIN requests :
          From(r) \in Node /\ To(r) \in Node /\ Timer(r) \in Int /\ Timer(r) <= Timeout
    /\ \A a, b \in Node : \A i \in DOMAIN wire[a][b] :
          i \in Nat \ {0} /\ wire[a][b][i].age \in 0..MaxDelay
    /\ \A w \in works : w.beat \in {Off} \cup 0..Beat

LEMMA Numbers == TypeOK => Numerical
<1> SUFFICES ASSUME TypeOK PROVE Numerical OBVIOUS
<1>1. \A r \in DOMAIN requests : requests[r] \in Request
  BY DEF TypeOK
<1>2. \A t \in {Off} \cup 0..Timeout : t \in Int /\ t <= Timeout
  BY MeshRpcAssumption DEF Off
<1>3. ASSUME NEW a \in Node, NEW b \in Node, NEW i \in DOMAIN wire[a][b]
      PROVE  i \in Nat \ {0} /\ wire[a][b][i].age \in 0..MaxDelay
  <2>1. wire[a][b] \in Seq(Message) BY DEF TypeOK
  <2>2. i \in Nat \ {0} /\ wire[a][b][i] \in Message BY <2>1
  <2> QED BY <2>2 DEF Message
<1>4. \A w \in works : w.beat \in {Off} \cup 0..Beat
  BY DEF TypeOK, Work
<1>5. ASSUME NEW r \in DOMAIN requests
      PROVE  From(r) \in Node /\ To(r) \in Node /\ Timer(r) \in Int /\ Timer(r) <= Timeout
  BY <1>1, <1>2 DEF Request, From, To, Timer
<1> QED BY <1>3, <1>4, <1>5 DEF Numerical

LEMMA NumbersNext == TypeOK' => Numerical'
  BY Numbers, PTL

\* The timer of a covered request is not due.
LEMMA CoveredTimer ==
    ASSUME TimelyAssumption, WInv, NEW r \in DOMAIN requests, Covered(r)
    PROVE  Timer(r) > 0
<1>1. TypeOK BY DEF WInv
<1>2. CASE Asked(r)
  BY <1>1, <1>2, Numbers, MeshRpcAssumption DEF Asked, Asks, TimelyAssumption, Numerical, Off
<1>3. CASE Worked(r)
  BY <1>1, <1>3, Numbers, MeshRpcAssumption DEF Worked, Works, Saves, Numerical, Off
<1>4. CASE Replied(r)
  BY <1>1, <1>4, Numbers, MeshRpcAssumption DEF Replied, Saves, Numerical, Off
<1> QED BY <1>2, <1>3, <1>4 DEF Covered

\* A request stays covered as long as its messages stay in their channels, in order, its
\* executions go on, and its timer does not get shorter.
LEMMA Undisturbed ==
    ASSUME WInv, WInv', NEW r \in DOMAIN requests, NEW x \in Node, NEW y \in Node,
           Addressed(r, x, y), Addressed(r, x, y)',
           requests'[r].timer >= requests[r].timer,
           NEW k \in {0, 1}, NEW l \in {0, 1}, Shift(x, y, k), Shift(y, x, l),
           k = 1 => ~Asks(r, 1),
           l = 1 => ~At3(y, x, 1, Answers \cup {"heartbeat"}, r),
           \A w \in works : Works(r, w) => w \in works',
           Covered(r)
    PROVE  Covered(r)'
<1>1. TypeOK /\ TypeOK' BY DEF WInv
<1>2. /\ From(r) = x /\ To(r) = y /\ From(r)' = x /\ To(r)' = y
      /\ Timer(r) \in Int /\ Timer(r)' \in Int /\ Timer(r)' >= Timer(r)
      /\ r \in DOMAIN requests'
  <2>1. From(r) = x /\ To(r) = y /\ From(r)' = x /\ To(r)' = y /\ r \in DOMAIN requests'
    BY DEF Addressed
  <2>2. Timer(r) \in Int /\ Timer(r)' \in Int
    BY <1>1, <2>1, Numbers, NumbersNext DEF Numerical, Addressed
  <2> QED BY <2>1, <2>2 DEF Timer
<1>3. \A a, b \in Node :
         /\ \A i \in DOMAIN wire[a][b] : i \in Nat \ {0} /\ wire[a][b][i].age \in 0..MaxDelay
         /\ \A i \in DOMAIN wire'[a][b] : i \in Nat \ {0} /\ wire'[a][b][i].age \in 0..MaxDelay
  BY <1>1, Numbers, NumbersNext DEF Numerical
<1>4. CASE Asked(r)
  <2>1. PICK i \in DOMAIN wire[x][y] :
           /\ At3(x, y, i, {"request"}, r) /\ Timer(r) >= Timeout - wire[x][y][i].age
           /\ Asks(r, i)
    BY <1>2, <1>4 DEF Asked, Asks
  <2>2. i > k
    BY <1>3, <2>1
  <2>3. i - k \in DOMAIN wire'[x][y] /\ wire'[x][y][i - k] = wire[x][y][i]
    BY <2>2 DEF Shift
  <2>4. Asked(r)'
    BY <1>2, <1>3, <2>1, <2>3, MeshRpcAssumption DEF Asked, Asks, At3
  <2> QED BY <2>4 DEF Covered
<1>5. ASSUME NEW i \in DOMAIN wire[y][x], Saves(r, i)
      PROVE  i > l /\ i - l \in DOMAIN wire'[y][x] /\ Saves(r, i - l)'
  <2>1. i > l
    BY <1>2, <1>3, <1>5 DEF Saves, At3, Answers
  <2>2. i - l \in DOMAIN wire'[y][x] /\ wire'[y][x][i - l] = wire[y][x][i]
    BY <2>1 DEF Shift
  <2>3. Saves(r, i - l)'
    BY <1>2, <1>3, <1>5, <2>2, MeshRpcAssumption DEF Saves, At3
  <2> QED BY <2>1, <2>2, <2>3
<1>6. CASE Worked(r)
  <2>1. PICK w \in works :
           /\ w.r = r /\ w.beat # Off
           /\ Timer(r) > w.beat + MaxDelay \/ \E i \in DOMAIN wire[y][x] : Saves(r, i)
           /\ Works(r, w)
    BY <1>2, <1>6 DEF Worked, Works
  <2>2. w \in works' BY <2>1
  <2>3. CASE Timer(r) > w.beat + MaxDelay
    <3>1. w.beat \in {Off} \cup 0..Beat BY <1>1, Numbers DEF Numerical
    <3>2. Timer(r)' > w.beat + MaxDelay BY <1>2, <2>3, <3>1, MeshRpcAssumption DEF Off
    <3> QED BY <2>1, <2>2, <3>2 DEF Covered, Worked, Works
  <2>4. CASE \E i \in DOMAIN wire[y][x] : Saves(r, i)
    <3>1. PICK i \in DOMAIN wire[y][x] : Saves(r, i) BY <2>4
    <3>2. i - l \in DOMAIN wire'[y][x] /\ Saves(r, i - l)' BY <1>5, <3>1
    <3>3. Worked(r)' BY <1>2, <2>1, <2>2, <3>2 DEF Worked, Works
    <3> QED BY <3>3 DEF Covered
  <2> QED BY <2>1, <2>3, <2>4
<1>7. CASE Replied(r)
  <2>1. PICK i \in DOMAIN wire[y][x] :
           /\ At3(y, x, i, Answers, r)
           /\ \/ Timer(r) > MaxDelay - wire[y][x][i].age
              \/ \E j \in DOMAIN wire[y][x] : j < i /\ Saves(r, j)
    BY <1>2, <1>7 DEF Replied
  <2>2. i > l
    BY <1>3, <2>1 DEF At3
  <2>3. i - l \in DOMAIN wire'[y][x] /\ wire'[y][x][i - l] = wire[y][x][i]
    BY <2>2 DEF Shift
  <2>4. At3(y, x, i - l, Answers, r)'
    BY <2>1, <2>3 DEF At3
  <2>5. CASE Timer(r) > MaxDelay - wire[y][x][i].age
    <3>1. Timer(r)' > MaxDelay - wire'[y][x][i - l].age
      BY <1>2, <1>3, <2>3, <2>5, MeshRpcAssumption
    <3>2. Replied(r)' BY <1>2, <2>3, <2>4, <3>1 DEF Replied
    <3> QED BY <3>2 DEF Covered
  <2>6. CASE \E j \in DOMAIN wire[y][x] : j < i /\ Saves(r, j)
    <3>1. PICK j \in DOMAIN wire[y][x] : j < i /\ Saves(r, j) BY <2>6
    <3>2. j - l \in DOMAIN wire'[y][x] /\ Saves(r, j - l)' BY <1>5, <3>1
    <3>3. j - l < i - l BY <1>3, <3>1
    <3>4. Replied(r)' BY <1>2, <2>3, <2>4, <3>2, <3>3 DEF Replied
    <3> QED BY <3>4 DEF Covered
  <2> QED BY <2>1, <2>5, <2>6
<1> QED BY <1>4, <1>6, <1>7 DEF Covered

LEMMA StillShifts ==
    ASSUME WireType, UNCHANGED wire, NEW x \in Node, NEW y \in Node
    PROVE  Shift(x, y, 0)
<1>1. wire[x][y] \in Seq(Message) BY DEF WireType
<1> QED BY <1>1 DEF Shift

LEMMA PublishShifts ==
    ASSUME WireType, NEW a \in Node, NEW b \in Node, NEW m \in Message, Publish(a, b, m),
           NEW x \in Node, NEW y \in Node
    PROVE  Shift(x, y, 0)
<1>1. CASE x = a /\ y = b
  BY <1>1, PublishEffect DEF Shift
<1>2. CASE x # a \/ y # b
  <2>1. wire'[x][y] = wire[x][y] BY <1>2, PublishEffect
  <2>2. wire[x][y] \in Seq(Message) BY DEF WireType
  <2> QED BY <2>1, <2>2 DEF Shift
<1> QED BY <1>1, <1>2

LEMMA ConsumeShifts ==
    ASSUME WireType, NEW a \in Node, NEW b \in Node, wire[a][b] # <<>>, Consume(a, b),
           NEW x \in Node, NEW y \in Node
    PROVE  Shift(x, y, IF x = a /\ y = b THEN 1 ELSE 0)
<1>1. CASE x = a /\ y = b
  <2> SUFFICES ASSUME NEW i \in DOMAIN wire[a][b], i > 1
               PROVE  i - 1 \in DOMAIN wire'[a][b] /\ wire'[a][b][i - 1] = wire[a][b][i]
    BY <1>1 DEF Shift
  <2>1. /\ Len(wire[a][b]) \in Nat \ {0} /\ DOMAIN wire[a][b] = 1..Len(wire[a][b])
        /\ DOMAIN wire'[a][b] = 1..(Len(wire[a][b]) - 1)
        /\ \A j \in 1..(Len(wire[a][b]) - 1) : wire'[a][b][j] = wire[a][b][j + 1]
    BY ConsumeEffect
  <2>2. i - 1 \in 1..(Len(wire[a][b]) - 1) /\ (i - 1) + 1 = i BY <2>1
  <2>3. wire'[a][b][i - 1] = wire[a][b][(i - 1) + 1] BY <2>1, <2>2
  <2> QED BY <2>1, <2>2, <2>3
<1>2. CASE x # a \/ y # b
  <2>1. wire'[x][y] = wire[x][y] BY <1>2, ConsumeEffect
  <2>2. wire[x][y] \in Seq(Message) BY DEF WireType
  <2> QED BY <1>2, <2>1, <2>2 DEF Shift
<1> QED BY <1>1, <1>2

\* A request that waits, before and after the step, between two nodes that run.
Tracked(r, x, y) ==
    /\ Addressed(r, x, y) /\ Addressed(r, x, y)' /\ x # y
    /\ life[x] = "on" /\ life[y] = "on" /\ life'[x] = "on" /\ life'[y] = "on"
    /\ Pending(r) /\ Pending(r)'
    /\ Covered(r)

\* Its timer and its executions.
Unhurried(r) ==
    /\ requests'[r].timer >= requests[r].timer
    /\ \A w \in works : Works(r, w) => w \in works'

LEMMA StillCovered ==
    ASSUME WInv, WInv', NEW x \in Node, NEW y \in Node, NEW r, Tracked(r, x, y), Unhurried(r),
           Shift(x, y, 0), Shift(y, x, 0)
    PROVE  Covered(r)'
<1>1. r \in DOMAIN requests BY DEF Tracked, Addressed
<1>2. Addressed(r, x, y) /\ Addressed(r, x, y)' /\ Covered(r) BY DEF Tracked
<1>3. \E k, l \in {0, 1} : k = 0 /\ l = 0 /\ Shift(x, y, k) /\ Shift(y, x, l) OBVIOUS
<1> QED BY <1>1, <1>2, <1>3, Undisturbed DEF Unhurried

LEMMA ConsumedCovered ==
    ASSUME WInv, WInv', NEW x \in Node, NEW y \in Node, NEW r, Tracked(r, x, y), Unhurried(r),
           NEW a \in Node, NEW b \in Node, wire[a][b] # <<>>, Consume(a, b),
           a = x /\ b = y => ~Asks(r, 1),
           a = y /\ b = x => ~At3(a, b, 1, Answers \cup {"heartbeat"}, r)
    PROVE  Covered(r)'
<1>1. r \in DOMAIN requests /\ x # y BY DEF Tracked, Addressed
<1>2. Addressed(r, x, y) /\ Addressed(r, x, y)' /\ Covered(r) BY DEF Tracked
<1>3. WireType BY DEF WInv, TypeOK, WireType
<1>4. PICK k \in {0, 1} : Shift(x, y, k) /\ (k = 1 => a = x /\ b = y)
  BY <1>3, ConsumeShifts
<1>5. PICK l \in {0, 1} : Shift(y, x, l) /\ (l = 1 => a = y /\ b = x)
  BY <1>3, ConsumeShifts
<1>6. k = 1 => ~Asks(r, 1) BY <1>4
<1>7. l = 1 => ~At3(y, x, 1, Answers \cup {"heartbeat"}, r) BY <1>5
<1> QED BY <1>1, <1>2, <1>4, <1>5, <1>6, <1>7, Undisturbed DEF Unhurried

\* Requests that are not touched keep their timers.
LEMMA SameTimer ==
    ASSUME WInv, NEW r \in DOMAIN requests, requests'[r] = requests[r]
    PROVE  requests'[r].timer >= requests[r].timer
  BY Numbers DEF WInv, Numerical, Timer

-----------------------------------------------------------------------------
(* The steps that pass a request on: each leaves it covered in the next way. *)

LEMMA TickCovers ==
    ASSUME TimelyAssumption, WInv, WInv', Tick, timely,
           NEW x \in Node, NEW y \in Node, NEW r, Tracked(r, x, y)
    PROVE  Covered(r)'
<1>1. TypeOK /\ TypeOK' /\ MayPass BY DEF WInv, Tick
<1>2. /\ r \in DOMAIN requests /\ From(r) = x /\ To(r) = y /\ From(r)' = x /\ To(r)' = y
      /\ Timer(r) \in Int /\ Covered(r)
  BY <1>1, Numbers DEF Tracked, Addressed, Numerical
<1>3. Timer(r) > 0 /\ Timer(r)' = Timer(r) - 1
  <2>1. Timer(r) > 0 BY <1>2, CoveredTimer
  <2>2. Timer(r)' = Sooner(Timer(r)) BY <1>1, <1>2, TickEffect DEF Timer
  <2> QED BY <2>1, <2>2 DEF Sooner
<1>4. \A a, b \in Node :
         /\ DOMAIN wire'[a][b] = DOMAIN wire[a][b]
         /\ \A i \in DOMAIN wire[a][b] :
               /\ wire'[a][b][i].kind = wire[a][b][i].kind /\ wire'[a][b][i].r = wire[a][b][i].r
               /\ wire'[a][b][i].age = wire[a][b][i].age + 1
  BY <1>1, TickEffect
<1>5. \A a, b \in Node : \A i \in DOMAIN wire[a][b] :
         i \in Nat \ {0} /\ wire[a][b][i].age \in 0..MaxDelay
  BY <1>1, Numbers DEF Numerical
<1>6. ASSUME NEW i \in DOMAIN wire[y][x], Saves(r, i)
      PROVE  i \in DOMAIN wire'[y][x] /\ Saves(r, i)'
  BY <1>2, <1>3, <1>4, <1>5, <1>6, MeshRpcAssumption DEF Saves, At3
<1>7. CASE Asked(r)
  <2>1. PICK i \in DOMAIN wire[x][y] : Asks(r, i)
    BY <1>2, <1>7 DEF Asked
  <2>2. i \in DOMAIN wire'[x][y] /\ Asks(r, i)'
    BY <1>2, <1>3, <1>4, <1>5, <2>1, MeshRpcAssumption DEF Asks, At3
  <2>3. Asked(r)' BY <1>2, <2>2 DEF Asked
  <2> QED BY <2>3 DEF Covered
<1>8. CASE Worked(r)
  <2>1. PICK w \in works : Works(r, w)
    BY <1>8 DEF Worked
  <2>2. PICK v : v = [w EXCEPT !.beat = Sooner(@)]
    OBVIOUS
  <2>3. v \in works' /\ v.r = w.r /\ v.beat = Sooner(w.beat)
    BY <1>1, <2>1, <2>2, TickEffect
  <2>4. w.r = r /\ w.beat \in 1..Beat
    BY <1>1, <2>1, Numbers, MeshRpcAssumption DEF Works, MayPass, Numerical, Off
  <2>5. v.r = r /\ v.beat = w.beat - 1 /\ v.beat # Off
    BY <2>3, <2>4, MeshRpcAssumption DEF Sooner, Off
  <2>6. CASE Timer(r) > w.beat + MaxDelay
    <3>1. Timer(r)' > v.beat + MaxDelay
      BY <1>2, <1>3, <2>4, <2>5, <2>6, MeshRpcAssumption
    <3>2. Worked(r)' BY <2>3, <2>5, <3>1 DEF Worked, Works
    <3> QED BY <3>2 DEF Covered
  <2>7. CASE \E i \in DOMAIN wire[y][x] : Saves(r, i)
    <3>1. \E i \in DOMAIN wire'[y][x] : Saves(r, i)'
      BY <1>6, <2>7
    <3>2. Worked(r)' BY <1>2, <2>3, <2>5, <3>1 DEF Worked, Works
    <3> QED BY <3>2 DEF Covered
  <2> QED BY <1>2, <2>1, <2>6, <2>7 DEF Works
<1>9. CASE Replied(r)
  <2>1. PICK i \in DOMAIN wire[y][x] :
           /\ At3(y, x, i, Answers, r)
           /\ \/ Timer(r) > MaxDelay - wire[y][x][i].age
              \/ \E j \in DOMAIN wire[y][x] : j < i /\ Saves(r, j)
    BY <1>2, <1>9 DEF Replied
  <2>2. i \in DOMAIN wire'[y][x] /\ At3(y, x, i, Answers, r)'
    BY <1>4, <2>1 DEF At3
  <2>3. CASE Timer(r) > MaxDelay - wire[y][x][i].age
    <3>1. Timer(r)' > MaxDelay - wire'[y][x][i].age
      BY <1>2, <1>3, <1>4, <1>5, <2>3, MeshRpcAssumption
    <3>2. Replied(r)' BY <1>2, <2>2, <3>1 DEF Replied
    <3> QED BY <3>2 DEF Covered
  <2>4. CASE \E j \in DOMAIN wire[y][x] : j < i /\ Saves(r, j)
    <3>1. \E j \in DOMAIN wire'[y][x] : j < i /\ Saves(r, j)'
      BY <1>6, <2>4
    <3>2. Replied(r)' BY <1>2, <2>2, <3>1 DEF Replied
    <3> QED BY <3>2 DEF Covered
  <2> QED BY <2>1, <2>3, <2>4
<1> QED BY <1>2, <1>7, <1>8, <1>9 DEF Covered

\* A heartbeat gives the whole timeout again.
LEMMA HeartbeatCovers ==
    ASSUME TimelyAssumption, WInv, WInv',
           NEW x \in Node, NEW y \in Node, NEW r, Tracked(r, x, y),
           HeartbeatArrives(y, x), Subject(y, x) = r
    PROVE  Covered(r)'
<1>1. TypeOK /\ WireType BY DEF WInv, TypeOK, WireType
<1>2. /\ r \in DOMAIN requests /\ From(r) = x /\ To(r) = y /\ From(r)' = x /\ To(r)' = y /\ x # y
      /\ Pending(r) /\ Covered(r)
  BY DEF Tracked, Addressed
<1>3. Timer(r)' = Timeout
  <2>1. requests' = [requests EXCEPT ![r].timer = Timeout]
    BY <1>2 DEF HeartbeatArrives
  <2> QED BY <1>2, <2>1, ExtendKeeps DEF Timer
<1>4. /\ works' = works /\ wire[y][x] # <<>> /\ Consume(y, x)
      /\ wire[y][x][1].kind = "heartbeat"
  BY <1>1, ArrivalFacts DEF HeartbeatArrives
<1>5. Shift(x, y, 0) /\ Shift(y, x, 1)
  <2>1. Shift(x, y, IF x = y /\ y = x THEN 1 ELSE 0) /\ Shift(y, x, IF y = y /\ x = x THEN 1 ELSE 0)
    BY <1>1, <1>4, ConsumeShifts
  <2> QED BY <1>2, <2>1
<1>6. \A a, b \in Node : \A i \in DOMAIN wire[a][b] :
         i \in Nat \ {0} /\ wire[a][b][i].age \in 0..MaxDelay
  BY <1>1, Numbers DEF Numerical
<1>7. CASE Asked(r)
  <2>1. PICK i \in DOMAIN wire[x][y] : Asks(r, i)
    BY <1>2, <1>7 DEF Asked
  <2>2. i - 0 = i /\ i \in DOMAIN wire'[x][y] /\ wire'[x][y][i] = wire[x][y][i]
    BY <1>5, <1>6 DEF Shift
  <2>3. Asked(r)'
    BY <1>2, <1>3, <1>6, <2>1, <2>2, MeshRpcAssumption DEF Asked, Asks, At3
  <2> QED BY <2>3 DEF Covered
<1>8. CASE Worked(r)
  <2>1. PICK w \in works : w.r = r /\ w.beat # Off
    BY <1>8 DEF Worked, Works
  <2>2. w.beat \in 0..Beat
    BY <1>1, <2>1, Numbers DEF Numerical
  <2>3. Timer(r)' > w.beat + MaxDelay
    BY <1>3, <2>2, MeshRpcAssumption DEF TimelyAssumption
  <2>4. Worked(r)'
    BY <1>4, <2>1, <2>3 DEF Worked, Works
  <2> QED BY <2>4 DEF Covered
<1>9. CASE Replied(r)
  <2>1. PICK i \in DOMAIN wire[y][x] : At3(y, x, i, Answers, r)
    BY <1>2, <1>9 DEF Replied
  <2>2. i > 1
    BY <1>4, <1>6, <2>1 DEF At3, Answers
  <2>3. i - 1 \in DOMAIN wire'[y][x] /\ wire'[y][x][i - 1] = wire[y][x][i]
    BY <1>5, <2>2 DEF Shift
  <2>4. At3(y, x, i - 1, Answers, r)' /\ Timer(r)' > MaxDelay - wire'[y][x][i - 1].age
    BY <1>3, <1>6, <2>1, <2>3, MeshRpcAssumption DEF At3, TimelyAssumption
  <2>5. Replied(r)' BY <1>2, <2>3, <2>4 DEF Replied
  <2> QED BY <2>5 DEF Covered
<1> QED BY <1>2, <1>7, <1>8, <1>9 DEF Covered

\* A request that arrives has a handler from then on.
LEMMA ArrivalCovers ==
    ASSUME TimelyAssumption, WInv, WInv',
           NEW x \in Node, NEW y \in Node, NEW r, Tracked(r, x, y),
           NEW a \in Node, NEW b \in Node, RequestArrives(a, b)
    PROVE  Covered(r)'
<1>1. TypeOK /\ KnownOnWire BY DEF WInv, Known
<1>2. /\ r \in DOMAIN requests /\ From(r) = x /\ To(r) = y /\ From(r)' = x /\ To(r)' = y /\ x # y
      /\ Timer(r) \in Int /\ requests' = requests /\ Timer(r)' = Timer(r)
  BY <1>1, Numbers DEF Tracked, Addressed, Numerical, RequestArrives, Timer
<1>3. PICK q, v : /\ q = Subject(a, b) /\ works' = works \cup {v} /\ v.r = q /\ v.beat = Beat
  <2>1. PICK q, k : /\ q = Subject(a, b)
                    /\ works' = works \cup {[r |-> q, copy |-> k, beat |-> Beat]}
    BY DEF RequestArrives
  <2>2. PICK v : v = [r |-> q, copy |-> k, beat |-> Beat]
    OBVIOUS
  <2>3. v.r = q /\ v.beat = Beat
    BY <2>2
  <2> QED BY <2>1, <2>2, <2>3
<1>4. /\ wire[a][b] # <<>> /\ Consume(a, b) /\ 1 \in DOMAIN wire[a][b]
      /\ wire[a][b][1].kind = "request" /\ wire[a][b][1].r = q
      /\ wire[a][b][1].age \in 0..MaxDelay
  BY <1>1, <1>3, ArrivalFacts, Numbers DEF RequestArrives, Numerical
<1>5. CASE a = x /\ b = y /\ Asks(r, 1)
  <2>1. v.r = r BY <1>2, <1>3, <1>4, <1>5 DEF Asks, At3
  <2>2. Timer(r)' > v.beat + MaxDelay
    BY <1>2, <1>3, <1>4, <1>5, MeshRpcAssumption DEF Asks, TimelyAssumption
  <2>3. v \in works' /\ v.beat # Off
    BY <1>3, MeshRpcAssumption DEF Off
  <2>4. Worked(r)' BY <2>1, <2>2, <2>3 DEF Worked, Works
  <2> QED BY <2>4 DEF Covered
<1>6. CASE ~(a = x /\ b = y /\ Asks(r, 1))
  <2>1. ~At3(a, b, 1, Answers \cup {"heartbeat"}, r)
    BY <1>4 DEF At3, Answers
  <2>2. Unhurried(r)
    BY <1>1, <1>2, <1>3, SameTimer DEF Unhurried
  <2> QED BY <1>4, <1>6, <2>1, <2>2, ConsumedCovered
<1> QED BY <1>5, <1>6

\* A request without a handler has its answer at once.
LEMMA RefusalCovers ==
    ASSUME TimelyAssumption, WInv, WInv',
           NEW x \in Node, NEW y \in Node, NEW r, Tracked(r, x, y),
           NEW a \in Node, NEW b \in Node, RequestRefused(a, b)
    PROVE  Covered(r)'
<1>1. TypeOK /\ KnownOnWire /\ Started /\ WireType BY DEF WInv, Known, TypeOK, WireType
<1>2. /\ r \in DOMAIN requests /\ From(r) = x /\ To(r) = y /\ From(r)' = x /\ To(r)' = y /\ x # y
      /\ Addressed(r, x, y) /\ Addressed(r, x, y)' /\ Covered(r)
      /\ Timer(r) \in Int /\ requests' = requests /\ Timer(r)' = Timer(r) /\ works' = works
  BY <1>1, Numbers DEF Tracked, Addressed, Numerical, RequestRefused, Timer
<1>3. PICK m : m = Msg("noHandler", Subject(a, b)) OBVIOUS
<1>4. /\ wire[a][b] # <<>> /\ 1 \in DOMAIN wire[a][b]
      /\ wire[a][b][1].kind = "request" /\ wire[a][b][1].r = Subject(a, b)
      /\ wire[a][b][1].age \in 0..MaxDelay
      /\ m \in Message /\ m.kind = "noHandler" /\ m.r = Subject(a, b) /\ m.age = 0
  <2>1. /\ Subject(a, b) \in 0..MaxSent /\ wire[a][b] # <<>> /\ 1 \in DOMAIN wire[a][b]
        /\ wire[a][b][1].kind = "request" /\ wire[a][b][1].r = Subject(a, b)
    BY <1>1, ArrivalFacts DEF RequestRefused
  <2>2. wire[a][b][1].age \in 0..MaxDelay
    BY <1>1, <2>1, Numbers DEF Numerical
  <2> QED BY <1>3, <2>1, <2>2, MeshRpcAssumption DEF Msg, Message
<1>5. a # b
  BY <1>1, <1>4 DEF KnownOnWire, Addressed, Started
<1>6. /\ Len(wire[a][b]) \in Nat \ {0}
      /\ DOMAIN wire[a][b] = 1..Len(wire[a][b])
      /\ DOMAIN wire'[a][b] = 1..(Len(wire[a][b]) - 1)
      /\ \A i \in 1..(Len(wire[a][b]) - 1) : wire'[a][b][i] = wire[a][b][i + 1]
      /\ Len(wire[b][a]) \in Nat
      /\ DOMAIN wire[b][a] = 1..Len(wire[b][a])
      /\ DOMAIN wire'[b][a] = 1..(Len(wire[b][a]) + 1)
      /\ \A i \in DOMAIN wire[b][a] : wire'[b][a][i] = wire[b][a][i]
      /\ wire'[b][a][Len(wire[b][a]) + 1] = m
      /\ \A p, q \in Node : (p # a \/ q # b) /\ (p # b \/ q # a) => wire'[p][q] = wire[p][q]
  <2>1. Refuse(a, b, m)
    BY <1>3 DEF RequestRefused, Refuse
  <2>2. WireType /\ wire[a][b] # <<>> /\ m \in Message
    BY <1>1, <1>4
  <2> QED BY <1>5, <2>1, <2>2, RefuseEffect
<1>7. Shift(a, b, 1)
  <2> SUFFICES ASSUME NEW i \in DOMAIN wire[a][b], i > 1
               PROVE  i - 1 \in DOMAIN wire'[a][b] /\ wire'[a][b][i - 1] = wire[a][b][i]
    BY DEF Shift
  <2>1. i - 1 \in 1..(Len(wire[a][b]) - 1) /\ (i - 1) + 1 = i BY <1>6
  <2>2. wire'[a][b][i - 1] = wire[a][b][(i - 1) + 1] BY <1>6, <2>1
  <2> QED BY <1>6, <2>1, <2>2
<1>8. Shift(b, a, 0)
  BY <1>6 DEF Shift
<1>9. \A p, q \in Node : (p # a \/ q # b) /\ (p # b \/ q # a) => Shift(p, q, 0)
  <2> SUFFICES ASSUME NEW p \in Node, NEW q \in Node, wire'[p][q] = wire[p][q]
               PROVE  Shift(p, q, 0)
    BY <1>6
  <2>1. wire[p][q] \in Seq(Message) BY <1>1 DEF WireType
  <2> QED BY <2>1 DEF Shift
<1>10. /\ requests'[r].timer >= requests[r].timer
       /\ \A w \in works : Works(r, w) => w \in works'
  BY <1>2, SameTimer
<1>11. CASE a = x /\ b = y /\ Asks(r, 1)
  <2>1. Subject(a, b) = r BY <1>2, <1>4, <1>11 DEF Asks, At3
  <2>2. PICK i : i = Len(wire[b][a]) + 1
    OBVIOUS
  <2>3. i \in DOMAIN wire'[b][a] /\ wire'[b][a][i] = m
    BY <1>6, <2>2
  <2>4. At3(b, a, i, Answers, r)'
    BY <1>4, <2>1, <2>3 DEF At3, Answers
  <2>5. Timer(r)' > MaxDelay - wire'[b][a][i].age
    BY <1>2, <1>4, <1>11, <2>3, MeshRpcAssumption DEF Asks, TimelyAssumption
  <2>6. Replied(r)' BY <1>2, <1>11, <2>3, <2>4, <2>5 DEF Replied
  <2> QED BY <2>6 DEF Covered
<1>12. CASE a = x /\ b = y /\ ~Asks(r, 1)
  <2>1. \E k, l \in {0, 1} : k = 1 /\ l = 0 /\ Shift(x, y, k) /\ Shift(y, x, l)
    BY <1>7, <1>8, <1>12
  <2> QED BY <1>2, <1>10, <1>12, <2>1, Undisturbed
<1>13. CASE a = y /\ b = x
  <2>1. \E k, l \in {0, 1} : k = 0 /\ l = 1 /\ Shift(x, y, k) /\ Shift(y, x, l)
    BY <1>7, <1>8, <1>13
  <2>2. ~At3(y, x, 1, Answers \cup {"heartbeat"}, r)
    BY <1>4, <1>13 DEF At3, Answers
  <2> QED BY <1>2, <1>10, <2>1, <2>2, Undisturbed
<1>14. CASE (x # a \/ y # b) /\ (x # b \/ y # a)
  <2>1. Shift(x, y, 0) /\ Shift(y, x, 0)
    BY <1>9, <1>14
  <2> QED BY <1>10, <2>1, StillCovered DEF Unhurried
<1> QED BY <1>11, <1>12, <1>13, <1>14

\* A heartbeat is sent in time, and the next one is due an interval later.
LEMMA BeatCovers ==
    ASSUME TimelyAssumption, WInv, WInv',
           NEW x \in Node, NEW y \in Node, NEW r, Tracked(r, x, y),
           NEW w \in works, BeatFires(w)
    PROVE  Covered(r)'
<1>1. TypeOK /\ WireType BY DEF WInv, TypeOK, WireType
<1>2. /\ r \in DOMAIN requests /\ From(r) = x /\ To(r) = y /\ From(r)' = x /\ To(r)' = y
      /\ Timer(r) \in Int /\ requests' = requests /\ Timer(r)' = Timer(r)
  BY <1>1, Numbers DEF Tracked, Addressed, Numerical, BeatFires, Timer
<1>3. PICK v : v = [w EXCEPT !.beat = Beat] OBVIOUS
<1>4. works' = (works \ {w}) \cup {v} /\ v.r = w.r /\ v.beat = Beat
  <2>1. w \in Work BY WorkFacts
  <2>2. v.r = w.r /\ v.beat = Beat BY <1>3, <2>1 DEF Work
  <2> QED BY <1>3, <2>2 DEF BeatFires
<1>5. PICK a \in Node, b \in Node, m \in Message :
         /\ a = At(w) /\ b = Caller(w) /\ m = Msg("heartbeat", w.r)
         /\ m.kind = "heartbeat" /\ m.r = w.r /\ m.age = 0
         /\ Publish(a, b, m)
  BY WorkFacts DEF BeatFires
<1>6. \A p, q \in Node : Shift(p, q, 0)
  BY <1>1, <1>5, PublishShifts
<1>7. CASE Works(r, w)
  <2>1. w.r = r /\ w.beat = 0 /\ a = y /\ b = x
    BY <1>2, <1>5, <1>7 DEF Works, At, Caller, From, To, BeatFires
  <2>2. v \in works' /\ v.r = r /\ v.beat # Off
    BY <1>4, <2>1, MeshRpcAssumption DEF Off
  <2>3. \E i \in DOMAIN wire'[y][x] : Saves(r, i)'
    <3>1. CASE Timer(r) > w.beat + MaxDelay
      <4>1. PICK i : i = Len(wire[y][x]) + 1 OBVIOUS
      <4>2. i \in DOMAIN wire'[y][x] /\ wire'[y][x][i] = m
        BY <1>1, <1>5, <2>1, <4>1, PublishEffect
      <4>3. Saves(r, i)'
        BY <1>2, <1>5, <2>1, <3>1, <4>2, MeshRpcAssumption DEF Saves, At3
      <4> QED BY <4>2, <4>3
    <3>2. CASE \E i \in DOMAIN wire[y][x] : Saves(r, i)
      <4>1. PICK i \in DOMAIN wire[y][x] : Saves(r, i)
        BY <3>2
      <4>2. i \in Nat \ {0}
        BY <1>1, Numbers DEF Numerical
      <4>3. i - 0 = i /\ i \in DOMAIN wire'[y][x] /\ wire'[y][x][i] = wire[y][x][i]
        BY <1>6, <4>2 DEF Shift
      <4>4. Saves(r, i)'
        BY <1>2, <4>1, <4>3 DEF Saves, At3
      <4> QED BY <4>3, <4>4
    <3> QED BY <1>2, <1>7, <3>1, <3>2 DEF Works
  <2>4. Worked(r)' BY <1>2, <2>2, <2>3 DEF Worked, Works
  <2> QED BY <2>4 DEF Covered
<1>8. CASE ~Works(r, w)
  <2>1. Unhurried(r)
    BY <1>2, <1>4, <1>8, SameTimer DEF Unhurried
  <2> QED BY <1>6, <2>1, StillCovered
<1> QED BY <1>7, <1>8

\* The answer is sent in time, or after a heartbeat that is.
LEMMA EndCovers ==
    ASSUME TimelyAssumption, WInv, WInv',
           NEW x \in Node, NEW y \in Node, NEW r, Tracked(r, x, y),
           NEW w \in works, HandlerEnds(w)
    PROVE  Covered(r)'
<1>1. TypeOK /\ WireType BY DEF WInv, TypeOK, WireType
<1>2. /\ r \in DOMAIN requests /\ From(r) = x /\ To(r) = y /\ From(r)' = x /\ To(r)' = y
      /\ Timer(r) \in Int /\ requests' = requests /\ Timer(r)' = Timer(r)
      /\ works' = works \ {w}
  BY <1>1, Numbers DEF Tracked, Addressed, Numerical, HandlerEnds, Timer
<1>3. PICK a \in Node, b \in Node, m \in Message :
         /\ a = At(w) /\ b = Caller(w)
         /\ m.kind \in Answers /\ m.r = w.r /\ m.age = 0
         /\ Publish(a, b, m)
  <2>1. PICK kind \in {"resolved", "handlerError"} : Publish(At(w), Caller(w), Msg(kind, w.r))
    BY DEF HandlerEnds
  <2> QED BY <2>1, WorkFacts DEF Answers
<1>4. \A p, q \in Node : Shift(p, q, 0)
  BY <1>1, <1>3, PublishShifts
<1>5. CASE Works(r, w)
  <2>1. w.r = r /\ w.beat \in 0..Beat /\ a = y /\ b = x
    <3>1. w.beat \in {Off} \cup 0..Beat BY <1>1, Numbers DEF Numerical
    <3> QED BY <1>2, <1>3, <1>5, <3>1 DEF Works, At, Caller, From, To
  <2>2. PICK i : i = Len(wire[y][x]) + 1 OBVIOUS
  <2>3. /\ i \in DOMAIN wire'[y][x] /\ wire'[y][x][i] = m
        /\ \A j \in DOMAIN wire[y][x] : /\ j \in DOMAIN wire'[y][x] /\ wire'[y][x][j] = wire[y][x][j]
                                        /\ j < i
    BY <1>1, <1>3, <2>1, <2>2, PublishEffect
  <2>4. At3(y, x, i, Answers, r)'
    BY <1>3, <2>1, <2>3 DEF At3
  <2>5. CASE Timer(r) > w.beat + MaxDelay
    <3>1. Timer(r)' > MaxDelay - wire'[y][x][i].age
      BY <1>2, <1>3, <2>1, <2>3, <2>5, MeshRpcAssumption
    <3>2. Replied(r)' BY <1>2, <2>3, <2>4, <3>1 DEF Replied
    <3> QED BY <3>2 DEF Covered
  <2>6. CASE \E j \in DOMAIN wire[y][x] : Saves(r, j)
    <3>1. PICK j \in DOMAIN wire[y][x] : Saves(r, j)
      BY <2>6
    <3>2. j \in DOMAIN wire'[y][x] /\ j < i /\ Saves(r, j)'
      BY <1>2, <2>3, <3>1 DEF Saves, At3
    <3>3. Replied(r)' BY <1>2, <2>3, <2>4, <3>2 DEF Replied
    <3> QED BY <3>3 DEF Covered
  <2> QED BY <1>2, <1>5, <2>5, <2>6 DEF Works
<1>6. CASE ~Works(r, w)
  <2>1. Unhurried(r)
    BY <1>2, <1>6, SameTimer DEF Unhurried
  <2> QED BY <1>4, <2>1, StillCovered
<1> QED BY <1>5, <1>6

\* A new request is on its way.
LEMMA InvokeCovers ==
    ASSUME WInv, WInv', NEW x \in Node, NEW y \in Node, Invoke(x, y),
           NEW r, r = Len(requests) + 1
    PROVE  Covered(r)'
<1>1. WireType BY DEF WInv, TypeOK, WireType
<1>2. From(r)' = x /\ To(r)' = y /\ Timer(r)' = Timeout /\ Msg("request", r) \in Message
  BY InvokeEffect DEF From, To, Timer
<1>3. PICK m \in Message : m.kind = "request" /\ m.r = r /\ m.age = 0 /\ Publish(x, y, m)
  BY <1>2 DEF Invoke, Msg
<1>4. PICK i : i \in DOMAIN wire'[x][y] /\ wire'[x][y][i] = m
  BY <1>1, <1>3, PublishEffect
<1>5. Asked(r)'
  BY <1>2, <1>3, <1>4, MeshRpcAssumption DEF Asked, Asks, At3
<1> QED BY <1>5 DEF Covered

-----------------------------------------------------------------------------
(* The handlers' heartbeats are in time. *)

LEMMA CoverStep ==
    ASSUME TimelyAssumption, WInv, WInv', [Next]_vars, faults' = 0, timely,
           NEW x \in Node, NEW y \in Node, NEW r, Tracked(r, x, y)
    PROVE  Covered(r)'
<1>1. TypeOK /\ WireType BY DEF WInv, TypeOK, WireType
<1>2. /\ r \in DOMAIN requests /\ r \in DOMAIN requests' /\ x # y
      /\ requests[r].from = x /\ requests[r].to = y
      /\ requests[r].state = "pending" /\ requests'[r].state = "pending"
  BY DEF Tracked, Addressed, Pending, From, To
<1>3. ~Fault
  BY <1>1 DEF Fault, TypeOK
<1>4. ASSUME UNCHANGED <<wire, works, requests>>
      PROVE  Covered(r)'
  <2>1. Shift(x, y, 0) /\ Shift(y, x, 0) BY <1>1, <1>4, StillShifts
  <2> QED BY <1>2, <1>4, <2>1, SameTimer, StillCovered DEF Unhurried
<1>5. CASE UNCHANGED vars
  BY <1>4, <1>5 DEF vars
<1>6. CASE Tick
  BY <1>6, TickCovers
<1>7. CASE Stall
  BY <1>3, <1>7 DEF Stall
<1>8. ASSUME NEW n \in Node, NodeEvent(n)
      PROVE  Covered(r)'
  <2>1. CASE Broadcast(n)
    <3>1. PICK m \in Message : wire' = [wire EXCEPT ![n] = [b \in Node |-> Append(@[b], m)]]
      <4>1. Msg("broadcast", 0) \in Message BY MeshRpcAssumption DEF Msg, Message
      <4> QED BY <2>1, <4>1 DEF Broadcast
    <3>2. \A p, q \in Node : Shift(p, q, 0)
      <4> SUFFICES ASSUME NEW p \in Node, NEW q \in Node PROVE Shift(p, q, 0) OBVIOUS
      <4>1. CASE p = n BY <1>1, <3>1, <4>1, AirEffect DEF Shift
      <4>2. CASE p # n
        <5>1. wire'[p][q] = wire[p][q] BY <1>1, <3>1, <4>2, AirEffect
        <5>2. wire[p][q] \in Seq(Message) BY <1>1 DEF WireType
        <5> QED BY <5>1, <5>2 DEF Shift
      <4> QED BY <4>1, <4>2
    <3>3. Unhurried(r)
      BY <1>2, <2>1, SameTimer DEF Broadcast, Unhurried
    <3> QED BY <3>2, <3>3, StillCovered
  <2>2. CASE Joins(n) \/ Leaves(n)
    BY <1>4, <2>2 DEF Joins, Leaves
  <2>3. CASE Left(n)
    <3>1. n # x /\ n # y
      BY <2>3 DEF Left, Tracked
    <3>2. requests'[r] = requests[r]
      BY <1>1, <1>2, <2>3, <3>1, AbandonedEffect DEF Left, TypeOK, Outcome
    <3>3. \A w \in works : Works(r, w) => w \in works'
      BY <1>2, <2>3, <3>1 DEF Left, Silenced, Works, At
    <3>4. Shift(x, y, 0) /\ Shift(y, x, 0)
      BY <1>1, <2>3, StillShifts DEF Left
    <3> QED BY <1>2, <3>2, <3>3, <3>4, SameTimer, StillCovered DEF Unhurried
  <2>4. CASE Crash(n)
    BY <1>3, <2>4 DEF Crash
  <2> QED BY <1>8, <2>1, <2>2, <2>3, <2>4 DEF NodeEvent
<1>9. ASSUME NEW a \in Node, NEW b \in Node, Invoke(a, b)
      PROVE  Covered(r)'
  <2>1. requests'[r] = requests[r] BY <1>2, <1>9, InvokeEffect
  <2>2. Unhurried(r)
    BY <1>2, <1>9, <2>1, SameTimer DEF Invoke, Unhurried
  <2>3. PICK m \in Message : Publish(a, b, m)
    BY <1>9, InvokeEffect DEF Invoke
  <2> QED BY <1>1, <2>2, <2>3, PublishShifts, StillCovered
<1>10. ASSUME NEW a \in Node, NEW b \in Node, Delivery(a, b)
       PROVE  Covered(r)'
  <2>1. CASE Ignored(a, b)
    <3>1. Unhurried(r) BY <1>2, <2>1, SameTimer DEF Ignored, Unhurried
    <3>2. b # x /\ b # y BY <2>1 DEF Ignored, Tracked
    <3> QED BY <2>1, <3>1, <3>2, ConsumedCovered DEF Ignored
  <2>2. CASE RequestRefused(a, b)
    BY <2>2, RefusalCovers
  <2>3. CASE RequestArrives(a, b)
    BY <2>3, ArrivalCovers
  <2>4. CASE HeartbeatArrives(a, b)
    <3> DEFINE q == Subject(a, b)
    <3>1. /\ wire[a][b] # <<>> /\ Consume(a, b) /\ works' = works
          /\ wire[a][b][1].kind = "heartbeat" /\ wire[a][b][1].r = q
      BY <1>1, <2>4, ArrivalFacts DEF HeartbeatArrives
    <3>2. CASE q = r /\ a = y /\ b = x
      BY <2>4, <3>2, HeartbeatCovers
    <3>3. CASE ~(q = r /\ a = y /\ b = x)
      <4>1. requests'[r].timer >= requests[r].timer
        <5>1. CASE q = r
          <6>1. requests' = [requests EXCEPT ![r].timer = Timeout]
            BY <2>4, <5>1 DEF HeartbeatArrives, Tracked
          <6>2. requests'[r].timer = Timeout
            BY <1>2, <6>1, ExtendKeeps DEF Tracked
          <6> QED BY <1>1, <1>2, <6>2, Numbers, MeshRpcAssumption DEF Numerical, Timer
        <5>2. CASE q # r
          <6>1. requests'[r] = requests[r]
            BY <1>2, <2>4, <5>2, ExtendKeeps DEF HeartbeatArrives, Pending
          <6> QED BY <1>2, <6>1, SameTimer
        <5> QED BY <5>1, <5>2
      <4>2. Unhurried(r) BY <3>1, <4>1 DEF Unhurried
      <4>3. a = x /\ b = y => ~Asks(r, 1)
        BY <1>2, <3>1 DEF Asks, At3, From, To
      <4>4. a = y /\ b = x => ~At3(a, b, 1, Answers \cup {"heartbeat"}, r)
        BY <3>1, <3>3 DEF At3
      <4> QED BY <3>1, <4>2, <4>3, <4>4, ConsumedCovered
    <3> QED BY <3>2, <3>3
  <2>5. CASE AnswerArrives(a, b)
    <3> DEFINE q == Subject(a, b)
    <3>1. /\ wire[a][b] # <<>> /\ Consume(a, b) /\ works' = works
          /\ wire[a][b][1].kind \in Answers /\ wire[a][b][1].r = q
          /\ Head(wire[a][b]) = wire[a][b][1]
      BY <1>1, <2>5, ArrivalFacts DEF AnswerArrives, Answers
    <3>2. wire[a][b][1].kind \in Outcome
      BY <3>1 DEF Answers, Outcome
    <3>3. q # r
      <4> SUFFICES ASSUME q = r PROVE FALSE OBVIOUS
      <4>1. Settle(r, wire[a][b][1].kind)
        BY <2>5, <3>1 DEF AnswerArrives, Tracked
      <4>2. requests'[r].state = wire[a][b][1].kind
        BY <1>1, <1>2, <3>2, <4>1, SettleEffect DEF TypeOK
      <4> QED BY <1>2, <3>1, <4>2 DEF Answers
    <3>4. requests'[r] = requests[r]
      BY <1>1, <1>2, <2>5, <3>1, <3>2, <3>3, SettleEffect DEF AnswerArrives, TypeOK, Pending
    <3>5. Unhurried(r) BY <1>2, <3>1, <3>4, SameTimer DEF Unhurried
    <3>6. a = x /\ b = y => ~Asks(r, 1)
      BY <1>2, <3>1 DEF Asks, At3, From, To, Answers
    <3>7. a = y /\ b = x => ~At3(a, b, 1, Answers \cup {"heartbeat"}, r)
      BY <3>1, <3>3 DEF At3
    <3> QED BY <3>1, <3>5, <3>6, <3>7, ConsumedCovered
  <2>6. CASE BroadcastArrives(a, b)
    <3>1. /\ wire[a][b] # <<>> /\ Consume(a, b) /\ wire[a][b][1].kind = "broadcast"
      BY <1>1, <2>6, ArrivalFacts DEF BroadcastArrives
    <3>2. Unhurried(r) BY <1>2, <2>6, SameTimer DEF BroadcastArrives, Unhurried
    <3>3. a = x /\ b = y => ~Asks(r, 1)
      BY <1>2, <3>1 DEF Asks, At3, From, To
    <3>4. ~At3(a, b, 1, Answers \cup {"heartbeat"}, r)
      BY <3>1 DEF At3, Answers
    <3> QED BY <3>1, <3>2, <3>3, <3>4, ConsumedCovered
  <2> QED BY <1>10, <2>1, <2>2, <2>3, <2>4, <2>5, <2>6 DEF Delivery
<1>11. ASSUME NEW a \in Node, NEW b \in Node, DiesWithSender(a, b)
       PROVE  Covered(r)'
  <2>1. a # x /\ a # y BY <1>11 DEF DiesWithSender, Alive, Tracked
  <2>2. wire'[x][y] = wire[x][y] /\ wire'[y][x] = wire[y][x]
    BY <1>1, <1>11, <2>1, DropLastEffect DEF DiesWithSender
  <2>3. wire[x][y] \in Seq(Message) /\ wire[y][x] \in Seq(Message) BY <1>1 DEF WireType
  <2>4. Shift(x, y, 0) /\ Shift(y, x, 0) BY <2>2, <2>3 DEF Shift
  <2>5. Unhurried(r) BY <1>2, <1>11, SameTimer DEF DiesWithSender, Unhurried
  <2> QED BY <2>4, <2>5, StillCovered
<1>12. ASSUME NEW a \in Node, NEW b \in Node, Lose(a, b) \/ Resend(a, b) \/ PublishFails(a, b)
       PROVE  Covered(r)'
  BY <1>3, <1>12 DEF Lose, Resend, PublishFails
<1>13. ASSUME NEW q \in 1..MaxSent, TimesOut(q)
       PROVE  Covered(r)'
  <2>1. q \in DOMAIN requests /\ Settle(q, "timedOut") BY <1>13 DEF TimesOut, Pending
  <2>2. "timedOut" \in Outcome BY DEF Outcome
  <2>3. q # r BY <1>1, <1>2, <2>1, <2>2, SettleEffect DEF TypeOK
  <2>4. requests'[r] = requests[r] BY <1>1, <1>2, <2>1, <2>2, <2>3, SettleEffect DEF TypeOK
  <2>5. Unhurried(r) BY <1>2, <1>13, <2>4, SameTimer DEF TimesOut, Unhurried
  <2>6. Shift(x, y, 0) /\ Shift(y, x, 0) BY <1>1, <1>13, StillShifts DEF TimesOut
  <2> QED BY <2>5, <2>6, StillCovered
<1>14. ASSUME NEW w \in works, BeatFires(w) \/ HandlerEnds(w)
       PROVE  Covered(r)'
  BY <1>14, BeatCovers, EndCovers
<1> QED BY <1>5, <1>6, <1>7, <1>8, <1>9, <1>10, <1>11, <1>12, <1>13, <1>14 DEF Next

\* Only its timer times a request out.
LEMMA OnlyTimersTimeOut ==
    ASSUME WInv, [Next]_vars, NEW r \in DOMAIN requests, Pending(r),
           requests'[r].state = "timedOut"
    PROVE  requests[r].timer = 0
<1>1. TypeOK /\ requests \in Seq(Request) BY DEF WInv, TypeOK
<1>2. requests[r].state = "pending" /\ requests'[r] # requests[r]
  BY DEF Pending
<1>3. ASSUME NEW q \in DOMAIN requests, NEW outcome \in Outcome, Settle(q, outcome)
      PROVE  q = r /\ outcome = "timedOut"
  <2>1. q = r BY <1>1, <1>2, <1>3, SettleEffect
  <2>2. requests'[r].state = outcome BY <1>1, <1>3, <2>1, SettleEffect
  <2> QED BY <2>1, <2>2
<1>4. ASSUME NEW n \in Node, NEW outcome \in Outcome, requests' = Abandoned(n, outcome)
      PROVE  outcome = "timedOut"
  <2>1. Pending(r) /\ requests[r].from = n
    BY <1>1, <1>2, <1>4, AbandonedEffect
  <2>2. requests'[r].state = outcome
    BY <1>1, <1>4, <2>1, AbandonedEffect
  <2> QED BY <2>2
<1>5. ~Tick
  BY <1>1, <1>2, TickEffect
<1>6. ~\E n \in Node : NodeEvent(n)
  <2> SUFFICES ASSUME NEW n \in Node, NodeEvent(n) PROVE FALSE OBVIOUS
  <2>1. ~(Broadcast(n) \/ Joins(n) \/ Leaves(n))
    BY <1>2 DEF Broadcast, Joins, Leaves
  <2>2. ~Left(n) BY <1>4 DEF Left, Outcome
  <2>3. ~Crash(n) BY <1>4 DEF Crash, Outcome
  <2> QED BY <2>1, <2>2, <2>3 DEF NodeEvent
<1>7. ~\E a, b \in Node : Invoke(a, b)
  BY <1>2, InvokeEffect
<1>8. ~\E a, b \in Node : Delivery(a, b)
  <2> SUFFICES ASSUME NEW a \in Node, NEW b \in Node, Delivery(a, b) PROVE FALSE OBVIOUS
  <2>1. ~(Ignored(a, b) \/ RequestRefused(a, b) \/ RequestArrives(a, b) \/ BroadcastArrives(a, b))
    BY <1>2 DEF Ignored, RequestRefused, RequestArrives, BroadcastArrives
  <2>2. ~HeartbeatArrives(a, b)
    BY <1>2, ExtendKeeps DEF HeartbeatArrives, Pending
  <2>3. ~AnswerArrives(a, b)
    <3> SUFFICES ASSUME AnswerArrives(a, b) PROVE FALSE OBVIOUS
    <3>1. Head(wire[a][b]).kind \in Outcome /\ Head(wire[a][b]).kind # "timedOut"
      BY DEF AnswerArrives, Arrives, Outcome
    <3> QED BY <1>2, <1>3, <3>1 DEF AnswerArrives, Pending
  <2> QED BY <2>1, <2>2, <2>3 DEF Delivery
<1>9. ~\E a, b \in Node :
         DiesWithSender(a, b) \/ Lose(a, b) \/ Resend(a, b) \/ PublishFails(a, b)
  <2> SUFFICES ASSUME NEW a \in Node, NEW b \in Node,
                      DiesWithSender(a, b) \/ Lose(a, b) \/ Resend(a, b) \/ PublishFails(a, b)
               PROVE  FALSE
    OBVIOUS
  <2>1. PublishFails(a, b)
    BY <1>2 DEF DiesWithSender, Lose, Resend
  <2>2. PICK last : /\ requests' = requests \/ Settle(last.r, "unpublished")
                    /\ requests' # requests => Pending(last.r)
    BY <2>1 DEF PublishFails
  <2> QED BY <1>2, <1>3, <2>2 DEF Pending, Outcome
<1>10. ~(Stall \/ UNCHANGED vars \/ \E w \in works : BeatFires(w) \/ HandlerEnds(w))
  BY <1>2 DEF Stall, vars, BeatFires, HandlerEnds
<1>11. PICK q \in 1..MaxSent : TimesOut(q)
  BY <1>5, <1>6, <1>7, <1>8, <1>9, <1>10 DEF Next
<1> QED BY <1>3, <1>11 DEF TimesOut, Pending, Outcome

LEMMA InTimeStep ==
    ASSUME TimelyAssumption, WInv, WInv', [Next]_vars, InTime
    PROVE  InTime'
<1> SUFFICES ASSUME faults' = 0
             PROVE  /\ timely'
                    /\ \A r \in DOMAIN requests' : Between(r)' =>
                          requests'[r].state # "timedOut" /\ (Pending(r)' => Covered(r)')
  BY DEF InTime
<1>1. TypeOK /\ Started BY DEF WInv
<1>2. /\ faults = 0 /\ timely
      /\ \A r \in DOMAIN requests : Between(r) =>
            requests[r].state # "timedOut" /\ (Pending(r) => Covered(r))
  BY <1>1, LifeStep DEF OthersTyped, InTime
<1>3. timely'
  BY <1>1, <1>2, LifeStep DEF OthersTyped
<1>4. ASSUME NEW r \in DOMAIN requests, r \in DOMAIN requests', SameRequest(r), Between(r)'
      PROVE  requests'[r].state # "timedOut" /\ (Pending(r)' => Covered(r)')
  <2>1. PICK x \in Node, y \in Node : Addressed(r, x, y)
    BY <1>1, Numbers DEF Numerical, Addressed
  <2>2. Addressed(r, x, y)' /\ x # y /\ life[x] # "joining"
    BY <1>1, <1>4, <2>1 DEF SameRequest, Addressed, From, To, Started
  <2>3. life'[x] = "on" /\ life'[y] = "on" /\ ~requests[r].early
    BY <1>4, <2>2 DEF Between, SameRequest, Addressed, From, To
  <2>4. life[x] = "on" /\ life[y] = "on"
    <3>1. life[y] # "joining"
      BY <1>1, <2>1, <2>3 DEF Started, Addressed
    <3> QED BY <1>1, <2>2, <2>3, <3>1, LifeStep DEF LifeKept
  <2>5. Between(r)
    BY <2>1, <2>3, <2>4 DEF Between, Addressed
  <2>6. CASE Pending(r)
    <3>1. Covered(r)
      BY <1>2, <2>5, <2>6
    <3>2. requests'[r].state # "timedOut"
      <4>1. Timer(r) > 0 BY <3>1, CoveredTimer
      <4> QED BY <2>6, <4>1, OnlyTimersTimeOut DEF Timer
    <3>3. ASSUME Pending(r)'
          PROVE  Covered(r)'
      <4>1. Tracked(r, x, y)
        BY <2>1, <2>2, <2>3, <2>4, <2>6, <3>1, <3>3 DEF Tracked
      <4> QED BY <1>2, <4>1, CoverStep
    <3> QED BY <3>2, <3>3
  <2>7. CASE ~Pending(r)
    <3>1. requests'[r] = requests[r] /\ requests[r].state # "timedOut"
      BY <1>2, <1>4, <2>5, <2>7 DEF SameRequest
    <3>2. ~Pending(r)'
      BY <2>7, <3>1 DEF Pending
    <3> QED BY <3>1, <3>2
  <2> QED BY <2>6, <2>7
<1>5. CASE RequestsKept
  BY <1>3, <1>4, <1>5 DEF RequestsKept
<1>6. ASSUME NEW a \in Node, NEW b \in Node, Invoke(a, b), NEW r \in DOMAIN requests', Between(r)'
      PROVE  requests'[r].state # "timedOut" /\ (Pending(r)' => Covered(r)')
  <2>1. PICK new : new = Len(requests) + 1 OBVIOUS
  <2>2. /\ DOMAIN requests' = DOMAIN requests \cup {new}
        /\ requests'[new].state = "pending" /\ \A q \in DOMAIN requests : SameRequest(q)
    BY <1>6, <2>1, InvokeEffect
  <2>3. CASE r = new
    BY <1>6, <2>1, <2>2, <2>3, InvokeCovers
  <2>4. CASE r \in DOMAIN requests
    BY <1>4, <1>6, <2>2, <2>4
  <2> QED BY <2>2, <2>3, <2>4
<1> QED BY <1>3, <1>5, <1>6, StepKeeps

\* With an interval of heartbeats that leaves room for two delays within the timeout, and as long
\* as nothing fails, no request to a running node times out while its caller runs too: however
\* long the handler takes, and however many requests there are.
THEOREM HeartbeatsInTime ==
    ASSUME TimelyAssumption
    PROVE  Spec => []HandledInTime
<1>1. Init => InTime
  BY DEF Init, InTime
<1>2. WInv /\ WInv' /\ InTime /\ [Next]_vars => InTime'
  BY InTimeStep
<1>3. WInv /\ InTime => HandledInTime
  BY DEF InTime, Between, HandledInTime, From, To
<1> QED BY <1>1, <1>2, <1>3, Watching, PTL DEF Spec
=============================================================================
