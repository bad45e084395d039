------------------------- MODULE ByteStreamProofs --------------------------
(***************************************************************************)
(* Proofs about ByteStream, for any senders, chunks and connections: what  *)
(* waits for a receiver is bounded, whoever is left is told, and every     *)
(* stream is a channel for its applications.                               *)
(***************************************************************************)
EXTENDS ByteStream, FiniteSetTheorems, TLAPS

SenderType ==
    [id : Key, session : Session, wrote : 0..MaxChunks, busy : BOOLEAN, state : {"open", "ended", "broken"}]

ReceiverType ==
    [state : {"none", "open", "ended", "broken"}, told : BOOLEAN, buffer : Seq(Chunk), got : Seq(Chunk),
     eof : BOOLEAN, attached : {0} \cup Session, clean : BOOLEAN, aborted : BOOLEAN]

EntryType ==
    [chunks : Seq(Chunk), finished : BOOLEAN, dead : BOOLEAN, timer : BOOLEAN, since : {0} \cup Session]

-----------------------------------------------------------------------------
(* Senders: the number is of one sender of the connection. *)

Present(k) == k \in DOMAIN sender /\ sender[k].session = session

Rivals(j, k) == sender[j].id = sender[k].id /\ Home(j) = Home(k)

Senders ==
    /\ Len(sender) <= MaxSenders
    /\ \A k \in DOMAIN sender :
          /\ sender[k].session <= session
          /\ sender[k].state = "open" => connected /\ sender[k].session = session
          /\ way = "up" => sender[k].id = k
          /\ sender[k].session = session => sender[k].id < NextId
    /\ \A j, k \in DOMAIN sender :
          sender[j].session = sender[k].session /\ sender[j].id = sender[k].id => j = k

-----------------------------------------------------------------------------
(* Receivers: no two of a number are open, and one that has nothing of a former connection in it *)
(* stays alone.                                                                                  *)

Past(j) == receiver[j].state = "none" \/ receiver[j].attached \in 1..(session - 1)

Alone(k) == connected /\ sender[k].session = session /\ \A j \in DOMAIN sender \ {k} : Rivals(j, k) => Past(j)

Receives(k) ==
    LET r == receiver[k] IN
    /\ k \notin DOMAIN sender => r = NoReceiver
    /\ r.state = "none" => ~r.clean /\ ~r.aborted /\ r.got = <<>>
    /\ r.attached <= session
    /\ r.state = "open" => r.attached = 0 \/ (connected /\ r.attached = session)
    /\ r.state = "open" /\ r.clean => Alone(k) /\ r.attached = session
    /\ r.aborted => r.state = "broken"

OneOpen ==
    \A j, k \in DOMAIN sender :
        receiver[j].state = "open" /\ receiver[k].state = "open" /\ Rivals(j, k) => j = k

-----------------------------------------------------------------------------
(* What waits for a receiver. *)

Kept(s, id) ==
    LET e == pending[s][id] IN
    /\ Len(e.chunks) <= MaxPending
    /\ e.chunks # <<>> => e.timer
    /\ e.dead => e.chunks = <<>>
    /\ e.since = 0 => e = NoEntry
    /\ e.since <= session
    /\ e.since = session => \E k \in DOMAIN sender : Present(k) /\ sender[k].id = id /\ s = Home(k)

-----------------------------------------------------------------------------
(* What is on its way. *)

OnWire ==
    \A i \in DOMAIN wire : LET f == wire[i] IN
        /\ connected /\ Present(f.from)
        /\ f.op = "finish" => sender[f.from].state = "ended"
        /\ f.op = "destroy" => sender[f.from].state = "broken"

OnWayBack ==
    \A i \in DOMAIN back : connected /\
        \E j \in DOMAIN sender : sender[j].id = back[i] /\ Home(j) = Here /\ receiver[j].state = "broken" /\ ~Past(j)

Item(k, n) == [op |-> "write", from |-> k, n |-> n]

\* The first d chunks of sender k have come, the others come in order, and then the end, if at all.
Came(k, d) ==
    /\ \A i \in DOMAIN wire : wire[i].from = k /\ wire[i].op = "write" => wire[i].n \in (d + 1)..sender[k].wrote
    /\ \A n \in (d + 1)..sender[k].wrote : \E i \in DOMAIN wire : wire[i] = Item(k, n)
    /\ \A i, j \in DOMAIN wire : i < j /\ wire[i].from = k /\ wire[j].from = k =>
          wire[i].op = "write" /\ (wire[j].op = "write" => wire[i].n < wire[j].n)

Chunks(q, k, from) == \A i \in DOMAIN q : q[i] = <<k, from + i>>

Complete(k, d) == sender[k].state = "ended" /\ d = sender[k].wrote

TheirEntry(k) == pending[Home(k)][sender[k].id]

\* The receiver to come will get what has come, and nothing of a former connection.
Expected(k) == Alone(k) /\ receiver[k].state = "none" /\ TheirEntry(k).since \in {0, session}

Awaits(k, d) ==
    LET e == TheirEntry(k) IN
    \/ e.dead
    \/ /\ Chunks(e.chunks, k, 0) /\ Len(e.chunks) = d
       /\ e.finished => Complete(k, d)

Reads(k, d) ==
    LET r == receiver[k] IN
    /\ Chunks(r.got, k, 0) /\ Chunks(r.buffer, k, Len(r.got)) /\ Len(r.got) + Len(r.buffer) = d
    /\ r.eof => Complete(k, d)

EndComes(k) == \E i \in DOMAIN wire : wire[i].from = k /\ wire[i].op # "write"

Flows(k) ==
    \E d \in 0..sender[k].wrote :
        /\ Came(k, d)
        /\ Expected(k) => Awaits(k, d)
        /\ receiver[k].state = "open" /\ receiver[k].clean => Reads(k, d)

Told(k) ==
    sender[k].state # "open" =>
        /\ Expected(k) => TheirEntry(k).dead \/ TheirEntry(k).finished \/ EndComes(k)
        /\ receiver[k].state = "open" /\ receiver[k].clean => receiver[k].eof \/ EndComes(k)

Stopped(k) == receiver[k].aborted /\ sender[k].state = "open" => \E i \in DOMAIN back : back[i] = sender[k].id

IInv ==
    /\ TypeOK /\ Senders
    /\ \A k \in Key : Receives(k)
    /\ OneOpen
    /\ \A s \in Session, id \in Key : Kept(s, id)
    /\ OnWire /\ OnWayBack
    /\ \A k \in DOMAIN sender :
          /\ Present(k) /\ connected => Flows(k) /\ Told(k)
          /\ Stopped(k)

-----------------------------------------------------------------------------
(* Types. *)

LEMMA TypesAre ==
    TypeOK <=>
        /\ way \in Ways /\ session \in Session /\ connected \in BOOLEAN
        /\ sender \in Seq(SenderType) /\ receiver \in [Key -> ReceiverType]
        /\ pending \in [Session -> [Key -> EntryType]] /\ wire \in Seq(Frame) /\ back \in Seq(Key)
BY DEF TypeOK, SenderType, ReceiverType, EntryType

LEMMA TypesThen ==
    ASSUME way' \in Ways, session' \in Session, connected' \in BOOLEAN,
           sender' \in Seq(SenderType), receiver' \in [Key -> ReceiverType],
           pending' \in [Session -> [Key -> EntryType]], wire' \in Seq(Frame), back' \in Seq(Key)
    PROVE  TypeOK'
BY DEF TypeOK, SenderType, ReceiverType, EntryType

LEMMA Bounds == /\ MaxPending \in Nat /\ MaxSenders \in Nat /\ MaxChunks \in Nat /\ MaxSessions \in Nat \ {0}
                /\ \A s \in Session : s \in Nat /\ s # 0 /\ s <= MaxSessions
                /\ \A k \in Key : k \in Nat /\ k # 0 /\ k <= MaxSenders
BY ByteStreamAssumption DEF Session, Key

LEMMA WayIs == TypeOK => way \in {"up", "down"}
BY ByteStreamAssumption, TypesAre

LEMMA SenderIs ==
    ASSUME TypeOK, Senders, NEW k \in DOMAIN sender
    PROVE  /\ sender[k] \in SenderType /\ k \in Key /\ k \in Nat
           /\ sender[k].id \in Key /\ sender[k].session \in Session /\ sender[k].wrote \in 0..MaxChunks
           /\ sender[k].busy \in BOOLEAN /\ sender[k].state \in {"open", "ended", "broken"}
<1>1. sender \in Seq(SenderType) /\ Len(sender) <= MaxSenders
  BY TypesAre DEF Senders
<1>2. sender[k] \in SenderType /\ k \in 1..Len(sender)
  BY <1>1
<1>3. k \in Key /\ k \in Nat
  BY <1>1, <1>2, Bounds DEF Key
<1> QED
  BY <1>2, <1>3 DEF SenderType

LEMMA ReceiverIs ==
    ASSUME TypeOK, NEW k \in Key
    PROVE  /\ receiver[k] \in ReceiverType
           /\ receiver[k].state \in {"none", "open", "ended", "broken"} /\ receiver[k].told \in BOOLEAN
           /\ receiver[k].buffer \in Seq(Chunk) /\ receiver[k].got \in Seq(Chunk) /\ receiver[k].eof \in BOOLEAN
           /\ receiver[k].attached \in {0} \cup Session /\ receiver[k].attached \in Nat
           /\ receiver[k].clean \in BOOLEAN /\ receiver[k].aborted \in BOOLEAN
<1>1. receiver[k] \in ReceiverType
  BY TypesAre
<1> QED
  BY <1>1, Bounds DEF ReceiverType

LEMMA EntryIs ==
    ASSUME TypeOK, NEW s \in Session, NEW id \in Key
    PROVE  /\ pending[s][id] \in EntryType /\ pending[s] \in [Key -> EntryType]
           /\ pending[s][id].chunks \in Seq(Chunk) /\ pending[s][id].finished \in BOOLEAN
           /\ pending[s][id].dead \in BOOLEAN /\ pending[s][id].timer \in BOOLEAN
           /\ pending[s][id].since \in {0} \cup Session /\ pending[s][id].since \in Nat
<1>1. pending[s][id] \in EntryType /\ pending[s] \in [Key -> EntryType]
  BY TypesAre
<1> QED
  BY <1>1, Bounds DEF EntryType

LEMMA FrameIs ==
    ASSUME TypeOK, NEW i \in DOMAIN wire
    PROVE  /\ wire[i] \in Frame /\ wire[i].op \in {"write", "finish", "destroy"} /\ wire[i].from \in Key
           /\ wire[i].n \in 0..MaxChunks /\ i \in Nat /\ i # 0
<1>1. wire \in Seq(Frame)
  BY TypesAre
<1>2. wire[i] \in Frame /\ i \in 1..Len(wire)
  BY <1>1
<1> QED
  BY <1>1, <1>2 DEF Frame

LEMMA HomeIs ==
    ASSUME TypeOK, Senders, NEW k \in DOMAIN sender
    PROVE  /\ Home(k) \in Session
           /\ sender[k].session = session => Home(k) = Here
           /\ way = "up" => Home(k) = sender[k].session /\ sender[k].id = k
<1>1. sender[k].session \in Session
  BY SenderIs
<1>2. 1 \in Session
  BY Bounds DEF Session
<1> QED
  BY <1>1, <1>2 DEF Home, Here, Senders

LEMMA HereIs == ASSUME TypeOK PROVE Here \in Session
<1>1. 1 \in Session /\ session \in Session
  BY Bounds, TypesAre DEF Session
<1> QED
  BY <1>1 DEF Here

-----------------------------------------------------------------------------
(* Numbers. *)

Currents == {k \in DOMAIN sender : sender[k].session = session}

LEMMA NextIs ==
    ASSUME TypeOK, Senders
    PROVE  /\ IsFiniteSet(Currents) /\ Cardinality(Currents) \in Nat /\ Cardinality(Currents) <= Len(sender)
           /\ NextId = (IF way = "up" THEN Len(sender) + 1 ELSE Cardinality(Currents) + 1)
           /\ Len(sender) \in Nat /\ NextId \in Nat /\ NextId # 0 /\ NextId <= Len(sender) + 1
<1>1. Len(sender) \in Nat /\ DOMAIN sender = 1..Len(sender)
  BY TypesAre
<1>2. IsFiniteSet(DOMAIN sender) /\ Cardinality(DOMAIN sender) = Len(sender)
  <2>1. PICK n \in Nat : n = Len(sender)
    BY <1>1
  <2>2. IsFiniteSet(1..n) /\ Cardinality(1..n) = (IF 1 > n THEN 0 ELSE n - 1 + 1)
    BY FS_Interval
  <2> QED
    BY <1>1, <2>1, <2>2
<1>3. IsFiniteSet(Currents) /\ Cardinality(Currents) <= Cardinality(DOMAIN sender)
  BY <1>2, FS_Subset DEF Currents
<1>4. Cardinality(Currents) \in Nat
  BY <1>3, FS_CardinalityType
<1>5. NextId = (IF way = "up" THEN Len(sender) + 1 ELSE Cardinality(Currents) + 1)
  BY DEF NextId, Currents
<1> QED
  BY <1>1, <1>2, <1>3, <1>4, <1>5

-----------------------------------------------------------------------------
(* Queues. *)

LEMMA ItemIs ==
    ASSUME NEW k, NEW n
    PROVE  Item(k, n).op = "write" /\ Item(k, n).from = k /\ Item(k, n).n = n
BY DEF Item

LEMMA AppendIs ==
    ASSUME NEW S, NEW q \in Seq(S), NEW f \in S, NEW q1, q1 = Append(q, f)
    PROVE  /\ q1 \in Seq(S) /\ DOMAIN q = 1..Len(q) /\ DOMAIN q1 = 1..(Len(q) + 1) /\ Len(q) \in Nat
           /\ \A i \in DOMAIN q : i \in DOMAIN q1 /\ q1[i] = q[i] /\ i < Len(q) + 1
           /\ Len(q) + 1 \in DOMAIN q1 /\ q1[Len(q) + 1] = f /\ Len(q1) = Len(q) + 1
           /\ \A i \in DOMAIN q1 : \/ i \in DOMAIN q /\ q1[i] = q[i]
                                   \/ i = Len(q) + 1 /\ q1[i] = f
OBVIOUS

LEMMA TailIs ==
    ASSUME NEW S, NEW q \in Seq(S), q # <<>>, NEW q1, q1 = Tail(q)
    PROVE  /\ q1 \in Seq(S) /\ Head(q) = q[1] /\ 1 \in DOMAIN q /\ q[1] \in S
           /\ Len(q1) \in Nat /\ Len(q) \in Nat /\ Len(q1) + 1 = Len(q)
           /\ \A i \in DOMAIN q1 : i \in Nat /\ i # 0 /\ i + 1 \in DOMAIN q /\ q1[i] = q[i + 1]
           /\ \A i \in DOMAIN q : i = 1 \/ (i \in Nat /\ i > 1 /\ i - 1 \in DOMAIN q1 /\ q1[i - 1] = q[i])
OBVIOUS

LEMMA ByIndex ==
    ASSUME NEW S, NEW n \in Nat, NEW f \in [1..n -> S]
    PROVE  f \in Seq(S) /\ Len(f) = n
OBVIOUS

\* What is written at the end of the wire and read at its head.
Posts(f) == f \in Frame /\ wire' = Append(wire, f)
Reaches  == wire # <<>> /\ wire' = Tail(wire)

LEMMA PostsIs ==
    ASSUME TypeOK, NEW f, Posts(f)
    PROVE  /\ wire' \in Seq(Frame) /\ Len(wire) \in Nat
           /\ \A i \in DOMAIN wire : i \in DOMAIN wire' /\ wire'[i] = wire[i] /\ i < Len(wire) + 1 /\ i \in Nat
           /\ Len(wire) + 1 \in DOMAIN wire' /\ wire'[Len(wire) + 1] = f
           /\ \A i \in DOMAIN wire' : \/ i \in DOMAIN wire /\ wire'[i] = wire[i]
                                      \/ i = Len(wire) + 1 /\ wire'[i] = f
<1>1. wire \in Seq(Frame)
  BY TypesAre
<1>2. \A i \in DOMAIN wire : i \in Nat
  BY <1>1
<1> QED
  BY <1>1, <1>2, AppendIs DEF Posts

LEMMA ReachesIs ==
    ASSUME TypeOK, Reaches
    PROVE  /\ wire' \in Seq(Frame) /\ Head(wire) = wire[1] /\ 1 \in DOMAIN wire /\ wire[1] \in Frame
           /\ \A i \in DOMAIN wire' : i \in Nat /\ i # 0 /\ i + 1 \in DOMAIN wire /\ wire'[i] = wire[i + 1]
           /\ \A i \in DOMAIN wire : i = 1 \/ (i \in Nat /\ i > 1 /\ i - 1 \in DOMAIN wire' /\ wire'[i - 1] = wire[i])
<1>1. wire \in Seq(Frame)
  BY TypesAre
<1>2. PICK q : q = Tail(wire)
  OBVIOUS
<1>3. wire # <<>> /\ wire' = q
  BY <1>2 DEF Reaches
<1>4. /\ q \in Seq(Frame) /\ Head(wire) = wire[1] /\ 1 \in DOMAIN wire /\ wire[1] \in Frame
      /\ \A i \in DOMAIN q : i \in Nat /\ i # 0 /\ i + 1 \in DOMAIN wire /\ q[i] = wire[i + 1]
      /\ \A i \in DOMAIN wire : i = 1 \/ (i \in Nat /\ i > 1 /\ i - 1 \in DOMAIN q /\ q[i - 1] = wire[i])
  BY <1>1, <1>2, <1>3, TailIs
<1> QED
  BY <1>3, <1>4

LEMMA CameAfterPost ==
    ASSUME TypeOK, NEW f, Posts(f), NEW k, f.from # k, NEW d, Came(k, d), sender'[k].wrote = sender[k].wrote
    PROVE  Came(k, d)'
<1>1. \A i \in DOMAIN wire' : wire'[i].from = k => i \in DOMAIN wire /\ wire'[i] = wire[i]
  BY PostsIs
<1>2. \A i \in DOMAIN wire' : wire'[i].from = k /\ wire'[i].op = "write" => wire'[i].n \in (d + 1)..sender'[k].wrote
  BY <1>1 DEF Came
<1>3. \A n \in (d + 1)..sender'[k].wrote : \E i \in DOMAIN wire' : wire'[i] = Item(k, n)
  BY PostsIs DEF Came
<1>4. \A i, j \in DOMAIN wire' : i < j /\ wire'[i].from = k /\ wire'[j].from = k =>
          wire'[i].op = "write" /\ (wire'[j].op = "write" => wire'[i].n < wire'[j].n)
  BY <1>1 DEF Came
<1> QED
  BY <1>2, <1>3, <1>4 DEF Came

LEMMA CameAfterRead ==
    ASSUME TypeOK, Reaches, NEW k, wire[1].from # k, NEW d, Came(k, d), sender'[k].wrote = sender[k].wrote
    PROVE  Came(k, d)'
<1>2. \A i \in DOMAIN wire' : wire'[i].from = k /\ wire'[i].op = "write" => wire'[i].n \in (d + 1)..sender'[k].wrote
  BY ReachesIs DEF Came
<1>3. ASSUME NEW n \in (d + 1)..sender'[k].wrote
      PROVE  \E i \in DOMAIN wire' : wire'[i] = Item(k, n)
  <2>1. PICK f : f = Item(k, n) /\ f.from = k
    BY ItemIs
  <2>2. PICK i \in DOMAIN wire : wire[i] = f
    BY <2>1 DEF Came
  <2>3. i # 1
    BY <2>1, <2>2
  <2> QED
    BY <2>1, <2>2, <2>3, ReachesIs
<1>4. ASSUME NEW i \in DOMAIN wire', NEW j \in DOMAIN wire', i < j, wire'[i].from = k, wire'[j].from = k
      PROVE  wire'[i].op = "write" /\ (wire'[j].op = "write" => wire'[i].n < wire'[j].n)
  <2>1. /\ i \in Nat /\ i + 1 \in DOMAIN wire /\ wire'[i] = wire[i + 1]
        /\ j \in Nat /\ j + 1 \in DOMAIN wire /\ wire'[j] = wire[j + 1]
    BY ReachesIs
  <2>2. i + 1 < j + 1
    BY <1>4, <2>1
  <2> QED
    BY <1>4, <2>1, <2>2 DEF Came
<1> QED
  BY <1>2, <1>3, <1>4 DEF Came

\* The sender writes: none of its frames on the way is the last.
LEMMA CameAfterWrite ==
    ASSUME TypeOK, NEW k, NEW f, Posts(f), f.from = k, f.op = "write", f.n = sender[k].wrote + 1,
           f = Item(k, sender[k].wrote + 1),
           sender'[k].wrote = sender[k].wrote + 1, sender[k].wrote \in Nat, ~EndComes(k),
           NEW d \in 0..sender[k].wrote, Came(k, d)
    PROVE  Came(k, d)'
<1>1. PICK w \in Nat : w = sender[k].wrote
  OBVIOUS
<1>2. \A i \in DOMAIN wire' : wire'[i].from = k =>
          \/ i \in DOMAIN wire /\ wire'[i] = wire[i] /\ wire[i].op = "write" /\ wire[i].n \in (d + 1)..w
          \/ i = Len(wire) + 1 /\ wire'[i] = f
  BY <1>1, PostsIs DEF EndComes, Came
<1>3. \A i \in DOMAIN wire' : wire'[i].from = k /\ wire'[i].op = "write" => wire'[i].n \in (d + 1)..sender'[k].wrote
  BY <1>1, <1>2
<1>4. ASSUME NEW n \in (d + 1)..sender'[k].wrote
      PROVE  \E i \in DOMAIN wire' : wire'[i] = Item(k, n)
  <2>1. CASE n = w + 1
    BY <1>1, <2>1, PostsIs
  <2>2. CASE n # w + 1
    <3>1. n \in (d + 1)..w
      BY <1>1, <2>2
    <3> QED
      BY <1>1, <3>1, PostsIs DEF Came
  <2> QED
    BY <2>1, <2>2
<1>5. ASSUME NEW i \in DOMAIN wire', NEW j \in DOMAIN wire', i < j, wire'[i].from = k, wire'[j].from = k
      PROVE  wire'[i].op = "write" /\ (wire'[j].op = "write" => wire'[i].n < wire'[j].n)
  <2>1. i \in DOMAIN wire /\ wire'[i] = wire[i] /\ wire[i].op = "write" /\ wire[i].n \in (d + 1)..w
    <3>1. i # Len(wire) + 1
      BY <1>5, PostsIs
    <3> QED
      BY <1>2, <1>5, <3>1
  <2>2. CASE j \in DOMAIN wire /\ wire'[j] = wire[j]
    BY <1>5, <2>1, <2>2 DEF Came
  <2>3. CASE wire'[j] = f
    BY <1>1, <2>1, <2>3
  <2> QED
    BY <1>2, <1>5, <2>1, <2>2, <2>3
<1> QED
  BY <1>3, <1>4, <1>5 DEF Came

\* It ends: what it wrote comes before.
LEMMA CameAfterEnd ==
    ASSUME TypeOK, NEW k, NEW f, Posts(f), f.from = k, f.op # "write", ~EndComes(k),
           sender'[k].wrote = sender[k].wrote, NEW d, Came(k, d)
    PROVE  Came(k, d)'
<1>1. \A i \in DOMAIN wire' : wire'[i].from = k =>
          \/ i \in DOMAIN wire /\ wire'[i] = wire[i] /\ wire[i].op = "write"
          \/ i = Len(wire) + 1 /\ wire'[i] = f
  BY PostsIs DEF EndComes
<1>2. \A i \in DOMAIN wire' : wire'[i].from = k /\ wire'[i].op = "write" => wire'[i].n \in (d + 1)..sender'[k].wrote
  BY <1>1 DEF Came
<1>3. \A n \in (d + 1)..sender'[k].wrote : \E i \in DOMAIN wire' : wire'[i] = Item(k, n)
  BY PostsIs DEF Came
<1>4. ASSUME NEW i \in DOMAIN wire', NEW j \in DOMAIN wire', i < j, wire'[i].from = k, wire'[j].from = k
      PROVE  wire'[i].op = "write" /\ (wire'[j].op = "write" => wire'[i].n < wire'[j].n)
  <2>1. i \in DOMAIN wire /\ wire'[i] = wire[i] /\ wire[i].op = "write"
    <3>1. i # Len(wire) + 1
      BY <1>4, PostsIs
    <3> QED
      BY <1>1, <1>4, <3>1
  <2>2. CASE j \in DOMAIN wire /\ wire'[j] = wire[j]
    BY <1>4, <2>1, <2>2 DEF Came
  <2> QED
    BY <1>1, <1>4, <2>1, <2>2
<1> QED
  BY <1>2, <1>3, <1>4 DEF Came

\* The next chunk comes: it is the next one.
LEMMA NextComes ==
    ASSUME TypeOK, Reaches, NEW k, wire[1].from = k, wire[1].op = "write", sender[k].wrote \in Nat,
           NEW d \in 0..sender[k].wrote, Came(k, d), sender'[k].wrote = sender[k].wrote
    PROVE  wire[1].n = d + 1 /\ d + 1 \in 0..sender[k].wrote /\ Came(k, d + 1)'
<1>1. PICK w \in Nat : w = sender[k].wrote
  OBVIOUS
<1>2. PICK m : m = wire[1].n
  OBVIOUS
<1>3. m \in (d + 1)..w /\ d \in Nat
  BY <1>1, <1>2, ReachesIs DEF Came
<1>4. m = d + 1
  <2>1. SUFFICES ASSUME m # d + 1 PROVE FALSE
    OBVIOUS
  <2>2. d + 1 \in (d + 1)..w
    BY <1>3
  <2>3. PICK f : f = Item(k, d + 1) /\ f.n = d + 1 /\ f.op = "write" /\ f.from = k
    BY ItemIs
  <2>4. PICK i \in DOMAIN wire : wire[i] = f
    BY <1>1, <2>2, <2>3 DEF Came
  <2>5. i # 1
    BY <1>2, <2>1, <2>3, <2>4
  <2>6. 1 < i /\ 1 \in DOMAIN wire
    BY <2>5, ReachesIs
  <2>7. m < d + 1
    BY <1>2, <2>3, <2>4, <2>6 DEF Came
  <2> QED
    BY <1>3, <2>7
<1>5. \A i \in DOMAIN wire' : wire'[i].from = k /\ wire'[i].op = "write" => wire'[i].n \in (d + 2)..w
  <2>1. SUFFICES ASSUME NEW i \in DOMAIN wire', wire'[i].from = k, wire'[i].op = "write"
                 PROVE  wire'[i].n \in (d + 2)..w
    OBVIOUS
  <2>2. i \in Nat /\ i # 0 /\ i + 1 \in DOMAIN wire /\ wire'[i] = wire[i + 1] /\ 1 \in DOMAIN wire
    BY ReachesIs
  <2>3. 1 < i + 1
    BY <2>2
  <2>4. wire[i + 1].n \in (d + 1)..w /\ m < wire[i + 1].n
    BY <1>1, <1>2, <2>1, <2>2, <2>3 DEF Came
  <2> QED
    BY <1>3, <1>4, <2>2, <2>4
<1>6. ASSUME NEW n \in (d + 2)..w
      PROVE  \E i \in DOMAIN wire' : wire'[i] = Item(k, n)
  <2>1. PICK f : f = Item(k, n) /\ f.n = n
    BY ItemIs
  <2>2. n \in (d + 1)..w /\ n # d + 1
    BY <1>3
  <2>3. PICK i \in DOMAIN wire : wire[i] = f
    BY <1>1, <2>1, <2>2 DEF Came
  <2>4. i # 1
    BY <1>2, <1>4, <2>1, <2>2, <2>3
  <2> QED
    BY <2>1, <2>3, <2>4, ReachesIs
<1>7. ASSUME NEW i \in DOMAIN wire', NEW j \in DOMAIN wire', i < j, wire'[i].from = k, wire'[j].from = k
      PROVE  wire'[i].op = "write" /\ (wire'[j].op = "write" => wire'[i].n < wire'[j].n)
  <2>1. /\ i \in Nat /\ i + 1 \in DOMAIN wire /\ wire'[i] = wire[i + 1]
        /\ j \in Nat /\ j + 1 \in DOMAIN wire /\ wire'[j] = wire[j + 1]
    BY ReachesIs
  <2>2. i + 1 < j + 1
    BY <1>7, <2>1
  <2> QED
    BY <1>7, <2>1, <2>2 DEF Came
<1>8. d + 1 + 1 = d + 2
  BY <1>3
<1>9. Came(k, d + 1)'
  BY <1>1, <1>5, <1>6, <1>7, <1>8 DEF Came
<1> QED
  BY <1>1, <1>2, <1>3, <1>4, <1>9

\* The end comes: it is the last.
LEMMA LastComes ==
    ASSUME TypeOK, Reaches, NEW k, wire[1].from = k, wire[1].op # "write", sender[k].wrote \in Nat,
           NEW d \in 0..sender[k].wrote, Came(k, d), sender'[k].wrote = sender[k].wrote
    PROVE  d = sender[k].wrote /\ Came(k, d)' /\ \A i \in DOMAIN wire' : wire'[i].from # k
<1>1. PICK w \in Nat : w = sender[k].wrote
  OBVIOUS
<1>2. \A i \in DOMAIN wire : i # 1 => wire[i].from # k
  <2>1. SUFFICES ASSUME NEW i \in DOMAIN wire, i # 1, wire[i].from = k PROVE FALSE
    OBVIOUS
  <2>2. 1 < i /\ 1 \in DOMAIN wire
    BY <2>1, ReachesIs
  <2> QED
    BY <2>1, <2>2 DEF Came
<1>3. d = w
  <2>1. SUFFICES ASSUME d # w PROVE FALSE
    OBVIOUS
  <2>2. d + 1 \in (d + 1)..w
    BY <1>1, <2>1
  <2>3. PICK f : f = Item(k, d + 1) /\ f.op = "write" /\ f.from = k
    BY ItemIs
  <2>4. PICK i \in DOMAIN wire : wire[i] = f
    BY <1>1, <2>2, <2>3 DEF Came
  <2> QED
    BY <1>2, <2>3, <2>4
<1>4. \A i \in DOMAIN wire' : wire'[i].from # k
  <2>1. SUFFICES ASSUME NEW i \in DOMAIN wire' PROVE wire'[i].from # k
    OBVIOUS
  <2>2. i \in Nat /\ i # 0 /\ i + 1 \in DOMAIN wire /\ wire'[i] = wire[i + 1]
    BY ReachesIs
  <2>3. i + 1 # 1
    BY <2>2
  <2> QED
    BY <1>2, <2>2, <2>3
<1>5. (d + 1)..w = {}
  BY <1>1, <1>3
<1> QED
  BY <1>1, <1>3, <1>4, <1>5 DEF Came

-----------------------------------------------------------------------------
(* The initial state. *)

LEMMA InitHolds == Init => IInv
<1> SUFFICES ASSUME Init PROVE IInv
  OBVIOUS
<1>1. /\ way \in Ways /\ session = 1 /\ connected = TRUE /\ sender = <<>> /\ DOMAIN sender = {}
      /\ receiver = [k \in Key |-> NoReceiver] /\ pending = [s \in Session |-> [id \in Key |-> NoEntry]]
      /\ wire = <<>> /\ back = <<>> /\ DOMAIN wire = {} /\ DOMAIN back = {}
  BY DEF Init
<1>2. TypeOK
  <2>1. NoReceiver \in ReceiverType
    BY DEF NoReceiver, ReceiverType
  <2>2. NoEntry \in EntryType
    BY DEF NoEntry, EntryType
  <2>3. session \in Session
    BY <1>1, Bounds DEF Session
  <2> QED
    BY <1>1, <2>1, <2>2, <2>3, TypesAre
<1>3. Senders
  BY <1>1, Bounds DEF Senders
<1>4. \A k \in Key : Receives(k)
  <2>1. \A k \in Key : receiver[k] = NoReceiver
    BY <1>1
  <2>2. NoReceiver.attached = 0
    BY DEF NoReceiver
  <2> QED
    BY <1>1, <2>1, <2>2 DEF Receives, NoReceiver
<1>5. \A s \in Session, id \in Key : Kept(s, id)
  <2>1. \A s \in Session, id \in Key : pending[s][id] = NoEntry
    BY <1>1
  <2>2. NoEntry.chunks = <<>> /\ NoEntry.since = 0 /\ Len(NoEntry.chunks) = 0
    BY DEF NoEntry
  <2> QED
    BY <1>1, <2>1, <2>2, Bounds DEF Kept
<1>6. OneOpen /\ OnWire /\ OnWayBack
  BY <1>1 DEF OneOpen, OnWire, OnWayBack
<1> QED
  BY <1>1, <1>2, <1>3, <1>4, <1>5, <1>6 DEF IInv

-----------------------------------------------------------------------------
(* Steps of senders. *)

SenderStep ==
    /\ sender' \in Seq(SenderType) /\ Len(sender') = Len(sender)
    /\ \A k \in DOMAIN sender :
          /\ sender'[k].id = sender[k].id /\ sender'[k].session = sender[k].session
          /\ sender'[k].state = "open" => sender[k].state = "open"
    /\ UNCHANGED <<way, session, connected, receiver, pending>>
    /\ wire' \in Seq(Frame) /\ back' \in Seq(Key)

LEMMA SenderView ==
    ASSUME IInv, SenderStep
    PROVE  /\ DOMAIN sender' = DOMAIN sender /\ Here' = Here
           /\ \A k \in DOMAIN sender : Home(k)' = Home(k) /\ (Present(k)' <=> Present(k)) /\ TheirEntry(k)' = TheirEntry(k)
           /\ \A j, k \in DOMAIN sender : Rivals(j, k)' <=> Rivals(j, k)
           /\ \A k : Past(k)' <=> Past(k)
           /\ \A k \in DOMAIN sender : (Alone(k)' <=> Alone(k)) /\ (Expected(k)' <=> Expected(k))
<1>1. DOMAIN sender' = DOMAIN sender
  BY TypesAre DEF IInv, SenderStep
<1>2. Here' = Here
  BY DEF SenderStep, Here
<1>3. \A k \in DOMAIN sender : Home(k)' = Home(k) /\ (Present(k)' <=> Present(k))
  BY <1>1 DEF SenderStep, Home, Present
<1>4. \A j, k \in DOMAIN sender : Rivals(j, k)' <=> Rivals(j, k)
  BY <1>3 DEF SenderStep, Rivals
<1>5. \A k : Past(k)' <=> Past(k)
  BY DEF SenderStep, Past
<1>6. \A k \in DOMAIN sender : TheirEntry(k)' = TheirEntry(k)
  BY <1>3 DEF SenderStep, TheirEntry
<1>7. \A k \in DOMAIN sender : Alone(k)' <=> Alone(k)
  BY <1>1, <1>4, <1>5 DEF SenderStep, Alone
<1>8. \A k \in DOMAIN sender : Expected(k)' <=> Expected(k)
  BY <1>6, <1>7 DEF SenderStep, Expected
<1> QED
  BY <1>1, <1>2, <1>3, <1>4, <1>5, <1>6, <1>7, <1>8

LEMMA SenderStepKeeps ==
    ASSUME IInv, SenderStep
    PROVE  /\ TypeOK' /\ Senders' /\ OneOpen'
           /\ \A k \in Key : Receives(k)'
           /\ \A s \in Session, id \in Key : Kept(s, id)'
<1>1. DOMAIN sender' = DOMAIN sender /\ UNCHANGED <<way, session, connected, receiver, pending>>
  BY SenderView DEF SenderStep
<1>2. TypeOK'
  BY <1>1, TypesAre, TypesThen DEF IInv, SenderStep
<1>3. Senders'
  <2>1. NextId' = NextId
    <3>1. {k \in DOMAIN sender' : sender'[k].session = session'} = {k \in DOMAIN sender : sender[k].session = session}
      BY <1>1 DEF SenderStep
    <3> QED
      BY <1>1, <3>1 DEF SenderStep, NextId
  <2>2. Len(sender') <= MaxSenders
    BY DEF IInv, Senders, SenderStep
  <2>3. ASSUME NEW k \in DOMAIN sender
        PROVE  /\ sender'[k].session <= session'
               /\ sender'[k].state = "open" => connected' /\ sender'[k].session = session'
               /\ way' = "up" => sender'[k].id = k
               /\ sender'[k].session = session' => sender'[k].id < NextId'
    BY <1>1, <2>1 DEF IInv, Senders, SenderStep
  <2>4. \A j, k \in DOMAIN sender :
          sender'[j].session = sender'[k].session /\ sender'[j].id = sender'[k].id => j = k
    BY DEF IInv, Senders, SenderStep
  <2> QED
    BY <1>1, <2>2, <2>3, <2>4 DEF Senders
<1>4. OneOpen'
  BY <1>1, SenderView DEF IInv, OneOpen
<1>5. ASSUME NEW k \in Key
      PROVE  Receives(k)'
  <2>1. Receives(k)
    BY DEF IInv
  <2>2. receiver[k].state = "open" /\ receiver[k].clean => k \in DOMAIN sender
    BY <2>1 DEF Receives, NoReceiver
  <2>3. receiver[k].state = "open" /\ receiver[k].clean => Alone(k)'
    BY <2>1, <2>2, SenderView DEF Receives
  <2> QED
    BY <1>1, <2>1, <2>3 DEF Receives
<1>6. ASSUME NEW s \in Session, NEW id \in Key
      PROVE  Kept(s, id)'
  <2>1. Kept(s, id)
    BY DEF IInv
  <2>2. \A k \in DOMAIN sender : Present(k) /\ sender[k].id = id /\ s = Home(k) =>
                                 Present(k)' /\ sender'[k].id = id /\ s = Home(k)'
    BY SenderView DEF SenderStep
  <2> QED
    BY <1>1, <2>1, <2>2 DEF Kept
<1> QED
  BY <1>2, <1>3, <1>4, <1>5, <1>6

\* Nothing comes after the end, so the end of an open sender is not on its way.
LEMMA OpenGoesOn ==
    ASSUME IInv, NEW k, sender[k].state = "open"
    PROVE  ~EndComes(k)
<1>1. SUFFICES ASSUME NEW i \in DOMAIN wire, wire[i].from = k, wire[i].op # "write" PROVE FALSE
  BY DEF EndComes
<1>2. wire[i].op \in {"write", "finish", "destroy"}
  BY FrameIs DEF IInv
<1> QED
  BY <1>1, <1>2 DEF IInv, OnWire

LEMMA SenderStepThen ==
    ASSUME IInv, SenderStep, OnWire', OnWayBack',
           \A k \in DOMAIN sender : (Present(k) /\ connected => Flows(k)' /\ Told(k)') /\ Stopped(k)'
    PROVE  IInv'
<1>1. DOMAIN sender' = DOMAIN sender /\ connected' = connected /\ \A k \in DOMAIN sender : Present(k)' <=> Present(k)
  BY SenderView DEF SenderStep
<1>2. TypeOK' /\ Senders' /\ OneOpen' /\ (\A k \in Key : Receives(k)') /\ (\A s \in Session, id \in Key : Kept(s, id)')
  BY SenderStepKeeps
<1>3. \A k \in DOMAIN sender' : (Present(k)' /\ connected' => Flows(k)' /\ Told(k)') /\ Stopped(k)'
  BY <1>1
<1> QED
  BY <1>2, <1>3 DEF IInv

LEMMA BackStays ==
    ASSUME IInv, SenderStep, \A i \in DOMAIN back' : \E j \in DOMAIN back : back'[i] = back[j]
    PROVE  OnWayBack'
<1>1. SUFFICES ASSUME NEW i \in DOMAIN back'
               PROVE  connected' /\ \E j \in DOMAIN sender' : sender'[j].id = back'[i] /\ Home(j)' = Here'
                                                        /\ receiver'[j].state = "broken" /\ ~Past(j)'
  BY DEF OnWayBack
<1>2. PICK j \in DOMAIN sender : connected /\ sender[j].id = back'[i] /\ Home(j) = Here /\ receiver[j].state = "broken" /\ ~Past(j)
  BY DEF IInv, OnWayBack
<1>3. j \in DOMAIN sender' /\ sender'[j].id = sender[j].id /\ Home(j)' = Home(j) /\ Here' = Here /\ ~Past(j)'
  BY <1>2, SenderView DEF SenderStep
<1> QED
  BY <1>2, <1>3 DEF SenderStep

\* A sender that does nothing but end, while its frames stay in order.
LEMMA FlowsOn ==
    ASSUME IInv, SenderStep, NEW k \in DOMAIN sender, Present(k), connected,
           sender'[k].wrote = sender[k].wrote, sender[k].state = "ended" => sender'[k].state = "ended",
           \A d \in 0..sender[k].wrote : Came(k, d) => Came(k, d)'
    PROVE  Flows(k)'
<1>1. PICK d \in 0..sender[k].wrote : /\ Came(k, d) /\ (Expected(k) => Awaits(k, d))
                                      /\ receiver[k].state = "open" /\ receiver[k].clean => Reads(k, d)
  BY DEF IInv, Flows
<1>2. Complete(k, d) => Complete(k, d)'
  BY DEF Complete
<1>3. Awaits(k, d) => Awaits(k, d)'
  BY <1>2, SenderView DEF Awaits
<1>4. Reads(k, d) => Reads(k, d)'
  BY <1>2 DEF Reads, SenderStep
<1>5. Came(k, d)' /\ (Expected(k)' <=> Expected(k)) /\ receiver'[k] = receiver[k]
  BY <1>1, SenderView DEF SenderStep
<1> QED
  BY <1>1, <1>3, <1>4, <1>5 DEF Flows

LEMMA ToldOn ==
    ASSUME IInv, SenderStep, NEW k \in DOMAIN sender, Present(k), connected,
           EndComes(k) => EndComes(k)',
           sender[k].state = "open" /\ sender'[k].state # "open" =>
              EndComes(k)' \/ ~(Alone(k) /\ receiver[k].state \in {"none", "open"})
    PROVE  Told(k)'
<1>1. Told(k)
  BY DEF IInv
<1>2. /\ Expected(k)' <=> Expected(k)
      /\ TheirEntry(k)' = TheirEntry(k) /\ receiver'[k] = receiver[k]
  BY SenderView DEF SenderStep
<1>3. receiver[k].state = "open" /\ receiver[k].clean => Alone(k)
  BY SenderIs DEF IInv, Receives
<1>4. CASE sender[k].state = "open"
  BY <1>2, <1>3, <1>4 DEF Told, Expected
<1>5. CASE sender[k].state # "open"
  BY <1>1, <1>2, <1>5 DEF Told
<1> QED
  BY <1>4, <1>5

LEMMA StoppedOn ==
    ASSUME IInv, SenderStep, NEW k \in DOMAIN sender,
           \A i \in DOMAIN back : back[i] = sender[k].id => sender'[k].state # "open" \/ \E j \in DOMAIN back' : back'[j] = back[i]
    PROVE  Stopped(k)'
BY DEF IInv, Stopped, SenderStep

\* Frames on the wire stay when nothing or a frame of a present sender comes.
Legal(f) ==
    /\ connected /\ f.from \in DOMAIN sender /\ Present(f.from)
    /\ f.op = "finish" => sender'[f.from].state = "ended"
    /\ f.op = "destroy" => sender'[f.from].state = "broken"

LEMMA WireStays ==
    ASSUME IInv, SenderStep, \A k \in DOMAIN sender : sender[k].state # "open" => sender'[k].state = sender[k].state,
           UNCHANGED wire \/ \E f : Posts(f) /\ Legal(f)
    PROVE  OnWire'
<1>1. ASSUME NEW f, Legal(f)
      PROVE  /\ connected' /\ Present(f.from)'
             /\ f.op = "finish" => sender'[f.from].state = "ended"
             /\ f.op = "destroy" => sender'[f.from].state = "broken"
  <2>1. connected' /\ Present(f.from)'
    BY <1>1, SenderView DEF SenderStep, Legal
  <2> QED
    BY <1>1, <2>1 DEF Legal
<1>2. \A i \in DOMAIN wire : Legal(wire[i])
  <2>1. SUFFICES ASSUME NEW i \in DOMAIN wire PROVE Legal(wire[i])
    OBVIOUS
  <2>2. PICK f : f = wire[i]
    OBVIOUS
  <2>3. /\ connected /\ Present(f.from)
        /\ f.op = "finish" => sender[f.from].state = "ended"
        /\ f.op = "destroy" => sender[f.from].state = "broken"
    BY <2>2 DEF IInv, OnWire
  <2>4. f.from \in DOMAIN sender
    BY <2>3 DEF Present
  <2> QED
    BY <2>2, <2>3, <2>4 DEF Legal
<1>3. \A i \in DOMAIN wire' : Legal(wire'[i])
  <2>1. CASE UNCHANGED wire
    BY <1>2, <2>1
  <2>2. ASSUME NEW f, Posts(f), Legal(f)
        PROVE  \A i \in DOMAIN wire' : Legal(wire'[i])
    <3>1. \A i \in DOMAIN wire' : (i \in DOMAIN wire /\ wire'[i] = wire[i]) \/ wire'[i] = f
      BY <2>2, PostsIs DEF IInv
    <3> QED
      BY <1>2, <2>2, <3>1
  <2> QED
    BY <2>1, <2>2
<1> QED
  BY <1>1, <1>3 DEF OnWire

LEMMA SenderAt ==
    ASSUME TypeOK, NEW k \in DOMAIN sender, NEW r \in SenderType, sender' = [sender EXCEPT ![k] = r]
    PROVE  /\ sender' \in Seq(SenderType) /\ Len(sender') = Len(sender) /\ DOMAIN sender' = DOMAIN sender
           /\ sender'[k] = r /\ \A j \in DOMAIN sender : j # k => sender'[j] = sender[j]
<1>1. sender \in Seq(SenderType)
  BY TypesAre
<1> QED
  BY <1>1

\* Sender k becomes r and nothing else happens at its end, but for a frame of its own.
BecomesSender(k, r) ==
    /\ r \in SenderType /\ sender' = [sender EXCEPT ![k] = r]
    /\ r.id = sender[k].id /\ r.session = sender[k].session
    /\ r.state = "open" => sender[k].state = "open"
    /\ sender[k].state # "open" => r.state = sender[k].state
    /\ UNCHANGED <<way, session, connected, receiver, pending, back>>

Emits(k, r) ==
    \/ UNCHANGED wire
    \/ \E f : /\ Posts(f) /\ f.from = k /\ sender[k].state = "open"
              /\ f.op = "finish" => r.state = "ended"
              /\ f.op = "destroy" => r.state = "broken"

LEMMA BecomesIs ==
    ASSUME IInv, NEW k \in DOMAIN sender, NEW r, BecomesSender(k, r), Emits(k, r)
    PROVE  /\ SenderStep /\ sender'[k] = r /\ \A j \in DOMAIN sender : j # k => sender'[j] = sender[j]
           /\ OnWire' /\ OnWayBack'
           /\ \A j \in DOMAIN sender : j # k /\ Present(j) /\ connected => Flows(j)' /\ Told(j)'
           /\ \A j \in DOMAIN sender : Stopped(j)'
           /\ \A i \in DOMAIN wire : \E j \in DOMAIN wire' : wire'[j] = wire[i]
<1>1. /\ sender' \in Seq(SenderType) /\ Len(sender') = Len(sender) /\ DOMAIN sender' = DOMAIN sender
      /\ sender'[k] = r /\ \A j \in DOMAIN sender : j # k => sender'[j] = sender[j]
  BY SenderAt DEF IInv, BecomesSender
<1>2. wire' \in Seq(Frame) /\ \A i \in DOMAIN wire : \E j \in DOMAIN wire' : wire'[j] = wire[i]
  <2>1. CASE UNCHANGED wire
    BY <2>1, TypesAre DEF IInv
  <2>2. CASE ~UNCHANGED wire
    BY <2>2, PostsIs DEF IInv, Emits
  <2> QED
    BY <2>1, <2>2
<1>3. SenderStep
  <2>1. \A j \in DOMAIN sender : /\ sender'[j].id = sender[j].id /\ sender'[j].session = sender[j].session
                                 /\ sender'[j].state = "open" => sender[j].state = "open"
    BY <1>1 DEF BecomesSender
  <2>2. back' \in Seq(Key)
    BY TypesAre DEF IInv, BecomesSender
  <2> QED
    BY <1>1, <1>2, <2>1, <2>2 DEF SenderStep, BecomesSender
<1>4. OnWire'
  <2>1. \A j \in DOMAIN sender : sender[j].state # "open" => sender'[j].state = sender[j].state
    BY <1>1 DEF BecomesSender
  <2>2. ASSUME NEW f, Posts(f), f.from = k, sender[k].state = "open",
               f.op = "finish" => r.state = "ended", f.op = "destroy" => r.state = "broken"
        PROVE  Legal(f)
    BY <1>1, <2>2 DEF Legal, Present, IInv, Senders
  <2>3. UNCHANGED wire \/ \E f : Posts(f) /\ Legal(f)
    BY <2>2 DEF Emits
  <2> QED
    BY <1>3, <2>1, <2>3, WireStays
<1>5. OnWayBack'
  BY <1>3, BackStays DEF BecomesSender
<1>6. ASSUME NEW j \in DOMAIN sender, j # k, Present(j), connected
      PROVE  Flows(j)' /\ Told(j)'
  <2>1. sender'[j] = sender[j]
    BY <1>1, <1>6
  <2>2. \A d \in 0..sender[j].wrote : Came(j, d) => Came(j, d)'
    <3>1. CASE UNCHANGED wire
      BY <2>1, <3>1 DEF Came
    <3>2. CASE ~UNCHANGED wire
      BY <1>6, <2>1, <3>2, CameAfterPost DEF IInv, Emits
    <3> QED
      BY <3>1, <3>2
  <2>3. EndComes(j) => EndComes(j)'
    BY <1>2 DEF EndComes
  <2> QED
    BY <1>3, <1>6, <2>1, <2>2, <2>3, FlowsOn, ToldOn
<1>7. \A j \in DOMAIN sender : Stopped(j)'
  BY <1>3, StoppedOn DEF BecomesSender
<1> QED
  BY <1>1, <1>2, <1>3, <1>4, <1>5, <1>6, <1>7

LEMMA BecomesKeeps ==
    ASSUME IInv, NEW k \in DOMAIN sender, NEW r, BecomesSender(k, r), Emits(k, r),
           Present(k) /\ connected => Flows(k)' /\ Told(k)'
    PROVE  IInv'
<1>1. \A j \in DOMAIN sender : (Present(j) /\ connected => Flows(j)' /\ Told(j)') /\ Stopped(j)'
  BY BecomesIs
<1> QED
  BY <1>1, BecomesIs, SenderStepThen

LEMMA OpenIsPresent ==
    ASSUME IInv, NEW k \in DOMAIN sender, sender[k].state = "open"
    PROVE  Present(k) /\ connected /\ ~EndComes(k)
BY OpenGoesOn DEF IInv, Senders, Present

LEMMA WriteKeeps ==
    ASSUME IInv, NEW k \in Key, Write(k)
    PROVE  IInv'
<1>1. k \in DOMAIN sender /\ sender[k].state = "open" /\ sender[k].wrote < MaxChunks
  BY DEF Write
<1>2. Present(k) /\ connected /\ ~EndComes(k)
  BY <1>1, OpenIsPresent
<1>3. sender[k] \in SenderType /\ sender[k].wrote \in 0..MaxChunks
  BY <1>1, SenderIs DEF IInv
<1>4. PICK n : n = sender[k].wrote + 1
  OBVIOUS
<1>5. n \in 0..MaxChunks /\ n = sender[k].wrote + 1
  BY <1>1, <1>3, <1>4, Bounds
<1>6. PICK high \in BOOLEAN : sender' = [sender EXCEPT ![k].wrote = @ + 1, ![k].busy = high]
  BY DEF Write
<1>7. PICK r : r = [sender[k] EXCEPT !.wrote = n, !.busy = high]
  OBVIOUS
<1>8. /\ r \in SenderType /\ r.id = sender[k].id /\ r.session = sender[k].session /\ r.state = sender[k].state
      /\ r.wrote = n
  BY <1>3, <1>5, <1>7 DEF SenderType
<1>9. sender' = [sender EXCEPT ![k] = r]
  BY <1>1, <1>4, <1>6, <1>7
<1>10. BecomesSender(k, r)
  BY <1>8, <1>9 DEF BecomesSender, Write
<1>11. PICK f : f = Item(k, n)
  OBVIOUS
<1>12. f \in Frame /\ f.from = k /\ f.op = "write" /\ f.n = n
  BY <1>5, <1>11 DEF Item, Frame
<1>13. Posts(f)
  BY <1>4, <1>11, <1>12 DEF Posts, Write, Sends, Item
<1>14. Emits(k, r)
  BY <1>1, <1>12, <1>13 DEF Emits
<1>15. SenderStep /\ sender'[k] = r
  BY <1>1, <1>10, <1>14, BecomesIs
<1>16. PICK d \in 0..sender[k].wrote : /\ Came(k, d) /\ (Expected(k) => Awaits(k, d))
                                       /\ receiver[k].state = "open" /\ receiver[k].clean => Reads(k, d)
  BY <1>1, <1>2 DEF IInv, Flows
<1>17. Came(k, d)'
  BY <1>2, <1>3, <1>4, <1>8, <1>11, <1>12, <1>13, <1>15, <1>16, CameAfterWrite DEF IInv
<1>18. ~Complete(k, d)
  BY <1>1 DEF Complete
<1>19. Awaits(k, d) => Awaits(k, d)'
  BY <1>1, <1>15, <1>18, SenderView DEF Awaits
<1>20. Reads(k, d) => Reads(k, d)'
  BY <1>15, <1>18 DEF Reads, SenderStep
<1>21. d \in 0..sender'[k].wrote
  BY <1>3, <1>5, <1>8, <1>15
<1>22. Flows(k)'
  <2>1. (Expected(k)' <=> Expected(k)) /\ receiver'[k] = receiver[k]
    BY <1>1, <1>15, SenderView DEF SenderStep
  <2> QED
    BY <1>16, <1>17, <1>19, <1>20, <1>21, <2>1 DEF Flows
<1>23. Told(k)'
  BY <1>1, <1>8, <1>15 DEF Told
<1> QED
  BY <1>1, <1>10, <1>14, <1>22, <1>23, BecomesKeeps

LEMMA DrainKeeps ==
    ASSUME IInv, NEW k \in Key, Drain(k)
    PROVE  IInv'
<1>1. k \in DOMAIN sender /\ sender[k] \in SenderType
  BY SenderIs DEF Drain, IInv
<1>2. PICK r : r = [sender[k] EXCEPT !.busy = FALSE]
  OBVIOUS
<1>3. /\ r \in SenderType /\ r.id = sender[k].id /\ r.session = sender[k].session /\ r.state = sender[k].state
      /\ r.wrote = sender[k].wrote
  BY <1>1, <1>2 DEF SenderType
<1>4. BecomesSender(k, r) /\ Emits(k, r) /\ UNCHANGED wire
  BY <1>2, <1>3 DEF BecomesSender, Emits, Drain
<1>5. SenderStep /\ sender'[k] = r
  BY <1>1, <1>4, BecomesIs
<1>6. ASSUME Present(k), connected
      PROVE  Flows(k)' /\ Told(k)'
  <2>1. \A d \in 0..sender[k].wrote : Came(k, d) => Came(k, d)'
    BY <1>3, <1>4, <1>5 DEF Came
  <2>2. EndComes(k) => EndComes(k)'
    BY <1>4 DEF EndComes
  <2> QED
    BY <1>1, <1>3, <1>5, <1>6, <2>1, <2>2, FlowsOn, ToldOn
<1> QED
  BY <1>1, <1>4, <1>6, BecomesKeeps

\* _final() and _destroy(): the last frame of sender k goes on its way.
LEMMA EndKeeps ==
    ASSUME IInv, NEW k \in Key, Finish(k) \/ DestroySender(k)
    PROVE  IInv'
<1>1. k \in DOMAIN sender /\ sender[k].state = "open" /\ sender[k] \in SenderType
  BY SenderIs DEF Finish, DestroySender, IInv
<1>2. Present(k) /\ connected /\ ~EndComes(k)
  BY <1>1, OpenIsPresent
<1>3. PICK f, r : /\ r \in SenderType /\ r.id = sender[k].id /\ r.session = sender[k].session
                  /\ r.wrote = sender[k].wrote /\ sender' = [sender EXCEPT ![k] = r]
                  /\ f \in Frame /\ wire' = Append(wire, f) /\ f.from = k /\ f.op # "write" /\ r.state # "open"
                  /\ f.op = "finish" => r.state = "ended"
                  /\ f.op = "destroy" => r.state = "broken"
  <2>1. CASE Finish(k)
    <3>1. PICK r : r = [sender[k] EXCEPT !.state = "ended"]
      OBVIOUS
    <3>2. /\ r \in SenderType /\ r.id = sender[k].id /\ r.session = sender[k].session
          /\ r.wrote = sender[k].wrote /\ r.state = "ended"
      BY <1>1, <3>1 DEF SenderType
    <3>3. sender' = [sender EXCEPT ![k] = r]
      BY <1>1, <2>1, <3>1 DEF Finish
    <3>4. PICK f : f = [op |-> "finish", from |-> k, n |-> 0]
      OBVIOUS
    <3>5. f \in Frame /\ f.from = k /\ f.op = "finish"
      BY <3>4, Bounds DEF Frame
    <3>6. wire' = Append(wire, f)
      BY <2>1, <3>4 DEF Finish, Sends
    <3> QED
      BY <3>2, <3>3, <3>5, <3>6
  <2>2. CASE DestroySender(k)
    <3>1. PICK r : r = Broken(sender[k])
      OBVIOUS
    <3>2. /\ r \in SenderType /\ r.id = sender[k].id /\ r.session = sender[k].session
          /\ r.wrote = sender[k].wrote /\ r.state = "broken"
      BY <1>1, <3>1 DEF SenderType, Broken
    <3>3. sender' = [sender EXCEPT ![k] = r]
      BY <1>1, <2>2, <3>1 DEF DestroySender
    <3>4. PICK f : f = [op |-> "destroy", from |-> k, n |-> 0]
      OBVIOUS
    <3>5. f \in Frame /\ f.from = k /\ f.op = "destroy"
      BY <3>4, Bounds DEF Frame
    <3>6. wire' = Append(wire, f)
      BY <2>2, <3>4 DEF DestroySender, Sends
    <3> QED
      BY <3>2, <3>3, <3>5, <3>6
  <2> QED
    BY <2>1, <2>2
<1>4. BecomesSender(k, r)
  BY <1>1, <1>3 DEF BecomesSender, Finish, DestroySender
<1>5. Posts(f) /\ Emits(k, r)
  BY <1>1, <1>3 DEF Posts, Emits
<1>6. SenderStep /\ sender'[k] = r
  BY <1>1, <1>4, <1>5, BecomesIs
<1>7. \A d \in 0..sender[k].wrote : Came(k, d) => Came(k, d)'
  BY <1>2, <1>3, <1>5, <1>6, CameAfterEnd DEF IInv
<1>8. EndComes(k)'
  BY <1>3, <1>5, PostsIs DEF EndComes, IInv
<1>9. Flows(k)'
  BY <1>1, <1>2, <1>3, <1>6, <1>7, FlowsOn
<1>10. Told(k)'
  BY <1>1, <1>2, <1>6, <1>8, ToldOn
<1> QED
  BY <1>1, <1>4, <1>5, <1>9, <1>10, BecomesKeeps

LEMMA BackIs ==
    ASSUME TypeOK, back # <<>>
    PROVE  /\ Tail(back) \in Seq(Key) /\ Head(back) = back[1] /\ 1 \in DOMAIN back
           /\ \A i \in DOMAIN Tail(back) : i + 1 \in DOMAIN back /\ Tail(back)[i] = back[i + 1]
           /\ \A i \in DOMAIN back : i = 1 \/ (i - 1 \in DOMAIN Tail(back) /\ Tail(back)[i - 1] = back[i])
<1>1. back \in Seq(Key)
  BY TypesAre
<1>2. PICK q : q = Tail(back)
  OBVIOUS
<1> QED
  BY <1>1, <1>2, TailIs

\* Senders that are open and have a given number break.
Breaks(S) == sender' = [k \in DOMAIN sender |-> IF k \in S THEN Broken(sender[k]) ELSE sender[k]]

LEMMA BreaksIs ==
    ASSUME TypeOK, Senders, NEW S, Breaks(S)
    PROVE  /\ sender' \in Seq(SenderType) /\ Len(sender') = Len(sender) /\ DOMAIN sender' = DOMAIN sender
           /\ \A k \in DOMAIN sender :
                 /\ sender'[k].id = sender[k].id /\ sender'[k].session = sender[k].session
                 /\ sender'[k].wrote = sender[k].wrote
                 /\ sender'[k].state = (IF k \in S THEN "broken" ELSE sender[k].state)
<1>1. PICK n \in Nat : n = Len(sender) /\ DOMAIN sender = 1..n
  BY TypesAre
<1>2. ASSUME NEW k \in DOMAIN sender
      PROVE  /\ Broken(sender[k]) \in SenderType /\ sender[k] \in SenderType
             /\ Broken(sender[k]).id = sender[k].id /\ Broken(sender[k]).session = sender[k].session
             /\ Broken(sender[k]).wrote = sender[k].wrote /\ Broken(sender[k]).state = "broken"
  <2>1. sender[k] \in SenderType
    BY SenderIs
  <2>2. PICK r \in SenderType : r = sender[k]
    BY <2>1
  <2>3. Broken(r) \in SenderType /\ Broken(r).id = r.id /\ Broken(r).session = r.session
        /\ Broken(r).wrote = r.wrote /\ Broken(r).state = "broken"
    BY <2>2 DEF Broken, SenderType
  <2> QED
    BY <2>1, <2>2, <2>3
<1>3. sender' \in [1..n -> SenderType]
  BY <1>1, <1>2 DEF Breaks
<1>4. sender' \in Seq(SenderType) /\ Len(sender') = n
  BY <1>3, ByIndex
<1>5. \A k \in DOMAIN sender : sender'[k] = IF k \in S THEN Broken(sender[k]) ELSE sender[k]
  BY DEF Breaks
<1> QED
  BY <1>1, <1>2, <1>4, <1>5

LEMMA AbortArrivesKeeps ==
    ASSUME IInv, AbortArrives
    PROVE  IInv'
<1>1. PICK S : S = {k \in DOMAIN sender : sender[k].id = Head(back) /\ sender[k].state = "open"}
  OBVIOUS
<1>2. Breaks(S)
  BY <1>1 DEF Breaks, AbortArrives
<1>3. /\ sender' \in Seq(SenderType) /\ Len(sender') = Len(sender) /\ DOMAIN sender' = DOMAIN sender
      /\ \A k \in DOMAIN sender :
            /\ sender'[k].id = sender[k].id /\ sender'[k].session = sender[k].session
            /\ sender'[k].wrote = sender[k].wrote
            /\ sender'[k].state = (IF k \in S THEN "broken" ELSE sender[k].state)
  BY <1>2, BreaksIs DEF IInv
<1>4. /\ back # <<>> /\ back' = Tail(back) /\ Tail(back) \in Seq(Key) /\ Head(back) = back[1] /\ 1 \in DOMAIN back
      /\ \A i \in DOMAIN Tail(back) : i + 1 \in DOMAIN back /\ Tail(back)[i] = back[i + 1]
      /\ \A i \in DOMAIN back : i = 1 \/ (i - 1 \in DOMAIN Tail(back) /\ Tail(back)[i - 1] = back[i])
  BY BackIs DEF AbortArrives, IInv
<1>5. SenderStep
  <2>1. \A k \in DOMAIN sender : sender'[k].state = "open" => sender[k].state = "open"
    BY <1>3
  <2> QED
    BY <1>3, <1>4, <2>1, TypesAre DEF SenderStep, AbortArrives, IInv
<1>6. OnWire'
  <2>1. \A k \in DOMAIN sender : sender[k].state # "open" => sender'[k].state = sender[k].state
    BY <1>1, <1>3
  <2> QED
    BY <1>5, <2>1, WireStays DEF AbortArrives
<1>7. OnWayBack'
  BY <1>4, <1>5, BackStays
<1>8. ASSUME NEW k \in DOMAIN sender, Present(k), connected
      PROVE  Flows(k)' /\ Told(k)'
  <2>1. \A d \in 0..sender[k].wrote : Came(k, d) => Came(k, d)'
    BY <1>3 DEF Came, AbortArrives
  <2>2. EndComes(k) => EndComes(k)'
    BY DEF EndComes, AbortArrives
  <2>3. sender[k].state = "ended" => sender'[k].state = "ended"
    BY <1>1, <1>3
  <2>4. ASSUME sender[k].state = "open", sender'[k].state # "open", Alone(k), receiver[k].state \in {"none", "open"}
        PROVE  FALSE
    <3>1. sender[k].id = back[1]
      BY <1>1, <1>3, <1>4, <2>4
    <3>2. PICK j \in DOMAIN sender : sender[j].id = back[1] /\ Home(j) = Here /\ receiver[j].state = "broken" /\ ~Past(j)
      BY <1>4 DEF IInv, OnWayBack
    <3>3. Home(k) = Here
      BY <1>8, HomeIs DEF IInv, Present
    <3>4. j # k /\ Rivals(j, k)
      BY <2>4, <3>1, <3>2, <3>3 DEF Rivals
    <3> QED
      BY <2>4, <3>2, <3>4 DEF Alone
  <2> QED
    BY <1>3, <1>5, <1>8, <2>1, <2>2, <2>3, <2>4, FlowsOn, ToldOn
<1>9. ASSUME NEW k \in DOMAIN sender
      PROVE  Stopped(k)'
  <2>1. SUFFICES ASSUME NEW i \in DOMAIN back, back[i] = sender[k].id, sender'[k].state = "open"
                 PROVE  \E j \in DOMAIN back' : back'[j] = back[i]
    BY <1>5, StoppedOn
  <2>2. i # 1
    BY <1>1, <1>3, <1>4, <2>1
  <2> QED
    BY <1>4, <2>2
<1> QED
  BY <1>5, <1>6, <1>7, <1>8, <1>9, SenderStepThen

-----------------------------------------------------------------------------
(* Steps at the receivers' end that create none. *)

QuietStep ==
    /\ receiver' \in [Key -> ReceiverType] /\ pending' \in [Session -> [Key -> EntryType]]
    /\ wire' \in Seq(Frame) /\ back' \in Seq(Key)
    /\ UNCHANGED <<way, session, connected, sender>>
    /\ \A j \in Key :
          /\ j \notin DOMAIN sender => receiver'[j] = receiver[j]
          /\ receiver'[j].attached = receiver[j].attached /\ receiver'[j].clean = receiver[j].clean
          /\ receiver'[j].state = "none" <=> receiver[j].state = "none"
          /\ receiver'[j].state = "open" => receiver[j].state = "open"
          /\ receiver[j].state = "broken" => receiver'[j].state = "broken"
          /\ receiver'[j].state = "none" => receiver'[j].aborted = receiver[j].aborted /\ receiver'[j].got = receiver[j].got
          /\ receiver'[j].aborted => receiver'[j].state = "broken"

LEMMA QuietView ==
    ASSUME IInv, QuietStep
    PROVE  /\ Here' = Here
           /\ \A k \in DOMAIN sender : Home(k)' = Home(k) /\ (Present(k)' <=> Present(k))
           /\ \A j, k \in DOMAIN sender : Rivals(j, k)' <=> Rivals(j, k)
           /\ \A k \in DOMAIN sender : Past(k)' <=> Past(k)
           /\ \A k \in DOMAIN sender : Alone(k)' <=> Alone(k)
<1>1. Here' = Here
  BY DEF QuietStep, Here
<1>2. \A k \in DOMAIN sender : Home(k)' = Home(k) /\ (Present(k)' <=> Present(k))
  BY DEF QuietStep, Home, Present
<1>3. \A j, k \in DOMAIN sender : Rivals(j, k)' <=> Rivals(j, k)
  BY <1>2 DEF QuietStep, Rivals
<1>4. \A k \in DOMAIN sender : k \in Key
  BY SenderIs DEF IInv
<1>5. \A k \in DOMAIN sender : Past(k)' <=> Past(k)
  BY <1>4 DEF QuietStep, Past
<1>6. \A k \in DOMAIN sender : Alone(k)' <=> Alone(k)
  BY <1>3, <1>5 DEF QuietStep, Alone
<1> QED
  BY <1>1, <1>2, <1>3, <1>5, <1>6

LEMMA QuietKeeps ==
    ASSUME IInv, QuietStep
    PROVE  /\ TypeOK' /\ Senders' /\ OneOpen'
           /\ \A k \in Key : Receives(k)'
           /\ back' = back => OnWayBack'
<1>1. TypeOK'
  BY TypesAre, TypesThen DEF IInv, QuietStep
<1>2. Senders'
  BY DEF IInv, Senders, NextId, QuietStep
<1>3. \A k \in DOMAIN sender : k \in Key
  BY SenderIs DEF IInv
<1>4. OneOpen'
  BY <1>3, QuietView DEF IInv, OneOpen, QuietStep
<1>5. ASSUME NEW k \in Key
      PROVE  Receives(k)'
  <2>1. Receives(k)
    BY DEF IInv
  <2>2. receiver'[k].state = "open" /\ receiver'[k].clean => Alone(k)' /\ receiver'[k].attached = session
    <3>1. receiver[k].state = "open" /\ receiver[k].clean => Alone(k) /\ receiver[k].attached = session /\ k \in DOMAIN sender
      BY <2>1 DEF Receives, NoReceiver
    <3> QED
      BY <3>1, QuietView DEF QuietStep
  <2>3. k \notin DOMAIN sender => receiver'[k] = NoReceiver
    BY <2>1 DEF Receives, QuietStep
  <2>4. receiver'[k].state = "none" => ~receiver'[k].clean /\ ~receiver'[k].aborted /\ receiver'[k].got = <<>>
    BY <2>1 DEF Receives, QuietStep
  <2>5. /\ receiver'[k].attached <= session
        /\ receiver'[k].state = "open" => receiver'[k].attached = 0 \/ (connected /\ receiver'[k].attached = session)
        /\ receiver'[k].aborted => receiver'[k].state = "broken"
    BY <2>1 DEF Receives, QuietStep
  <2>6. session' = session /\ connected' = connected /\ sender' = sender
    BY DEF QuietStep
  <2> QED
    BY <2>2, <2>3, <2>4, <2>5, <2>6 DEF Receives
<1>6. ASSUME back' = back
      PROVE  OnWayBack'
  <2>1. SUFFICES ASSUME NEW i \in DOMAIN back
                 PROVE  connected /\ \E j \in DOMAIN sender : sender[j].id = back[i] /\ Home(j)' = Here'
                                                        /\ receiver'[j].state = "broken" /\ ~Past(j)'
    BY <1>6 DEF OnWayBack, QuietStep
  <2>2. PICK j \in DOMAIN sender : connected /\ sender[j].id = back[i] /\ Home(j) = Here /\ receiver[j].state = "broken" /\ ~Past(j)
    BY DEF IInv, OnWayBack
  <2> QED
    BY <1>3, <2>2, QuietView DEF QuietStep
<1> QED
  BY <1>1, <1>2, <1>4, <1>5, <1>6

LEMMA KeptStays ==
    ASSUME IInv, QuietStep, NEW s \in Session, NEW id \in Key, pending'[s][id] = pending[s][id]
    PROVE  Kept(s, id)'
<1>1. Kept(s, id)
  BY DEF IInv
<1>2. \A k \in DOMAIN sender : Present(k) /\ sender[k].id = id /\ s = Home(k) =>
                               Present(k)' /\ sender'[k].id = id /\ s = Home(k)'
  BY QuietView DEF QuietStep
<1>3. session' = session /\ sender' = sender
  BY DEF QuietStep
<1> QED
  BY <1>1, <1>2, <1>3 DEF Kept

LEMMA QuietThen ==
    ASSUME IInv, QuietStep, OnWire', OnWayBack', \A s \in Session, id \in Key : Kept(s, id)',
           \A k \in DOMAIN sender : (Present(k) /\ connected => Flows(k)' /\ Told(k)') /\ Stopped(k)'
    PROVE  IInv'
<1>1. sender' = sender /\ connected' = connected /\ \A k \in DOMAIN sender : Present(k)' <=> Present(k)
  BY QuietView DEF QuietStep
<1>2. \A k \in DOMAIN sender' : (Present(k)' /\ connected' => Flows(k)' /\ Told(k)') /\ Stopped(k)'
  BY <1>1
<1> QED
  BY <1>2, QuietKeeps DEF IInv

LEMMA ExpectedStays ==
    ASSUME IInv, QuietStep, NEW k \in DOMAIN sender, TheirEntry(k)' = TheirEntry(k)
    PROVE  Expected(k)' <=> Expected(k)
<1>1. k \in Key
  BY SenderIs DEF IInv
<1> QED
  BY <1>1, QuietView DEF Expected, QuietStep

\* One receiver changes, and perhaps its sender is told.
BecomesReceiver(k, r) ==
    /\ r \in ReceiverType /\ receiver' = [receiver EXCEPT ![k] = r]
    /\ r.attached = receiver[k].attached /\ r.clean = receiver[k].clean
    /\ r.state = "none" <=> receiver[k].state = "none"
    /\ r.state = "open" => receiver[k].state = "open"
    /\ receiver[k].state = "broken" => r.state = "broken"
    /\ r.state = "none" => r.aborted = receiver[k].aborted /\ r.got = receiver[k].got
    /\ r.aborted => r.state = "broken"
    /\ UNCHANGED <<way, session, connected, sender, pending, wire>>

LEMMA ReceiverBecomes ==
    ASSUME IInv, NEW k \in DOMAIN sender, NEW r, BecomesReceiver(k, r), back' \in Seq(Key), OnWayBack' \/ back' = back,
           r.state = "open" /\ r.clean => r.eof = receiver[k].eof /\ \A d : Reads(k, d) => Reads(k, d)',
           \A i \in DOMAIN back : \E j \in DOMAIN back' : back'[j] = back[i],
           r.aborted /\ sender[k].state = "open" => receiver[k].aborted \/ \E i \in DOMAIN back' : back'[i] = sender[k].id
    PROVE  IInv'
<1>1. k \in Key /\ receiver \in [Key -> ReceiverType]
  BY SenderIs, TypesAre DEF IInv
<1>2. receiver' \in [Key -> ReceiverType] /\ receiver'[k] = r /\ \A j \in Key : j # k => receiver'[j] = receiver[j]
  BY <1>1 DEF BecomesReceiver
<1>3. QuietStep
  <2>1. ASSUME NEW j \in Key
        PROVE  /\ j \notin DOMAIN sender => receiver'[j] = receiver[j]
               /\ receiver'[j].attached = receiver[j].attached /\ receiver'[j].clean = receiver[j].clean
               /\ receiver'[j].state = "none" <=> receiver[j].state = "none"
               /\ receiver'[j].state = "open" => receiver[j].state = "open"
               /\ receiver[j].state = "broken" => receiver'[j].state = "broken"
               /\ receiver'[j].state = "none" => receiver'[j].aborted = receiver[j].aborted /\ receiver'[j].got = receiver[j].got
               /\ receiver'[j].aborted => receiver'[j].state = "broken"
    <3>1. CASE j = k
      BY <1>2, <3>1 DEF BecomesReceiver
    <3>2. CASE j # k
      BY <1>2, <3>2 DEF IInv, Receives
    <3> QED
      BY <3>1, <3>2
  <2>2. pending' \in [Session -> [Key -> EntryType]] /\ wire' \in Seq(Frame) /\ UNCHANGED <<way, session, connected, sender>>
    BY TypesAre DEF IInv, BecomesReceiver
  <2> QED
    BY <1>2, <2>1, <2>2 DEF QuietStep
<1>4. OnWayBack'
  BY <1>3, QuietKeeps
<1>5. pending' = pending /\ wire' = wire /\ sender' = sender /\ session' = session /\ connected' = connected
  BY DEF BecomesReceiver
<1>6. \A s \in Session, id \in Key : Kept(s, id)'
  BY <1>3, <1>5, KeptStays
<1>7. OnWire'
  BY <1>5 DEF IInv, OnWire, Present
<1>8. ASSUME NEW j \in DOMAIN sender, Present(j), connected
      PROVE  Flows(j)' /\ Told(j)'
  <2>1. TheirEntry(j)' = TheirEntry(j)
    BY <1>3, <1>5, QuietView DEF TheirEntry
  <2>2. Expected(j)' <=> Expected(j)
    BY <1>3, <2>1, ExpectedStays
  <2>3. j \in Key
    BY SenderIs DEF IInv
  <2>4. receiver'[j].state = "open" /\ receiver'[j].clean =>
          /\ receiver[j].state = "open" /\ receiver[j].clean /\ receiver'[j].eof = receiver[j].eof
          /\ \A d : Reads(j, d) => Reads(j, d)'
    <3>1. CASE j = k
      BY <1>2, <3>1 DEF BecomesReceiver
    <3>2. CASE j # k
      <4>1. receiver'[j] = receiver[j]
        BY <1>2, <2>3, <3>2
      <4> QED
        BY <1>5, <4>1 DEF Reads, Complete
    <3> QED
      BY <3>1, <3>2
  <2>5. Flows(j) /\ Told(j)
    BY <1>8 DEF IInv
  <2>6. \A d : (Came(j, d)' <=> Came(j, d)) /\ (Awaits(j, d)' <=> Awaits(j, d))
    BY <1>5, <2>1 DEF Came, Awaits, Complete
  <2>7. Flows(j)'
    BY <1>5, <2>2, <2>4, <2>5, <2>6 DEF Flows
  <2>8. Told(j)'
    BY <1>5, <2>1, <2>2, <2>4, <2>5 DEF Told, EndComes
  <2> QED
    BY <2>7, <2>8
<1>9. ASSUME NEW j \in DOMAIN sender
      PROVE  Stopped(j)'
  <2>1. j \in Key /\ Stopped(j)
    BY SenderIs DEF IInv
  <2>2. receiver[j].aborted /\ sender[j].state = "open" => \E i \in DOMAIN back' : back'[i] = sender[j].id
    BY <2>1 DEF Stopped
  <2>3. receiver'[j].aborted /\ sender[j].state = "open" =>
          receiver[j].aborted \/ \E i \in DOMAIN back' : back'[i] = sender[j].id
    BY <1>2, <2>1
  <2> QED
    BY <1>5, <2>2, <2>3 DEF Stopped
<1> QED
  BY <1>3, <1>4, <1>6, <1>7, <1>8, <1>9, QuietThen

LEMMA OpenIsThere ==
    ASSUME IInv, NEW k \in Key, receiver[k].state # "none"
    PROVE  k \in DOMAIN sender
BY DEF IInv, Receives, NoReceiver

LEMMA TellKeeps ==
    ASSUME IInv, NEW k \in Key, Tell(k)
    PROVE  IInv'
<1>1. k \in DOMAIN sender /\ receiver[k] \in ReceiverType
  BY ReceiverIs DEF Tell, IInv
<1>2. PICK r : r = [receiver[k] EXCEPT !.told = TRUE]
  OBVIOUS
<1>3. /\ r \in ReceiverType /\ r.attached = receiver[k].attached /\ r.clean = receiver[k].clean
      /\ r.state = receiver[k].state /\ r.aborted = receiver[k].aborted /\ r.got = receiver[k].got
      /\ r.buffer = receiver[k].buffer /\ r.eof = receiver[k].eof
  BY <1>1, <1>2 DEF ReceiverType
<1>4. receiver' = [receiver EXCEPT ![k] = r]
  BY <1>2 DEF Tell
<1>5. r.aborted => r.state = "broken"
  BY <1>3 DEF IInv, Receives
<1>6. BecomesReceiver(k, r) /\ back' = back
  BY <1>3, <1>4, <1>5 DEF BecomesReceiver, Tell
<1>7. receiver'[k] = r /\ sender' = sender
  BY <1>4, TypesAre DEF IInv, Tell
<1>8. \A d : Reads(k, d) => Reads(k, d)'
  BY <1>3, <1>7 DEF Reads, Complete
<1>9. back' \in Seq(Key)
  BY <1>6, TypesAre DEF IInv
<1> QED
  BY <1>1, <1>3, <1>6, <1>8, <1>9, ReceiverBecomes

LEMMA ReadOn ==
    ASSUME NEW got \in Seq(Chunk), NEW buffer \in Seq(Chunk), buffer # <<>>, NEW k,
           Chunks(got, k, 0), Chunks(buffer, k, Len(got))
    PROVE  /\ Len(Append(got, Head(buffer))) + Len(Tail(buffer)) = Len(got) + Len(buffer)
           /\ Chunks(Append(got, Head(buffer)), k, 0) /\ Chunks(Tail(buffer), k, Len(Append(got, Head(buffer))))
<1> PICK g : g = Append(got, Head(buffer))
  OBVIOUS
<1> PICK b : b = Tail(buffer)
  OBVIOUS
<1>1. /\ b \in Seq(Chunk) /\ Head(buffer) = buffer[1] /\ 1 \in DOMAIN buffer /\ buffer[1] \in Chunk
      /\ Len(b) \in Nat /\ Len(buffer) \in Nat /\ Len(b) + 1 = Len(buffer)
      /\ \A i \in DOMAIN b : i \in Nat /\ i # 0 /\ i + 1 \in DOMAIN buffer /\ b[i] = buffer[i + 1]
  BY TailIs
<1>2. /\ g \in Seq(Chunk) /\ Len(got) \in Nat /\ Len(g) = Len(got) + 1
      /\ \A i \in DOMAIN g : \/ i \in DOMAIN got /\ g[i] = got[i]
                             \/ i = Len(got) + 1 /\ g[i] = Head(buffer)
  BY <1>1, AppendIs
<1>3. Head(buffer) = <<k, Len(got) + 1>>
  BY <1>1 DEF Chunks
<1>4. Chunks(g, k, 0)
  <2>1. SUFFICES ASSUME NEW i \in DOMAIN g PROVE g[i] = <<k, 0 + i>>
    BY DEF Chunks
  <2>2. CASE i \in DOMAIN got /\ g[i] = got[i]
    BY <2>2 DEF Chunks
  <2>3. CASE i = Len(got) + 1 /\ g[i] = Head(buffer)
    BY <1>2, <1>3, <2>3
  <2> QED
    BY <1>2, <2>2, <2>3
<1>5. Chunks(b, k, Len(g))
  <2>1. SUFFICES ASSUME NEW i \in DOMAIN b PROVE b[i] = <<k, Len(g) + i>>
    BY DEF Chunks
  <2>2. b[i] = <<k, Len(got) + (i + 1)>> /\ i \in Nat
    BY <1>1, <2>1 DEF Chunks
  <2>3. Len(got) + (i + 1) = Len(g) + i
    BY <1>2, <2>2
  <2> QED
    BY <2>2, <2>3
<1> QED
  BY <1>1, <1>2, <1>4, <1>5

LEMMA ReadKeeps ==
    ASSUME IInv, NEW k \in Key, Read(k)
    PROVE  IInv'
<1>1. /\ receiver[k] \in ReceiverType /\ receiver[k].state = "open" /\ k \in DOMAIN sender
      /\ receiver[k].buffer # <<>> /\ receiver[k].buffer \in Seq(Chunk) /\ receiver[k].got \in Seq(Chunk)
  BY ReceiverIs, OpenIsThere DEF Read, IInv
<1>2. PICK g : g = Append(receiver[k].got, Head(receiver[k].buffer))
  OBVIOUS
<1>3. PICK b : b = Tail(receiver[k].buffer)
  OBVIOUS
<1>4. g \in Seq(Chunk) /\ b \in Seq(Chunk)
  BY <1>1, <1>2, <1>3, TailIs, AppendIs
<1>5. PICK r : r = [receiver[k] EXCEPT !.buffer = b, !.got = g]
  OBVIOUS
<1>6. /\ r \in ReceiverType /\ r.attached = receiver[k].attached /\ r.clean = receiver[k].clean
      /\ r.state = receiver[k].state /\ r.aborted = receiver[k].aborted /\ r.got = g
      /\ r.buffer = b /\ r.eof = receiver[k].eof
  BY <1>1, <1>4, <1>5 DEF ReceiverType
<1>7. receiver' = [receiver EXCEPT ![k] = r]
  BY <1>2, <1>3, <1>5 DEF Read
<1>8. r.aborted => r.state = "broken"
  BY <1>6 DEF IInv, Receives
<1>9. BecomesReceiver(k, r) /\ back' = back /\ back' \in Seq(Key)
  BY <1>1, <1>6, <1>7, <1>8, TypesAre DEF BecomesReceiver, Read, IInv
<1>10. receiver'[k] = r /\ sender' = sender
  BY <1>7, TypesAre DEF IInv, Read
<1>11. \A d : Reads(k, d) => Reads(k, d)'
  <2>1. SUFFICES ASSUME NEW d, Reads(k, d) PROVE Reads(k, d)'
    OBVIOUS
  <2>2. /\ Chunks(receiver[k].got, k, 0) /\ Chunks(receiver[k].buffer, k, Len(receiver[k].got))
        /\ Len(receiver[k].got) + Len(receiver[k].buffer) = d /\ (receiver[k].eof => Complete(k, d))
    BY <2>1 DEF Reads
  <2>3. Chunks(g, k, 0) /\ Chunks(b, k, Len(g)) /\ Len(g) + Len(b) = d
    <3>1. PICK got \in Seq(Chunk) : got = receiver[k].got
      BY <1>1
    <3>2. PICK buffer \in Seq(Chunk) : buffer = receiver[k].buffer
      BY <1>1
    <3>3. /\ buffer # <<>> /\ Chunks(got, k, 0) /\ Chunks(buffer, k, Len(got)) /\ Len(got) + Len(buffer) = d
          /\ g = Append(got, Head(buffer)) /\ b = Tail(buffer)
      BY <1>1, <1>2, <1>3, <2>2, <3>1, <3>2
    <3>4. Len(g) + Len(b) = Len(got) + Len(buffer) /\ Chunks(g, k, 0) /\ Chunks(b, k, Len(g))
      BY <3>3, ReadOn
    <3> QED
      BY <3>3, <3>4
  <2> QED
    BY <1>6, <1>10, <2>2, <2>3 DEF Reads, Complete
<1> QED
  BY <1>1, <1>6, <1>9, <1>11, ReceiverBecomes

LEMMA ReadEndKeeps ==
    ASSUME IInv, NEW k \in Key, ReadEnd(k)
    PROVE  IInv'
<1>1. receiver[k] \in ReceiverType /\ receiver[k].state = "open" /\ k \in DOMAIN sender
  BY ReceiverIs, OpenIsThere DEF ReadEnd, IInv
<1>2. PICK r : r = [receiver[k] EXCEPT !.state = "ended"]
  OBVIOUS
<1>3. /\ r \in ReceiverType /\ r.attached = receiver[k].attached /\ r.clean = receiver[k].clean
      /\ r.state = "ended" /\ r.aborted = receiver[k].aborted
  BY <1>1, <1>2 DEF ReceiverType
<1>4. ~receiver[k].aborted
  BY <1>1 DEF IInv, Receives
<1>5. receiver' = [receiver EXCEPT ![k] = r]
  BY <1>2 DEF ReadEnd
<1>6. BecomesReceiver(k, r) /\ back' = back /\ back' \in Seq(Key)
  BY <1>1, <1>3, <1>4, <1>5, TypesAre DEF BecomesReceiver, ReadEnd, IInv
<1> QED
  BY <1>1, <1>3, <1>4, <1>6, ReceiverBecomes

LEMMA BackGrows ==
    ASSUME IInv, NEW k \in DOMAIN sender, SendsBack(k)
    PROVE  /\ back' \in Seq(Key)
           /\ \A i \in DOMAIN back : i \in DOMAIN back' /\ back'[i] = back[i]
           /\ \A i \in DOMAIN back' : (i \in DOMAIN back /\ back'[i] = back[i])
                                      \/ (connected /\ Home(k) = Here /\ back'[i] = sender[k].id)
           /\ sender[k].state = "open" => \E i \in DOMAIN back' : back'[i] = sender[k].id
<1>1. back \in Seq(Key) /\ sender[k].id \in Key
  BY TypesAre, SenderIs DEF IInv
<1>2. sender[k].state = "open" => connected /\ Home(k) = Here
  BY OpenIsPresent, HomeIs DEF IInv, Present
<1>3. CASE connected /\ Home(k) = Here
  <2>1. back' = Append(back, sender[k].id)
    BY <1>3 DEF SendsBack
  <2> QED
    BY <1>1, <1>3, <2>1, AppendIs
<1>4. CASE ~(connected /\ Home(k) = Here)
  BY <1>1, <1>2, <1>4 DEF SendsBack
<1> QED
  BY <1>3, <1>4

LEMMA OpenNotPast ==
    ASSUME IInv, NEW k \in Key, receiver[k].state = "open"
    PROVE  ~Past(k)
<1>1. receiver[k].attached \in Nat /\ session \in Nat
  BY ReceiverIs, TypesAre, Bounds DEF IInv
<1>2. receiver[k].attached = 0 \/ receiver[k].attached = session
  BY DEF IInv, Receives
<1> QED
  BY <1>1, <1>2 DEF Past

LEMMA AbortedIs ==
    ASSUME NEW r \in ReceiverType
    PROVE  /\ Aborted(r) \in ReceiverType /\ Aborted(r).attached = r.attached /\ Aborted(r).clean = r.clean
           /\ Aborted(r).state = "broken" /\ Aborted(r).aborted = r.aborted /\ Aborted(r).buffer = <<>>
           /\ Aborted(r).got = r.got /\ Aborted(r).told = r.told
<1>1. <<>> \in Seq(Chunk)
  OBVIOUS
<1> QED
  BY <1>1 DEF Aborted, ReceiverType

LEMMA DestroyReceiverKeeps ==
    ASSUME IInv, NEW k \in Key, DestroyReceiver(k)
    PROVE  IInv'
<1>1. receiver[k] \in ReceiverType /\ receiver[k].state = "open" /\ k \in DOMAIN sender
  BY ReceiverIs, OpenIsThere DEF DestroyReceiver, IInv
<1>2. PICK a : a = Aborted(receiver[k])
  OBVIOUS
<1>3. PICK r : r = [a EXCEPT !.aborted = TRUE]
  OBVIOUS
<1>4. /\ r \in ReceiverType /\ r.attached = receiver[k].attached /\ r.clean = receiver[k].clean
      /\ r.state = "broken" /\ r.aborted
  <2>1. a \in ReceiverType /\ a.attached = receiver[k].attached /\ a.clean = receiver[k].clean /\ a.state = "broken"
    BY <1>1, <1>2, AbortedIs
  <2> QED
    BY <1>3, <2>1 DEF ReceiverType
<1>5. receiver' = [receiver EXCEPT ![k] = r]
  BY <1>1, <1>2, <1>3, TypesAre DEF DestroyReceiver, IInv
<1>6. BecomesReceiver(k, r) /\ SendsBack(k) /\ UNCHANGED <<session, sender, connected, way>>
  BY <1>1, <1>4, <1>5 DEF BecomesReceiver, DestroyReceiver
<1>7. /\ back' \in Seq(Key)
      /\ \A i \in DOMAIN back : i \in DOMAIN back' /\ back'[i] = back[i]
      /\ \A i \in DOMAIN back' : (i \in DOMAIN back /\ back'[i] = back[i])
                                 \/ (connected /\ Home(k) = Here /\ back'[i] = sender[k].id)
      /\ sender[k].state = "open" => \E i \in DOMAIN back' : back'[i] = sender[k].id
  BY <1>1, <1>6, BackGrows
<1>8. OnWayBack'
  <2>1. \A j \in DOMAIN sender : Home(j)' = Home(j) /\ Here' = Here
    BY <1>6 DEF Home, Here
  <2>2. \A j \in DOMAIN sender : ~Past(j) /\ receiver[j].state = "broken" => ~Past(j)' /\ receiver'[j].state = "broken"
    <3>1. \A j \in DOMAIN sender : j \in Key
      BY SenderIs DEF IInv
    <3>2. \A j \in Key : j # k => receiver'[j] = receiver[j]
      BY <1>5, TypesAre DEF IInv
    <3> QED
      BY <1>1, <1>6, <3>1, <3>2 DEF Past
  <2>3. receiver'[k].state = "broken" /\ ~Past(k)'
    <3>1. receiver'[k] = r /\ ~Past(k)
      BY <1>1, <1>5, OpenNotPast, TypesAre DEF IInv
    <3> QED
      BY <1>1, <1>4, <1>6, <3>1 DEF Past
  <2>4. SUFFICES ASSUME NEW i \in DOMAIN back'
                 PROVE  connected /\ \E j \in DOMAIN sender : sender[j].id = back'[i] /\ Home(j)' = Here'
                                                        /\ receiver'[j].state = "broken" /\ ~Past(j)'
    BY <1>6 DEF OnWayBack
  <2>5. CASE i \in DOMAIN back /\ back'[i] = back[i]
    BY <2>1, <2>2, <2>5 DEF IInv, OnWayBack
  <2>6. CASE connected /\ Home(k) = Here /\ back'[i] = sender[k].id
    BY <1>1, <2>1, <2>3, <2>6
  <2> QED
    BY <1>7, <2>4, <2>5, <2>6
<1> QED
  BY <1>1, <1>4, <1>6, <1>7, <1>8, ReceiverBecomes

-----------------------------------------------------------------------------
(* Frames that come. *)

LEMMA HeadIs ==
    ASSUME IInv, Reaches, NEW h, h = Head(wire).from
    PROVE  /\ connected /\ h \in DOMAIN sender /\ h \in Key /\ Present(h) /\ wire[1].from = h /\ Head(wire) = wire[1]
           /\ Id = sender[h].id /\ Home(h) = Here /\ Here \in Session /\ Id \in Key
           /\ Head(wire).op = "finish" => sender[h].state = "ended"
           /\ Head(wire).op = "destroy" => sender[h].state = "broken"
           /\ sender[h].wrote \in Nat
           /\ \A k \in DOMAIN sender : Present(k) /\ k # h => sender[k].id # Id
<1>1. Head(wire) = wire[1] /\ 1 \in DOMAIN wire
  BY ReachesIs DEF IInv
<1>2. /\ connected /\ Present(h)
      /\ Head(wire).op = "finish" => sender[h].state = "ended"
      /\ Head(wire).op = "destroy" => sender[h].state = "broken"
  BY <1>1 DEF IInv, OnWire
<1>3. h \in DOMAIN sender /\ sender[h].session = session
  BY <1>2 DEF Present
<1>4. h \in Key /\ sender[h].id \in Key /\ sender[h].wrote \in Nat
  BY <1>3, SenderIs, Bounds DEF IInv
<1>5. Home(h) = Here /\ Here \in Session
  BY <1>3, HomeIs, HereIs DEF IInv
<1>6. Id = sender[h].id
  BY DEF Id
<1>7. \A k \in DOMAIN sender : Present(k) /\ k # h => sender[k].id # Id
  BY <1>3, <1>6 DEF IInv, Senders, Present
<1> QED
  BY <1>1, <1>2, <1>3, <1>4, <1>5, <1>6, <1>7

LEMMA TakersAre ==
    ASSUME IInv, Reaches, NEW h, h = Head(wire).from
    PROVE  /\ \A k \in Receivers(Here, Id) :
                 /\ k \in DOMAIN sender /\ k \in Key /\ receiver[k].state = "open" /\ sender[k].id = Id /\ Home(k) = Here
                 /\ Present(k) \/ receiver[k].clean \/ Alone(h) => k = h
           /\ receiver[h].state = "open" => h \in Receivers(Here, Id)
<1>1. h \in DOMAIN sender /\ Present(h) /\ Id = sender[h].id /\ Home(h) = Here
  BY HeadIs
<1>2. \A k \in DOMAIN sender : Present(k) /\ k # h => sender[k].id # Id
  BY HeadIs
<1>3. ASSUME NEW k \in Receivers(Here, Id)
      PROVE  /\ k \in DOMAIN sender /\ k \in Key /\ receiver[k].state = "open" /\ sender[k].id = Id /\ Home(k) = Here
             /\ Present(k) \/ receiver[k].clean \/ Alone(h) => k = h
  <2>1. k \in DOMAIN sender /\ receiver[k].state = "open" /\ sender[k].id = Id /\ Home(k) = Here
    BY DEF Receivers
  <2>2. k \in Key
    BY <2>1, SenderIs DEF IInv
  <2>3. Present(k) => k = h
    BY <1>2, <2>1
  <2>4. receiver[k].clean => Present(k)
    <3>1. receiver[k].clean => Alone(k)
      BY <2>1, <2>2 DEF IInv, Receives
    <3> QED
      BY <2>1, <3>1 DEF Alone, Present
  <2>5. Alone(h) => k = h
    <3>1. ~Past(k)
      BY <2>1, <2>2, OpenNotPast
    <3>2. Rivals(k, h)
      BY <1>1, <2>1 DEF Rivals
    <3> QED
      BY <2>1, <3>1, <3>2 DEF Alone
  <2> QED
    BY <2>1, <2>2, <2>3, <2>4, <2>5
<1>4. receiver[h].state = "open" => h \in Receivers(Here, Id)
  BY <1>1 DEF Receivers
<1> QED
  BY <1>3, <1>4

\* One frame of sender h comes: nothing else does.
LEMMA ComesThen ==
    ASSUME IInv, QuietStep, Reaches, back' = back, NEW h, h = Head(wire).from,
           \A k \in DOMAIN sender : k # h /\ Present(k) => receiver'[k] = receiver[k] /\ TheirEntry(k)' = TheirEntry(k),
           \A k \in DOMAIN sender : receiver'[k].aborted => receiver[k].aborted,
           \A s \in Session, id \in Key : Kept(s, id)', Flows(h)', Told(h)'
    PROVE  IInv'
<1>1. h \in DOMAIN sender /\ Present(h) /\ connected /\ wire[1].from = h
  BY HeadIs
<1>2. sender' = sender /\ session' = session /\ connected' = connected
  BY DEF QuietStep
<1>3. OnWire'
  <2>1. \A i \in DOMAIN wire' : i + 1 \in DOMAIN wire /\ wire'[i] = wire[i + 1]
    BY ReachesIs DEF IInv
  <2>2. \A j : Present(j)' <=> Present(j)
    BY <1>2 DEF Present
  <2> QED
    BY <1>2, <2>1, <2>2 DEF IInv, OnWire
<1>4. OnWayBack'
  BY QuietKeeps
<1>5. ASSUME NEW k \in DOMAIN sender, Present(k), connected, k # h
      PROVE  Flows(k)' /\ Told(k)'
  <2>1. receiver'[k] = receiver[k] /\ TheirEntry(k)' = TheirEntry(k)
    BY <1>5
  <2>2. Expected(k)' <=> Expected(k)
    BY <2>1, ExpectedStays
  <2>3. \A d : Came(k, d) => Came(k, d)'
    BY <1>1, <1>2, <1>5, CameAfterRead DEF IInv
  <2>4. EndComes(k) => EndComes(k)'
    <3>1. \A i \in DOMAIN wire : wire[i].from = k => i - 1 \in DOMAIN wire' /\ wire'[i - 1] = wire[i]
      BY <1>1, <1>5, ReachesIs DEF IInv
    <3> QED
      BY <3>1 DEF EndComes
  <2>5. Flows(k) /\ Told(k)
    BY <1>5 DEF IInv
  <2>6. \A d : (Awaits(k, d)' <=> Awaits(k, d)) /\ (Reads(k, d)' <=> Reads(k, d))
    BY <1>2, <2>1 DEF Awaits, Reads, Complete
  <2>7. Flows(k)'
    BY <1>2, <2>1, <2>2, <2>3, <2>5, <2>6 DEF Flows
  <2>8. Told(k)'
    BY <1>2, <2>1, <2>2, <2>4, <2>5 DEF Told
  <2> QED
    BY <2>7, <2>8
<1>6. \A k \in DOMAIN sender : Stopped(k)'
  BY <1>2 DEF IInv, Stopped
<1>7. \A k \in DOMAIN sender : (Present(k) /\ connected => Flows(k)' /\ Told(k)') /\ Stopped(k)'
  BY <1>5, <1>6
<1> QED
  BY <1>3, <1>4, <1>7, QuietThen

\* Receivers of the number take the frame.
TakenBy(rs, n) ==
    /\ receiver' = [k \in Key |-> IF k \in rs THEN n[k] ELSE receiver[k]]
    /\ \A k \in rs :
          /\ n[k] \in ReceiverType /\ n[k].attached = receiver[k].attached /\ n[k].clean = receiver[k].clean
          /\ n[k].state \in {"open", "broken"} /\ n[k].aborted = receiver[k].aborted
    /\ UNCHANGED <<way, session, connected, sender, pending, back>>

LEMMA TakenIs ==
    ASSUME IInv, Reaches, NEW h, h = Head(wire).from, NEW n, TakenBy(Receivers(Here, Id), n), Receivers(Here, Id) # {}
    PROVE  /\ QuietStep /\ sender' = sender /\ h \in DOMAIN sender /\ ~Expected(h)'
           /\ receiver'[h].state = "open" /\ receiver'[h].clean =>
                 receiver'[h] = n[h] /\ receiver[h].state = "open" /\ receiver[h].clean
           /\ Flows(h)' /\ Told(h)' => IInv'
<1> PICK rs : rs = Receivers(Here, Id)
  OBVIOUS
<1>1. /\ receiver' = [k \in Key |-> IF k \in rs THEN n[k] ELSE receiver[k]]
      /\ \A k \in rs :
            /\ n[k] \in ReceiverType /\ n[k].attached = receiver[k].attached /\ n[k].clean = receiver[k].clean
            /\ n[k].state \in {"open", "broken"} /\ n[k].aborted = receiver[k].aborted
      /\ UNCHANGED <<way, session, connected, sender, pending, back>>
  BY DEF TakenBy
<1>2. /\ \A k \in rs :
            /\ k \in DOMAIN sender /\ k \in Key /\ receiver[k].state = "open" /\ sender[k].id = Id /\ Home(k) = Here
            /\ Present(k) \/ receiver[k].clean \/ Alone(h) => k = h
      /\ receiver[h].state = "open" => h \in rs
  BY TakersAre
<1>3. h \in DOMAIN sender /\ h \in Key /\ Present(h)
  BY HeadIs
<1>4. \A k \in Key : receiver'[k] = IF k \in rs THEN n[k] ELSE receiver[k]
  BY <1>1
<1>5. \A k \in Key : receiver[k].aborted => receiver[k].state = "broken"
  BY DEF IInv, Receives
<1>6. QuietStep
  <2>1. ASSUME NEW j \in Key
        PROVE  /\ receiver'[j] \in ReceiverType
               /\ j \notin DOMAIN sender => receiver'[j] = receiver[j]
               /\ receiver'[j].attached = receiver[j].attached /\ receiver'[j].clean = receiver[j].clean
               /\ receiver'[j].state = "none" <=> receiver[j].state = "none"
               /\ receiver'[j].state = "open" => receiver[j].state = "open"
               /\ receiver[j].state = "broken" => receiver'[j].state = "broken"
               /\ receiver'[j].state = "none" => receiver'[j].aborted = receiver[j].aborted /\ receiver'[j].got = receiver[j].got
               /\ receiver'[j].aborted => receiver'[j].state = "broken"
    <3>1. CASE j \in rs
      <4>1. receiver'[j] = n[j] /\ receiver[j].state = "open" /\ j \in DOMAIN sender
        BY <1>2, <1>4, <3>1
      <4>2. ~receiver[j].aborted
        BY <1>5, <4>1
      <4> QED
        BY <1>1, <3>1, <4>1, <4>2
    <3>2. CASE j \notin rs
      BY <1>4, <1>5, <3>2, ReceiverIs DEF IInv
    <3> QED
      BY <3>1, <3>2
  <2>2. pending' \in [Session -> [Key -> EntryType]] /\ back' \in Seq(Key)
    BY <1>1, TypesAre DEF IInv
  <2>3. wire' \in Seq(Frame)
    BY ReachesIs DEF IInv
  <2>4. receiver' \in [Key -> ReceiverType]
    BY <1>1, <1>4, <2>1
  <2> QED
    BY <1>1, <2>1, <2>2, <2>3, <2>4 DEF QuietStep
<1>7. \A k \in DOMAIN sender : TheirEntry(k)' = TheirEntry(k)
  BY <1>1, <1>6, QuietView DEF TheirEntry
<1>8. ~Expected(h)'
  <2>1. SUFFICES ASSUME Expected(h) PROVE FALSE
    BY <1>3, <1>6, <1>7, ExpectedStays
  <2>2. Alone(h) /\ receiver[h].state = "none"
    BY <2>1 DEF Expected
  <2>3. PICK k \in rs : TRUE
    OBVIOUS
  <2>4. receiver[k].state = "open" /\ k = h
    BY <1>2, <2>2, <2>3
  <2> QED
    BY <2>2, <2>4
<1>9. receiver'[h].state = "open" /\ receiver'[h].clean =>
         receiver'[h] = n[h] /\ receiver[h].state = "open" /\ receiver[h].clean
  <2>1. receiver'[h].state = "open" /\ receiver'[h].clean => receiver[h].state = "open" /\ receiver[h].clean
    BY <1>3, <1>6 DEF QuietStep
  <2> QED
    BY <1>2, <1>3, <1>4, <2>1
<1>10. ASSUME Flows(h)', Told(h)'
       PROVE  IInv'
  <2>1. \A k \in DOMAIN sender : k # h /\ Present(k) => receiver'[k] = receiver[k] /\ TheirEntry(k)' = TheirEntry(k)
    <3>1. \A k \in DOMAIN sender : k \in Key
      BY SenderIs DEF IInv
    <3> QED
      BY <1>2, <1>4, <1>7, <3>1
  <2>2. \A k \in DOMAIN sender : receiver'[k].aborted => receiver[k].aborted
    <3>1. \A k \in DOMAIN sender : k \in Key
      BY SenderIs DEF IInv
    <3> QED
      BY <1>1, <1>4, <3>1
  <2>3. \A s \in Session, id \in Key : Kept(s, id)'
    BY <1>1, <1>6, KeptStays
  <2>4. back' = back
    BY <1>1
  <2> QED
    BY <1>6, <1>10, <2>1, <2>2, <2>3, <2>4, ComesThen
<1> QED
  BY <1>1, <1>3, <1>6, <1>8, <1>9, <1>10

\* No receiver does: the frame is kept for the one to come.
Puts(s, id, e) == pending' = [pending EXCEPT ![s][id] = e]

LEMMA EntryAt ==
    ASSUME TypeOK, NEW s \in Session, NEW id \in Key, NEW e \in EntryType, Puts(s, id, e)
    PROVE  /\ pending' \in [Session -> [Key -> EntryType]] /\ pending'[s][id] = e
           /\ \A t \in Session, j \in Key : t # s \/ j # id => pending'[t][j] = pending[t][j]
<1>1. pending \in [Session -> [Key -> EntryType]]
  BY TypesAre
<1>2. PICK p : p = [pending[s] EXCEPT ![id] = e]
  OBVIOUS
<1>3. p \in [Key -> EntryType] /\ p[id] = e /\ \A j \in Key : j # id => p[j] = pending[s][j]
  BY <1>1, <1>2
<1>4. pending' = [pending EXCEPT ![s] = p]
  BY <1>2 DEF Puts
<1> QED
  BY <1>1, <1>3, <1>4

WaitsAs(e) ==
    /\ pending' = [pending EXCEPT ![Here][Id] = e] /\ e \in EntryType
    /\ e.since = Entry.since /\ Len(e.chunks) <= MaxPending /\ (e.chunks # <<>> => e.timer)
    /\ e.dead => e.chunks = <<>>
    /\ UNCHANGED <<way, session, connected, sender, receiver, back>>

LEMMA TheEntryIs ==
    ASSUME IInv, Reaches, NEW h, h = Head(wire).from
    PROVE  /\ Entry \in EntryType /\ Entry.since # 0 /\ (Entry.since = session <=> TheirEntry(h).since \in {0, session})
           /\ Entry.since <= session
           /\ Entry.chunks = TheirEntry(h).chunks /\ Entry.finished = TheirEntry(h).finished
           /\ Entry.dead = TheirEntry(h).dead /\ Entry.timer = TheirEntry(h).timer
           /\ Len(Entry.chunks) <= MaxPending /\ (Entry.chunks # <<>> => Entry.timer) /\ (Entry.dead => Entry.chunks = <<>>)
<1>1. Here \in Session /\ Id \in Key /\ Home(h) = Here /\ sender[h].id = Id
  BY HeadIs
<1>2. PICK e : e = pending[Here][Id]
  OBVIOUS
<1>3. e \in EntryType /\ e = TheirEntry(h)
  BY <1>1, <1>2, EntryIs DEF TheirEntry, IInv
<1>4. Len(e.chunks) <= MaxPending /\ (e.chunks # <<>> => e.timer) /\ (e.dead => e.chunks = <<>>) /\ e.since <= session
  BY <1>1, <1>2 DEF IInv, Kept
<1>5. PICK n : n = IF e.since = 0 THEN session ELSE e.since
  OBVIOUS
<1>6. session \in Session /\ session \in Nat /\ session # 0
  BY TypesAre, Bounds DEF IInv
<1>7. Entry = [e EXCEPT !.since = n]
  BY <1>2, <1>5 DEF Entry
<1>8. n \in {0} \cup Session
  BY <1>3, <1>5, <1>6 DEF EntryType
<1>9. /\ Entry \in EntryType /\ Entry.since = n /\ Entry.chunks = e.chunks /\ Entry.finished = e.finished
      /\ Entry.dead = e.dead /\ Entry.timer = e.timer
  BY <1>3, <1>7, <1>8 DEF EntryType
<1>10. n # 0 /\ n <= session /\ (n = session <=> e.since \in {0, session})
  BY <1>4, <1>5, <1>6
<1> QED
  BY <1>3, <1>4, <1>9, <1>10

LEMMA WaitsIs ==
    ASSUME IInv, Reaches, NEW h, h = Head(wire).from, NEW e, WaitsAs(e), Receivers(Here, Id) = {}
    PROVE  /\ QuietStep /\ sender' = sender /\ receiver' = receiver /\ h \in DOMAIN sender
           /\ receiver[h].state # "open" /\ TheirEntry(h)' = e /\ (Expected(h)' => Expected(h))
           /\ Flows(h)' /\ Told(h)' => IInv'
<1>1. /\ h \in DOMAIN sender /\ h \in Key /\ Present(h) /\ Here \in Session /\ Id \in Key
      /\ Home(h) = Here /\ sender[h].id = Id
      /\ \A k \in DOMAIN sender : Present(k) /\ k # h => sender[k].id # Id
  BY HeadIs
<1>2. UNCHANGED <<way, session, connected, sender, receiver, back>>
  BY DEF WaitsAs
<1>3. /\ pending' \in [Session -> [Key -> EntryType]] /\ pending'[Here][Id] = e
      /\ \A t \in Session, j \in Key : t # Here \/ j # Id => pending'[t][j] = pending[t][j]
  <2>1. PICK s \in Session, id \in Key : s = Here /\ id = Id
    BY <1>1
  <2>2. TypeOK /\ e \in EntryType /\ Puts(s, id, e)
    BY <2>1 DEF WaitsAs, IInv, Puts
  <2>3. /\ pending' \in [Session -> [Key -> EntryType]] /\ pending'[s][id] = e
        /\ \A t \in Session, j \in Key : t # s \/ j # id => pending'[t][j] = pending[t][j]
    BY <2>2, EntryAt
  <2> QED
    BY <2>1, <2>3
<1>4. \A j \in Key : receiver[j] \in ReceiverType /\ (receiver[j].aborted => receiver[j].state = "broken")
  BY ReceiverIs DEF IInv, Receives
<1>5. QuietStep
  <2>1. wire' \in Seq(Frame) /\ back' \in Seq(Key) /\ receiver' \in [Key -> ReceiverType]
    BY <1>2, TypesAre, ReachesIs DEF IInv
  <2> QED
    BY <1>2, <1>3, <1>4, <2>1 DEF QuietStep
<1>6. receiver[h].state # "open"
  BY TakersAre
<1>7. TheirEntry(h)' = e
  <2>1. Home(h)' = Here /\ sender'[h].id = Id
    BY <1>1, <1>2, <1>5, QuietView
  <2> QED
    BY <1>3, <2>1 DEF TheirEntry
<1>8. Expected(h)' => Expected(h)
  <2>1. SUFFICES ASSUME Expected(h)' PROVE Expected(h)
    OBVIOUS
  <2>2. Alone(h)' /\ receiver[h].state = "none" /\ e.since \in {0, session}
    BY <1>2, <1>7, <2>1 DEF Expected
  <2>3. Alone(h)
    BY <1>1, <1>5, <2>2, QuietView
  <2>4. TheirEntry(h).since \in {0, session}
    BY <2>2, TheEntryIs DEF WaitsAs
  <2> QED
    BY <2>2, <2>3, <2>4 DEF Expected
<1>9. ASSUME Flows(h)', Told(h)'
      PROVE  IInv'
  <2>1. ASSUME NEW k \in DOMAIN sender, k # h, Present(k)
        PROVE  receiver'[k] = receiver[k] /\ TheirEntry(k)' = TheirEntry(k)
    <3>1. Home(k) \in Session /\ sender[k].id \in Key /\ sender[k].id # Id
      BY <1>1, <2>1, HomeIs, SenderIs DEF IInv
    <3>2. Home(k)' = Home(k) /\ sender'[k].id = sender[k].id
      BY <1>2, <1>5, QuietView
    <3>3. pending'[Home(k)][sender[k].id] = pending[Home(k)][sender[k].id]
      BY <1>3, <3>1
    <3> QED
      BY <1>2, <3>2, <3>3 DEF TheirEntry
  <2>2. ASSUME NEW s \in Session, NEW id \in Key
        PROVE  Kept(s, id)'
    <3>1. CASE s # Here \/ id # Id
      BY <1>3, <1>5, <3>1, KeptStays
    <3>2. CASE s = Here /\ id = Id
      <4>1. pending'[s][id] = e
        BY <1>3, <3>2
      <4>2. /\ e.since # 0 /\ e.since <= session /\ Len(e.chunks) <= MaxPending /\ (e.chunks # <<>> => e.timer)
            /\ (e.dead => e.chunks = <<>>)
        BY TheEntryIs DEF WaitsAs
      <4>3. h \in DOMAIN sender' /\ Present(h)' /\ sender'[h].id = id /\ s = Home(h)'
        BY <1>1, <1>2, <1>5, <3>2, QuietView
      <4> QED
        BY <1>2, <4>1, <4>2, <4>3 DEF Kept
    <3> QED
      BY <3>1, <3>2
  <2>3. back' = back /\ \A k \in DOMAIN sender : receiver'[k].aborted => receiver[k].aborted
    BY <1>2
  <2> QED
    BY <1>5, <1>9, <2>1, <2>2, <2>3, ComesThen
<1> QED
  BY <1>1, <1>2, <1>5, <1>6, <1>7, <1>8, <1>9

LEMMA ChunksGrow ==
    ASSUME NEW q \in Seq(Chunk), NEW k, NEW from \in Nat, Chunks(q, k, from), NEW c \in Chunk, c = <<k, from + Len(q) + 1>>
    PROVE  /\ Append(q, c) \in Seq(Chunk) /\ Len(Append(q, c)) = Len(q) + 1 /\ Append(q, c) # <<>>
           /\ Chunks(Append(q, c), k, from)
<1> PICK g : g = Append(q, c)
  OBVIOUS
<1>1. /\ g \in Seq(Chunk) /\ Len(q) \in Nat /\ Len(g) = Len(q) + 1
      /\ \A i \in DOMAIN g : \/ i \in DOMAIN q /\ g[i] = q[i]
                             \/ i = Len(q) + 1 /\ g[i] = c
  BY AppendIs
<1>2. Chunks(g, k, from)
  <2>1. SUFFICES ASSUME NEW i \in DOMAIN g PROVE g[i] = <<k, from + i>>
    BY DEF Chunks
  <2>2. CASE i \in DOMAIN q /\ g[i] = q[i]
    BY <2>2 DEF Chunks
  <2>3. CASE i = Len(q) + 1 /\ g[i] = c
    <3>1. from + Len(q) + 1 = from + i
      BY <1>1, <2>3
    <3> QED
      BY <2>3, <3>1
  <2> QED
    BY <1>1, <2>2, <2>3
<1>3. g # <<>>
  BY <1>1
<1> QED
  BY <1>1, <1>2, <1>3

LEMMA WriteArrivesKeeps ==
    ASSUME IInv, WriteArrives
    PROVE  IInv'
<1>1. PICK h : h = Head(wire).from
  OBVIOUS
<1>2. PICK c : c = <<h, Head(wire).n>>
  OBVIOUS
<1>3. PICK rs : rs = Receivers(Here, Id)
  OBVIOUS
<1>4. Reaches /\ Head(wire).op = "write"
  BY DEF WriteArrives, Arrives, Reaches
<1>5. /\ connected /\ h \in DOMAIN sender /\ h \in Key /\ Present(h) /\ wire[1].from = h /\ Head(wire) = wire[1]
      /\ sender[h].wrote \in Nat
  BY <1>1, <1>4, HeadIs
<1>6. PICK w \in Nat : w = sender[h].wrote
  BY <1>5
<1>7. Flows(h) /\ Told(h)
  BY <1>5 DEF IInv
<1>8. PICK d \in 0..sender[h].wrote : /\ Came(h, d) /\ (Expected(h) => Awaits(h, d))
                                      /\ receiver[h].state = "open" /\ receiver[h].clean => Reads(h, d)
  BY <1>7 DEF Flows
<1>9. sender' = sender /\ back' = back /\ UNCHANGED <<way, session, connected>>
  BY DEF WriteArrives
<1>10. wire[1].n = d + 1 /\ d + 1 \in 0..sender[h].wrote /\ Came(h, d + 1)'
  BY <1>4, <1>5, <1>8, <1>9, NextComes DEF IInv
<1>11. d \in Nat /\ d # w /\ d + 1 \in 0..w
  BY <1>6, <1>8, <1>10
<1>12. c = <<h, d + 1>> /\ c \in Chunk
  <2>1. wire[1].n \in 0..MaxChunks
    BY <1>4, ReachesIs DEF IInv, Frame
  <2>2. d + 1 \in 1..MaxChunks
    BY <1>10, <1>11, <2>1, Bounds
  <2> QED
    BY <1>2, <1>5, <1>10, <2>2 DEF Chunk
<1>13. ~Complete(h, d)
  BY <1>6, <1>11 DEF Complete
<1>14. EndComes(h) => EndComes(h)'
  BY <1>4, <1>5, ReachesIs DEF EndComes, IInv
<1>15. CASE rs # {}
  <2>1. PICK n : n = [k \in Key |-> [receiver[k] EXCEPT !.buffer = Append(@, c)]]
    OBVIOUS
  <2>2. \A k \in Key : n[k] = [receiver[k] EXCEPT !.buffer = Append(@, c)]
    BY <2>1
  <2>3. \A k \in rs : k \in Key /\ receiver[k].state = "open"
    BY <1>1, <1>3, <1>4, TakersAre
  <2>4. ASSUME NEW k \in Key
        PROVE  /\ n[k] \in ReceiverType /\ n[k].attached = receiver[k].attached /\ n[k].clean = receiver[k].clean
               /\ n[k].state = receiver[k].state /\ n[k].aborted = receiver[k].aborted
               /\ n[k].buffer = Append(receiver[k].buffer, c) /\ n[k].got = receiver[k].got /\ n[k].eof = receiver[k].eof
    <3>1. PICK b : b = Append(receiver[k].buffer, c)
      OBVIOUS
    <3>2. b \in Seq(Chunk) /\ receiver[k] \in ReceiverType
      BY <1>12, <3>1, ReceiverIs DEF IInv
    <3>3. n[k] = [receiver[k] EXCEPT !.buffer = b]
      BY <2>2, <3>1
    <3> QED
      BY <3>1, <3>2, <3>3 DEF ReceiverType
  <2>5. receiver' = [k \in Key |-> IF k \in rs THEN n[k] ELSE receiver[k]] /\ pending' = pending
    BY <1>1, <1>2, <1>3, <1>15, <2>2 DEF WriteArrives
  <2>6. TakenBy(rs, n)
    BY <1>9, <2>3, <2>4, <2>5 DEF TakenBy
  <2>7. /\ ~Expected(h)'
        /\ receiver'[h].state = "open" /\ receiver'[h].clean =>
              receiver'[h] = n[h] /\ receiver[h].state = "open" /\ receiver[h].clean
        /\ Flows(h)' /\ Told(h)' => IInv'
    BY <1>1, <1>3, <1>4, <1>15, <2>6, TakenIs
  <2>8. ASSUME receiver'[h].state = "open", receiver'[h].clean
        PROVE  Reads(h, d + 1)' /\ (Told(h) /\ sender[h].state # "open" => receiver'[h].eof \/ EndComes(h)')
    <3>1. receiver'[h] = n[h] /\ receiver[h].state = "open" /\ receiver[h].clean /\ Reads(h, d)
      BY <1>8, <2>7, <2>8
    <3>2. PICK got \in Seq(Chunk), buffer \in Seq(Chunk) : got = receiver[h].got /\ buffer = receiver[h].buffer
      BY <1>5, ReceiverIs DEF IInv
    <3>3. /\ Chunks(got, h, 0) /\ Chunks(buffer, h, Len(got)) /\ Len(got) + Len(buffer) = d /\ ~receiver[h].eof
          /\ Len(got) \in Nat /\ Len(buffer) \in Nat
      <4>1. /\ Chunks(got, h, 0) /\ Chunks(buffer, h, Len(got)) /\ Len(got) + Len(buffer) = d
            /\ receiver[h].eof => Complete(h, d)
        BY <3>1, <3>2 DEF Reads
      <4>2. Len(got) \in Nat /\ Len(buffer) \in Nat
        BY <3>2
      <4> QED
        BY <1>13, <4>1, <4>2
    <3>4. Chunks(Append(buffer, c), h, Len(got)) /\ Len(Append(buffer, c)) = Len(buffer) + 1
      BY <1>12, <3>3, ChunksGrow
    <3>5. Len(got) + (Len(buffer) + 1) = d + 1
      BY <3>3
    <3>6. receiver'[h].got = got /\ receiver'[h].buffer = Append(buffer, c) /\ ~receiver'[h].eof
      BY <1>5, <2>4, <3>1, <3>2, <3>3
    <3>7. Reads(h, d + 1)'
      BY <3>3, <3>4, <3>5, <3>6 DEF Reads
    <3>8. Told(h) /\ sender[h].state # "open" => receiver'[h].eof \/ EndComes(h)'
      BY <1>14, <3>1, <3>3 DEF Told
    <3> QED
      BY <3>7, <3>8
  <2>9. Flows(h)'
    BY <1>9, <1>10, <2>7, <2>8 DEF Flows
  <2>10. Told(h)'
    BY <1>7, <1>9, <2>7, <2>8 DEF Told
  <2> QED
    BY <2>7, <2>9, <2>10
<1>16. CASE rs = {}
  <2>1. PICK o : o = Entry
    OBVIOUS
  <2>2. /\ o \in EntryType /\ o.chunks = TheirEntry(h).chunks /\ o.finished = TheirEntry(h).finished
        /\ o.dead = TheirEntry(h).dead
        /\ Len(o.chunks) <= MaxPending /\ (o.chunks # <<>> => o.timer) /\ (o.dead => o.chunks = <<>>)
    BY <1>1, <1>4, <2>1, TheEntryIs
  <2>3. PICK q \in Seq(Chunk) : q = o.chunks /\ Len(q) \in Nat
    BY <2>2 DEF EntryType
  <2>4. PICK e : e = Buffer(o, c)
    OBVIOUS
  <2>5. /\ e \in EntryType /\ e.since = o.since /\ e.finished = o.finished
        /\ Len(e.chunks) <= MaxPending /\ (e.chunks # <<>> => e.timer) /\ (e.dead => e.chunks = <<>>)
        /\ \/ e.dead
           \/ ~o.dead /\ e.chunks = Append(q, c)
    <3>1. CASE o.dead
      BY <2>2, <2>4, <3>1 DEF Buffer
    <3>2. CASE ~o.dead /\ Len(q) = MaxPending
      <4>1. e = [o EXCEPT !.timer = TRUE, !.dead = TRUE, !.chunks = <<>>]
        BY <2>3, <2>4, <3>2 DEF Buffer
      <4>2. e \in EntryType /\ e.since = o.since /\ e.finished = o.finished /\ e.dead /\ e.chunks = <<>> /\ Len(e.chunks) = 0
        <5>1. <<>> \in Seq(Chunk) /\ Len(<<>>) = 0
          OBVIOUS
        <5> QED
          BY <2>2, <4>1, <5>1 DEF EntryType
      <4> QED
        BY <4>2, Bounds
    <3>3. CASE ~o.dead /\ Len(q) # MaxPending
      <4>1. PICK g : g = Append(q, c)
        OBVIOUS
      <4>2. g \in Seq(Chunk) /\ Len(g) = Len(q) + 1
        BY <1>12, <4>1, AppendIs
      <4>3. e = [o EXCEPT !.timer = TRUE, !.chunks = g]
        BY <2>3, <2>4, <3>3, <4>1 DEF Buffer
      <4>4. e \in EntryType /\ e.since = o.since /\ e.finished = o.finished /\ e.dead = o.dead /\ e.chunks = g /\ e.timer
        BY <2>2, <4>2, <4>3 DEF EntryType
      <4>5. Len(g) <= MaxPending
        BY <2>2, <2>3, <3>3, <4>2, Bounds
      <4> QED
        BY <3>3, <4>1, <4>4, <4>5
    <3> QED
      BY <3>1, <3>2, <3>3
  <2>6. pending' = [pending EXCEPT ![Here][Id] = e] /\ receiver' = receiver
    BY <1>1, <1>2, <1>3, <1>16, <2>1, <2>4 DEF WriteArrives
  <2>7. WaitsAs(e)
    BY <1>9, <2>1, <2>5, <2>6 DEF WaitsAs
  <2>8. /\ receiver[h].state # "open" /\ TheirEntry(h)' = e /\ (Expected(h)' => Expected(h))
        /\ Flows(h)' /\ Told(h)' => IInv'
    BY <1>1, <1>3, <1>4, <1>16, <2>7, WaitsIs
  <2>9. ASSUME Expected(h)'
        PROVE  Awaits(h, d + 1)' /\ (sender[h].state # "open" => e.dead \/ e.finished \/ EndComes(h)')
    <3>1. Expected(h) /\ Awaits(h, d)
      BY <1>8, <2>8, <2>9
    <3>2. CASE e.dead
      BY <2>8, <3>2 DEF Awaits
    <3>3. CASE ~o.dead /\ e.chunks = Append(q, c)
      <4>1. Chunks(q, h, 0) /\ Len(q) = d /\ ~o.finished
        BY <1>13, <2>2, <2>3, <3>1, <3>3 DEF Awaits
      <4>2. c = <<h, 0 + Len(q) + 1>>
        BY <1>12, <4>1, <2>3
      <4>3. Chunks(Append(q, c), h, 0) /\ Len(Append(q, c)) = d + 1
        BY <1>12, <4>1, <4>2, ChunksGrow
      <4>4. Awaits(h, d + 1)'
        BY <2>5, <2>8, <3>3, <4>1, <4>3 DEF Awaits
      <4>5. sender[h].state # "open" => EndComes(h)'
        BY <1>7, <1>14, <2>2, <3>1, <3>3, <4>1 DEF Told
      <4> QED
        BY <4>4, <4>5
    <3> QED
      BY <2>5, <3>2, <3>3
  <2>10. Flows(h)'
    BY <1>9, <1>10, <2>6, <2>8, <2>9 DEF Flows
  <2>11. Told(h)'
    BY <1>9, <2>6, <2>8, <2>9 DEF Told
  <2> QED
    BY <2>8, <2>10, <2>11
<1> QED
  BY <1>15, <1>16

LEMMA FinishArrivesKeeps ==
    ASSUME IInv, FinishArrives
    PROVE  IInv'
<1>1. PICK h : h = Head(wire).from
  OBVIOUS
<1>2. PICK rs : rs = Receivers(Here, Id)
  OBVIOUS
<1>3. Reaches /\ Head(wire).op = "finish"
  BY DEF FinishArrives, Arrives, Reaches
<1>4. /\ connected /\ h \in DOMAIN sender /\ h \in Key /\ Present(h) /\ wire[1].from = h /\ Head(wire) = wire[1]
      /\ sender[h].wrote \in Nat /\ sender[h].state = "ended"
  BY <1>1, <1>3, HeadIs
<1>5. Flows(h) /\ Told(h)
  BY <1>4 DEF IInv
<1>6. PICK d \in 0..sender[h].wrote : /\ Came(h, d) /\ (Expected(h) => Awaits(h, d))
                                      /\ receiver[h].state = "open" /\ receiver[h].clean => Reads(h, d)
  BY <1>5 DEF Flows
<1>7. sender' = sender /\ back' = back /\ UNCHANGED <<way, session, connected>>
  BY DEF FinishArrives
<1>8. d = sender[h].wrote /\ Came(h, d)'
  BY <1>3, <1>4, <1>6, <1>7, LastComes DEF IInv
<1>9. Complete(h, d) /\ Complete(h, d)'
  BY <1>4, <1>7, <1>8 DEF Complete
<1>10. CASE rs # {}
  <2>1. PICK n : n = [k \in Key |-> [receiver[k] EXCEPT !.eof = TRUE]]
    OBVIOUS
  <2>2. \A k \in Key : n[k] = [receiver[k] EXCEPT !.eof = TRUE]
    BY <2>1
  <2>3. \A k \in rs : k \in Key /\ receiver[k].state = "open"
    BY <1>1, <1>2, <1>3, TakersAre
  <2>4. ASSUME NEW k \in Key
        PROVE  /\ n[k] \in ReceiverType /\ n[k].attached = receiver[k].attached /\ n[k].clean = receiver[k].clean
               /\ n[k].state = receiver[k].state /\ n[k].aborted = receiver[k].aborted
               /\ n[k].buffer = receiver[k].buffer /\ n[k].got = receiver[k].got /\ n[k].eof
    <3>1. receiver[k] \in ReceiverType
      BY ReceiverIs DEF IInv
    <3> QED
      BY <2>2, <3>1 DEF ReceiverType
  <2>5. receiver' = [k \in Key |-> IF k \in rs THEN n[k] ELSE receiver[k]] /\ pending' = pending
    BY <1>2, <1>10, <2>2 DEF FinishArrives
  <2>6. TakenBy(rs, n)
    BY <1>7, <2>3, <2>4, <2>5 DEF TakenBy
  <2>7. /\ ~Expected(h)'
        /\ receiver'[h].state = "open" /\ receiver'[h].clean =>
              receiver'[h] = n[h] /\ receiver[h].state = "open" /\ receiver[h].clean
        /\ Flows(h)' /\ Told(h)' => IInv'
    BY <1>1, <1>2, <1>3, <1>10, <2>6, TakenIs
  <2>8. ASSUME receiver'[h].state = "open", receiver'[h].clean
        PROVE  Reads(h, d)' /\ receiver'[h].eof
    <3>1. receiver'[h] = n[h] /\ Reads(h, d)
      BY <1>6, <2>7, <2>8
    <3>2. receiver'[h].got = receiver[h].got /\ receiver'[h].buffer = receiver[h].buffer /\ receiver'[h].eof
      BY <1>4, <2>4, <3>1
    <3> QED
      BY <1>9, <3>1, <3>2 DEF Reads
  <2>9. Flows(h)'
    BY <1>6, <1>7, <1>8, <2>7, <2>8 DEF Flows
  <2>10. Told(h)'
    BY <1>7, <2>7, <2>8 DEF Told
  <2> QED
    BY <2>7, <2>9, <2>10
<1>11. CASE rs = {}
  <2>1. PICK o : o = Entry
    OBVIOUS
  <2>2. /\ o \in EntryType /\ o.chunks = TheirEntry(h).chunks /\ o.finished = TheirEntry(h).finished
        /\ o.dead = TheirEntry(h).dead
        /\ Len(o.chunks) <= MaxPending /\ (o.chunks # <<>> => o.timer) /\ (o.dead => o.chunks = <<>>)
    BY <1>1, <1>3, <2>1, TheEntryIs
  <2>3. PICK e : e = IF o.dead THEN o ELSE [o EXCEPT !.finished = TRUE]
    OBVIOUS
  <2>4. /\ e \in EntryType /\ e.since = o.since /\ e.chunks = o.chunks /\ e.dead = o.dead /\ e.timer = o.timer
        /\ e.dead \/ e.finished
    BY <2>2, <2>3 DEF EntryType
  <2>5. pending' = [pending EXCEPT ![Here][Id] = e] /\ receiver' = receiver
    BY <1>2, <1>11, <2>1, <2>3 DEF FinishArrives
  <2>6. WaitsAs(e)
    BY <1>7, <2>1, <2>2, <2>4, <2>5 DEF WaitsAs
  <2>7. /\ receiver[h].state # "open" /\ TheirEntry(h)' = e /\ (Expected(h)' => Expected(h))
        /\ Flows(h)' /\ Told(h)' => IInv'
    BY <1>1, <1>2, <1>3, <1>11, <2>6, WaitsIs
  <2>8. Expected(h)' => Awaits(h, d)'
    <3>1. Awaits(h, d) => Awaits(h, d)'
      BY <1>9, <2>2, <2>4, <2>7 DEF Awaits
    <3> QED
      BY <1>6, <2>7, <3>1
  <2>9. Flows(h)'
    BY <1>6, <1>7, <1>8, <2>5, <2>7, <2>8 DEF Flows
  <2>10. Told(h)'
    BY <1>7, <2>4, <2>5, <2>7 DEF Told
  <2> QED
    BY <2>7, <2>9, <2>10
<1> QED
  BY <1>10, <1>11

LEMMA DestroyArrivesKeeps ==
    ASSUME IInv, DestroyArrives
    PROVE  IInv'
<1>1. PICK h : h = Head(wire).from
  OBVIOUS
<1>2. PICK rs : rs = Receivers(Here, Id)
  OBVIOUS
<1>3. Reaches /\ Head(wire).op = "destroy"
  BY DEF DestroyArrives, Arrives, Reaches
<1>4. /\ connected /\ h \in DOMAIN sender /\ h \in Key /\ Present(h) /\ wire[1].from = h /\ Head(wire) = wire[1]
      /\ sender[h].wrote \in Nat
  BY <1>1, <1>3, HeadIs
<1>5. Flows(h) /\ Told(h)
  BY <1>4 DEF IInv
<1>6. PICK d \in 0..sender[h].wrote : /\ Came(h, d) /\ (Expected(h) => Awaits(h, d))
                                      /\ receiver[h].state = "open" /\ receiver[h].clean => Reads(h, d)
  BY <1>5 DEF Flows
<1>7. sender' = sender /\ back' = back /\ UNCHANGED <<way, session, connected>>
  BY DEF DestroyArrives
<1>8. Came(h, d)'
  BY <1>3, <1>4, <1>6, <1>7, LastComes DEF IInv
<1>9. CASE rs # {}
  <2>1. PICK n : n = [k \in Key |-> Aborted(receiver[k])]
    OBVIOUS
  <2>2. \A k \in Key : n[k] = Aborted(receiver[k])
    BY <2>1
  <2>3. \A k \in rs : k \in Key /\ receiver[k].state = "open"
    BY <1>1, <1>2, <1>3, TakersAre
  <2>4. ASSUME NEW k \in Key
        PROVE  /\ n[k] \in ReceiverType /\ n[k].attached = receiver[k].attached /\ n[k].clean = receiver[k].clean
               /\ n[k].state = "broken" /\ n[k].aborted = receiver[k].aborted
    <3>1. receiver[k] \in ReceiverType
      BY ReceiverIs DEF IInv
    <3> QED
      BY <2>2, <3>1, AbortedIs
  <2>5. receiver' = [k \in Key |-> IF k \in rs THEN n[k] ELSE receiver[k]] /\ pending' = pending
    BY <1>2, <1>9, <2>2 DEF DestroyArrives
  <2>6. TakenBy(rs, n)
    BY <1>7, <2>3, <2>4, <2>5 DEF TakenBy
  <2>7. /\ ~Expected(h)'
        /\ receiver'[h].state = "open" /\ receiver'[h].clean => receiver'[h] = n[h]
        /\ Flows(h)' /\ Told(h)' => IInv'
    BY <1>1, <1>2, <1>3, <1>9, <2>6, TakenIs
  <2>8. ~(receiver'[h].state = "open" /\ receiver'[h].clean)
    <3>1. n[h].state = "broken"
      BY <1>4, <2>4
    <3> QED
      BY <2>7, <3>1
  <2>9. Flows(h)'
    BY <1>6, <1>7, <1>8, <2>7, <2>8 DEF Flows
  <2>10. Told(h)'
    BY <1>7, <2>7, <2>8 DEF Told
  <2> QED
    BY <2>7, <2>9, <2>10
<1>10. CASE rs = {}
  <2>1. PICK o : o = Entry
    OBVIOUS
  <2>2. o \in EntryType /\ Len(o.chunks) <= MaxPending
    BY <1>1, <1>3, <2>1, TheEntryIs
  <2>3. PICK e : e = [o EXCEPT !.dead = TRUE, !.chunks = <<>>]
    OBVIOUS
  <2>4. e \in EntryType /\ e.since = o.since /\ e.chunks = <<>> /\ e.dead /\ Len(e.chunks) <= MaxPending
    <3>1. <<>> \in Seq(Chunk) /\ Len(<<>>) = 0
      OBVIOUS
    <3>2. e \in EntryType /\ e.since = o.since /\ e.chunks = <<>> /\ e.dead
      BY <2>2, <2>3, <3>1 DEF EntryType
    <3> QED
      BY <3>1, <3>2, Bounds
  <2>5. pending' = [pending EXCEPT ![Here][Id] = e] /\ receiver' = receiver
    BY <1>2, <1>10, <2>1, <2>3 DEF DestroyArrives
  <2>6. WaitsAs(e)
    BY <1>7, <2>1, <2>4, <2>5 DEF WaitsAs
  <2>7. /\ receiver[h].state # "open" /\ TheirEntry(h)' = e
        /\ Flows(h)' /\ Told(h)' => IInv'
    BY <1>1, <1>2, <1>3, <1>10, <2>6, WaitsIs
  <2>8. Awaits(h, d)'
    BY <2>4, <2>7 DEF Awaits
  <2>9. Flows(h)'
    BY <1>6, <1>7, <1>8, <2>5, <2>7, <2>8 DEF Flows
  <2>10. Told(h)'
    BY <1>7, <2>4, <2>5, <2>7 DEF Told
  <2> QED
    BY <2>7, <2>9, <2>10
<1> QED
  BY <1>9, <1>10

\* What waited too long is dropped: its number is known to be lost.
LEMMA ExpireKeeps ==
    ASSUME IInv, NEW home \in Session, NEW id \in Key, Expire(home, id)
    PROVE  IInv'
<1>1. PICK o : o = pending[home][id]
  OBVIOUS
<1>2. o \in EntryType /\ o.timer /\ o.since \in Nat /\ Kept(home, id)
  BY <1>1, EntryIs DEF IInv, Expire
<1>3. o.since # 0
  BY <1>1, <1>2 DEF Kept, NoEntry
<1>4. PICK e : e = [o EXCEPT !.timer = FALSE, !.dead = TRUE, !.chunks = <<>>]
  OBVIOUS
<1>5. e \in EntryType /\ e.since = o.since /\ e.chunks = <<>> /\ e.dead /\ Len(e.chunks) = 0
  <2>1. <<>> \in Seq(Chunk) /\ Len(<<>>) = 0
    OBVIOUS
  <2> QED
    BY <1>2, <1>4, <2>1 DEF EntryType
<1>6. Puts(home, id, e) /\ UNCHANGED <<way, session, connected, sender, receiver, wire, back>>
  BY <1>1, <1>4, TypesAre DEF Expire, Puts, IInv
<1>7. /\ pending' \in [Session -> [Key -> EntryType]] /\ pending'[home][id] = e
      /\ \A t \in Session, j \in Key : t # home \/ j # id => pending'[t][j] = pending[t][j]
  BY <1>5, <1>6, EntryAt DEF IInv
<1>8. \A j \in Key : receiver[j].aborted => receiver[j].state = "broken"
  BY DEF IInv, Receives
<1>9. QuietStep
  BY <1>6, <1>7, <1>8, TypesAre DEF QuietStep, IInv
<1>10. \A s \in Session, j \in Key : Kept(s, j)'
  <2>1. Kept(home, id)'
    <3>1. \A k \in DOMAIN sender : Present(k) => Present(k)' /\ Home(k)' = Home(k)
      BY <1>9, QuietView
    <3> QED
      BY <1>1, <1>2, <1>3, <1>5, <1>6, <1>7, <3>1, Bounds DEF Kept
  <2>2. \A s \in Session, j \in Key : s # home \/ j # id => Kept(s, j)'
    BY <1>7, <1>9, KeptStays
  <2> QED
    BY <2>1, <2>2
<1>11. OnWire' /\ OnWayBack'
  <2>1. OnWire'
    BY <1>6 DEF IInv, OnWire, Present
  <2> QED
    BY <1>6, <1>9, <2>1, QuietKeeps
<1>12. ASSUME NEW k \in DOMAIN sender, Present(k), connected
       PROVE  Flows(k)' /\ Told(k)'
  <2>1. Home(k) \in Session /\ sender[k].id \in Key
    BY HomeIs, SenderIs DEF IInv
  <2>2. TheirEntry(k)' = pending'[Home(k)][sender[k].id]
    BY <1>6, <1>9, QuietView DEF TheirEntry
  <2>3. \/ TheirEntry(k)' = TheirEntry(k)
        \/ TheirEntry(k)' = e /\ TheirEntry(k) = o
    BY <1>1, <1>7, <2>1, <2>2 DEF TheirEntry
  <2>4. Expected(k)' <=> Expected(k)
    <3>1. Alone(k)' <=> Alone(k)
      BY <1>9, QuietView
    <3> QED
      BY <1>5, <1>6, <2>3, <3>1 DEF Expected
  <2>5. \A d : (Came(k, d)' <=> Came(k, d)) /\ (Reads(k, d)' <=> Reads(k, d)) /\ (EndComes(k)' <=> EndComes(k))
    BY <1>6 DEF Came, Reads, Complete, EndComes
  <2>6. \A d : Awaits(k, d) => Awaits(k, d)'
    BY <1>5, <1>6, <2>3 DEF Awaits, Complete
  <2>7. Flows(k) /\ Told(k)
    BY <1>12 DEF IInv
  <2>8. Flows(k)'
    BY <1>6, <2>4, <2>5, <2>6, <2>7 DEF Flows
  <2>9. Told(k)'
    BY <1>5, <1>6, <2>3, <2>4, <2>5, <2>7 DEF Told
  <2> QED
    BY <2>8, <2>9
<1>13. \A k \in DOMAIN sender : Stopped(k)'
  BY <1>6 DEF IInv, Stopped
<1>14. \A k \in DOMAIN sender : (Present(k) /\ connected => Flows(k)' /\ Told(k)') /\ Stopped(k)'
  BY <1>12, <1>13
<1> QED
  BY <1>9, <1>10, <1>11, <1>14, QuietThen

-----------------------------------------------------------------------------
(* New receivers and senders. *)

LEMMA CreateReceiverKeeps ==
    ASSUME IInv, NEW k \in Key, CreateReceiver(k)
    PROVE  IInv'
<1> DEFINE home == Home(k)
           id == sender[k].id
<1>1. /\ k \in DOMAIN sender /\ receiver[k].told /\ receiver[k].state = "none" /\ Receivers(home, id) = {}
      /\ UNCHANGED <<way, session, connected, sender, wire>>
  BY DEF CreateReceiver
<1>2. home \in Session /\ id \in Key /\ (sender[k].session = session => home = Here)
  BY <1>1, HomeIs, SenderIs DEF IInv
<1>3. PICK e : e = pending[home][id]
  OBVIOUS
<1>4. e \in EntryType /\ e = TheirEntry(k) /\ e.chunks \in Seq(Chunk)
  BY <1>2, <1>3, EntryIs DEF IInv, TheirEntry, EntryType
<1>5. PICK a : a = IF connected /\ home = Here THEN session ELSE 0
  OBVIOUS
<1>6. PICK c : c = Untouched(k)
  OBVIOUS
<1>7. session \in Session /\ session \in Nat /\ session # 0 /\ connected \in BOOLEAN
  BY TypesAre, Bounds DEF IInv
<1>8. a \in {0} \cup Session /\ c \in BOOLEAN
  BY <1>5, <1>6, <1>7 DEF Untouched
<1>9. PICK o : o = receiver[k]
  OBVIOUS
<1>10. o \in ReceiverType /\ ~o.aborted /\ o.got = <<>>
  BY <1>1, <1>9, ReceiverIs DEF IInv, Receives
<1>11. PICK r : r = [o EXCEPT !.state = "open", !.buffer = e.chunks, !.eof = e.finished, !.attached = a, !.clean = c]
  OBVIOUS
<1>12. /\ r \in ReceiverType /\ r.state = "open" /\ r.buffer = e.chunks /\ r.eof = e.finished /\ r.attached = a
       /\ r.clean = c /\ ~r.aborted /\ r.got = <<>>
  BY <1>4, <1>8, <1>10, <1>11 DEF ReceiverType, EntryType
<1>13. PICK n : n = IF e.dead THEN [Aborted(r) EXCEPT !.aborted = TRUE] ELSE r
  OBVIOUS
<1>14. /\ n \in ReceiverType /\ n.attached = a /\ n.clean = c /\ n.got = <<>>
       /\ e.dead => n.state = "broken" /\ n.aborted
       /\ ~e.dead => n.state = "open" /\ ~n.aborted /\ n.buffer = e.chunks /\ n.eof = e.finished
  <2>1. CASE e.dead
    <3>1. PICK b : b = Aborted(r)
      OBVIOUS
    <3>2. b \in ReceiverType /\ b.attached = a /\ b.clean = c /\ b.got = <<>> /\ b.state = "broken"
      BY <1>12, <3>1, AbortedIs
    <3>3. n = [b EXCEPT !.aborted = TRUE]
      BY <1>13, <2>1, <3>1
    <3> QED
      BY <2>1, <3>2, <3>3 DEF ReceiverType
  <2>2. CASE ~e.dead
    BY <1>12, <1>13, <2>2
  <2> QED
    BY <2>1, <2>2
<1>15. /\ receiver' = [receiver EXCEPT ![k] = n] /\ pending' = [pending EXCEPT ![home][id] = NoEntry]
       /\ e.dead => SendsBack(k)
       /\ ~e.dead => back' = back
  BY <1>3, <1>5, <1>6, <1>9, <1>11, <1>13 DEF CreateReceiver
<1> HIDE DEF home, id
<1>16. /\ receiver' \in [Key -> ReceiverType] /\ receiver'[k] = n
       /\ \A j \in Key : j # k => receiver'[j] = receiver[j]
  BY <1>14, <1>15, TypesAre DEF IInv
<1>17. NoEntry \in EntryType /\ NoEntry.since = 0 /\ NoEntry.chunks = <<>> /\ Len(NoEntry.chunks) = 0
  BY DEF NoEntry, EntryType
<1>18. /\ pending' \in [Session -> [Key -> EntryType]] /\ pending'[home][id] = NoEntry
       /\ \A t \in Session, j \in Key : t # home \/ j # id => pending'[t][j] = pending[t][j]
  <2>1. Puts(home, id, NoEntry)
    BY <1>15 DEF Puts
  <2>2. PICK z \in EntryType : z = NoEntry
    BY <1>17
  <2> QED
    BY <1>2, <2>1, <2>2, EntryAt DEF IInv
<1>19. \A j \in DOMAIN sender : j \in Key
  BY SenderIs DEF IInv
<1>20. /\ Here' = Here
       /\ \A j \in DOMAIN sender : Home(j)' = Home(j) /\ (Present(j)' <=> Present(j))
       /\ \A i, j \in DOMAIN sender : Rivals(i, j)' <=> Rivals(i, j)
  BY <1>1 DEF Here, Home, Present, Rivals
<1>21. /\ \A j \in DOMAIN sender : j # k => (Past(j)' <=> Past(j))
       /\ ~Past(k)'
  <2>1. \A j \in DOMAIN sender : j # k => (Past(j)' <=> Past(j))
    BY <1>1, <1>16, <1>19 DEF Past
  <2>2. ~Past(k)'
    BY <1>1, <1>5, <1>7, <1>14, <1>16 DEF Past
  <2> QED
    BY <2>1, <2>2
<1>22. /\ Alone(k)' <=> Alone(k)
       /\ \A j \in DOMAIN sender : j # k /\ Rivals(k, j) => ~Alone(j)'
       /\ \A j \in DOMAIN sender : ~Rivals(k, j) => (Alone(j)' <=> Alone(j))
  <2>1. Alone(k)' <=> Alone(k)
    BY <1>1, <1>20, <1>21 DEF Alone
  <2>2. \A j \in DOMAIN sender : j # k /\ Rivals(k, j) => ~Alone(j)'
    BY <1>1, <1>20, <1>21 DEF Alone
  <2>3. \A j \in DOMAIN sender : ~Rivals(k, j) => (Alone(j)' <=> Alone(j))
    BY <1>1, <1>20, <1>21 DEF Alone
  <2> QED
    BY <2>1, <2>2, <2>3
<1>23. c => Expected(k) /\ a = session
  <2>1. SUFFICES ASSUME Untouched(k) PROVE Expected(k) /\ a = session
    BY <1>6
  <2>2. /\ connected /\ sender[k].session = session /\ e.since \in {0, session}
        /\ \A j \in DOMAIN sender \ {k} :
              sender[j].id = sender[k].id /\ Home(j) = Home(k) =>
                receiver[j].state = "none" \/ receiver[j].attached \in 1..(session - 1)
    BY <1>4, <2>1 DEF Untouched, TheirEntry
  <2>3. Alone(k)
    BY <2>2 DEF Alone, Rivals, Past
  <2> QED
    BY <1>1, <1>2, <1>4, <1>5, <2>2, <2>3 DEF Expected
<1>24. TypeOK'
  <2>1. back' \in Seq(Key)
    BY <1>1, <1>15, BackGrows, TypesAre DEF IInv
  <2> QED
    BY <1>1, <1>16, <1>18, <2>1, TypesAre, TypesThen DEF IInv
<1>25. Senders'
  BY <1>1 DEF IInv, Senders, NextId
<1>26. \A j \in DOMAIN sender : j # k /\ receiver[j].state = "open" => ~Rivals(j, k) /\ ~Rivals(k, j)
  BY <1>1 DEF Receivers, Rivals, home, id
<1>27. ASSUME NEW j \in Key
       PROVE  Receives(j)'
  <2>1. CASE j = k
    <3>1. a <= session /\ (a = 0 \/ (connected /\ a = session))
      BY <1>5, <1>7
    <3>2. c => Alone(k)' /\ a = session
      BY <1>22, <1>23 DEF Expected
    <3> QED
      BY <1>1, <1>14, <1>16, <2>1, <3>1, <3>2 DEF Receives
  <2>2. CASE j # k
    <3>1. receiver'[j] = receiver[j] /\ Receives(j)
      BY <1>16, <2>2 DEF IInv
    <3>2. receiver[j].state = "open" /\ receiver[j].clean => Alone(j)'
      <4>1. receiver[j].state = "open" /\ receiver[j].clean => Alone(j) /\ j \in DOMAIN sender
        BY <3>1 DEF Receives, NoReceiver
      <4> QED
        BY <1>22, <1>26, <2>2, <4>1
    <3> QED
      BY <1>1, <3>1, <3>2 DEF Receives
  <2> QED
    BY <2>1, <2>2
<1>28. OneOpen'
  BY <1>1, <1>16, <1>19, <1>20, <1>26 DEF IInv, OneOpen
<1>29. ASSUME NEW s \in Session, NEW i \in Key
       PROVE  Kept(s, i)'
  <2>1. CASE s = home /\ i = id
    <3>1. pending'[s][i] = NoEntry
      BY <1>18, <2>1
    <3> QED
      BY <1>1, <1>7, <1>17, <3>1, Bounds DEF Kept
  <2>2. CASE s # home \/ i # id
    <3>1. pending'[s][i] = pending[s][i] /\ Kept(s, i)
      BY <1>18, <2>2 DEF IInv
    <3> QED
      BY <1>1, <1>20, <3>1 DEF Kept
  <2> QED
    BY <2>1, <2>2
<1>30. OnWire'
  BY <1>1 DEF IInv, OnWire, Present
<1>31. e.dead =>
         /\ \A i \in DOMAIN back : i \in DOMAIN back' /\ back'[i] = back[i]
         /\ \A i \in DOMAIN back' : (i \in DOMAIN back /\ back'[i] = back[i])
                                    \/ (connected /\ Home(k) = Here /\ back'[i] = sender[k].id)
         /\ sender[k].state = "open" => \E i \in DOMAIN back' : back'[i] = sender[k].id
  BY <1>1, <1>15, BackGrows
<1>32. OnWayBack'
  <2>1. SUFFICES ASSUME NEW i \in DOMAIN back'
                 PROVE  connected /\ \E j \in DOMAIN sender : sender[j].id = back'[i] /\ Home(j)' = Here'
                                                        /\ receiver'[j].state = "broken" /\ ~Past(j)'
    BY <1>1 DEF OnWayBack
  <2>2. CASE i \in DOMAIN back /\ back'[i] = back[i]
    <3>1. PICK j \in DOMAIN sender : connected /\ sender[j].id = back[i] /\ Home(j) = Here /\ receiver[j].state = "broken" /\ ~Past(j)
      BY <2>2 DEF IInv, OnWayBack
    <3>2. j # k
      BY <1>1, <3>1
    <3> QED
      BY <1>16, <1>19, <1>20, <1>21, <2>2, <3>1, <3>2
  <2>3. CASE e.dead /\ connected /\ Home(k) = Here /\ back'[i] = sender[k].id
    BY <1>1, <1>14, <1>16, <1>20, <1>21, <2>3
  <2> QED
    BY <1>15, <1>31, <2>1, <2>2, <2>3
<1>33. ASSUME NEW j \in DOMAIN sender, Present(j), connected, j # k
       PROVE  Flows(j)' /\ Told(j)'
  <2>1. receiver'[j] = receiver[j] /\ Flows(j) /\ Told(j)
    BY <1>16, <1>19, <1>33 DEF IInv
  <2>2. Expected(j)' => Expected(j) /\ TheirEntry(j)' = TheirEntry(j)
    <3>1. SUFFICES ASSUME Expected(j)' PROVE Expected(j) /\ TheirEntry(j)' = TheirEntry(j)
      OBVIOUS
    <3>2. ~Rivals(k, j)
      BY <1>22, <1>33, <3>1 DEF Expected
    <3>3. Home(j) \in Session /\ sender[j].id \in Key /\ (Home(j) # home \/ sender[j].id # id)
      BY <3>2, HomeIs, SenderIs DEF IInv, Rivals, home, id
    <3>4. TheirEntry(j)' = TheirEntry(j)
      BY <1>1, <1>18, <1>20, <3>3 DEF TheirEntry
    <3>5. Alone(j)
      BY <1>22, <3>1, <3>2 DEF Expected
    <3> QED
      BY <1>1, <2>1, <3>1, <3>4, <3>5 DEF Expected
  <2>3. \A d : (Came(j, d)' <=> Came(j, d)) /\ (Reads(j, d)' <=> Reads(j, d)) /\ (EndComes(j)' <=> EndComes(j))
    BY <1>1, <2>1 DEF Came, Reads, Complete, EndComes
  <2>4. TheirEntry(j)' = TheirEntry(j) => \A d : Awaits(j, d) => Awaits(j, d)'
    BY <1>1 DEF Awaits, Complete
  <2>5. Flows(j)'
    BY <1>1, <2>1, <2>2, <2>3, <2>4 DEF Flows
  <2>6. Told(j)'
    BY <1>1, <2>1, <2>2, <2>3 DEF Told
  <2> QED
    BY <2>5, <2>6
<1>34. ASSUME Present(k), connected
       PROVE  Flows(k)' /\ Told(k)'
  <2>1. Flows(k) /\ Told(k)
    BY <1>1, <1>34 DEF IInv
  <2>2. PICK d \in 0..sender[k].wrote : Came(k, d) /\ (Expected(k) => Awaits(k, d))
    BY <2>1 DEF Flows
  <2>3. ~Expected(k)'
    BY <1>14, <1>16 DEF Expected
  <2>4. Came(k, d)' /\ (EndComes(k)' <=> EndComes(k))
    BY <1>1, <2>2 DEF Came, EndComes
  <2>5. ASSUME receiver'[k].state = "open", receiver'[k].clean
        PROVE  Reads(k, d)' /\ (sender[k].state # "open" => receiver'[k].eof \/ EndComes(k))
    <3>1. ~e.dead /\ c /\ n.buffer = e.chunks /\ n.eof = e.finished
      BY <1>14, <1>16, <2>5
    <3>2. Expected(k) /\ Awaits(k, d)
      BY <1>23, <2>2, <3>1
    <3>3. Chunks(e.chunks, k, 0) /\ Len(e.chunks) = d /\ (e.finished => Complete(k, d))
      BY <1>4, <3>1, <3>2 DEF Awaits
    <3>4. Reads(k, d)'
      <4>1. receiver'[k].got = <<>> /\ receiver'[k].buffer = e.chunks /\ (receiver'[k].eof <=> e.finished)
        BY <1>14, <1>16, <3>1
      <4>2. Chunks(<<>>, k, 0) /\ Len(<<>>) = 0
        BY DEF Chunks
      <4>3. d \in Nat
        BY <1>4, <3>3
      <4>4. 0 + d = d
        BY <4>3
      <4> QED
        BY <1>1, <3>3, <4>1, <4>2, <4>4 DEF Reads, Complete
    <3>5. sender[k].state # "open" => receiver'[k].eof \/ EndComes(k)
      BY <1>4, <1>16, <2>1, <3>1, <3>2 DEF Told
    <3> QED
      BY <3>4, <3>5
  <2>6. Flows(k)'
    BY <1>1, <2>2, <2>3, <2>4, <2>5 DEF Flows
  <2>7. Told(k)'
    BY <1>1, <2>3, <2>4, <2>5 DEF Told
  <2> QED
    BY <2>6, <2>7
<1>35. ASSUME NEW j \in DOMAIN sender
       PROVE  Stopped(j)'
  <2>1. Stopped(j)
    BY DEF IInv
  <2>2. \A i \in DOMAIN back : \E m \in DOMAIN back' : back'[m] = back[i]
    BY <1>15, <1>31
  <2>3. CASE j = k
    BY <1>1, <1>14, <1>16, <1>31, <2>3 DEF Stopped
  <2>4. CASE j # k
    <3>1. receiver'[j] = receiver[j]
      BY <1>16, <1>19, <2>4
    <3> QED
      BY <1>1, <2>1, <2>2, <3>1 DEF Stopped
  <2> QED
    BY <2>3, <2>4
<1>36. \A j \in DOMAIN sender' : (Present(j)' /\ connected' => Flows(j)' /\ Told(j)') /\ Stopped(j)'
  BY <1>1, <1>20, <1>33, <1>34, <1>35
<1> QED
  BY <1>24, <1>25, <1>27, <1>28, <1>29, <1>30, <1>32, <1>36 DEF IInv

\* One more of the connection's senders, for the way down.
LEMMA NextGrows ==
    ASSUME IInv, NEW r, r.session = session, sender' = Append(sender, r), UNCHANGED <<way, session>>
    PROVE  NextId' = NextId + 1
<1>1. PICK n \in Nat : n = Len(sender) /\ DOMAIN sender = 1..n /\ n + 1 \notin DOMAIN sender
  BY TypesAre DEF IInv
<1>2. /\ Len(sender') = n + 1 /\ DOMAIN sender' = 1..(n + 1) /\ sender'[n + 1] = r
      /\ \A i \in DOMAIN sender : sender'[i] = sender[i]
  BY <1>1, TypesAre DEF IInv
<1>3. CASE way = "up"
  BY <1>1, <1>2, <1>3 DEF NextId
<1>4. CASE way # "up"
  <2>1. PICK C : C = Currents
    OBVIOUS
  <2>2. IsFiniteSet(C) /\ Cardinality(C) \in Nat /\ NextId = Cardinality(C) + 1
    BY <1>4, <2>1, NextIs DEF IInv
  <2>3. n + 1 \notin C
    BY <1>1, <2>1 DEF Currents
  <2>4. {k \in DOMAIN sender' : sender'[k].session = session'} = C \cup {n + 1}
    <3>1. \A k : k \in DOMAIN sender' <=> k \in DOMAIN sender \/ k = n + 1
      BY <1>1, <1>2
    <3>2. \A k : k \in DOMAIN sender' /\ sender'[k].session = session' <=> k \in C \/ k = n + 1
      BY <1>1, <1>2, <2>1, <3>1 DEF Currents
    <3> QED
      BY <3>2
  <2>5. Cardinality(C \cup {n + 1}) = Cardinality(C) + 1
    BY <2>2, <2>3, FS_AddElement
  <2>6. NextId' = Cardinality({k \in DOMAIN sender' : sender'[k].session = session'}) + 1
    BY <1>4 DEF NextId
  <2> QED
    BY <2>2, <2>4, <2>5, <2>6
<1> QED
  BY <1>3, <1>4

LEMMA CreateSenderKeeps ==
    ASSUME IInv, CreateSender
    PROVE  IInv'
<1>1. PICK n \in Nat : n = Len(sender) /\ DOMAIN sender = 1..n /\ n + 1 \notin DOMAIN sender
  BY TypesAre DEF IInv
<1>2. connected /\ n < MaxSenders /\ UNCHANGED <<way, session, connected, receiver, pending, wire, back>>
  BY <1>1 DEF CreateSender
<1>3. PICK k : k = n + 1
  OBVIOUS
<1>4. k \in Key /\ k \notin DOMAIN sender
  BY <1>1, <1>2, <1>3, Bounds DEF Key
<1>5. PICK x : x = NextId
  OBVIOUS
<1>6. x \in Nat /\ x # 0 /\ x <= n + 1 /\ (way = "up" => x = k)
  BY <1>1, <1>3, <1>5, NextIs DEF IInv
<1>7. x \in Key
  BY <1>2, <1>6, <1>1, Bounds DEF Key
<1>8. PICK r : r = [id |-> x, session |-> session, wrote |-> 0, busy |-> FALSE, state |-> "open"]
  OBVIOUS
<1>9. r \in SenderType /\ r.id = x /\ r.session = session /\ r.wrote = 0 /\ r.state = "open"
  BY <1>7, <1>8, Bounds, TypesAre DEF IInv, SenderType
<1>10. sender' = Append(sender, r)
  BY <1>5, <1>8 DEF CreateSender
<1>11. /\ sender' \in Seq(SenderType) /\ Len(sender') = k /\ DOMAIN sender' = DOMAIN sender \cup {k} /\ sender'[k] = r
       /\ \A j \in DOMAIN sender : sender'[j] = sender[j] /\ j # k
  BY <1>1, <1>3, <1>9, <1>10, TypesAre DEF IInv
<1>12. NextId' = x + 1
  BY <1>2, <1>5, <1>9, <1>10, NextGrows
<1>13. TypeOK'
  BY <1>2, <1>11, TypesAre, TypesThen DEF IInv
<1>14. /\ Here' = Here /\ Home(k)' = Here
       /\ \A j \in DOMAIN sender : Home(j)' = Home(j) /\ (Present(j)' <=> Present(j)) /\ TheirEntry(j)' = TheirEntry(j)
  BY <1>2, <1>9, <1>11 DEF Here, Home, Present, TheirEntry
<1>15. \A i, j \in DOMAIN sender : Rivals(i, j)' <=> Rivals(i, j)
  BY <1>11, <1>14 DEF Rivals
<1>16. receiver'[k] = NoReceiver /\ receiver[k] = NoReceiver /\ NoReceiver.state = "none" /\ ~NoReceiver.aborted
  BY <1>2, <1>4 DEF IInv, Receives, NoReceiver
<1>17. \A j : Past(j)' <=> Past(j)
  BY <1>2 DEF Past
<1>18. \A j \in DOMAIN sender : Alone(j)' <=> Alone(j)
  <2>1. Past(k)'
    BY <1>16 DEF Past
  <2>2. SUFFICES ASSUME NEW j \in DOMAIN sender PROVE Alone(j)' <=> Alone(j)
    OBVIOUS
  <2>3. sender'[j] = sender[j] /\ j # k
    BY <1>11
  <2> QED
    BY <1>2, <1>11, <1>15, <1>17, <2>1, <2>3 DEF Alone
<1>19. \A j \in DOMAIN sender : sender[j].session = session => sender[j].id < x
  BY <1>5 DEF IInv, Senders
<1>20. Senders'
  <2>1. Len(sender') <= MaxSenders
    BY <1>4, <1>11, Bounds
  <2>2. ASSUME NEW j \in DOMAIN sender'
        PROVE  /\ sender'[j].session <= session'
               /\ sender'[j].state = "open" => connected' /\ sender'[j].session = session'
               /\ way' = "up" => sender'[j].id = j
               /\ sender'[j].session = session' => sender'[j].id < NextId'
    <3>1. CASE j = k
      BY <1>2, <1>6, <1>9, <1>11, <1>12, <3>1, TypesAre, Bounds DEF IInv
    <3>2. CASE j \in DOMAIN sender
      <4>1. sender'[j] = sender[j] /\ sender[j].id \in Nat
        BY <1>11, <3>2, SenderIs, Bounds DEF IInv
      <4>2. sender[j].session = session => sender[j].id < x + 1
        BY <1>6, <1>19, <3>2, <4>1
      <4> QED
        BY <1>2, <1>12, <3>2, <4>1, <4>2 DEF IInv, Senders
    <3> QED
      BY <1>11, <3>1, <3>2
  <2>3. ASSUME NEW i \in DOMAIN sender', NEW j \in DOMAIN sender',
               sender'[i].session = sender'[j].session, sender'[i].id = sender'[j].id
        PROVE  i = j
    <3>1. \A m \in DOMAIN sender : ~(sender[m].session = session /\ sender[m].id = x)
      BY <1>6, <1>19
    <3>2. CASE i \in DOMAIN sender /\ j \in DOMAIN sender
      BY <1>11, <2>3, <3>2 DEF IInv, Senders
    <3>3. CASE i = k \/ j = k
      BY <1>9, <1>11, <2>3, <3>1, <3>3
    <3> QED
      BY <1>11, <3>2, <3>3
  <2> QED
    BY <2>1, <2>2, <2>3 DEF Senders
<1>21. ASSUME NEW j \in Key
       PROVE  Receives(j)'
  <2>1. CASE j = k
    <3>1. receiver'[j] = NoReceiver /\ NoReceiver.attached = 0 /\ ~NoReceiver.clean /\ NoReceiver.got = <<>>
      BY <1>16, <2>1 DEF NoReceiver
    <3>2. 0 <= session'
      BY <1>2, TypesAre, Bounds DEF IInv
    <3> QED
      BY <1>16, <3>1, <3>2 DEF Receives
  <2>2. CASE j # k
    <3>1. receiver'[j] = receiver[j] /\ Receives(j) /\ (j \in DOMAIN sender' <=> j \in DOMAIN sender)
      BY <1>2, <1>11, <2>2 DEF IInv
    <3>2. receiver[j].state = "open" /\ receiver[j].clean => Alone(j)'
      <4>1. receiver[j].state = "open" /\ receiver[j].clean => Alone(j) /\ j \in DOMAIN sender
        BY <3>1 DEF Receives, NoReceiver
      <4> QED
        BY <1>18, <4>1
    <3> QED
      BY <1>2, <3>1, <3>2 DEF Receives
  <2> QED
    BY <2>1, <2>2
<1>22. OneOpen'
  <2>1. \A j \in DOMAIN sender' : receiver'[j].state = "open" => j \in DOMAIN sender /\ receiver[j].state = "open"
    BY <1>2, <1>11, <1>16
  <2> QED
    BY <1>15, <2>1 DEF IInv, OneOpen
<1>23. ASSUME NEW s \in Session, NEW i \in Key
       PROVE  Kept(s, i)'
  <2>1. Kept(s, i)
    BY DEF IInv
  <2>2. \A j \in DOMAIN sender : j \in DOMAIN sender' /\ (Present(j) => Present(j)') /\ sender'[j].id = sender[j].id /\ Home(j)' = Home(j)
    BY <1>11, <1>14
  <2> QED
    BY <1>2, <2>1, <2>2 DEF Kept
<1>24. OnWire'
  <2>1. SUFFICES ASSUME NEW i \in DOMAIN wire
                 PROVE  /\ connected /\ Present(wire[i].from)'
                        /\ wire[i].op = "finish" => sender'[wire[i].from].state = "ended"
                        /\ wire[i].op = "destroy" => sender'[wire[i].from].state = "broken"
    BY <1>2 DEF OnWire
  <2>2. /\ Present(wire[i].from) /\ wire[i].from \in DOMAIN sender
        /\ wire[i].op = "finish" => sender[wire[i].from].state = "ended"
        /\ wire[i].op = "destroy" => sender[wire[i].from].state = "broken"
    BY DEF IInv, OnWire, Present
  <2> QED
    BY <1>2, <1>11, <1>14, <2>2
<1>25. OnWayBack'
  <2>1. SUFFICES ASSUME NEW i \in DOMAIN back
                 PROVE  connected /\ \E j \in DOMAIN sender' : sender'[j].id = back[i] /\ Home(j)' = Here'
                                                        /\ receiver'[j].state = "broken" /\ ~Past(j)'
    BY <1>2 DEF OnWayBack
  <2>2. PICK j \in DOMAIN sender : connected /\ sender[j].id = back[i] /\ Home(j) = Here /\ receiver[j].state = "broken" /\ ~Past(j)
    BY DEF IInv, OnWayBack
  <2> QED
    BY <1>2, <1>11, <1>14, <1>17, <2>2
<1>26. ASSUME NEW j \in DOMAIN sender
       PROVE  (Present(j) /\ connected => Flows(j)' /\ Told(j)') /\ Stopped(j)'
  <2>1. sender'[j] = sender[j] /\ (Present(j) /\ connected => Flows(j) /\ Told(j)) /\ Stopped(j)
    BY <1>11 DEF IInv
  <2>2. Expected(j)' <=> Expected(j)
    BY <1>2, <1>14, <1>18 DEF Expected
  <2>3. /\ \A d : (Came(j, d)' <=> Came(j, d)) /\ (Reads(j, d)' <=> Reads(j, d)) /\ (Awaits(j, d)' <=> Awaits(j, d))
        /\ EndComes(j)' <=> EndComes(j)
    BY <1>2, <1>14, <2>1 DEF Came, Reads, Awaits, Complete, EndComes
  <2>4. Flows(j) => Flows(j)'
    BY <1>2, <2>1, <2>2, <2>3 DEF Flows
  <2>5. Told(j) => Told(j)'
    BY <1>2, <1>14, <2>1, <2>2, <2>3 DEF Told
  <2>6. Stopped(j)'
    BY <1>2, <2>1 DEF Stopped
  <2> QED
    BY <2>1, <2>4, <2>5, <2>6
<1>27. Flows(k)' /\ Told(k)' /\ Stopped(k)'
  <2>1. \A i \in DOMAIN wire : wire[i].from # k
    BY <1>4 DEF IInv, OnWire, Present
  <2>2. Came(k, 0)'
    <3>1. (0 + 1)..sender'[k].wrote = {}
      BY <1>9, <1>11
    <3> QED
      BY <1>2, <2>1, <3>1 DEF Came
  <2>3. Expected(k)' => Awaits(k, 0)'
    <3>1. PICK e : e = pending[Here][x]
      OBVIOUS
    <3>2. TheirEntry(k)' = e
      BY <1>2, <1>9, <1>11, <1>14, <3>1 DEF TheirEntry
    <3>3. Here \in Session /\ Kept(Here, x)
      BY <1>7, HereIs DEF IInv
    <3>4. e.since # session
      BY <1>6, <1>19, <3>1, <3>3 DEF Kept, Present
    <3>5. e.since = 0 => e = NoEntry
      BY <3>1, <3>3 DEF Kept
    <3>6. NoEntry.chunks = <<>> /\ ~NoEntry.finished /\ Len(<<>>) = 0 /\ Chunks(<<>>, k, 0)
      BY DEF NoEntry, Chunks
    <3> QED
      BY <1>2, <3>2, <3>4, <3>5, <3>6 DEF Expected, Awaits
  <2>4. Flows(k)'
    <3>1. 0 \in 0..sender'[k].wrote
      BY <1>9, <1>11
    <3> QED
      BY <1>16, <2>2, <2>3, <3>1 DEF Flows
  <2> QED
    BY <1>9, <1>11, <1>16, <2>4 DEF Told, Stopped
<1>28. \A j \in DOMAIN sender' : (Present(j)' /\ connected' => Flows(j)' /\ Told(j)') /\ Stopped(j)'
  BY <1>2, <1>11, <1>14, <1>26, <1>27
<1> QED
  BY <1>13, <1>20, <1>21, <1>22, <1>23, <1>24, <1>25, <1>28 DEF IInv

-----------------------------------------------------------------------------
(* Connections. *)

\* No sender is open, and nothing is on its way: the rest of IInv follows for whoever is left.
Silence == /\ \A k \in DOMAIN sender : sender[k].state # "open"
           /\ wire = <<>> /\ back = <<>>

LEMMA SilenceThen ==
    ASSUME Silence', TypeOK', Senders', OneOpen', \A k \in Key : Receives(k)',
           \A s \in Session, id \in Key : Kept(s, id)', \A k \in DOMAIN sender' : ~(Present(k)' /\ connected')
    PROVE  IInv'
<1>1. OnWire' /\ OnWayBack'
  <2>1. DOMAIN wire' = {} /\ DOMAIN back' = {}
    BY DEF Silence
  <2> QED
    BY <2>1 DEF OnWire, OnWayBack
<1>2. \A k \in DOMAIN sender' : Stopped(k)'
  BY DEF Silence, Stopped
<1> QED
  BY <1>1, <1>2 DEF IInv

LEMMA DisconnectKeeps ==
    ASSUME IInv, Disconnect
    PROVE  IInv'
<1>1. PICK S : S = {k \in DOMAIN sender : sender[k].state = "open"}
  OBVIOUS
<1>2. Breaks(S)
  BY <1>1 DEF Breaks, Disconnect
<1>3. /\ sender' \in Seq(SenderType) /\ Len(sender') = Len(sender) /\ DOMAIN sender' = DOMAIN sender
      /\ \A k \in DOMAIN sender :
            /\ sender'[k].id = sender[k].id /\ sender'[k].session = sender[k].session
            /\ sender'[k].state = (IF k \in S THEN "broken" ELSE sender[k].state)
  BY <1>2, BreaksIs DEF IInv
<1>4. /\ connected' = FALSE /\ UNCHANGED <<way, session, pending>> /\ wire' = <<>> /\ back' = <<>>
      /\ receiver' = DisconnectedReceivers
  BY DEF Disconnect
<1>5. \A k \in DOMAIN sender : sender'[k].state # "open"
  BY <1>1, <1>3
<1>6. ASSUME NEW k \in Key
      PROVE  /\ receiver'[k] \in ReceiverType /\ receiver'[k].attached = receiver[k].attached
             /\ receiver'[k].clean = receiver[k].clean /\ receiver'[k].aborted = receiver[k].aborted
             /\ \/ receiver'[k] = receiver[k] /\ ~(receiver[k].state = "open" /\ receiver[k].attached = session)
                \/ receiver[k].state = "open" /\ receiver'[k].state = "broken"
  <2>1. receiver[k] \in ReceiverType
    BY ReceiverIs DEF IInv
  <2>2. receiver'[k] = IF receiver[k].state = "open" /\ receiver[k].attached = session THEN Aborted(receiver[k]) ELSE receiver[k]
    BY <1>4 DEF DisconnectedReceivers
  <2> QED
    BY <2>1, <2>2, AbortedIs
<1>7. TypeOK'
  <2>1. receiver' \in [Key -> ReceiverType]
    <3>1. receiver' = [k \in Key |-> receiver'[k]]
      BY <1>4 DEF DisconnectedReceivers
    <3> QED
      BY <1>6, <3>1
  <2>2. way' \in Ways /\ session' \in Session /\ connected' \in BOOLEAN /\ pending' \in [Session -> [Key -> EntryType]]
    BY <1>4, TypesAre DEF IInv
  <2>3. wire' \in Seq(Frame) /\ back' \in Seq(Key)
    BY <1>4
  <2> QED
    BY <1>3, <2>1, <2>2, <2>3, TypesThen
<1>8. Senders'
  <2>1. NextId' = NextId
    <3>1. {k \in DOMAIN sender' : sender'[k].session = session'} = {k \in DOMAIN sender : sender[k].session = session}
      BY <1>3, <1>4
    <3> QED
      BY <1>3, <1>4, <3>1 DEF NextId
  <2>2. ASSUME NEW k \in DOMAIN sender
        PROVE  /\ sender'[k].session <= session'
               /\ sender'[k].state # "open"
               /\ way' = "up" => sender'[k].id = k
               /\ sender'[k].session = session' => sender'[k].id < NextId'
    BY <1>3, <1>4, <1>5, <2>1 DEF IInv, Senders
  <2>3. \A j, k \in DOMAIN sender :
          sender'[j].session = sender'[k].session /\ sender'[j].id = sender'[k].id => j = k
    BY <1>3 DEF IInv, Senders
  <2>4. Len(sender') <= MaxSenders
    BY <1>3 DEF IInv, Senders
  <2> QED
    BY <1>3, <2>2, <2>3, <2>4 DEF Senders
<1>9. /\ \A k \in DOMAIN sender : Home(k)' = Home(k) /\ (Present(k)' <=> Present(k))
      /\ \A j, k \in DOMAIN sender : Rivals(j, k)' <=> Rivals(j, k)
  BY <1>3, <1>4 DEF Home, Present, Rivals
<1>10. OneOpen'
  <2>1. \A k \in DOMAIN sender : receiver'[k].state = "open" => receiver[k].state = "open"
    <3>1. \A k \in DOMAIN sender : k \in Key
      BY SenderIs DEF IInv
    <3> QED
      BY <1>6, <3>1
  <2> QED
    BY <1>3, <1>9, <2>1 DEF IInv, OneOpen
<1>11. ASSUME NEW k \in Key
       PROVE  Receives(k)'
  <2>1. Receives(k)
    BY DEF IInv
  <2>2. CASE receiver'[k] = receiver[k] /\ ~(receiver[k].state = "open" /\ receiver[k].attached = session)
    BY <1>3, <1>4, <2>1, <2>2 DEF Receives
  <2>3. CASE receiver[k].state = "open" /\ receiver'[k].state = "broken"
    <3>1. k \in DOMAIN sender
      BY <2>3, OpenIsThere
    <3> QED
      BY <1>3, <1>4, <1>6, <2>1, <2>3, <3>1 DEF Receives
  <2> QED
    BY <1>6, <2>2, <2>3
<1>12. ASSUME NEW s \in Session, NEW id \in Key
       PROVE  Kept(s, id)'
  <2>1. Kept(s, id)
    BY DEF IInv
  <2> QED
    BY <1>3, <1>4, <1>9, <2>1 DEF Kept
<1>13. Silence' /\ \A k \in DOMAIN sender' : ~(Present(k)' /\ connected')
  BY <1>3, <1>4, <1>5 DEF Silence
<1> QED
  BY <1>7, <1>8, <1>10, <1>11, <1>12, <1>13, SilenceThen

LEMMA ReconnectKeeps ==
    ASSUME IInv, Reconnect
    PROVE  IInv'
<1>1. /\ connected = FALSE /\ session' = session + 1 /\ session < MaxSessions
      /\ UNCHANGED <<way, sender, receiver, pending, wire, back>> /\ connected' = TRUE
  BY TypesAre DEF Reconnect, IInv
<1>2. session \in Nat /\ session # 0 /\ session' \in Session
  BY <1>1, TypesAre, Bounds DEF IInv, Session
<1>3. TypeOK'
  BY <1>1, <1>2, TypesAre, TypesThen DEF IInv
<1>4. ASSUME NEW k \in DOMAIN sender
      PROVE  /\ sender[k].session <= session /\ sender[k].session \in Nat /\ sender[k].state # "open"
             /\ sender[k].session # session' /\ sender[k].session <= session'
             /\ way = "up" => sender[k].id = k
  <2>1. sender[k].session <= session /\ sender[k].state # "open" /\ (way = "up" => sender[k].id = k)
    BY <1>1 DEF IInv, Senders
  <2>2. sender[k].session \in Nat
    BY SenderIs, Bounds DEF IInv
  <2> QED
    BY <1>1, <1>2, <2>1, <2>2
<1>5. Senders'
  BY <1>1, <1>4 DEF IInv, Senders
<1>6. OneOpen'
  BY <1>1 DEF IInv, OneOpen, Rivals, Home
<1>7. ASSUME NEW k \in Key
      PROVE  Receives(k)'
  <2>1. Receives(k) /\ receiver[k].attached \in Nat
    BY ReceiverIs DEF IInv
  <2>2. receiver[k].state = "open" => receiver[k].attached = 0 /\ ~receiver[k].clean
    BY <1>1, <2>1 DEF Receives, Alone
  <2>3. receiver[k].attached <= session + 1
    BY <1>2, <2>1 DEF Receives
  <2> QED
    BY <1>1, <2>1, <2>2, <2>3 DEF Receives
<1>8. ASSUME NEW s \in Session, NEW id \in Key
      PROVE  Kept(s, id)'
  <2>1. Kept(s, id) /\ pending[s][id].since \in Nat
    BY EntryIs DEF IInv
  <2>2. pending[s][id].since <= session + 1 /\ pending[s][id].since # session + 1
    BY <1>2, <2>1 DEF Kept
  <2> QED
    BY <1>1, <2>1, <2>2 DEF Kept
<1>9. wire = <<>> /\ back = <<>>
  <2>1. DOMAIN wire = {} /\ DOMAIN back = {}
    BY <1>1 DEF IInv, OnWire, OnWayBack
  <2> QED
    BY <2>1, TypesAre DEF IInv
<1>10. Silence' /\ \A k \in DOMAIN sender' : ~(Present(k)' /\ connected')
  BY <1>1, <1>4, <1>9 DEF Silence, Present
<1> QED
  BY <1>3, <1>5, <1>6, <1>7, <1>8, <1>10, SilenceThen

-----------------------------------------------------------------------------
(* Every step. *)

LEMMA StutterKeeps ==
    ASSUME IInv, UNCHANGED vars
    PROVE  IInv'
<1>1. UNCHANGED <<way, session, connected, sender, receiver, pending, wire, back>>
  BY DEF vars
<1>2. back' \in Seq(Key) /\ wire' \in Seq(Frame) /\ sender' \in Seq(SenderType)
  BY <1>1, TypesAre DEF IInv
<1>3. SenderStep
  BY <1>1, <1>2 DEF SenderStep
<1>4. OnWire' /\ OnWayBack'
  BY <1>1, <1>3, WireStays, BackStays
<1>5. ASSUME NEW k \in DOMAIN sender, Present(k), connected
      PROVE  Flows(k)' /\ Told(k)'
  <2>1. \A d \in 0..sender[k].wrote : Came(k, d) => Came(k, d)'
    BY <1>1 DEF Came
  <2>2. EndComes(k) => EndComes(k)'
    BY <1>1 DEF EndComes
  <2> QED
    BY <1>1, <1>3, <1>5, <2>1, <2>2, FlowsOn, ToldOn
<1>6. \A k \in DOMAIN sender : Stopped(k)'
  BY <1>1, <1>3, StoppedOn
<1> QED
  BY <1>3, <1>4, <1>5, <1>6, SenderStepThen

LEMMA Inductive == IInv /\ [Next]_vars => IInv'
<1> SUFFICES ASSUME IInv, [Next]_vars PROVE IInv'
  OBVIOUS
<1>1. CASE CreateSender
  BY <1>1, CreateSenderKeeps
<1>2. CASE Deliver
  BY <1>2, WriteArrivesKeeps, FinishArrivesKeeps, DestroyArrivesKeeps DEF Deliver
<1>3. CASE AbortArrives
  BY <1>3, AbortArrivesKeeps
<1>4. CASE Disconnect
  BY <1>4, DisconnectKeeps
<1>5. CASE Reconnect
  BY <1>5, ReconnectKeeps
<1>6. ASSUME NEW k \in Key,
             \/ Tell(k) \/ Write(k) \/ Drain(k) \/ Finish(k) \/ DestroySender(k)
             \/ CreateReceiver(k) \/ Read(k) \/ ReadEnd(k) \/ DestroyReceiver(k)
      PROVE  IInv'
  <2>1. CASE Tell(k) \/ Write(k) \/ Drain(k)
    BY <2>1, TellKeeps, WriteKeeps, DrainKeeps
  <2>2. CASE Finish(k) \/ DestroySender(k)
    BY <2>2, EndKeeps
  <2>3. CASE CreateReceiver(k) \/ DestroyReceiver(k)
    BY <2>3, CreateReceiverKeeps, DestroyReceiverKeeps
  <2>4. CASE Read(k) \/ ReadEnd(k)
    BY <2>4, ReadKeeps, ReadEndKeeps
  <2> QED
    BY <1>6, <2>1, <2>2, <2>3, <2>4
<1>7. ASSUME NEW home \in Session, NEW id \in Key, Expire(home, id)
      PROVE  IInv'
  BY <1>7, ExpireKeeps
<1>8. CASE UNCHANGED vars
  BY <1>8, StutterKeeps
<1> QED
  BY <1>1, <1>2, <1>3, <1>4, <1>5, <1>6, <1>7, <1>8 DEF Next

LEMMA Always == Spec => []IInv
<1>1. Init => IInv
  BY InitHolds
<1>2. IInv /\ [Next]_vars => IInv'
  BY Inductive
<1> QED
  BY <1>1, <1>2, PTL DEF Spec

LEMMA InvBounds == IInv => PendingIsBounded
<1> SUFFICES ASSUME IInv PROVE PendingIsBounded
  OBVIOUS
<1>1. \A s \in Session, id \in Key : /\ Len(pending[s][id].chunks) <= MaxPending
                                     /\ pending[s][id].chunks # <<>> => pending[s][id].timer
  BY DEF IInv, Kept
<1>2. TypeOK
  BY DEF IInv
<1> QED
  BY <1>1, <1>2 DEF PendingIsBounded

LEMMA InvReaches == IInv => EndsReachBoth
<1> SUFFICES ASSUME IInv, NEW k \in DOMAIN sender
             PROVE  /\ receiver[k].aborted /\ sender[k].state = "open" =>
                          \E i \in DOMAIN back : back[i] = sender[k].id
                    /\ receiver[k].clean /\ receiver[k].state = "open" /\ sender[k].state # "open" =>
                          \/ receiver[k].eof
                          \/ \E i \in DOMAIN wire : wire[i].from = k /\ wire[i].op # "write"
  BY DEF EndsReachBoth
<1>1. receiver[k].aborted /\ sender[k].state = "open" => \E i \in DOMAIN back : back[i] = sender[k].id
  BY DEF IInv, Stopped
<1>2. ASSUME receiver[k].clean, receiver[k].state = "open", sender[k].state # "open"
      PROVE  receiver[k].eof \/ EndComes(k)
  <2>1. Present(k) /\ connected
    BY <1>2, SenderIs DEF IInv, Receives, Alone, Present
  <2>2. Told(k)
    BY <2>1 DEF IInv
  <2> QED
    BY <1>2, <2>2 DEF Told
<1> QED
  BY <1>1, <1>2 DEF EndComes

-----------------------------------------------------------------------------
(* Every stream is a channel: what the two applications see of its sender and its receiver. *)

Wrote(k) == IF k \in DOMAIN sender THEN sender[k].wrote ELSE 0
Got(k)   == IF receiver[k].clean THEN Cardinality(Own(k)) ELSE 0

WriterMoves(k) ==
    /\ WriterState(k)' \in {WriterState(k), "broken"} /\ (WriterState(k) = "ended" => WriterState(k)' = WriterState(k))
    /\ Wrote(k)' = Wrote(k)

ReaderMoves(k) ==
    /\ ReaderState(k)' \in {ReaderState(k), "broken"} /\ (ReaderState(k) = "ended" => ReaderState(k)' = ReaderState(k))
    /\ Got(k)' = Got(k)

LEMMA BreakIs ==
    ASSUME NEW k, WriterMoves(k), ReaderMoves(k)
    PROVE  Stream(k)!Next
<1>1. Stream(k)!Break
  BY DEF Stream!Break, WriterMoves, ReaderMoves, Wrote, Got
<1> QED
  BY <1>1 DEF Stream!Next

LEMMA ReaderIs ==
    ASSUME NEW k
    PROVE  /\ receiver[k].state = "none" /\ ~receiver[k].clean => ReaderState(k) = "open"
           /\ receiver[k].state # "none" /\ receiver[k].clean => ReaderState(k) = receiver[k].state
           /\ receiver[k].state # "none" /\ ~receiver[k].clean => ReaderState(k) = "broken"
<1>1. receiver[k].state = "none" /\ ~receiver[k].clean => ReaderState(k) = "open"
  BY DEF ReaderState
<1>2. receiver[k].state # "none" /\ receiver[k].clean => ReaderState(k) = receiver[k].state
  BY DEF ReaderState
<1>3. receiver[k].state # "none" /\ ~receiver[k].clean => ReaderState(k) = "broken"
  BY DEF ReaderState
<1> QED
  BY <1>1, <1>2, <1>3

LEMMA ReaderIsThen ==
    ASSUME NEW k
    PROVE  /\ receiver'[k].state = "none" /\ ~receiver'[k].clean => ReaderState(k)' = "open"
           /\ receiver'[k].state # "none" /\ receiver'[k].clean => ReaderState(k)' = receiver'[k].state
           /\ receiver'[k].state # "none" /\ ~receiver'[k].clean => ReaderState(k)' = "broken"
<1>1. receiver'[k].state = "none" /\ ~receiver'[k].clean => ReaderState(k)' = "open"
  BY DEF ReaderState
<1>2. receiver'[k].state # "none" /\ receiver'[k].clean => ReaderState(k)' = receiver'[k].state
  BY DEF ReaderState
<1>3. receiver'[k].state # "none" /\ ~receiver'[k].clean => ReaderState(k)' = "broken"
  BY DEF ReaderState
<1> QED
  BY <1>1, <1>2, <1>3

LEMMA WriterMay ==
    ASSUME NEW k, DOMAIN sender' = DOMAIN sender,
           k \in DOMAIN sender => sender'[k].wrote = sender[k].wrote,
           k \in DOMAIN sender => sender'[k].state = sender[k].state \/ (sender[k].state = "open" /\ sender'[k].state = "broken")
    PROVE  WriterMoves(k)
<1>1. CASE k \in DOMAIN sender
  BY <1>1 DEF WriterMoves, WriterState, Wrote
<1>2. CASE k \notin DOMAIN sender
  BY <1>2 DEF WriterMoves, WriterState, Wrote
<1> QED
  BY <1>1, <1>2

LEMMA ReaderMay ==
    ASSUME IInv, NEW k \in Key, receiver'[k].clean = receiver[k].clean, receiver'[k].got = receiver[k].got,
           receiver'[k].state = receiver[k].state \/ (receiver[k].state = "open" /\ receiver'[k].state = "broken")
    PROVE  ReaderMoves(k)
<1>1. Got(k)' = Got(k)
  <2>1. Own(k)' = Own(k)
    BY DEF Own
  <2> QED
    BY <2>1 DEF Got
<1>2. receiver[k].clean \in BOOLEAN
  BY ReceiverIs DEF IInv
<1>3. CASE receiver'[k].state = receiver[k].state
  <2>1. ReaderState(k)' = ReaderState(k)
    <3>1. receiver[k].state = "none" => ~receiver[k].clean
      BY DEF IInv, Receives
    <3> QED
      BY <1>2, <1>3, <3>1, ReaderIs, ReaderIsThen
  <2> QED
    BY <1>1, <2>1 DEF ReaderMoves
<1>4. CASE receiver[k].state = "open" /\ receiver'[k].state = "broken"
  <2>1. ReaderState(k) # "ended" /\ ReaderState(k)' = "broken"
    BY <1>2, <1>4, ReaderIs, ReaderIsThen
  <2> QED
    BY <1>1, <2>1 DEF ReaderMoves
<1> QED
  BY <1>3, <1>4

LEMMA WriterRests ==
    ASSUME NEW k, UNCHANGED sender
    PROVE  WriterMoves(k)
BY WriterMay

LEMMA ReaderRests ==
    ASSUME IInv, NEW k \in Key, UNCHANGED receiver
    PROVE  ReaderMoves(k)
BY ReaderMay

\* The other streams, when one sender or one receiver changes.
LEMMA OthersRest ==
    ASSUME IInv, NEW k \in DOMAIN sender, NEW r \in SenderType, sender' = [sender EXCEPT ![k] = r], UNCHANGED receiver
    PROVE  /\ k \in Key /\ sender'[k] = r /\ DOMAIN sender' = DOMAIN sender /\ ReaderMoves(k)
           /\ \A j \in Key : j # k => Stream(j)!Next
<1>1. /\ DOMAIN sender' = DOMAIN sender /\ sender'[k] = r /\ \A j \in DOMAIN sender : j # k => sender'[j] = sender[j]
  BY SenderAt DEF IInv
<1>2. k \in Key
  BY SenderIs DEF IInv
<1>3. \A j \in Key : j # k => Stream(j)!Next
  <2>1. SUFFICES ASSUME NEW j \in Key, j # k PROVE Stream(j)!Next
    OBVIOUS
  <2>2. WriterMoves(j)
    BY <1>1, <2>1, WriterMay
  <2>3. ReaderMoves(j)
    BY ReaderRests
  <2> QED
    BY <2>2, <2>3, BreakIs
<1> QED
  BY <1>1, <1>2, <1>3, ReaderRests

LEMMA OtherReadersRest ==
    ASSUME IInv, NEW k \in Key, NEW r, receiver' = [receiver EXCEPT ![k] = r], UNCHANGED sender
    PROVE  /\ receiver'[k] = r /\ WriterMoves(k)
           /\ \A j \in Key : j # k => Stream(j)!Next
<1>1. receiver'[k] = r /\ \A j \in Key : j # k => receiver'[j] = receiver[j]
  BY TypesAre DEF IInv
<1>2. \A j \in Key : j # k => Stream(j)!Next
  <2>1. SUFFICES ASSUME NEW j \in Key, j # k PROVE Stream(j)!Next
    OBVIOUS
  <2>2. ReaderMoves(j)
    BY <1>1, <2>1, ReaderMay
  <2> QED
    BY <2>2, WriterRests, BreakIs
<1> QED
  BY <1>1, <1>2, WriterRests

LEMMA WriteIs ==
    ASSUME IInv, NEW k \in Key, Write(k)
    PROVE  \A j \in Key : Stream(j)!Next
<1>1. k \in DOMAIN sender /\ sender[k].state = "open" /\ sender[k].wrote < MaxChunks /\ UNCHANGED receiver
  BY DEF Write
<1>2. sender[k] \in SenderType /\ sender[k].wrote \in 0..MaxChunks
  BY <1>1, SenderIs DEF IInv
<1>3. PICK high \in BOOLEAN : sender' = [sender EXCEPT ![k].wrote = @ + 1, ![k].busy = high]
  BY DEF Write
<1>4. PICK n : n = sender[k].wrote + 1
  OBVIOUS
<1>5. n \in 0..MaxChunks
  BY <1>1, <1>2, <1>4, Bounds
<1>6. PICK r : r = [sender[k] EXCEPT !.wrote = n, !.busy = high]
  OBVIOUS
<1>7. r \in SenderType /\ r.state = "open" /\ r.wrote = n
  BY <1>1, <1>2, <1>5, <1>6 DEF SenderType
<1>8. sender' = [sender EXCEPT ![k] = r]
  BY <1>1, <1>3, <1>4, <1>6
<1>9. /\ sender'[k] = r /\ DOMAIN sender' = DOMAIN sender /\ ReaderMoves(k)
      /\ \A j \in Key : j # k => Stream(j)!Next
  BY <1>1, <1>7, <1>8, OthersRest
<1>10. WriterState(k) = "open" /\ WriterState(k)' = "open" /\ Wrote(k) = sender[k].wrote /\ Wrote(k)' = n
  BY <1>1, <1>7, <1>9 DEF WriterState, Wrote
<1>11. ReaderState(k)' = ReaderState(k) /\ Got(k)' = Got(k)
  BY <1>1 DEF ReaderState, Got, Own
<1>12. Stream(k)!Write
  BY <1>1, <1>4, <1>10, <1>11 DEF Stream!Write, Wrote, Got
<1> QED
  BY <1>9, <1>12 DEF Stream!Next

LEMMA FinishIs ==
    ASSUME IInv, NEW k \in Key, Finish(k)
    PROVE  \A j \in Key : Stream(j)!Next
<1>1. k \in DOMAIN sender /\ sender[k].state = "open" /\ UNCHANGED receiver
  BY DEF Finish
<1>2. sender[k] \in SenderType
  BY <1>1, SenderIs DEF IInv
<1>3. PICK r : r = [sender[k] EXCEPT !.state = "ended"]
  OBVIOUS
<1>4. r \in SenderType /\ r.state = "ended" /\ r.wrote = sender[k].wrote
  BY <1>2, <1>3 DEF SenderType
<1>5. sender' = [sender EXCEPT ![k] = r]
  BY <1>1, <1>3 DEF Finish
<1>6. /\ sender'[k] = r /\ DOMAIN sender' = DOMAIN sender
      /\ \A j \in Key : j # k => Stream(j)!Next
  BY <1>1, <1>4, <1>5, OthersRest
<1>7. WriterState(k) = "open" /\ WriterState(k)' = "ended" /\ Wrote(k)' = Wrote(k)
  BY <1>1, <1>4, <1>6 DEF WriterState, Wrote
<1>8. ReaderState(k)' = ReaderState(k) /\ Got(k)' = Got(k)
  BY <1>1 DEF ReaderState, Got, Own
<1>9. Stream(k)!End
  BY <1>7, <1>8 DEF Stream!End, Wrote, Got
<1> QED
  BY <1>6, <1>9 DEF Stream!Next

LEMMA DrainIs ==
    ASSUME IInv, NEW k \in Key, Drain(k) \/ DestroySender(k)
    PROVE  \A j \in Key : Stream(j)!Next
<1>1. k \in DOMAIN sender /\ UNCHANGED receiver /\ sender[k] \in SenderType
  BY SenderIs DEF Drain, DestroySender, IInv
<1>2. PICK r : r = IF Drain(k) THEN [sender[k] EXCEPT !.busy = FALSE] ELSE Broken(sender[k])
  OBVIOUS
<1>3. /\ r \in SenderType /\ r.wrote = sender[k].wrote /\ sender' = [sender EXCEPT ![k] = r]
      /\ r.state = sender[k].state \/ (sender[k].state = "open" /\ r.state = "broken")
  <2>1. CASE Drain(k)
    <3>1. r = [sender[k] EXCEPT !.busy = FALSE]
      BY <1>2, <2>1
    <3>2. r \in SenderType /\ r.wrote = sender[k].wrote /\ r.state = sender[k].state
      BY <1>1, <3>1 DEF SenderType
    <3>3. sender' = [sender EXCEPT ![k] = r]
      BY <1>1, <2>1, <3>1 DEF Drain
    <3> QED
      BY <3>2, <3>3
  <2>2. CASE ~Drain(k)
    <3>1. r = Broken(sender[k]) /\ DestroySender(k)
      BY <1>2, <2>2
    <3>2. r \in SenderType /\ r.wrote = sender[k].wrote /\ r.state = "broken"
      BY <1>1, <3>1 DEF SenderType, Broken
    <3>3. sender' = [sender EXCEPT ![k] = r] /\ sender[k].state = "open"
      BY <1>1, <3>1 DEF DestroySender
    <3> QED
      BY <3>2, <3>3
  <2> QED
    BY <2>1, <2>2
<1>4. /\ sender'[k] = r /\ DOMAIN sender' = DOMAIN sender /\ ReaderMoves(k)
      /\ \A j \in Key : j # k => Stream(j)!Next
  BY <1>1, <1>3, OthersRest
<1>5. WriterMoves(k)
  BY <1>3, <1>4, WriterMay
<1>6. Stream(k)!Next
  BY <1>4, <1>5, BreakIs
<1> QED
  BY <1>4, <1>6

LEMMA CreateSenderIs ==
    ASSUME IInv, CreateSender
    PROVE  \A j \in Key : Stream(j)!Next
<1>1. PICK r : r = [id |-> NextId, session |-> session, wrote |-> 0, busy |-> FALSE, state |-> "open"]
  OBVIOUS
<1>2. sender' = Append(sender, r) /\ r.wrote = 0 /\ r.state = "open" /\ UNCHANGED receiver
  BY <1>1 DEF CreateSender
<1>3. PICK n \in Nat : n = Len(sender) /\ DOMAIN sender = 1..n /\ n + 1 \notin DOMAIN sender
  BY TypesAre DEF IInv
<1>4. /\ DOMAIN sender' = 1..(n + 1) /\ sender'[n + 1] = r
      /\ \A j \in DOMAIN sender : j \in DOMAIN sender' /\ sender'[j] = sender[j]
  BY <1>2, <1>3, TypesAre DEF IInv
<1>5. ASSUME NEW j \in Key
      PROVE  Stream(j)!Next
  <2>1. WriterState(j)' = WriterState(j) /\ Wrote(j)' = Wrote(j)
    <3>1. CASE j \in DOMAIN sender
      BY <1>4, <3>1 DEF WriterState, Wrote
    <3>2. CASE j = n + 1
      BY <1>2, <1>3, <1>4, <3>2 DEF WriterState, Wrote
    <3>3. CASE j \notin DOMAIN sender /\ j # n + 1
      <4>1. j \notin DOMAIN sender'
        BY <1>3, <1>4, <3>3
      <4> QED
        BY <3>3, <4>1 DEF WriterState, Wrote
    <3> QED
      BY <3>1, <3>2, <3>3
  <2>2. WriterMoves(j)
    BY <2>1 DEF WriterMoves
  <2>3. ReaderMoves(j)
    BY <1>2, ReaderRests
  <2> QED
    BY <2>2, <2>3, BreakIs
<1> QED
  BY <1>5

LEMMA AbortArrivesIs ==
    ASSUME IInv, AbortArrives
    PROVE  \A j \in Key : Stream(j)!Next
<1>1. PICK S : S = {k \in DOMAIN sender : sender[k].id = Head(back) /\ sender[k].state = "open"}
  OBVIOUS
<1>2. Breaks(S) /\ UNCHANGED receiver
  BY <1>1 DEF Breaks, AbortArrives
<1>3. /\ DOMAIN sender' = DOMAIN sender
      /\ \A k \in DOMAIN sender : /\ sender'[k].wrote = sender[k].wrote
                                  /\ sender'[k].state = (IF k \in S THEN "broken" ELSE sender[k].state)
  BY <1>2, BreaksIs DEF IInv
<1>4. ASSUME NEW j \in Key
      PROVE  Stream(j)!Next
  <2>1. WriterMoves(j)
    BY <1>1, <1>3, WriterMay
  <2>2. ReaderMoves(j)
    BY <1>2, ReaderRests
  <2> QED
    BY <2>1, <2>2, BreakIs
<1> QED
  BY <1>4

LEMMA DisconnectIs ==
    ASSUME IInv, Disconnect
    PROVE  \A j \in Key : Stream(j)!Next
<1>1. PICK S : S = {k \in DOMAIN sender : sender[k].state = "open"}
  OBVIOUS
<1>2. Breaks(S) /\ receiver' = DisconnectedReceivers
  BY <1>1 DEF Breaks, Disconnect
<1>3. /\ DOMAIN sender' = DOMAIN sender
      /\ \A k \in DOMAIN sender : /\ sender'[k].wrote = sender[k].wrote
                                  /\ sender'[k].state = (IF k \in S THEN "broken" ELSE sender[k].state)
  BY <1>2, BreaksIs DEF IInv
<1>4. ASSUME NEW j \in Key
      PROVE  Stream(j)!Next
  <2>1. WriterMoves(j)
    BY <1>1, <1>3, WriterMay
  <2>2. receiver'[j] = IF receiver[j].state = "open" /\ receiver[j].attached = session THEN Aborted(receiver[j]) ELSE receiver[j]
    BY <1>2 DEF DisconnectedReceivers
  <2>3. receiver[j] \in ReceiverType
    BY ReceiverIs DEF IInv
  <2>4. /\ receiver'[j].clean = receiver[j].clean /\ receiver'[j].got = receiver[j].got
        /\ receiver'[j].state = receiver[j].state \/ (receiver[j].state = "open" /\ receiver'[j].state = "broken")
    BY <2>2, <2>3, AbortedIs
  <2>5. ReaderMoves(j)
    BY <2>4, ReaderMay
  <2> QED
    BY <2>1, <2>5, BreakIs
<1> QED
  BY <1>4

\* Frames change what waits, and what receivers have in their buffers.
LEMMA DeliverIs ==
    ASSUME IInv, Deliver
    PROVE  \A j \in Key : Stream(j)!Next
<1>1. PICK rs : rs = Receivers(Here, Id)
  OBVIOUS
<1>2. PICK c : c = <<Head(wire).from, Head(wire).n>>
  OBVIOUS
<1>3. \A k \in rs : receiver[k].state = "open"
  BY <1>1 DEF Receivers
<1>4. sender' = sender
  BY DEF Deliver, WriteArrives, FinishArrives, DestroyArrives
<1>5. ASSUME NEW j \in Key
      PROVE  Stream(j)!Next
  <2>1. receiver[j] \in ReceiverType
    BY ReceiverIs DEF IInv
  <2>2. \/ receiver'[j] = receiver[j]
        \/ receiver'[j] = [receiver[j] EXCEPT !.buffer = Append(@, c)]
        \/ receiver'[j] = [receiver[j] EXCEPT !.eof = TRUE]
        \/ j \in rs /\ receiver'[j] = Aborted(receiver[j])
    <3>1. CASE UNCHANGED receiver
      BY <3>1
    <3>2. CASE WriteArrives /\ ~UNCHANGED receiver
      <4>1. receiver' = [k \in Key |-> IF k \in rs THEN [receiver[k] EXCEPT !.buffer = Append(@, c)] ELSE receiver[k]]
        BY <1>1, <1>2, <3>2 DEF WriteArrives
      <4> QED
        BY <4>1
    <3>3. CASE FinishArrives /\ ~UNCHANGED receiver
      <4>1. receiver' = [k \in Key |-> IF k \in rs THEN [receiver[k] EXCEPT !.eof = TRUE] ELSE receiver[k]]
        BY <1>1, <3>3 DEF FinishArrives
      <4> QED
        BY <4>1
    <3>4. CASE DestroyArrives /\ ~UNCHANGED receiver
      <4>1. receiver' = [k \in Key |-> IF k \in rs THEN Aborted(receiver[k]) ELSE receiver[k]]
        BY <1>1, <3>4 DEF DestroyArrives
      <4> QED
        BY <4>1
    <3> QED
      BY <3>1, <3>2, <3>3, <3>4 DEF Deliver
  <2>3. /\ receiver'[j].clean = receiver[j].clean /\ receiver'[j].got = receiver[j].got
        /\ receiver'[j].state = receiver[j].state \/ (receiver[j].state = "open" /\ receiver'[j].state = "broken")
    <3>1. CASE receiver'[j] = receiver[j]
      BY <3>1
    <3>2. CASE receiver'[j] = [receiver[j] EXCEPT !.buffer = Append(@, c)]
      <4>1. PICK b : b = Append(receiver[j].buffer, c)
        OBVIOUS
      <4>2. receiver'[j] = [receiver[j] EXCEPT !.buffer = b]
        BY <3>2, <4>1
      <4> QED
        BY <2>1, <4>2 DEF ReceiverType
    <3>3. CASE receiver'[j] = [receiver[j] EXCEPT !.eof = TRUE]
      BY <2>1, <3>3 DEF ReceiverType
    <3>4. CASE j \in rs /\ receiver'[j] = Aborted(receiver[j])
      BY <1>3, <2>1, <3>4, AbortedIs
    <3> QED
      BY <2>2, <3>1, <3>2, <3>3, <3>4
  <2>4. ReaderMoves(j)
    BY <2>3, ReaderMay
  <2> QED
    BY <1>4, <2>4, WriterRests, BreakIs
<1> QED
  BY <1>5

LEMMA TellIs ==
    ASSUME IInv, NEW k \in Key, Tell(k) \/ DestroyReceiver(k)
    PROVE  \A j \in Key : Stream(j)!Next
<1>1. receiver[k] \in ReceiverType /\ UNCHANGED sender
  BY ReceiverIs DEF Tell, DestroyReceiver, IInv
<1>2. PICK a : a = Aborted(receiver[k])
  OBVIOUS
<1>3. a \in ReceiverType /\ a.clean = receiver[k].clean /\ a.got = receiver[k].got /\ a.state = "broken"
  BY <1>1, <1>2, AbortedIs
<1>4. PICK r : r = IF Tell(k) THEN [receiver[k] EXCEPT !.told = TRUE] ELSE [a EXCEPT !.aborted = TRUE]
  OBVIOUS
<1>5. /\ r.clean = receiver[k].clean /\ r.got = receiver[k].got /\ receiver' = [receiver EXCEPT ![k] = r]
      /\ r.state = receiver[k].state \/ (receiver[k].state = "open" /\ r.state = "broken")
  <2>1. CASE Tell(k)
    <3>1. r = [receiver[k] EXCEPT !.told = TRUE]
      BY <1>4, <2>1
    <3>2. r.clean = receiver[k].clean /\ r.got = receiver[k].got /\ r.state = receiver[k].state
      BY <1>1, <3>1 DEF ReceiverType
    <3>3. receiver' = [receiver EXCEPT ![k] = r]
      BY <2>1, <3>1, TypesAre DEF Tell, IInv
    <3> QED
      BY <3>2, <3>3
  <2>2. CASE ~Tell(k)
    <3>1. r = [a EXCEPT !.aborted = TRUE] /\ DestroyReceiver(k)
      BY <1>4, <2>2
    <3>2. r.clean = receiver[k].clean /\ r.got = receiver[k].got /\ r.state = "broken"
      BY <1>3, <3>1 DEF ReceiverType
    <3>3. receiver' = [receiver EXCEPT ![k] = r] /\ receiver[k].state = "open"
      BY <1>2, <3>1, TypesAre DEF DestroyReceiver, IInv
    <3> QED
      BY <3>2, <3>3
  <2> QED
    BY <2>1, <2>2
<1>6. receiver'[k] = r /\ WriterMoves(k) /\ \A j \in Key : j # k => Stream(j)!Next
  BY <1>1, <1>5, OtherReadersRest
<1>7. ReaderMoves(k)
  BY <1>5, <1>6, ReaderMay
<1>8. Stream(k)!Next
  BY <1>6, <1>7, BreakIs
<1> QED
  BY <1>6, <1>8

\* What a clean receiver has got is all its own.
LEMMA OwnIs ==
    ASSUME NEW q \in Seq(Chunk), NEW k, Chunks(q, k, 0)
    PROVE  Cardinality({i \in DOMAIN q : q[i] = <<k, i>>}) = Len(q)
<1>1. PICK n \in Nat : n = Len(q) /\ DOMAIN q = 1..n
  OBVIOUS
<1>2. \A i \in DOMAIN q : q[i] = <<k, i>>
  <2>1. \A i \in DOMAIN q : q[i] = <<k, 0 + i>>
    BY DEF Chunks
  <2>2. \A i \in DOMAIN q : 0 + i = i
    BY <1>1
  <2> QED
    BY <2>1, <2>2
<1>3. {i \in DOMAIN q : q[i] = <<k, i>>} = 1..n
  BY <1>1, <1>2
<1>4. Cardinality(1..n) = (IF 1 > n THEN 0 ELSE n - 1 + 1)
  BY FS_Interval
<1>5. Cardinality(1..n) = n
  BY <1>4
<1> QED
  BY <1>1, <1>3, <1>5

LEMMA CleanIs ==
    ASSUME IInv, NEW k \in Key, receiver[k].state = "open", receiver[k].clean
    PROVE  k \in DOMAIN sender /\ Got(k) = Len(receiver[k].got) /\ \E d \in 0..sender[k].wrote : Reads(k, d)
<1>1. k \in DOMAIN sender
  BY OpenIsThere
<1>2. Present(k) /\ connected
  BY <1>1 DEF IInv, Receives, Alone, Present
<1>3. PICK d \in 0..sender[k].wrote : Reads(k, d)
  BY <1>1, <1>2 DEF IInv, Flows
<1>4. PICK q \in Seq(Chunk) : q = receiver[k].got
  BY ReceiverIs DEF IInv
<1>5. Chunks(q, k, 0)
  BY <1>3, <1>4 DEF Reads
<1>6. Cardinality({i \in DOMAIN q : q[i] = <<k, i>>}) = Len(q)
  BY <1>5, OwnIs
<1> QED
  BY <1>1, <1>3, <1>4, <1>6 DEF Got, Own

LEMMA ReadIs ==
    ASSUME IInv, NEW k \in Key, Read(k)
    PROVE  \A j \in Key : Stream(j)!Next
<1>1. /\ receiver[k] \in ReceiverType /\ receiver[k].state = "open" /\ k \in DOMAIN sender
      /\ receiver[k].buffer # <<>> /\ UNCHANGED sender /\ receiver[k].clean \in BOOLEAN
  BY ReceiverIs, OpenIsThere DEF Read, IInv
<1>2. PICK q \in Seq(Chunk) : q = receiver[k].got
  BY ReceiverIs DEF IInv
<1>3. PICK buffer \in Seq(Chunk) : buffer = receiver[k].buffer
  BY ReceiverIs DEF IInv
<1>4. PICK g : g = Append(q, Head(buffer))
  OBVIOUS
<1>5. PICK b : b = Tail(buffer)
  OBVIOUS
<1>6. PICK r : r = [receiver[k] EXCEPT !.buffer = b, !.got = g]
  OBVIOUS
<1>7. r.state = "open" /\ r.clean = receiver[k].clean /\ r.got = g
  BY <1>1, <1>6 DEF ReceiverType
<1>8. receiver' = [receiver EXCEPT ![k] = r]
  BY <1>2, <1>3, <1>4, <1>5, <1>6 DEF Read
<1>9. receiver'[k] = r /\ WriterMoves(k) /\ \A j \in Key : j # k => Stream(j)!Next
  BY <1>1, <1>8, OtherReadersRest
<1>10. CASE ~receiver[k].clean
  <2>1. ReaderState(k)' = ReaderState(k)
    BY <1>1, <1>7, <1>9, <1>10, ReaderIs, ReaderIsThen
  <2>2. Got(k)' = Got(k)
    BY <1>7, <1>9, <1>10 DEF Got
  <2>3. ReaderMoves(k)
    BY <2>1, <2>2 DEF ReaderMoves
  <2> QED
    BY <1>9, <2>3, BreakIs
<1>11. CASE receiver[k].clean
  <2>1. PICK w : w = sender[k].wrote
    OBVIOUS
  <2>2. w \in Nat
    BY <1>1, <2>1, SenderIs, Bounds DEF IInv
  <2>3. PICK d \in 0..w : Reads(k, d)
    BY <1>1, <1>11, <2>1, CleanIs
  <2>4. Chunks(q, k, 0) /\ Chunks(buffer, k, Len(q)) /\ Len(q) + Len(buffer) = d
    BY <1>2, <1>3, <2>3 DEF Reads
  <2>5. buffer # <<>> /\ Len(buffer) \in Nat /\ Len(buffer) # 0 /\ Len(q) \in Nat
    BY <1>1, <1>3
  <2>6. g \in Seq(Chunk) /\ Len(g) = Len(q) + 1
    <3>1. Head(buffer) \in Chunk
      BY <2>5
    <3> QED
      BY <1>4, <3>1
  <2>7. Chunks(g, k, 0)
    BY <1>4, <2>4, <2>5, ReadOn
  <2>8. Cardinality({i \in DOMAIN g : g[i] = <<k, i>>}) = Len(g)
    BY <2>6, <2>7, OwnIs
  <2>9. Got(k)' = Len(q) + 1
    BY <1>7, <1>9, <1>11, <2>6, <2>8 DEF Got, Own
  <2>10. Got(k) = Len(q)
    BY <1>1, <1>2, <1>11, CleanIs
  <2>11. Len(q) < w
    BY <2>2, <2>4, <2>5
  <2>12. ReaderState(k) = "open" /\ ReaderState(k)' = "open"
    BY <1>1, <1>7, <1>9, <1>11, ReaderIs, ReaderIsThen
  <2>13. Wrote(k) = w /\ Wrote(k)' = w /\ WriterState(k)' = WriterState(k)
    BY <1>1, <2>1 DEF Wrote, WriterState
  <2>14. Stream(k)!Read
    BY <2>9, <2>10, <2>11, <2>12, <2>13 DEF Stream!Read, Wrote, Got
  <2> QED
    BY <1>9, <2>14 DEF Stream!Next
<1> QED
  BY <1>1, <1>10, <1>11

LEMMA ReadEndIs ==
    ASSUME IInv, NEW k \in Key, ReadEnd(k)
    PROVE  \A j \in Key : Stream(j)!Next
<1>1. /\ receiver[k] \in ReceiverType /\ receiver[k].state = "open" /\ k \in DOMAIN sender
      /\ receiver[k].buffer = <<>> /\ receiver[k].eof /\ UNCHANGED sender /\ receiver[k].clean \in BOOLEAN
  BY ReceiverIs, OpenIsThere DEF ReadEnd, IInv
<1>2. PICK r : r = [receiver[k] EXCEPT !.state = "ended"]
  OBVIOUS
<1>3. r.state = "ended" /\ r.clean = receiver[k].clean /\ r.got = receiver[k].got
  BY <1>1, <1>2 DEF ReceiverType
<1>4. receiver' = [receiver EXCEPT ![k] = r]
  BY <1>2 DEF ReadEnd
<1>5. receiver'[k] = r /\ WriterMoves(k) /\ \A j \in Key : j # k => Stream(j)!Next
  BY <1>1, <1>4, OtherReadersRest
<1>6. Got(k)' = Got(k)
  <2>1. Own(k)' = Own(k)
    BY <1>3, <1>5 DEF Own
  <2> QED
    BY <1>3, <1>5, <2>1 DEF Got
<1>7. CASE ~receiver[k].clean
  <2>1. ReaderState(k)' = ReaderState(k)
    BY <1>1, <1>3, <1>5, <1>7, ReaderIs, ReaderIsThen
  <2>2. ReaderMoves(k)
    BY <1>6, <2>1 DEF ReaderMoves
  <2> QED
    BY <1>5, <2>2, BreakIs
<1>8. CASE receiver[k].clean
  <2>1. PICK d \in 0..sender[k].wrote : Reads(k, d)
    BY <1>1, <1>8, CleanIs
  <2>2. Complete(k, d) /\ Len(receiver[k].got) + Len(receiver[k].buffer) = d
    BY <1>1, <2>1 DEF Reads
  <2>3. Len(receiver[k].got) = d
    <3>1. PICK q \in Seq(Chunk) : q = receiver[k].got /\ Len(q) \in Nat
      BY ReceiverIs DEF IInv
    <3>2. Len(q) + Len(<<>>) = d
      BY <1>1, <2>2, <3>1
    <3>3. Len(<<>>) = 0
      OBVIOUS
    <3> QED
      BY <3>1, <3>2, <3>3
  <2>4. sender[k].state = "ended" /\ d = sender[k].wrote
    BY <2>2 DEF Complete
  <2>5. Got(k) = sender[k].wrote
    BY <1>1, <1>8, <2>3, <2>4, CleanIs
  <2>6. ReaderState(k) = "open" /\ ReaderState(k)' = "ended"
    BY <1>1, <1>3, <1>5, <1>8, ReaderIs, ReaderIsThen
  <2>7. Wrote(k) = sender[k].wrote /\ Wrote(k)' = Wrote(k) /\ WriterState(k) = "ended" /\ WriterState(k)' = "ended"
    BY <1>1, <2>4 DEF Wrote, WriterState
  <2>8. Stream(k)!ReadEnd
    BY <1>6, <2>5, <2>6, <2>7 DEF Stream!ReadEnd, Wrote, Got
  <2> QED
    BY <1>5, <2>8 DEF Stream!Next
<1> QED
  BY <1>1, <1>7, <1>8

LEMMA CreateReceiverIs ==
    ASSUME IInv, NEW k \in Key, CreateReceiver(k)
    PROVE  \A j \in Key : Stream(j)!Next
<1>1. PICK e : e = pending[Home(k)][sender[k].id]
  OBVIOUS
<1>2. PICK a : a = IF connected /\ Home(k) = Here THEN session ELSE 0
  OBVIOUS
<1>3. PICK c \in BOOLEAN : c = Untouched(k)
  BY DEF Untouched
<1>4. PICK o : o = receiver[k]
  OBVIOUS
<1>5. /\ o \in ReceiverType /\ o.state = "none" /\ o.got = <<>> /\ ~o.clean /\ UNCHANGED sender
  BY <1>4, ReceiverIs DEF IInv, Receives, CreateReceiver
<1>6. PICK r : r = [o EXCEPT !.state = "open", !.buffer = e.chunks, !.eof = e.finished, !.attached = a, !.clean = c]
  OBVIOUS
<1>7. r.state = "open" /\ r.clean = c /\ r.got = <<>>
  BY <1>5, <1>6 DEF ReceiverType
<1>8. PICK b : b = [r EXCEPT !.state = "broken", !.buffer = <<>>]
  OBVIOUS
<1>9. PICK n : n = IF e.dead THEN [b EXCEPT !.aborted = TRUE] ELSE r
  OBVIOUS
<1>10. n.state \in {"open", "broken"} /\ n.clean = c /\ n.got = <<>>
  <2>1. DOMAIN r = DOMAIN o /\ DOMAIN b = DOMAIN o
    BY <1>6, <1>8
  <2>2. DOMAIN o = {"state", "told", "buffer", "got", "eof", "attached", "clean", "aborted"}
    BY <1>5 DEF ReceiverType
  <2>3. b.state = "broken" /\ b.clean = c /\ b.got = <<>>
    BY <1>7, <1>8, <2>1, <2>2
  <2>4. CASE e.dead
    <3>1. n = [b EXCEPT !.aborted = TRUE]
      BY <1>9, <2>4
    <3> QED
      BY <2>1, <2>2, <2>3, <3>1
  <2>5. CASE ~e.dead
    BY <1>7, <1>9, <2>5
  <2> QED
    BY <2>4, <2>5
<1>11. receiver' = [receiver EXCEPT ![k] = n]
  BY <1>1, <1>2, <1>3, <1>4, <1>6, <1>8, <1>9 DEF CreateReceiver, Aborted
<1>12. receiver'[k] = n /\ WriterMoves(k) /\ \A j \in Key : j # k => Stream(j)!Next
  BY <1>5, <1>11, OtherReadersRest
<1>13. ReaderState(k) = "open"
  BY <1>4, <1>5, ReaderIs
<1>14. ReaderState(k)' \in {"open", "broken"}
  BY <1>3, <1>10, <1>12, ReaderIsThen
<1>15. Got(k)' = Got(k)
  <2>1. Got(k) = 0
    BY <1>4, <1>5 DEF Got
  <2>2. Own(k)' = {}
    BY <1>10, <1>12 DEF Own
  <2>3. Cardinality(Own(k)') = 0
    BY <2>2, FS_EmptySet
  <2> QED
    BY <2>1, <2>3 DEF Got
<1>16. ReaderMoves(k)
  BY <1>13, <1>14, <1>15 DEF ReaderMoves
<1>17. Stream(k)!Next
  BY <1>12, <1>16, BreakIs
<1> QED
  BY <1>12, <1>17

LEMMA NextIsChannel == IInv /\ Next => \A j \in Key : Stream(j)!Next
<1> SUFFICES ASSUME IInv, Next PROVE \A j \in Key : Stream(j)!Next
  OBVIOUS
<1>1. CASE CreateSender
  BY <1>1, CreateSenderIs
<1>2. CASE Deliver
  BY <1>2, DeliverIs
<1>3. CASE AbortArrives
  BY <1>3, AbortArrivesIs
<1>4. CASE Disconnect
  BY <1>4, DisconnectIs
<1>5. ASSUME UNCHANGED sender, UNCHANGED receiver
      PROVE  \A j \in Key : Stream(j)!Next
  BY <1>5, WriterRests, ReaderRests, BreakIs
<1>6. CASE Reconnect \/ \E home \in Session, id \in Key : Expire(home, id)
  <2>1. UNCHANGED sender /\ UNCHANGED receiver
    BY <1>6 DEF Reconnect, Expire
  <2> QED
    BY <1>5, <2>1
<1>7. ASSUME NEW k \in Key,
             \/ Tell(k) \/ Write(k) \/ Drain(k) \/ Finish(k) \/ DestroySender(k)
             \/ CreateReceiver(k) \/ Read(k) \/ ReadEnd(k) \/ DestroyReceiver(k)
      PROVE  \A j \in Key : Stream(j)!Next
  <2>1. CASE Tell(k) \/ DestroyReceiver(k)
    BY <2>1, TellIs
  <2>2. CASE Drain(k) \/ DestroySender(k)
    BY <2>2, DrainIs
  <2>3. CASE Write(k) \/ Finish(k)
    BY <2>3, WriteIs, FinishIs
  <2>4. CASE CreateReceiver(k)
    BY <2>4, CreateReceiverIs
  <2>5. CASE Read(k) \/ ReadEnd(k)
    BY <2>5, ReadIs, ReadEndIs
  <2> QED
    BY <1>7, <2>1, <2>2, <2>3, <2>4, <2>5
<1> QED
  BY <1>1, <1>2, <1>3, <1>4, <1>6, <1>7 DEF Next

-----------------------------------------------------------------------------
(* Theorems. *)

\* Whatever comes before a receiver does (writeReceiver(), finishReceiver() and destroySubstream()
\* without one), no record keeps more than PENDING_RECEIVER_MAX_BYTES under a number, and it
\* keeps chunks only while PENDING_RECEIVER_TIMEOUT_MS runs: for any connections and streams.
THEOREM PendingStaysBounded == Spec => []PendingIsBounded
<1>1. Spec => []IInv
  BY Always
<1>2. IInv => PendingIsBounded
  BY InvBounds
<1> QED
  BY <1>1, <1>2, PTL

\* A receiver that is destroyed, or that createReceiver() finds lost, leaves no sender open that
\* nothing will stop; and a receiver that has nothing of a former connection in it and whose
\* sender is over has heard so, or a frame on the wire will tell it.
THEOREM EndsAreTold == Spec => []EndsReachBoth
<1>1. Spec => []IInv
  BY Always
<1>2. IInv => EndsReachBoth
  BY InvReaches
<1> QED
  BY <1>1, <1>2, PTL

\* The byte streams of a connection, with their shared maps, numbers that a later connection uses
\* again, entries for receivers to come and handlers for the end of the connection, are separate
\* channels: every step is for each stream a step of ByteChannel or none.
THEOREM StreamsAreChannels == Spec => ImplementsChannel
<1>1. Init => IInv
  BY InitHolds
<1>2. IInv /\ [Next]_vars => IInv'
  BY Inductive
<1>3. IInv /\ [Next]_vars => [\A k \in Key : [Stream(k)!Next]_(Stream(k)!chan)]_vars
  BY NextIsChannel
<1>4. Init => \A k \in Key : Stream(k)!Init
  BY DEF Init, Stream!Init, WriterState, ReaderState, NoReceiver
<1> QED
  BY <1>1, <1>2, <1>3, <1>4, PTL DEF Spec, ImplementsChannel
=============================================================================
