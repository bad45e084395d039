----------------------------- MODULE ByteStream -----------------------------
(***************************************************************************)
(* Byte streams inside an sRPC connection (src/srpc/SrpcByteStream.ts):    *)
(* senders at one end, receivers at the other.  A sender has a number, and *)
(* its frames carry it; the application tells the other end the number in  *)
(* a message of its own, and the receiver is created some time after that. *)
(*                                                                         *)
(* way = "up": the client sends.  The server has a record of receivers for *)
(* each connection; the client numbers its senders for ever.               *)
(* way = "down": the server sends.  The client has one record, which stays *)
(* when it reconnects; the server counts from the start again.             *)
(*                                                                         *)
(* A connection that is lost is lost at once for both ends: what an end    *)
(* that has not heard of it yet still does reaches no one.                 *)
(***************************************************************************)
EXTENDS Naturals, Sequences, FiniteSets

CONSTANTS
    Ways,           \* a subset of {"up", "down"}
    MaxPending,     \* PENDING_RECEIVER_MAX_BYTES, in chunks
    \* Bounds
    MaxSenders, MaxChunks, MaxSessions

ASSUME ByteStreamAssumption ==
    /\ Ways \subseteq {"up", "down"}
    /\ {MaxPending, MaxSenders, MaxChunks, MaxSessions} \subseteq Nat
    /\ MaxSessions # 0

VARIABLES
    way,        \* which end sends
    session,    \* the number of the connection
    connected,  \* it is up
    sender,     \* all senders, in the order of their creation
    receiver,   \* the receiver of each of them
    pending,    \* record, number -> what came before the receiver
    wire,       \* frames on their way to the receivers
    back        \* numbers in "destroy" frames on their way to the senders

vars == <<way, session, connected, sender, receiver, pending, wire, back>>

Key     == 1..MaxSenders
Session == 1..MaxSessions
Chunk   == Key \X (1..MaxChunks)
Frame   == [op : {"write", "finish", "destroy"}, from : Key, n : 0..MaxChunks]

\* since: the connection that the entry began in.
NoEntry == [chunks |-> <<>>, finished |-> FALSE, dead |-> FALSE, timer |-> FALSE, since |-> 0]

\* told: the application has the number.  clean: nothing of a former connection is in it.
NoReceiver ==
    [state |-> "none", told |-> FALSE, buffer |-> <<>>, got |-> <<>>, eof |-> FALSE,
     attached |-> 0, clean |-> FALSE, aborted |-> FALSE]

TypeOK ==
    /\ way \in Ways /\ session \in Session /\ connected \in BOOLEAN
    /\ sender \in Seq([id : Key, session : Session, wrote : 0..MaxChunks, busy : BOOLEAN,
                       state : {"open", "ended", "broken"}])
    /\ receiver \in [Key -> [state : {"none", "open", "ended", "broken"}, told : BOOLEAN,
                             buffer : Seq(Chunk), got : Seq(Chunk), eof : BOOLEAN,
                             attached : {0} \cup Session, clean : BOOLEAN, aborted : BOOLEAN]]
    /\ pending \in [Session -> [Key -> [chunks : Seq(Chunk), finished : BOOLEAN, dead : BOOLEAN,
                                        timer : BOOLEAN, since : {0} \cup Session]]]
    /\ wire \in Seq(Frame) /\ back \in Seq(Key)

-----------------------------------------------------------------------------
(* Senders. *)

\* nextId, which step keeps apart from the numbers that the other end gives out.
NextId ==
    IF way = "up" THEN Len(sender) + 1
    ELSE Cardinality({k \in DOMAIN sender : sender[k].session = session}) + 1

CreateSender ==
    /\ connected /\ Len(sender) < MaxSenders
    /\ sender' = Append(sender,
          [id |-> NextId, session |-> session, wrote |-> 0, busy |-> FALSE, state |-> "open"])
    /\ UNCHANGED <<way, session, connected, receiver, pending, wire, back>>

Sends(op, k, n) == wire' = Append(wire, [op |-> op, from |-> k, n |-> n])

\* The application's message with the number arrives, before, between or after the chunks.
Tell(k) ==
    /\ connected /\ k \in DOMAIN sender /\ sender[k].session = session
    /\ ~receiver[k].told
    /\ receiver' = [receiver EXCEPT ![k].told = TRUE]
    /\ UNCHANGED <<way, session, connected, sender, pending, wire, back>>

\* _write(): the next chunk waits until this one's callback is called, which is at once unless
\* the web socket's buffer is above the high water mark.
Write(k) ==
    /\ k \in DOMAIN sender /\ sender[k].state = "open" /\ ~sender[k].busy
    /\ sender[k].wrote < MaxChunks
    /\ \E high \in BOOLEAN :
        sender' = [sender EXCEPT ![k].wrote = @ + 1, ![k].busy = high]
    /\ Sends("write", k, sender[k].wrote + 1)
    /\ UNCHANGED <<way, session, connected, receiver, pending, back>>

\* pollForDrain() finds the buffer below the mark.
Drain(k) ==
    /\ k \in DOMAIN sender /\ sender[k].busy
    /\ sender' = [sender EXCEPT ![k].busy = FALSE]
    /\ UNCHANGED <<way, session, connected, receiver, pending, wire, back>>

\* _final(), when every chunk has been written.
Finish(k) ==
    /\ k \in DOMAIN sender /\ sender[k].state = "open" /\ ~sender[k].busy
    /\ sender' = [sender EXCEPT ![k].state = "ended"]
    /\ Sends("finish", k, 0)
    /\ UNCHANGED <<way, session, connected, receiver, pending, back>>

Broken(s) == [s EXCEPT !.state = "broken", !.busy = FALSE]

DestroySender(k) ==
    /\ k \in DOMAIN sender /\ sender[k].state = "open"
    /\ sender' = [sender EXCEPT ![k] = Broken(@)]
    /\ Sends("destroy", k, 0)
    /\ UNCHANGED <<way, session, connected, receiver, pending, back>>

\* destroySubstream() at the senders' end.  For a number that is over it leaves an entry in
\* pendingReceivers, which no receiver has: receivers have the other end's numbers.
AbortArrives ==
    /\ back # <<>>
    /\ back' = Tail(back)
    /\ sender' = [k \in DOMAIN sender |->
          IF sender[k].id = Head(back) /\ sender[k].state = "open"
          THEN Broken(sender[k]) ELSE sender[k]]
    /\ UNCHANGED <<way, session, connected, receiver, pending, wire>>

-----------------------------------------------------------------------------
(* Receivers. *)

\* The record that a receiver for sender k is put into, and that of the present connection.
Home(k) == IF way = "up" THEN sender[k].session ELSE 1
Here    == IF way = "up" THEN session ELSE 1

\* The entry of the map receivers: a set of one member at most.
Receivers(home, id) ==
    {k \in DOMAIN sender :
        receiver[k].state = "open" /\ sender[k].id = id /\ Home(k) = home}

Arrives(op) == wire # <<>> /\ Head(wire).op = op

Id == sender[Head(wire).from].id

\* The entry for a frame that no receiver takes.
Entry == [pending[Here][Id] EXCEPT !.since = IF @ = 0 THEN session ELSE @]

\* Mutant: chunks wait without a timer.
BufferForever(e, chunk) ==
    IF e.dead THEN e
    ELSE IF Len(e.chunks) = MaxPending THEN [e EXCEPT !.dead = TRUE, !.chunks = <<>>]
    ELSE [e EXCEPT !.chunks = Append(@, chunk)]

\* Mutant: what does not fit is dropped, and nobody hears of it.
DropsChunk(e, chunk) ==
    IF e.dead \/ Len(e.chunks) = MaxPending THEN e
    ELSE [e EXCEPT !.timer = TRUE, !.chunks = Append(@, chunk)]

\* writeReceiver() without a receiver.
Buffer(e, chunk) ==
    IF e.dead THEN e
    ELSE IF Len(e.chunks) = MaxPending THEN [e EXCEPT !.timer = TRUE, !.dead = TRUE, !.chunks = <<>>]
    ELSE [e EXCEPT !.timer = TRUE, !.chunks = Append(@, chunk)]

WriteArrives ==
    LET chunk == <<Head(wire).from, Head(wire).n>>
        rs == Receivers(Here, Id)
    IN
    /\ Arrives("write")
    /\ wire' = Tail(wire)
    /\ IF rs # {}
       THEN /\ receiver' = [k \in Key |-> IF k \in rs
                    THEN [receiver[k] EXCEPT !.buffer = Append(@, chunk)] ELSE receiver[k]]
            /\ UNCHANGED pending
       ELSE /\ pending' = [pending EXCEPT ![Here][Id] = Buffer(Entry, chunk)]
            /\ UNCHANGED receiver
    /\ UNCHANGED <<way, session, connected, sender, back>>

FinishArrives ==
    LET rs == Receivers(Here, Id) IN
    /\ Arrives("finish")
    /\ wire' = Tail(wire)
    /\ IF rs # {}
       THEN /\ receiver' = [k \in Key |-> IF k \in rs
                    THEN [receiver[k] EXCEPT !.eof = TRUE] ELSE receiver[k]]
            /\ UNCHANGED pending
       ELSE /\ pending' = [pending EXCEPT ![Here][Id] =
                    IF Entry.dead THEN Entry ELSE [Entry EXCEPT !.finished = TRUE]]
            /\ UNCHANGED receiver
    /\ UNCHANGED <<way, session, connected, sender, back>>

\* A destroyed stream drops what it has buffered.
Aborted(r) == [r EXCEPT !.state = "broken", !.buffer = <<>>]

DestroyArrives ==
    LET rs == Receivers(Here, Id) IN
    /\ Arrives("destroy")
    /\ wire' = Tail(wire)
    /\ IF rs # {}
       THEN /\ receiver' = [k \in Key |-> IF k \in rs THEN Aborted(receiver[k]) ELSE receiver[k]]
            /\ UNCHANGED pending
       ELSE /\ pending' = [pending EXCEPT ![Here][Id] = [Entry EXCEPT !.dead = TRUE, !.chunks = <<>>]]
            /\ UNCHANGED receiver
    /\ UNCHANGED <<way, session, connected, sender, back>>

Expire(home, id) ==
    /\ pending[home][id].timer
    /\ pending' = [pending EXCEPT ![home][id].timer = FALSE, ![home][id].dead = TRUE,
                                  ![home][id].chunks = <<>>]
    /\ UNCHANGED <<way, session, connected, sender, receiver, wire, back>>

\* A "destroy" frame of receiver k, if its record still has a connection.
SendsBack(k) ==
    back' = IF connected /\ Home(k) = Here THEN Append(back, sender[k].id) ELSE back

\* Nothing of a former connection has been in the record under this number.
Untouched(k) ==
    /\ connected /\ sender[k].session = session
    /\ pending[Home(k)][sender[k].id].since \in {0, session}
    /\ \A j \in DOMAIN sender \ {k} :
        sender[j].id = sender[k].id /\ Home(j) = Home(k) =>
            receiver[j].state = "none" \/ receiver[j].attached \in 1..(session - 1)

\* createReceiver(); it throws when the number has a receiver.
CreateReceiver(k) ==
    LET home == Home(k)
        id == sender[k].id
        e == pending[home][id]
        r == [receiver[k] EXCEPT
                !.state = "open", !.buffer = e.chunks, !.eof = e.finished,
                !.attached = IF connected /\ home = Here THEN session ELSE 0,
                !.clean = Untouched(k)]
    IN
    /\ k \in DOMAIN sender /\ receiver[k].told /\ receiver[k].state = "none"
    /\ Receivers(home, id) = {}
    /\ pending' = [pending EXCEPT ![home][id] = NoEntry]
    /\ IF e.dead
       THEN receiver' = [receiver EXCEPT ![k] = [Aborted(r) EXCEPT !.aborted = TRUE]] /\ SendsBack(k)
       ELSE receiver' = [receiver EXCEPT ![k] = r] /\ UNCHANGED back
    /\ UNCHANGED <<way, session, connected, sender, wire>>

\* The application reads a chunk.
Read(k) ==
    /\ receiver[k].state = "open" /\ receiver[k].buffer # <<>>
    /\ receiver' = [receiver EXCEPT ![k].buffer = Tail(@), ![k].got = Append(@, Head(receiver[k].buffer))]
    /\ UNCHANGED <<way, session, connected, sender, pending, wire, back>>

\* The event "end", and with it cleanup().
ReadEnd(k) ==
    /\ receiver[k].state = "open" /\ receiver[k].buffer = <<>> /\ receiver[k].eof
    /\ receiver' = [receiver EXCEPT ![k].state = "ended"]
    /\ UNCHANGED <<way, session, connected, sender, pending, wire, back>>

DestroyReceiver(k) ==
    /\ k \in DOMAIN sender /\ receiver[k].state = "open"
    /\ receiver' = [receiver EXCEPT ![k] = [Aborted(@) EXCEPT !.aborted = TRUE]]
    /\ SendsBack(k)
    /\ UNCHANGED <<way, session, connected, sender, pending, wire>>

-----------------------------------------------------------------------------
(* Connections. *)

\* Mutant: receivers do not hear of the end of the connection.
DeafReceivers == receiver

\* handleDisconnect() of the receivers whose handler is attached to this connection.
DisconnectedReceivers ==
    [k \in Key |-> IF receiver[k].state = "open" /\ receiver[k].attached = session
                   THEN Aborted(receiver[k]) ELSE receiver[k]]

Disconnect ==
    /\ connected
    /\ connected' = FALSE
    /\ sender' = [k \in DOMAIN sender |->
          IF sender[k].state = "open" THEN Broken(sender[k]) ELSE sender[k]]
    /\ receiver' = DisconnectedReceivers
    /\ wire' = <<>> /\ back' = <<>>
    /\ UNCHANGED <<way, session, pending>>

Reconnect ==
    /\ ~connected /\ session < MaxSessions
    /\ session' = session + 1
    /\ connected' = TRUE
    /\ UNCHANGED <<way, sender, receiver, pending, wire, back>>

Init ==
    /\ way \in Ways
    /\ session = 1 /\ connected = TRUE
    /\ sender = <<>>
    /\ receiver = [k \in Key |-> NoReceiver]
    /\ pending = [s \in Session |-> [id \in Key |-> NoEntry]]
    /\ wire = <<>> /\ back = <<>>

Deliver == WriteArrives \/ FinishArrives \/ DestroyArrives

Next ==
    \/ CreateSender \/ Deliver \/ AbortArrives \/ Disconnect \/ Reconnect
    \/ \E k \in Key :
        \/ Tell(k) \/ Write(k) \/ Drain(k) \/ Finish(k) \/ DestroySender(k)
        \/ CreateReceiver(k) \/ Read(k) \/ ReadEnd(k) \/ DestroyReceiver(k)
    \/ \E home \in Session, id \in Key : Expire(home, id)

Spec == Init /\ [][Next]_vars

-----------------------------------------------------------------------------
(* Properties. *)

WriterState(k) == IF k \in DOMAIN sender THEN sender[k].state ELSE "open"
ReaderState(k) ==
    CASE receiver[k].state = "none" -> "open"
      [] receiver[k].clean          -> receiver[k].state
      [] OTHER                      -> "broken"
Own(k) == {i \in DOMAIN receiver[k].got : receiver[k].got[i] = <<k, i>>}

Stream(k) == INSTANCE ByteChannel WITH
    Items  <- MaxChunks,
    writer <- WriterState(k),
    wrote  <- IF k \in DOMAIN sender THEN sender[k].wrote ELSE 0,
    reader <- ReaderState(k),
    got    <- IF receiver[k].clean THEN Cardinality(Own(k)) ELSE 0

\* Every byte stream is a channel for its applications, whatever the order in which frames, the
\* message with its number and the creation of its receiver come; unless its number was used
\* in a former connection and frames of that are still in the client's record.
ImplementsChannel ==
    /\ \A k \in Key : Stream(k)!Init
    /\ [][\A k \in Key : [Stream(k)!Next]_(Stream(k)!chan)]_vars

\* What waits for a receiver is bounded, in size and in time: chunks are kept only with a timer
\* that drops them.
PendingIsBounded ==
    /\ TypeOK
    /\ \A s \in Session, id \in Key :
          /\ Len(pending[s][id].chunks) <= MaxPending
          /\ pending[s][id].chunks # <<>> => pending[s][id].timer

\* Whoever is left is told: while the sender of a receiver that was destroyed, or created too
\* late, is still open, the word that stops it is on its way; and a receiver of the present
\* connection does not wait for ever for a sender that is over, nor for one whose connection is
\* lost: it knows of the end, or a frame will tell it.
EndsReachBoth ==
    \A k \in DOMAIN sender :
        /\ receiver[k].aborted /\ sender[k].state = "open" =>
              \E i \in DOMAIN back : back[i] = sender[k].id
        /\ receiver[k].clean /\ receiver[k].state = "open" /\ sender[k].state # "open" =>
              \/ receiver[k].eof
              \/ \E i \in DOMAIN wire : wire[i].from = k /\ wire[i].op # "write"

=============================================================================
