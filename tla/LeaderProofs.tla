---------------------------- MODULE LeaderProofs ----------------------------
(***************************************************************************)
(* Proofs about Leader.  The inductive invariant has two layers: Loop says *)
(* that a service restarted quietly runs one acquisition loop, and Lease   *)
(* bounds from below what is left of the key's time to live while a        *)
(* service leads or is about to.  Two more invariants stand at the end:    *)
(* what keeps a running service in the election whatever fails, and who    *)
(* accounts for the key as long as nothing has failed.                     *)
(***************************************************************************)
EXTENDS Leader, TLAPS, SequenceTheorems

\* renewalIntervalMs plus two answers' delays stay below ttlMs.
TimelyAssumption ==
    /\ Timely
    /\ RestartWhen = "quiet"
    /\ 2 * MaxDelay + RenewEvery < TTL

\* A node's lock ids are its own: no process draws another's uuid.
Own(n) ==
    /\ lockId[n][1] = n
    /\ \A i \in DOMAIN chan[n] : chan[n][i].token[1] = n

\* One loop per service: no timer without a handle, a timeout only while the service runs
\* and does not lead, the renewal interval exactly while it runs and leads.
LoopTimers(n) ==
    /\ lostRetryTimers[n] = 0
    /\ lostRenewTimers[n] = 0
    /\ retryTimer[n] => running[n] /\ ~isLeader[n]
    /\ renewTimer[n] # Off <=> running[n] /\ isLeader[n]

\* An ACQUIRE is the last command of its node, carries the present lock id, and excludes
\* both leadership and a pending timeout.
LoopAcquire(n) ==
    \A i \in DOMAIN chan[n] : chan[n][i].op = "acquire" =>
        /\ i = Len(chan[n])
        /\ chan[n][i].token = lockId[n]
        /\ ~isLeader[n] /\ ~retryTimer[n]

\* A running service has no RELEASE in flight: it was restarted quietly.
LoopRelease(n) ==
    running[n] => \A i \in DOMAIN chan[n] : chan[n][i].op \notin {"release", "undo"}

\* isLeader outlives stop() only while the RELEASE of stop() is in flight.
LoopStopping(n) ==
    alive[n] /\ isLeader[n] /\ ~running[n] => \E i \in DOMAIN chan[n] : chan[n][i].op = "release"

\* A leading service has only RENEWs of its present lock id in flight.
LoopRenew(n) ==
    running[n] /\ isLeader[n] =>
        \A i \in DOMAIN chan[n] : chan[n][i].op = "renew" /\ chan[n][i].token = lockId[n]

Loop(n) == LoopTimers(n) /\ LoopAcquire(n) /\ LoopRelease(n) /\ LoopStopping(n) /\ LoopRenew(n)

\* Redis answers a connection in order: nothing before an executed command is unexecuted.
InOrder(n) ==
    \A i, j \in DOMAIN chan[n] :
        i < j /\ chan[n][j].reply \in {"yes", "no"} => chan[n][i].reply # "none"

\* A granted ACQUIRE whose answer is on its way covers its sender.
LeaseAcquired(n) ==
    alive[n] /\ running[n] =>
        \A i \in DOMAIN chan[n] : chan[n][i].op = "acquire" /\ chan[n][i].reply = "yes" =>
            lock.owner = lockId[n] /\ lock.ttl >= TTL - chan[n][i].age

\* A leader's key outlives the answer to its oldest RENEW that has not been confirmed ...
LeaseAnswers(n) ==
    Leads(n) =>
        \A i \in DOMAIN chan[n] : (\A j \in DOMAIN chan[n] : j < i => chan[n][j].reply = "yes") =>
            lock.ttl >= TTL - MaxDelay - RenewEvery - chan[n][i].age

\* ... and, when all are confirmed, the next firing of its interval and the answer after it.
LeaseTimer(n) ==
    Leads(n) /\ (\A i \in DOMAIN chan[n] : chan[n][i].reply = "yes") =>
        lock.ttl >= TTL - MaxDelay - RenewEvery + renewTimer[n]

Lease(n) ==
    /\ LeaseAcquired(n)
    /\ Leads(n) => lock.owner = lockId[n]
    /\ LeaseAnswers(n)
    /\ LeaseTimer(n)

IInv == TypeOK /\ \A n \in Node : Own(n) /\ InOrder(n) /\ Loop(n) /\ Lease(n)

-----------------------------------------------------------------------------
(* Sequences: what Append and Tail do to the length and the elements. *)

\* A command appended to a channel is its last element and moves no other.
LEMMA AppendFacts ==
    ASSUME NEW S, NEW s \in Seq(S), NEW e \in S
    PROVE  /\ Append(s, e) \in Seq(S)
           /\ DOMAIN Append(s, e) = 1..(Len(s) + 1)
           /\ Len(Append(s, e)) = Len(s) + 1
           /\ \A i \in 1..Len(s) : Append(s, e)[i] = s[i]
           /\ Append(s, e)[Len(s) + 1] = e
  OBVIOUS

\* Consuming the head of a channel moves every other command one place forward.
LEMMA TailFacts ==
    ASSUME NEW S, NEW s \in Seq(S), s # <<>>
    PROVE  /\ Tail(s) \in Seq(S)
           /\ Head(s) = s[1]
           /\ 1 \in DOMAIN s
           /\ Len(s) \in Nat /\ Len(s) >= 1
           /\ DOMAIN s = 1..Len(s)
           /\ DOMAIN Tail(s) = 1..(Len(s) - 1)
           /\ Len(Tail(s)) = Len(s) - 1
           /\ \A i \in 1..(Len(s) - 1) : Tail(s)[i] = s[i + 1]
  OBVIOUS

\* A sequence rewritten element by element keeps its length.
LEMMA RewriteFacts ==
    ASSUME NEW S, NEW s \in Seq(S), NEW t, t = [i \in DOMAIN s |-> t[i]],
           \A i \in DOMAIN s : t[i] \in S
    PROVE  t \in Seq(S) /\ Len(t) = Len(s) /\ DOMAIN t = DOMAIN s
  OBVIOUS

-----------------------------------------------------------------------------
(* What the operations of the connection do to the channels. *)

ChanType == chan \in [Node -> Seq(Command)]

\* A command sent with the node's lock id is a command.
LEMMA SentType ==
    ASSUME NEW op \in {"acquire", "renew", "release", "undo"}, NEW token \in Token
    PROVE  /\ Sent(op, token) \in Command
           /\ Sent(op, token).op = op
           /\ Sent(op, token).token = token
           /\ Sent(op, token).age = 0
           /\ Sent(op, token).reply = "none"
  BY LeaderAssumption DEF Sent, Command

\* Send appends a command with the lock id of the moment to its node's channel.
LEMMA SendEffect ==
    ASSUME ChanType, lockId \in [Node -> Token], NEW n \in Node,
           NEW op \in {"acquire", "renew", "release", "undo"}, Send(n, op)
    PROVE  /\ ChanType'
           /\ \A m \in Node \ {n} : chan'[m] = chan[m]
           /\ Len(chan[n]) \in Nat
           /\ DOMAIN chan[n] = 1..Len(chan[n])
           /\ Len(chan'[n]) = Len(chan[n]) + 1
           /\ DOMAIN chan'[n] = 1..(Len(chan[n]) + 1)
           /\ \A i \in 1..Len(chan[n]) : chan'[n][i] = chan[n][i]
           /\ chan'[n][Len(chan[n]) + 1] = Sent(op, lockId[n])
<1> DEFINE c == Sent(op, lockId[n])
<1>1. c \in Command BY SentType
<1> HIDE DEF c
<1>2. chan' = [chan EXCEPT ![n] = Append(chan[n], c)] BY DEF Send, c, ChanType
<1> QED BY <1>1, <1>2, AppendFacts DEF ChanType, c

\* Consume drops the head of its node's channel.
LEMMA ConsumeEffect ==
    ASSUME ChanType, NEW n \in Node, chan[n] # <<>>, Consume(n)
    PROVE  /\ ChanType'
           /\ \A m \in Node \ {n} : chan'[m] = chan[m]
           /\ Len(chan[n]) \in Nat /\ Len(chan[n]) >= 1
           /\ DOMAIN chan[n] = 1..Len(chan[n])
           /\ Head(chan[n]) = chan[n][1]
           /\ Len(chan'[n]) = Len(chan[n]) - 1
           /\ DOMAIN chan'[n] = 1..(Len(chan[n]) - 1)
           /\ \A i \in 1..(Len(chan[n]) - 1) : chan'[n][i] = chan[n][i + 1]
<1>1. chan' = [chan EXCEPT ![n] = Tail(chan[n])] BY DEF Consume, ChanType
<1>2. chan[n] \in Seq(Command) BY DEF ChanType
<1> QED BY <1>1, <1>2, TailFacts DEF ChanType

\* A command's reply is the step's whole change of the channels.
Replied(n, i, r) == chan' = [chan EXCEPT ![n][i].reply = r]

\* An answer changes one command's reply and nothing else.
LEMMA AnswerEffect ==
    ASSUME ChanType, NEW n \in Node, NEW i \in DOMAIN chan[n],
           NEW r \in {"none", "yes", "no", "error"}, Replied(n, i, r)
    PROVE  /\ ChanType'
           /\ \A m \in Node \ {n} : chan'[m] = chan[m]
           /\ Len(chan'[n]) = Len(chan[n])
           /\ DOMAIN chan'[n] = DOMAIN chan[n]
           /\ \A j \in DOMAIN chan[n] :
                 /\ chan'[n][j].op = chan[n][j].op
                 /\ chan'[n][j].token = chan[n][j].token
                 /\ chan'[n][j].age = chan[n][j].age
                 /\ chan'[n][j].reply = IF j = i THEN r ELSE chan[n][j].reply
<1> DEFINE c == [chan[n][i] EXCEPT !.reply = r]
<1>1. chan[n] \in Seq(Command) /\ chan[n][i] \in Command BY DEF ChanType
<1>2. /\ c \in Command
      /\ c.op = chan[n][i].op /\ c.token = chan[n][i].token
      /\ c.age = chan[n][i].age /\ c.reply = r
  BY <1>1 DEF Command
<1>3. chan' = [chan EXCEPT ![n] = [chan[n] EXCEPT ![i] = c]] BY DEF ChanType, Replied
<1> HIDE DEF c
<1>4. /\ [chan[n] EXCEPT ![i] = c] \in Seq(Command)
      /\ Len([chan[n] EXCEPT ![i] = c]) = Len(chan[n])
      /\ DOMAIN [chan[n] EXCEPT ![i] = c] = DOMAIN chan[n]
      /\ \A j \in DOMAIN chan[n] : [chan[n] EXCEPT ![i] = c][j] = IF j = i THEN c ELSE chan[n][j]
  BY <1>1, <1>2
<1>5. chan'[n] = [chan[n] EXCEPT ![i] = c] BY <1>3 DEF ChanType
<1>6. ChanType' BY <1>3, <1>4 DEF ChanType
<1>7. \A m \in Node \ {n} : chan'[m] = chan[m] BY <1>3 DEF ChanType
<1> QED BY <1>2, <1>4, <1>5, <1>6, <1>7

\* Replacing the reply or the age of a command keeps the rest of it.
LEMMA RecordFacts ==
    ASSUME NEW c \in Command
    PROVE  /\ LET d == Failed(c) IN
                d \in Command /\ d.op = c.op /\ d.token = c.token /\ d.age = c.age /\ d.reply = "error"
           /\ LET d == Unanswered(c) IN
                /\ d \in Command /\ d.op = c.op /\ d.token = c.token /\ d.age = c.age
                /\ d.reply \in {"none", "error"}
           /\ LET d == Older(c) IN
                /\ d \in Command /\ d.op = c.op /\ d.token = c.token /\ d.reply = c.reply
                /\ c.age < MaxDelay => d.age = c.age + 1
<1>1. LET d == Failed(c) IN
         d \in Command /\ d.op = c.op /\ d.token = c.token /\ d.age = c.age /\ d.reply = "error"
  BY DEF Failed, Command
<1>2. LET d == Unanswered(c) IN
         /\ d \in Command /\ d.op = c.op /\ d.token = c.token /\ d.age = c.age
         /\ d.reply \in {"none", "error"}
  BY DEF Unanswered, Command
<1>3. LET d == Older(c) IN
         /\ d \in Command /\ d.op = c.op /\ d.token = c.token /\ d.reply = c.reply
         /\ c.age < MaxDelay => d.age = c.age + 1
  BY LeaderAssumption DEF Older, Command
<1> QED BY <1>1, <1>2, <1>3

\* A give-up fails every command of the node.
LEMMA FlushEffect ==
    ASSUME ChanType, NEW n \in Node, Flush(n)
    PROVE  /\ ChanType'
           /\ \A m \in Node \ {n} : chan'[m] = chan[m]
           /\ Len(chan'[n]) = Len(chan[n])
           /\ DOMAIN chan'[n] = DOMAIN chan[n]
           /\ \A j \in DOMAIN chan[n] :
                 /\ chan'[n][j].op = chan[n][j].op
                 /\ chan'[n][j].token = chan[n][j].token
                 /\ chan'[n][j].age = chan[n][j].age
                 /\ chan'[n][j].reply = "error"
<1> DEFINE t == [i \in DOMAIN chan[n] |-> Failed(chan[n][i])]
<1>1. chan[n] \in Seq(Command) BY DEF ChanType
<1>2. chan' = [chan EXCEPT ![n] = t] BY DEF Flush, ChanType
<1>3. ASSUME NEW j \in DOMAIN chan[n]
      PROVE  /\ t[j] \in Command
             /\ t[j].op = chan[n][j].op /\ t[j].token = chan[n][j].token
             /\ t[j].age = chan[n][j].age /\ t[j].reply = "error"
  <2>1. chan[n][j] \in Command BY <1>1
  <2> QED BY <2>1, RecordFacts
<1>4. t = [i \in DOMAIN chan[n] |-> t[i]] OBVIOUS
<1> HIDE DEF t
<1>5. t \in Seq(Command) /\ Len(t) = Len(chan[n]) /\ DOMAIN t = DOMAIN chan[n]
  BY <1>1, <1>3, <1>4, RewriteFacts
<1> QED BY <1>2, <1>3, <1>5 DEF ChanType

\* A reconnection forgets the answers that Redis gave.
LEMMA ResendEffect ==
    ASSUME ChanType, NEW n \in Node, Resend(n)
    PROVE  /\ ChanType'
           /\ \A m \in Node \ {n} : chan'[m] = chan[m]
           /\ Len(chan'[n]) = Len(chan[n])
           /\ DOMAIN chan'[n] = DOMAIN chan[n]
           /\ \A j \in DOMAIN chan[n] :
                 /\ chan'[n][j].op = chan[n][j].op
                 /\ chan'[n][j].token = chan[n][j].token
                 /\ chan'[n][j].age = chan[n][j].age
                 /\ chan'[n][j].reply \in {"none", "error"}
<1> DEFINE t == [i \in DOMAIN chan[n] |-> Unanswered(chan[n][i])]
<1>1. chan[n] \in Seq(Command) BY DEF ChanType
<1>2. chan' = [chan EXCEPT ![n] = t] BY DEF Resend, ChanType
<1>3. ASSUME NEW j \in DOMAIN chan[n]
      PROVE  /\ t[j] \in Command
             /\ t[j].op = chan[n][j].op /\ t[j].token = chan[n][j].token
             /\ t[j].age = chan[n][j].age /\ t[j].reply \in {"none", "error"}
  <2>1. chan[n][j] \in Command BY <1>1
  <2> QED BY <2>1, RecordFacts
<1>4. t = [i \in DOMAIN chan[n] |-> t[i]] OBVIOUS
<1> HIDE DEF t
<1>5. t \in Seq(Command) /\ Len(t) = Len(chan[n]) /\ DOMAIN t = DOMAIN chan[n]
  BY <1>1, <1>3, <1>4, RewriteFacts
<1> QED BY <1>2, <1>3, <1>5 DEF ChanType

\* A tick makes every command older and changes nothing else of it.
LEMMA TickEffect ==
    ASSUME ChanType, Tick
    PROVE  /\ ChanType'
           /\ \A n \in Node :
                /\ Len(chan'[n]) = Len(chan[n])
                /\ DOMAIN chan'[n] = DOMAIN chan[n]
                /\ \A j \in DOMAIN chan[n] :
                      /\ chan'[n][j].op = chan[n][j].op
                      /\ chan'[n][j].token = chan[n][j].token
                      /\ chan[n][j].age < MaxDelay => chan'[n][j].age = chan[n][j].age + 1
                      /\ chan'[n][j].reply = chan[n][j].reply
<1> DEFINE t(n) == [i \in DOMAIN chan[n] |-> Older(chan[n][i])]
<1>1. \A n \in Node : chan[n] \in Seq(Command) BY DEF ChanType
<1>2. chan' = [n \in Node |-> t(n)] BY DEF Tick
<1>3. ASSUME NEW n \in Node, NEW j \in DOMAIN chan[n]
      PROVE  /\ t(n)[j] \in Command
             /\ t(n)[j].op = chan[n][j].op /\ t(n)[j].token = chan[n][j].token
             /\ chan[n][j].age < MaxDelay => t(n)[j].age = chan[n][j].age + 1
             /\ t(n)[j].reply = chan[n][j].reply
  <2>1. chan[n][j] \in Command BY <1>1
  <2> QED BY <2>1, RecordFacts
<1>4. \A n \in Node : t(n) = [i \in DOMAIN chan[n] |-> t(n)[i]] OBVIOUS
<1> HIDE DEF t
<1>5. ASSUME NEW n \in Node
      PROVE  t(n) \in Seq(Command) /\ Len(t(n)) = Len(chan[n]) /\ DOMAIN t(n) = DOMAIN chan[n]
  BY <1>1, <1>3, <1>4, RewriteFacts
<1> QED BY <1>2, <1>3, <1>5 DEF ChanType

-----------------------------------------------------------------------------
(* Type correctness. *)

\* Ageing a key leaves a key.
LEMMA AgedType == ASSUME NEW key \in Keys(Token) PROVE Aged(key) \in Keys(Token)
<1>1. key.owner \in Token \cup {NoToken} /\ key.ttl \in 0..TTL BY DEF Keys
<1>2. CASE key.ttl <= 1 BY <1>2, TTLAssumption DEF Aged, Keys, Free
<1>3. CASE ~(key.ttl <= 1)
  <2>1. key.ttl - 1 \in 0..TTL BY <1>1, <1>3, TTLAssumption
  <2>2. Aged(key) = [key EXCEPT !.ttl = key.ttl - 1] BY <1>3 DEF Aged
  <2> QED BY <2>1, <2>2 DEF Keys
<1> QED BY <1>2, <1>3

\* What the three scripts and the expiry leave is a key again.
LEMMA ScriptType ==
    ASSUME NEW key \in Keys(Token), NEW command \in Command
    PROVE  Script(key, command).key \in Keys(Token)
<1>1. command.token \in Token BY DEF Command
<1>2. \A token \in Token : Acquire(key, token).key \in Keys(Token)
  BY TTLAssumption DEF Acquire, Keys, Held
<1>3. \A token \in Token : Renew(key, token).key \in Keys(Token)
  BY TTLAssumption DEF Renew, Keys, Held
<1>4. \A token \in Token : Release(key, token).key \in Keys(Token)
  BY TTLAssumption DEF Release, Keys, Free
<1>5. \/ Script(key, command) = Acquire(key, command.token)
      \/ Script(key, command) = Renew(key, command.token)
      \/ Script(key, command) = Release(key, command.token)
  <2>1. CASE command.op = "acquire" BY <2>1 DEF Script
  <2>2. CASE command.op = "renew" BY <2>2 DEF Script
  <2>3. CASE command.op # "acquire" /\ command.op # "renew" BY <2>3 DEF Script
  <2> QED BY <2>1, <2>2, <2>3
<1> QED BY <1>1, <1>2, <1>3, <1>4, <1>5

LEMMA AnswerType == ASSUME NEW g PROVE Answer(g) \in {"yes", "no"}
  BY DEF Answer

\* Every step of the services, of Redis and of the clock preserves the types.
LEMMA TypeStep == TypeOK /\ [Next]_vars => TypeOK'
<1> SUFFICES ASSUME TypeOK, [Next]_vars PROVE TypeOK'
  OBVIOUS
<1>c. ChanType BY DEF TypeOK, ChanType
<1>l. lockId \in [Node -> Token] BY DEF TypeOK
<1>1. ASSUME NEW n \in Node, Start(n) PROVE TypeOK'
  <2>1. ChanType' BY <1>1, <1>c, <1>l, SendEffect DEF Start
  <2>2. starts' \in Nat BY <1>1 DEF Start, TypeOK
  <2>3. running' \in [Node -> BOOLEAN] BY <1>1 DEF Start, TypeOK
  <2> QED BY <1>1, <2>1, <2>2, <2>3 DEF Start, TypeOK, ChanType, timers
<1>2. ASSUME NEW n \in Node, Stop(n) PROVE TypeOK'
  <2>1. ChanType'
    <3>1. CASE isLeader[n] BY <1>2, <1>c, <1>l, <3>1, SendEffect DEF Stop
    <3>2. CASE ~isLeader[n] BY <1>2, <1>c, <3>2 DEF Stop, ChanType
    <3> QED BY <3>1, <3>2
  <2> QED BY <1>2, <2>1 DEF Stop, TypeOK, ChanType, budget
<1>3. ASSUME NEW n \in Node, RetryFires(n) PROVE TypeOK'
  <2>1. ChanType'
    <3>1. CASE running[n] BY <1>3, <1>c, <1>l, <3>1, SendEffect DEF RetryFires
    <3>2. CASE ~running[n] BY <1>3, <1>c, <3>2 DEF RetryFires, ChanType
    <3> QED BY <3>1, <3>2
  <2>2. retryTimer' \in [Node -> BOOLEAN] BY <1>3 DEF RetryFires, TypeOK
  <2>3. lostRetryTimers' \in [Node -> Nat]
    <3>1. lostRetryTimers[n] \in Nat BY DEF TypeOK
    <3>2. CASE lostRetryTimers[n] > 0 /\ lostRetryTimers' = [lostRetryTimers EXCEPT ![n] = @ - 1]
      BY <3>1, <3>2 DEF TypeOK
    <3>3. CASE UNCHANGED lostRetryTimers BY <3>3 DEF TypeOK
    <3> QED BY <1>3, <3>2, <3>3 DEF RetryFires
  <2> QED BY <1>3, <2>1, <2>2, <2>3 DEF RetryFires, TypeOK, ChanType, service, budget
<1>4. ASSUME NEW n \in Node, RenewFires(n) PROVE TypeOK'
  <2>1. ChanType'
    <3>1. CASE running[n] BY <1>4, <1>c, <1>l, <3>1, SendEffect DEF RenewFires
    <3>2. CASE ~running[n] BY <1>4, <1>c, <3>2 DEF RenewFires, ChanType
    <3> QED BY <3>1, <3>2
  <2>2. renewTimer' \in [Node -> {Off} \cup 0..RenewEvery]
    BY <1>4, LeaderAssumption DEF RenewFires, TypeOK
  <2> QED BY <1>4, <2>1, <2>2 DEF RenewFires, TypeOK, ChanType, service, budget
<1>5. ASSUME NEW n \in Node, LostRenewFires(n) PROVE TypeOK'
  <2>1. ChanType' BY <1>5, <1>c, <1>l, SendEffect DEF LostRenewFires
  <2> QED BY <1>5, <2>1 DEF LostRenewFires, TypeOK, ChanType, service, timers, budget
<1>6. ASSUME NEW n \in Node, Execute(n) PROVE TypeOK'
  <2>1. PICK i \in DOMAIN chan[n] : Execute(n)!(i) BY <1>6 DEF Execute
  <2>2. chan[n][i] \in Command BY <1>c DEF ChanType
  <2>3. lock' \in Keys(Token) BY <2>1, <2>2, ScriptType DEF TypeOK
  <2>4. ChanType' BY <1>c, <2>1, AnswerType, AnswerEffect DEF Replied
  <2> QED BY <2>1, <2>3, <2>4, <1>6 DEF Execute, TypeOK, ChanType, service, timers, budget
<1>7. ASSUME NEW n \in Node, Refuse(n) PROVE TypeOK'
  <2>1. ChanType' BY <1>7, <1>c, AnswerEffect DEF Refuse, Replied
  <2> QED BY <1>7, <2>1 DEF Refuse, Fault, TypeOK, ChanType, service, timers
<1>8. ASSUME NEW n \in Node, Flush(n) PROVE TypeOK'
  <2>1. ChanType' BY <1>8, <1>c, FlushEffect
  <2> QED BY <1>8, <2>1 DEF Flush, Fault, TypeOK, ChanType, service, timers
<1>9. ASSUME NEW n \in Node, Resend(n) PROVE TypeOK'
  <2>1. ChanType' BY <1>9, <1>c, ResendEffect
  <2> QED BY <1>9, <2>1 DEF Resend, Fault, TypeOK, ChanType, service, timers
<1>10. ASSUME NEW n \in Node, Crash(n) PROVE TypeOK'
  BY <1>10 DEF Crash, Fault, TypeOK, service, timers
<1>11. ASSUME NEW n \in Node, Disconnect(n) PROVE TypeOK'
  BY <1>11 DEF Disconnect, TypeOK, service, timers, budget
<1>12. ASSUME NEW n \in Node, BecomeLeader(n) PROVE TypeOK'
  <2>1. ChanType' BY <1>12, <1>c, ConsumeEffect DEF BecomeLeader, Answered
  <2>2. renewTimer' \in [Node -> {Off} \cup 0..RenewEvery]
    BY <1>12, LeaderAssumption DEF BecomeLeader, TypeOK
  <2> QED BY <1>12, <2>1, <2>2 DEF BecomeLeader, TypeOK, ChanType, budget
<1>13. ASSUME NEW n \in Node, UndoAcquire(n) PROVE TypeOK'
  <2>1. Sent("undo", lockId[n]) \in Command BY <1>l, SentType
  <2>2. Tail(chan[n]) \in Seq(Command)
    BY <1>13, <1>c, TailFacts DEF UndoAcquire, Answered, ChanType
  <2>3. ChanType' BY <1>13, <1>c, <2>1, <2>2, AppendFacts DEF UndoAcquire, ChanType
  <2> QED BY <1>13, <2>3 DEF UndoAcquire, TypeOK, ChanType, service, timers, budget
<1>14. ASSUME NEW n \in Node, SetRetryTimer(n)
       PROVE  retryTimer' \in [Node -> BOOLEAN] /\ lostRetryTimers' \in [Node -> Nat]
  BY <1>14 DEF SetRetryTimer, TypeOK
<1>15. ASSUME NEW n \in Node, AcquireFails(n) PROVE TypeOK'
  <2>1. ChanType' BY <1>15, <1>c, ConsumeEffect DEF AcquireFails, Answered
  <2>2. retryTimer' \in [Node -> BOOLEAN] /\ lostRetryTimers' \in [Node -> Nat]
    <3>1. CASE running[n] BY <1>15, <1>14, <3>1 DEF AcquireFails
    <3>2. CASE ~running[n] BY <1>15, <3>2 DEF AcquireFails, TypeOK
    <3> QED BY <3>1, <3>2
  <2> QED BY <1>15, <2>1, <2>2 DEF AcquireFails, TypeOK, ChanType, service, budget
<1>16. ASSUME NEW n \in Node, RenewSettles(n) PROVE TypeOK'
  <2>1. ChanType' BY <1>16, <1>c, ConsumeEffect DEF RenewSettles, Answered
  <2> QED BY <1>16, <2>1 DEF RenewSettles, TypeOK, ChanType, service, timers, budget
<1>17. ASSUME NEW n \in Node, LoseLeadership(n) PROVE TypeOK'
  <2>1. ChanType' BY <1>17, <1>c, ConsumeEffect DEF LoseLeadership, Answered
  <2>2. lockId' \in [Node -> Token] BY <1>17, <1>l DEF LoseLeadership, DrawLockId, Token
  <2>3. retryTimer' \in [Node -> BOOLEAN] /\ lostRetryTimers' \in [Node -> Nat]
    <3>1. CASE running[n] BY <1>17, <1>14, <3>1 DEF LoseLeadership
    <3>2. CASE ~running[n] BY <1>17, <3>2 DEF LoseLeadership, TypeOK
    <3> QED BY <3>1, <3>2
  <2> QED BY <1>17, <2>1, <2>2, <2>3 DEF LoseLeadership, TypeOK, ChanType, budget
<1>18. ASSUME NEW n \in Node, StopSettles(n) PROVE TypeOK'
  <2>1. ChanType' BY <1>18, <1>c, ConsumeEffect DEF StopSettles, Answered
  <2> QED BY <1>18, <2>1 DEF StopSettles, TypeOK, ChanType, timers, budget
<1>19. ASSUME NEW n \in Node, UndoSettles(n) PROVE TypeOK'
  <2>1. ChanType' BY <1>19, <1>c, ConsumeEffect DEF UndoSettles, Answered
  <2> QED BY <1>19, <2>1 DEF UndoSettles, TypeOK, ChanType, service, timers, budget
<1>20. ASSUME Tick PROVE TypeOK'
  <2>1. ChanType' BY <1>20, <1>c, TickEffect
  <2>2. lock' \in Keys(Token) BY <1>20, AgedType DEF TypeOK, Tick
  <2>3. renewTimer' \in [Node -> {Off} \cup 0..RenewEvery]
    BY <1>20, LeaderAssumption DEF TypeOK, Tick, Off
  <2> QED BY <1>20, <2>1, <2>2, <2>3 DEF Tick, TypeOK, ChanType, service, budget
<1>21. CASE UNCHANGED vars
  BY <1>21 DEF vars, TypeOK, service, timers, budget
<1> QED
  BY <1>1, <1>2, <1>3, <1>4, <1>5, <1>6, <1>7, <1>8, <1>9, <1>10, <1>11, <1>12, <1>13, <1>15,
     <1>16, <1>17, <1>18, <1>19, <1>20, <1>21 DEF Next, Progress, Disturbance

-----------------------------------------------------------------------------
(* One acquisition loop per service. *)

\* The node's commands and fields look to Loop as they did before the step.
Undisturbed(m) ==
    /\ Len(chan'[m]) = Len(chan[m])
    /\ DOMAIN chan'[m] = DOMAIN chan[m]
    /\ \A j \in DOMAIN chan[m] :
          chan'[m][j].op = chan[m][j].op /\ chan'[m][j].token = chan[m][j].token
    /\ alive'[m] => alive[m]
    /\ running'[m] = running[m]
    /\ isLeader'[m] = isLeader[m]
    /\ lockId'[m] = lockId[m]
    /\ renewTimer'[m] = Off <=> renewTimer[m] = Off
    /\ lostRenewTimers'[m] = lostRenewTimers[m]
    /\ retryTimer'[m] = retryTimer[m]
    /\ lostRetryTimers'[m] = lostRetryTimers[m]

\* Answers, ages and crashes do not touch the loop.
LEMMA LoopUndisturbed == ASSUME NEW m \in Node, Loop(m), Undisturbed(m) PROVE Loop(m)'
<1> USE DEF Undisturbed, Loop
<1>1. LoopTimers(m)' BY DEF LoopTimers
<1>2. LoopAcquire(m)' BY DEF LoopAcquire
<1>3. LoopRelease(m)' BY DEF LoopRelease
<1>4. LoopStopping(m)' BY DEF LoopStopping
<1>5. LoopRenew(m)' BY DEF LoopRenew
<1> QED BY <1>1, <1>2, <1>3, <1>4, <1>5

\* The step of one node leaves the commands and the fields of the others alone.
LEMMA ChanOthers ==
    ASSUME TypeOK, NEW n \in Node, Progress(n) \/ Disturbance(n), NEW m \in Node, m # n
    PROVE  /\ chan'[m] = chan[m]
           /\ alive'[m] = alive[m] /\ running'[m] = running[m] /\ isLeader'[m] = isLeader[m]
           /\ lockId'[m] = lockId[m] /\ renewTimer'[m] = renewTimer[m]
           /\ lostRenewTimers'[m] = lostRenewTimers[m] /\ retryTimer'[m] = retryTimer[m]
           /\ lostRetryTimers'[m] = lostRetryTimers[m]
<1>c. ChanType /\ lockId \in [Node -> Token] BY DEF TypeOK, ChanType
<1>1. chan'[m] = chan[m]
  <2>1. ASSUME NEW op \in {"acquire", "renew", "release", "undo"}, Send(n, op)
        PROVE  chan'[m] = chan[m]
    BY <1>c, <2>1, SendEffect
  <2>2. ASSUME chan[n] # <<>>, Consume(n) PROVE chan'[m] = chan[m]
    BY <1>c, <2>2, ConsumeEffect
  <2>3. CASE Start(n) \/ Stop(n) \/ RetryFires(n) \/ RenewFires(n) \/ LostRenewFires(n)
    BY <2>1, <2>3 DEF Start, Stop, RetryFires, RenewFires, LostRenewFires
  <2>4. CASE BecomeLeader(n) \/ AcquireFails(n) \/ RenewSettles(n) \/ LoseLeadership(n)
               \/ StopSettles(n) \/ UndoSettles(n)
    BY <2>2, <2>4
       DEF BecomeLeader, AcquireFails, RenewSettles, LoseLeadership, StopSettles, UndoSettles, Answered
  <2>5. CASE Execute(n) \/ Refuse(n)
    BY <2>5, <1>c DEF Execute, Refuse, ChanType
  <2>6. CASE Flush(n) \/ Resend(n) \/ Crash(n) \/ Disconnect(n) \/ UndoAcquire(n)
    BY <2>6, <1>c DEF Flush, Resend, Crash, Disconnect, UndoAcquire, ChanType
  <2> QED BY <2>3, <2>4, <2>5, <2>6 DEF Progress, Disturbance
<1>2. /\ alive'[m] = alive[m] /\ running'[m] = running[m] /\ isLeader'[m] = isLeader[m]
      /\ lockId'[m] = lockId[m] /\ renewTimer'[m] = renewTimer[m]
      /\ lostRenewTimers'[m] = lostRenewTimers[m] /\ retryTimer'[m] = retryTimer[m]
      /\ lostRetryTimers'[m] = lostRetryTimers[m]
  <2> USE DEF TypeOK, service, timers, budget
  <2>1. CASE Start(n) BY <2>1 DEF Start
  <2>2. CASE Stop(n) BY <2>2 DEF Stop
  <2>3. CASE RetryFires(n) BY <2>3 DEF RetryFires
  <2>4. CASE RenewFires(n) BY <2>4 DEF RenewFires
  <2>5. CASE LostRenewFires(n) \/ Execute(n) \/ Disconnect(n)
    BY <2>5 DEF LostRenewFires, Execute, Disconnect
  <2>6. CASE Refuse(n) \/ Flush(n) \/ Resend(n) \/ Crash(n)
    BY <2>6 DEF Refuse, Flush, Resend, Crash
  <2>7. CASE BecomeLeader(n) BY <2>7 DEF BecomeLeader
  <2>8. CASE UndoAcquire(n) \/ RenewSettles(n) \/ UndoSettles(n)
    BY <2>8 DEF UndoAcquire, RenewSettles, UndoSettles
  <2>9. CASE AcquireFails(n) BY <2>9 DEF AcquireFails, SetRetryTimer
  <2>10. CASE LoseLeadership(n) BY <2>10 DEF LoseLeadership, SetRetryTimer, DrawLockId
  <2>11. CASE StopSettles(n) BY <2>11 DEF StopSettles
  <2> QED
    BY <2>1, <2>2, <2>3, <2>4, <2>5, <2>6, <2>7, <2>8, <2>9, <2>10, <2>11 DEF Progress, Disturbance
<1> QED BY <1>1, <1>2

\* ... so their loops are as they were.
LEMMA LoopOthers ==
    ASSUME TypeOK, NEW n \in Node, Progress(n) \/ Disturbance(n), NEW m \in Node, m # n
    PROVE  Undisturbed(m)
  BY ChanOthers DEF Undisturbed

\* After chan'[n] = Tail(chan[n]): what is left in flight was in flight.
Consumed(n) ==
    /\ Len(chan[n]) \in Nat /\ Len(chan[n]) >= 1
    /\ DOMAIN chan[n] = 1..Len(chan[n])
    /\ Head(chan[n]) = chan[n][1]
    /\ Len(chan'[n]) = Len(chan[n]) - 1
    /\ DOMAIN chan'[n] = 1..(Len(chan[n]) - 1)
    /\ \A i \in 1..(Len(chan[n]) - 1) : chan'[n][i] = chan[n][i + 1]

\* After chan'[n] = Append(chan[n], c).
Appended(n, c) ==
    /\ Len(chan[n]) \in Nat
    /\ DOMAIN chan[n] = 1..Len(chan[n])
    /\ Len(chan'[n]) = Len(chan[n]) + 1
    /\ DOMAIN chan'[n] = 1..(Len(chan[n]) + 1)
    /\ \A i \in 1..Len(chan[n]) : chan'[n][i] = chan[n][i]
    /\ chan'[n][Len(chan[n]) + 1] = c

\* Every command but the head survives its consumption.
LEMMA ConsumedFacts ==
    ASSUME NEW n \in Node, Consumed(n)
    PROVE  /\ \A i \in DOMAIN chan'[n] : i + 1 \in DOMAIN chan[n] /\ chan'[n][i] = chan[n][i + 1]
           /\ \A i \in DOMAIN chan[n] : i # 1 => i - 1 \in DOMAIN chan'[n] /\ chan'[n][i - 1] = chan[n][i]
           /\ 1 \in DOMAIN chan[n]
  BY DEF Consumed

\* Consuming an ACQUIRE leaves nothing in flight.
LEMMA LastAcquire ==
    ASSUME NEW n \in Node, Consumed(n), LoopAcquire(n), chan[n][1].op = "acquire"
    PROVE  /\ DOMAIN chan'[n] = {} /\ Len(chan[n]) = 1
           /\ chan[n][1].token = lockId[n] /\ ~isLeader[n] /\ ~retryTimer[n]
<1>1. 1 \in DOMAIN chan[n] BY ConsumedFacts
<1>2. Len(chan[n]) = 1 BY <1>1 DEF LoopAcquire
<1> QED BY <1>1, <1>2 DEF LoopAcquire, Consumed

\* Consuming another command keeps what Loop says of the rest.
LEMMA LoopConsumed ==
    ASSUME NEW n \in Node, Consumed(n), Loop(n),
           running'[n] = running[n], isLeader'[n] = isLeader[n], lockId'[n] = lockId[n],
           retryTimer'[n] = retryTimer[n], alive'[n] = alive[n]
    PROVE  /\ LoopAcquire(n)' /\ LoopRelease(n)' /\ LoopRenew(n)'
           /\ chan[n][1].op # "release" => LoopStopping(n)'
<1>1. LoopAcquire(n)'
  <2> SUFFICES ASSUME NEW i \in DOMAIN chan'[n], chan'[n][i].op = "acquire"
               PROVE  /\ i = Len(chan'[n]) /\ chan'[n][i].token = lockId'[n]
                      /\ ~isLeader'[n] /\ ~retryTimer'[n]
    BY DEF LoopAcquire
  <2>1. i + 1 \in DOMAIN chan[n] /\ chan'[n][i] = chan[n][i + 1] BY ConsumedFacts
  <2>2. i + 1 = Len(chan[n]) /\ chan[n][i + 1].token = lockId[n] /\ ~isLeader[n] /\ ~retryTimer[n]
    BY <2>1 DEF Loop, LoopAcquire
  <2>3. i \in Nat /\ Len(chan'[n]) = Len(chan[n]) - 1 BY DEF Consumed
  <2> QED BY <2>1, <2>2, <2>3
<1>2. LoopRelease(n)' BY ConsumedFacts DEF Loop, LoopRelease
<1>3. LoopRenew(n)' BY ConsumedFacts DEF Loop, LoopRenew
<1>4. ASSUME chan[n][1].op # "release" PROVE LoopStopping(n)'
  <2> SUFFICES ASSUME alive[n], isLeader[n], ~running[n]
               PROVE  \E i \in DOMAIN chan'[n] : chan'[n][i].op = "release"
    BY DEF LoopStopping
  <2>1. PICK j \in DOMAIN chan[n] : chan[n][j].op = "release" BY DEF Loop, LoopStopping
  <2>2. j # 1 BY <1>4, <2>1
  <2> QED BY <2>1, <2>2, ConsumedFacts
<1> QED BY <1>1, <1>2, <1>3, <1>4

\* What an appended command makes of the loop depends on the command alone.
LEMMA AppendedFacts ==
    ASSUME NEW n \in Node, NEW c, Appended(n, c)
    PROVE  /\ \A i \in DOMAIN chan'[n] : \/ i \in DOMAIN chan[n] /\ chan'[n][i] = chan[n][i]
                                         \/ i = Len(chan'[n]) /\ chan'[n][i] = c
           /\ \A i \in DOMAIN chan[n] : i \in DOMAIN chan'[n] /\ chan'[n][i] = chan[n][i]
           /\ Len(chan'[n]) \in DOMAIN chan'[n] /\ chan'[n][Len(chan'[n])] = c
  BY DEF Appended

-----------------------------------------------------------------------------
(* Each step of a node keeps its own loop single, when restarts are quiet. *)

\* Sends start from a known command.
LEMMA LoopSends ==
    ASSUME TypeOK, RestartWhen = "quiet", NEW n \in Node, Loop(n),
           Start(n) \/ Stop(n) \/ RetryFires(n) \/ RenewFires(n)
    PROVE  Loop(n)'
<1>c. ChanType /\ lockId \in [Node -> Token] BY DEF TypeOK, ChanType
<1>s. ASSUME NEW op \in {"acquire", "renew", "release", "undo"}, Send(n, op)
      PROVE  /\ Appended(n, Sent(op, lockId[n]))
             /\ Sent(op, lockId[n]).op = op /\ Sent(op, lockId[n]).token = lockId[n]
  BY <1>c, <1>s, SendEffect DEF Appended, Sent
<1> USE DEF Loop
<1>1. CASE Start(n)
  <2>1. chan[n] = <<>> BY <1>1 DEF Start, MayRestart
  <2>2. Appended(n, Sent("acquire", lockId[n])) BY <1>1, <1>s DEF Start
  <2>3. DOMAIN chan[n] = {} BY <2>1
  <2>4. ~isLeader[n] BY <1>1, <2>3 DEF Start, LoopStopping
  <2>5. /\ running'[n] = TRUE /\ isLeader'[n] = isLeader[n] /\ lockId'[n] = lockId[n]
        /\ renewTimer' = renewTimer /\ retryTimer' = retryTimer
        /\ lostRenewTimers' = lostRenewTimers /\ lostRetryTimers' = lostRetryTimers
    BY <1>1 DEF Start, timers, TypeOK
  <2>6. ~retryTimer[n] /\ renewTimer[n] = Off BY <1>1 DEF Start, LoopTimers
  <2>7. \A i \in DOMAIN chan'[n] : i = Len(chan'[n]) /\ chan'[n][i] = Sent("acquire", lockId[n])
    BY <2>2, <2>3, AppendedFacts
  <2>8. Sent("acquire", lockId[n]).op = "acquire" /\ Sent("acquire", lockId[n]).token = lockId[n]
    BY DEF Sent
  <2>9. LoopTimers(n)' BY <2>4, <2>5, <2>6 DEF LoopTimers
  <2>10. LoopAcquire(n)' BY <2>4, <2>5, <2>6, <2>7, <2>8 DEF LoopAcquire
  <2>11. LoopRelease(n)' BY <2>7, <2>8 DEF LoopRelease
  <2>12. LoopStopping(n)' /\ LoopRenew(n)' BY <2>4, <2>5 DEF LoopStopping, LoopRenew
  <2> QED BY <2>9, <2>10, <2>11, <2>12
<1>2. CASE Stop(n)
  <2>1. /\ running'[n] = FALSE /\ isLeader'[n] = isLeader[n] /\ lockId'[n] = lockId[n]
        /\ renewTimer'[n] = Off /\ retryTimer'[n] = FALSE /\ alive' = alive
        /\ lostRenewTimers' = lostRenewTimers /\ lostRetryTimers' = lostRetryTimers
    BY <1>2 DEF Stop, TypeOK
  <2>2. LoopTimers(n)' BY <2>1 DEF LoopTimers
  <2>3. LoopRelease(n)' /\ LoopRenew(n)' BY <2>1 DEF LoopRelease, LoopRenew
  <2>4. CASE isLeader[n]
    <3>1. Appended(n, Sent("release", lockId[n])) /\ Sent("release", lockId[n]).op = "release"
      BY <1>2, <1>s, <2>4 DEF Stop
    <3>2. LoopAcquire(n)' BY <2>1, <2>4, <3>1, AppendedFacts DEF LoopAcquire
    <3>3. LoopStopping(n)' BY <3>1, AppendedFacts DEF LoopStopping
    <3> QED BY <2>2, <2>3, <3>2, <3>3
  <2>5. CASE ~isLeader[n]
    <3>1. chan' = chan BY <1>2, <2>5 DEF Stop
    <3>2. LoopAcquire(n)' BY <2>1, <3>1 DEF LoopAcquire
    <3>3. LoopStopping(n)' BY <2>1, <2>5 DEF LoopStopping
    <3> QED BY <2>2, <2>3, <3>2, <3>3
  <2> QED BY <2>4, <2>5
<1>3. CASE RetryFires(n)
  <2>1. retryTimer[n] /\ retryTimer' = [retryTimer EXCEPT ![n] = FALSE] /\ UNCHANGED lostRetryTimers
    BY <1>3 DEF RetryFires, LoopTimers
  <2>2. running[n] /\ ~isLeader[n] BY <2>1 DEF LoopTimers
  <2>3. Appended(n, Sent("acquire", lockId[n])) BY <1>3, <1>s, <2>2 DEF RetryFires
  <2>4. Sent("acquire", lockId[n]).op = "acquire" /\ Sent("acquire", lockId[n]).token = lockId[n]
    BY DEF Sent
  <2>5. /\ running' = running /\ isLeader' = isLeader /\ lockId' = lockId /\ alive' = alive
        /\ renewTimer' = renewTimer /\ lostRenewTimers' = lostRenewTimers /\ ~retryTimer'[n]
    BY <1>3, <2>1 DEF RetryFires, service, TypeOK
  <2>6. \A i \in DOMAIN chan[n] : chan[n][i].op # "acquire" BY <2>1 DEF LoopAcquire
  <2>7. LoopTimers(n)' BY <2>1, <2>5 DEF LoopTimers
  <2>8. LoopAcquire(n)' BY <2>2, <2>3, <2>4, <2>5, <2>6, AppendedFacts DEF LoopAcquire
  <2>9. LoopRelease(n)' BY <2>2, <2>3, <2>4, <2>5, AppendedFacts DEF LoopRelease
  <2>10. LoopStopping(n)' /\ LoopRenew(n)' BY <2>2, <2>5 DEF LoopStopping, LoopRenew
  <2> QED BY <2>7, <2>8, <2>9, <2>10
<1>4. CASE RenewFires(n)
  <2>1. running[n] /\ isLeader[n] BY <1>4 DEF RenewFires, LoopTimers, Off
  <2>2. Appended(n, Sent("renew", lockId[n])) BY <1>4, <1>s, <2>1 DEF RenewFires
  <2>3. Sent("renew", lockId[n]).op = "renew" /\ Sent("renew", lockId[n]).token = lockId[n]
    BY DEF Sent
  <2>4. renewTimer'[n] # Off BY <1>4, LeaderAssumption DEF RenewFires, Off, TypeOK
  <2>5. /\ running' = running /\ isLeader' = isLeader /\ lockId' = lockId /\ alive' = alive
        /\ lostRenewTimers' = lostRenewTimers /\ retryTimer' = retryTimer
        /\ lostRetryTimers' = lostRetryTimers
    BY <1>4 DEF RenewFires, service
  <2>6. \A i \in DOMAIN chan'[n] : chan'[n][i].op = "renew" /\ chan'[n][i].token = lockId[n]
    BY <2>1, <2>2, <2>3, AppendedFacts DEF LoopRenew
  <2>7. LoopTimers(n)' BY <2>1, <2>4, <2>5 DEF LoopTimers
  <2>8. LoopAcquire(n)' BY <2>6 DEF LoopAcquire
  <2>9. LoopRelease(n)' BY <2>6 DEF LoopRelease
  <2>10. LoopStopping(n)' /\ LoopRenew(n)' BY <2>1, <2>5, <2>6 DEF LoopStopping, LoopRenew
  <2> QED BY <2>7, <2>8, <2>9, <2>10
<1> QED BY <1>1, <1>2, <1>3, <1>4

\* Redis, its connection and a crash do not touch the loop.
LEMMA LoopAnswers ==
    ASSUME TypeOK, NEW n \in Node, Loop(n),
           Execute(n) \/ Refuse(n) \/ Flush(n) \/ Resend(n) \/ Crash(n) \/ Disconnect(n)
    PROVE  Loop(n)'
<1>c. ChanType BY DEF TypeOK, ChanType
<1>1. CASE Execute(n) \/ Refuse(n)
  <2>1. PICK i \in DOMAIN chan[n], r \in {"none", "yes", "no", "error"} :
           Replied(n, i, r)
    <3>1. CASE Execute(n) BY <3>1, AnswerType DEF Execute, Replied
    <3>2. CASE Refuse(n) BY <3>2 DEF Refuse, Replied
    <3> QED BY <1>1, <3>1, <3>2
  <2>2. /\ Len(chan'[n]) = Len(chan[n]) /\ DOMAIN chan'[n] = DOMAIN chan[n]
        /\ \A j \in DOMAIN chan[n] :
              chan'[n][j].op = chan[n][j].op /\ chan'[n][j].token = chan[n][j].token
    BY <1>c, <2>1, AnswerEffect
  <2>3. UNCHANGED <<alive, service, timers>> BY <1>1 DEF Execute, Refuse
  <2> QED BY <2>2, <2>3, LoopUndisturbed DEF Undisturbed, service, timers
<1>2. CASE Flush(n)
  BY <1>2, <1>c, FlushEffect, LoopUndisturbed DEF Undisturbed, Flush, service, timers
<1>3. CASE Resend(n)
  BY <1>3, <1>c, ResendEffect, LoopUndisturbed DEF Undisturbed, Resend, service, timers
<1>4. CASE Crash(n)
  BY <1>4, LoopUndisturbed DEF Undisturbed, Crash, service, timers, TypeOK
<1>5. CASE Disconnect(n)
  BY <1>5, <1>c
     DEF Disconnect, Loop, LoopTimers, LoopAcquire, LoopRelease, LoopStopping, LoopRenew,
         service, timers, ChanType
<1> QED BY <1>1, <1>2, <1>3, <1>4, <1>5

\* A command whose answer arrived is the head of its node's channel.
LEMMA AnsweredFacts ==
    ASSUME ChanType, NEW n \in Node, NEW op, NEW replies, Answered(n, op, replies)
    PROVE  /\ alive[n] /\ chan[n] # <<>>
           /\ Head(chan[n]) = chan[n][1]
           /\ chan[n][1].op = op /\ chan[n][1].reply \in replies
           /\ 1 \in DOMAIN chan[n]
           /\ Consume(n) => Consumed(n) /\ ChanType'
<1>1. chan[n] \in Seq(Command) /\ chan[n] # <<>> BY DEF Answered, ChanType
<1>2. Head(chan[n]) = chan[n][1] /\ 1 \in DOMAIN chan[n] BY <1>1
<1>3. Consume(n) => Consumed(n) /\ ChanType' BY <1>1, ConsumeEffect DEF Consumed
<1> QED BY <1>1, <1>2, <1>3 DEF Answered

\* The continuations of the awaits.
LEMMA LoopHandlers ==
    ASSUME TypeOK, NEW n \in Node, Loop(n),
           \/ BecomeLeader(n) \/ UndoAcquire(n) \/ AcquireFails(n) \/ RenewSettles(n)
           \/ LoseLeadership(n) \/ StopSettles(n) \/ UndoSettles(n)
    PROVE  Loop(n)'
<1>c. ChanType /\ lockId \in [Node -> Token] BY DEF TypeOK, ChanType
<1> USE DEF Loop
<1>1. CASE BecomeLeader(n)
  <2>1. chan[n][1].op = "acquire" /\ Consumed(n) /\ running[n]
    BY <1>1, <1>c, AnsweredFacts DEF BecomeLeader
  <2>2. DOMAIN chan'[n] = {} /\ ~isLeader[n] /\ ~retryTimer[n] BY <2>1, LastAcquire
  <2>3. renewTimer[n] = Off BY <2>2 DEF LoopTimers
  <2>4. /\ running' = running /\ isLeader'[n] = TRUE /\ retryTimer' = retryTimer
        /\ lostRetryTimers' = lostRetryTimers /\ lostRenewTimers'[n] = lostRenewTimers[n]
    BY <1>1, <2>3 DEF BecomeLeader, TypeOK
  <2>5. renewTimer'[n] # Off BY <1>1, LeaderAssumption DEF BecomeLeader, Off, TypeOK
  <2>6. LoopTimers(n)' BY <2>1, <2>2, <2>4, <2>5 DEF LoopTimers
  <2> QED BY <2>1, <2>2, <2>4, <2>6 DEF LoopAcquire, LoopRelease, LoopStopping, LoopRenew
<1>2. CASE UndoAcquire(n)
  <2>1. chan[n][1].op = "acquire" /\ ~running[n] /\ 1 \in DOMAIN chan[n] /\ chan[n] # <<>>
    BY <1>2, <1>c, AnsweredFacts DEF UndoAcquire
  <2>2. Len(chan[n]) = 1 /\ ~isLeader[n] BY <2>1 DEF LoopAcquire
  <2>3. Tail(chan[n]) \in Seq(Command) /\ Len(Tail(chan[n])) = 0
    <3>1. chan[n] \in Seq(Command) BY <1>c DEF ChanType
    <3> QED BY <2>1, <2>2, <3>1, TailFacts
  <2>4. chan'[n] = Append(Tail(chan[n]), Sent("undo", lockId[n]))
    BY <1>2, <1>c DEF UndoAcquire, ChanType
  <2>5. \A i \in DOMAIN chan'[n] : chan'[n][i].op = "undo"
    <3>1. Sent("undo", lockId[n]) \in Command /\ Sent("undo", lockId[n]).op = "undo"
      BY <1>c, SentType
    <3> QED BY <2>3, <2>4, <3>1, AppendFacts
  <2>6. UNCHANGED <<alive, running, isLeader, lockId, timers>> BY <1>2 DEF UndoAcquire, service
  <2> QED
    BY <2>1, <2>2, <2>5, <2>6
       DEF LoopTimers, LoopAcquire, LoopRelease, LoopStopping, LoopRenew, timers
<1>3. CASE AcquireFails(n)
  <2>1. chan[n][1].op = "acquire" /\ Consumed(n)
    BY <1>3, <1>c, AnsweredFacts DEF AcquireFails
  <2>2. DOMAIN chan'[n] = {} /\ ~isLeader[n] /\ ~retryTimer[n] BY <2>1, LastAcquire
  <2>3. UNCHANGED <<alive, running, isLeader, lockId, renewTimer, lostRenewTimers>>
    BY <1>3 DEF AcquireFails, service
  <2>4. lostRetryTimers'[n] = lostRetryTimers[n] /\ (retryTimer'[n] => running[n])
    BY <1>3, <2>2 DEF AcquireFails, SetRetryTimer, TypeOK
  <2> QED
    BY <2>2, <2>3, <2>4 DEF LoopTimers, LoopAcquire, LoopRelease, LoopStopping, LoopRenew
<1>4. CASE RenewSettles(n) \/ UndoSettles(n)
  <2>1. chan[n][1].op # "release" /\ Consumed(n)
    <3>1. CASE RenewSettles(n) BY <3>1, <1>c, AnsweredFacts DEF RenewSettles
    <3>2. CASE UndoSettles(n) BY <3>2, <1>c, AnsweredFacts DEF UndoSettles
    <3> QED BY <1>4, <3>1, <3>2
  <2>2. UNCHANGED <<alive, service, timers>> BY <1>4 DEF RenewSettles, UndoSettles
  <2>3. LoopTimers(n)' BY <2>2 DEF LoopTimers, service, timers
  <2> QED BY <2>1, <2>2, <2>3, LoopConsumed DEF service, timers
<1>5. CASE LoseLeadership(n)
  <2>1. chan[n][1].op = "renew" /\ Consumed(n) /\ isLeader[n] /\ 1 \in DOMAIN chan[n]
    BY <1>5, <1>c, AnsweredFacts DEF LoseLeadership
  <2>2. \A i \in DOMAIN chan[n] : chan[n][i].op # "acquire" BY <2>1 DEF LoopAcquire
  <2>3. /\ isLeader'[n] = FALSE /\ renewTimer'[n] = Off
        /\ UNCHANGED <<alive, running, lostRenewTimers>>
    BY <1>5 DEF LoseLeadership, TypeOK
  <2>4. ~retryTimer[n] BY <2>1 DEF LoopTimers
  <2>5. lostRetryTimers'[n] = lostRetryTimers[n] /\ (retryTimer'[n] => running[n])
    BY <1>5, <2>4 DEF LoseLeadership, SetRetryTimer, TypeOK
  <2>6. LoopTimers(n)' BY <2>3, <2>5 DEF LoopTimers
  <2>7. LoopAcquire(n)' BY <2>1, <2>2, ConsumedFacts DEF LoopAcquire
  <2>8. LoopRelease(n)' BY <2>1, <2>3, ConsumedFacts DEF LoopRelease
  <2>9. LoopStopping(n)' /\ LoopRenew(n)' BY <2>3 DEF LoopStopping, LoopRenew
  <2> QED BY <2>6, <2>7, <2>8, <2>9
<1>6. CASE StopSettles(n)
  <2>1. chan[n][1].op = "release" /\ Consumed(n) /\ 1 \in DOMAIN chan[n]
    BY <1>6, <1>c, AnsweredFacts DEF StopSettles
  <2>2. ~running[n] BY <2>1 DEF LoopRelease
  <2>3. isLeader'[n] = FALSE /\ UNCHANGED <<alive, running, lockId, timers>>
    BY <1>6 DEF StopSettles, TypeOK
  <2>4. LoopTimers(n)' BY <2>2, <2>3 DEF LoopTimers, timers
  <2>5. LoopAcquire(n)'
    <3> SUFFICES ASSUME NEW i \in DOMAIN chan'[n], chan'[n][i].op = "acquire"
                 PROVE  /\ i = Len(chan'[n]) /\ chan'[n][i].token = lockId'[n]
                        /\ ~isLeader'[n] /\ ~retryTimer'[n]
      BY DEF LoopAcquire
    <3>1. i + 1 \in DOMAIN chan[n] /\ chan'[n][i] = chan[n][i + 1] BY <2>1, ConsumedFacts
    <3>2. i + 1 = Len(chan[n]) /\ chan[n][i + 1].token = lockId[n] /\ ~retryTimer[n]
      BY <3>1 DEF LoopAcquire
    <3>3. i \in Nat /\ Len(chan'[n]) = Len(chan[n]) - 1 BY <2>1 DEF Consumed
    <3> QED BY <2>1, <2>3, <3>1, <3>2, <3>3 DEF Consumed, timers
  <2> QED BY <2>2, <2>3, <2>4, <2>5 DEF LoopRelease, LoopStopping, LoopRenew
<1> QED BY <1>1, <1>2, <1>3, <1>4, <1>5, <1>6

\* Every step keeps every loop single.
LEMMA LoopStep ==
    ASSUME TypeOK, RestartWhen = "quiet", \A n \in Node : Loop(n), [Next]_vars
    PROVE  \A n \in Node : Loop(n)'
<1>c. ChanType BY DEF TypeOK, ChanType
<1>1. ASSUME NEW n \in Node, Progress(n) \/ Disturbance(n), NEW m \in Node PROVE Loop(m)'
  <2>1. CASE m # n BY <1>1, <2>1, LoopOthers, LoopUndisturbed
  <2>2. CASE LostRenewFires(n)
    <3>1. lostRenewTimers[n] = 0 BY DEF Loop, LoopTimers
    <3> QED BY <2>2, <3>1 DEF LostRenewFires
  <2>3. CASE m = n /\ ~LostRenewFires(n)
    BY <1>1, <2>3, LoopSends, LoopAnswers, LoopHandlers DEF Progress, Disturbance
  <2> QED BY <2>1, <2>2, <2>3
<1>2. ASSUME Tick, NEW m \in Node PROVE Loop(m)'
  <2>1. renewTimer'[m] = Off <=> renewTimer[m] = Off BY <1>2 DEF Tick, Off, TypeOK
  <2> QED
    BY <1>2, <1>c, <2>1, TickEffect, LoopUndisturbed DEF Tick, Undisturbed, service
<1>3. ASSUME UNCHANGED vars, NEW m \in Node PROVE Loop(m)'
  BY <1>3, LoopUndisturbed DEF vars, Undisturbed, service, timers
<1> QED BY <1>1, <1>2, <1>3 DEF Next

-----------------------------------------------------------------------------
(* Lock ids stay with their process, and answers come in order. *)

\* Where the commands in flight after a step come from.
LEMMA ChanStep ==
    ASSUME TypeOK, NEW n \in Node, Progress(n) \/ Disturbance(n)
    PROVE  \/ \E op \in {"acquire", "renew", "release", "undo"} : Appended(n, Sent(op, lockId[n]))
           \/ Consumed(n)
           \/ UndoAcquire(n)
           \/ \E i \in DOMAIN chan[n], r \in {"yes", "no", "error"} :
                 /\ FirstUnanswered(n, i)
                 /\ Replied(n, i, r)
           \/ Flush(n) \/ Resend(n) \/ chan'[n] = chan[n] \/ chan'[n] = <<>>
<1>c. ChanType /\ lockId \in [Node -> Token] BY DEF TypeOK, ChanType
<1>1. ASSUME NEW op \in {"acquire", "renew", "release", "undo"}, Send(n, op)
      PROVE  Appended(n, Sent(op, lockId[n]))
  BY <1>c, <1>1, SendEffect DEF Appended
<1>2. CASE Start(n) BY <1>1, <1>2 DEF Start
<1>3. CASE Stop(n) BY <1>1, <1>3 DEF Stop
<1>4. CASE RetryFires(n) BY <1>1, <1>4 DEF RetryFires
<1>5. CASE RenewFires(n) \/ LostRenewFires(n) BY <1>1, <1>5 DEF RenewFires, LostRenewFires
<1>6. CASE Execute(n)
  <2>1. PICK i \in DOMAIN chan[n] :
           FirstUnanswered(n, i) /\ \E g : Replied(n, i, Answer(g))
    BY <1>6 DEF Execute, Replied
  <2> QED BY <2>1, AnswerType
<1>7. CASE Refuse(n) BY <1>7 DEF Refuse, Replied
<1>8. CASE Flush(n) \/ Resend(n) \/ UndoAcquire(n) BY <1>8
<1>9. CASE Crash(n) BY <1>9 DEF Crash
<1>10. CASE Disconnect(n) BY <1>10, <1>c DEF Disconnect, ChanType
<1>11. CASE BecomeLeader(n) \/ AcquireFails(n)
  BY <1>11, <1>c, AnsweredFacts DEF BecomeLeader, AcquireFails
<1>12. CASE RenewSettles(n) \/ LoseLeadership(n)
  BY <1>12, <1>c, AnsweredFacts DEF RenewSettles, LoseLeadership
<1>13. CASE StopSettles(n) \/ UndoSettles(n)
  BY <1>13, <1>c, AnsweredFacts DEF StopSettles, UndoSettles
<1> QED
  BY <1>2, <1>3, <1>4, <1>5, <1>6, <1>7, <1>8, <1>9, <1>10, <1>11, <1>12, <1>13
     DEF Progress, Disturbance

\* The undo takes the place of the head.
LEMMA UndoneFacts ==
    ASSUME ChanType, lockId \in [Node -> Token], NEW n \in Node, UndoAcquire(n)
    PROVE  /\ Len(chan[n]) \in Nat /\ DOMAIN chan[n] = 1..Len(chan[n])
           /\ Len(chan'[n]) = Len(chan[n])
           /\ DOMAIN chan'[n] = 1..Len(chan[n])
           /\ \A i \in 1..(Len(chan[n]) - 1) : chan'[n][i] = chan[n][i + 1]
           /\ chan'[n][Len(chan[n])] = Sent("undo", lockId[n])
<1>1. chan[n] \in Seq(Command) /\ chan[n] # <<>> BY DEF UndoAcquire, Answered, ChanType
<1>2. /\ Tail(chan[n]) \in Seq(Command) /\ Len(Tail(chan[n])) = Len(chan[n]) - 1
      /\ Len(chan[n]) \in Nat /\ DOMAIN chan[n] = 1..Len(chan[n])
      /\ \A i \in 1..(Len(chan[n]) - 1) : Tail(chan[n])[i] = chan[n][i + 1]
  BY <1>1, TailFacts
<1>3. chan'[n] = Append(Tail(chan[n]), Sent("undo", lockId[n])) BY DEF UndoAcquire, ChanType
<1>4. Sent("undo", lockId[n]) \in Command BY SentType
<1> QED BY <1>2, <1>3, <1>4, AppendFacts

\* Every step keeps every lock id with the process that drew it.
LEMMA OwnStep ==
    ASSUME TypeOK, \A n \in Node : Own(n), [Next]_vars
    PROVE  \A n \in Node : Own(n)'
<1>c. ChanType /\ lockId \in [Node -> Token] BY DEF TypeOK, ChanType
<1>s. ASSUME NEW op, NEW t PROVE Sent(op, t).token = t BY DEF Sent
<1>1. ASSUME NEW n \in Node, Progress(n) \/ Disturbance(n) PROVE Own(n)'
  <2>1. lockId'[n][1] = n
    <3>1. CASE LoseLeadership(n) BY <1>c, <3>1 DEF LoseLeadership, DrawLockId
    <3>2. CASE ~LoseLeadership(n)
      <4>1. lockId' = lockId
        BY <1>1, <3>2 DEF Progress, Disturbance, Start, Stop, RetryFires, RenewFires, LostRenewFires,
           Execute, Disconnect, Refuse, Flush, Resend, Crash, BecomeLeader, UndoAcquire,
           AcquireFails, RenewSettles, StopSettles, UndoSettles, service
      <4> QED BY <4>1 DEF Own
    <3> QED BY <3>1, <3>2
  <2>2. \A i \in DOMAIN chan'[n] : chan'[n][i].token[1] = n
    <3>1. CASE \E op \in {"acquire", "renew", "release", "undo"} : Appended(n, Sent(op, lockId[n]))
      BY <3>1, <1>s, AppendedFacts DEF Own
    <3>2. CASE Consumed(n) BY <3>2, ConsumedFacts DEF Own
    <3>3. CASE UndoAcquire(n)
      <4> SUFFICES ASSUME NEW i \in DOMAIN chan'[n] PROVE chan'[n][i].token[1] = n
        OBVIOUS
      <4>1. CASE i = Len(chan[n]) BY <1>c, <1>s, <3>3, <4>1, UndoneFacts DEF Own
      <4>2. CASE i # Len(chan[n])
        <5>1. i \in 1..(Len(chan[n]) - 1) /\ i + 1 \in DOMAIN chan[n]
          BY <1>c, <3>3, <4>2, UndoneFacts
        <5> QED BY <1>c, <3>3, <5>1, UndoneFacts DEF Own
      <4> QED BY <4>1, <4>2
    <3>4. CASE \E i \in DOMAIN chan[n], r \in {"yes", "no", "error"} :
                  FirstUnanswered(n, i) /\ Replied(n, i, r)
      BY <3>4, <1>c, AnswerEffect DEF Own
    <3>5. CASE Flush(n) \/ Resend(n) BY <3>5, <1>c, FlushEffect, ResendEffect DEF Own
    <3>6. CASE chan'[n] = chan[n] \/ chan'[n] = <<>> BY <3>6 DEF Own
    <3> QED BY <1>1, <3>1, <3>2, <3>3, <3>4, <3>5, <3>6, ChanStep
  <2> QED BY <2>1, <2>2 DEF Own
<1>2. ASSUME NEW n \in Node, Progress(n) \/ Disturbance(n), NEW m \in Node, m # n PROVE Own(m)'
  BY <1>2, LoopOthers DEF Own, Undisturbed
<1>3. ASSUME Tick, NEW m \in Node PROVE Own(m)'
  <2>1. lockId' = lockId BY <1>3 DEF Tick, service
  <2>2. /\ DOMAIN chan'[m] = DOMAIN chan[m]
        /\ \A j \in DOMAIN chan[m] : chan'[m][j].token = chan[m][j].token
    BY <1>3, <1>c, TickEffect
  <2> QED BY <2>1, <2>2 DEF Own
<1>4. ASSUME UNCHANGED vars, NEW m \in Node PROVE Own(m)'
  BY <1>4 DEF vars, service, Own
<1> QED BY <1>1, <1>2, <1>3, <1>4 DEF Next

\* Every step keeps the answers in the order of the commands.
LEMMA InOrderStep ==
    ASSUME TypeOK, \A n \in Node : InOrder(n), [Next]_vars
    PROVE  \A n \in Node : InOrder(n)'
<1>c. ChanType /\ lockId \in [Node -> Token] BY DEF TypeOK, ChanType
<1>1. ASSUME NEW n \in Node, Progress(n) \/ Disturbance(n) PROVE InOrder(n)'
  <2> SUFFICES ASSUME NEW i \in DOMAIN chan'[n], NEW j \in DOMAIN chan'[n],
                      i < j, chan'[n][j].reply \in {"yes", "no"}, chan'[n][i].reply = "none"
               PROVE  FALSE
    BY DEF InOrder
  <2>d. chan[n] \in Seq(Command) /\ DOMAIN chan[n] = 1..Len(chan[n]) /\ Len(chan[n]) \in Nat
    BY <1>c DEF ChanType
  <2>1. CASE \E op \in {"acquire", "renew", "release", "undo"} : Appended(n, Sent(op, lockId[n]))
    <3>1. PICK op \in {"acquire", "renew", "release", "undo"} : Appended(n, Sent(op, lockId[n]))
      BY <2>1
    <3>2. j # Len(chan[n]) + 1 BY <3>1 DEF Appended, Sent
    <3>3. i \in 1..Len(chan[n]) /\ j \in 1..Len(chan[n]) BY <3>1, <3>2 DEF Appended
    <3> QED BY <3>1, <3>3 DEF Appended, InOrder
  <2>2. CASE Consumed(n)
    <3>1. /\ i + 1 \in DOMAIN chan[n] /\ chan'[n][i] = chan[n][i + 1]
          /\ j + 1 \in DOMAIN chan[n] /\ chan'[n][j] = chan[n][j + 1]
      BY <2>2, ConsumedFacts
    <3>2. i \in Nat /\ j \in Nat BY <2>2 DEF Consumed
    <3>3. i + 1 < j + 1 BY <3>2
    <3> QED BY <3>1, <3>3 DEF InOrder
  <2>3. CASE UndoAcquire(n)
    <3>1. /\ DOMAIN chan'[n] = 1..Len(chan[n])
          /\ \A k \in 1..(Len(chan[n]) - 1) : chan'[n][k] = chan[n][k + 1]
          /\ chan'[n][Len(chan[n])] = Sent("undo", lockId[n])
      BY <1>c, <2>3, UndoneFacts
    <3>2. Sent("undo", lockId[n]).reply = "none" BY DEF Sent
    <3>3. i \in 1..(Len(chan[n]) - 1) /\ j \in 1..(Len(chan[n]) - 1) BY <2>d, <3>1, <3>2
    <3>4. /\ i + 1 \in DOMAIN chan[n] /\ chan'[n][i] = chan[n][i + 1]
          /\ j + 1 \in DOMAIN chan[n] /\ chan'[n][j] = chan[n][j + 1] /\ i + 1 < j + 1
      BY <2>d, <3>1, <3>3
    <3> QED BY <3>4 DEF InOrder
  <2>4. CASE \E k \in DOMAIN chan[n], r \in {"yes", "no", "error"} :
                FirstUnanswered(n, k) /\ Replied(n, k, r)
    <3>1. PICK k \in DOMAIN chan[n], r \in {"yes", "no", "error"} :
             FirstUnanswered(n, k) /\ Replied(n, k, r)
      BY <2>4
    <3>2. /\ DOMAIN chan'[n] = DOMAIN chan[n]
          /\ \A m \in DOMAIN chan[n] : chan'[n][m].reply = IF m = k THEN r ELSE chan[n][m].reply
      BY <1>c, <3>1, AnswerEffect
    <3>3. i # k /\ chan[n][i].reply = "none" BY <3>1, <3>2
    <3>4. CASE j = k
      <4>1. i \in 1..(k - 1) BY <2>d, <3>2, <3>4
      <4> QED BY <3>1, <3>3, <4>1 DEF FirstUnanswered
    <3>5. CASE j # k BY <3>2, <3>3, <3>5 DEF InOrder
    <3> QED BY <3>4, <3>5
  <2>5. CASE Flush(n) BY <1>c, <2>5, FlushEffect
  <2>6. CASE Resend(n) BY <1>c, <2>6, ResendEffect
  <2>7. CASE chan'[n] = chan[n] \/ chan'[n] = <<>> BY <2>7 DEF InOrder
  <2> QED BY <1>1, <2>1, <2>2, <2>3, <2>4, <2>5, <2>6, <2>7, ChanStep
<1>2. ASSUME NEW n \in Node, Progress(n) \/ Disturbance(n), NEW m \in Node, m # n PROVE InOrder(m)'
  <2>1. chan'[m] = chan[m] BY <1>2, ChanOthers
  <2> QED BY <2>1 DEF InOrder
<1>3. ASSUME Tick, NEW m \in Node PROVE InOrder(m)'
  <2>1. /\ DOMAIN chan'[m] = DOMAIN chan[m]
        /\ \A j \in DOMAIN chan[m] : chan'[m][j].reply = chan[m][j].reply
    BY <1>3, <1>c, TickEffect
  <2> QED BY <2>1 DEF InOrder
<1>4. ASSUME UNCHANGED vars, NEW m \in Node PROVE InOrder(m)'
  BY <1>4 DEF vars, InOrder
<1> QED BY <1>1, <1>2, <1>3, <1>4 DEF Next

-----------------------------------------------------------------------------
(* The lease. *)

\* The numbers the lease is made of.
LEMMA Numbers ==
    ASSUME TypeOK, NEW n \in Node
    PROVE  /\ TTL \in Nat /\ TTL >= 1 /\ RenewEvery \in Nat /\ MaxDelay \in Nat
           /\ lock.ttl \in Nat /\ lock.ttl <= TTL
           /\ chan[n] \in Seq(Command) /\ Len(chan[n]) \in Nat /\ DOMAIN chan[n] = 1..Len(chan[n])
           /\ \A i \in DOMAIN chan[n] : chan[n][i].age \in Nat /\ chan[n][i].age <= MaxDelay
           /\ renewTimer[n] \in Int /\ renewTimer[n] <= RenewEvery
           /\ renewTimer[n] # Off => renewTimer[n] \in Nat
           /\ lockId[n] \in Token /\ lockId[n] # NoToken
<1>1. lock.ttl \in 0..TTL BY DEF TypeOK, Keys
<1>2. chan[n] \in Seq(Command) BY DEF TypeOK
<1>3. \A i \in DOMAIN chan[n] : chan[n][i].age \in 0..MaxDelay
  <2> TAKE i \in DOMAIN chan[n]
  <2>1. chan[n][i] \in Command BY <1>2
  <2> QED BY <2>1 DEF Command
<1>4. renewTimer[n] \in {Off} \cup 0..RenewEvery BY DEF TypeOK
<1>5. lockId[n] \in Token /\ Token \subseteq Node \X Nat BY LeaderAssumption DEF TypeOK, Token
<1> QED BY <1>1, <1>2, <1>3, <1>4, <1>5, TTLAssumption, LeaderAssumption DEF Off

\* A script run for another token leaves a held key alone.
LEMMA ScriptForeign ==
    ASSUME NEW key, NEW command, key.owner # NoToken, key.owner # command.token
    PROVE  Script(key, command).key = key
<1>1. CASE command.op = "acquire" BY <1>1 DEF Script, Acquire
<1>2. CASE command.op = "renew" BY <1>2 DEF Script, Renew
<1>3. CASE command.op # "acquire" /\ command.op # "renew" BY <1>3 DEF Script, Release
<1> QED BY <1>1, <1>2, <1>3

\* Nothing but a script and the clock touches the key.
LEMMA LockKept ==
    ASSUME NEW n \in Node, Progress(n) \/ Disturbance(n), ~Execute(n)
    PROVE  lock' = lock
  BY DEF Progress, Disturbance, Start, Stop, RetryFires, RenewFires, LostRenewFires, Refuse, Flush,
     Resend, Crash, Disconnect, BecomeLeader, UndoAcquire, AcquireFails, RenewSettles,
     LoseLeadership, StopSettles, UndoSettles

\* The step confirms nothing new to this node and changes nothing else it leases by.
Weaker(m) ==
    /\ DOMAIN chan'[m] = DOMAIN chan[m]
    /\ \A j \in DOMAIN chan[m] :
          /\ chan'[m][j].op = chan[m][j].op
          /\ chan'[m][j].age = chan[m][j].age
          /\ chan'[m][j].reply = "yes" => chan[m][j].reply = "yes"
    /\ alive'[m] => alive[m]
    /\ running'[m] = running[m]
    /\ isLeader'[m] = isLeader[m]
    /\ lockId'[m] = lockId[m]
    /\ renewTimer'[m] = renewTimer[m]

\* Such a step keeps the lease, unless it takes a key that covers the node.
LEMMA LeaseWeaker ==
    ASSUME NEW m \in Node, Lease(m), Weaker(m), lock' = lock \/ lock.owner # lockId[m]
    PROVE  Lease(m)'
<1> USE DEF Weaker, Lease, Leads
<1>1. CASE lock' = lock
  <2>1. LeaseAcquired(m)' BY <1>1 DEF LeaseAcquired
  <2>2. Leads(m)' => Leads(m) /\ lock'.owner = lockId'[m] BY <1>1
  <2>3. LeaseAnswers(m)' BY <1>1 DEF LeaseAnswers
  <2>4. LeaseTimer(m)' BY <1>1 DEF LeaseTimer
  <2> QED BY <2>1, <2>2, <2>3, <2>4
<1>2. CASE lock.owner # lockId[m]
  <2>1. ~Leads(m)' BY <1>2
  <2>2. LeaseAcquired(m)' BY <1>2 DEF LeaseAcquired
  <2> QED BY <2>1, <2>2 DEF LeaseAnswers, LeaseTimer
<1> QED BY <1>1, <1>2

\* A service that does not run leases nothing.
LEMMA LeaseIdle == ASSUME NEW m \in Node, ~(alive[m] /\ running[m])' PROVE Lease(m)'
  BY DEF Lease, LeaseAcquired, LeaseAnswers, LeaseTimer, Leads

\* The steps of the other nodes: their scripts carry other tokens.
LEMMA LeaseOthers ==
    ASSUME TypeOK, NEW n \in Node, Own(n), Progress(n) \/ Disturbance(n),
           NEW m \in Node, m # n, Own(m), Lease(m)
    PROVE  Lease(m)'
<1>1. Weaker(m) BY ChanOthers DEF Weaker
<1>2. CASE Execute(n)
  <2>1. PICK i \in DOMAIN chan[n] : lock' = Script(lock, chan[n][i]).key BY <1>2 DEF Execute
  <2>2. chan[n][i].token # lockId[m] BY DEF Own
  <2>3. lock.owner = lockId[m] => lock' = lock BY <2>1, <2>2, ScriptForeign, Numbers
  <2> QED BY <1>1, <2>3, LeaseWeaker
<1>3. CASE ~Execute(n) BY <1>1, <1>3, LockKept, LeaseWeaker
<1> QED BY <1>2, <1>3

\* Redis runs a command of the node itself: a RENEW under its present lock id when it leads,
\* possibly its only ACQUIRE when it does not.
LEMMA LeaseExecute ==
    ASSUME TypeOK, NEW n \in Node, InOrder(n), Loop(n), Lease(n), Execute(n)
    PROVE  Lease(n)'
<1>c. ChanType BY DEF TypeOK, ChanType
<1>1. PICK i \in DOMAIN chan[n] : /\ FirstUnanswered(n, i)
                                  /\ lock' = Script(lock, chan[n][i]).key
                                  /\ Replied(n, i, Answer(Script(lock, chan[n][i]).granted))
  BY DEF Execute, Replied
<1>2. /\ DOMAIN chan'[n] = DOMAIN chan[n]
      /\ \A j \in DOMAIN chan[n] :
            /\ chan'[n][j].op = chan[n][j].op
            /\ chan'[n][j].age = chan[n][j].age
            /\ j # i => chan'[n][j].reply = chan[n][j].reply
      /\ chan'[n][i].reply = Answer(Script(lock, chan[n][i]).granted)
  <2>1. Answer(Script(lock, chan[n][i]).granted) \in {"none", "yes", "no", "error"} BY AnswerType
  <2> HIDE <1>1
  <2>2. Replied(n, i, Answer(Script(lock, chan[n][i]).granted)) BY <1>1
  <2> QED BY <1>c, <2>1, <2>2, AnswerEffect
<1>3. /\ UNCHANGED <<alive, running, isLeader, lockId, renewTimer>>
  BY DEF Execute, service, timers
<1>n. /\ TTL \in Nat /\ RenewEvery \in Nat /\ MaxDelay \in Nat
      /\ DOMAIN chan[n] = 1..Len(chan[n]) /\ Len(chan[n]) \in Nat
      /\ \A k \in DOMAIN chan[n] : chan[n][k].age \in Nat
      /\ renewTimer[n] \in Int /\ renewTimer[n] <= RenewEvery
  BY Numbers
<1>4. CASE Leads(n)
  <2>1. chan[n][i].op = "renew" /\ chan[n][i].token = lockId[n] /\ lock.owner = lockId[n]
    BY <1>4 DEF Loop, LoopRenew, Leads, Lease
  <2>2. lock' = Held(lockId[n], TTL) BY <1>1, <2>1 DEF Script, Renew
  <2>3. lock'.owner = lockId'[n] /\ lock'.ttl = TTL BY <1>3, <2>2 DEF Held
  <2>4. LeaseAcquired(n)' BY <1>2, <1>3, <1>4 DEF Loop, LoopRenew, Leads, LeaseAcquired
  <2>5. LeaseAnswers(n)' BY <1>n, <1>2, <2>3 DEF LeaseAnswers
  <2>6. LeaseTimer(n)' BY <1>n, <1>3, <2>3 DEF LeaseTimer
  <2> QED BY <2>3, <2>4, <2>5, <2>6 DEF Lease
<1>5. CASE ~Leads(n)
  <2>1. ~Leads(n)' BY <1>3, <1>5 DEF Leads
  <2>2. LeaseAcquired(n)'
    <3> SUFFICES ASSUME NEW k \in DOMAIN chan[n],
                        chan[n][k].op = "acquire", chan'[n][k].reply = "yes"
                 PROVE  lock'.owner = lockId[n] /\ lock'.ttl >= TTL - chan[n][k].age
      BY <1>2, <1>3 DEF LeaseAcquired
    <3>1. k = Len(chan[n]) /\ chan[n][k].token = lockId[n] BY DEF Loop, LoopAcquire
    <3>2. k = i
      <4> SUFFICES ASSUME k # i PROVE FALSE OBVIOUS
      <4>1. i < k BY <1>n, <3>1
      <4>2. chan[n][k].reply = "yes" BY <1>2
      <4>3. chan[n][i].reply # "none" BY <4>1, <4>2 DEF InOrder
      <4> QED BY <1>1, <4>3 DEF FirstUnanswered
    <3>3. Script(lock, chan[n][i]) = Acquire(lock, lockId[n]) BY <3>1, <3>2 DEF Script
    <3>4. Acquire(lock, lockId[n]).granted BY <1>2, <3>2, <3>3 DEF Answer
    <3>5. lock' = Held(lockId[n], TTL) BY <1>1, <3>3, <3>4 DEF Acquire
    <3> QED BY <1>n, <3>5 DEF Held
  <2> QED BY <2>1, <2>2 DEF Lease, LeaseAnswers, LeaseTimer
<1> QED BY <1>4, <1>5

\* The service's own sends: a first ACQUIRE, a retry, a renewal.
LEMMA LeaseSends ==
    ASSUME TypeOK, RestartWhen = "quiet", NEW n \in Node, Loop(n), Lease(n),
           Start(n) \/ Stop(n) \/ RetryFires(n) \/ RenewFires(n)
    PROVE  Lease(n)'
<1>c. ChanType /\ lockId \in [Node -> Token] BY DEF TypeOK, ChanType
<1>s. ASSUME NEW op \in {"acquire", "renew", "release", "undo"}, Send(n, op)
      PROVE  /\ \A i \in DOMAIN chan'[n] : \/ i \in DOMAIN chan[n] /\ chan'[n][i] = chan[n][i]
                                           \/ i = Len(chan'[n]) /\ chan'[n][i] = Sent(op, lockId[n])
             /\ \A i \in DOMAIN chan[n] : i \in DOMAIN chan'[n] /\ chan'[n][i] = chan[n][i]
             /\ Len(chan'[n]) \in DOMAIN chan'[n] /\ chan'[n][Len(chan'[n])] = Sent(op, lockId[n])
             /\ \A i \in DOMAIN chan[n] : i < Len(chan'[n])
  <2>1. Appended(n, Sent(op, lockId[n])) BY <1>c, <1>s, SendEffect DEF Appended
  <2> QED BY <2>1, AppendedFacts DEF Appended
<1>r. \A op, t : Sent(op, t).op = op /\ Sent(op, t).reply = "none" /\ Sent(op, t).age = 0
  BY DEF Sent
<1>n. /\ TTL \in Nat /\ RenewEvery \in Nat /\ MaxDelay \in Nat /\ lock.ttl \in Nat
      /\ \A k \in DOMAIN chan[n] : chan[n][k].age \in Nat
  BY Numbers
<1>1. CASE Start(n)
  <2>1. /\ chan[n] = <<>> /\ ~running[n] /\ alive[n] /\ Send(n, "acquire")
        /\ UNCHANGED <<lock, alive, isLeader, lockId>>
    BY <1>1 DEF Start, MayRestart
  <2>2. DOMAIN chan[n] = {} BY <2>1
  <2>3. ~isLeader[n] BY <2>1, <2>2 DEF Loop, LoopStopping
  <2>4. \A i \in DOMAIN chan'[n] : chan'[n][i].reply = "none" BY <1>r, <1>s, <2>1, <2>2
  <2> QED BY <2>1, <2>3, <2>4 DEF Lease, LeaseAcquired, LeaseAnswers, LeaseTimer, Leads
<1>2. CASE Stop(n)
  <2>1. ~running'[n] BY <1>2 DEF Stop, TypeOK
  <2> QED BY <2>1, LeaseIdle
<1>3. CASE RetryFires(n)
  <2>1. retryTimer[n] BY <1>3 DEF RetryFires, Loop, LoopTimers
  <2>2. running[n] /\ ~isLeader[n] BY <2>1 DEF Loop, LoopTimers
  <2>3. Send(n, "acquire") /\ UNCHANGED <<lock, alive, service>> BY <1>3, <2>2 DEF RetryFires
  <2>4. LeaseAcquired(n)' BY <1>r, <1>s, <2>3 DEF Lease, LeaseAcquired, service
  <2> QED BY <2>2, <2>3, <2>4 DEF Lease, LeaseAnswers, LeaseTimer, Leads, service
<1>4. CASE RenewFires(n)
  <2>1. alive[n] /\ running[n] /\ isLeader[n] BY <1>4 DEF RenewFires, Loop, LoopTimers, Off
  <2>2. /\ renewTimer[n] = 0 /\ Send(n, "renew") /\ UNCHANGED <<lock, alive, service>>
    BY <1>4, <2>1 DEF RenewFires
  <2>3. UNCHANGED <<lock, alive, running, isLeader, lockId>> BY <2>2 DEF service
  <2>4. lock.owner = lockId[n] BY <2>1 DEF Lease, Leads
  <2>5. LeaseAcquired(n)'
    <3>1. \A i \in DOMAIN chan[n] : chan[n][i].op # "acquire" BY <2>1 DEF Loop, LoopRenew
    <3>2. \A i \in DOMAIN chan'[n] : chan'[n][i].op # "acquire" BY <1>r, <1>s, <2>2, <3>1
    <3> QED BY <3>2 DEF LeaseAcquired
  <2>6. LeaseAnswers(n)'
    <3> SUFFICES ASSUME NEW i \in DOMAIN chan'[n],
                        \A j \in DOMAIN chan'[n] : j < i => chan'[n][j].reply = "yes"
                 PROVE  lock.ttl >= TTL - MaxDelay - RenewEvery - chan'[n][i].age
      BY <2>3 DEF LeaseAnswers
    <3>1. CASE i \in DOMAIN chan[n] /\ chan'[n][i] = chan[n][i]
      <4>1. \A j \in DOMAIN chan[n] : j < i => chan[n][j].reply = "yes" BY <1>s, <2>2
      <4> QED BY <2>1, <3>1, <4>1 DEF Lease, LeaseAnswers, Leads
    <3>2. CASE i = Len(chan'[n]) /\ chan'[n][i] = Sent("renew", lockId[n])
      <4>1. \A j \in DOMAIN chan[n] : chan[n][j].reply = "yes" BY <1>s, <2>2, <3>2
      <4>2. lock.ttl >= TTL - MaxDelay - RenewEvery + renewTimer[n]
        BY <2>1, <4>1 DEF Lease, LeaseTimer, Leads
      <4>3. chan'[n][i].age = 0 BY <1>r, <3>2
      <4> QED BY <1>n, <2>2, <4>2, <4>3
    <3> QED BY <1>s, <2>2, <3>1, <3>2
  <2>7. LeaseTimer(n)'
    <3>1. \E i \in DOMAIN chan'[n] : chan'[n][i].reply = "none" BY <1>r, <1>s, <2>2
    <3> QED BY <3>1 DEF LeaseTimer
  <2> QED BY <2>3, <2>4, <2>5, <2>6, <2>7 DEF Lease
<1> QED BY <1>1, <1>2, <1>3, <1>4

\* Redis' refusals, the connection's failures and a crash confirm nothing.
LEMMA LeaseFaults ==
    ASSUME TypeOK, NEW n \in Node, Lease(n),
           Refuse(n) \/ Flush(n) \/ Resend(n) \/ Crash(n) \/ Disconnect(n)
    PROVE  Lease(n)'
<1>c. ChanType BY DEF TypeOK, ChanType
<1>1. CASE Refuse(n)
  <2>1. PICK i \in DOMAIN chan[n] : Replied(n, i, "error") BY <1>1 DEF Refuse, Replied
  <2>2. /\ DOMAIN chan'[n] = DOMAIN chan[n]
        /\ \A j \in DOMAIN chan[n] :
              /\ chan'[n][j].op = chan[n][j].op
              /\ chan'[n][j].age = chan[n][j].age
              /\ chan'[n][j].reply = IF j = i THEN "error" ELSE chan[n][j].reply
    BY <1>c, <2>1, AnswerEffect
  <2>3. UNCHANGED <<lock, alive, service, timers>> BY <1>1 DEF Refuse
  <2>4. Weaker(n) BY <2>2, <2>3 DEF Weaker, service, timers
  <2> QED BY <2>3, <2>4, LeaseWeaker
<1>2. CASE Flush(n)
  <2>1. UNCHANGED <<lock, alive, service, timers>> BY <1>2 DEF Flush
  <2>2. Weaker(n) BY <1>c, <1>2, <2>1, FlushEffect DEF Weaker, service, timers
  <2> QED BY <2>1, <2>2, LeaseWeaker
<1>3. CASE Resend(n)
  <2>1. UNCHANGED <<lock, alive, service, timers>> BY <1>3 DEF Resend
  <2>2. Weaker(n) BY <1>c, <1>3, <2>1, ResendEffect DEF Weaker, service, timers
  <2> QED BY <2>1, <2>2, LeaseWeaker
<1>4. CASE Crash(n) BY <1>4, LeaseIdle DEF Crash, TypeOK
<1>5. CASE Disconnect(n) BY <1>5, LeaseIdle DEF Disconnect, TypeOK
<1> QED BY <1>1, <1>2, <1>3, <1>4, <1>5

\* The continuations of the awaits.
LEMMA LeaseHandlers ==
    ASSUME TypeOK, NEW n \in Node, Loop(n), Lease(n),
           \/ BecomeLeader(n) \/ UndoAcquire(n) \/ AcquireFails(n) \/ RenewSettles(n)
           \/ LoseLeadership(n) \/ StopSettles(n) \/ UndoSettles(n)
    PROVE  Lease(n)'
<1>c. ChanType /\ lockId \in [Node -> Token] BY DEF TypeOK, ChanType
<1>n. /\ TTL \in Nat /\ RenewEvery \in Nat /\ MaxDelay \in Nat /\ lock.ttl \in Nat
      /\ \A k \in DOMAIN chan[n] : chan[n][k].age \in Nat /\ chan[n][k].age <= MaxDelay
  BY Numbers
<1>1. CASE BecomeLeader(n)
  <2>1. /\ chan[n][1].op = "acquire" /\ chan[n][1].reply = "yes" /\ 1 \in DOMAIN chan[n]
        /\ Consumed(n) /\ running[n] /\ alive[n]
    BY <1>1, <1>c, AnsweredFacts DEF BecomeLeader
  <2>2. DOMAIN chan'[n] = {} BY <2>1, LastAcquire DEF Loop
  <2>3. lock.owner = lockId[n] /\ lock.ttl >= TTL - chan[n][1].age
    BY <2>1 DEF Lease, LeaseAcquired
  <2>4. UNCHANGED <<lock, lockId>> /\ renewTimer'[n] = RenewEvery BY <1>1 DEF BecomeLeader, TypeOK
  <2>5. lock.ttl >= TTL - MaxDelay - RenewEvery + RenewEvery BY <1>n, <2>1, <2>3
  <2> QED BY <2>2, <2>3, <2>4, <2>5 DEF Lease, LeaseAcquired, LeaseAnswers, LeaseTimer
<1>2. CASE UndoAcquire(n) BY <1>2, LeaseIdle DEF UndoAcquire, service
<1>3. CASE AcquireFails(n)
  <2>1. chan[n][1].op = "acquire" /\ Consumed(n) BY <1>3, <1>c, AnsweredFacts DEF AcquireFails
  <2>2. DOMAIN chan'[n] = {} /\ ~isLeader[n] BY <2>1, LastAcquire DEF Loop
  <2>3. isLeader' = isLeader BY <1>3 DEF AcquireFails, service
  <2> QED BY <2>2, <2>3 DEF Lease, LeaseAcquired, LeaseAnswers, LeaseTimer, Leads
<1>4. CASE RenewSettles(n)
  <2>1. /\ alive[n] /\ Consumed(n) /\ 1 \in DOMAIN chan[n]
        /\ isLeader[n] => chan[n][1].reply = "yes"
    BY <1>4, <1>c, AnsweredFacts DEF RenewSettles
  <2>2. UNCHANGED <<lock, alive, running, isLeader, lockId, renewTimer>>
    BY <1>4 DEF RenewSettles, service, timers
  <2>3. LeaseAcquired(n)' BY <2>1, <2>2, ConsumedFacts DEF Lease, LeaseAcquired
  <2>4. ASSUME Leads(n), NEW i \in DOMAIN chan'[n],
               \A j \in DOMAIN chan'[n] : j < i => chan'[n][j].reply = "yes"
        PROVE  lock.ttl >= TTL - MaxDelay - RenewEvery - chan'[n][i].age
    <3>1. i + 1 \in DOMAIN chan[n] /\ chan'[n][i] = chan[n][i + 1] BY <2>1, ConsumedFacts
    <3>2. ASSUME NEW j \in DOMAIN chan[n], j < i + 1 PROVE chan[n][j].reply = "yes"
      <4>1. CASE j = 1 BY <2>1, <2>4, <4>1 DEF Leads
      <4>2. CASE j # 1
        <5>1. j - 1 \in DOMAIN chan'[n] /\ chan'[n][j - 1] = chan[n][j] BY <2>1, <4>2, ConsumedFacts
        <5>2. j - 1 < i BY <2>1, <3>2 DEF Consumed
        <5> QED BY <2>4, <5>1, <5>2
      <4> QED BY <4>1, <4>2
    <3> QED BY <2>4, <3>1, <3>2 DEF Lease, LeaseAnswers
  <2>5. ASSUME Leads(n), \A i \in DOMAIN chan'[n] : chan'[n][i].reply = "yes"
        PROVE  \A i \in DOMAIN chan[n] : chan[n][i].reply = "yes"
    <3> TAKE i \in DOMAIN chan[n]
    <3>1. CASE i = 1 BY <2>1, <2>5, <3>1 DEF Leads
    <3>2. CASE i # 1 BY <2>1, <2>5, <3>2, ConsumedFacts
    <3> QED BY <3>1, <3>2
  <2>6. LeaseAnswers(n)' BY <2>2, <2>4 DEF LeaseAnswers, Leads
  <2>7. LeaseTimer(n)' BY <2>2, <2>5 DEF Lease, LeaseTimer, Leads
  <2> QED BY <2>2, <2>3, <2>6, <2>7 DEF Lease, Leads
<1>5. CASE LoseLeadership(n)
  <2>1. Consumed(n) /\ isLeader[n] BY <1>5, <1>c, AnsweredFacts DEF LoseLeadership
  <2>2. \A i \in DOMAIN chan[n] : chan[n][i].op # "acquire" BY <2>1 DEF Loop, LoopAcquire
  <2>3. \A i \in DOMAIN chan'[n] : chan'[n][i].op # "acquire" BY <2>1, <2>2, ConsumedFacts
  <2>4. ~isLeader'[n] BY <1>5 DEF LoseLeadership, TypeOK
  <2> QED BY <2>3, <2>4 DEF Lease, LeaseAcquired, LeaseAnswers, LeaseTimer, Leads
<1>6. CASE StopSettles(n) \/ UndoSettles(n)
  <2>1. 1 \in DOMAIN chan[n] /\ chan[n][1].op \in {"release", "undo"}
    <3>1. CASE StopSettles(n) BY <3>1, <1>c, AnsweredFacts DEF StopSettles
    <3>2. CASE UndoSettles(n) BY <3>2, <1>c, AnsweredFacts DEF UndoSettles
    <3> QED BY <1>6, <3>1, <3>2
  <2>2. ~running[n] BY <2>1 DEF Loop, LoopRelease
  <2>3. running' = running BY <1>6 DEF StopSettles, UndoSettles, service
  <2> QED BY <2>2, <2>3, LeaseIdle
<1> QED BY <1>1, <1>2, <1>3, <1>4, <1>5, <1>6

\* The slack in TimelyAssumption: a key on which an answer is outstanding has a tick to spare.
LEMMA SlackLeft ==
    ASSUME NEW ttl \in Nat, NEW full \in Nat, NEW delay \in Nat, NEW every \in Nat, NEW age \in Nat,
           age < delay, 2 * delay + every < full, ttl >= full - delay - every - age
    PROVE  ttl > 1
OBVIOUS

\* The clock: a timely system never lets a covered key reach its last tick.
LEMMA LeaseTick ==
    ASSUME TypeOK, TimelyAssumption, Tick, NEW m \in Node, Loop(m), Lease(m)
    PROVE  Lease(m)'
<1>c. ChanType BY DEF TypeOK, ChanType
<1>n. /\ TTL \in Nat /\ RenewEvery \in Nat /\ RenewEvery >= 1 /\ MaxDelay \in Nat /\ lock.ttl \in Nat
      /\ chan[m] \in Seq(Command) /\ Len(chan[m]) \in Nat /\ DOMAIN chan[m] = 1..Len(chan[m])
      /\ \A k \in DOMAIN chan[m] : chan[m][k].age \in Nat
      /\ renewTimer[m] # Off => renewTimer[m] \in Nat
  BY Numbers, LeaderAssumption
<1>1. alive[m] => renewTimer[m] # 0 /\ \A i \in DOMAIN chan[m] : chan[m][i].age < MaxDelay
  BY DEF Tick, OnTime, TimelyAssumption
<1>2. /\ DOMAIN chan'[m] = DOMAIN chan[m]
      /\ \A j \in DOMAIN chan[m] :
            /\ chan'[m][j].op = chan[m][j].op
            /\ alive[m] => chan'[m][j].age = chan[m][j].age + 1
            /\ chan'[m][j].reply = chan[m][j].reply
  BY <1>c, <1>1, TickEffect
<1>3. UNCHANGED <<alive, running, isLeader, lockId>> BY DEF Tick, service
<1>4. lock.ttl > 1 => lock'.owner = lock.owner /\ lock'.ttl = lock.ttl - 1
  <2> SUFFICES ASSUME lock.ttl > 1 PROVE lock'.owner = lock.owner /\ lock'.ttl = lock.ttl - 1
    OBVIOUS
  <2>1. lock' = [lock EXCEPT !.ttl = lock.ttl - 1] BY <1>n DEF Tick, Aged
  <2>2. lock \in Keys(Token) BY DEF TypeOK
  <2> QED BY <2>1, <2>2 DEF Keys
<1>5. LeaseAcquired(m)'
  <2> SUFFICES ASSUME alive[m], running[m], NEW i \in DOMAIN chan[m],
                      chan[m][i].op = "acquire", chan[m][i].reply = "yes"
               PROVE  lock'.owner = lockId[m] /\ lock'.ttl >= TTL - chan'[m][i].age
    BY <1>2, <1>3 DEF LeaseAcquired
  <2>1. lock.owner = lockId[m] /\ lock.ttl >= TTL - chan[m][i].age BY DEF Lease, LeaseAcquired
  <2>2. lock.ttl > 1 BY <1>n, <1>1, <2>1 DEF TimelyAssumption
  <2>3. lock'.owner = lock.owner /\ lock'.ttl = lock.ttl - 1 BY <1>4, <2>2
  <2>4. chan'[m][i].age = chan[m][i].age + 1 BY <1>2
  <2> HIDE DEF Lease
  <2> QED BY <1>n, <2>1, <2>3, <2>4
<1>6. CASE ~Leads(m)
  <2>1. ~Leads(m)' BY <1>3, <1>6 DEF Leads
  <2> QED BY <1>5, <2>1 DEF Lease, LeaseAnswers, LeaseTimer
<1>7. CASE Leads(m)
  <2>1. alive[m] /\ renewTimer[m] # Off /\ renewTimer[m] # 0 /\ lock.owner = lockId[m]
    BY <1>1, <1>7 DEF Loop, LoopTimers, Leads, Lease
  <2>2. lock.ttl > 1
    <3>1. CASE chan[m] = <<>>
      <4>1. lock.ttl >= TTL - MaxDelay - RenewEvery + renewTimer[m]
        BY <1>7, <3>1 DEF Lease, LeaseTimer
      <4> QED BY <1>n, <2>1, <4>1 DEF TimelyAssumption
    <3>2. CASE chan[m] # <<>>
      <4>1. 1 \in DOMAIN chan[m] /\ \A j \in DOMAIN chan[m] : ~(j < 1) BY <1>n, <3>2
      <4>2. lock.ttl >= TTL - MaxDelay - RenewEvery - chan[m][1].age
        BY <1>7, <4>1 DEF Lease, LeaseAnswers
      <4>3. chan[m][1].age \in Nat /\ chan[m][1].age < MaxDelay BY <1>n, <1>1, <2>1, <4>1
      <4>4. 2 * MaxDelay + RenewEvery < TTL BY DEF TimelyAssumption
      <4>5. lock.ttl \in Nat /\ {TTL, MaxDelay, RenewEvery} \subseteq Nat BY <1>n
      <4> QED BY <4>2, <4>3, <4>4, <4>5, SlackLeft
    <3> QED BY <3>1, <3>2
  <2>3. lock'.owner = lockId'[m] /\ lock'.ttl = lock.ttl - 1 BY <1>3, <1>4, <2>1, <2>2
  <2>4. LeaseAnswers(m)'
    <3> SUFFICES ASSUME NEW i \in DOMAIN chan[m],
                        \A j \in DOMAIN chan[m] : j < i => chan[m][j].reply = "yes"
                 PROVE  lock'.ttl >= TTL - MaxDelay - RenewEvery - chan'[m][i].age
      BY <1>2 DEF LeaseAnswers
    <3>1. lock.ttl >= TTL - MaxDelay - RenewEvery - chan[m][i].age
      BY <1>7 DEF Lease, LeaseAnswers
    <3> QED BY <1>n, <1>2, <2>1, <2>3, <3>1
  <2>5. LeaseTimer(m)'
    <3> SUFFICES ASSUME \A i \in DOMAIN chan[m] : chan[m][i].reply = "yes"
                 PROVE  lock'.ttl >= TTL - MaxDelay - RenewEvery + renewTimer'[m]
      BY <1>2 DEF LeaseTimer
    <3>1. lock.ttl >= TTL - MaxDelay - RenewEvery + renewTimer[m] BY <1>7 DEF Lease, LeaseTimer
    <3>2. renewTimer'[m] = renewTimer[m] - 1 BY <1>n, <2>1 DEF Tick
    <3> QED BY <1>n, <2>1, <2>3, <3>1, <3>2
  <2> QED BY <1>5, <2>3, <2>4, <2>5 DEF Lease
<1> QED BY <1>6, <1>7

-----------------------------------------------------------------------------
(* The theorems. *)

\* The state after the constructors.
LEMMA Initially == Init => TypeOK /\ \A n \in Node : Own(n) /\ InOrder(n) /\ Loop(n) /\ Lease(n)
<1> SUFFICES ASSUME Init PROVE TypeOK /\ \A n \in Node : Own(n) /\ InOrder(n) /\ Loop(n) /\ Lease(n)
  OBVIOUS
<1>1. TypeOK
  <2>1. Free \in Keys(Token) BY TTLAssumption DEF Free, Keys
  <2>2. <<>> \in Seq(Command) OBVIOUS
  <2> QED BY <2>1, <2>2 DEF Init, TypeOK
<1>2. ASSUME NEW n \in Node PROVE Own(n) /\ InOrder(n) /\ Loop(n) /\ Lease(n)
  <2>1. /\ DOMAIN chan[n] = {} /\ ~running[n] /\ ~isLeader[n] /\ renewTimer[n] = Off
        /\ lostRenewTimers[n] = 0 /\ ~retryTimer[n] /\ lostRetryTimers[n] = 0 /\ lockId[n][1] = n
    BY DEF Init
  <2>2. Own(n) /\ InOrder(n) BY <2>1 DEF Own, InOrder
  <2>3. Loop(n) BY <2>1 DEF Loop, LoopTimers, LoopAcquire, LoopRelease, LoopStopping, LoopRenew
  <2>4. Lease(n) BY <2>1 DEF Lease, LeaseAcquired, LeaseAnswers, LeaseTimer, Leads
  <2> QED BY <2>2, <2>3, <2>4
<1> QED BY <1>1, <1>2

\* Whatever the answers, the failures and the restarts, the fields keep their types: a
\* service, its commands and the key never reach a state the handlers do not expect.
THEOREM TypeCorrect == Spec => []TypeOK
<1>1. Init => TypeOK BY Initially
<1>2. TypeOK /\ [Next]_vars => TypeOK' BY TypeStep
<1> QED BY <1>1, <1>2, PTL DEF Spec

\* For any number of services and any delays and failures: one that is restarted only after
\* its commands were answered never runs two acquisition loops and leaks no timer.
THEOREM SingleLoops == ASSUME RestartWhen = "quiet" PROVE Spec => []OneLoop
<1> DEFINE LInv == TypeOK /\ \A n \in Node : Loop(n)
<1>1. Init => LInv BY Initially
<1>2. LInv /\ [Next]_vars => LInv' BY TypeStep, LoopStep
<1>3. LInv => OneLoop
  <2> SUFFICES ASSUME LInv, NEW n \in Node
               PROVE  /\ lostRetryTimers[n] = 0 /\ lostRenewTimers[n] = 0
                      /\ retryTimer[n] => running[n] /\ ~isLeader[n] /\ ~InFlight(n, {"acquire"})
                      /\ InFlight(n, {"acquire"}) => ~isLeader[n]
                      /\ \A i, j \in DOMAIN chan[n] :
                            chan[n][i].op = "acquire" /\ chan[n][j].op = "acquire" => i = j
    BY DEF OneLoop
  <2>1. LoopTimers(n) /\ LoopAcquire(n) BY DEF Loop
  <2>2. InFlight(n, {"acquire"}) => ~isLeader[n] /\ ~retryTimer[n] BY <2>1 DEF InFlight, LoopAcquire
  <2> QED BY <2>1, <2>2 DEF LoopTimers, LoopAcquire
<1> QED BY <1>1, <1>2, <1>3, PTL DEF Spec

\* The strengthened invariant is inductive when answers are timely and restarts are quiet.
LEMMA Inductive == TimelyAssumption /\ IInv /\ [Next]_vars => IInv'
<1> SUFFICES ASSUME TimelyAssumption, IInv, [Next]_vars PROVE IInv'
  OBVIOUS
<1> USE DEF IInv
<1>1. TypeOK' BY TypeStep
<1>2. \A n \in Node : Own(n)' BY OwnStep
<1>3. \A n \in Node : InOrder(n)' BY InOrderStep
<1>4. \A n \in Node : Loop(n)' BY LoopStep DEF TimelyAssumption
<1>5. ASSUME NEW n \in Node, Progress(n) \/ Disturbance(n), NEW m \in Node PROVE Lease(m)'
  <2>1. CASE m # n BY <1>5, <2>1, LeaseOthers
  <2>2. CASE LostRenewFires(n)
    <3>1. lostRenewTimers[n] = 0 BY DEF Loop, LoopTimers
    <3> QED BY <2>2, <3>1 DEF LostRenewFires
  <2>3. CASE m = n /\ ~LostRenewFires(n)
    BY <1>5, <2>3, LeaseExecute, LeaseSends, LeaseFaults, LeaseHandlers
       DEF TimelyAssumption, Progress, Disturbance
  <2> QED BY <2>1, <2>2, <2>3
<1>6. ASSUME Tick, NEW m \in Node PROVE Lease(m)' BY <1>6, LeaseTick
<1>7. ASSUME UNCHANGED vars, NEW m \in Node PROVE Lease(m)'
  <2>1. Weaker(m) /\ lock' = lock BY <1>7 DEF vars, service, timers, Weaker
  <2> QED BY <2>1, LeaseWeaker
<1>8. \A m \in Node : Lease(m)' BY <1>5, <1>6, <1>7 DEF Next
<1> QED BY <1>1, <1>2, <1>3, <1>4, <1>8

\* For any number of services: when ttlMs exceeds renewalIntervalMs by two answers' delays,
\* a service that leads holds the key under its present lock id.
THEOREM LeasesHold == ASSUME TimelyAssumption PROVE Spec => []LeaseCovers
<1>1. Init => IInv BY Initially DEF IInv
<1>2. IInv /\ [Next]_vars => IInv' BY Inductive
<1>3. IInv => LeaseCovers BY DEF IInv, Lease, LeaseCovers
<1> QED BY <1>1, <1>2, <1>3, PTL DEF Spec

\* Under the same conditions the services implement the abstract election: no step makes a
\* second one lead while a first one does.
THEOREM Implements == ASSUME TimelyAssumption PROVE Spec => ImplementsElection
<1> DEFINE L == {n \in Node : Leads(n)}
<1>1. Init => IInv BY Initially DEF IInv
<1>2. IInv /\ [Next]_vars => IInv' BY Inductive
<1>3. Init => Promise!Init BY DEF Init, Promise!Init, Leads
<1>4. IInv /\ IInv' /\ [Next]_vars => [Promise!Next]_L
  <2> SUFFICES ASSUME IInv, IInv', [Next]_vars PROVE Promise!Next \/ L' = L
    OBVIOUS
  <2>1. \A m, n \in Node : Leads(m) /\ Leads(n) => m = n
    <3>1. \A m \in Node : Leads(m) => lock.owner[1] = m BY DEF IInv, Lease, Own
    <3> QED BY <3>1
  <2>2. \A m, n \in Node : Leads(m)' /\ Leads(n)' => m = n
    <3>1. \A m \in Node : Leads(m)' => lock'.owner[1] = m BY DEF IInv, Lease, Own
    <3> QED BY <3>1
  <2>3. CASE \A m \in Node : Leads(m)' <=> Leads(m) BY <2>3
  <2>4. ASSUME NEW n \in Node, Progress(n) \/ Disturbance(n) PROVE Promise!Next \/ L' = L
    <3>1. \A m \in Node : m # n => (Leads(m)' <=> Leads(m))
      BY <2>4, ChanOthers DEF IInv, Leads
    <3>2. CASE Leads(n) /\ ~Leads(n)'
      <4>1. L = {n} /\ L' = {} BY <2>1, <3>1, <3>2
      <4> QED BY <4>1 DEF Promise!Next, Promise!Resign
    <3>3. CASE ~Leads(n) /\ Leads(n)'
      <4>1. L = {} /\ L' = {n} BY <2>2, <3>1, <3>3
      <4> QED BY <4>1 DEF Promise!Next, Promise!Elect
    <3>4. CASE Leads(n)' <=> Leads(n) BY <2>3, <3>1, <3>4
    <3> QED BY <3>2, <3>3, <3>4
  <2>5. CASE Tick \/ UNCHANGED vars
    <3>1. UNCHANGED <<alive, running, isLeader>> BY <2>5 DEF Tick, vars, service
    <3> QED BY <2>3, <3>1 DEF Leads
  <2> QED BY <2>4, <2>5 DEF Next
<1> QED BY <1>1, <1>2, <1>3, <1>4, PTL DEF Spec, ImplementsElection, Promise!Spec

-----------------------------------------------------------------------------
(* A running service stays in the election, whatever fails. *)

\* A service that runs again while the RELEASE of its last stop() is in flight has sent its
\* next ACQUIRE behind it.
Restarted(n) ==
    running[n] =>
        \A i \in DOMAIN chan[n] : chan[n][i].op = "release" =>
            \E j \in DOMAIN chan[n] : i < j /\ chan[n][j].op = "acquire"

\* Without counting on a RELEASE: it renews, or acquires, or will retry.
Stays(n) ==
    alive[n] /\ running[n] =>
        \/ isLeader[n] /\ renewTimer[n] # Off
        \/ \E i \in DOMAIN chan[n] : chan[n][i].op = "acquire"
        \/ retryTimer[n]
        \/ lostRetryTimers[n] > 0

\* A step that moves no command and stops no timer of the node.
LEMMA StaysUndisturbed ==
    ASSUME NEW m \in Node, Restarted(m), Stays(m), Undisturbed(m)
    PROVE  Restarted(m)' /\ Stays(m)'
<1>1. Restarted(m)'
  <2> SUFFICES ASSUME running[m], NEW i \in DOMAIN chan[m], chan[m][i].op = "release"
               PROVE  \E j \in DOMAIN chan[m] : i < j /\ chan'[m][j].op = "acquire"
    BY DEF Restarted, Undisturbed
  <2>1. PICK j \in DOMAIN chan[m] : i < j /\ chan[m][j].op = "acquire" BY DEF Restarted
  <2> QED BY <2>1 DEF Undisturbed
<1>2. Stays(m)' BY DEF Stays, Undisturbed
<1> QED BY <1>1, <1>2

\* A command sent leaves those in front of it where they are.
LEMMA StaysAppended ==
    ASSUME NEW n \in Node, NEW op \in {"acquire", "renew", "undo"}, NEW token, Restarted(n),
           Appended(n, Sent(op, token)), running'[n] = running[n]
    PROVE  /\ Restarted(n)'
           /\ \A i \in DOMAIN chan[n] : i \in DOMAIN chan'[n] /\ chan'[n][i] = chan[n][i]
<1>1. Sent(op, token).op # "release" BY DEF Sent
<1>2. /\ \A i \in DOMAIN chan'[n] : \/ i \in DOMAIN chan[n] /\ chan'[n][i] = chan[n][i]
                                    \/ i = Len(chan'[n]) /\ chan'[n][i] = Sent(op, token)
      /\ \A i \in DOMAIN chan[n] : i \in DOMAIN chan'[n] /\ chan'[n][i] = chan[n][i]
  BY AppendedFacts
<1>3. Restarted(n)'
  <2> SUFFICES ASSUME running[n], NEW i \in DOMAIN chan'[n], chan'[n][i].op = "release"
               PROVE  \E j \in DOMAIN chan'[n] : i < j /\ chan'[n][j].op = "acquire"
    BY DEF Restarted
  <2>1. i \in DOMAIN chan[n] /\ chan[n][i].op = "release" BY <1>1, <1>2
  <2>2. PICK j \in DOMAIN chan[n] : i < j /\ chan[n][j].op = "acquire" BY <2>1 DEF Restarted
  <2> QED BY <1>2, <2>2
<1> QED BY <1>2, <1>3

\* Consuming the head keeps the ACQUIRE behind a RELEASE.
LEMMA StaysConsumed ==
    ASSUME NEW n \in Node, Restarted(n), Consumed(n), running'[n] = running[n]
    PROVE  /\ Restarted(n)'
           /\ chan[n][1].op # "acquire" /\ (\E i \in DOMAIN chan[n] : chan[n][i].op = "acquire")
                => \E i \in DOMAIN chan'[n] : chan'[n][i].op = "acquire"
           /\ running[n] /\ chan[n][1].op = "release"
                => \E i \in DOMAIN chan'[n] : chan'[n][i].op = "acquire"
<1>1. /\ \A i \in DOMAIN chan'[n] : i + 1 \in DOMAIN chan[n] /\ chan'[n][i] = chan[n][i + 1]
      /\ \A i \in DOMAIN chan[n] : i # 1 => i - 1 \in DOMAIN chan'[n] /\ chan'[n][i - 1] = chan[n][i]
      /\ 1 \in DOMAIN chan[n]
  BY ConsumedFacts
<1>2. DOMAIN chan[n] \subseteq Nat /\ DOMAIN chan'[n] \subseteq Nat BY DEF Consumed
<1>3. \A i \in DOMAIN chan'[n] : i >= 1 BY DEF Consumed
<1>4. Restarted(n)'
  <2> SUFFICES ASSUME running[n], NEW i \in DOMAIN chan'[n], chan'[n][i].op = "release"
               PROVE  \E j \in DOMAIN chan'[n] : i < j /\ chan'[n][j].op = "acquire"
    BY DEF Restarted
  <2>1. i + 1 \in DOMAIN chan[n] /\ chan[n][i + 1].op = "release" BY <1>1
  <2>2. PICK j \in DOMAIN chan[n] : i + 1 < j /\ chan[n][j].op = "acquire" BY <2>1 DEF Restarted
  <2>3. i \in Nat /\ j \in Nat /\ i >= 1 BY <1>2, <1>3
  <2>4. j # 1 /\ i < j - 1 BY <2>2, <2>3
  <2>5. j - 1 \in DOMAIN chan'[n] /\ chan'[n][j - 1] = chan[n][j] BY <1>1, <2>4
  <2> QED BY <2>2, <2>4, <2>5
<1>5. ASSUME chan[n][1].op # "acquire", NEW i \in DOMAIN chan[n], chan[n][i].op = "acquire"
      PROVE  \E j \in DOMAIN chan'[n] : chan'[n][j].op = "acquire"
  <2>1. i # 1 BY <1>5
  <2>2. i - 1 \in DOMAIN chan'[n] /\ chan'[n][i - 1] = chan[n][i] BY <1>1, <2>1
  <2> QED BY <1>5, <2>2
<1>6. ASSUME running[n], chan[n][1].op = "release"
      PROVE  \E i \in DOMAIN chan'[n] : chan'[n][i].op = "acquire"
  <2>1. PICK j \in DOMAIN chan[n] : chan[n][j].op = "acquire" BY <1>1, <1>6 DEF Restarted
  <2> QED BY <1>5, <1>6, <2>1
<1> QED BY <1>4, <1>5, <1>6

\* What the callers and the timers make a service send.
LEMMA StaysSends ==
    ASSUME TypeOK, NEW n \in Node, Restarted(n), Stays(n),
           Start(n) \/ Stop(n) \/ RetryFires(n) \/ RenewFires(n) \/ LostRenewFires(n)
    PROVE  Restarted(n)' /\ Stays(n)'
<1>c. ChanType /\ lockId \in [Node -> Token] BY DEF TypeOK, ChanType
<1>s. ASSUME NEW op \in {"acquire", "renew", "release", "undo"}, Send(n, op)
      PROVE  Appended(n, Sent(op, lockId[n])) /\ Sent(op, lockId[n]).op = op
  BY <1>c, <1>s, SendEffect DEF Appended, Sent
<1>1. CASE Start(n)
  <2>1. Appended(n, Sent("acquire", lockId[n])) /\ Sent("acquire", lockId[n]).op = "acquire"
    BY <1>1, <1>s DEF Start
  <2>2. /\ Len(chan'[n]) \in DOMAIN chan'[n] /\ chan'[n][Len(chan'[n])].op = "acquire"
        /\ \A i \in DOMAIN chan'[n] : i # Len(chan'[n]) => i < Len(chan'[n])
    BY <2>1 DEF Appended
  <2>3. Restarted(n)' BY <2>2 DEF Restarted
  <2>4. Stays(n)' BY <2>2 DEF Stays
  <2> QED BY <2>3, <2>4
<1>2. CASE Stop(n)
  <2>1. ~running'[n] BY <1>2 DEF Stop, TypeOK
  <2> QED BY <2>1 DEF Restarted, Stays
<1>3. CASE RetryFires(n)
  <2>1. UNCHANGED <<alive, running, isLeader, renewTimer>> BY <1>3 DEF RetryFires, service
  <2>2. CASE running[n]
    <3>1. Appended(n, Sent("acquire", lockId[n])) /\ Sent("acquire", lockId[n]).op = "acquire"
      BY <1>3, <1>s, <2>2 DEF RetryFires
    <3>2. Restarted(n)' BY <2>1, <3>1, StaysAppended
    <3>3. Len(chan'[n]) \in DOMAIN chan'[n] /\ chan'[n][Len(chan'[n])].op = "acquire"
      BY <3>1, AppendedFacts
    <3> QED BY <3>2, <3>3 DEF Stays
  <2>3. CASE ~running[n] BY <2>1, <2>3 DEF Restarted, Stays
  <2> QED BY <2>2, <2>3
<1>4. CASE RenewFires(n) \/ LostRenewFires(n)
  <2>1. UNCHANGED <<alive, running, isLeader, retryTimer, lostRetryTimers>>
    BY <1>4 DEF RenewFires, LostRenewFires, service, timers
  <2>2. renewTimer[n] # Off => renewTimer'[n] # Off
    BY <1>4, LeaderAssumption DEF RenewFires, LostRenewFires, timers, Off, TypeOK
  <2>3. CASE running[n]
    <3>1. Appended(n, Sent("renew", lockId[n])) BY <1>4, <1>s, <2>3 DEF RenewFires, LostRenewFires
    <3>2. Restarted(n)' /\ \A i \in DOMAIN chan[n] : i \in DOMAIN chan'[n] /\ chan'[n][i] = chan[n][i]
      BY <2>1, <3>1, StaysAppended
    <3> QED BY <2>1, <2>2, <3>2 DEF Stays
  <2>4. CASE ~running[n] BY <2>1, <2>4 DEF Restarted, Stays
  <2> QED BY <2>3, <2>4
<1> QED BY <1>1, <1>2, <1>3, <1>4

\* Redis, the connection and a crash.
LEMMA StaysAnswers ==
    ASSUME TypeOK, NEW n \in Node, Restarted(n), Stays(n),
           Execute(n) \/ Refuse(n) \/ Flush(n) \/ Resend(n) \/ Crash(n) \/ Disconnect(n)
    PROVE  Restarted(n)' /\ Stays(n)'
<1>c. ChanType BY DEF TypeOK, ChanType
<1>1. CASE Execute(n) \/ Refuse(n)
  <2>1. PICK i \in DOMAIN chan[n], r \in {"none", "yes", "no", "error"} : Replied(n, i, r)
    <3>1. CASE Execute(n) BY <3>1, AnswerType DEF Execute, Replied
    <3>2. CASE Refuse(n) BY <3>2 DEF Refuse, Replied
    <3> QED BY <1>1, <3>1, <3>2
  <2>2. /\ Len(chan'[n]) = Len(chan[n]) /\ DOMAIN chan'[n] = DOMAIN chan[n]
        /\ \A j \in DOMAIN chan[n] :
              chan'[n][j].op = chan[n][j].op /\ chan'[n][j].token = chan[n][j].token
    BY <1>c, <2>1, AnswerEffect
  <2>3. UNCHANGED <<alive, service, timers>> BY <1>1 DEF Execute, Refuse
  <2> QED BY <2>2, <2>3, StaysUndisturbed DEF Undisturbed, service, timers
<1>2. CASE Flush(n)
  BY <1>2, <1>c, FlushEffect, StaysUndisturbed DEF Undisturbed, Flush, service, timers
<1>3. CASE Resend(n)
  BY <1>3, <1>c, ResendEffect, StaysUndisturbed DEF Undisturbed, Resend, service, timers
<1>4. CASE Crash(n)
  BY <1>4, StaysUndisturbed DEF Undisturbed, Crash, service, timers, TypeOK
<1>5. CASE Disconnect(n)
  <2>1. DOMAIN chan'[n] = {} /\ ~alive'[n] BY <1>5, <1>c DEF Disconnect, ChanType
  <2> QED BY <2>1 DEF Restarted, Stays
<1> QED BY <1>1, <1>2, <1>3, <1>4, <1>5

\* The continuations of the awaits.
LEMMA StaysHandlers ==
    ASSUME TypeOK, NEW n \in Node, Restarted(n), Stays(n),
           \/ BecomeLeader(n) \/ UndoAcquire(n) \/ AcquireFails(n) \/ RenewSettles(n)
           \/ LoseLeadership(n) \/ StopSettles(n) \/ UndoSettles(n)
    PROVE  Restarted(n)' /\ Stays(n)'
<1>c. ChanType /\ lockId \in [Node -> Token] BY DEF TypeOK, ChanType
<1>1. CASE BecomeLeader(n)
  <2>1. Consumed(n) BY <1>1, <1>c, AnsweredFacts DEF BecomeLeader
  <2>2. running' = running /\ isLeader'[n] /\ renewTimer'[n] # Off
    BY <1>1, LeaderAssumption DEF BecomeLeader, Off, TypeOK
  <2> QED BY <2>1, <2>2, StaysConsumed DEF Stays
<1>2. CASE UndoAcquire(n)
  <2>1. ~running'[n] BY <1>2 DEF UndoAcquire, service
  <2> QED BY <2>1 DEF Restarted, Stays
<1>3. CASE AcquireFails(n)
  <2>1. Consumed(n) BY <1>3, <1>c, AnsweredFacts DEF AcquireFails
  <2>2. running' = running BY <1>3 DEF AcquireFails, service
  <2>3. running[n] => retryTimer'[n] BY <1>3 DEF AcquireFails, SetRetryTimer, TypeOK
  <2> QED BY <2>1, <2>2, <2>3, StaysConsumed DEF Stays
<1>4. CASE RenewSettles(n) \/ UndoSettles(n)
  <2>1. chan[n][1].op # "acquire" /\ Consumed(n)
    <3>1. CASE RenewSettles(n) BY <3>1, <1>c, AnsweredFacts DEF RenewSettles
    <3>2. CASE UndoSettles(n) BY <3>2, <1>c, AnsweredFacts DEF UndoSettles
    <3> QED BY <1>4, <3>1, <3>2
  <2>2. UNCHANGED <<alive, service, timers>> BY <1>4 DEF RenewSettles, UndoSettles
  <2>3. Restarted(n)' BY <2>1, <2>2, StaysConsumed DEF service
  <2>4. (\E i \in DOMAIN chan[n] : chan[n][i].op = "acquire")
          => \E i \in DOMAIN chan'[n] : chan'[n][i].op = "acquire"
    BY <2>1, <2>2, StaysConsumed DEF service
  <2> QED BY <2>2, <2>3, <2>4 DEF Stays, service, timers
<1>5. CASE LoseLeadership(n)
  <2>1. Consumed(n) BY <1>5, <1>c, AnsweredFacts DEF LoseLeadership
  <2>2. running' = running BY <1>5 DEF LoseLeadership
  <2>3. running[n] => retryTimer'[n] BY <1>5 DEF LoseLeadership, SetRetryTimer, TypeOK
  <2> QED BY <2>1, <2>2, <2>3, StaysConsumed DEF Stays
<1>6. CASE StopSettles(n)
  <2>1. chan[n][1].op = "release" /\ Consumed(n) BY <1>6, <1>c, AnsweredFacts DEF StopSettles
  <2>2. running' = running BY <1>6 DEF StopSettles
  <2> QED BY <2>1, <2>2, StaysConsumed DEF Stays
<1> QED BY <1>1, <1>2, <1>3, <1>4, <1>5, <1>6

\* Every step keeps every running service in the election.
LEMMA StaysStep ==
    ASSUME TypeOK, \A n \in Node : Restarted(n) /\ Stays(n), [Next]_vars
    PROVE  \A n \in Node : Restarted(n)' /\ Stays(n)'
<1>c. ChanType BY DEF TypeOK, ChanType
<1>1. ASSUME NEW n \in Node, Progress(n) \/ Disturbance(n), NEW m \in Node
      PROVE  Restarted(m)' /\ Stays(m)'
  <2>1. CASE m # n BY <1>1, <2>1, LoopOthers, StaysUndisturbed
  <2>2. CASE m = n
    BY <1>1, <2>2, StaysSends, StaysAnswers, StaysHandlers DEF Progress, Disturbance
  <2> QED BY <2>1, <2>2
<1>2. ASSUME Tick, NEW m \in Node PROVE Restarted(m)' /\ Stays(m)'
  <2>1. renewTimer'[m] = Off <=> renewTimer[m] = Off BY <1>2 DEF Tick, Off, TypeOK
  <2> QED
    BY <1>2, <1>c, <2>1, TickEffect, StaysUndisturbed DEF Tick, Undisturbed, service
<1>3. ASSUME UNCHANGED vars, NEW m \in Node PROVE Restarted(m)' /\ Stays(m)'
  BY <1>3, StaysUndisturbed DEF vars, Undisturbed, service, timers
<1> QED BY <1>1, <1>2, <1>3 DEF Next

\* For any number of services, any delays, failures, crashes and restarts, a start() in the
\* middle of a stop() included: a running service never falls out of the election.
THEOREM NeverOut == Spec => []NeverDropsOut
<1> DEFINE SInv == TypeOK /\ \A n \in Node : Restarted(n) /\ Stays(n)
<1>1. Init => SInv
  <2> SUFFICES ASSUME Init PROVE SInv OBVIOUS
  <2>1. TypeOK BY Initially
  <2>2. \A n \in Node : ~running[n] BY DEF Init
  <2> QED BY <2>1, <2>2 DEF Restarted, Stays
<1>2. SInv /\ [Next]_vars => SInv' BY TypeStep, StaysStep
<1>3. SInv => NeverDropsOut BY DEF Stays, NeverDropsOut, InFlight
<1> QED BY <1>1, <1>2, <1>3, PTL DEF Spec

-----------------------------------------------------------------------------
(* A stopped service leaves no lock behind. *)

\* The key holds a lock id of this process.
Mine(n) == lock.owner \in {n} \X Serial

\* While a service leads or is being stopped, what it has in flight carries its present lock id.
Present(n) == isLeader[n] => \A i \in DOMAIN chan[n] : chan[n][i].token = lockId[n]

\* A leader is told that its lock is gone only when the key holds none of its lock ids.
Denied(n) ==
    isLeader[n] /\ (\E i \in DOMAIN chan[n] : chan[n][i].op = "renew" /\ chan[n][i].reply = "no")
        => ~Mine(n)

\* Whoever holds the key knows it, or is about to be told, or has a RELEASE for it on its way.
Granted(n) ==
    lock.owner = lockId[n] /\ \E i \in DOMAIN chan[n] : chan[n][i].op = "acquire" /\ chan[n][i].reply = "yes"
Returned(n) ==
    \E i \in DOMAIN chan[n] :
        chan[n][i].op \in {"release", "undo"} /\ chan[n][i].reply = "none" /\ chan[n][i].token = lock.owner
Covered(n) == lock.owner = lockId[n] /\ running[n] /\ isLeader[n]

Owed(n) == Mine(n) => Granted(n) \/ Returned(n) \/ Covered(n)

\* What holds as long as no command has failed and no process has crashed.
Calm(n) ==
    /\ alive[n]
    /\ \A i \in DOMAIN chan[n] : chan[n][i].reply # "error"
    /\ Present(n) /\ Denied(n) /\ Owed(n)

\* The key that a script or the clock leaves to a process it did not serve.
LEMMA CalmUntouched ==
    ASSUME NEW m \in Node, Calm(m), Mine(m)' => lock'.owner = lock.owner,
           DOMAIN chan'[m] = DOMAIN chan[m],
           \A j \in DOMAIN chan[m] :
              /\ chan'[m][j].op = chan[m][j].op
              /\ chan'[m][j].token = chan[m][j].token
              /\ chan'[m][j].reply = chan[m][j].reply,
           alive'[m] = alive[m], running'[m] = running[m], isLeader'[m] = isLeader[m],
           lockId'[m] = lockId[m]
    PROVE  Calm(m)'
<1>1. Mine(m)' => Mine(m) /\ lock'.owner = lock.owner BY DEF Mine
<1>2. alive'[m] /\ \A i \in DOMAIN chan'[m] : chan'[m][i].reply # "error" BY DEF Calm
<1>3. Present(m)' BY DEF Calm, Present
<1>4. Denied(m)'
  <2> SUFFICES ASSUME isLeader[m], NEW i \in DOMAIN chan[m],
                      chan[m][i].op = "renew", chan[m][i].reply = "no"
               PROVE  ~Mine(m)'
    BY DEF Denied
  <2> QED BY <1>1 DEF Calm, Denied
<1>5. Owed(m)'
  <2> SUFFICES ASSUME Mine(m)' PROVE (Granted(m) \/ Returned(m) \/ Covered(m))'
    BY DEF Owed
  <2>1. lock'.owner = lock.owner /\ (Granted(m) \/ Returned(m) \/ Covered(m))
    BY <1>1 DEF Calm, Owed
  <2>2. CASE Granted(m)
    <3>1. PICK i \in DOMAIN chan[m] : chan[m][i].op = "acquire" /\ chan[m][i].reply = "yes"
      BY <2>2 DEF Granted
    <3>2. chan'[m][i].op = "acquire" /\ chan'[m][i].reply = "yes" BY <3>1
    <3> QED BY <2>1, <2>2, <3>2 DEF Granted
  <2>3. CASE Returned(m)
    <3>1. PICK i \in DOMAIN chan[m] :
             /\ chan[m][i].op \in {"release", "undo"} /\ chan[m][i].reply = "none"
             /\ chan[m][i].token = lock.owner
      BY <2>3 DEF Returned
    <3>2. /\ chan'[m][i].op \in {"release", "undo"} /\ chan'[m][i].reply = "none"
          /\ chan'[m][i].token = lock'.owner
      BY <2>1, <3>1
    <3> QED BY <3>2 DEF Returned
  <2>4. CASE Covered(m) BY <2>1, <2>4 DEF Covered
  <2> QED BY <2>1, <2>2, <2>3, <2>4
<1> QED BY <1>2, <1>3, <1>4, <1>5 DEF Calm

\* A lock id is no NoToken.
LEMMA MineIsHeld == ASSUME NEW n \in Node, Mine(n) PROVE lock.owner # NoToken /\ lock.owner[1] = n
  BY LeaderAssumption DEF Mine

\* A script leaves the key alone, sets the caller's token or frees the key.
LEMMA ScriptOwner ==
    ASSUME NEW key, NEW command
    PROVE  LET answer == Script(key, command) IN
           /\ \/ answer.key = key
              \/ command.op = "acquire" /\ answer.granted /\ answer.key.owner = command.token
              \/ command.op = "renew" /\ answer.granted /\ answer.key.owner = command.token
                    /\ key.owner = command.token
              \/ answer.key.owner = NoToken
           /\ command.op = "renew" /\ ~answer.granted => key.owner # command.token /\ answer.key = key
           /\ command.op \notin {"acquire", "renew"} =>
                 key.owner # command.token \/ answer.key.owner = NoToken
<1>1. CASE command.op = "acquire" BY <1>1 DEF Script, Acquire, Held
<1>2. CASE command.op = "renew" BY <1>2 DEF Script, Renew, Held
<1>3. CASE command.op # "acquire" /\ command.op # "renew" BY <1>3 DEF Script, Release, Free
<1> QED BY <1>1, <1>2, <1>3

\* The steps of the other processes: their scripts carry other tokens.
LEMMA CalmOthers ==
    ASSUME TypeOK, NEW n \in Node, Own(n), Progress(n) \/ Disturbance(n),
           NEW m \in Node, m # n, Calm(m)
    PROVE  Calm(m)'
<1>1. /\ chan'[m] = chan[m] /\ alive'[m] = alive[m] /\ running'[m] = running[m]
      /\ isLeader'[m] = isLeader[m] /\ lockId'[m] = lockId[m]
  BY ChanOthers
<1>2. Mine(m)' => lock'.owner = lock.owner
  <2>1. CASE Execute(n)
    <3>1. PICK i \in DOMAIN chan[n] : lock' = Script(lock, chan[n][i]).key BY <2>1 DEF Execute
    <3>2. chan[n][i].token[1] = n BY DEF Own
    <3>3. Mine(m)' => lock'.owner # NoToken /\ lock'.owner[1] = m BY LeaderAssumption DEF Mine
    <3>4. \/ lock' = lock \/ lock'.owner = chan[n][i].token \/ lock'.owner = NoToken
      BY <3>1, ScriptOwner
    <3> QED BY <3>2, <3>3, <3>4
  <2>2. CASE ~Execute(n) BY <2>2, LockKept
  <2> QED BY <2>1, <2>2
<1> QED BY <1>1, <1>2, CalmUntouched

\* The clock can only free the key.
LEMMA CalmTick ==
    ASSUME TypeOK, Tick, NEW m \in Node, Calm(m)
    PROVE  Calm(m)'
<1>c. ChanType BY DEF TypeOK, ChanType
<1>1. UNCHANGED <<alive, running, isLeader, lockId>> BY DEF Tick, service
<1>2. /\ DOMAIN chan'[m] = DOMAIN chan[m]
      /\ \A j \in DOMAIN chan[m] :
            /\ chan'[m][j].op = chan[m][j].op
            /\ chan'[m][j].token = chan[m][j].token
            /\ chan'[m][j].reply = chan[m][j].reply
  BY <1>c, TickEffect
<1>3. lock'.owner = lock.owner \/ lock'.owner = NoToken
  <2>1. lock \in Keys(Token) /\ lock' = Aged(lock) BY DEF TypeOK, Tick
  <2> QED BY <2>1 DEF Aged, Free, Keys
<1>4. Mine(m)' => lock'.owner = lock.owner
  <2>1. Mine(m)' => lock'.owner # NoToken BY LeaderAssumption DEF Mine
  <2> QED BY <1>3, <2>1
<1> QED BY <1>1, <1>2, <1>4, CalmUntouched

\* Redis runs a command of the process itself.
LEMMA CalmExecute ==
    ASSUME TypeOK, NEW n \in Node, Own(n), Loop(n), Calm(n), Execute(n)
    PROVE  Calm(n)'
<1>c. ChanType BY DEF TypeOK, ChanType
<1>1. PICK i \in DOMAIN chan[n] : /\ FirstUnanswered(n, i)
                                  /\ lock' = Script(lock, chan[n][i]).key
                                  /\ Replied(n, i, Answer(Script(lock, chan[n][i]).granted))
  BY DEF Execute, Replied
<1>2. PICK granted \in BOOLEAN : granted <=> Script(lock, chan[n][i]).granted
  OBVIOUS
<1>3. /\ DOMAIN chan'[n] = DOMAIN chan[n]
      /\ \A j \in DOMAIN chan[n] :
            /\ chan'[n][j].op = chan[n][j].op
            /\ chan'[n][j].token = chan[n][j].token
            /\ j # i => chan'[n][j].reply = chan[n][j].reply
      /\ chan'[n][i].reply = Answer(granted) /\ chan[n][i].reply = "none"
  <2>1. Answer(Script(lock, chan[n][i]).granted) \in {"none", "yes", "no", "error"} BY AnswerType
  <2>2. Answer(Script(lock, chan[n][i]).granted) = Answer(granted) BY <1>2 DEF Answer
  <2>3. chan[n][i].reply = "none" BY <1>1 DEF FirstUnanswered
  <2>4. Replied(n, i, Answer(Script(lock, chan[n][i]).granted)) BY <1>1
  <2> QED BY <1>c, <2>1, <2>2, <2>3, <2>4, AnswerEffect
<1>4. UNCHANGED <<alive, running, isLeader, lockId>> BY DEF Execute, service
<1>5. /\ \/ lock' = lock
         \/ chan[n][i].op = "acquire" /\ granted /\ lock'.owner = chan[n][i].token
         \/ chan[n][i].op = "renew" /\ granted /\ lock'.owner = chan[n][i].token
               /\ lock.owner = chan[n][i].token
         \/ lock'.owner = NoToken
      /\ chan[n][i].op = "renew" /\ ~granted => lock.owner # chan[n][i].token /\ lock' = lock
      /\ chan[n][i].op \notin {"acquire", "renew"} =>
            lock.owner # chan[n][i].token \/ lock'.owner = NoToken
  BY <1>1, <1>2, ScriptOwner
<1>6. Mine(n)' => lock'.owner # NoToken BY LeaderAssumption DEF Mine
<1>7. alive'[n] /\ \A j \in DOMAIN chan'[n] : chan'[n][j].reply # "error"
  <2>1. Answer(granted) # "error" BY DEF Answer
  <2> QED BY <1>3, <1>4, <2>1 DEF Calm
<1>8. Present(n)' BY <1>3, <1>4 DEF Calm, Present
<1>9. Owed(n)'
  <2> SUFFICES ASSUME Mine(n)' PROVE (Granted(n) \/ Returned(n) \/ Covered(n))'
    BY DEF Owed
  <2>1. CASE chan[n][i].op = "acquire" /\ granted /\ lock'.owner = chan[n][i].token
    <3>1. chan[n][i].token = lockId[n] BY <2>1 DEF Loop, LoopAcquire
    <3>2. chan'[n][i].op = "acquire" /\ chan'[n][i].reply = "yes" BY <1>3, <2>1 DEF Answer
    <3> QED BY <1>3, <1>4, <2>1, <3>1, <3>2 DEF Granted
  <2>2. CASE /\ lock'.owner = lock.owner
             /\ ~(chan[n][i].op = "acquire" /\ granted /\ lock'.owner = chan[n][i].token)
    <3>1. Granted(n) \/ Returned(n) \/ Covered(n) BY <2>2 DEF Calm, Owed, Mine
    <3>2. CASE Granted(n)
      <4>1. PICK j \in DOMAIN chan[n] : chan[n][j].op = "acquire" /\ chan[n][j].reply = "yes"
        BY <3>2 DEF Granted
      <4>2. chan'[n][j].op = "acquire" /\ chan'[n][j].reply = "yes" BY <1>3, <4>1
      <4> QED BY <1>3, <1>4, <2>2, <3>2, <4>2 DEF Granted
    <3>3. CASE Returned(n)
      <4>1. PICK j \in DOMAIN chan[n] :
               /\ chan[n][j].op \in {"release", "undo"} /\ chan[n][j].reply = "none"
               /\ chan[n][j].token = lock.owner
        BY <3>3 DEF Returned
      <4>2. j # i BY <1>5, <1>6, <2>2, <4>1
      <4>3. /\ chan'[n][j].op \in {"release", "undo"} /\ chan'[n][j].reply = "none"
            /\ chan'[n][j].token = lock'.owner
        BY <1>3, <2>2, <4>1, <4>2
      <4> QED BY <1>3, <4>3 DEF Returned
    <3>4. CASE Covered(n) BY <1>4, <2>2, <3>4 DEF Covered
    <3> QED BY <3>1, <3>2, <3>3, <3>4
  <2> QED BY <1>5, <1>6, <2>1, <2>2
<1>10. Denied(n)'
  <2> SUFFICES ASSUME isLeader[n], NEW j \in DOMAIN chan[n], Mine(n)',
                      chan'[n][j].op = "renew", chan'[n][j].reply = "no"
               PROVE  FALSE
    BY <1>3, <1>4 DEF Denied
  <2>1. \A k \in DOMAIN chan[n] : chan[n][k].op # "acquire" BY DEF Loop, LoopAcquire
  <2>2. lock'.owner = lock.owner BY <1>5, <1>6, <2>1
  <2>3. Mine(n) BY <2>2 DEF Mine
  <2>4. CASE j # i
    <3>1. chan[n][j].op = "renew" /\ chan[n][j].reply = "no" BY <1>3, <2>4
    <3> QED BY <2>3, <3>1 DEF Calm, Denied
  <2>5. CASE j = i
    <3>1. chan[n][i].op = "renew" /\ ~granted BY <1>3, <2>5 DEF Answer
    <3>2. lock.owner # lockId[n] BY <1>5, <3>1 DEF Calm, Present
    <3>3. Returned(n) BY <2>3, <3>2 DEF Calm, Owed, Granted, Covered
    <3>4. lock.owner = lockId[n] BY <3>3 DEF Returned, Calm, Present
    <3> QED BY <3>2, <3>4
  <2> QED BY <2>4, <2>5
<1> QED BY <1>7, <1>8, <1>9, <1>10 DEF Calm

\* A command sent carries the present lock id and disturbs no other.
LEMMA CalmAppended ==
    ASSUME NEW n \in Node, NEW op \in {"acquire", "renew", "release", "undo"}, Calm(n),
           Appended(n, Sent(op, lockId[n])), lock' = lock,
           alive'[n] = alive[n], isLeader'[n] = isLeader[n], lockId'[n] = lockId[n],
           Covered(n) => running'[n] \/ op = "release"
    PROVE  Calm(n)'
<1>1. LET c == Sent(op, lockId[n]) IN c.op = op /\ c.token = lockId[n] /\ c.reply = "none"
  BY DEF Sent
<1>2. /\ \A i \in DOMAIN chan'[n] : \/ i \in DOMAIN chan[n] /\ chan'[n][i] = chan[n][i]
                                    \/ i = Len(chan'[n]) /\ chan'[n][i] = Sent(op, lockId[n])
      /\ \A i \in DOMAIN chan[n] : i \in DOMAIN chan'[n] /\ chan'[n][i] = chan[n][i]
      /\ Len(chan'[n]) \in DOMAIN chan'[n] /\ chan'[n][Len(chan'[n])] = Sent(op, lockId[n])
  BY AppendedFacts
<1>3. alive'[n] /\ \A i \in DOMAIN chan'[n] : chan'[n][i].reply # "error" BY <1>1, <1>2 DEF Calm
<1>4. Present(n)' BY <1>1, <1>2 DEF Calm, Present
<1>5. Denied(n)'
  <2> SUFFICES ASSUME isLeader[n], NEW i \in DOMAIN chan'[n],
                      chan'[n][i].op = "renew", chan'[n][i].reply = "no"
               PROVE  ~Mine(n)
    BY DEF Denied, Mine
  <2>1. i \in DOMAIN chan[n] /\ chan[n][i].op = "renew" /\ chan[n][i].reply = "no" BY <1>1, <1>2
  <2> QED BY <2>1 DEF Calm, Denied
<1>6. Owed(n)'
  <2> SUFFICES ASSUME Mine(n) PROVE (Granted(n) \/ Returned(n) \/ Covered(n))'
    BY DEF Owed, Mine
  <2>1. Granted(n) \/ Returned(n) \/ Covered(n) BY DEF Calm, Owed
  <2>2. CASE Granted(n) BY <1>2, <2>2 DEF Granted
  <2>3. CASE Returned(n) BY <1>2, <2>3 DEF Returned
  <2>4. CASE Covered(n)
    <3>1. CASE op = "release" BY <1>1, <1>2, <2>4, <3>1 DEF Covered, Returned
    <3>2. CASE op # "release" BY <2>4, <3>2 DEF Covered
    <3> QED BY <3>1, <3>2
  <2> QED BY <2>1, <2>2, <2>3, <2>4
<1> QED BY <1>3, <1>4, <1>5, <1>6 DEF Calm

\* What the callers and the timers make a service send.
LEMMA CalmSends ==
    ASSUME TypeOK, RestartWhen = "quiet", NEW n \in Node, Loop(n), Calm(n),
           Start(n) \/ Stop(n) \/ RetryFires(n) \/ RenewFires(n)
    PROVE  Calm(n)'
<1>c. ChanType /\ lockId \in [Node -> Token] BY DEF TypeOK, ChanType
<1>s. ASSUME NEW op \in {"acquire", "renew", "release", "undo"}, Send(n, op)
      PROVE  Appended(n, Sent(op, lockId[n]))
  BY <1>c, <1>s, SendEffect DEF Appended
<1>1. CASE Start(n)
  <2>1. /\ Appended(n, Sent("acquire", lockId[n])) /\ running'[n]
        /\ UNCHANGED <<lock, alive, isLeader, lockId>>
    BY <1>1, <1>s DEF Start, TypeOK
  <2> QED BY <2>1, CalmAppended
<1>2. CASE Stop(n)
  <2>1. UNCHANGED <<lock, alive, isLeader, lockId>> BY <1>2 DEF Stop
  <2>2. CASE isLeader[n]
    <3>1. Appended(n, Sent("release", lockId[n])) BY <1>2, <1>s, <2>2 DEF Stop
    <3> QED BY <2>1, <3>1, CalmAppended
  <2>3. CASE ~isLeader[n]
    <3>1. chan' = chan BY <1>2, <2>3 DEF Stop
    <3>2. alive'[n] /\ \A i \in DOMAIN chan'[n] : chan'[n][i].reply # "error"
      BY <2>1, <3>1 DEF Calm
    <3>3. Present(n)' /\ Denied(n)' BY <2>1, <2>3 DEF Present, Denied
    <3>4. Owed(n)' BY <2>1, <2>3, <3>1 DEF Calm, Owed, Mine, Granted, Returned, Covered
    <3> QED BY <3>2, <3>3, <3>4 DEF Calm
  <2> QED BY <2>2, <2>3
<1>3. CASE RetryFires(n)
  <2>1. UNCHANGED <<lock, alive, running, isLeader, lockId>> BY <1>3 DEF RetryFires, service
  <2>2. running[n] BY <1>3 DEF RetryFires, Loop, LoopTimers
  <2>3. Appended(n, Sent("acquire", lockId[n])) BY <1>3, <1>s, <2>2 DEF RetryFires
  <2> QED BY <2>1, <2>2, <2>3, CalmAppended
<1>4. CASE RenewFires(n)
  <2>1. UNCHANGED <<lock, alive, running, isLeader, lockId>> BY <1>4 DEF RenewFires, service
  <2>2. running[n] BY <1>4 DEF RenewFires, Loop, LoopTimers, Off
  <2>3. Appended(n, Sent("renew", lockId[n])) BY <1>4, <1>s, <2>2 DEF RenewFires
  <2> QED BY <2>1, <2>2, <2>3, CalmAppended
<1> QED BY <1>1, <1>2, <1>3, <1>4

\* The head of a channel is answered before it is consumed: no RELEASE on its way is lost.
LEMMA CalmConsumed ==
    ASSUME NEW n \in Node, Consumed(n), Calm(n), chan[n][1].reply # "none", lock' = lock,
           alive'[n] = alive[n], isLeader'[n] => isLeader[n], lockId'[n] = lockId[n],
           Granted(n) => chan[n][1].op # "acquire",
           Covered(n) => Covered(n)'
    PROVE  Calm(n)'
<1>1. /\ \A i \in DOMAIN chan'[n] : i + 1 \in DOMAIN chan[n] /\ chan'[n][i] = chan[n][i + 1]
      /\ \A i \in DOMAIN chan[n] : i # 1 => i - 1 \in DOMAIN chan'[n] /\ chan'[n][i - 1] = chan[n][i]
  BY ConsumedFacts
<1>2. alive'[n] /\ \A i \in DOMAIN chan'[n] : chan'[n][i].reply # "error" BY <1>1 DEF Calm
<1>3. Present(n)' BY <1>1 DEF Calm, Present
<1>4. Denied(n)'
  <2> SUFFICES ASSUME isLeader[n], NEW i \in DOMAIN chan'[n],
                      chan'[n][i].op = "renew", chan'[n][i].reply = "no"
               PROVE  ~Mine(n)
    BY DEF Denied, Mine
  <2>1. i + 1 \in DOMAIN chan[n] /\ chan[n][i + 1].op = "renew" /\ chan[n][i + 1].reply = "no"
    BY <1>1
  <2> QED BY <2>1 DEF Calm, Denied
<1>5. Owed(n)'
  <2> SUFFICES ASSUME Mine(n) PROVE (Granted(n) \/ Returned(n) \/ Covered(n))'
    BY DEF Owed, Mine
  <2>1. Granted(n) \/ Returned(n) \/ Covered(n) BY DEF Calm, Owed
  <2>2. CASE Granted(n)
    <3>1. PICK i \in DOMAIN chan[n] : chan[n][i].op = "acquire" /\ chan[n][i].reply = "yes"
      BY <2>2 DEF Granted
    <3>2. i # 1 BY <2>2, <3>1
    <3>3. i - 1 \in DOMAIN chan'[n] /\ chan'[n][i - 1] = chan[n][i] BY <1>1, <3>2
    <3> QED BY <2>2, <3>1, <3>3 DEF Granted
  <2>3. CASE Returned(n)
    <3>1. PICK i \in DOMAIN chan[n] :
             /\ chan[n][i].op \in {"release", "undo"} /\ chan[n][i].reply = "none"
             /\ chan[n][i].token = lock.owner
      BY <2>3 DEF Returned
    <3>2. i # 1 BY <3>1
    <3>3. i - 1 \in DOMAIN chan'[n] /\ chan'[n][i - 1] = chan[n][i] BY <1>1, <3>2
    <3> QED BY <3>1, <3>3 DEF Returned
  <2>4. CASE Covered(n) BY <2>4
  <2> QED BY <2>1, <2>2, <2>3, <2>4
<1> QED BY <1>2, <1>3, <1>4, <1>5 DEF Calm

\* A service without a command in flight that does not lead holds nothing.
LEMMA CalmIdle ==
    ASSUME NEW n \in Node, alive'[n], DOMAIN chan'[n] = {}, Mine(n)' => Covered(n)'
    PROVE  Calm(n)'
  BY DEF Calm, Present, Denied, Owed

\* The continuations of the awaits.
LEMMA CalmHandlers ==
    ASSUME TypeOK, NEW n \in Node, Loop(n), Calm(n),
           \/ BecomeLeader(n) \/ UndoAcquire(n) \/ AcquireFails(n) \/ RenewSettles(n)
           \/ LoseLeadership(n) \/ StopSettles(n) \/ UndoSettles(n)
    PROVE  Calm(n)'
<1>c. ChanType /\ lockId \in [Node -> Token] BY DEF TypeOK, ChanType
<1>a. ASSUME chan[n][1].op = "acquire", 1 \in DOMAIN chan[n], Mine(n)
      PROVE  /\ ~isLeader[n] /\ Len(chan[n]) = 1
             /\ chan[n][1].reply \in {"none", "yes"}
             /\ chan[n][1].reply = "yes" => lock.owner = lockId[n]
  <2>1. ~isLeader[n] /\ Len(chan[n]) = 1 BY <1>a DEF Loop, LoopAcquire
  <2>2. DOMAIN chan[n] = {1}
    <3>1. chan[n] \in Seq(Command) BY <1>c DEF ChanType
    <3> QED BY <2>1, <3>1
  <2>3. Granted(n) BY <1>a, <2>1, <2>2 DEF Calm, Owed, Returned, Covered
  <2> QED BY <2>1, <2>2, <2>3 DEF Granted
<1>1. CASE BecomeLeader(n)
  <2>1. chan[n][1].op = "acquire" /\ chan[n][1].reply = "yes" /\ 1 \in DOMAIN chan[n] /\ Consumed(n)
    BY <1>1, <1>c, AnsweredFacts DEF BecomeLeader
  <2>2. DOMAIN chan'[n] = {} BY <2>1, LastAcquire DEF Loop
  <2>3. running'[n] /\ isLeader'[n] /\ UNCHANGED <<lock, alive, lockId>>
    BY <1>1 DEF BecomeLeader, TypeOK
  <2>4. Mine(n) => lock.owner = lockId[n] BY <1>a, <2>1
  <2>5. Mine(n)' => Covered(n)' BY <2>3, <2>4 DEF Mine, Covered
  <2> QED BY <2>2, <2>3, <2>5, CalmIdle DEF Calm
<1>2. CASE UndoAcquire(n)
  <2>1. /\ chan[n][1].op = "acquire" /\ chan[n][1].reply = "yes" /\ 1 \in DOMAIN chan[n]
    BY <1>2, <1>c, AnsweredFacts DEF UndoAcquire
  <2>2. Len(chan[n]) = 1 /\ ~isLeader[n] BY <2>1 DEF Loop, LoopAcquire
  <2>3. DOMAIN chan'[n] = {1} /\ chan'[n][1] = Sent("undo", lockId[n])
    BY <1>2, <1>c, <2>2, UndoneFacts
  <2>4. UNCHANGED <<lock, alive, isLeader, lockId>> BY <1>2 DEF UndoAcquire, service
  <2>5. /\ Sent("undo", lockId[n]).op = "undo" /\ Sent("undo", lockId[n]).reply = "none"
        /\ Sent("undo", lockId[n]).token = lockId[n]
    BY DEF Sent
  <2>6. Mine(n) => lock.owner = lockId[n] BY <1>a, <2>1
  <2>7. Mine(n)' => Returned(n)' BY <2>3, <2>4, <2>5, <2>6 DEF Mine, Returned
  <2>8. alive'[n] /\ \A i \in DOMAIN chan'[n] : chan'[n][i].reply # "error"
    BY <2>3, <2>4, <2>5 DEF Calm
  <2> QED BY <2>2, <2>4, <2>7, <2>8 DEF Calm, Present, Denied, Owed
<1>3. CASE AcquireFails(n)
  <2>1. /\ chan[n][1].op = "acquire" /\ chan[n][1].reply \in {"no", "error"}
        /\ 1 \in DOMAIN chan[n] /\ Consumed(n)
    BY <1>3, <1>c, AnsweredFacts DEF AcquireFails
  <2>2. DOMAIN chan'[n] = {} BY <2>1, LastAcquire DEF Loop
  <2>3. UNCHANGED <<lock, alive>> BY <1>3 DEF AcquireFails
  <2>4. ~Mine(n) BY <1>a, <2>1
  <2>5. ~Mine(n)' BY <2>3, <2>4 DEF Mine
  <2> QED BY <2>2, <2>3, <2>5, CalmIdle DEF Calm
<1>4. CASE RenewSettles(n) \/ UndoSettles(n)
  <2>1. chan[n][1].op # "acquire" /\ chan[n][1].reply # "none" /\ Consumed(n)
    <3>1. CASE RenewSettles(n) BY <3>1, <1>c, AnsweredFacts DEF RenewSettles
    <3>2. CASE UndoSettles(n) BY <3>2, <1>c, AnsweredFacts DEF UndoSettles
    <3> QED BY <1>4, <3>1, <3>2
  <2>2. UNCHANGED <<lock, alive, running, isLeader, lockId>>
    BY <1>4 DEF RenewSettles, UndoSettles, service
  <2>3. Covered(n) => Covered(n)' BY <2>2 DEF Covered
  <2> QED BY <2>1, <2>2, <2>3, CalmConsumed
<1>5. CASE LoseLeadership(n)
  <2>1. /\ chan[n][1].op = "renew" /\ chan[n][1].reply = "no" /\ 1 \in DOMAIN chan[n]
        /\ Consumed(n) /\ isLeader[n]
    BY <1>5, <1>c, AnsweredFacts DEF LoseLeadership, Calm
  <2>2. ~Mine(n) BY <2>1 DEF Calm, Denied
  <2>3. ~isLeader'[n] /\ UNCHANGED <<lock, alive>> BY <1>5 DEF LoseLeadership, TypeOK
  <2>4. ~Mine(n)' BY <2>2, <2>3 DEF Mine
  <2>5. alive'[n] /\ \A i \in DOMAIN chan'[n] : chan'[n][i].reply # "error"
    BY <2>1, <2>3, ConsumedFacts DEF Calm
  <2> QED BY <2>3, <2>4, <2>5 DEF Calm, Present, Denied, Owed
<1>6. CASE StopSettles(n)
  <2>1. /\ chan[n][1].op = "release" /\ chan[n][1].reply # "none" /\ 1 \in DOMAIN chan[n]
        /\ Consumed(n)
    BY <1>6, <1>c, AnsweredFacts DEF StopSettles
  <2>2. ~running[n] BY <2>1 DEF Loop, LoopRelease
  <2>3. ~isLeader'[n] /\ UNCHANGED <<lock, alive, lockId>> BY <1>6 DEF StopSettles, TypeOK
  <2>4. ~Covered(n) BY <2>2 DEF Covered
  <2> QED BY <2>1, <2>3, <2>4, CalmConsumed
<1> QED BY <1>1, <1>2, <1>3, <1>4, <1>5, <1>6

\* Every step without a failure keeps account of the key.
LEMMA CalmStep ==
    ASSUME TypeOK, RestartWhen = "quiet", \A n \in Node : Own(n) /\ Loop(n),
           faults = 0 => \A n \in Node : Calm(n), [Next]_vars, faults' = 0
    PROVE  \A n \in Node : Calm(n)'
<1>1. ASSUME NEW n \in Node, Progress(n) \/ Disturbance(n), NEW m \in Node PROVE Calm(m)'
  <2>1. ~Fault BY DEF Fault, TypeOK
  <2>2. /\ faults = 0
        /\ ~Refuse(n) /\ ~Flush(n) /\ ~Resend(n) /\ ~Crash(n)
    <3>1. ~Refuse(n) /\ ~Flush(n) /\ ~Resend(n) /\ ~Crash(n)
      BY <2>1 DEF Refuse, Flush, Resend, Crash
    <3>2. UNCHANGED faults
      BY <1>1, <3>1 DEF Progress, Disturbance, Start, Stop, RetryFires, RenewFires, LostRenewFires,
         Execute, Disconnect, BecomeLeader, UndoAcquire, AcquireFails, RenewSettles,
         LoseLeadership, StopSettles, UndoSettles, budget
    <3> QED BY <3>1, <3>2
  <2>3. \A k \in Node : Calm(k) BY <2>2
  <2>4. CASE m # n BY <1>1, <2>3, <2>4, CalmOthers
  <2>5. CASE m = n
    <3>1. ~Disconnect(n) BY <2>3 DEF Disconnect, Calm
    <3>2. ~LostRenewFires(n)
      <4>1. lostRenewTimers[n] = 0 BY DEF Loop, LoopTimers
      <4> QED BY <4>1 DEF LostRenewFires
    <3> QED
      BY <1>1, <2>2, <2>3, <2>5, <3>1, <3>2, CalmExecute, CalmSends, CalmHandlers
         DEF Progress, Disturbance
  <2> QED BY <2>4, <2>5
<1>2. ASSUME Tick, NEW m \in Node PROVE Calm(m)'
  <2>1. faults = 0 BY <1>2 DEF Tick, budget
  <2> QED BY <1>2, <2>1, CalmTick
<1>3. ASSUME UNCHANGED vars, NEW m \in Node PROVE Calm(m)'
  <2>1. UNCHANGED <<lock, chan, alive, running, isLeader, lockId, faults>>
    BY <1>3 DEF vars, service, budget
  <2> QED BY <2>1, CalmUntouched
<1> QED BY <1>1, <1>2, <1>3 DEF Next

\* For any number of services and any delays: when restarts are quiet and nothing has failed,
\* a stopped service that has settled leaves no lock of its own behind.
THEOREM NothingLeft == ASSUME RestartWhen = "quiet" PROVE Spec => []StoppedLeavesNothing
<1> DEFINE CInv == /\ TypeOK
                   /\ \A n \in Node : Own(n) /\ Loop(n)
                   /\ faults = 0 => \A n \in Node : Calm(n)
<1>1. Init => CInv
  <2> SUFFICES ASSUME Init PROVE CInv OBVIOUS
  <2>1. TypeOK /\ \A n \in Node : Own(n) /\ Loop(n) BY Initially
  <2>2. ASSUME NEW n \in Node PROVE Calm(n)
    <3>1. /\ alive[n] /\ DOMAIN chan[n] = {} /\ lock.owner = NoToken BY DEF Init, Free
    <3>2. ~Mine(n) BY <3>1, LeaderAssumption DEF Mine
    <3> QED BY <3>1, <3>2 DEF Calm, Present, Denied, Owed
  <2> QED BY <2>1, <2>2
<1>2. CInv /\ [Next]_vars => CInv'
  <2> SUFFICES ASSUME CInv, [Next]_vars PROVE CInv' OBVIOUS
  <2>1. TypeOK' BY TypeStep
  <2>2. \A n \in Node : Own(n)' BY OwnStep
  <2>3. \A n \in Node : Loop(n)' BY LoopStep
  <2>4. faults' = 0 => \A n \in Node : Calm(n)' BY CalmStep
  <2> QED BY <2>1, <2>2, <2>3, <2>4
<1>3. CInv => StoppedLeavesNothing
  <2> SUFFICES ASSUME CInv, NEW n \in Node, faults = 0, ~running[n], ~isLeader[n], chan[n] = <<>>
               PROVE  ~Mine(n)
    BY DEF StoppedLeavesNothing, Mine
  <2>1. DOMAIN chan[n] = {} OBVIOUS
  <2> QED BY <2>1 DEF Calm, Owed, Granted, Returned, Covered
<1> QED BY <1>1, <1>2, <1>3, PTL DEF Spec
=============================================================================
