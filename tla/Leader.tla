------------------------------- MODULE Leader -------------------------------
(***************************************************************************)
(* LeaderService (src/services/leader.ts): nodes compete for one Redis key *)
(* with a time to live.  Every process has one ioredis connection, so the  *)
(* commands of a node are executed and answered in the order it sent them; *)
(* a command can be refused, be flushed with an error although Redis ran   *)
(* it, or be sent again after a reconnection although Redis ran it.        *)
(*                                                                         *)
(* One action is one macrotask or one continuation of an await.  Time is   *)
(* discrete.  The renewal interval counts ticks; the retry timeout has no  *)
(* duration here: it may fire at any moment after it was set, which allows *)
(* every retryDelayMs.                                                     *)
(***************************************************************************)
EXTENDS RedisLock, Sequences, FiniteSets

CONSTANTS
    Node,           \* the LeaderService instances that share the key, one per process
    Serial,         \* the uuids one process draws its lock ids from: 0..k
    RenewEvery,     \* renewalIntervalMs, in ticks
    MaxDelay,       \* what a command's answer takes at most, when Timely
    Timely,         \* TRUE: answers within MaxDelay, and the event loop never stalls
    RestartWhen,    \* "any": start() as soon as running is false; "awaited": after stop()'s
                    \* promise settled; "quiet": when no command is in flight either
    \* Bounds
    MaxStarts, MaxFaults, MaxInFlight

ASSUME LeaderAssumption ==
    /\ RenewEvery \in Nat \ {0}
    /\ MaxDelay \in Nat
    /\ Timely \in BOOLEAN
    /\ RestartWhen \in {"any", "awaited", "quiet"}
    /\ Serial \subseteq Nat
    /\ NoToken \notin Node \X Nat

VARIABLES
    lock,           \* the Redis key
    chan,           \* node -> its commands without a consumed answer, in the order sent
    alive,          \* node -> the process has not crashed
    running,        \* node -> this.running
    isLeader,       \* node -> this._isLeader
    lockId,         \* node -> this.lockId
    renewTimer,     \* node -> ticks to the next firing of the interval in this.renewTimer
    lostRenewTimers,\* node -> intervals nobody holds a handle of any more
    retryTimer,     \* node -> the timeout in this.retryTimer is pending
    lostRetryTimers,\* node -> pending timeouts nobody holds a handle of any more
    starts, faults  \* how much of MaxStarts and MaxFaults is used

service == <<running, isLeader, lockId>>
timers  == <<renewTimer, lostRenewTimers, retryTimer, lostRetryTimers>>
budget  == <<starts, faults>>
vars    == <<lock, chan, alive, service, timers, budget>>

Off == -1

Token == Node \X Serial

\* "undo" is the RELEASE that tryAcquire sends when stop() overtook its ACQUIRE.
Command == [op    : {"acquire", "renew", "release", "undo"},
            token : Token,
            age   : 0..MaxDelay,
            reply : {"none", "yes", "no", "error"}]

TypeOK ==
    /\ lock \in Keys(Token)
    /\ chan \in [Node -> Seq(Command)]
    /\ alive \in [Node -> BOOLEAN]
    /\ running \in [Node -> BOOLEAN]
    /\ isLeader \in [Node -> BOOLEAN]
    /\ lockId \in [Node -> Token]
    /\ renewTimer \in [Node -> {Off} \cup 0..RenewEvery]
    /\ lostRenewTimers \in [Node -> Nat]
    /\ retryTimer \in [Node -> BOOLEAN]
    /\ lostRetryTimers \in [Node -> Nat]
    /\ starts \in Nat
    /\ faults \in Nat

-----------------------------------------------------------------------------
InFlight(n, ops) == \E i \in DOMAIN chan[n] : chan[n][i].op \in ops

Sent(op, token) == [op |-> op, token |-> token, age |-> 0, reply |-> "none"]

\* The command goes out on the node's connection, with the lock id of this moment.
Send(n, op) == chan' = [chan EXCEPT ![n] = Append(@, Sent(op, lockId[n]))]

RoomFor(n) == Len(chan[n]) < MaxInFlight

\* A leaked interval fires once in RenewEvery ticks: it never fills the room of the others.
RoomForLost(n) == Len(chan[n]) + 1 < MaxInFlight

\* setTimeout into this.retryTimer, whatever the field held before.
SetRetryTimer(n) ==
    /\ retryTimer' = [retryTimer EXCEPT ![n] = TRUE]
    /\ lostRetryTimers' = [lostRetryTimers EXCEPT ![n] = IF retryTimer[n] THEN @ + 1 ELSE @]

\* A uuid nobody has used: one that no key, field or command of this process shows.
Fresh(n, id) ==
    /\ lock.owner # <<n, id>>
    /\ lockId[n] # <<n, id>>
    /\ \A i \in DOMAIN chan[n] : chan[n][i].token # <<n, id>>

DrawLockId(n) ==
    \E id \in Serial :
        /\ Fresh(n, id)
        /\ \A lower \in Serial : lower < id => ~Fresh(n, lower)
        /\ lockId' = [lockId EXCEPT ![n] = <<n, id>>]

-----------------------------------------------------------------------------
MayRestart(n) ==
    \/ RestartWhen = "any"
    \/ RestartWhen = "awaited" /\ ~InFlight(n, {"release"})
    \/ RestartWhen = "quiet" /\ chan[n] = <<>>

\* start(), and the ACQUIRE of its first tryAcquire().
Start(n) ==
    /\ alive[n]
    /\ ~running[n]
    /\ MayRestart(n)
    /\ starts < MaxStarts
    /\ RoomFor(n)
    /\ running' = [running EXCEPT ![n] = TRUE]
    /\ Send(n, "acquire")
    /\ starts' = starts + 1
    /\ UNCHANGED <<lock, alive, isLeader, lockId, timers, faults>>

\* Mutant: stop() leaves the retry timeout armed.
StopKeepsRetry(n) ==
    /\ alive[n]
    /\ running[n] \/ isLeader[n]
    /\ running' = [running EXCEPT ![n] = FALSE]
    /\ renewTimer' = [renewTimer EXCEPT ![n] = Off]
    /\ IF isLeader[n] THEN RoomFor(n) /\ Send(n, "release") ELSE UNCHANGED chan
    /\ UNCHANGED <<lock, alive, isLeader, lockId, lostRenewTimers, retryTimer, lostRetryTimers, budget>>

\* stop(): the timers are cleared at once, the lock is given back when this node leads.
Stop(n) ==
    /\ alive[n]
    /\ running[n] \/ isLeader[n]
    /\ running' = [running EXCEPT ![n] = FALSE]
    /\ renewTimer' = [renewTimer EXCEPT ![n] = Off]
    /\ retryTimer' = [retryTimer EXCEPT ![n] = FALSE]
    /\ IF isLeader[n] THEN RoomFor(n) /\ Send(n, "release") ELSE UNCHANGED chan
    /\ UNCHANGED <<lock, alive, isLeader, lockId, lostRenewTimers, lostRetryTimers, budget>>

\* tryAcquire() called by a retry timeout; the field keeps the handle of a fired timeout.
RetryFires(n) ==
    /\ alive[n]
    /\ \/ /\ lostRetryTimers[n] > 0
          /\ lostRetryTimers' = [lostRetryTimers EXCEPT ![n] = @ - 1]
          /\ UNCHANGED retryTimer
       \/ /\ retryTimer[n]
          /\ retryTimer' = [retryTimer EXCEPT ![n] = FALSE]
          /\ UNCHANGED lostRetryTimers
    /\ IF running[n] THEN RoomFor(n) /\ Send(n, "acquire") ELSE UNCHANGED chan
    /\ UNCHANGED <<lock, alive, service, renewTimer, lostRenewTimers, budget>>

\* A firing of the interval in this.renewTimer.
RenewFires(n) ==
    /\ alive[n]
    /\ renewTimer[n] = 0
    /\ renewTimer' = [renewTimer EXCEPT ![n] = RenewEvery]
    /\ IF running[n] THEN RoomFor(n) /\ Send(n, "renew") ELSE UNCHANGED chan
    /\ UNCHANGED <<lock, alive, service, lostRenewTimers, retryTimer, lostRetryTimers, budget>>

\* A firing of an interval whose handle startRenewal() overwrote: no one can clear it.
LostRenewFires(n) ==
    /\ alive[n]
    /\ lostRenewTimers[n] > 0
    /\ running[n]
    /\ RoomForLost(n)
    /\ Send(n, "renew")
    /\ UNCHANGED <<lock, alive, service, timers, budget>>

-----------------------------------------------------------------------------
(* Redis and the connection. *)

Script(key, command) ==
    CASE command.op = "acquire" -> Acquire(key, command.token)
      [] command.op = "renew"   -> Renew(key, command.token)
      [] OTHER                  -> Release(key, command.token)

FirstUnanswered(n, i) ==
    /\ i \in DOMAIN chan[n]
    /\ chan[n][i].reply = "none"
    /\ \A j \in 1..(i - 1) : chan[n][j].reply # "none"

Answer(granted) == IF granted THEN "yes" ELSE "no"

\* Redis runs the oldest command it has not run yet, also for a process that crashed.
Execute(n) ==
    \E i \in DOMAIN chan[n] :
        /\ FirstUnanswered(n, i)
        /\ LET answer == Script(lock, chan[n][i]) IN
              /\ lock' = answer.key
              /\ chan' = [chan EXCEPT ![n][i].reply = Answer(answer.granted)]
        /\ UNCHANGED <<alive, service, timers, budget>>

Fault == faults < MaxFaults /\ faults' = faults + 1

\* Redis answers a command with an error and does nothing.
Refuse(n) ==
    /\ Fault
    /\ \E i \in DOMAIN chan[n] :
          /\ FirstUnanswered(n, i)
          /\ chan' = [chan EXCEPT ![n][i].reply = "error"]
    /\ UNCHANGED <<lock, alive, service, timers, starts>>

Failed(command) == [command EXCEPT !.reply = "error"]

\* ioredis gives up: every command fails, whether Redis ran it or not.
Flush(n) ==
    /\ Fault
    /\ alive[n]
    /\ chan[n] # <<>>
    /\ chan' = [chan EXCEPT ![n] = [i \in DOMAIN @ |-> Failed(@[i])]]
    /\ UNCHANGED <<lock, alive, service, timers, starts>>

\* A failure that ioredis has handed out stays one.
Unanswered(command) ==
    IF command.reply = "error" THEN command ELSE [command EXCEPT !.reply = "none"]

\* A reconnection: answers on their way are lost and ioredis sends the commands again.
Resend(n) ==
    /\ Fault
    /\ alive[n]
    /\ \E i \in DOMAIN chan[n] : chan[n][i].reply \in {"yes", "no"}
    /\ chan' = [chan EXCEPT ![n] = [i \in DOMAIN @ |-> Unanswered(@[i])]]
    /\ UNCHANGED <<lock, alive, service, timers, starts>>

\* The process dies; what it sent may still reach Redis.
Crash(n) ==
    /\ Fault
    /\ alive[n]
    /\ alive' = [alive EXCEPT ![n] = FALSE]
    /\ UNCHANGED <<lock, chan, service, timers, starts>>

\* The connection of a dead process is gone, with what Redis had not read from it.
Disconnect(n) ==
    /\ ~alive[n]
    /\ chan[n] # <<>>
    /\ chan' = [chan EXCEPT ![n] = <<>>]
    /\ UNCHANGED <<lock, alive, service, timers, budget>>

-----------------------------------------------------------------------------
(* The continuations of the awaits. *)

Answered(n, op, replies) ==
    /\ alive[n]
    /\ chan[n] # <<>>
    /\ Head(chan[n]).op = op
    /\ Head(chan[n]).reply \in replies

Consume(n) == chan' = [chan EXCEPT ![n] = Tail(@)]

\* ACQUIRE answered 1 to a running service.
BecomeLeader(n) ==
    /\ Answered(n, "acquire", {"yes"})
    /\ running[n]
    /\ Consume(n)
    /\ isLeader' = [isLeader EXCEPT ![n] = TRUE]
    /\ renewTimer' = [renewTimer EXCEPT ![n] = RenewEvery]
    /\ lostRenewTimers' = [lostRenewTimers EXCEPT ![n] = IF renewTimer[n] = Off THEN @ ELSE @ + 1]
    /\ UNCHANGED <<lock, alive, running, lockId, retryTimer, lostRetryTimers, budget>>

\* Mutant: tryAcquire() does not look at running again after the await.
KeepAcquired(n) ==
    /\ Answered(n, "acquire", {"yes"})
    /\ ~running[n]
    /\ Consume(n)
    /\ UNCHANGED <<lock, alive, service, timers, budget>>

\* ACQUIRE answered 1 after stop(): the lock is given back.
UndoAcquire(n) ==
    /\ Answered(n, "acquire", {"yes"})
    /\ ~running[n]
    /\ chan' = [chan EXCEPT ![n] = Append(Tail(@), Sent("undo", lockId[n]))]
    /\ UNCHANGED <<lock, alive, service, timers, budget>>

\* Mutant: an ACQUIRE that failed with an error is not retried.
AcquireFailsForGood(n) ==
    /\ Answered(n, "acquire", {"no", "error"})
    /\ Consume(n)
    /\ IF running[n] /\ Head(chan[n]).reply = "no"
       THEN SetRetryTimer(n)
       ELSE UNCHANGED <<retryTimer, lostRetryTimers>>
    /\ UNCHANGED <<lock, alive, service, renewTimer, lostRenewTimers, budget>>

\* ACQUIRE answered 0 or failed.
AcquireFails(n) ==
    /\ Answered(n, "acquire", {"no", "error"})
    /\ Consume(n)
    /\ IF running[n] THEN SetRetryTimer(n) ELSE UNCHANGED <<retryTimer, lostRetryTimers>>
    /\ UNCHANGED <<lock, alive, service, renewTimer, lostRenewTimers, budget>>

\* RENEW answered 1, or its failure came when the node no longer led.
RenewSettles(n) ==
    /\ \/ Answered(n, "renew", {"yes"})
       \/ Answered(n, "renew", {"no", "error"}) /\ ~isLeader[n]
    /\ Consume(n)
    /\ UNCHANGED <<lock, alive, service, timers, budget>>

\* Mutant: handleLostLeadership() without the new retry timeout.
LoseLeadershipForGood(n) ==
    /\ Answered(n, "renew", {"no", "error"})
    /\ isLeader[n]
    /\ Consume(n)
    /\ isLeader' = [isLeader EXCEPT ![n] = FALSE]
    /\ renewTimer' = [renewTimer EXCEPT ![n] = Off]
    /\ DrawLockId(n)
    /\ UNCHANGED <<lock, alive, running, retryTimer, lostRetryTimers, lostRenewTimers, budget>>

\* Mutant: the answer 0 of RENEW is not looked at, only a failed command is.
LoseLeadershipOnError(n) ==
    /\ Answered(n, "renew", {"no", "error"})
    /\ isLeader[n]
    /\ Consume(n)
    /\ IF Head(chan[n]).reply = "no"
       THEN UNCHANGED <<isLeader, renewTimer, lockId, retryTimer, lostRetryTimers>>
       ELSE /\ isLeader' = [isLeader EXCEPT ![n] = FALSE]
            /\ renewTimer' = [renewTimer EXCEPT ![n] = Off]
            /\ DrawLockId(n)
            /\ IF running[n] THEN SetRetryTimer(n) ELSE UNCHANGED <<retryTimer, lostRetryTimers>>
    /\ UNCHANGED <<lock, alive, running, lostRenewTimers, budget>>

\* handleLostLeadership(): RENEW answered 0 or failed while the node led.
LoseLeadership(n) ==
    /\ Answered(n, "renew", {"no", "error"})
    /\ isLeader[n]
    /\ Consume(n)
    /\ isLeader' = [isLeader EXCEPT ![n] = FALSE]
    /\ renewTimer' = [renewTimer EXCEPT ![n] = Off]
    /\ DrawLockId(n)
    /\ IF running[n] THEN SetRetryTimer(n) ELSE UNCHANGED <<retryTimer, lostRetryTimers>>
    /\ UNCHANGED <<lock, alive, running, lostRenewTimers, budget>>

\* The RELEASE of stop() settled, with whatever answer.
StopSettles(n) ==
    /\ Answered(n, "release", {"yes", "no", "error"})
    /\ Consume(n)
    /\ isLeader' = [isLeader EXCEPT ![n] = FALSE]
    /\ UNCHANGED <<lock, alive, running, lockId, timers, budget>>

\* The RELEASE of tryAcquire() settled: nothing is left to do.
UndoSettles(n) ==
    /\ Answered(n, "undo", {"yes", "no", "error"})
    /\ Consume(n)
    /\ UNCHANGED <<lock, alive, service, timers, budget>>

-----------------------------------------------------------------------------
(* Time. *)

\* A Timely system answers every command within MaxDelay and runs a due interval at once.
OnTime ==
    \A n \in Node : alive[n] =>
        /\ \A i \in DOMAIN chan[n] : chan[n][i].age < MaxDelay
        /\ renewTimer[n] # 0

Older(command) ==
    IF command.age < MaxDelay THEN [command EXCEPT !.age = @ + 1] ELSE command

Tick ==
    /\ Timely => OnTime
    /\ lock' = Aged(lock)
    /\ chan' = [n \in Node |-> [i \in DOMAIN chan[n] |-> Older(chan[n][i])]]
    /\ renewTimer' = [n \in Node |-> IF renewTimer[n] > 0 THEN renewTimer[n] - 1 ELSE renewTimer[n]]
    /\ UNCHANGED <<alive, service, lostRenewTimers, retryTimer, lostRetryTimers, budget>>

-----------------------------------------------------------------------------
Init ==
    /\ lock = Free
    /\ chan = [n \in Node |-> <<>>]
    /\ alive = [n \in Node |-> TRUE]
    /\ running = [n \in Node |-> FALSE]
    /\ isLeader = [n \in Node |-> FALSE]
    /\ lockId \in [Node -> Token]
    /\ \A n \in Node : lockId[n][1] = n /\ \A id \in Serial : lockId[n][2] <= id
    /\ renewTimer = [n \in Node |-> Off]
    /\ lostRenewTimers = [n \in Node |-> 0]
    /\ retryTimer = [n \in Node |-> FALSE]
    /\ lostRetryTimers = [n \in Node |-> 0]
    /\ starts = 0
    /\ faults = 0

\* What the service and Redis do by themselves.
Progress(n) ==
    \/ RetryFires(n) \/ RenewFires(n) \/ LostRenewFires(n)
    \/ Execute(n) \/ Disconnect(n)
    \/ BecomeLeader(n) \/ UndoAcquire(n) \/ AcquireFails(n)
    \/ RenewSettles(n) \/ LoseLeadership(n)
    \/ StopSettles(n) \/ UndoSettles(n)

\* What its callers and its surroundings do to it.
Disturbance(n) ==
    \/ Start(n) \/ Stop(n)
    \/ Refuse(n) \/ Flush(n) \/ Resend(n) \/ Crash(n)

Next == Tick \/ \E n \in Node : Progress(n) \/ Disturbance(n)

Spec == Init /\ [][Next]_vars

Fairness ==
    /\ WF_vars(Tick)
    /\ \A n \in Node :
        /\ WF_vars(RetryFires(n))
        /\ WF_vars(RenewFires(n))
        /\ WF_vars(LostRenewFires(n))
        /\ WF_vars(Execute(n))
        /\ WF_vars(BecomeLeader(n) \/ UndoAcquire(n) \/ AcquireFails(n) \/ RenewSettles(n)
                     \/ LoseLeadership(n) \/ StopSettles(n) \/ UndoSettles(n))

FairSpec == Spec /\ Fairness

-----------------------------------------------------------------------------
(* Properties. *)

\* isLeader of a service that its owner has not told to stop.
Leads(n) == alive[n] /\ running[n] /\ isLeader[n]

\* When answers are timely and restarts are quiet, the key never expires under a leading
\* service and holds its present lock id (startRenewal, RENEW and the TTL).
LeaseCovers ==
    \A n \in Node : Leads(n) => lock.owner = lockId[n]

\* A running service never falls out of the election: it leads with a renewal interval that
\* will find out when the lock is gone, or an ACQUIRE is on its way, or a retry is due.
NeverDropsOut ==
    \A n \in Node : alive[n] /\ running[n] =>
        \/ isLeader[n] /\ (renewTimer[n] # Off \/ InFlight(n, {"release"}))
        \/ InFlight(n, {"acquire"})
        \/ retryTimer[n]
        \/ lostRetryTimers[n] > 0

\* A service restarted only after its commands were answered runs one acquisition loop: it
\* leads, or waits for one ACQUIRE, or for one retry, and no timer escapes stop().
OneLoop ==
    \A n \in Node :
        /\ lostRetryTimers[n] = 0 /\ lostRenewTimers[n] = 0
        /\ retryTimer[n] => running[n] /\ ~isLeader[n] /\ ~InFlight(n, {"acquire"})
        /\ InFlight(n, {"acquire"}) => ~isLeader[n]
        /\ \A i, j \in DOMAIN chan[n] :
              chan[n][i].op = "acquire" /\ chan[n][j].op = "acquire" => i = j

\* Without connection failures a stopped service that has settled leaves no lock of its own
\* behind, so that a successor need not wait for the TTL.
StoppedLeavesNothing ==
    \A n \in Node :
        faults = 0 /\ ~running[n] /\ ~isLeader[n] /\ chan[n] = <<>> =>
            lock.owner \notin {n} \X Serial

\* What docs/content/leader-service.md says of retries: an election in which a running service takes
\* part ends with a leader, as long as startRenewal() has not overwritten the handle of a live
\* process's interval, which goes on to renew whatever lock id the service draws next.
EventuallyLedUnlessLeaked ==
    \A n \in Node : alive[n] /\ running[n] ~>
        \/ \E m \in Node : Leads(m) \/ (alive[m] /\ lostRenewTimers[m] > 0)
        \/ ~(alive[n] /\ running[n])

\* A service that leads without the lock learns it from its next RENEW.
ZombieDemoted ==
    \A n \in Node : Leads(n) /\ lock.owner \notin {n} \X Serial ~>
        ~Leads(n) \/ lock.owner \in {n} \X Serial

\* When answers are timely and restarts are quiet, the services that lead and were not told to
\* stop implement the abstract election: two of them never lead together.
Promise == INSTANCE Election WITH leaders <- {n \in Node : Leads(n)}
ImplementsElection == Promise!Spec
=============================================================================
