----------------------------- MODULE RedisMutex -----------------------------
(***************************************************************************)
(* withMutex and withMutexes in redis mode (src/helpers/redis/mutex.ts):   *)
(* a caller takes its keys one inside the other, renews each while what is *)
(* inside it runs, and gives them back inside out.                         *)
(*                                                                         *)
(* Level l of a caller is its l-th key.  The function of a level is the    *)
(* mutex of the next level, and fn at the last one.  Every process has one *)
(* connection; callers are in different processes here.  Commands are      *)
(* executed and answered in order; one can be refused, and one whose       *)
(* answer was lost is sent again by ioredis.                               *)
(***************************************************************************)
EXTENDS RedisLock, Sequences, FiniteSets

CONSTANTS
    Caller,
    Key,
    KeysOf,         \* caller -> the sequence of its keys
    RenewEvery,     \* half of renewInterval, in ticks; the code's TTL is six times that
    MaxDelay,       \* what a command's answer takes at most, when Timely
    Timely,         \* TRUE: answers within MaxDelay, and the event loop never stalls
    RetryFor,       \* retryCount * retryDelay, in ticks
    \* Bounds
    MaxFaults, MaxInFlight

ASSUME RedisMutexAssumption ==
    /\ KeysOf \in [Caller -> Seq(Key) \ {<<>>}]
    /\ RenewEvery \in Nat \ {0}
    /\ MaxDelay \in Nat
    /\ Timely \in BOOLEAN
    /\ RetryFor \in Nat
    /\ NoToken \notin Caller \X Nat

VARIABLES
    lock,       \* key -> the Redis key
    chan,       \* caller -> its commands without a consumed answer, in the order sent
    phase,      \* caller -> where its execution is
    level,      \* caller -> the level it acquires; inside, its last level
    deadline,   \* caller -> ticks to the deadline of the level it acquires
    interval,   \* caller -> level -> ticks to the next renewal, Off when there is no interval
    told,       \* the callers whose promise was rejected by a lost level
    faults      \* how much of MaxFaults is used

vars == <<lock, chan, phase, level, deadline, interval, told, faults>>

Off == -1

Levels(c) == DOMAIN KeysOf[c]
AllLevels == UNION {Levels(c) : c \in Caller}

KeyAt(c, l) == KeysOf[c][l]

\* Every level draws a lockId of its own.
Token == Caller \X AllLevels

\* "sleeping": between two attempts; "inside": fn runs.
Phase == {"idle", "acquiring", "sleeping", "inside", "ended", "crashed"}

Command == [op    : {"acquire", "renew", "release"},
            level : AllLevels,
            age   : 0..MaxDelay,
            reply : {"none", "yes", "no", "error"}]

TypeOK ==
    /\ lock \in [Key -> Keys(Token)]
    /\ chan \in [Caller -> Seq(Command)]
    /\ phase \in [Caller -> Phase]
    /\ level \in [Caller -> AllLevels]
    /\ deadline \in [Caller -> 0..RetryFor]
    /\ interval \in [Caller -> [AllLevels -> {Off} \cup 0..RenewEvery]]
    /\ told \subseteq Caller
    /\ faults \in Nat

-----------------------------------------------------------------------------
Sent(op, l) == [op |-> op, level |-> l, age |-> 0, reply |-> "none"]

Open(c) == {l \in Levels(c) : interval[c][l] # Off}

\* Mutant: only the innermost of several levels is given back.
ReleasesInnermost(c, levels) ==
    IF levels = {} THEN <<>>
    ELSE <<Sent("release", CHOOSE l \in levels : \A k \in levels : k <= l)>>

\* The RELEASEs of the given levels, the innermost first.
Releases(c, levels) ==
    [i \in 1..Cardinality(levels) |->
        Sent("release", CHOOSE l \in levels : Cardinality({k \in levels : k >= l}) = i)]

\* finally() of the given levels: their intervals are cleared and their keys given back.
Close(c, levels, queue) ==
    /\ interval' = [interval EXCEPT ![c] = [l \in AllLevels |-> IF l \in levels THEN Off ELSE @[l]]]
    /\ chan' = [chan EXCEPT ![c] = queue \o Releases(c, levels)]

\* The promise of level l is rejected: the levels around it fail with it.
Reject(c, l, queue) ==
    /\ Close(c, {k \in Open(c) : k < l}, queue)
    /\ told' = told \cup {c}

\* redisMutexExec of level l starts, with its first ACQUIRE.
StartLevel(c, l) ==
    /\ phase' = [phase EXCEPT ![c] = "acquiring"]
    /\ level' = [level EXCEPT ![c] = l]
    /\ deadline' = [deadline EXCEPT ![c] = RetryFor]

Answered(c, op, replies) ==
    /\ phase[c] # "crashed"
    /\ chan[c] # <<>>
    /\ Head(chan[c]).op = op
    /\ Head(chan[c]).reply \in replies

-----------------------------------------------------------------------------
Call(c) ==
    /\ phase[c] = "idle"
    /\ StartLevel(c, 1)
    /\ chan' = [chan EXCEPT ![c] = <<Sent("acquire", 1)>>]
    /\ UNCHANGED <<lock, interval, told, faults>>

\* ACQUIRE answered 1: the interval starts, and with it the next level or fn.
Acquired(c) ==
    /\ Answered(c, "acquire", {"yes"})
    /\ interval' = [interval EXCEPT ![c][level[c]] = RenewEvery]
    /\ IF level[c] < Len(KeysOf[c])
       THEN /\ StartLevel(c, level[c] + 1)
            /\ chan' = [chan EXCEPT ![c] = Append(Tail(@), Sent("acquire", level[c] + 1))]
       ELSE /\ phase' = [phase EXCEPT ![c] = "inside"]
            /\ chan' = [chan EXCEPT ![c] = Tail(@)]
            /\ UNCHANGED <<level, deadline>>
    /\ UNCHANGED <<lock, told, faults>>

\* ACQUIRE answered 0: sleep for retryDelay.
Taken(c) ==
    /\ Answered(c, "acquire", {"no"})
    /\ phase' = [phase EXCEPT ![c] = "sleeping"]
    /\ chan' = [chan EXCEPT ![c] = Tail(@)]
    /\ UNCHANGED <<lock, level, deadline, interval, told, faults>>

\* Mutant: another attempt whatever the deadline says.
WakesForever(c) ==
    /\ phase[c] = "sleeping"
    /\ Len(chan[c]) < MaxInFlight
    /\ phase' = [phase EXCEPT ![c] = "acquiring"]
    /\ chan' = [chan EXCEPT ![c] = Append(@, Sent("acquire", level[c]))]
    /\ UNCHANGED <<lock, level, deadline, interval, told, faults>>

\* The sleep is over: another attempt, or MutexAcquisitionError after the deadline.
Wakes(c) ==
    /\ phase[c] = "sleeping"
    /\ IF deadline[c] > 0
       THEN /\ Len(chan[c]) < MaxInFlight
            /\ phase' = [phase EXCEPT ![c] = "acquiring"]
            /\ chan' = [chan EXCEPT ![c] = Append(@, Sent("acquire", level[c]))]
            /\ UNCHANGED <<interval, told>>
       ELSE /\ phase' = [phase EXCEPT ![c] = "ended"]
            /\ Reject(c, level[c], chan[c])
    /\ UNCHANGED <<lock, level, deadline, faults>>

\* ACQUIRE failed with an error: no retry.
AcquireFails(c) ==
    /\ Answered(c, "acquire", {"error"})
    /\ phase' = [phase EXCEPT ![c] = "ended"]
    /\ Reject(c, level[c], Tail(chan[c]))
    /\ UNCHANGED <<lock, level, deadline, faults>>

\* fn's promise settles: finally() of every level that is still open.
FnSettles(c) ==
    /\ phase[c] = "inside"
    /\ phase' = [phase EXCEPT ![c] = "ended"]
    /\ Close(c, Open(c), chan[c])
    /\ UNCHANGED <<lock, level, deadline, told, faults>>

RenewFires(c, l) ==
    /\ interval[c][l] = 0
    /\ Len(chan[c]) < MaxInFlight
    /\ interval' = [interval EXCEPT ![c][l] = RenewEvery]
    /\ chan' = [chan EXCEPT ![c] = Append(@, Sent("renew", l))]
    /\ UNCHANGED <<lock, phase, level, deadline, told, faults>>

\* RENEW answered 1, or failed for a level that has ended: reject() of a settled promise.
RenewSettles(c) ==
    /\ \/ Answered(c, "renew", {"yes"})
       \/ Answered(c, "renew", {"no", "error"}) /\ Head(chan[c]).level \notin Open(c)
    /\ chan' = [chan EXCEPT ![c] = Tail(@)]
    /\ UNCHANGED <<lock, phase, level, deadline, interval, told, faults>>

\* Mutant: a RENEW that is answered 0 is not looked at.
RenewLostOnError(c) ==
    /\ Answered(c, "renew", {"no", "error"})
    /\ Head(chan[c]).level \in Open(c)
    /\ IF Head(chan[c]).reply = "no"
       THEN chan' = [chan EXCEPT ![c] = Tail(@)] /\ UNCHANGED <<interval, told>>
       ELSE Reject(c, Head(chan[c]).level, Tail(chan[c]))
    /\ UNCHANGED <<lock, phase, level, deadline, faults>>

\* RENEW answered 0 or failed: the level's promise is rejected while its function goes on.
RenewLost(c) ==
    /\ Answered(c, "renew", {"no", "error"})
    /\ Head(chan[c]).level \in Open(c)
    /\ Reject(c, Head(chan[c]).level, Tail(chan[c]))
    /\ UNCHANGED <<lock, phase, level, deadline, faults>>

ReleaseSettles(c) ==
    /\ Answered(c, "release", {"yes", "no", "error"})
    /\ chan' = [chan EXCEPT ![c] = Tail(@)]
    /\ UNCHANGED <<lock, phase, level, deadline, interval, told, faults>>

-----------------------------------------------------------------------------
(* Redis, the connection, the process, time. *)

Script(c, command) ==
    LET key   == lock[KeyAt(c, command.level)]
        token == <<c, command.level>>
    IN CASE command.op = "acquire" -> Acquire(key, token)
         [] command.op = "renew"   -> Renew(key, token)
         [] OTHER                  -> Release(key, token)

FirstUnanswered(c, i) ==
    /\ i \in DOMAIN chan[c]
    /\ chan[c][i].reply = "none"
    /\ \A j \in 1..(i - 1) : chan[c][j].reply # "none"

Execute(c) ==
    \E i \in DOMAIN chan[c] :
        /\ FirstUnanswered(c, i)
        /\ LET answer == Script(c, chan[c][i]) IN
              /\ lock' = [lock EXCEPT ![KeyAt(c, chan[c][i].level)] = answer.key]
              /\ chan' = [chan EXCEPT ![c][i].reply = IF answer.granted THEN "yes" ELSE "no"]
        /\ UNCHANGED <<phase, level, deadline, interval, told, faults>>

Fault == faults < MaxFaults /\ faults' = faults + 1

\* Redis answers a command with an error and does nothing.
Refuse(c) ==
    /\ Fault
    /\ \E i \in DOMAIN chan[c] :
          FirstUnanswered(c, i) /\ chan' = [chan EXCEPT ![c][i].reply = "error"]
    /\ UNCHANGED <<lock, phase, level, deadline, interval, told>>

Unanswered(command) ==
    IF command.reply = "error" THEN command ELSE [command EXCEPT !.reply = "none"]

\* A reconnection: ioredis sends the commands again whose answers it has not got.
Resend(c) ==
    /\ Fault
    /\ phase[c] # "crashed"
    /\ \E i \in DOMAIN chan[c] : chan[c][i].reply \in {"yes", "no"}
    /\ chan' = [chan EXCEPT ![c] = [i \in DOMAIN @ |-> Unanswered(@[i])]]
    /\ UNCHANGED <<lock, phase, level, deadline, interval, told>>

\* The process dies with its intervals; what it has sent may still reach Redis.
Crash(c) ==
    /\ Fault
    /\ phase[c] \notin {"idle", "crashed"}
    /\ phase' = [phase EXCEPT ![c] = "crashed"]
    /\ interval' = [interval EXCEPT ![c] = [l \in AllLevels |-> Off]]
    /\ UNCHANGED <<lock, chan, level, deadline, told>>

Disconnect(c) ==
    /\ phase[c] = "crashed"
    /\ chan[c] # <<>>
    /\ chan' = [chan EXCEPT ![c] = <<>>]
    /\ UNCHANGED <<lock, phase, level, deadline, interval, told, faults>>

OnTime ==
    \A c \in Caller : phase[c] # "crashed" =>
        /\ \A i \in DOMAIN chan[c] : chan[c][i].age < MaxDelay
        /\ \A l \in Levels(c) : interval[c][l] # 0

Older(command) ==
    IF command.age < MaxDelay THEN [command EXCEPT !.age = @ + 1] ELSE command

Down(ticks) == IF ticks > 0 THEN ticks - 1 ELSE ticks

Tick ==
    /\ Timely => OnTime
    /\ lock' = [k \in Key |-> Aged(lock[k])]
    /\ chan' = [c \in Caller |-> [i \in DOMAIN chan[c] |-> Older(chan[c][i])]]
    /\ deadline' = [c \in Caller |-> Down(deadline[c])]
    /\ interval' = [c \in Caller |-> [l \in AllLevels |-> Down(interval[c][l])]]
    /\ UNCHANGED <<phase, level, told, faults>>

-----------------------------------------------------------------------------
Init ==
    /\ lock = [k \in Key |-> Free]
    /\ chan = [c \in Caller |-> <<>>]
    /\ phase = [c \in Caller |-> "idle"]
    /\ level = [c \in Caller |-> 1]
    /\ deadline = [c \in Caller |-> 0]
    /\ interval = [c \in Caller |-> [l \in AllLevels |-> Off]]
    /\ told = {}
    /\ faults = 0

Settles(c) ==
    \/ Acquired(c) \/ Taken(c) \/ AcquireFails(c)
    \/ RenewSettles(c) \/ RenewLost(c) \/ ReleaseSettles(c)

Step(c) ==
    \/ Call(c) \/ Wakes(c) \/ FnSettles(c) \/ (\E l \in Levels(c) : RenewFires(c, l)) \/ Settles(c)
    \/ Execute(c) \/ Refuse(c) \/ Resend(c) \/ Crash(c) \/ Disconnect(c)

Next == Tick \/ \E c \in Caller : Step(c)

Spec == Init /\ [][Next]_vars

\* The event loop runs what is due, Redis and the clock go on; an fn may hang.
Fairness ==
    /\ WF_vars(Tick)
    /\ \A c \in Caller :
        /\ WF_vars(Wakes(c))
        /\ WF_vars(Settles(c))
        /\ WF_vars(Execute(c))
        /\ \A l \in Levels(c) : WF_vars(RenewFires(c, l))

FairSpec == Spec /\ Fairness

-----------------------------------------------------------------------------
(* Properties. *)

Owns(c, l) == lock[KeyAt(c, l)].owner = <<c, l>>

\* When answers are timely, fn runs under all its keys as long as its caller was not told
\* otherwise: renewals at half the renewInterval keep a TTL of three times that alive.
HeldWhileInside ==
    /\ TypeOK
    /\ \A c \in Caller \ told : phase[c] = "inside" => \A l \in Levels(c) : Owns(c, l)

\* No interval outlives its call, or it would keep a key for ever that nobody holds, and fn
\* runs with one for each of its keys: also when a level is lost while an inner one waits.
IntervalsMatch(c) ==
    /\ phase[c] \in {"idle", "ended", "crashed"} => Open(c) = {}
    /\ phase[c] = "inside" /\ c \notin told => Open(c) = Levels(c)

\* A call that has ended leaves nothing behind: no interval, and without failures, once its
\* commands are answered, no key, neither an outer one nor one that it got after it was told.
EndedLeavesNothing ==
    \A c \in Caller :
        /\ IntervalsMatch(c)
        /\ faults = 0 /\ phase[c] = "ended" /\ chan[c] = <<>> =>
              \A k \in Key : lock[k].owner \notin {c} \X AllLevels

\* A caller that waits gets in or is rejected: when the holder hangs or has died, and when two
\* callers hold what the other one wants, because they take the same keys in opposite orders.
WaiterSettles ==
    \A c \in Caller :
        phase[c] \in {"acquiring", "sleeping"} ~> phase[c] \in {"inside", "ended", "crashed"}

\* An fn that runs without one of its keys is found out by a renewal, and its caller told.
LossIsTold ==
    \A c \in Caller :
        phase[c] = "inside" /\ (\E l \in Levels(c) : ~Owns(c, l)) ~>
            c \in told \/ phase[c] # "inside" \/ (\A l \in Levels(c) : Owns(c, l))
=============================================================================
