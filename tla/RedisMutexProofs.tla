-------------------------- MODULE RedisMutexProofs --------------------------
(***************************************************************************)
(* Proofs about RedisMutex, for any callers and keys: with timely answers  *)
(* an interval's renewals keep its key.                                    *)
(***************************************************************************)
EXTENDS RedisMutex, FiniteSetTheorems, TLAPS

\* The interval and two answers fit into the TTL.
Timed == Timely /\ RenewEvery + 2 * MaxDelay < TTL

\* The innermost level that runs an interval.
Top(c) ==
    IF phase[c] \in {"acquiring", "sleeping"} THEN level[c] - 1
    ELSE IF phase[c] = "inside" THEN Len(KeysOf[c]) ELSE 0

\* The levels with an interval follow one another, from the first one unless a level was lost.
Opens(c) ==
    /\ level[c] \in Levels(c)
    /\ \E low \in 1..(Top(c) + 1) : Open(c) = low..Top(c) /\ (c \notin told => low = 1)

\* What is on its way is for a level of the caller; there is one ACQUIRE at most, that of the
\* level to be acquired.
InTurn(c) ==
    /\ \A i \in DOMAIN chan[c] : chan[c][i].level \in Levels(c)
    /\ \A i \in DOMAIN chan[c] : chan[c][i].op = "acquire" =>
          chan[c][i].level = level[c] /\ phase[c] \in {"acquiring", "crashed"}
    /\ \A i, j \in DOMAIN chan[c] : chan[c][i].op = "acquire" /\ chan[c][j].op = "acquire" => i = j

\* Whose keys the renewals keep: with timely answers, until it is told otherwise or has ended.
Live(c) == Timed /\ c \notin told /\ phase[c] \notin {"ended", "crashed"}

\* Long enough for the interval and the answer to its RENEW; or a RENEW is on its way that Redis
\* has not answered yet, or has refused, and the key lasts until its answer is due.
Covered(c, l) ==
    LET ttl == lock[KeyAt(c, l)].ttl IN
    \/ ttl > interval[c][l] + MaxDelay
    \/ \E i \in DOMAIN chan[c] :
          /\ chan[c][i].op = "renew" /\ chan[c][i].level = l /\ chan[c][i].reply # "yes"
          /\ ttl > MaxDelay - chan[c][i].age

Kept(c) ==
    Live(c) =>
        /\ \A i \in DOMAIN chan[c] : chan[c][i].op # "release"
        /\ \A i \in DOMAIN chan[c] : chan[c][i].op = "acquire" /\ chan[c][i].reply = "yes" =>
              /\ Owns(c, chan[c][i].level)
              /\ lock[KeyAt(c, chan[c][i].level)].ttl >= TTL - chan[c][i].age
        /\ \A l \in Open(c) : Owns(c, l) /\ Covered(c, l)

Sound(c) == Opens(c) /\ InTurn(c) /\ Kept(c)

IInv == TypeOK /\ \A c \in Caller : Sound(c)

-----------------------------------------------------------------------------
(* Levels, types and sequences. *)

LEMMA LevelsAre ==
    ASSUME NEW c \in Caller
    PROVE  /\ Len(KeysOf[c]) \in Nat \ {0} /\ Levels(c) = 1..Len(KeysOf[c])
           /\ Levels(c) \subseteq AllLevels
           /\ \A l \in Levels(c) : KeyAt(c, l) \in Key
<1>1. KeysOf[c] \in Seq(Key) /\ KeysOf[c] # <<>>
  BY RedisMutexAssumption
<1> QED
  BY <1>1 DEF Levels, AllLevels, KeyAt

LEMMA LevelsCount == AllLevels \subseteq Nat \ {0}
BY LevelsAre DEF AllLevels

LEMMA Constants ==
    /\ TTL \in Nat \ {0} /\ MaxDelay \in Nat /\ RenewEvery \in Nat \ {0} /\ RetryFor \in Nat
    /\ Off = -1 /\ NoToken \notin Token
<1>1. Token \subseteq Caller \X Nat
  BY LevelsCount DEF Token
<1> QED
  BY <1>1, TTLAssumption, RedisMutexAssumption DEF Off

LEMMA SentIs ==
    ASSUME NEW op \in {"acquire", "renew", "release"}, NEW l \in AllLevels
    PROVE  /\ Sent(op, l) \in Command
           /\ Sent(op, l) = [op |-> op, level |-> l, age |-> 0, reply |-> "none"]
BY Constants DEF Sent, Command

LEMMA Consumes ==
    ASSUME NEW S, NEW q \in Seq(S), q # <<>>
    PROVE  /\ Tail(q) \in Seq(S) /\ 1 \in DOMAIN q /\ Head(q) = q[1]
           /\ \A i \in DOMAIN Tail(q) : i + 1 \in DOMAIN q /\ i + 1 # 1 /\ Tail(q)[i] = q[i + 1]
           /\ \A i \in DOMAIN q : i # 1 => i - 1 \in DOMAIN Tail(q) /\ Tail(q)[i - 1] = q[i]
<1>1. Len(q) \in Nat \ {0} /\ DOMAIN q = 1..Len(q)
  OBVIOUS
<1>2. Tail(q) \in Seq(S) /\ Len(Tail(q)) = Len(q) - 1 /\ DOMAIN Tail(q) = 1..(Len(q) - 1)
  BY <1>1
<1>3. \A i \in 1..(Len(q) - 1) : Tail(q)[i] = q[i + 1]
  BY <1>1
<1> QED
  BY <1>1, <1>2, <1>3

LEMMA Appends ==
    ASSUME NEW S, NEW q \in Seq(S), NEW x \in S
    PROVE  /\ Append(q, x) \in Seq(S)
           /\ \A i \in DOMAIN q : i \in DOMAIN Append(q, x) /\ Append(q, x)[i] = q[i]
           /\ Len(q) + 1 \in DOMAIN Append(q, x) /\ Append(q, x)[Len(q) + 1] = x
           /\ \A i \in DOMAIN Append(q, x) : i \in DOMAIN q \/ i = Len(q) + 1
OBVIOUS

\* One RELEASE for each of the levels, whichever they are.
LEMMA ReleasesAre ==
    ASSUME NEW c \in Caller, NEW low \in Nat \ {0}, NEW high \in Nat, low..high \subseteq Levels(c)
    PROVE  /\ Releases(c, low..high) \in Seq(Command)
           /\ \A i \in DOMAIN Releases(c, low..high) :
                 /\ Releases(c, low..high)[i].op = "release"
                 /\ Releases(c, low..high)[i].level \in Levels(c)
<1> DEFINE n == Cardinality(low..high)
           inner(l) == Cardinality({k \in low..high : k >= l})
<1> low \in Int /\ high \in Int
  OBVIOUS
<1>1. n \in Nat /\ n = IF low > high THEN 0 ELSE high - low + 1
  <2>1. n = IF low > high THEN 0 ELSE high - low + 1
    BY FS_Interval
  <2> QED
    BY <2>1
<1>2. ASSUME NEW i \in 1..n PROVE \E l \in low..high : inner(l) = i
  <2>1. high + 1 - i \in low..high
    BY <1>1
  <2>2. {k \in low..high : k >= high + 1 - i} = (high + 1 - i)..high
    BY <2>1
  <2>3. inner(high + 1 - i) = i
    <3>1. high + 1 - i \in Int /\ high + 1 - i <= high
      BY <1>1, <2>1
    <3>2. Cardinality((high + 1 - i)..high) = high - (high + 1 - i) + 1
      BY <3>1, FS_Interval
    <3>3. inner(high + 1 - i) = Cardinality((high + 1 - i)..high)
      BY <2>2
    <3>4. high - (high + 1 - i) + 1 = i
      BY <1>1
    <3> HIDE DEF inner
    <3> QED
      BY <3>2, <3>3, <3>4
  <2> QED
    BY <2>1, <2>3
<1>3. ASSUME NEW i \in 1..n PROVE (CHOOSE l \in low..high : inner(l) = i) \in low..high
  BY <1>2
<1>4. ASSUME NEW i \in 1..n
      PROVE  /\ Sent("release", CHOOSE l \in low..high : inner(l) = i) \in Command
             /\ Sent("release", CHOOSE l \in low..high : inner(l) = i).op = "release"
             /\ Sent("release", CHOOSE l \in low..high : inner(l) = i).level \in Levels(c)
  <2>1. (CHOOSE l \in low..high : inner(l) = i) \in Levels(c)
    BY <1>3
  <2> HIDE DEF inner
  <2> QED
    BY <2>1, LevelsAre, SentIs
<1>5. Releases(c, low..high) = [i \in 1..n |-> Sent("release", CHOOSE l \in low..high : inner(l) = i)]
  BY DEF Releases
<1> DEFINE s(i) == Sent("release", CHOOSE l \in low..high : inner(l) = i)
<1>6. \A i \in 1..n : s(i) \in Command /\ s(i).op = "release" /\ s(i).level \in Levels(c)
  BY <1>4
<1>7. Releases(c, low..high) = [i \in 1..n |-> s(i)]
  BY <1>5
<1> HIDE DEF n, s
<1> QED
  BY <1>1, <1>6, <1>7

LEMMA Concats ==
    ASSUME NEW S, NEW q \in Seq(S), NEW r \in Seq(S)
    PROVE  /\ q \o r \in Seq(S)
           /\ \A i \in DOMAIN q : i \in DOMAIN (q \o r) /\ (q \o r)[i] = q[i]
           /\ \A i \in DOMAIN (q \o r) :
                 i \in DOMAIN q \/ (i - Len(q) \in DOMAIN r /\ (q \o r)[i] = r[i - Len(q)])
OBVIOUS

-----------------------------------------------------------------------------
(* What the steps of a caller have in common. *)

\* A step of one caller that leaves Redis alone.
LEMMA OwnStep ==
    ASSUME IInv, NEW d \in Caller, TypeOK', UNCHANGED lock, Sound(d)',
           \A c \in Caller \ {d} :
               /\ chan'[c] = chan[c] /\ phase'[c] = phase[c] /\ level'[c] = level[c]
               /\ interval'[c] = interval[c] /\ (c \in told' <=> c \in told)
    PROVE  IInv'
<1>1. ASSUME NEW c \in Caller, c # d PROVE Sound(c)'
  <2>1. Sound(c)
    BY DEF IInv
  <2>2. Opens(c)'
    BY <1>1, <2>1 DEF Sound, Opens, Top, Open
  <2>3. InTurn(c)'
    BY <1>1, <2>1 DEF Sound, InTurn
  <2>4. Kept(c)'
    <3>1. (Live(c)' <=> Live(c)) /\ Open(c)' = Open(c)
      BY <1>1 DEF Live, Timed, Open
    <3>2. \A l \in Levels(c) : (Owns(c, l)' <=> Owns(c, l)) /\ (Covered(c, l) => Covered(c, l)')
      BY <1>1 DEF Owns, Covered, KeyAt
    <3>3. \A l \in Levels(c) : lock'[KeyAt(c, l)] = lock[KeyAt(c, l)]
      OBVIOUS
    <3>4. Open(c) \subseteq Levels(c) /\ \A i \in DOMAIN chan[c] : chan[c][i].level \in Levels(c)
      BY <2>1 DEF Open, Sound, InTurn
    <3> QED
      BY <1>1, <2>1, <3>1, <3>2, <3>3, <3>4 DEF Sound, Kept
  <2> QED
    BY <2>2, <2>3, <2>4 DEF Sound
<1> QED
  BY <1>1 DEF IInv

\* A caller whose promise was rejected, or that has ended, has nothing more to keep.
LEMMA NotLive == ASSUME NEW c \in Caller, ~Live(c)' PROVE Kept(c)'
BY DEF Kept

\* The head of the queue is taken off.
LEMMA Answers ==
    ASSUME TypeOK, NEW c \in Caller, NEW op, NEW replies, Answered(c, op, replies)
    PROVE  LET q == chan[c] IN
           /\ phase[c] # "crashed" /\ q \in Seq(Command)
           /\ Tail(q) \in Seq(Command) /\ 1 \in DOMAIN q /\ Head(q) = q[1] /\ q[1] \in Command
           /\ q[1].op = op /\ q[1].reply \in replies
           /\ \A i \in DOMAIN Tail(q) : i + 1 \in DOMAIN q /\ i + 1 # 1 /\ Tail(q)[i] = q[i + 1]
           /\ \A i \in DOMAIN q : i # 1 => i - 1 \in DOMAIN Tail(q) /\ Tail(q)[i - 1] = q[i]
<1>1. chan[c] \in Seq(Command) /\ chan[c] # <<>>
  BY DEF TypeOK, Answered
<1> HIDE DEF Command
<1> QED
  BY <1>1, Consumes DEF Answered

\* With its first answer taken off, what is on its way is still in turn.
LEMMA TailInTurn ==
    ASSUME TypeOK, NEW c \in Caller, InTurn(c), NEW op, NEW replies, Answered(c, op, replies),
           level'[c] = level[c],
           chan'[c] = Tail(chan[c]), phase'[c] = phase[c] \/ op = "acquire"
    PROVE  InTurn(c)'
<1> DEFINE q == chan[c]
<1>1. /\ \A i \in DOMAIN Tail(q) : i + 1 \in DOMAIN q /\ i + 1 # 1 /\ Tail(q)[i] = q[i + 1]
      /\ 1 \in DOMAIN q /\ q[1].op = op /\ q \in Seq(Command)
  BY Answers
<1>2. \A i \in DOMAIN Tail(q) : Tail(q)[i].level \in Levels(c)
  BY <1>1 DEF InTurn
<1>3. \A i \in DOMAIN Tail(q) : i \in Nat
  BY <1>1
<1>4. ASSUME NEW i \in DOMAIN Tail(q), Tail(q)[i].op = "acquire"
      PROVE  Tail(q)[i].level = level[c] /\ phase[c] \in {"acquiring", "crashed"} /\ op # "acquire"
  BY <1>1, <1>4 DEF InTurn
<1>5. ASSUME NEW i \in DOMAIN Tail(q), NEW j \in DOMAIN Tail(q), Tail(q)[i].op = "acquire", Tail(q)[j].op = "acquire"
      PROVE  i = j
  <2>1. i + 1 = j + 1
    BY <1>1, <1>5 DEF InTurn
  <2> QED
    BY <1>3, <2>1
<1> QED
  BY <1>2, <1>4, <1>5 DEF InTurn, Levels

\* What is kept stays so without an answer that no interval waits for.
LEMMA TailKept ==
    ASSUME TypeOK, NEW c \in Caller, Kept(c), NEW op, NEW replies, Answered(c, op, replies),
           op = "renew" /\ chan[c][1].level \in Open(c) => chan[c][1].reply = "yes",
           UNCHANGED lock, Live(c)' => Live(c),
           chan'[c] = Tail(chan[c]), interval'[c] = interval[c]
    PROVE  Kept(c)'
<1> SUFFICES ASSUME Live(c)' PROVE Kept(c)'
  BY NotLive
<1> DEFINE q == chan[c]
<1>1. /\ \A i \in DOMAIN Tail(q) : i + 1 \in DOMAIN q /\ i + 1 # 1 /\ Tail(q)[i] = q[i + 1]
      /\ \A i \in DOMAIN q : i # 1 => i - 1 \in DOMAIN Tail(q) /\ Tail(q)[i - 1] = q[i]
      /\ 1 \in DOMAIN q /\ q[1].op = op
  BY Answers
<1>2. \A i \in DOMAIN Tail(q) : Tail(q)[i].op # "release"
  BY <1>1 DEF Kept
<1>3. \A i \in DOMAIN Tail(q) : Tail(q)[i].op = "acquire" /\ Tail(q)[i].reply = "yes" =>
              /\ Owns(c, Tail(q)[i].level)
              /\ lock[KeyAt(c, Tail(q)[i].level)].ttl >= TTL - Tail(q)[i].age
  BY <1>1 DEF Kept
<1>4. Open(c)' = Open(c)
  BY DEF Open
<1>5. ASSUME NEW l \in Open(c) PROVE Owns(c, l)' /\ Covered(c, l)'
  <2>1. Owns(c, l) /\ Covered(c, l)
    BY DEF Kept
  <2>2. CASE lock[KeyAt(c, l)].ttl > interval[c][l] + MaxDelay
    BY <2>1, <2>2 DEF Owns, Covered
  <2>3. ASSUME NEW i \in DOMAIN q, q[i].op = "renew", q[i].level = l, q[i].reply # "yes",
               lock[KeyAt(c, l)].ttl > MaxDelay - q[i].age
        PROVE  Covered(c, l)'
    <3>1. i # 1
      BY <1>1, <2>3
    <3>2. i - 1 \in DOMAIN Tail(q) /\ Tail(q)[i - 1] = q[i]
      BY <1>1, <3>1
    <3> QED
      BY <2>3, <3>2 DEF Covered
  <2> QED
    BY <2>1, <2>2, <2>3 DEF Owns, Covered
<1> QED
  BY <1>2, <1>3, <1>4, <1>5 DEF Kept, Owns

-----------------------------------------------------------------------------
(* The caller's steps. *)

LEMMA CallKeeps ==
    ASSUME IInv, NEW c \in Caller, Call(c)
    PROVE  IInv'
<1>1. TypeOK /\ Sound(c) /\ phase[c] = "idle"
  BY DEF IInv, Call
<1>2. /\ phase' = [phase EXCEPT ![c] = "acquiring"] /\ level' = [level EXCEPT ![c] = 1]
      /\ deadline' = [deadline EXCEPT ![c] = RetryFor]
      /\ chan' = [chan EXCEPT ![c] = <<Sent("acquire", 1)>>]
      /\ UNCHANGED <<lock, interval, told, faults>>
  BY DEF Call, StartLevel
<1>3. 1 \in Levels(c) /\ 1 \in AllLevels /\ Levels(c) = 1..Len(KeysOf[c])
  BY LevelsAre
<1> DEFINE q == <<Sent("acquire", 1)>>
<1>4. /\ q \in Seq(Command) /\ DOMAIN q = {1}
      /\ q[1] = [op |-> "acquire", level |-> 1, age |-> 0, reply |-> "none"]
  BY <1>3, SentIs
<1>5. phase'[c] = "acquiring" /\ level'[c] = 1 /\ chan'[c] = q /\ interval'[c] = interval[c]
  BY <1>1, <1>2 DEF TypeOK
<1>6. TypeOK'
  <2>1. chan' \in [Caller -> Seq(Command)]
    BY <1>1, <1>2, <1>4 DEF TypeOK
  <2> QED
    BY <1>1, <1>2, <1>3, <2>1, Constants DEF TypeOK, Phase
<1>7. Sound(c)'
  <2>1. Open(c) = {} /\ Open(c)' = {}
    BY <1>1, <1>5 DEF Sound, Opens, Top, Open
  <2>2. Opens(c)'
    <3>1. Top(c)' = 0
      BY <1>5 DEF Top
    <3>2. 1 \in 1..(Top(c)' + 1) /\ Open(c)' = 1..Top(c)'
      BY <2>1, <3>1
    <3> QED
      BY <1>3, <1>5, <3>2 DEF Opens, Levels
  <2>3. InTurn(c)'
    BY <1>3, <1>4, <1>5 DEF InTurn, Levels
  <2>4. Kept(c)'
    BY <1>4, <1>5, <2>1 DEF Kept
  <2> QED
    BY <2>2, <2>3, <2>4 DEF Sound
<1> HIDE DEF q
<1> QED
  BY <1>1, <1>2, <1>6, <1>7, OwnStep DEF TypeOK

LEMMA TakenKeeps ==
    ASSUME IInv, NEW c \in Caller, Taken(c)
    PROVE  IInv'
<1>1. TypeOK /\ Sound(c) /\ Answered(c, "acquire", {"no"})
  BY DEF IInv, Taken
<1>2. /\ phase' = [phase EXCEPT ![c] = "sleeping"] /\ chan' = [chan EXCEPT ![c] = Tail(@)]
      /\ UNCHANGED <<lock, level, deadline, interval, told, faults>>
  BY DEF Taken
<1>3. phase'[c] = "sleeping" /\ chan'[c] = Tail(chan[c]) /\ Tail(chan[c]) \in Seq(Command)
  BY <1>1, <1>2, Answers DEF TypeOK
<1>4. TypeOK'
  BY <1>1, <1>2, <1>3 DEF TypeOK, Phase
<1>5. phase[c] = "acquiring"
  BY <1>1, Answers DEF Sound, InTurn
<1>6. Opens(c)'
  BY <1>1, <1>2, <1>3, <1>5 DEF Sound, Opens, Top, Open, Levels
<1>7. InTurn(c)'
  BY <1>1, <1>2, <1>3, TailInTurn DEF Sound
<1>8. Kept(c)'
  BY <1>1, <1>2, <1>3, <1>5, TailKept DEF Sound, Live
<1> QED
  BY <1>1, <1>2, <1>4, <1>6, <1>7, <1>8, OwnStep DEF TypeOK, Sound

LEMMA ReleaseSettlesKeeps ==
    ASSUME IInv, NEW c \in Caller, ReleaseSettles(c)
    PROVE  IInv'
<1>1. TypeOK /\ Sound(c) /\ Answered(c, "release", {"yes", "no", "error"})
  BY DEF IInv, ReleaseSettles
<1>2. chan' = [chan EXCEPT ![c] = Tail(@)] /\ UNCHANGED <<lock, phase, level, deadline, interval, told, faults>>
  BY DEF ReleaseSettles
<1>3. chan'[c] = Tail(chan[c]) /\ Tail(chan[c]) \in Seq(Command)
  BY <1>1, <1>2, Answers DEF TypeOK
<1>4. TypeOK'
  BY <1>1, <1>2, <1>3 DEF TypeOK
<1>5. Opens(c)'
  BY <1>1, <1>2 DEF Sound, Opens, Top, Open, Levels
<1>6. InTurn(c)'
  BY <1>1, <1>2, <1>3, TailInTurn DEF Sound
<1>7. Kept(c)'
  BY <1>1, <1>2, <1>3, TailKept DEF Sound, Live
<1> QED
  BY <1>1, <1>2, <1>4, <1>5, <1>6, <1>7, OwnStep DEF TypeOK, Sound

LEMMA RenewSettlesKeeps ==
    ASSUME IInv, NEW c \in Caller, RenewSettles(c)
    PROVE  IInv'
<1>1. TypeOK /\ Sound(c)
  BY DEF IInv
<1>2. chan' = [chan EXCEPT ![c] = Tail(@)] /\ UNCHANGED <<lock, phase, level, deadline, interval, told, faults>>
  BY DEF RenewSettles
<1>3. /\ Answered(c, "renew", {"yes", "no", "error"})
      /\ chan[c][1].level \in Open(c) => chan[c][1].reply = "yes"
  <2>1. Answered(c, "renew", {"yes", "no", "error"})
    BY DEF RenewSettles, Answered
  <2>2. Head(chan[c]) = chan[c][1]
    BY <1>1, <2>1, Answers
  <2> QED
    BY <2>1, <2>2 DEF RenewSettles, Answered
<1>4. chan'[c] = Tail(chan[c]) /\ Tail(chan[c]) \in Seq(Command)
  BY <1>1, <1>2, <1>3, Answers DEF TypeOK
<1>5. TypeOK'
  BY <1>1, <1>2, <1>4 DEF TypeOK
<1>6. Opens(c)'
  BY <1>1, <1>2 DEF Sound, Opens, Top, Open, Levels
<1>7. InTurn(c)'
  BY <1>1, <1>2, <1>3, <1>4, TailInTurn DEF Sound
<1>8. Kept(c)'
  BY <1>1, <1>2, <1>3, <1>4, TailKept DEF Sound, Live
<1> QED
  BY <1>1, <1>2, <1>5, <1>6, <1>7, <1>8, OwnStep DEF TypeOK, Sound

\* finally() of levels that follow one another.
LEMMA Closes ==
    ASSUME TypeOK, NEW c \in Caller, NEW low \in Nat \ {0}, NEW high \in Nat, low..high \subseteq Levels(c),
           NEW q \in Seq(Command), Close(c, low..high, q)
    PROVE  /\ interval' \in [Caller -> [AllLevels -> {Off} \cup 0..RenewEvery]]
           /\ interval'[c] = [l \in AllLevels |-> IF l \in low..high THEN Off ELSE interval[c][l]]
           /\ chan' \in [Caller -> Seq(Command)]
           /\ \A d \in Caller \ {c} : interval'[d] = interval[d] /\ chan'[d] = chan[d]
           /\ \A i \in DOMAIN chan'[c] :
                 \/ i \in DOMAIN q /\ chan'[c][i] = q[i]
                 \/ chan'[c][i].op = "release" /\ chan'[c][i].level \in Levels(c)
<1> DEFINE r == Releases(c, low..high)
           closed == [l \in AllLevels |-> IF l \in low..high THEN Off ELSE interval[c][l]]
<1>1. /\ r \in Seq(Command)
      /\ \A i \in DOMAIN r : r[i].op = "release" /\ r[i].level \in Levels(c)
  BY ReleasesAre
<1>2. interval' = [interval EXCEPT ![c] = closed] /\ chan' = [chan EXCEPT ![c] = q \o r]
  BY DEF Close, TypeOK
<1>3. closed \in [AllLevels -> {Off} \cup 0..RenewEvery]
  BY DEF TypeOK
<1> HIDE DEF r, closed
<1>4. /\ q \o r \in Seq(Command)
      /\ \A i \in DOMAIN (q \o r) :
            \/ i \in DOMAIN q /\ (q \o r)[i] = q[i]
            \/ (q \o r)[i].op = "release" /\ (q \o r)[i].level \in Levels(c)
  <2> HIDE DEF Command
  <2> QED
    BY <1>1, Concats
<1>5. chan'[c] = q \o r /\ interval'[c] = closed
  BY <1>2 DEF TypeOK
<1>6. chan' \in [Caller -> Seq(Command)] /\ interval' \in [Caller -> [AllLevels -> {Off} \cup 0..RenewEvery]]
  BY <1>2, <1>3, <1>4 DEF TypeOK
<1>7. \A d \in Caller \ {c} : interval'[d] = interval[d] /\ chan'[d] = chan[d]
  BY <1>2 DEF TypeOK
<1> QED
  BY <1>4, <1>5, <1>6, <1>7 DEF closed

\* A queue that is in turn is so with RELEASEs at its end.
LEMMA ClosedInTurn ==
    ASSUME NEW c \in Caller, NEW q, level'[c] = level[c],
           \A i \in DOMAIN q : q[i].level \in Levels(c),
           \A i \in DOMAIN q : q[i].op = "acquire" =>
               q[i].level = level[c] /\ phase'[c] \in {"acquiring", "crashed"},
           \A i, j \in DOMAIN q : q[i].op = "acquire" /\ q[j].op = "acquire" => i = j,
           \A i \in DOMAIN chan'[c] :
               \/ i \in DOMAIN q /\ chan'[c][i] = q[i]
               \/ chan'[c][i].op = "release" /\ chan'[c][i].level \in Levels(c)
    PROVE  InTurn(c)'
<1>1. \A i \in DOMAIN chan'[c] : chan'[c][i].level \in Levels(c)
  OBVIOUS
<1>2. \A i \in DOMAIN chan'[c] : chan'[c][i].op = "acquire" => i \in DOMAIN q /\ chan'[c][i] = q[i]
  OBVIOUS
<1>3. \A i \in DOMAIN chan'[c] : chan'[c][i].op = "acquire" =>
          chan'[c][i].level = level'[c] /\ phase'[c] \in {"acquiring", "crashed"}
  BY <1>2
<1>4. \A i, j \in DOMAIN chan'[c] : chan'[c][i].op = "acquire" /\ chan'[c][j].op = "acquire" => i = j
  BY <1>2
<1> QED
  BY <1>1, <1>3, <1>4 DEF InTurn, Levels

\* A level outside all that are open: all of them are closed with it, and the call ends.
LEMMA EndKeeps ==
    ASSUME IInv, NEW c \in Caller, NEW q \in Seq(Command), Close(c, Open(c), q),
           phase' = [phase EXCEPT ![c] = "ended"], told' \in {told, told \cup {c}},
           UNCHANGED <<lock, level, deadline, faults>>,
           \A i \in DOMAIN q : q[i].level \in Levels(c) /\ q[i].op # "acquire"
    PROVE  IInv'
<1>1. TypeOK /\ Opens(c) /\ level[c] \in Levels(c)
  BY DEF IInv, Sound, Opens
<1>2. PICK low \in 1..(Top(c) + 1) : Open(c) = low..Top(c)
  BY <1>1 DEF Opens
<1>3. Top(c) \in Nat /\ low \in Nat \ {0}
  BY <1>1, <1>2, LevelsAre DEF Top
<1>4. low..Top(c) \subseteq Levels(c)
  BY <1>2 DEF Open
<1>5. /\ interval' \in [Caller -> [AllLevels -> {Off} \cup 0..RenewEvery]]
      /\ interval'[c] = [l \in AllLevels |-> IF l \in low..Top(c) THEN Off ELSE interval[c][l]]
      /\ chan' \in [Caller -> Seq(Command)]
      /\ \A d \in Caller \ {c} : interval'[d] = interval[d] /\ chan'[d] = chan[d]
      /\ \A i \in DOMAIN chan'[c] :
            \/ i \in DOMAIN q /\ chan'[c][i] = q[i]
            \/ chan'[c][i].op = "release" /\ chan'[c][i].level \in Levels(c)
  <2> DEFINE high == Top(c)
  <2>1. Close(c, low..high, q) /\ high \in Nat /\ low..high \subseteq Levels(c)
    BY <1>2, <1>3, <1>4
  <2> HIDE DEF high, Command
  <2>2. /\ interval' \in [Caller -> [AllLevels -> {Off} \cup 0..RenewEvery]]
        /\ interval'[c] = [l \in AllLevels |-> IF l \in low..high THEN Off ELSE interval[c][l]]
        /\ chan' \in [Caller -> Seq(Command)]
        /\ \A d \in Caller \ {c} : interval'[d] = interval[d] /\ chan'[d] = chan[d]
        /\ \A i \in DOMAIN chan'[c] :
              \/ i \in DOMAIN q /\ chan'[c][i] = q[i]
              \/ chan'[c][i].op = "release" /\ chan'[c][i].level \in Levels(c)
    BY <1>1, <1>3, <2>1, Closes
  <2> QED
    BY <2>2 DEF high
<1>6. phase'[c] = "ended"
  BY <1>1 DEF TypeOK
<1>7. TypeOK'
  BY <1>1, <1>5 DEF TypeOK, Phase
<1>8. Opens(c)'
  <2>1. Open(c)' = {}
    BY <1>2, <1>5, LevelsAre DEF Open
  <2>2. Top(c)' = 0
    BY <1>6 DEF Top
  <2>3. 1 \in 1..(Top(c)' + 1) /\ Open(c)' = 1..Top(c)'
    BY <2>1, <2>2
  <2> QED
    BY <1>1, <2>3 DEF Opens, Levels
<1>9. InTurn(c)'
  BY <1>5, ClosedInTurn
<1>10. Kept(c)'
  BY <1>6, NotLive DEF Live
<1> QED
  BY <1>1, <1>5, <1>7, <1>8, <1>9, <1>10, OwnStep DEF TypeOK, Sound

LEMMA FnSettlesKeeps ==
    ASSUME IInv, NEW c \in Caller, FnSettles(c)
    PROVE  IInv'
<1>1. chan[c] \in Seq(Command)
  BY DEF IInv, TypeOK
<1>2. \A i \in DOMAIN chan[c] : chan[c][i].level \in Levels(c) /\ chan[c][i].op # "acquire"
  BY DEF IInv, Sound, InTurn, FnSettles
<1> QED
  BY <1>1, <1>2, EndKeeps DEF FnSettles

\* While a level is acquired all open ones are around it.
LEMMA AllAround ==
    ASSUME IInv, NEW c \in Caller, phase[c] \in {"acquiring", "sleeping"}
    PROVE  {k \in Open(c) : k < level[c]} = Open(c)
<1>1. Opens(c) /\ Top(c) = level[c] - 1 /\ level[c] \in Nat
  BY LevelsAre DEF IInv, Sound, Opens, Top
<1> QED
  BY <1>1 DEF Opens

LEMMA AcquireFailsKeeps ==
    ASSUME IInv, NEW c \in Caller, AcquireFails(c)
    PROVE  IInv'
<1>1. TypeOK /\ InTurn(c) /\ Answered(c, "acquire", {"error"})
  BY DEF IInv, Sound, AcquireFails
<1>2. /\ Tail(chan[c]) \in Seq(Command) /\ 1 \in DOMAIN chan[c] /\ chan[c][1].op = "acquire"
      /\ phase[c] # "crashed"
      /\ \A i \in DOMAIN Tail(chan[c]) : i + 1 \in DOMAIN chan[c] /\ i + 1 # 1 /\ Tail(chan[c])[i] = chan[c][i + 1]
  BY <1>1, Answers
<1>3. \A i \in DOMAIN Tail(chan[c]) : Tail(chan[c])[i].level \in Levels(c) /\ Tail(chan[c])[i].op # "acquire"
  BY <1>1, <1>2 DEF InTurn
<1>4. phase[c] = "acquiring"
  BY <1>1, <1>2 DEF InTurn
<1>5. Close(c, Open(c), Tail(chan[c]))
  BY <1>4, AllAround DEF AcquireFails, Reject
<1> QED
  BY <1>2, <1>3, <1>5, EndKeeps DEF AcquireFails, Reject

LEMMA WakesKeeps ==
    ASSUME IInv, NEW c \in Caller, Wakes(c)
    PROVE  IInv'
<1>1. TypeOK /\ Sound(c) /\ phase[c] = "sleeping" /\ UNCHANGED <<lock, level, deadline, faults>>
  BY DEF IInv, Wakes
<1>2. level[c] \in Levels(c) /\ level[c] \in AllLevels
  BY <1>1, LevelsAre DEF Sound, Opens
<1>3. \A i \in DOMAIN chan[c] : chan[c][i].level \in Levels(c) /\ chan[c][i].op # "acquire"
  BY <1>1 DEF Sound, InTurn
<1>4. chan[c] \in Seq(Command)
  BY <1>1 DEF TypeOK
<1>5. CASE deadline[c] > 0
  <2> DEFINE x == Sent("acquire", level[c])
  <2>1. x \in Command /\ x = [op |-> "acquire", level |-> level[c], age |-> 0, reply |-> "none"]
    BY <1>2, SentIs
  <2>2. /\ phase' = [phase EXCEPT ![c] = "acquiring"] /\ chan' = [chan EXCEPT ![c] = Append(@, x)]
        /\ UNCHANGED <<interval, told>>
    BY <1>5 DEF Wakes
  <2> HIDE DEF x
  <2>3. /\ Append(chan[c], x) \in Seq(Command)
        /\ \A i \in DOMAIN chan[c] : i \in DOMAIN Append(chan[c], x) /\ Append(chan[c], x)[i] = chan[c][i]
        /\ Append(chan[c], x)[Len(chan[c]) + 1] = x
        /\ \A i \in DOMAIN Append(chan[c], x) : i \in DOMAIN chan[c] \/ i = Len(chan[c]) + 1
    <3> HIDE DEF Command
    <3> QED
      BY <1>4, <2>1, Appends
  <2>4. chan'[c] = Append(chan[c], x) /\ phase'[c] = "acquiring"
    BY <1>1, <2>2 DEF TypeOK
  <2>5. TypeOK'
    BY <1>1, <2>2, <2>3 DEF TypeOK, Phase
  <2>6. Opens(c)'
    BY <1>1, <2>2, <2>4 DEF Sound, Opens, Top, Open, Levels
  <2>7. \A i \in DOMAIN chan'[c] :
           (i \in DOMAIN chan[c] /\ chan'[c][i] = chan[c][i]) \/ (i = Len(chan[c]) + 1 /\ chan'[c][i] = x)
    BY <2>3, <2>4
  <2>8. InTurn(c)'
    BY <1>1, <1>2, <1>3, <2>1, <2>4, <2>7 DEF InTurn, Levels
  <2>9. Kept(c)'
    <3>1. Open(c)' = Open(c) /\ (Live(c)' => Live(c))
      BY <1>1, <2>2 DEF Open, Live
    <3>2. \A i \in DOMAIN chan[c] : i \in DOMAIN chan'[c] /\ chan'[c][i] = chan[c][i]
      BY <2>3, <2>4
    <3>3. \A l \in Open(c) : Covered(c, l) => Covered(c, l)'
      BY <1>1, <2>2, <3>2 DEF Covered
    <3>4. x.op = "acquire" /\ x.reply = "none"
      BY <2>1
    <3> QED
      BY <1>1, <2>2, <2>7, <3>1, <3>3, <3>4 DEF Sound, Kept, Owns
  <2> QED
    BY <1>1, <2>2, <2>5, <2>6, <2>8, <2>9, OwnStep DEF TypeOK, Sound
<1>6. CASE ~(deadline[c] > 0)
  <2>1. phase' = [phase EXCEPT ![c] = "ended"] /\ Reject(c, level[c], chan[c])
    BY <1>6 DEF Wakes
  <2>2. Close(c, Open(c), chan[c]) /\ told' \in {told, told \cup {c}}
    BY <1>1, <2>1, AllAround DEF Reject
  <2> QED
    BY <1>1, <1>3, <1>4, <2>1, <2>2, EndKeeps
<1> QED
  BY <1>5, <1>6

LEMMA RenewLostKeeps ==
    ASSUME IInv, NEW c \in Caller, RenewLost(c)
    PROVE  IInv'
<1> DEFINE l == chan[c][1].level
           q == Tail(chan[c])
<1>1. TypeOK /\ Sound(c) /\ Answered(c, "renew", {"no", "error"}) /\ UNCHANGED <<lock, phase, level, deadline, faults>>
  BY DEF IInv, RenewLost
<1>2. /\ q \in Seq(Command) /\ 1 \in DOMAIN chan[c] /\ Head(chan[c]) = chan[c][1] /\ chan[c] \in Seq(Command)
      /\ \A i \in DOMAIN q : i + 1 \in DOMAIN chan[c] /\ i + 1 # 1 /\ q[i] = chan[c][i + 1]
  BY <1>1, Answers
<1>3. l \in Open(c) /\ Close(c, {k \in Open(c) : k < l}, q) /\ told' = told \cup {c}
  BY <1>2 DEF RenewLost, Reject
<1>4. PICK low \in 1..(Top(c) + 1) : Open(c) = low..Top(c)
  BY <1>1 DEF Sound, Opens
<1>5. Top(c) \in Nat /\ low \in Nat \ {0}
  BY <1>1, <1>4, LevelsAre DEF Sound, Opens, Top
<1>6. l \in low..Top(c) /\ l - 1 \in Nat /\ {k \in Open(c) : k < l} = low..(l - 1)
  BY <1>3, <1>4, <1>5
<1>7. low..(l - 1) \subseteq Levels(c)
  BY <1>6 DEF Open
<1>8. /\ interval' \in [Caller -> [AllLevels -> {Off} \cup 0..RenewEvery]]
      /\ interval'[c] = [k \in AllLevels |-> IF k \in low..(l - 1) THEN Off ELSE interval[c][k]]
      /\ chan' \in [Caller -> Seq(Command)]
      /\ \A d \in Caller \ {c} : interval'[d] = interval[d] /\ chan'[d] = chan[d]
      /\ \A i \in DOMAIN chan'[c] :
            \/ i \in DOMAIN q /\ chan'[c][i] = q[i]
            \/ chan'[c][i].op = "release" /\ chan'[c][i].level \in Levels(c)
  <2> DEFINE high == l - 1
  <2>1. /\ TypeOK /\ q \in Seq(Command) /\ low \in Nat \ {0} /\ high \in Nat
        /\ low..high \subseteq Levels(c) /\ Close(c, low..high, q)
    BY <1>1, <1>2, <1>3, <1>5, <1>6, <1>7
  <2> HIDE DEF high, Command, q
  <2>2. /\ interval' \in [Caller -> [AllLevels -> {Off} \cup 0..RenewEvery]]
        /\ interval'[c] = [k \in AllLevels |-> IF k \in low..high THEN Off ELSE interval[c][k]]
        /\ chan' \in [Caller -> Seq(Command)]
        /\ \A d \in Caller \ {c} : interval'[d] = interval[d] /\ chan'[d] = chan[d]
        /\ \A i \in DOMAIN chan'[c] :
              \/ i \in DOMAIN q /\ chan'[c][i] = q[i]
              \/ chan'[c][i].op = "release" /\ chan'[c][i].level \in Levels(c)
    BY <2>1, Closes
  <2> QED
    BY <2>2 DEF high
<1>9. TypeOK'
  BY <1>1, <1>3, <1>8 DEF TypeOK
<1>10. Opens(c)'
  <2>1. Top(c)' = Top(c)
    BY <1>1 DEF Top
  <2>2. Open(c)' = l..Top(c)
    <3>1. ASSUME NEW k \in Levels(c) PROVE k \in Open(c)' <=> k \in Open(c) /\ k \notin low..(l - 1)
      <4>1. interval'[c][k] = IF k \in low..(l - 1) THEN Off ELSE interval[c][k]
        BY <1>8, LevelsAre
      <4> QED
        BY <4>1 DEF Open, Levels
    <3>2. Open(c)' \subseteq Levels(c) /\ Open(c) \subseteq Levels(c)
      BY DEF Open, Levels
    <3>3. Open(c)' = {k \in low..Top(c) : k \notin low..(l - 1)}
      BY <1>4, <3>1, <3>2
    <3> HIDE DEF l
    <3> QED
      BY <1>5, <1>6, <3>3
  <2>3. l \in 1..(Top(c)' + 1) /\ Open(c)' = l..Top(c)' /\ c \in told'
    BY <1>3, <1>5, <1>6, <2>1, <2>2
  <2> HIDE DEF l
  <2> QED
    BY <1>1, <2>3 DEF Sound, Opens, Levels
<1>11. InTurn(c)'
  <2>1. \A i \in DOMAIN q : q[i].level \in Levels(c)
    BY <1>1, <1>2 DEF Sound, InTurn
  <2>2. \A i \in DOMAIN q : q[i].op = "acquire" => q[i].level = level[c] /\ phase'[c] \in {"acquiring", "crashed"}
    BY <1>1, <1>2 DEF Sound, InTurn
  <2>3. \A i, j \in DOMAIN q : q[i].op = "acquire" /\ q[j].op = "acquire" => i = j
    <3>1. \A i \in DOMAIN q : i \in Nat
      BY <1>2
    <3>2. \A i, j \in DOMAIN q : q[i].op = "acquire" /\ q[j].op = "acquire" => i + 1 = j + 1
      BY <1>1, <1>2 DEF Sound, InTurn
    <3> QED
      BY <3>1, <3>2
  <2> HIDE DEF q
  <2> QED
    BY <1>1, <1>8, <2>1, <2>2, <2>3, ClosedInTurn
<1>12. Kept(c)'
  BY <1>3, NotLive DEF Live
<1> QED
  BY <1>1, <1>3, <1>8, <1>9, <1>10, <1>11, <1>12, OwnStep DEF TypeOK, Sound

\* The interval starts with the answer: what is left of the TTL lasts until its first RENEW is answered.
LEMMA AcquiredKeeps ==
    ASSUME IInv, NEW c \in Caller, Acquired(c), NEW l \in Levels(c), l = level[c]
    PROVE  IInv'
<1> DEFINE q == Tail(chan[c])
<1>1. TypeOK /\ Sound(c) /\ Answered(c, "acquire", {"yes"}) /\ UNCHANGED <<lock, told, faults>>
  BY DEF IInv, Acquired
<1>2. /\ q \in Seq(Command) /\ 1 \in DOMAIN chan[c] /\ chan[c] \in Seq(Command) /\ chan[c][1] \in Command
      /\ chan[c][1].op = "acquire" /\ chan[c][1].reply = "yes" /\ phase[c] # "crashed"
      /\ \A i \in DOMAIN q : i + 1 \in DOMAIN chan[c] /\ i + 1 # 1 /\ q[i] = chan[c][i + 1]
      /\ \A i \in DOMAIN chan[c] : i # 1 => i - 1 \in DOMAIN q /\ q[i - 1] = chan[c][i]
  BY <1>1, Answers
<1>3. phase[c] = "acquiring" /\ chan[c][1].level = l
  BY <1>1, <1>2 DEF Sound, InTurn
<1>4. l \in Levels(c) /\ l \in AllLevels /\ Levels(c) = 1..Len(KeysOf[c]) /\ Len(KeysOf[c]) \in Nat
  BY <1>1, LevelsAre DEF Sound, Opens
<1>5. \A i \in DOMAIN q : q[i].level \in Levels(c) /\ q[i].op # "acquire"
  BY <1>1, <1>2 DEF Sound, InTurn
<1>6. /\ interval' = [interval EXCEPT ![c][l] = RenewEvery]
      /\ interval'[c] = [interval[c] EXCEPT ![l] = RenewEvery]
      /\ interval' \in [Caller -> [AllLevels -> {Off} \cup 0..RenewEvery]]
  BY <1>1, <1>4, Constants DEF Acquired, TypeOK
<1>7. Open(c)' = Open(c) \cup {l}
  BY <1>1, <1>4, <1>6, Constants DEF Open, TypeOK
<1>8. \E low \in 1..(l + 1) : Open(c)' = low..l /\ (c \notin told => low = 1)
  <2>1. Top(c) = l - 1
    BY <1>3 DEF Top
  <2>2. PICK low \in 1..l : Open(c) = low..(l - 1) /\ (c \notin told => low = 1)
    BY <1>1, <1>4, <2>1 DEF Sound, Opens
  <2>3. Open(c)' = low..l
    BY <1>4, <1>7, <2>2
  <2> QED
    BY <1>4, <2>2, <2>3
\* What the new state's queue has kept of the old one's.
<1>9. ASSUME Live(c)',
             \A i \in DOMAIN chan'[c] : chan'[c][i].op # "release" /\
                 ~(chan'[c][i].op = "acquire" /\ chan'[c][i].reply = "yes"),
             \A i \in DOMAIN q : i \in DOMAIN chan'[c] /\ chan'[c][i] = q[i]
      PROVE  Kept(c)'
  <2>1. Live(c)
    BY <1>1, <1>3, <1>9 DEF Live
  <2>2. /\ lock[KeyAt(c, l)].ttl >= TTL - chan[c][1].age /\ chan[c][1].age \in 0..MaxDelay
        /\ lock[KeyAt(c, l)].ttl \in Nat /\ Owns(c, l)
    <3>1. KeyAt(c, l) \in Key
      BY <1>4, LevelsAre
    <3>2. Owns(c, l) /\ lock[KeyAt(c, l)].ttl >= TTL - chan[c][1].age
      BY <1>1, <1>2, <1>3, <2>1 DEF Sound, Kept
    <3>3. chan[c][1].age \in 0..MaxDelay
      BY <1>2 DEF Command
    <3>4. lock[KeyAt(c, l)].ttl \in 0..TTL
      BY <1>1, <3>1 DEF TypeOK, Keys
    <3> QED
      BY <3>2, <3>3, <3>4, Constants
  <2>3. lock[KeyAt(c, l)].ttl > RenewEvery + MaxDelay
    BY <2>1, <2>2, Constants DEF Live, Timed
  <2>4. Owns(c, l)' /\ Covered(c, l)'
    BY <1>1, <1>4, <1>6, <2>2, <2>3 DEF Owns, Covered, TypeOK
  <2>5. ASSUME NEW k \in Open(c), k # l PROVE Owns(c, k)' /\ Covered(c, k)'
    <3>1. Owns(c, k) /\ Covered(c, k)
      BY <1>1, <2>1 DEF Sound, Kept
    <3>2. interval'[c][k] = interval[c][k]
      BY <1>1, <1>6, <2>5, LevelsAre DEF Open, TypeOK
    <3>3. \A i \in DOMAIN chan[c] : chan[c][i].op = "renew" => i - 1 \in DOMAIN chan'[c] /\ chan'[c][i - 1] = chan[c][i]
      BY <1>2, <1>9
    <3> QED
      BY <1>1, <3>1, <3>2, <3>3 DEF Owns, Covered
  <2> QED
    BY <1>7, <1>9, <2>4, <2>5 DEF Kept
<1>10. \A i \in DOMAIN q : Live(c)' => q[i].op # "release"
  BY <1>1, <1>2, <1>3 DEF Sound, Kept, Live
<1>11. CASE l < Len(KeysOf[c])
  <2> DEFINE x == Sent("acquire", l + 1)
  <2>1. l + 1 \in Levels(c) /\ l + 1 \in AllLevels
    BY <1>4, <1>11, LevelsAre
  <2>2. x \in Command /\ x = [op |-> "acquire", level |-> l + 1, age |-> 0, reply |-> "none"]
    BY <2>1, SentIs
  <2>3. /\ phase' = [phase EXCEPT ![c] = "acquiring"] /\ level' = [level EXCEPT ![c] = l + 1]
        /\ deadline' = [deadline EXCEPT ![c] = RetryFor]
        /\ chan' = [chan EXCEPT ![c] = Append(Tail(@), x)]
    BY <1>11 DEF Acquired, StartLevel
  <2> HIDE DEF x
  <2>4. /\ Append(q, x) \in Seq(Command)
        /\ \A i \in DOMAIN q : i \in DOMAIN Append(q, x) /\ Append(q, x)[i] = q[i]
        /\ Append(q, x)[Len(q) + 1] = x
        /\ \A i \in DOMAIN Append(q, x) : i \in DOMAIN q \/ i = Len(q) + 1
    <3> HIDE DEF Command, q
    <3> QED
      BY <1>2, <2>2, Appends
  <2>5. chan'[c] = Append(q, x) /\ phase'[c] = "acquiring" /\ level'[c] = l + 1
    BY <1>1, <2>3 DEF TypeOK
  <2> HIDE DEF q
  <2>6. TypeOK'
    <3>1. chan' \in [Caller -> Seq(Command)]
      BY <1>1, <2>3, <2>4 DEF TypeOK, q
    <3> QED
      BY <1>1, <1>6, <2>1, <2>3, <3>1, Constants DEF TypeOK, Phase
  <2>7. Opens(c)'
    <3>1. Top(c)' = l /\ level'[c] \in Levels(c)
      BY <1>4, <2>1, <2>5 DEF Top
    <3> QED
      BY <1>1, <1>8, <3>1 DEF Opens, Levels
  <2>8. \A i \in DOMAIN chan'[c] :
           (i \in DOMAIN q /\ chan'[c][i] = q[i]) \/ (i = Len(q) + 1 /\ chan'[c][i] = x)
    BY <2>4, <2>5
  <2>9. InTurn(c)'
    BY <1>5, <2>1, <2>2, <2>5, <2>8 DEF InTurn, Levels
  <2>10. Kept(c)'
    <3>1. SUFFICES ASSUME Live(c)' PROVE Kept(c)'
      BY NotLive
    <3>2. x.op = "acquire" /\ x.reply = "none"
      BY <2>2
    <3>3. \A i \in DOMAIN chan'[c] : chan'[c][i].op # "release" /\
                 ~(chan'[c][i].op = "acquire" /\ chan'[c][i].reply = "yes")
      BY <1>5, <1>10, <2>8, <3>1, <3>2
    <3> QED
      BY <1>9, <2>4, <2>5, <3>1, <3>3
  <2> QED
    BY <1>1, <1>6, <2>3, <2>6, <2>7, <2>9, <2>10, OwnStep DEF TypeOK, Sound
<1>12. CASE ~(l < Len(KeysOf[c]))
  <2>1. /\ phase' = [phase EXCEPT ![c] = "inside"] /\ chan' = [chan EXCEPT ![c] = Tail(@)]
        /\ UNCHANGED <<level, deadline>>
    BY <1>12 DEF Acquired
  <2>2. chan'[c] = q /\ phase'[c] = "inside" /\ l = Len(KeysOf[c])
    BY <1>1, <1>4, <1>12, <2>1 DEF TypeOK
  <2>3. TypeOK'
    BY <1>1, <1>2, <1>6, <2>1 DEF TypeOK, Phase
  <2> HIDE DEF q
  <2>4. Opens(c)'
    <3>1. Top(c)' = l /\ level'[c] \in Levels(c)
      BY <1>4, <2>1, <2>2 DEF Top
    <3> QED
      BY <1>1, <1>8, <3>1 DEF Opens, Levels
  <2>5. InTurn(c)'
    BY <1>5, <2>2 DEF InTurn, Levels
  <2>6. Kept(c)'
    BY <1>5, <1>9, <1>10, <2>2, NotLive
  <2> QED
    BY <1>1, <1>6, <2>1, <2>3, <2>4, <2>5, <2>6, OwnStep DEF TypeOK, Sound
<1> QED
  BY <1>11, <1>12

\* With the interval at its end the key lasts until the RENEW is answered.
LEMMA RenewFiresKeeps ==
    ASSUME IInv, NEW c \in Caller, NEW l \in Levels(c), RenewFires(c, l)
    PROVE  IInv'
<1> DEFINE x == Sent("renew", l)
<1>1. TypeOK /\ Sound(c) /\ interval[c][l] = 0 /\ UNCHANGED <<lock, phase, level, deadline, told, faults>>
  BY DEF IInv, RenewFires
<1>2. l \in AllLevels /\ l \in Open(c)
  BY <1>1, LevelsAre, Constants DEF Open
<1>3. x \in Command /\ x = [op |-> "renew", level |-> l, age |-> 0, reply |-> "none"]
  BY <1>2, SentIs
<1>4. interval' = [interval EXCEPT ![c][l] = RenewEvery] /\ chan' = [chan EXCEPT ![c] = Append(@, x)]
  BY DEF RenewFires
<1> HIDE DEF x
<1>5. /\ Append(chan[c], x) \in Seq(Command)
      /\ \A i \in DOMAIN chan[c] : i \in DOMAIN Append(chan[c], x) /\ Append(chan[c], x)[i] = chan[c][i]
      /\ Len(chan[c]) + 1 \in DOMAIN Append(chan[c], x) /\ Append(chan[c], x)[Len(chan[c]) + 1] = x
      /\ \A i \in DOMAIN Append(chan[c], x) : i \in DOMAIN chan[c] \/ i = Len(chan[c]) + 1
  <2>1. chan[c] \in Seq(Command)
    BY <1>1 DEF TypeOK
  <2> HIDE DEF Command
  <2> QED
    BY <1>3, <2>1, Appends
<1>6. chan'[c] = Append(chan[c], x) /\ interval'[c] = [interval[c] EXCEPT ![l] = RenewEvery]
  BY <1>1, <1>4 DEF TypeOK
<1>7. TypeOK'
  <2>1. chan' \in [Caller -> Seq(Command)]
    BY <1>1, <1>4, <1>5 DEF TypeOK
  <2>2. interval' \in [Caller -> [AllLevels -> {Off} \cup 0..RenewEvery]]
    BY <1>1, <1>2, <1>4, Constants DEF TypeOK
  <2> QED
    BY <1>1, <2>1, <2>2 DEF TypeOK
<1>8. \A i \in DOMAIN chan'[c] :
         (i \in DOMAIN chan[c] /\ chan'[c][i] = chan[c][i]) \/ (i = Len(chan[c]) + 1 /\ chan'[c][i] = x)
  BY <1>5, <1>6
<1>9. Open(c)' = Open(c)
  BY <1>1, <1>2, <1>6, LevelsAre, Constants DEF Open, TypeOK
<1>10. Opens(c)'
  BY <1>1, <1>9 DEF Sound, Opens, Top, Levels
<1>11. InTurn(c)'
  BY <1>1, <1>3, <1>8 DEF Sound, InTurn, Levels
<1>12. Kept(c)'
  <2>1. SUFFICES ASSUME Live(c) PROVE Kept(c)'
    BY <1>1, NotLive DEF Live
  <2>2. x.op = "renew" /\ x.level = l /\ x.reply = "none" /\ x.age = 0
    BY <1>3
  <2>3. \A i \in DOMAIN chan[c] : i \in DOMAIN chan'[c] /\ chan'[c][i] = chan[c][i]
    BY <1>5, <1>6
  <2>4. ASSUME NEW k \in Open(c), k # l PROVE Covered(c, k)'
    <3>1. Covered(c, k)
      BY <1>1, <2>1 DEF Sound, Kept
    <3>2. interval'[c][k] = interval[c][k]
      BY <1>1, <1>6, <2>4, LevelsAre DEF Open, TypeOK
    <3> QED
      BY <1>1, <2>3, <3>1, <3>2 DEF Covered
  <2>5. Covered(c, l)'
    <3>1. Covered(c, l)
      BY <1>1, <1>2, <2>1 DEF Sound, Kept
    <3>2. CASE lock[KeyAt(c, l)].ttl > interval[c][l] + MaxDelay
      <4>1. lock[KeyAt(c, l)].ttl > MaxDelay - x.age
        BY <1>1, <2>2, <3>2, Constants
      <4>2. Len(chan[c]) + 1 \in DOMAIN chan'[c] /\ chan'[c][Len(chan[c]) + 1] = x
        BY <1>5, <1>6
      <4> QED
        BY <1>1, <2>2, <4>1, <4>2 DEF Covered
    <3>3. CASE ~(lock[KeyAt(c, l)].ttl > interval[c][l] + MaxDelay)
      BY <1>1, <2>3, <3>1, <3>3 DEF Covered
    <3> QED
      BY <3>2, <3>3
  <2>6. \A k \in Open(c) : Owns(c, k)'
    BY <1>1, <2>1 DEF Sound, Kept, Owns
  <2> QED
    BY <1>1, <1>8, <1>9, <2>1, <2>2, <2>4, <2>5, <2>6 DEF Sound, Kept, Owns
<1> QED
  BY <1>1, <1>4, <1>7, <1>10, <1>11, <1>12, OwnStep DEF TypeOK, Sound

-----------------------------------------------------------------------------
(* Faults. *)

LEMMA CrashKeeps ==
    ASSUME IInv, NEW c \in Caller, Crash(c)
    PROVE  IInv'
<1>1. TypeOK /\ Sound(c) /\ UNCHANGED <<lock, chan, level, deadline, told>>
  BY DEF IInv, Crash
<1>2. /\ phase' = [phase EXCEPT ![c] = "crashed"]
      /\ interval' = [interval EXCEPT ![c] = [l \in AllLevels |-> Off]]
      /\ faults' = faults + 1
  BY DEF Crash, Fault
<1>3. phase'[c] = "crashed" /\ interval'[c] = [l \in AllLevels |-> Off]
  BY <1>1, <1>2 DEF TypeOK
<1>4. TypeOK'
  BY <1>1, <1>2 DEF TypeOK, Phase
<1>5. Opens(c)'
  <2>1. Open(c)' = {} /\ Top(c)' = 0
    BY <1>3, LevelsAre DEF Open, Top
  <2>2. 1 \in 1..(Top(c)' + 1) /\ Open(c)' = 1..Top(c)'
    BY <2>1
  <2> QED
    BY <1>1, <2>2 DEF Sound, Opens, Levels
<1>6. InTurn(c)'
  BY <1>1, <1>3 DEF Sound, InTurn, Levels
<1>7. Kept(c)'
  BY <1>3, NotLive DEF Live
<1> QED
  BY <1>1, <1>2, <1>4, <1>5, <1>6, <1>7, OwnStep DEF TypeOK, Sound

LEMMA DisconnectKeeps ==
    ASSUME IInv, NEW c \in Caller, Disconnect(c)
    PROVE  IInv'
<1>1. TypeOK /\ Sound(c) /\ phase[c] = "crashed" /\ UNCHANGED <<lock, phase, level, deadline, interval, told, faults>>
  BY DEF IInv, Disconnect
<1>2. chan' = [chan EXCEPT ![c] = <<>>]
  BY DEF Disconnect
<1>3. chan'[c] = <<>>
  BY <1>1, <1>2 DEF TypeOK
<1>4. TypeOK'
  BY <1>1, <1>2 DEF TypeOK
<1>5. Opens(c)'
  BY <1>1 DEF Sound, Opens, Top, Open, Levels
<1>6. InTurn(c)'
  BY <1>3 DEF InTurn
<1>7. Kept(c)'
  BY <1>1, NotLive DEF Live
<1> QED
  BY <1>1, <1>2, <1>4, <1>5, <1>6, <1>7, OwnStep DEF TypeOK, Sound

\* A command is answered; the others stay as they are.
LEMMA Replies ==
    ASSUME TypeOK, NEW c \in Caller, NEW i \in DOMAIN chan[c], NEW r \in {"yes", "no", "error"},
           chan' = [chan EXCEPT ![c][i].reply = r]
    PROVE  /\ chan' \in [Caller -> Seq(Command)] /\ DOMAIN chan'[c] = DOMAIN chan[c]
           /\ \A j \in DOMAIN chan[c] :
                 /\ chan'[c][j].op = chan[c][j].op /\ chan'[c][j].level = chan[c][j].level
                 /\ chan'[c][j].age = chan[c][j].age
                 /\ j # i => chan'[c][j] = chan[c][j]
           /\ chan'[c][i].reply = r
           /\ \A d \in Caller \ {c} : chan'[d] = chan[d]
<1> DEFINE x == [chan[c][i] EXCEPT !.reply = r]
           q == [chan[c] EXCEPT ![i] = x]
<1>1. chan[c] \in Seq(Command) /\ chan[c][i] \in Command
  BY DEF TypeOK
<1>2. /\ x \in Command /\ x.reply = r /\ x.op = chan[c][i].op
      /\ x.level = chan[c][i].level /\ x.age = chan[c][i].age
  BY <1>1 DEF Command
<1>3. chan' = [chan EXCEPT ![c] = q]
  BY DEF TypeOK
<1> HIDE DEF x
<1>4. q \in Seq(Command) /\ DOMAIN q = DOMAIN chan[c] /\ q[i] = x /\ \A j \in DOMAIN chan[c] : j # i => q[j] = chan[c][j]
  <2> HIDE DEF Command
  <2> QED
    BY <1>1, <1>2
<1>5. chan'[c] = q
  BY <1>3 DEF TypeOK
<1> HIDE DEF q
<1> QED
  BY <1>2, <1>3, <1>4, <1>5 DEF TypeOK

LEMMA RefuseKeeps ==
    ASSUME IInv, NEW c \in Caller, Refuse(c)
    PROVE  IInv'
<1>1. TypeOK /\ Sound(c) /\ faults' = faults + 1 /\ UNCHANGED <<lock, phase, level, deadline, interval, told>>
  BY DEF IInv, Refuse, Fault
<1>2. PICK i \in DOMAIN chan[c] : chan' = [chan EXCEPT ![c][i].reply = "error"]
  BY DEF Refuse
<1>3. /\ chan' \in [Caller -> Seq(Command)] /\ DOMAIN chan'[c] = DOMAIN chan[c]
      /\ \A j \in DOMAIN chan[c] :
            /\ chan'[c][j].op = chan[c][j].op /\ chan'[c][j].level = chan[c][j].level
            /\ chan'[c][j].age = chan[c][j].age
            /\ j # i => chan'[c][j] = chan[c][j]
      /\ chan'[c][i].reply = "error"
      /\ \A d \in Caller \ {c} : chan'[d] = chan[d]
  BY <1>1, <1>2, Replies
<1>4. TypeOK'
  BY <1>1, <1>3 DEF TypeOK
<1>5. Opens(c)'
  BY <1>1 DEF Sound, Opens, Top, Open, Levels
<1>6. InTurn(c)'
  BY <1>1, <1>3 DEF Sound, InTurn, Levels
<1>7. Kept(c)'
  <2>1. Open(c)' = Open(c) /\ Live(c)' = Live(c)
    BY <1>1 DEF Open, Live
  <2>2. \A l \in Open(c) : Covered(c, l) => Covered(c, l)'
    BY <1>1, <1>3 DEF Covered
  <2>3. \A j \in DOMAIN chan'[c] :
           /\ j \in DOMAIN chan[c] /\ chan'[c][j].op = chan[c][j].op
           /\ chan'[c][j].op = "acquire" /\ chan'[c][j].reply = "yes" => chan'[c][j] = chan[c][j]
    BY <1>3
  <2>4. /\ \A l \in Open(c) : Owns(c, l) => Owns(c, l)'
        /\ \A j \in DOMAIN chan[c] : Owns(c, chan[c][j].level) =>
               lock'[KeyAt(c, chan[c][j].level)].owner = <<c, chan[c][j].level>>
    BY <1>1 DEF Owns
  <2> QED
    BY <1>1, <2>1, <2>2, <2>3, <2>4 DEF Sound, Kept, Owns
<1> QED
  BY <1>1, <1>3, <1>4, <1>5, <1>6, <1>7, OwnStep DEF Sound

\* No answer is left that was granted.
LEMMA ResendKeeps ==
    ASSUME IInv, NEW c \in Caller, Resend(c)
    PROVE  IInv'
<1> DEFINE q == [i \in DOMAIN chan[c] |-> Unanswered(chan[c][i])]
<1>1. TypeOK /\ Sound(c) /\ faults' = faults + 1 /\ UNCHANGED <<lock, phase, level, deadline, interval, told>>
  BY DEF IInv, Resend, Fault
<1>2. chan' = [chan EXCEPT ![c] = q]
  BY DEF Resend, TypeOK
<1>3. \A x \in Command :
         /\ Unanswered(x) \in Command /\ Unanswered(x).reply \in {"none", "error"}
         /\ Unanswered(x).op = x.op /\ Unanswered(x).level = x.level /\ Unanswered(x).age = x.age
  BY DEF Unanswered, Command
<1>4. /\ q \in Seq(Command) /\ DOMAIN q = DOMAIN chan[c]
      /\ \A i \in DOMAIN chan[c] :
            /\ q[i].reply \in {"none", "error"} /\ q[i].op = chan[c][i].op
            /\ q[i].level = chan[c][i].level /\ q[i].age = chan[c][i].age
  <2>1. chan[c] \in Seq(Command)
    BY <1>1 DEF TypeOK
  <2> HIDE DEF Command
  <2> QED
    BY <1>3, <2>1
<1>5. chan'[c] = q
  BY <1>1, <1>2 DEF TypeOK
<1> HIDE DEF q
<1>6. TypeOK'
  BY <1>1, <1>2, <1>4 DEF TypeOK
<1>7. Opens(c)'
  BY <1>1 DEF Sound, Opens, Top, Open, Levels
<1>8. InTurn(c)'
  BY <1>1, <1>4, <1>5 DEF Sound, InTurn, Levels
<1>9. Kept(c)'
  <2>1. Open(c)' = Open(c) /\ Live(c)' = Live(c)
    BY <1>1 DEF Open, Live
  <2>2. \A l \in Open(c) : Covered(c, l) => Covered(c, l)'
    BY <1>1, <1>4, <1>5 DEF Covered
  <2> QED
    BY <1>1, <1>4, <1>5, <2>1, <2>2 DEF Sound, Kept, Owns
<1> QED
  BY <1>1, <1>2, <1>6, <1>7, <1>8, <1>9, OwnStep DEF TypeOK, Sound

-----------------------------------------------------------------------------
(* Redis and the clock. *)

\* A script takes a key from nobody but its caller, by its RELEASE, and leaves it no shorter.
LEMMA ScriptSpares ==
    ASSUME TypeOK, NEW d \in Caller, NEW x \in Command, x.level \in Levels(d),
           lock' = [lock EXCEPT ![KeyAt(d, x.level)] = Script(d, x).key],
           NEW c \in Caller, NEW l \in Levels(c), Owns(c, l), c = d => x.op # "release"
    PROVE  /\ Owns(c, l)' /\ lock'[KeyAt(c, l)].ttl >= lock[KeyAt(c, l)].ttl
           /\ c = d /\ x.op = "renew" /\ x.level = l =>
                 Script(d, x).granted /\ lock'[KeyAt(c, l)].ttl = TTL
<1> DEFINE k == KeyAt(c, l)
<1>1. k \in Key /\ lock[k].owner = <<c, l>> /\ lock[k].ttl \in 0..TTL /\ KeyAt(d, x.level) \in Key
  BY LevelsAre DEF Owns, TypeOK, Keys
<1>2. <<c, l>> # NoToken
  BY LevelsAre, Constants DEF Token
<1>3. CASE KeyAt(d, x.level) # k
  BY <1>1, <1>3 DEF Owns, TypeOK
<1>4. CASE KeyAt(d, x.level) = k
  <2>1. lock'[k] = Script(d, x).key
    BY <1>1, <1>4 DEF TypeOK
  <2>2. CASE x.op = "acquire"
    BY <1>1, <1>2, <1>4, <2>1, <2>2 DEF Owns, Script, Acquire
  <2>3. CASE x.op = "renew"
    <3>1. Script(d, x) = Renew(lock[k], <<d, x.level>>)
      BY <1>4, <2>3 DEF Script
    <3>2. CASE <<d, x.level>> = <<c, l>>
      BY <1>1, <2>1, <3>1, <3>2, Constants DEF Owns, Renew, Held
    <3>3. CASE <<d, x.level>> # <<c, l>>
      BY <1>1, <2>1, <3>1, <3>3 DEF Owns, Renew
    <3> QED
      BY <3>2, <3>3
  <2>4. CASE x.op = "release"
    <3>1. Script(d, x) = Release(lock[k], <<d, x.level>>) /\ <<d, x.level>> # <<c, l>>
      BY <1>4, <2>4 DEF Script
    <3> QED
      BY <1>1, <2>1, <2>4, <3>1 DEF Owns, Release
  <2> QED
    BY <2>2, <2>3, <2>4 DEF Command
<1> QED
  BY <1>3, <1>4

\* What a script leaves is a key.
LEMMA ScriptTypes ==
    ASSUME NEW d \in Caller, NEW x \in Command, x.level \in Levels(d), TypeOK
    PROVE  /\ Script(d, x).key \in Keys(Token)
           /\ x.op = "acquire" /\ Script(d, x).granted =>
                 Script(d, x).key.owner = <<d, x.level>> /\ Script(d, x).key.ttl = TTL
<1>1. lock[KeyAt(d, x.level)] \in Keys(Token) /\ <<d, x.level>> \in Token
  BY LevelsAre DEF TypeOK, Token
<1>2. Held(<<d, x.level>>, TTL) \in Keys(Token) /\ Free \in Keys(Token)
  BY <1>1, Constants DEF Keys, Held, Free
<1> QED
  BY <1>1, <1>2 DEF Script, Acquire, Renew, Release, Held

LEMMA ExecuteKeeps ==
    ASSUME IInv, NEW d \in Caller, Execute(d)
    PROVE  IInv'
<1>1. TypeOK /\ \A c \in Caller : Sound(c)
  BY DEF IInv
<1>2. UNCHANGED <<phase, level, deadline, interval, told, faults>>
  BY DEF Execute
<1>3. PICK i \in DOMAIN chan[d] :
         /\ lock' = [lock EXCEPT ![KeyAt(d, chan[d][i].level)] = Script(d, chan[d][i]).key]
         /\ chan' = [chan EXCEPT ![d][i].reply = IF Script(d, chan[d][i]).granted THEN "yes" ELSE "no"]
  BY DEF Execute
<1> DEFINE x == chan[d][i]
           r == IF Script(d, x).granted THEN "yes" ELSE "no"
<1>4. x \in Command /\ x.level \in Levels(d) /\ r \in {"yes", "no", "error"}
  BY <1>1 DEF TypeOK, Sound, InTurn
<1>5. /\ chan' \in [Caller -> Seq(Command)] /\ DOMAIN chan'[d] = DOMAIN chan[d]
      /\ \A j \in DOMAIN chan[d] :
            /\ chan'[d][j].op = chan[d][j].op /\ chan'[d][j].level = chan[d][j].level
            /\ chan'[d][j].age = chan[d][j].age
            /\ j # i => chan'[d][j] = chan[d][j]
      /\ chan'[d][i].reply = r
      /\ \A c \in Caller \ {d} : chan'[c] = chan[c]
  <2>1. PICK y \in {"yes", "no", "error"} : y = r /\ chan' = [chan EXCEPT ![d][i].reply = y]
    BY <1>3, <1>4
  <2> HIDE DEF r, x, Command
  <2>2. i \in DOMAIN chan[d] /\ TypeOK
    BY <1>1, <1>3
  <2> QED
    BY <2>1, <2>2, Replies
<1>6. TypeOK'
  <2>1. lock' \in [Key -> Keys(Token)]
    BY <1>1, <1>3, <1>4, ScriptTypes DEF TypeOK
  <2> QED
    BY <1>1, <1>2, <1>5, <2>1 DEF TypeOK
<1>7. ASSUME NEW c \in Caller PROVE Sound(c)'
  <2>1. /\ DOMAIN chan'[c] = DOMAIN chan[c]
        /\ \A j \in DOMAIN chan[c] :
              /\ chan'[c][j].op = chan[c][j].op /\ chan'[c][j].level = chan[c][j].level
              /\ chan'[c][j].age = chan[c][j].age
              /\ ~(c = d /\ j = i) => chan'[c][j] = chan[c][j]
    BY <1>5
  <2>2. Opens(c)'
    BY <1>1, <1>2 DEF Sound, Opens, Top, Open, Levels
  <2>3. InTurn(c)'
    BY <1>1, <1>2, <2>1 DEF Sound, InTurn, Levels
  <2>4. Kept(c)'
    <3>1. SUFFICES ASSUME Live(c) PROVE Kept(c)'
      BY <1>2, NotLive DEF Live
    <3>2. Kept(c) /\ Opens(c) /\ InTurn(c) /\ (c = d => x.op # "release") /\ Open(c)' = Open(c)
      BY <1>1, <1>2, <3>1 DEF Sound, Kept, Open
    <3>3. ASSUME NEW l \in Levels(c), Owns(c, l)
          PROVE  /\ Owns(c, l)' /\ lock'[KeyAt(c, l)].ttl >= lock[KeyAt(c, l)].ttl
                 /\ c = d /\ x.op = "renew" /\ x.level = l =>
                       Script(d, x).granted /\ lock'[KeyAt(c, l)].ttl = TTL
      <4> HIDE DEF x
      <4> QED
        BY <1>1, <1>3, <1>4, <3>2, <3>3, ScriptSpares DEF x
    <3>4. \A j \in DOMAIN chan'[c] : chan'[c][j].op # "release"
      BY <2>1, <3>1, <3>2 DEF Kept
    <3>5. ASSUME NEW j \in DOMAIN chan'[c], chan'[c][j].op = "acquire", chan'[c][j].reply = "yes"
          PROVE  /\ lock'[KeyAt(c, chan'[c][j].level)].owner = <<c, chan'[c][j].level>>
                 /\ lock'[KeyAt(c, chan'[c][j].level)].ttl >= TTL - chan'[c][j].age
      <4>1. CASE c = d /\ j = i
        <5>1. x.op = "acquire" /\ Script(d, x).granted /\ chan'[c][j].level = x.level
          BY <1>5, <3>5, <4>1
        <5>2. lock'[KeyAt(d, x.level)] = Script(d, x).key
          BY <1>1, <1>3, <1>4, LevelsAre DEF TypeOK
        <5>3. Script(d, x).key.owner = <<d, x.level>> /\ Script(d, x).key.ttl = TTL
          BY <1>1, <1>4, <5>1, ScriptTypes
        <5>4. chan'[c][j].age \in Nat
          BY <1>4, <1>5, <4>1, Constants DEF Command
        <5> QED
          BY <4>1, <5>1, <5>2, <5>3, <5>4, Constants DEF Owns, KeyAt
      <4>2. CASE ~(c = d /\ j = i)
        <5>1. j \in DOMAIN chan[c] /\ chan'[c][j] = chan[c][j]
          BY <2>1, <4>2
        <5>2. /\ chan[c][j].level \in Levels(c) /\ Owns(c, chan[c][j].level)
              /\ lock[KeyAt(c, chan[c][j].level)].ttl >= TTL - chan[c][j].age
          BY <3>1, <3>2, <3>5, <5>1 DEF Kept, InTurn
        <5>3. chan[c][j] \in Command /\ KeyAt(c, chan[c][j].level) \in Key
          BY <1>1, <5>1, <5>2, LevelsAre DEF TypeOK
        <5> DEFINE m == chan[c][j].level
        <5>4. lock[KeyAt(c, m)].ttl \in Int /\ lock'[KeyAt(c, m)].ttl \in Int
          <6>1. /\ KeyAt(c, m) \in Key
                /\ lock \in [Key -> Keys(Token)] /\ lock' \in [Key -> Keys(Token)]
            BY <1>1, <1>6, <5>3 DEF TypeOK
          <6> HIDE DEF m
          <6>2. lock[KeyAt(c, m)] \in Keys(Token) /\ lock'[KeyAt(c, m)] \in Keys(Token)
            BY <6>1
          <6> QED
            BY <6>2, Constants DEF Keys
        <5>5. chan[c][j].age \in Int
          BY <5>3, Constants DEF Command
        <5>6. lock'[KeyAt(c, m)].owner = <<c, m>> /\ lock'[KeyAt(c, m)].ttl >= lock[KeyAt(c, m)].ttl
          <6> HIDE DEF m
          <6> QED
            BY <3>3, <5>2 DEF Owns, m
        <5> QED
          BY <5>1, <5>2, <5>4, <5>5, <5>6, Constants
      <4> QED
        BY <4>1, <4>2
    <3>6. ASSUME NEW l \in Open(c) PROVE Owns(c, l)' /\ Covered(c, l)'
      <4>1. l \in Levels(c) /\ Owns(c, l) /\ Covered(c, l) /\ KeyAt(c, l) \in Key
        BY <3>1, <3>2, LevelsAre DEF Kept, Open
      <4>2. lock[KeyAt(c, l)].ttl \in Nat /\ lock'[KeyAt(c, l)].ttl \in Nat
        BY <1>1, <1>6, <4>1, Constants DEF TypeOK, Keys
      <4>3. interval[c][l] \in 0..RenewEvery /\ interval'[c][l] = interval[c][l]
        BY <1>1, <1>2, <4>1, LevelsAre, Constants DEF TypeOK, Open
      <4>4. CASE lock[KeyAt(c, l)].ttl > interval[c][l] + MaxDelay
        BY <3>3, <4>1, <4>2, <4>3, <4>4, Constants DEF Covered
      <4>5. ASSUME NEW j \in DOMAIN chan[c], chan[c][j].op = "renew", chan[c][j].level = l,
                   chan[c][j].reply # "yes", lock[KeyAt(c, l)].ttl > MaxDelay - chan[c][j].age
            PROVE  Covered(c, l)'
        <5>1. CASE c = d /\ j = i
          <6>1. lock'[KeyAt(c, l)].ttl = TTL
            BY <3>3, <4>1, <4>5, <5>1
          <6>2. TTL > interval[c][l] + MaxDelay
            BY <3>1, <4>3, Constants DEF Live, Timed
          <6> QED
            BY <4>3, <6>1, <6>2 DEF Covered, KeyAt
        <5>2. CASE ~(c = d /\ j = i)
          <6>1. j \in DOMAIN chan'[c] /\ chan'[c][j] = chan[c][j]
            BY <2>1, <5>2
          <6>2. chan[c][j] \in Command
            <7> HIDE DEF Command
            <7> QED
              BY <1>1, <4>5 DEF TypeOK
          <6>3. chan[c][j].age \in Int
            BY <6>2, Constants DEF Command
          <6> QED
            BY <3>3, <4>1, <4>2, <4>5, <6>1, <6>3, Constants DEF Covered, KeyAt
        <5> QED
          BY <5>1, <5>2
      <4> QED
        BY <3>3, <4>1, <4>4, <4>5 DEF Covered
    <3> QED
      BY <3>2, <3>4, <3>5, <3>6 DEF Kept, Owns
  <2> QED
    BY <2>2, <2>3, <2>4 DEF Sound
<1> QED
  BY <1>6, <1>7 DEF IInv

\* A tick ages commands and keys; only a key in its last tick expires.
LEMMA OlderIs ==
    ASSUME NEW x \in Command
    PROVE  /\ Older(x) \in Command /\ Older(x).op = x.op /\ Older(x).level = x.level
           /\ Older(x).reply = x.reply /\ x.age \in 0..MaxDelay
           /\ x.age < MaxDelay => Older(x).age = x.age + 1
BY Constants DEF Older, Command

LEMMA AgedIs ==
    ASSUME NEW k \in Keys(Token)
    PROVE  /\ Aged(k) \in Keys(Token) /\ k.ttl \in Nat
           /\ k.ttl >= 2 => Aged(k).owner = k.owner /\ Aged(k).ttl = k.ttl - 1
BY Constants DEF Aged, Keys, Free

\* Time runs down for key, interval and RENEW alike, and stops before an interval or an answer is late.
LEMMA TickKeeps ==
    ASSUME IInv, Tick
    PROVE  IInv'
<1>1. /\ TypeOK /\ (\A c \in Caller : Sound(c)) /\ UNCHANGED <<phase, level, told, faults>>
      /\ Timed => OnTime
  BY DEF IInv, Timed, Tick
<1>2. ASSUME NEW c \in Caller
      PROVE  /\ chan'[c] \in Seq(Command) /\ DOMAIN chan'[c] = DOMAIN chan[c]
             /\ \A i \in DOMAIN chan[c] : chan[c][i] \in Command /\ chan'[c][i] = Older(chan[c][i])
  <2>1. chan[c] \in Seq(Command) /\ chan'[c] = [i \in DOMAIN chan[c] |-> Older(chan[c][i])]
    BY <1>1 DEF Tick, TypeOK
  <2>2. \A x \in Command : Older(x) \in Command
    BY OlderIs
  <2> HIDE DEF Command
  <2> QED
    BY <2>1, <2>2
<1>3. ASSUME NEW c \in Caller
      PROVE  \A i \in DOMAIN chan[c] :
                /\ chan'[c][i].op = chan[c][i].op /\ chan'[c][i].level = chan[c][i].level
                /\ chan'[c][i].reply = chan[c][i].reply /\ chan[c][i].age \in 0..MaxDelay
                /\ chan[c][i].age < MaxDelay => chan'[c][i].age = chan[c][i].age + 1
  <2> HIDE DEF Command
  <2> QED
    BY <1>2, OlderIs
<1>4. lock' \in [Key -> Keys(Token)]
  BY <1>1, AgedIs DEF Tick, TypeOK
<1>5. interval' \in [Caller -> [AllLevels -> {Off} \cup 0..RenewEvery]]
  <2>1. ASSUME NEW c \in Caller, NEW l \in AllLevels PROVE Down(interval[c][l]) \in {Off} \cup 0..RenewEvery
    BY <1>1, Constants DEF Down, TypeOK
  <2> QED
    BY <2>1 DEF Tick
<1>6. deadline' \in [Caller -> 0..RetryFor]
  <2>1. ASSUME NEW c \in Caller PROVE Down(deadline[c]) \in 0..RetryFor
    BY <1>1, Constants DEF Down, TypeOK
  <2> QED
    BY <2>1 DEF Tick
<1>7. TypeOK'
  <2>1. chan' \in [Caller -> Seq(Command)]
    <3>1. chan' = [c \in Caller |-> chan'[c]]
      BY DEF Tick
    <3> HIDE DEF Command
    <3> QED
      BY <1>2, <3>1
  <2> QED
    BY <1>1, <1>4, <1>5, <1>6, <2>1 DEF TypeOK
<1>8. ASSUME NEW c \in Caller PROVE Sound(c)'
  <2>1. \A l \in Levels(c) : interval'[c][l] = Down(interval[c][l]) /\ interval[c][l] \in {Off} \cup 0..RenewEvery
    BY <1>1, LevelsAre DEF Tick, TypeOK
  <2>2. Open(c)' = Open(c)
    <3>1. \A l \in Levels(c) : interval'[c][l] = Off <=> interval[c][l] = Off
      BY <2>1, Constants DEF Down
    <3> QED
      BY <3>1 DEF Open, Levels
  <2>3. Opens(c)'
    BY <1>1, <2>2 DEF Sound, Opens, Top, Levels
  <2>4. InTurn(c)'
    <3>1. /\ DOMAIN chan'[c] = DOMAIN chan[c]
          /\ \A i \in DOMAIN chan[c] :
                chan'[c][i].op = chan[c][i].op /\ chan'[c][i].level = chan[c][i].level
      BY <1>2, <1>3
    <3>2. InTurn(c) /\ level'[c] = level[c] /\ phase'[c] = phase[c]
      BY <1>1 DEF Sound
    <3> QED
      BY <3>1, <3>2 DEF InTurn, Levels
  <2>5. Kept(c)'
    <3>1. SUFFICES ASSUME Live(c) PROVE Kept(c)'
      BY <1>1, NotLive DEF Live
    <3>2. /\ \A i \in DOMAIN chan[c] : chan[c][i].age < MaxDelay
          /\ \A l \in Levels(c) : interval[c][l] # 0
      BY <1>1, <3>1 DEF OnTime, Live
    <3>3. ASSUME NEW l \in Levels(c), Owns(c, l)
          PROVE  /\ lock[KeyAt(c, l)].ttl \in Nat
                 /\ lock[KeyAt(c, l)].ttl >= 2 =>
                       Owns(c, l)' /\ lock'[KeyAt(c, l)].ttl = lock[KeyAt(c, l)].ttl - 1
      <4>1. KeyAt(c, l) \in Key
        BY LevelsAre
      <4>2. lock[KeyAt(c, l)] \in Keys(Token) /\ lock'[KeyAt(c, l)] = Aged(lock[KeyAt(c, l)])
        BY <1>1, <4>1 DEF Tick, TypeOK
      <4> QED
        BY <3>3, <4>2, AgedIs DEF Owns
    <3>4. ASSUME NEW i \in DOMAIN chan[c], chan[c][i].op = "acquire", chan[c][i].reply = "yes"
          PROVE  /\ lock'[KeyAt(c, chan[c][i].level)].owner = <<c, chan[c][i].level>>
                 /\ lock'[KeyAt(c, chan[c][i].level)].ttl >= TTL - chan'[c][i].age
      <4> DEFINE m == chan[c][i].level
      <4>1. m \in Levels(c) /\ Owns(c, m) /\ lock[KeyAt(c, m)].ttl >= TTL - chan[c][i].age
        BY <1>1, <3>1, <3>4 DEF Sound, Kept, InTurn
      <4>2. chan[c][i].age \in 0..MaxDelay /\ chan[c][i].age < MaxDelay /\ chan'[c][i].age = chan[c][i].age + 1
        BY <1>3, <3>2
      <4> HIDE DEF m
      <4>3. lock[KeyAt(c, m)].ttl >= 2 /\ lock[KeyAt(c, m)].ttl \in Nat
        BY <3>1, <3>3, <4>1, <4>2, Constants DEF Live, Timed
      <4>4. lock'[KeyAt(c, m)].owner = <<c, m>> /\ lock'[KeyAt(c, m)].ttl = lock[KeyAt(c, m)].ttl - 1
        BY <3>3, <4>1, <4>3 DEF Owns
      <4>5. lock'[KeyAt(c, m)].ttl >= TTL - chan'[c][i].age
        BY <4>1, <4>2, <4>3, <4>4, Constants
      <4> QED
        BY <4>4, <4>5 DEF m
    <3>5. ASSUME NEW l \in Open(c) PROVE Owns(c, l)' /\ Covered(c, l)'
      <4>1. l \in Levels(c) /\ Owns(c, l) /\ Covered(c, l)
        BY <1>1, <3>1, <3>5 DEF Sound, Kept, Open
      <4>2. interval[c][l] \in 1..RenewEvery /\ interval'[c][l] = interval[c][l] - 1
        BY <2>1, <3>2, <3>5, <4>1, Constants DEF Open, Down
      <4>3. CASE lock[KeyAt(c, l)].ttl > interval[c][l] + MaxDelay
        <5>1. lock[KeyAt(c, l)].ttl \in Nat /\ lock[KeyAt(c, l)].ttl >= 2
          BY <3>3, <4>1, <4>2, <4>3, Constants
        <5>2. Owns(c, l)' /\ lock'[KeyAt(c, l)].ttl = lock[KeyAt(c, l)].ttl - 1
          BY <3>3, <4>1, <5>1
        <5>3. lock'[KeyAt(c, l)].ttl > interval'[c][l] + MaxDelay
          BY <4>2, <4>3, <5>1, <5>2, Constants
        <5> QED
          BY <5>2, <5>3 DEF Covered
      <4>4. ASSUME NEW i \in DOMAIN chan[c], chan[c][i].op = "renew", chan[c][i].level = l,
                   chan[c][i].reply # "yes", lock[KeyAt(c, l)].ttl > MaxDelay - chan[c][i].age
            PROVE  Owns(c, l)' /\ Covered(c, l)'
        <5>1. chan[c][i].age \in 0..MaxDelay /\ chan[c][i].age < MaxDelay /\ chan'[c][i].age = chan[c][i].age + 1
          BY <1>3, <3>2
        <5>2. lock[KeyAt(c, l)].ttl \in Nat /\ lock[KeyAt(c, l)].ttl >= 2
          BY <3>3, <4>1, <4>4, <5>1, Constants
        <5>3. Owns(c, l)' /\ lock'[KeyAt(c, l)].ttl = lock[KeyAt(c, l)].ttl - 1
          BY <3>3, <4>1, <5>2
        <5>4. lock'[KeyAt(c, l)].ttl > MaxDelay - chan'[c][i].age
          BY <4>4, <5>1, <5>2, <5>3, Constants
        <5>5. /\ i \in DOMAIN chan'[c] /\ chan'[c][i].op = "renew" /\ chan'[c][i].level = l
              /\ chan'[c][i].reply # "yes"
          BY <1>2, <1>3, <4>4
        <5> QED
          BY <5>3, <5>4, <5>5 DEF Covered
      <4> QED
        BY <4>1, <4>3, <4>4 DEF Covered
    <3>6. \A i \in DOMAIN chan'[c] : chan'[c][i].op # "release"
      BY <1>1, <1>2, <1>3, <3>1 DEF Sound, Kept
    <3>7. \A i \in DOMAIN chan'[c] : chan'[c][i].op = "acquire" /\ chan'[c][i].reply = "yes" =>
              /\ lock'[KeyAt(c, chan'[c][i].level)].owner = <<c, chan'[c][i].level>>
              /\ lock'[KeyAt(c, chan'[c][i].level)].ttl >= TTL - chan'[c][i].age
      BY <1>2, <1>3, <3>4
    <3> QED
      BY <2>2, <3>5, <3>6, <3>7 DEF Kept, Owns
  <2> QED
    BY <2>3, <2>4, <2>5 DEF Sound
<1> QED
  BY <1>7, <1>8 DEF IInv

-----------------------------------------------------------------------------
(* The invariant and what it says. *)

LEMMA InitHolds == ASSUME Init PROVE IInv
<1>1. TypeOK
  <2>1. ASSUME NEW c \in Caller PROVE 1 \in Levels(c) /\ 1 \in AllLevels
    BY LevelsAre
  <2> QED
    BY <2>1, Constants DEF Init, TypeOK, Phase, Keys, Free
<1>2. ASSUME NEW c \in Caller PROVE Sound(c)
  <2>1. 1 \in Levels(c) /\ Open(c) = {} /\ Top(c) = 0 /\ chan[c] = <<>>
    BY <1>2, LevelsAre DEF Init, Open, Top
  <2>2. Open(c) = 1..0
    BY <2>1
  <2>3. Opens(c)
    BY <2>1, <2>2 DEF Opens, Init
  <2> QED
    BY <2>1, <2>3 DEF Sound, InTurn, Kept
<1> QED
  BY <1>1, <1>2 DEF IInv

LEMMA NextKeeps == ASSUME IInv, [Next]_vars PROVE IInv'
<1>1. CASE Tick
  BY <1>1, TickKeeps
<1>2. ASSUME NEW c \in Caller, Step(c) PROVE IInv'
  <2>1. CASE Acquired(c)
    <3>1. level[c] \in Levels(c)
      BY DEF IInv, Sound, Opens
    <3> QED
      BY <2>1, <3>1, AcquiredKeeps
  <2>2. ASSUME NEW l \in Levels(c), RenewFires(c, l) PROVE IInv'
    BY <2>2, RenewFiresKeeps
  <2> QED
    BY <1>2, <2>1, <2>2, CallKeeps, WakesKeeps, FnSettlesKeeps, TakenKeeps, AcquireFailsKeeps,
       RenewSettlesKeeps, RenewLostKeeps, ReleaseSettlesKeeps, ExecuteKeeps, RefuseKeeps,
       ResendKeeps, CrashKeeps, DisconnectKeeps DEF Step, Settles
<1>3. CASE UNCHANGED vars
  <2> USE <1>3 DEF vars
  <2>1. TypeOK'
    BY DEF IInv, TypeOK
  <2>2. ASSUME NEW c \in Caller PROVE Sound(c)'
    <3>1. Sound(c) /\ Open(c)' = Open(c) /\ Top(c)' = Top(c)
      BY DEF IInv, Open, Top
    <3>2. Opens(c)' /\ InTurn(c)'
      BY <3>1 DEF Sound, Opens, InTurn, Levels
    <3>3. Kept(c)'
      BY <3>1 DEF Sound, Kept, Live, Covered, Owns
    <3> QED
      BY <3>2, <3>3 DEF Sound
  <2> QED
    BY <2>1, <2>2 DEF IInv
<1> QED
  BY <1>1, <1>2, <1>3 DEF Next

\* The levels and the commands of a caller follow one another whatever fails; with timely answers
\* every interval's key is its caller's, with enough left of its TTL.
THEOREM Invariance == Spec => []IInv
<1>1. Init => IInv
  BY InitHolds
<1>2. IInv /\ [Next]_vars => IInv'
  BY NextKeeps
<1> QED
  BY <1>1, <1>2, PTL DEF Spec

\* fn runs under all its keys until its caller is told otherwise, for any callers, keys, TTL
\* and answer delay that leave room for the interval and two answers.
THEOREM HeldInside == ASSUME Timed PROVE Spec => []HeldWhileInside
<1>1. IInv => HeldWhileInside
  <2>1. ASSUME IInv, NEW c \in Caller \ told, phase[c] = "inside" PROVE \A l \in Levels(c) : Owns(c, l)
    <3>1. Open(c) = 1..Len(KeysOf[c])
      <4>1. Top(c) = Len(KeysOf[c]) /\ Opens(c)
        BY <2>1 DEF IInv, Sound, Top
      <4> QED
        BY <2>1, <4>1 DEF Opens
    <3>2. Levels(c) = Open(c)
      BY <3>1, LevelsAre
    <3> QED
      BY <2>1, <3>2 DEF IInv, Sound, Kept, Live
  <2> QED
    BY <2>1 DEF IInv, HeldWhileInside
<1> QED
  BY <1>1, Invariance, PTL

-----------------------------------------------------------------------------
(* What a call leaves behind. *)

\* The key of level l is accounted for: its interval runs, or its grant is on its way to the
\* caller, or its RELEASE on its way to Redis.
Due(c, l) ==
    \/ l \in Open(c)
    \/ \E i \in DOMAIN chan[c] :
          /\ chan[c][i].level = l
          /\ \/ chan[c][i].op = "acquire" /\ chan[c][i].reply = "yes"
             \/ chan[c][i].op = "release" /\ chan[c][i].reply = "none"

Accounted(c, k) ==
    lock[k].owner \in {c} \X AllLevels =>
        \E l \in Levels(c) : lock[k].owner = <<c, l>> /\ k = KeyAt(c, l) /\ Due(c, l)

Leaves(c) ==
    /\ phase[c] # "crashed"
    /\ phase[c] = "idle" => chan[c] = <<>>
    /\ \A k \in Key : Accounted(c, k)

LInv == faults = 0 => \A c \in Caller : Leaves(c)

\* Every level that is closed gets its RELEASE.
LEMMA Returned ==
    ASSUME NEW c \in Caller, NEW low \in Nat \ {0}, NEW high \in Nat, low..high \subseteq Levels(c),
           NEW l \in low..high
    PROVE  \E i \in DOMAIN Releases(c, low..high) :
              /\ Releases(c, low..high)[i].level = l
              /\ Releases(c, low..high)[i].op = "release"
              /\ Releases(c, low..high)[i].reply = "none"
<1> DEFINE n == Cardinality(low..high)
           inner(k) == Cardinality({j \in low..high : j >= k})
<1> low \in Int /\ high \in Int /\ l \in Int
  OBVIOUS
<1>1. n = high - low + 1
  <2>1. low <= high
    OBVIOUS
  <2> QED
    BY <2>1, FS_Interval
<1>2. ASSUME NEW k \in low..high PROVE inner(k) = high - k + 1
  <2>1. {j \in low..high : j >= k} = k..high /\ k \in Int /\ k <= high
    OBVIOUS
  <2>2. Cardinality(k..high) = high - k + 1
    BY <2>1, FS_Interval
  <2> QED
    BY <2>1, <2>2
<1> DEFINE i == high - l + 1
<1>3. i \in 1..n
  <2> HIDE DEF n
  <2> QED
    BY <1>1
<1>4. (CHOOSE k \in low..high : inner(k) = i) = l
  <2>1. inner(l) = i
    BY <1>2
  <2>2. \A k \in low..high : inner(k) = i => k = l
    <3> HIDE DEF inner
    <3> QED
      BY <1>2
  <2> HIDE DEF inner, i
  <2> QED
    BY <2>1, <2>2
<1>5. Releases(c, low..high) = [m \in 1..n |-> Sent("release", CHOOSE k \in low..high : inner(k) = m)]
  BY DEF Releases
<1> HIDE DEF n, inner, i
<1>6. Releases(c, low..high)[i] = Sent("release", l) /\ i \in DOMAIN Releases(c, low..high)
  BY <1>3, <1>4, <1>5
<1> QED
  BY <1>6 DEF Sent

\* finally() turns the intervals of the levels it closes into RELEASEs.
LEMMA ClosesDue ==
    ASSUME TypeOK, NEW c \in Caller, NEW low \in Nat \ {0}, NEW high \in Nat, low..high \subseteq Levels(c),
           NEW q \in Seq(Command), Close(c, low..high, q)
    PROVE  /\ \A d \in Caller \ {c} : interval'[d] = interval[d] /\ chan'[d] = chan[d]
           /\ \A i \in DOMAIN q : i \in DOMAIN chan'[c] /\ chan'[c][i] = q[i]
           /\ \A l \in Levels(c) : l \in Open(c) => Due(c, l)'
<1> DEFINE r == Releases(c, low..high)
           closed == [l \in AllLevels |-> IF l \in low..high THEN Off ELSE interval[c][l]]
<1>1. r \in Seq(Command)
  BY ReleasesAre
<1>2. interval' = [interval EXCEPT ![c] = closed] /\ chan' = [chan EXCEPT ![c] = q \o r]
  BY DEF Close, TypeOK
<1>3. interval'[c] = closed /\ chan'[c] = q \o r
  BY <1>2 DEF TypeOK
<1>4. /\ \A i \in DOMAIN q : i \in DOMAIN (q \o r) /\ (q \o r)[i] = q[i]
      /\ \A i \in DOMAIN r : Len(q) + i \in DOMAIN (q \o r) /\ (q \o r)[Len(q) + i] = r[i]
  <2> HIDE DEF r, Command
  <2> QED
    BY <1>1
<1>5. ASSUME NEW l \in Levels(c), l \in Open(c) PROVE Due(c, l)'
  <2>1. CASE l \in low..high
    <3>1. PICK i \in DOMAIN r : r[i].level = l /\ r[i].op = "release" /\ r[i].reply = "none"
      <4>1. \E i \in DOMAIN Releases(c, low..high) :
               /\ Releases(c, low..high)[i].level = l
               /\ Releases(c, low..high)[i].op = "release"
               /\ Releases(c, low..high)[i].reply = "none"
        <5> HIDE DEF r, closed, Command
        <5> QED
          BY <2>1, Returned
      <4> QED
        BY <4>1
    <3> HIDE DEF r, closed, Command
    <3>2. Len(q) + i \in DOMAIN chan'[c] /\ chan'[c][Len(q) + i] = r[i]
      BY <1>3, <1>4
    <3>3. PICK j \in DOMAIN chan'[c] : chan'[c][j] = r[i]
      BY <3>2
    <3> QED
      BY <3>1, <3>3 DEF Due
  <2>2. CASE l \notin low..high
    <3>1. interval'[c][l] = interval[c][l]
      BY <1>3, <2>2, LevelsAre
    <3> QED
      BY <1>5, <3>1 DEF Due, Open, Levels
  <2> QED
    BY <2>1, <2>2
<1>6. \A d \in Caller \ {c} : interval'[d] = interval[d] /\ chan'[d] = chan[d]
  BY <1>2 DEF TypeOK
<1> HIDE DEF r, closed
<1> QED
  BY <1>3, <1>4, <1>5, <1>6

\* A step of one caller that leaves Redis alone keeps account of every key.
LEMMA OwnLeaves ==
    ASSUME \A c \in Caller : Leaves(c), NEW d \in Caller, UNCHANGED lock,
           phase'[d] \notin {"idle", "crashed"},
           \A l \in Levels(d) : Due(d, l) => Due(d, l)',
           \A c \in Caller \ {d} :
               chan'[c] = chan[c] /\ phase'[c] = phase[c] /\ interval'[c] = interval[c]
    PROVE  \A c \in Caller : Leaves(c)'
<1>1. Leaves(d)'
  <2>1. \A k \in Key : Accounted(d, k)'
    BY DEF Leaves, Accounted, KeyAt, Levels
  <2> QED
    BY <2>1 DEF Leaves
<1>2. ASSUME NEW c \in Caller, c # d PROVE Leaves(c)'
  <2>1. Leaves(c) /\ chan'[c] = chan[c] /\ phase'[c] = phase[c] /\ interval'[c] = interval[c]
    BY <1>2
  <2>2. \A l \in Levels(c) : Due(c, l) => Due(c, l)'
    BY <2>1 DEF Due, Open, Levels
  <2>3. \A k \in Key : Accounted(c, k)'
    BY <2>1, <2>2 DEF Leaves, Accounted, KeyAt, Levels
  <2> QED
    BY <2>1, <2>3 DEF Leaves
<1> QED
  BY <1>1, <1>2


\* What is on its way stays on its way.
LEMMA KeepsDue ==
    ASSUME NEW c \in Caller, \A i \in DOMAIN chan[c] : i \in DOMAIN chan'[c] /\ chan'[c][i] = chan[c][i],
           NEW l \in Levels(c), Due(c, l), l \in Open(c) => Due(c, l)'
    PROVE  Due(c, l)'
BY DEF Due

\* An answer that is taken off was neither a grant nor a RELEASE still to be executed.
LEMMA TailDue ==
    ASSUME TypeOK, NEW c \in Caller, NEW op, NEW replies, Answered(c, op, replies),
           op = "acquire" => "yes" \notin replies, "none" \notin replies,
           \A i \in DOMAIN Tail(chan[c]) : i \in DOMAIN chan'[c] /\ chan'[c][i] = Tail(chan[c])[i],
           NEW l \in Levels(c), Due(c, l), l \in Open(c) => Due(c, l)'
    PROVE  Due(c, l)'
<1>1. /\ chan[c][1].op = op /\ chan[c][1].reply \in replies
      /\ \A i \in DOMAIN chan[c] : i # 1 => i - 1 \in DOMAIN Tail(chan[c]) /\ Tail(chan[c])[i - 1] = chan[c][i]
  BY Answers
<1>2. ASSUME NEW i \in DOMAIN chan[c], chan[c][i].level = l,
             \/ chan[c][i].op = "acquire" /\ chan[c][i].reply = "yes"
             \/ chan[c][i].op = "release" /\ chan[c][i].reply = "none"
      PROVE  Due(c, l)'
  <2>1. i # 1
    BY <1>1, <1>2
  <2>2. PICK j \in DOMAIN chan'[c] : chan'[c][j] = chan[c][i]
    BY <1>1, <2>1
  <2> QED
    BY <1>2, <2>2 DEF Due
<1> QED
  BY <1>2 DEF Due

\* A call that has not begun, has ended or has died runs no interval.
LEMMA NoneOpen ==
    ASSUME NEW c \in Caller, Opens(c), phase[c] \in {"idle", "ended", "crashed"}
    PROVE  Open(c) = {}
<1>1. Top(c) = 0
  BY DEF Top
<1> QED
  BY <1>1 DEF Opens

\* finally() of everything that is open.
LEMMA ClosesAll ==
    ASSUME IInv, NEW c \in Caller, NEW q \in Seq(Command), Close(c, Open(c), q)
    PROVE  /\ \A d \in Caller \ {c} : interval'[d] = interval[d] /\ chan'[d] = chan[d]
           /\ \A i \in DOMAIN q : i \in DOMAIN chan'[c] /\ chan'[c][i] = q[i]
           /\ \A l \in Levels(c) : l \in Open(c) => Due(c, l)'
<1>1. TypeOK /\ Opens(c)
  BY DEF IInv, Sound
<1>2. PICK low \in 1..(Top(c) + 1) : Open(c) = low..Top(c)
  BY <1>1 DEF Opens
<1>3. PICK high \in Nat : high = Top(c) /\ low \in Nat \ {0}
  BY <1>1, <1>2, LevelsAre DEF Top, Opens
<1>4. low..high \subseteq Levels(c) /\ Close(c, low..high, q)
  BY <1>2, <1>3 DEF Open
<1> HIDE DEF Command
<1> QED
  BY <1>1, <1>3, <1>4, ClosesDue

LEMMA CallLeaves ==
    ASSUME IInv, \A c \in Caller : Leaves(c), NEW c \in Caller, Call(c)
    PROVE  \A d \in Caller : Leaves(d)'
<1>1. TypeOK /\ Opens(c) /\ phase[c] = "idle" /\ chan[c] = <<>>
  BY DEF IInv, Sound, Call, Leaves
<1>2. /\ phase'[c] = "acquiring" /\ UNCHANGED <<lock, interval>>
      /\ \A d \in Caller \ {c} : chan'[d] = chan[d] /\ phase'[d] = phase[d]
  BY <1>1 DEF Call, StartLevel, TypeOK
<1>3. \A l \in Levels(c) : ~Due(c, l)
  BY <1>1, NoneOpen DEF Due
<1> QED
  BY <1>2, <1>3, OwnLeaves

\* The grant becomes the interval.
LEMMA AcquiredLeaves ==
    ASSUME IInv, \A c \in Caller : Leaves(c), NEW c \in Caller, Acquired(c), NEW m \in Levels(c), m = level[c]
    PROVE  \A d \in Caller : Leaves(d)'
<1> DEFINE q == Tail(chan[c])
<1>1. TypeOK /\ InTurn(c) /\ Answered(c, "acquire", {"yes"}) /\ UNCHANGED lock
  BY DEF IInv, Sound, Acquired
<1>2. /\ q \in Seq(Command) /\ 1 \in DOMAIN chan[c] /\ chan[c] \in Seq(Command)
      /\ chan[c][1].op = "acquire" /\ chan[c][1].reply = "yes"
      /\ \A i \in DOMAIN chan[c] : i # 1 => i - 1 \in DOMAIN q /\ q[i - 1] = chan[c][i]
  BY <1>1, Answers
<1>3. \A i \in DOMAIN chan[c] : i = 1 => chan[c][i].level = m
  BY <1>1, <1>2 DEF InTurn
<1>4. m \in AllLevels /\ Off # RenewEvery
  BY LevelsAre, Constants
<1>5. /\ interval'[c] = [interval[c] EXCEPT ![m] = RenewEvery]
      /\ \A d \in Caller \ {c} : interval'[d] = interval[d]
  BY <1>1, <1>4 DEF Acquired, TypeOK
<1>6. m \in Open(c)' /\ \A l \in Levels(c) : l \in Open(c) => l \in Open(c)'
  BY <1>1, <1>4, <1>5, LevelsAre DEF Open, TypeOK, Levels
<1>7. /\ phase'[c] \in {"acquiring", "inside"}
      /\ \A d \in Caller \ {c} : chan'[d] = chan[d] /\ phase'[d] = phase[d]
      /\ \A i \in DOMAIN q : i \in DOMAIN chan'[c] /\ chan'[c][i] = q[i]
  <2>1. CASE m < Len(KeysOf[c])
    <3> DEFINE x == Sent("acquire", m + 1)
    <3>1. m + 1 \in Levels(c) /\ m + 1 \in AllLevels
      BY <2>1, LevelsAre
    <3>2. x \in Command
      BY <3>1, SentIs
    <3>3. /\ phase' = [phase EXCEPT ![c] = "acquiring"] /\ chan' = [chan EXCEPT ![c] = Append(Tail(@), x)]
      BY <2>1 DEF Acquired, StartLevel
    <3> HIDE DEF x
    <3>4. chan'[c] = Append(q, x) /\ phase'[c] = "acquiring"
      BY <1>1, <3>3 DEF TypeOK
    <3>5. \A i \in DOMAIN q : i \in DOMAIN Append(q, x) /\ Append(q, x)[i] = q[i]
      <4> HIDE DEF Command, q
      <4> QED
        BY <1>2, <3>2, Appends
    <3> QED
      BY <1>1, <3>3, <3>4, <3>5 DEF TypeOK
  <2>2. CASE ~(m < Len(KeysOf[c]))
    <3>1. phase' = [phase EXCEPT ![c] = "inside"] /\ chan' = [chan EXCEPT ![c] = Tail(@)]
      BY <2>2 DEF Acquired
    <3> QED
      BY <1>1, <3>1 DEF TypeOK
  <2> QED
    BY <2>1, <2>2
<1> HIDE DEF q
<1>8. ASSUME NEW l \in Levels(c), Due(c, l) PROVE Due(c, l)'
  <2>1. CASE l \in Open(c) \/ l = m
    BY <1>6, <2>1 DEF Due
  <2>2. ASSUME NEW i \in DOMAIN chan[c], chan[c][i].level = l, l # m,
               \/ chan[c][i].op = "acquire" /\ chan[c][i].reply = "yes"
               \/ chan[c][i].op = "release" /\ chan[c][i].reply = "none"
        PROVE  Due(c, l)'
    <3>1. i # 1
      BY <1>3, <2>2
    <3>2. PICK j \in DOMAIN chan'[c] : chan'[c][j] = chan[c][i]
      BY <1>2, <1>7, <3>1
    <3> QED
      BY <2>2, <3>2 DEF Due
  <2> QED
    BY <1>8, <2>1, <2>2 DEF Due
<1> QED
  BY <1>1, <1>5, <1>7, <1>8, OwnLeaves

LEMMA TakenLeaves ==
    ASSUME IInv, \A c \in Caller : Leaves(c), NEW c \in Caller, Taken(c)
    PROVE  \A d \in Caller : Leaves(d)'
<1>1. TypeOK /\ Answered(c, "acquire", {"no"}) /\ UNCHANGED <<lock, interval>>
  BY DEF IInv, Taken
<1>2. /\ phase'[c] = "sleeping" /\ chan'[c] = Tail(chan[c])
      /\ \A d \in Caller \ {c} : chan'[d] = chan[d] /\ phase'[d] = phase[d]
  BY <1>1 DEF Taken, TypeOK
<1>3. \A l \in Levels(c) : l \in Open(c) => Due(c, l)'
  BY <1>1 DEF Open, Due, Levels
<1>4. \A l \in Levels(c) : Due(c, l) => Due(c, l)'
  BY <1>1, <1>2, <1>3, TailDue
<1> QED
  BY <1>1, <1>2, <1>4, OwnLeaves

\* The answer to a RENEW or a RELEASE that changes nothing else.
LEMMA SettlesLeaves ==
    ASSUME IInv, \A c \in Caller : Leaves(c), NEW c \in Caller, RenewSettles(c) \/ ReleaseSettles(c)
    PROVE  \A d \in Caller : Leaves(d)'
<1>1. TypeOK /\ UNCHANGED <<lock, phase, interval>> /\ chan' = [chan EXCEPT ![c] = Tail(@)]
  BY DEF IInv, RenewSettles, ReleaseSettles
<1>2. PICK op \in {"renew", "release"} : Answered(c, op, {"yes", "no", "error"})
  BY DEF RenewSettles, ReleaseSettles, Answered
<1>3. chan'[c] = Tail(chan[c]) /\ \A d \in Caller \ {c} : chan'[d] = chan[d]
  BY <1>1 DEF TypeOK
<1>4. phase'[c] \notin {"idle", "crashed"}
  BY <1>1, <1>2 DEF Leaves, Answered
<1>5. \A l \in Levels(c) : l \in Open(c) => Due(c, l)'
  BY <1>1 DEF Open, Due, Levels
<1>6. \A l \in Levels(c) : Due(c, l) => Due(c, l)'
  BY <1>1, <1>2, <1>3, <1>5, TailDue
<1> QED
  BY <1>1, <1>3, <1>4, <1>6, OwnLeaves

\* The call ends: what was open is given back.
LEMMA EndLeaves ==
    ASSUME IInv, \A c \in Caller : Leaves(c), NEW c \in Caller, FnSettles(c) \/ AcquireFails(c)
    PROVE  \A d \in Caller : Leaves(d)'
<1>1. TypeOK /\ InTurn(c) /\ UNCHANGED lock /\ phase' = [phase EXCEPT ![c] = "ended"]
  BY DEF IInv, Sound, FnSettles, AcquireFails
<1>2. phase'[c] = "ended" /\ \A d \in Caller \ {c} : phase'[d] = phase[d]
  BY <1>1 DEF TypeOK
<1>3. CASE FnSettles(c)
  <2>1. chan[c] \in Seq(Command) /\ Close(c, Open(c), chan[c])
    BY <1>1, <1>3 DEF FnSettles, TypeOK
  <2>2. /\ \A d \in Caller \ {c} : interval'[d] = interval[d] /\ chan'[d] = chan[d]
        /\ \A i \in DOMAIN chan[c] : i \in DOMAIN chan'[c] /\ chan'[c][i] = chan[c][i]
        /\ \A l \in Levels(c) : l \in Open(c) => Due(c, l)'
    BY <2>1, ClosesAll
  <2>3. \A l \in Levels(c) : Due(c, l) => Due(c, l)'
    BY <2>2, KeepsDue
  <2> QED
    BY <1>1, <1>2, <2>2, <2>3, OwnLeaves
<1>4. CASE AcquireFails(c)
  <2>1. Answered(c, "acquire", {"error"})
    BY <1>4 DEF AcquireFails
  <2>2. phase[c] = "acquiring" /\ Tail(chan[c]) \in Seq(Command)
    BY <1>1, <2>1, Answers DEF InTurn
  <2>3. Close(c, Open(c), Tail(chan[c]))
    BY <1>4, <2>2, AllAround DEF AcquireFails, Reject
  <2>4. /\ \A d \in Caller \ {c} : interval'[d] = interval[d] /\ chan'[d] = chan[d]
        /\ \A i \in DOMAIN Tail(chan[c]) : i \in DOMAIN chan'[c] /\ chan'[c][i] = Tail(chan[c])[i]
        /\ \A l \in Levels(c) : l \in Open(c) => Due(c, l)'
    BY <2>2, <2>3, ClosesAll
  <2>5. \A l \in Levels(c) : Due(c, l) => Due(c, l)'
    BY <1>1, <2>1, <2>4, TailDue
  <2> QED
    BY <1>1, <1>2, <2>4, <2>5, OwnLeaves
<1> QED
  BY <1>3, <1>4

LEMMA WakesLeaves ==
    ASSUME IInv, \A c \in Caller : Leaves(c), NEW c \in Caller, Wakes(c)
    PROVE  \A d \in Caller : Leaves(d)'
<1>1. /\ TypeOK /\ phase[c] = "sleeping" /\ UNCHANGED lock /\ chan[c] \in Seq(Command)
      /\ level[c] \in AllLevels
  BY LevelsAre DEF IInv, Sound, Opens, Wakes, TypeOK
<1>2. CASE deadline[c] > 0
  <2> DEFINE x == Sent("acquire", level[c])
  <2>1. x \in Command
    BY <1>1, SentIs
  <2>2. /\ phase' = [phase EXCEPT ![c] = "acquiring"] /\ chan' = [chan EXCEPT ![c] = Append(@, x)]
        /\ UNCHANGED interval
    BY <1>2 DEF Wakes
  <2> HIDE DEF x
  <2>3. \A i \in DOMAIN chan[c] : i \in DOMAIN Append(chan[c], x) /\ Append(chan[c], x)[i] = chan[c][i]
    <3> HIDE DEF Command
    <3> QED
      BY <1>1, <2>1, Appends
  <2>4. /\ chan'[c] = Append(chan[c], x) /\ phase'[c] = "acquiring"
        /\ \A d \in Caller \ {c} : chan'[d] = chan[d] /\ phase'[d] = phase[d]
    BY <1>1, <2>2 DEF TypeOK
  <2>5. \A l \in Levels(c) : l \in Open(c) => Due(c, l)'
    BY <2>2 DEF Open, Due, Levels
  <2>6. \A l \in Levels(c) : Due(c, l) => Due(c, l)'
    BY <2>3, <2>4, <2>5, KeepsDue
  <2> QED
    BY <1>1, <2>2, <2>4, <2>6, OwnLeaves
<1>3. CASE ~(deadline[c] > 0)
  <2>1. phase' = [phase EXCEPT ![c] = "ended"] /\ Reject(c, level[c], chan[c])
    BY <1>3 DEF Wakes
  <2>2. Close(c, Open(c), chan[c])
    BY <1>1, <2>1, AllAround DEF Reject
  <2>3. /\ \A d \in Caller \ {c} : interval'[d] = interval[d] /\ chan'[d] = chan[d]
        /\ \A i \in DOMAIN chan[c] : i \in DOMAIN chan'[c] /\ chan'[c][i] = chan[c][i]
        /\ \A l \in Levels(c) : l \in Open(c) => Due(c, l)'
    BY <1>1, <2>2, ClosesAll
  <2>4. \A l \in Levels(c) : Due(c, l) => Due(c, l)'
    BY <2>3, KeepsDue
  <2>5. phase'[c] = "ended" /\ \A d \in Caller \ {c} : phase'[d] = phase[d]
    BY <1>1, <2>1 DEF TypeOK
  <2> QED
    BY <1>1, <2>3, <2>4, <2>5, OwnLeaves
<1> QED
  BY <1>2, <1>3

LEMMA RenewFiresLeaves ==
    ASSUME IInv, \A c \in Caller : Leaves(c), NEW c \in Caller, NEW m \in Levels(c), RenewFires(c, m)
    PROVE  \A d \in Caller : Leaves(d)'
<1> DEFINE x == Sent("renew", m)
<1>1. /\ TypeOK /\ Opens(c) /\ interval[c][m] = 0 /\ UNCHANGED <<lock, phase>> /\ chan[c] \in Seq(Command)
      /\ m \in AllLevels
  BY LevelsAre DEF IInv, Sound, RenewFires, TypeOK
<1>2. m \in Open(c)
  BY <1>1, Constants DEF Open
<1>3. phase[c] \notin {"idle", "crashed"}
  BY <1>1, <1>2, NoneOpen
<1>4. x \in Command
  BY <1>1, SentIs
<1>5. interval' = [interval EXCEPT ![c][m] = RenewEvery] /\ chan' = [chan EXCEPT ![c] = Append(@, x)]
  BY DEF RenewFires
<1> HIDE DEF x
<1>6. \A i \in DOMAIN chan[c] : i \in DOMAIN Append(chan[c], x) /\ Append(chan[c], x)[i] = chan[c][i]
  <2> HIDE DEF Command
  <2> QED
    BY <1>1, <1>4, Appends
<1>7. /\ chan'[c] = Append(chan[c], x) /\ interval'[c] = [interval[c] EXCEPT ![m] = RenewEvery]
      /\ \A d \in Caller \ {c} : chan'[d] = chan[d] /\ interval'[d] = interval[d]
  BY <1>1, <1>5 DEF TypeOK
<1>8. \A l \in Levels(c) : l \in Open(c) => Due(c, l)'
  BY <1>1, <1>7, LevelsAre, Constants DEF Open, Due, Levels, TypeOK
<1>9. \A l \in Levels(c) : Due(c, l) => Due(c, l)'
  BY <1>6, <1>7, <1>8, KeepsDue
<1> QED
  BY <1>1, <1>3, <1>7, <1>9, OwnLeaves

\* The levels around the one that is lost are given back.
LEMMA RenewLostLeaves ==
    ASSUME IInv, \A c \in Caller : Leaves(c), NEW c \in Caller, RenewLost(c)
    PROVE  \A d \in Caller : Leaves(d)'
<1> DEFINE q == Tail(chan[c])
<1>1. TypeOK /\ Opens(c) /\ Answered(c, "renew", {"no", "error"}) /\ UNCHANGED <<lock, phase>>
  BY DEF IInv, Sound, RenewLost
<1>2. q \in Seq(Command) /\ Head(chan[c]) = chan[c][1]
  BY <1>1, Answers
<1>3. PICK low \in 1..(Top(c) + 1) : Open(c) = low..Top(c)
  BY <1>1 DEF Opens
<1>4. Top(c) \in Nat /\ low \in Nat \ {0}
  BY <1>1, <1>3, LevelsAre DEF Opens, Top
<1>5. PICK m \in low..Top(c) : m \in Open(c) /\ Close(c, {k \in Open(c) : k < m}, q)
  BY <1>3 DEF RenewLost, Reject
<1>6. PICK high \in Nat : high = m - 1 /\ {k \in Open(c) : k < m} = low..high
  BY <1>3, <1>4, <1>5
<1>7. low..high \subseteq Levels(c) /\ Close(c, low..high, q)
  BY <1>5, <1>6 DEF Open
<1> HIDE DEF q
<1>8. /\ \A d \in Caller \ {c} : interval'[d] = interval[d] /\ chan'[d] = chan[d]
      /\ \A i \in DOMAIN q : i \in DOMAIN chan'[c] /\ chan'[c][i] = q[i]
      /\ \A l \in Levels(c) : l \in Open(c) => Due(c, l)'
  <2> HIDE DEF Command
  <2> QED
    BY <1>1, <1>2, <1>4, <1>7, ClosesDue
<1>9. \A l \in Levels(c) : Due(c, l) => Due(c, l)'
  BY <1>1, <1>8, TailDue DEF q
<1>10. phase'[c] \notin {"idle", "crashed"}
  BY <1>1 DEF Leaves, Answered
<1> QED
  BY <1>1, <1>8, <1>9, <1>10, OwnLeaves

\* Redis takes a key from its holder for that one's RELEASE only, and gives it with an answer.
LEMMA ExecuteLeaves ==
    ASSUME IInv, \A c \in Caller : Leaves(c), NEW d \in Caller, Execute(d)
    PROVE  \A c \in Caller : Leaves(c)'
<1>1. TypeOK /\ InTurn(d) /\ UNCHANGED <<phase, interval>>
  BY DEF IInv, Sound, Execute
<1>2. PICK i \in DOMAIN chan[d] :
         /\ chan[d][i].reply = "none"
         /\ lock' = [lock EXCEPT ![KeyAt(d, chan[d][i].level)] = Script(d, chan[d][i]).key]
         /\ chan' = [chan EXCEPT ![d][i].reply = IF Script(d, chan[d][i]).granted THEN "yes" ELSE "no"]
  BY DEF Execute, FirstUnanswered
<1> DEFINE x == chan[d][i]
           r == IF Script(d, x).granted THEN "yes" ELSE "no"
           token == <<d, x.level>>
           held == KeyAt(d, x.level)
<1>3. x \in Command /\ x.level \in Levels(d) /\ held \in Key /\ token \in Token
  BY <1>1, LevelsAre DEF TypeOK, InTurn, Token
<1>4. /\ DOMAIN chan'[d] = DOMAIN chan[d]
      /\ \A j \in DOMAIN chan[d] :
            /\ chan'[d][j].op = chan[d][j].op /\ chan'[d][j].level = chan[d][j].level
            /\ chan'[d][j].age = chan[d][j].age
            /\ j # i => chan'[d][j] = chan[d][j]
      /\ chan'[d][i].reply = r
      /\ \A c \in Caller \ {d} : chan'[c] = chan[c]
  <2>1. PICK y \in {"yes", "no", "error"} : y = r /\ chan' = [chan EXCEPT ![d][i].reply = y]
    BY <1>2
  <2> HIDE DEF r, x, Command
  <2>2. i \in DOMAIN chan[d] /\ TypeOK
    BY <1>1, <1>2
  <2> QED
    BY <2>1, <2>2, Replies
<1>5. lock'[held] = Script(d, x).key /\ \A k \in Key : k # held => lock'[k] = lock[k]
  BY <1>1, <1>2, <1>3 DEF TypeOK
\* What becomes of the key's owner.
<1>6. \/ x.op = "acquire" /\ r = "yes" /\ lock'[held].owner = token
      \/ x.op = "release" /\ lock'[held].owner = NoToken
      \/ /\ lock'[held].owner = lock[held].owner
         /\ x.op = "release" => lock[held].owner # token
  <2>4. x.op \in {"acquire", "renew", "release"}
    BY <1>3 DEF Command
  <2> HIDE DEF x
  <2>1. CASE x.op = "acquire"
    BY <1>5, <2>1 DEF Script, Acquire, Held, r
  <2>2. CASE x.op = "renew"
    BY <1>5, <2>2 DEF Script, Renew, Held
  <2>3. CASE x.op = "release"
    <3>1. Script(d, x) = Release(lock[held], token)
      BY <2>3 DEF Script
    <3> QED
      BY <1>5, <2>3, <3>1 DEF Release, Free
  <2> QED
    BY <2>1, <2>2, <2>3, <2>4
<1> HIDE DEF r
\* What a key of a caller is due to is still there, unless it was this RELEASE.
<1>7. ASSUME NEW c \in Caller, NEW l \in Levels(c), Due(c, l), ~(c = d /\ l = x.level /\ x.op = "release")
      PROVE  Due(c, l)'
  <2>1. CASE l \in Open(c)
    BY <1>1, <2>1 DEF Due, Open, Levels
  <2>2. ASSUME NEW j \in DOMAIN chan[c], chan[c][j].level = l,
               \/ chan[c][j].op = "acquire" /\ chan[c][j].reply = "yes"
               \/ chan[c][j].op = "release" /\ chan[c][j].reply = "none"
        PROVE  Due(c, l)'
    <3>1. ~(c = d /\ j = i)
      BY <1>2, <1>7, <2>2
    <3>2. j \in DOMAIN chan'[c] /\ chan'[c][j] = chan[c][j]
      BY <1>4, <3>1
    <3> QED
      BY <2>2, <3>2 DEF Due
  <2> QED
    BY <1>7, <2>1, <2>2 DEF Due
<1>8. ASSUME NEW c \in Caller PROVE Leaves(c)'
  <2>1. phase'[c] # "crashed" /\ (phase'[c] = "idle" => chan'[c] = <<>>)
    BY <1>1, <1>4 DEF Leaves
  <2>2. ASSUME NEW k \in Key PROVE Accounted(c, k)'
    <3>1. CASE lock'[k].owner = lock[k].owner /\ ~(k = held /\ x.op = "release" /\ lock[held].owner = token)
      <4>1. SUFFICES ASSUME lock[k].owner \in {c} \X AllLevels PROVE Accounted(c, k)'
        BY <3>1 DEF Accounted, Levels
      <4>2. PICK l \in Levels(c) : lock[k].owner = <<c, l>> /\ k = KeyAt(c, l) /\ Due(c, l)
        BY <4>1 DEF Leaves, Accounted
      <4>3. ~(c = d /\ l = x.level /\ x.op = "release")
        BY <3>1, <4>2
      <4>4. Due(c, l)'
        BY <1>7, <4>2, <4>3
      <4> QED
        BY <3>1, <4>2, <4>4 DEF Accounted, KeyAt, Levels
    <3>2. CASE k = held /\ x.op = "acquire" /\ r = "yes" /\ lock'[held].owner = token
      <4>1. SUFFICES ASSUME token \in {c} \X AllLevels PROVE Accounted(c, k)'
        BY <3>2 DEF Accounted, Levels
      <4>2. c = d
        BY <4>1
      <4>3. PICK l \in Levels(d) : l = x.level
        BY <1>3
      <4>4. Due(d, l)'
        BY <1>2, <1>4, <3>2, <4>3 DEF Due
      <4>5. lock'[k].owner = <<d, l>> /\ k = KeyAt(d, l)
        BY <3>2, <4>3
      <4> QED
        BY <4>2, <4>4, <4>5 DEF Accounted, KeyAt, Levels
    <3>3. CASE lock'[k].owner = NoToken
      <4>1. \A l \in AllLevels : <<c, l>> # NoToken
        BY Constants DEF Token
      <4> QED
        BY <3>3, <4>1 DEF Accounted, AllLevels, Levels
    <3> QED
      BY <1>5, <1>6, <3>1, <3>2, <3>3
  <2> QED
    BY <2>1, <2>2 DEF Leaves
<1> QED
  BY <1>8

\* A tick moves no command, no interval and no key to anybody.
LEMMA TickLeaves ==
    ASSUME IInv, \A c \in Caller : Leaves(c), Tick
    PROVE  \A c \in Caller : Leaves(c)'
<1>1. TypeOK /\ UNCHANGED phase
  BY DEF IInv, Tick
<1>2. ASSUME NEW k \in Key PROVE lock'[k].owner \in {lock[k].owner, NoToken}
  BY <1>1 DEF Tick, TypeOK, Aged, Free, Keys
<1>3. ASSUME NEW c \in Caller
      PROVE  /\ DOMAIN chan'[c] = DOMAIN chan[c] /\ (chan[c] = <<>> => chan'[c] = <<>>)
             /\ \A i \in DOMAIN chan[c] :
                   /\ chan'[c][i].op = chan[c][i].op /\ chan'[c][i].level = chan[c][i].level
                   /\ chan'[c][i].reply = chan[c][i].reply
  <2>1. chan[c] \in Seq(Command) /\ chan'[c] = [i \in DOMAIN chan[c] |-> Older(chan[c][i])]
    BY <1>1 DEF Tick, TypeOK
  <2>2. \A i \in DOMAIN chan[c] : chan[c][i] \in Command
    <3> HIDE DEF Command
    <3> QED
      BY <2>1
  <2>3. chan[c] = <<>> => chan'[c] = <<>>
    <3>1. ASSUME chan[c] = <<>> PROVE chan'[c] = <<>>
      <4>1. chan'[c] = [i \in {} |-> Older(chan[c][i])]
        BY <2>1, <3>1
      <4> QED
        BY <4>1
    <3> QED
      BY <3>1
  <2> HIDE DEF Command
  <2> QED
    BY <2>1, <2>2, <2>3, OlderIs
<1>4. ASSUME NEW c \in Caller PROVE Open(c)' = Open(c)
  <2>1. \A l \in Levels(c) : interval'[c][l] = Down(interval[c][l]) /\ interval[c][l] \in {Off} \cup 0..RenewEvery
    BY <1>1, LevelsAre DEF Tick, TypeOK
  <2>2. \A l \in Levels(c) : interval'[c][l] = Off <=> interval[c][l] = Off
    BY <2>1, Constants DEF Down
  <2> QED
    BY <2>2 DEF Open, Levels
<1>5. ASSUME NEW c \in Caller, NEW l \in Levels(c), Due(c, l) PROVE Due(c, l)'
  BY <1>3, <1>4, <1>5 DEF Due
<1>6. ASSUME NEW c \in Caller PROVE Leaves(c)'
  <2>1. phase'[c] # "crashed" /\ (phase'[c] = "idle" => chan'[c] = <<>>)
    BY <1>1, <1>3 DEF Leaves
  <2>2. ASSUME NEW k \in Key PROVE Accounted(c, k)'
    <3>1. CASE lock'[k].owner = lock[k].owner
      BY <1>5, <3>1 DEF Leaves, Accounted, KeyAt, Levels, AllLevels
    <3>2. CASE lock'[k].owner = NoToken
      <4>1. \A l \in AllLevels : <<c, l>> # NoToken
        BY Constants DEF Token
      <4> QED
        BY <3>2, <4>1 DEF Accounted, AllLevels, Levels
    <3> QED
      BY <1>2, <3>1, <3>2
  <2> QED
    BY <2>1, <2>2 DEF Leaves
<1> QED
  BY <1>6

LEMMA InitLeaves == ASSUME Init PROVE LInv
<1>1. ASSUME NEW c \in Caller, NEW k \in Key PROVE Accounted(c, k)
  <2>1. \A l \in AllLevels : <<c, l>> # NoToken
    BY Constants DEF Token
  <2> QED
    BY <2>1 DEF Accounted, Init, Free
<1> QED
  BY <1>1 DEF Init, LInv, Leaves

LEMMA NextLeaves == ASSUME IInv, LInv, [Next]_vars PROVE LInv'
<1>1. SUFFICES ASSUME faults' = 0 PROVE \A c \in Caller : Leaves(c)'
  BY DEF LInv
<1>2. faults \in Nat
  BY DEF IInv, TypeOK
<1>3. CASE UNCHANGED vars
  <2> USE <1>3 DEF vars
  <2>1. \A c \in Caller : Leaves(c)
    BY <1>1 DEF LInv
  <2>2. ASSUME NEW c \in Caller PROVE Leaves(c)'
    <3>1. \A k \in Key : Accounted(c, k)'
      BY <2>1 DEF Leaves, Accounted, Due, Open, Levels, KeyAt
    <3> QED
      BY <2>1, <3>1 DEF Leaves
  <2> QED
    BY <2>2
<1>4. CASE Tick
  <2>1. \A c \in Caller : Leaves(c)
    BY <1>1, <1>4 DEF LInv, Tick
  <2> QED
    BY <1>4, <2>1, TickLeaves
<1>5. ASSUME NEW c \in Caller, Step(c) PROVE \A d \in Caller : Leaves(d)'
  <2>1. CASE Refuse(c) \/ Resend(c) \/ Crash(c)
    BY <1>1, <1>2, <2>1 DEF Refuse, Resend, Crash, Fault
  <2>2. CASE ~(Refuse(c) \/ Resend(c) \/ Crash(c))
    <3>1. \A d \in Caller : Leaves(d)
      BY <1>1, <1>5, <2>2 DEF LInv, Step, Settles, Call, Wakes, FnSettles, RenewFires, Acquired, Taken,
         AcquireFails, RenewSettles, RenewLost, ReleaseSettles, Execute, Disconnect
    <3>2. CASE Acquired(c)
      <4>1. level[c] \in Levels(c)
        BY DEF IInv, Sound, Opens
      <4> QED
        BY <3>1, <3>2, <4>1, AcquiredLeaves
    <3>3. ASSUME NEW l \in Levels(c), RenewFires(c, l) PROVE \A d \in Caller : Leaves(d)'
      BY <3>1, <3>3, RenewFiresLeaves
    <3>4. ~Disconnect(c)
      BY <3>1 DEF Disconnect, Leaves
    <3> QED
      BY <1>5, <2>2, <3>1, <3>2, <3>3, <3>4, CallLeaves, WakesLeaves, EndLeaves, TakenLeaves,
         SettlesLeaves, RenewLostLeaves, ExecuteLeaves DEF Step, Settles
  <2> QED
    BY <2>1, <2>2
<1> QED
  BY <1>3, <1>4, <1>5 DEF Next

\* No interval outlives its call, whatever fails; and without a failure, a call that has ended and
\* been answered holds no key, for any callers, keys, TTL, intervals and delays, timely or not.
THEOREM EndedLeaves == Spec => []EndedLeavesNothing
<1>1. Init => LInv
  BY InitLeaves
<1>2. IInv /\ LInv /\ [Next]_vars => LInv'
  BY NextLeaves
<1>3. IInv /\ LInv => EndedLeavesNothing
  <2>1. ASSUME IInv, NEW c \in Caller PROVE IntervalsMatch(c)
    <3>1. Opens(c)
      BY <2>1 DEF IInv, Sound
    <3>2. ASSUME phase[c] = "inside", c \notin told PROVE Open(c) = Levels(c)
      <4>1. Top(c) = Len(KeysOf[c])
        BY <3>2 DEF Top
      <4>2. Open(c) = 1..Len(KeysOf[c])
        BY <3>1, <3>2, <4>1 DEF Opens
      <4> QED
        BY <4>2, LevelsAre
    <3> QED
      BY <3>1, <3>2, NoneOpen DEF IntervalsMatch
  <2>2. ASSUME IInv, LInv, NEW c \in Caller, faults = 0, phase[c] = "ended", chan[c] = <<>>,
               NEW k \in Key
        PROVE  lock[k].owner \notin {c} \X AllLevels
    <3>1. Open(c) = {}
      BY <2>2, NoneOpen DEF IInv, Sound
    <3>2. Accounted(c, k)
      BY <2>2 DEF LInv, Leaves
    <3> QED
      BY <2>2, <3>1, <3>2 DEF Accounted, Due
  <2> QED
    BY <2>1, <2>2 DEF EndedLeavesNothing
<1> QED
  BY <1>1, <1>2, <1>3, Invariance, PTL DEF Spec
=============================================================================
