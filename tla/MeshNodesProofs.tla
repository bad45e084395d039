-------------------------- MODULE MeshNodesProofs --------------------------
(***************************************************************************)
(* Proofs about MeshNodes, for any services and calls.  What a service has *)
(* created is told by its fields and by where its calls stand; what other  *)
(* services do to the list does not touch the ids that it was given.       *)
(***************************************************************************)
EXTENDS MeshNodes, TLAPS

Joins == {"subscribing", "registering", "naming"}
Stops == {"resigning", "unsubscribing", "quitting", "deregistering"}
Places == {"idle", "issuing", "undoing"} \cup Joins \cup Stops

Fields == [running : BOOLEAN, id : Nat, client : Nat, timer : Nat, leader : Nat]
Call   == [at : Places, id : Nat, ok : BOOLEAN]
Things == [clients : SUBSET Nat, listening : SUBSET Nat, timers : SUBSET Nat, leaders : SUBSET Nat]

Types ==
    /\ service \in [Service -> Fields]
    /\ calls \in [Service -> [Caller -> Call]]
    /\ alive \in [Service -> Things]
    /\ owned \in [Service -> SUBSET Nat]
    /\ issued \in Nat

\* An answer with a new id has arrived.
Given(s, c) == Waits(s, c, "issuing") /\ calls[s][c].ok

\* No id is given twice.
Apart ==
    /\ \A s \in Service : owned[s] \subseteq 1..issued
    /\ \A s, t \in Service : s # t => owned[s] \cap owned[t] = {}
    /\ \A s \in Service, c \in Caller : Given(s, c) =>
          /\ calls[s][c].id \in 1..issued
          /\ \A t \in Service : calls[s][c].id \notin owned[t]
          /\ \A t \in Service, d \in Caller :
                s # t /\ Given(t, d) => calls[s][c].id # calls[t][d].id

Listed(s) == owned[s] \cap (DOMAIN beats \cup names)
Alone(s, c) == \A d \in Caller : d # c => Waits(s, d, "idle")

Known(s) ==
    /\ service[s].id \in owned[s] \cup {0}
    /\ alive[s].clients \subseteq owned[s] /\ alive[s].timers \subseteq owned[s]
    /\ alive[s].listening \subseteq owned[s]

Off(s) == ~service[s].running /\ service[s].timer = 0 /\ service[s].leader = 0

AtRest(s) == Off(s) /\ service[s].client = 0 /\ alive[s].listening = {} /\ LeftNothing(s)

\* What a running service is.
Node(s) ==
    LET id == service[s].id IN
    /\ IsNode(s) /\ id \in owned[s]
    /\ service[s].client = id /\ service[s].timer = id /\ service[s].leader = id
    /\ alive[s].clients \subseteq spoiled \cup {id} /\ Listed(s) \subseteq spoiled \cup {id}

\* start() up to its end.
Joining(s, c) ==
    LET id == calls[s][c].id IN
    /\ Off(s) /\ alive[s].timers = {} /\ alive[s].leaders = {}
    /\ service[s].id = id /\ service[s].client = id /\ id \in alive[s].clients
    /\ alive[s].clients \subseteq spoiled \cup {id} /\ Listed(s) \subseteq spoiled \cup {id}
    /\ alive[s].listening = IF Waits(s, c, "subscribing") THEN {} ELSE {id}
    /\ ~calls[s][c].ok => id \in spoiled
    /\ calls[s][c].ok /\ ~Waits(s, c, "subscribing") => id \in DOMAIN beats \cup removed

\* Some stop() is still to take it back.
Someone(s, places) == \E d \in Caller : calls[s][d].at \in places

Stopping(s) ==
    LET v == service[s]
        a == alive[s] IN
    /\ ~v.running /\ \A d \in Caller : calls[s][d].at \in Stops \cup {"idle"}
    /\ a.leaders = {} /\ a.timers \subseteq {v.timer} /\ a.listening \subseteq {v.client}
    /\ a.clients \subseteq spoiled \cup {v.client} /\ Listed(s) \subseteq spoiled \cup {v.id}
    /\ v.leader = 0 => v.timer = 0 /\ a.listening = {}
    /\ v.leader # 0 => Someone(s, {"resigning"}) /\ ~Someone(s, Stops \ {"resigning"})
    /\ v.client # 0 => Someone(s, {"resigning", "unsubscribing", "quitting"})
    /\ v.id \in Listed(s) /\ v.id \notin spoiled => Someone(s, {"resigning", "unsubscribing", "quitting"})
    /\ \A d \in Caller :
        /\ Waits(s, d, "quitting") => v.client \notin a.clients \/ v.client \in spoiled
        /\ Waits(s, d, "unsubscribing") /\ ~calls[s][d].ok => v.client \notin a.clients \/ v.client \in spoiled

Sound(s) ==
    /\ Known(s)
    /\ service[s].running => ~Busy(s) /\ Node(s)
    /\ ~service[s].running /\ ~Busy(s) => AtRest(s)
    /\ \A c \in Caller :
        /\ Waits(s, c, "issuing") => Alone(s, c) /\ AtRest(s)
        /\ calls[s][c].at \in Joins => Alone(s, c) /\ Joining(s, c)
        /\ Waits(s, c, "undoing") => Alone(s, c) /\ Off(s) /\ alive[s].listening = {} /\ LeftNothing(s)
    /\ Someone(s, Stops) => Stopping(s)

IInv == Types /\ Apart /\ \A s \in Service : Sound(s)

-----------------------------------------------------------------------------
(* What the steps have in common. *)

\* A call goes on, or ends, and no other one does.
LEMMA GoesTo ==
    ASSUME Types, NEW s \in Service, NEW c \in Caller,
           NEW at \in Places, NEW id \in Nat, NEW ok \in BOOLEAN, Goes(s, c, at, id, ok)
    PROVE  /\ calls' \in [Service -> [Caller -> Call]]
           /\ calls'[s][c] = [at |-> at, id |-> id, ok |-> ok]
           /\ \A t \in Service, d \in Caller : ~(t = s /\ d = c) => calls'[t][d] = calls[t][d]
           /\ \A t \in Service : t # s => calls'[t] = calls[t]
<1>1. [at |-> at, id |-> id, ok |-> ok] \in Call
  BY DEF Call
<1>2. calls \in [Service -> [Caller -> Call]]
  BY DEF Types
<1> QED
  BY <1>1, <1>2 DEF Goes

\* One service's record is replaced.
LEMMA Replaced ==
    ASSUME NEW F, NEW f \in [Service -> F], NEW s \in Service, NEW v \in F
    PROVE  LET g == [f EXCEPT ![s] = v] IN
           g \in [Service -> F] /\ g[s] = v /\ \A t \in Service : t # s => g[t] = f[t]
OBVIOUS

LEMMA EndsTo ==
    ASSUME Types, NEW s \in Service, NEW c \in Caller, Ends(s, c)
    PROVE  /\ calls' \in [Service -> [Caller -> Call]]
           /\ calls'[s][c] = NoCall /\ calls'[s][c].at = "idle"
           /\ \A t \in Service, d \in Caller : ~(t = s /\ d = c) => calls'[t][d] = calls[t][d]
           /\ \A t \in Service : t # s => calls'[t] = calls[t]
<1>1. NoCall \in Call /\ NoCall.at = "idle"
  BY DEF Call, NoCall, Places
<1>2. calls \in [Service -> [Caller -> Call]]
  BY DEF Types
<1> QED
  BY <1>1, <1>2 DEF Ends

\* A command that fails spoils its id.
LEMMA Commanded ==
    ASSUME NEW id, NEW done \in BOOLEAN, NEW ok \in BOOLEAN, Command(id, done, ok)
    PROVE  spoiled \subseteq spoiled' /\ (ok \/ id \in spoiled') /\ (done \/ id \in spoiled')
BY DEF Command

LEMMA Heard ==
    ASSUME NEW id, NEW done \in BOOLEAN, HEARTBEAT(id, done)
    PROVE  DOMAIN beats' = IF done THEN DOMAIN beats \cup {id} ELSE DOMAIN beats
BY DEF HEARTBEAT

\* When no id is given, all remain apart.
LEMMA StillApart ==
    ASSUME Apart, owned' = owned, issued \in Nat, issued' \in Nat, issued <= issued',
           \A s \in Service, c \in Caller : Given(s, c)' => Given(s, c) /\ calls'[s][c].id = calls[s][c].id
    PROVE  Apart'
<1>1. \A s \in Service : owned'[s] \subseteq 1..issued'
  BY DEF Apart
<1>2. ASSUME NEW s \in Service, NEW c \in Caller, Given(s, c)'
      PROVE  /\ calls'[s][c].id \in 1..issued'
             /\ \A t \in Service : calls'[s][c].id \notin owned'[t]
             /\ \A t \in Service, d \in Caller : s # t /\ Given(t, d)' => calls'[s][c].id # calls'[t][d].id
  BY <1>2 DEF Apart
<1> QED
  BY <1>1, <1>2 DEF Apart

\* What the steps of other services leave alone.
Spared(s) ==
    /\ service'[s] = service[s] /\ calls'[s] = calls[s]
    /\ alive'[s] = alive[s] /\ owned'[s] = owned[s]

\* What may happen to the list and the failures while a service does nothing.
Elsewhere(s) ==
    /\ spoiled \subseteq spoiled'
    /\ \A i \in owned[s] :
        /\ i \in DOMAIN beats' \cup names' => i \in DOMAIN beats \cup names
        /\ i \in DOMAIN beats \cup removed => i \in DOMAIN beats' \cup removed'

LEMMA StillSound ==
    ASSUME NEW s \in Service, Sound(s), Spared(s), Elsewhere(s)
    PROVE  Sound(s)'
<1> USE DEF Spared, Elsewhere
<1>1. Listed(s)' \subseteq Listed(s) /\ spoiled \subseteq spoiled'
  BY DEF Listed
<1>2. Known(s)'
  BY DEF Sound, Known
<1>3. /\ Busy(s)' = Busy(s)
      /\ \A at : \A c \in Caller : Waits(s, c, at)' = Waits(s, c, at)
      /\ \A c \in Caller : Alone(s, c)' = Alone(s, c) /\ calls'[s][c] = calls[s][c]
      /\ \A places : Someone(s, places)' = Someone(s, places)
      /\ Off(s)' = Off(s)
  BY DEF Busy, Waits, Alone, Someone, Off
<1>4. LeftNothing(s) => LeftNothing(s)'
  BY <1>1 DEF LeftNothing, Listed
<1>5. AtRest(s) => AtRest(s)'
  BY <1>3, <1>4 DEF AtRest
<1>6. Node(s) => Node(s)'
  BY <1>1 DEF Node, IsNode
<1>7. ASSUME NEW c \in Caller, Joining(s, c) PROVE Joining(s, c)'
  BY <1>1, <1>2, <1>3, <1>7 DEF Joining, Known
<1>8. Stopping(s) => Stopping(s)'
  BY <1>1, <1>3 DEF Stopping
<1> QED
  BY <1>2, <1>3, <1>4, <1>5, <1>6, <1>7, <1>8 DEF Sound

\* A step of one service, which touches its own ids only.
LEMMA OwnStep ==
    ASSUME IInv, NEW s \in Service, Types', Apart', Sound(s)',
           \A t \in Service : t # s => Spared(t), spoiled \subseteq spoiled',
           \A i : i \notin owned[s] =>
               /\ i \in DOMAIN beats' \cup names' => i \in DOMAIN beats \cup names
               /\ i \in DOMAIN beats \cup removed => i \in DOMAIN beats' \cup removed'
    PROVE  IInv'
<1>1. ASSUME NEW t \in Service, t # s PROVE Sound(t)'
  <2>1. \A i \in owned[t] : i \notin owned[s]
    BY <1>1 DEF IInv, Apart
  <2> QED
    BY <1>1, <2>1, StillSound DEF IInv, Elsewhere
<1> QED
  BY <1>1 DEF IInv

\* Where start() waits, and with what.
LEMMA Starts ==
    ASSUME NEW s \in Service, NEW c \in Caller, Known(s)', ~service'[s].running, Alone(s, c)',
           \/ calls'[s][c].at \in {"idle", "issuing"} /\ AtRest(s)'
           \/ calls'[s][c].at \in Joins /\ Joining(s, c)'
           \/ calls'[s][c].at = "undoing" /\ Off(s)' /\ alive'[s].listening = {} /\ LeftNothing(s)'
    PROVE  Sound(s)'
<1>1. ~Someone(s, Stops)'
  BY DEF Alone, Waits, Someone, Stops, Joins
<1>2. calls'[s][c].at # "idle" => Busy(s)'
  BY DEF Busy, Waits
<1>3. \A d \in Caller : d # c => calls'[s][d].at = "idle"
  BY DEF Alone, Waits
<1> QED
  BY <1>1, <1>2, <1>3 DEF Sound, Waits, Joins

\* Once all stop() have ended nothing is left.
LEMMA Stops0 ==
    ASSUME NEW s \in Service, Apart', Known(s)', Stopping(s)'
    PROVE  Sound(s)'
<1>1. 0 \notin owned'[s]
  BY DEF Apart
<1>2. ASSUME ~Busy(s)' PROVE AtRest(s)'
  <2>1. \A places : "idle" \notin places => ~Someone(s, places)'
    BY <1>2 DEF Busy, Waits, Someone
  <2>2. service'[s].leader = 0 /\ service'[s].client = 0 /\ service'[s].timer = 0 /\ alive'[s].listening = {}
    BY <2>1 DEF Stopping
  <2>3. alive'[s].timers = {} /\ alive'[s].leaders = {} /\ alive'[s].clients \subseteq spoiled'
    BY <2>2, <1>1 DEF Stopping, Known
  <2>4. Listed(s)' \subseteq spoiled'
    BY <2>1 DEF Stopping
  <2> QED
    BY <2>2, <2>3, <2>4 DEF AtRest, Off, LeftNothing, Listed, Stopping
<1>3. \A c \in Caller : calls'[s][c].at \in Stops \cup {"idle"}
  BY DEF Stopping
<1>4. ~service'[s].running
  BY DEF Stopping
<1> QED
  BY <1>2, <1>3, <1>4 DEF Sound, Waits, Stops, Joins

-----------------------------------------------------------------------------
(* start(). *)

\* While one call is at a place of start(), the others are idle.
LEMMA InStart ==
    ASSUME IInv, NEW s \in Service, NEW c \in Caller, calls[s][c].at \in Joins \cup {"issuing", "undoing"}
    PROVE  ~service[s].running /\ Alone(s, c) /\ Busy(s)
<1>1. Sound(s)
  BY DEF IInv
<1>2. Busy(s)
  BY DEF Busy, Waits, Joins
<1> QED
  BY <1>1, <1>2 DEF Sound, Waits

\* A call that is alone stays so.
LEMMA StillAlone ==
    ASSUME NEW s \in Service, NEW c \in Caller, Alone(s, c),
           \A d \in Caller : d # c => calls'[s][d] = calls[s][d]
    PROVE  Alone(s, c)'
BY DEF Alone, Waits

LEMMA StartKeeps ==
    ASSUME IInv, NEW s \in Service, NEW c \in Caller, NEW done \in BOOLEAN, NEW ok \in BOOLEAN,
           Start(s, c, done, ok)
    PROVE  IInv'
<1>1. Types /\ Apart /\ Sound(s) /\ issued \in Nat
  BY DEF IInv, Types
<1>2. /\ ~Busy(s) /\ ~service[s].running /\ Goes(s, c, "issuing", issued + 1, ok)
      /\ issued' = IF done THEN issued + 1 ELSE issued
      /\ ok => done
      /\ UNCHANGED <<service, alive, beats, names, removed, owned>>
  BY DEF Start, Command
<1>3. spoiled \subseteq spoiled'
  BY Commanded DEF Start
<1>4. /\ calls' \in [Service -> [Caller -> Call]]
      /\ calls'[s][c] = [at |-> "issuing", id |-> issued + 1, ok |-> ok]
      /\ \A t \in Service, d \in Caller : ~(t = s /\ d = c) => calls'[t][d] = calls[t][d]
      /\ \A t \in Service : t # s => calls'[t] = calls[t]
  BY <1>1, <1>2, GoesTo, "issuing" \in Places DEF Places
<1>5. Types'
  BY <1>1, <1>2, <1>4 DEF Types
<1>6. Apart'
  <2>1. \A t \in Service : owned'[t] \subseteq 1..issued'
    BY <1>1, <1>2 DEF Apart
  <2>2. \A t, u \in Service : t # u => owned'[t] \cap owned'[u] = {}
    BY <1>1, <1>2 DEF Apart
  <2>3. \A t \in Service, d \in Caller : Given(t, d)' =>
           \/ t = s /\ d = c /\ issued' = issued + 1 /\ calls'[t][d].id = issued + 1
           \/ Given(t, d) /\ calls'[t][d].id = calls[t][d].id /\ calls[t][d].id \in 1..issued
    BY <1>1, <1>2, <1>4 DEF Given, Waits, Apart
  <2>4. \A t \in Service, d \in Caller : Given(t, d)' =>
           calls'[t][d].id \in 1..issued' /\ \A u \in Service : calls'[t][d].id \notin owned'[u]
    BY <1>1, <1>2, <2>3 DEF Apart
  <2>5. \A t, u \in Service, d, e \in Caller : Given(t, d)' /\ t # u /\ Given(u, e)' =>
           calls'[t][d].id # calls'[u][e].id
    BY <1>1, <1>2, <2>3 DEF Apart
  <2> QED
    BY <2>1, <2>2, <2>4, <2>5 DEF Apart
<1>7. Sound(s)'
  <2>1. AtRest(s)
    BY <1>1, <1>2 DEF Sound
  <2>2. AtRest(s)'
    BY <1>2, <1>3, <2>1 DEF AtRest, Off, LeftNothing
  <2>3. Alone(s, c)
    BY <1>2 DEF Alone, Busy, Waits
  <2>4. Alone(s, c)'
    BY <1>4, <2>3, StillAlone
  <2>5. Known(s)'
    BY <1>1, <1>2 DEF Sound, Known
  <2> QED
    BY <1>2, <1>4, <2>2, <2>4, <2>5, Starts
<1> QED
  BY <1>2, <1>3, <1>4, <1>5, <1>6, <1>7, OwnStep DEF Spared

LEMMA NoIdKeeps ==
    ASSUME IInv, NEW s \in Service, NEW c \in Caller, NoId(s, c)
    PROVE  IInv'
<1>1. Types /\ Apart /\ Sound(s) /\ issued \in Nat
  BY DEF IInv, Types
<1>2. /\ Waits(s, c, "issuing") /\ Ends(s, c)
      /\ UNCHANGED <<service, alive, issued, beats, names, removed, owned, spoiled>>
  BY DEF NoId
<1>3. /\ calls' \in [Service -> [Caller -> Call]]
      /\ calls'[s][c].at = "idle"
      /\ \A t \in Service, d \in Caller : ~(t = s /\ d = c) => calls'[t][d] = calls[t][d]
      /\ \A t \in Service : t # s => calls'[t] = calls[t]
  BY <1>1, <1>2, EndsTo
<1>4. Types'
  BY <1>1, <1>2, <1>3 DEF Types
<1>5. Apart'
  BY <1>1, <1>2, <1>3, StillApart DEF Given, Waits
<1>6. ~service[s].running /\ Alone(s, c) /\ AtRest(s)
  BY <1>1, <1>2, InStart DEF Waits, Sound
<1>7. Alone(s, c)'
  BY <1>3, <1>6, StillAlone
<1>8. AtRest(s)' /\ Known(s)'
  BY <1>1, <1>2, <1>6 DEF AtRest, Off, LeftNothing, Sound, Known
<1>9. Sound(s)'
  BY <1>2, <1>3, <1>6, <1>7, <1>8, Starts
<1> QED
  BY <1>2, <1>3, <1>4, <1>5, <1>9, OwnStep DEF Spared

LEMMA SubscribeKeeps ==
    ASSUME IInv, NEW s \in Service, NEW c \in Caller, NEW done \in BOOLEAN, NEW ok \in BOOLEAN,
           Subscribe(s, c, done, ok)
    PROVE  IInv'
<1> DEFINE id == calls[s][c].id
<1>1. Types /\ Apart /\ Sound(s) /\ issued \in Nat
  BY DEF IInv, Types
<1>2. /\ Waits(s, c, "issuing") /\ calls[s][c].ok /\ Given(s, c) /\ Goes(s, c, "subscribing", id, ok)
      /\ service' = [service EXCEPT ![s].id = id, ![s].client = id]
      /\ alive' = [alive EXCEPT ![s].clients = @ \cup {id}]
      /\ owned' = [owned EXCEPT ![s] = @ \cup {id}]
      /\ UNCHANGED <<issued, beats, names, removed>>
  BY DEF Subscribe, Given
<1>3. spoiled \subseteq spoiled' /\ (ok \/ id \in spoiled')
  BY Commanded DEF Subscribe
<1>4. id \in 1..issued /\ id \in Nat /\ \A t \in Service : id \notin owned[t]
  BY <1>1, <1>2 DEF Apart
<1>5. /\ calls' \in [Service -> [Caller -> Call]]
      /\ calls'[s][c] = [at |-> "subscribing", id |-> id, ok |-> ok]
      /\ \A t \in Service, d \in Caller : ~(t = s /\ d = c) => calls'[t][d] = calls[t][d]
      /\ \A t \in Service : t # s => calls'[t] = calls[t]
  BY <1>1, <1>2, <1>4, GoesTo, "subscribing" \in Places DEF Places, Joins
<1>6. /\ service' \in [Service -> Fields] /\ service'[s] = [service[s] EXCEPT !.id = id, !.client = id]
      /\ \A t \in Service : t # s => service'[t] = service[t]
  BY <1>1, <1>2, <1>4 DEF Types, Fields
<1>7. /\ alive' \in [Service -> Things] /\ alive'[s] = [alive[s] EXCEPT !.clients = @ \cup {id}]
      /\ \A t \in Service : t # s => alive'[t] = alive[t]
  BY <1>1, <1>2, <1>4 DEF Types, Things
<1>8. /\ owned' \in [Service -> SUBSET Nat] /\ owned'[s] = owned[s] \cup {id}
      /\ \A t \in Service : t # s => owned'[t] = owned[t]
  BY <1>1, <1>2, <1>4 DEF Types
<1>9. Types'
  BY <1>1, <1>2, <1>5, <1>6, <1>7, <1>8 DEF Types
<1>10. Apart'
  <2>1. \A t \in Service, d \in Caller : Given(t, d)' =>
           Given(t, d) /\ calls'[t][d].id = calls[t][d].id /\ ~(t = s /\ d = c)
    BY <1>5 DEF Given, Waits
  <2>2. \A d \in Caller : ~Given(s, d)'
    BY <1>1, <1>2, <1>5, <2>1, InStart DEF Alone, Waits, Given
  <2> QED
    BY <1>1, <1>2, <1>4, <1>8, <2>1, <2>2 DEF Apart
<1>11. Sound(s)'
  <2>1. ~service[s].running /\ Alone(s, c) /\ AtRest(s)
    BY <1>1, <1>2, InStart DEF Waits, Sound
  <2>2. Alone(s, c)'
    BY <1>5, <2>1, StillAlone
  <2>3. Joining(s, c)'
    BY <1>1, <1>2, <1>3, <1>5, <1>6, <1>7, <1>8, <2>1 DEF Joining, AtRest, LeftNothing, Off, Listed, Waits, Types, Fields, Things
  <2>4. Known(s)'
    BY <1>1, <1>6, <1>7, <1>8 DEF Sound, Known, Types, Fields, Things
  <2>5. ~service'[s].running
    BY <1>1, <1>6, <2>1 DEF Types, Fields
  <2> QED
    BY <1>5, <2>2, <2>3, <2>4, <2>5, Starts DEF Joins
<1> QED
  BY <1>2, <1>3, <1>5, <1>6, <1>7, <1>8, <1>9, <1>10, <1>11, OwnStep DEF Spared

\* What a start() that is under way has.
LEMMA Joined ==
    ASSUME IInv, NEW s \in Service, NEW c \in Caller, calls[s][c].at \in Joins
    PROVE  /\ Types /\ Apart /\ Sound(s) /\ Known(s) /\ issued \in Nat
           /\ ~service[s].running /\ Alone(s, c) /\ Joining(s, c)
           /\ calls[s][c].id = service[s].id /\ calls[s][c].id \in owned[s] /\ calls[s][c].id \in Nat
<1>1. Types /\ Apart /\ Sound(s) /\ Known(s) /\ issued \in Nat
  BY DEF IInv, Types, Sound
<1>2. ~service[s].running /\ Alone(s, c)
  BY InStart
<1>3. Joining(s, c)
  BY <1>1 DEF Sound
<1>4. calls[s][c].id = service[s].id /\ calls[s][c].id \in owned[s]
  BY <1>1, <1>3 DEF Joining, Known
<1>5. calls[s][c].id \in Nat
  BY <1>1 DEF Types, Call
<1> QED
  BY <1>1, <1>2, <1>3, <1>4, <1>5

LEMMA RegisterKeeps ==
    ASSUME IInv, NEW s \in Service, NEW c \in Caller, NEW done \in BOOLEAN, NEW ok \in BOOLEAN,
           Register(s, c, done, ok)
    PROVE  IInv'
<1> DEFINE id == calls[s][c].id
<1>1. /\ Waits(s, c, "subscribing") /\ calls[s][c].ok /\ Goes(s, c, "registering", id, ok)
      /\ Command(service[s].id, done, ok) /\ HEARTBEAT(service[s].id, done)
      /\ alive' = [alive EXCEPT ![s].listening = @ \cup ({id} \cap alive[s].clients)]
      /\ UNCHANGED <<service, issued, names, removed, owned>>
  BY DEF Register
<1>2. calls[s][c].at \in Joins
  BY <1>1 DEF Waits, Joins
<1>3. /\ Types /\ Apart /\ Sound(s) /\ Known(s) /\ issued \in Nat
      /\ ~service[s].running /\ Alone(s, c) /\ Joining(s, c)
      /\ id = service[s].id /\ id \in owned[s] /\ id \in Nat
  BY <1>2, Joined
<1>4. spoiled \subseteq spoiled' /\ (ok \/ id \in spoiled') /\ (ok => done)
  BY <1>1, <1>3, Commanded DEF Command
<1>5. DOMAIN beats' = IF done THEN DOMAIN beats \cup {id} ELSE DOMAIN beats
  BY <1>1, <1>3, Heard
<1>6. /\ calls' \in [Service -> [Caller -> Call]]
      /\ calls'[s][c] = [at |-> "registering", id |-> id, ok |-> ok]
      /\ \A t \in Service, d \in Caller : ~(t = s /\ d = c) => calls'[t][d] = calls[t][d]
      /\ \A t \in Service : t # s => calls'[t] = calls[t]
  BY <1>1, <1>3, GoesTo, "registering" \in Places DEF Places, Joins
<1>7. /\ alive' \in [Service -> Things] /\ alive'[s] = [alive[s] EXCEPT !.listening = {id}]
      /\ \A t \in Service : t # s => alive'[t] = alive[t]
  <2> DEFINE v == [alive[s] EXCEPT !.listening = {id}]
  <2>1. alive[s].listening \cup ({id} \cap alive[s].clients) = {id}
    BY <1>1, <1>3 DEF Joining
  <2>2. alive \in [Service -> Things] /\ alive[s] \in Things
    BY <1>3 DEF Types
  <2>3. v \in Things
    BY <1>3, <2>2 DEF Things
  <2>4. alive' = [alive EXCEPT ![s] = v]
    BY <1>1, <2>1
  <2> HIDE DEF v, Things
  <2> QED
    BY <2>2, <2>3, <2>4, Replaced DEF v
<1>8. Types'
  BY <1>1, <1>3, <1>6, <1>7 DEF Types
<1>9. Apart'
  BY <1>1, <1>3, <1>6, StillApart DEF Given, Waits
<1>10. Sound(s)'
  <2>1. Alone(s, c)'
    BY <1>3, <1>6, StillAlone
  <2>2. Listed(s)' \subseteq Listed(s) \cup {id}
    BY <1>1, <1>5 DEF Listed
  <2>3. Joining(s, c)'
    BY <1>1, <1>3, <1>4, <1>5, <1>6, <1>7, <2>2 DEF Joining, Off, Waits, Types, Things
  <2>4. Known(s)'
    BY <1>1, <1>3, <1>7 DEF Known, Types, Things
  <2> QED
    BY <1>1, <1>3, <1>6, <2>1, <2>3, <2>4, Starts DEF Joins
<1> QED
  BY <1>1, <1>3, <1>4, <1>5, <1>6, <1>7, <1>8, <1>9, <1>10, OwnStep DEF Spared

LEMMA NameKeeps ==
    ASSUME IInv, NEW s \in Service, NEW c \in Caller, NEW done \in BOOLEAN, NEW ok \in BOOLEAN,
           Name(s, c, done, ok)
    PROVE  IInv'
<1> DEFINE id == calls[s][c].id
<1>1. /\ Waits(s, c, "registering") /\ calls[s][c].ok /\ Goes(s, c, "naming", id, ok)
      /\ Command(service[s].id, done, ok)
      /\ names' = IF done THEN names \cup {service[s].id} ELSE names
      /\ UNCHANGED <<service, alive, issued, beats, removed, owned>>
  BY DEF Name
<1>2. calls[s][c].at \in Joins
  BY <1>1 DEF Waits, Joins
<1>3. /\ Types /\ Apart /\ Sound(s) /\ Known(s) /\ issued \in Nat
      /\ ~service[s].running /\ Alone(s, c) /\ Joining(s, c)
      /\ id = service[s].id /\ id \in owned[s] /\ id \in Nat
  BY <1>2, Joined
<1>4. spoiled \subseteq spoiled' /\ (ok \/ id \in spoiled')
  BY <1>1, <1>3, Commanded
<1>5. names' \subseteq names \cup {id}
  BY <1>1, <1>3
<1>6. /\ calls' \in [Service -> [Caller -> Call]]
      /\ calls'[s][c] = [at |-> "naming", id |-> id, ok |-> ok]
      /\ \A t \in Service, d \in Caller : ~(t = s /\ d = c) => calls'[t][d] = calls[t][d]
      /\ \A t \in Service : t # s => calls'[t] = calls[t]
  BY <1>1, <1>3, GoesTo, "naming" \in Places DEF Places, Joins
<1>7. Types'
  BY <1>1, <1>3, <1>6 DEF Types
<1>8. Apart'
  BY <1>1, <1>3, <1>6, StillApart DEF Given, Waits
<1>9. Sound(s)'
  <2>1. Alone(s, c)'
    BY <1>3, <1>6, StillAlone
  <2>2. Listed(s)' \subseteq Listed(s) \cup {id}
    BY <1>1, <1>5 DEF Listed
  <2>3. Joining(s, c)'
    BY <1>1, <1>3, <1>4, <1>6, <2>2 DEF Joining, Off, Waits
  <2>4. Known(s)'
    BY <1>1, <1>3 DEF Known
  <2> QED
    BY <1>1, <1>3, <1>6, <2>1, <2>3, <2>4, Starts DEF Joins
<1> QED
  BY <1>1, <1>3, <1>4, <1>5, <1>6, <1>7, <1>8, <1>9, OwnStep DEF Spared

LEMMA StartedKeeps ==
    ASSUME IInv, NEW s \in Service, NEW c \in Caller, Started(s, c)
    PROVE  IInv'
<1> DEFINE id == calls[s][c].id
<1>1. /\ Waits(s, c, "naming") /\ calls[s][c].ok /\ Ends(s, c)
      /\ service' = [service EXCEPT ![s].running = TRUE, ![s].timer = id, ![s].leader = id]
      /\ alive' = [alive EXCEPT ![s].timers = @ \cup {id}, ![s].leaders = @ \cup {id}]
      /\ UNCHANGED <<issued, beats, names, removed, owned, spoiled>>
  BY DEF Started
<1>2. calls[s][c].at \in Joins
  BY <1>1 DEF Waits, Joins
<1>3. /\ Types /\ Apart /\ Sound(s) /\ Known(s) /\ issued \in Nat
      /\ ~service[s].running /\ Alone(s, c) /\ Joining(s, c)
      /\ id = service[s].id /\ id \in owned[s] /\ id \in Nat
  BY <1>2, Joined
<1>4. /\ calls' \in [Service -> [Caller -> Call]]
      /\ calls'[s][c].at = "idle"
      /\ \A t \in Service, d \in Caller : ~(t = s /\ d = c) => calls'[t][d] = calls[t][d]
      /\ \A t \in Service : t # s => calls'[t] = calls[t]
  BY <1>1, <1>3, EndsTo
<1>5. /\ service' \in [Service -> Fields]
      /\ service'[s] = [service[s] EXCEPT !.running = TRUE, !.timer = id, !.leader = id]
      /\ \A t \in Service : t # s => service'[t] = service[t]
  <2> DEFINE v == [service[s] EXCEPT !.running = TRUE, !.timer = id, !.leader = id]
  <2>1. service \in [Service -> Fields] /\ service[s] \in Fields
    BY <1>3 DEF Types
  <2>2. v \in Fields
    BY <1>3, <2>1 DEF Fields
  <2>3. service' = [service EXCEPT ![s] = v]
    BY <1>1
  <2> HIDE DEF v, Fields
  <2> QED
    BY <2>1, <2>2, <2>3, Replaced DEF v
<1>6. /\ alive' \in [Service -> Things]
      /\ alive'[s] = [alive[s] EXCEPT !.timers = {id}, !.leaders = {id}]
      /\ \A t \in Service : t # s => alive'[t] = alive[t]
  <2> DEFINE v == [alive[s] EXCEPT !.timers = {id}, !.leaders = {id}]
  <2>1. alive[s].timers = {} /\ alive[s].leaders = {}
    BY <1>3 DEF Joining
  <2>2. alive \in [Service -> Things] /\ alive[s] \in Things
    BY <1>3 DEF Types
  <2>3. v \in Things
    BY <1>3, <2>2 DEF Things
  <2>4. alive' = [alive EXCEPT ![s] = v]
    BY <1>1, <2>1
  <2> HIDE DEF v, Things
  <2> QED
    BY <2>2, <2>3, <2>4, Replaced DEF v
<1>7. Types'
  BY <1>1, <1>3, <1>4, <1>5, <1>6 DEF Types
<1>8. Apart'
  BY <1>1, <1>3, <1>4, StillApart DEF Given, Waits
<1>9. Sound(s)'
  <2>1. \A d \in Caller : calls'[s][d].at = "idle"
    BY <1>3, <1>4 DEF Alone, Waits
  <2>2. service'[s].running /\ ~Busy(s)' /\ ~Someone(s, Stops)'
    <3>1. service'[s].running
      BY <1>3, <1>5 DEF Types, Fields
    <3> QED
      BY <2>1, <3>1 DEF Busy, Waits, Someone, Stops
  <2>3. Known(s)'
    BY <1>1, <1>3, <1>5, <1>6 DEF Known, Types, Things, Fields
  <2>4. Node(s)'
    <3>1. /\ service'[s].id = id /\ service'[s].client = id
          /\ service'[s].timer = id /\ service'[s].leader = id
      <4>1. service[s] \in Fields /\ service[s].id = id /\ service[s].client = id
        BY <1>3 DEF Types, Joining
      <4> QED
        BY <1>5, <4>1 DEF Fields
    <3>2. /\ alive'[s].timers = {id} /\ alive'[s].leaders = {id}
          /\ alive'[s].listening = alive[s].listening /\ alive'[s].clients = alive[s].clients
      <4>1. alive[s] \in Things
        BY <1>3 DEF Types
      <4> QED
        BY <1>6, <4>1 DEF Things
    <3>3. /\ alive[s].listening = {id} /\ id \in DOMAIN beats \cup removed
          /\ alive[s].clients \subseteq spoiled \cup {id} /\ Listed(s) \subseteq spoiled \cup {id}
      BY <1>1, <1>3 DEF Joining, Waits
    <3>4. Listed(s)' = Listed(s)
      BY <1>1 DEF Listed
    <3> HIDE DEF id
    <3> QED
      BY <1>1, <1>3, <3>1, <3>2, <3>3, <3>4 DEF Node, IsNode
  <2> QED
    BY <2>1, <2>2, <2>3, <2>4 DEF Sound, Waits, Joins
<1> QED
  BY <1>1, <1>4, <1>5, <1>6, <1>7, <1>8, <1>9, OwnStep DEF Spared

LEMMA UndoKeeps ==
    ASSUME IInv, NEW s \in Service, NEW c \in Caller, NEW done \in BOOLEAN, NEW ok \in BOOLEAN,
           Undo(s, c, done, ok)
    PROVE  IInv'
<1> DEFINE id == calls[s][c].id
           left == IF done THEN alive[s].clients \ {id} ELSE alive[s].clients
<1>1. /\ calls[s][c].at \in Joins /\ ~calls[s][c].ok /\ Goes(s, c, "undoing", id, ok)
      /\ Command(id, done, ok)
      /\ alive' = [alive EXCEPT ![s].listening = @ \ {id}, ![s].clients = left]
      /\ UNCHANGED <<service, issued, beats, names, removed, owned>>
  BY DEF Undo, Joins
<1>2. /\ Types /\ Apart /\ Sound(s) /\ Known(s) /\ issued \in Nat
      /\ ~service[s].running /\ Alone(s, c) /\ Joining(s, c)
      /\ id = service[s].id /\ id \in owned[s] /\ id \in Nat
  BY <1>1, Joined
<1>3. spoiled \subseteq spoiled' /\ id \in spoiled
  BY <1>1, <1>2, Commanded DEF Joining
<1>4. /\ calls' \in [Service -> [Caller -> Call]]
      /\ calls'[s][c] = [at |-> "undoing", id |-> id, ok |-> ok]
      /\ \A t \in Service, d \in Caller : ~(t = s /\ d = c) => calls'[t][d] = calls[t][d]
      /\ \A t \in Service : t # s => calls'[t] = calls[t]
  BY <1>1, <1>2, GoesTo, "undoing" \in Places DEF Places
<1>5. /\ alive' \in [Service -> Things]
      /\ alive'[s] = [alive[s] EXCEPT !.listening = {}, !.clients = left]
      /\ \A t \in Service : t # s => alive'[t] = alive[t]
  <2> DEFINE v == [alive[s] EXCEPT !.listening = {}, !.clients = left]
  <2>1. alive[s].listening \ {id} = {}
    BY <1>2 DEF Joining
  <2>2. alive \in [Service -> Things] /\ alive[s] \in Things
    BY <1>2 DEF Types
  <2>3. v \in Things
    BY <2>2 DEF Things
  <2>4. alive' = [alive EXCEPT ![s] = v]
    BY <1>1, <2>1
  <2> HIDE DEF v, Things
  <2> QED
    BY <2>2, <2>3, <2>4, Replaced DEF v
<1>6. Types'
  BY <1>1, <1>2, <1>4, <1>5 DEF Types
<1>7. Apart'
  BY <1>1, <1>2, <1>4, StillApart DEF Given, Waits
<1>8. Sound(s)'
  <2>1. Alone(s, c)'
    BY <1>2, <1>4, StillAlone
  <2>2. Known(s)'
    BY <1>1, <1>2, <1>5 DEF Known, Types, Things
  <2>3. Off(s)' /\ alive'[s].listening = {}
    BY <1>1, <1>2, <1>5 DEF Off, Joining, Types, Things
  <2>4. LeftNothing(s)'
    BY <1>1, <1>2, <1>3, <1>5 DEF LeftNothing, Joining, Listed, Types, Things
  <2>5. ~service'[s].running
    BY <2>3 DEF Off
  <2>6. calls'[s][c].at = "undoing"
    BY <1>4
  <2> QED
    BY <2>1, <2>2, <2>3, <2>4, <2>5, <2>6, Starts
<1> QED
  BY <1>1, <1>3, <1>4, <1>5, <1>6, <1>7, <1>8, OwnStep DEF Spared

LEMMA UndoneKeeps ==
    ASSUME IInv, NEW s \in Service, NEW c \in Caller, Undone(s, c)
    PROVE  IInv'
<1>1. /\ Waits(s, c, "undoing") /\ Ends(s, c)
      /\ service' = [service EXCEPT ![s].client = 0]
      /\ UNCHANGED <<alive, issued, beats, names, removed, owned, spoiled>>
  BY DEF Undone
<1>2. Types /\ Apart /\ Sound(s) /\ Known(s) /\ issued \in Nat
  BY DEF IInv, Types, Sound
<1>3. ~service[s].running /\ Alone(s, c)
  BY <1>1, InStart DEF Waits
<1>4. Off(s) /\ alive[s].listening = {} /\ LeftNothing(s)
  BY <1>1, <1>2 DEF Sound
<1>5. /\ calls' \in [Service -> [Caller -> Call]]
      /\ calls'[s][c].at = "idle"
      /\ \A t \in Service, d \in Caller : ~(t = s /\ d = c) => calls'[t][d] = calls[t][d]
      /\ \A t \in Service : t # s => calls'[t] = calls[t]
  BY <1>1, <1>2, EndsTo
<1>6. /\ service' \in [Service -> Fields] /\ service'[s] = [service[s] EXCEPT !.client = 0]
      /\ \A t \in Service : t # s => service'[t] = service[t]
  BY <1>1, <1>2 DEF Types, Fields
<1>7. Types'
  BY <1>1, <1>2, <1>5, <1>6 DEF Types
<1>8. Apart'
  BY <1>1, <1>2, <1>5, StillApart DEF Given, Waits
<1>9. Sound(s)'
  <2>1. Alone(s, c)'
    BY <1>3, <1>5, StillAlone
  <2>2. Known(s)' /\ ~service'[s].running
    BY <1>1, <1>2, <1>3, <1>6 DEF Known, Types, Fields
  <2>3. AtRest(s)'
    BY <1>1, <1>2, <1>4, <1>6 DEF AtRest, Off, LeftNothing, Types, Fields
  <2> QED
    BY <1>5, <2>1, <2>2, <2>3, Starts
<1> QED
  BY <1>1, <1>5, <1>6, <1>7, <1>8, <1>9, OwnStep DEF Spared

-----------------------------------------------------------------------------
(* stop(). *)

\* What stop() may begin with, or go on with once the leader service has ended.
Ready(s) ==
    LET v == service[s]
        a == alive[s] IN
    /\ \A d \in Caller : calls[s][d].at \in Stops \cup {"idle"}
    /\ a.leaders \subseteq {v.leader} /\ a.timers \subseteq {v.timer} /\ a.listening \subseteq {v.client}
    /\ a.clients \subseteq spoiled \cup {v.client} /\ Listed(s) \subseteq spoiled \cup {v.id}
    /\ v.leader # 0 => ~Someone(s, Stops \ {"resigning"})
    /\ \A d \in Caller :
        /\ Waits(s, d, "quitting") => v.client \notin a.clients \/ v.client \in spoiled
        /\ Waits(s, d, "unsubscribing") /\ ~calls[s][d].ok => v.client \notin a.clients \/ v.client \in spoiled

\* Some stop() is at work.
LEMMA InStop ==
    ASSUME IInv, NEW s \in Service, NEW c \in Caller, calls[s][c].at \in Stops
    PROVE  Stopping(s)
BY DEF IInv, Sound, Someone

LEMMA MayStop ==
    ASSUME IInv, NEW s \in Service, ~Starting(s)
    PROVE  Ready(s)
<1>1. Types /\ Sound(s) /\ Apart
  BY DEF IInv
<1>2. \A d \in Caller : calls[s][d].at \in Stops \cup {"idle"}
  <2>1. \A d \in Caller : calls[s][d].at \in Places
    BY <1>1 DEF Types, Call
  <2> QED
    BY <2>1 DEF Starting, Places, Joins, Stops
<1>3. CASE Someone(s, Stops)
  BY <1>1, <1>3 DEF Sound, Stopping, Ready
<1>4. CASE ~Someone(s, Stops)
  <2>1. \A d \in Caller : calls[s][d].at = "idle"
    BY <1>2, <1>4 DEF Someone
  <2>2. ~Busy(s) /\ ~Someone(s, Stops \ {"resigning"})
    BY <1>4, <2>1 DEF Busy, Waits, Someone
  <2>3. CASE service[s].running
    <3>1. Node(s)
      BY <1>1, <2>3 DEF Sound
    <3> QED
      BY <1>2, <2>1, <2>2, <3>1 DEF Node, IsNode, Ready, Waits
  <2>4. CASE ~service[s].running
    <3>1. AtRest(s)
      BY <1>1, <2>2, <2>4 DEF Sound
    <3> QED
      BY <1>2, <2>1, <2>2, <3>1 DEF AtRest, Off, LeftNothing, Listed, Ready, Waits
  <2> QED
    BY <2>3, <2>4
<1> QED
  BY <1>3, <1>4

\* DEREGISTER, once all the rest is gone.
LEMMA DeregisterKeeps ==
    ASSUME IInv, NEW s \in Service, NEW c \in Caller, NEW done \in BOOLEAN, NEW ok \in BOOLEAN,
           NEW v \in Fields, Deregister(s, c, v, done, ok),
           ~v.running, v.timer = 0, v.leader = 0, v.client = 0, v.id = service[s].id,
           alive' \in [Service -> Things], \A t \in Service : t # s => alive'[t] = alive[t],
           alive'[s].timers = {}, alive'[s].leaders = {}, alive'[s].listening = {},
           alive'[s].clients \subseteq alive[s].clients, alive[s].clients \subseteq spoiled,
           Listed(s) \subseteq spoiled \cup {v.id},
           \A d \in Caller : calls[s][d].at \in Stops \cup {"idle"},
           UNCHANGED <<issued, removed, owned>>
    PROVE  IInv'
<1>1. Types /\ Apart /\ Known(s) /\ issued \in Nat /\ 0 \notin owned[s]
  BY DEF IInv, Types, Sound, Apart
<1>2. /\ service' \in [Service -> Fields] /\ \A t \in Service : t # s => service'[t] = service[t]
      /\ service'[s].id = 0 /\ ~service'[s].running /\ service'[s].timer = 0
      /\ service'[s].leader = 0 /\ service'[s].client = 0
  <2>1. CASE v.id = 0
    BY <1>1, <2>1 DEF Deregister, Types, Fields
  <2>2. CASE v.id # 0
    <3> DEFINE w == [v EXCEPT !.id = 0]
    <3>1. /\ w \in Fields /\ w.id = 0 /\ ~w.running /\ w.timer = 0
          /\ w.leader = 0 /\ w.client = 0
      BY DEF Fields
    <3>2. service' = [service EXCEPT ![s] = w]
      BY <2>2 DEF Deregister
    <3> HIDE DEF w
    <3> QED
      BY <1>1, <3>1, <3>2 DEF Types
  <2> QED
    BY <2>1, <2>2
<1>3. /\ calls' \in [Service -> [Caller -> Call]]
      /\ calls'[s][c].at \in {"idle", "deregistering"}
      /\ \A t \in Service, d \in Caller : ~(t = s /\ d = c) => calls'[t][d] = calls[t][d]
      /\ \A t \in Service : t # s => calls'[t] = calls[t]
  <2>1. CASE v.id = 0
    BY <1>1, <2>1, EndsTo DEF Deregister
  <2>2. CASE v.id # 0
    <3>1. Goes(s, c, "deregistering", 0, ok)
      BY <2>2 DEF Deregister
    <3>2. "deregistering" \in Places
      BY DEF Places, Stops
    <3>3. /\ calls' \in [Service -> [Caller -> Call]]
          /\ calls'[s][c] = [at |-> "deregistering", id |-> 0, ok |-> ok]
          /\ \A t \in Service, d \in Caller : ~(t = s /\ d = c) => calls'[t][d] = calls[t][d]
          /\ \A t \in Service : t # s => calls'[t] = calls[t]
      BY <1>1, <3>1, <3>2, GoesTo
    <3> QED
      BY <3>3
  <2> QED
    BY <2>1, <2>2
<1>4. /\ spoiled \subseteq spoiled'
      /\ DOMAIN beats' \subseteq DOMAIN beats /\ names' \subseteq names
      /\ \A i \in DOMAIN beats : i = v.id \/ i \in DOMAIN beats'
      /\ v.id \in (DOMAIN beats' \cup names') /\ v.id \in owned[s] => v.id \in spoiled'
  <2>1. CASE v.id = 0
    BY <1>1, <2>1 DEF Deregister
  <2>2. CASE v.id # 0
    <3>1. /\ Command(v.id, done, ok)
          /\ beats' = IF done THEN Without({v.id}) ELSE beats
          /\ names' = IF done THEN names \ {v.id} ELSE names
      BY <2>2 DEF Deregister
    <3>2. DOMAIN beats' = IF done THEN DOMAIN beats \ {v.id} ELSE DOMAIN beats
      BY <3>1 DEF Without
    <3>3. spoiled \subseteq spoiled' /\ (done \/ v.id \in spoiled')
      BY <1>1, <3>1, Commanded
    <3> QED
      BY <3>1, <3>2, <3>3
  <2> QED
    BY <2>1, <2>2
<1>5. Types'
  BY <1>1, <1>2, <1>3 DEF Types
<1>6. Apart'
  BY <1>1, <1>3, StillApart DEF Given, Waits
<1>7. Known(s)'
  BY <1>1, <1>2 DEF Known
<1>8. Stopping(s)'
  <2>1. \A d \in Caller : calls'[s][d].at \in Stops \cup {"idle"}
    BY <1>3 DEF Stops
  <2>2. Listed(s)' \subseteq spoiled' /\ 0 \notin Listed(s)' /\ 0 \notin alive'[s].clients
    BY <1>1, <1>4, <1>7 DEF Listed, Known
  <2> QED
    BY <1>2, <1>4, <2>1, <2>2 DEF Stopping
<1>9. Sound(s)'
  BY <1>6, <1>7, <1>8, Stops0
<1>10. \A i : i \notin owned[s] => i # v.id \/ v.id = 0
  BY <1>1 DEF Known
<1>11. \A i : i \notin owned[s] /\ i \in DOMAIN beats => i \in DOMAIN beats'
  <2>1. CASE v.id = 0
    BY <2>1 DEF Deregister
  <2>2. CASE v.id # 0
    BY <1>4, <1>10, <2>2
  <2> QED
    BY <2>1, <2>2
<1> QED
  BY <1>2, <1>3, <1>4, <1>5, <1>6, <1>9, <1>11, OwnStep DEF Spared

LEMMA LeavesKeeps ==
    ASSUME IInv, NEW s \in Service, NEW c \in Caller, NEW done \in BOOLEAN, NEW ok \in BOOLEAN,
           NEW v \in Fields, Ready(s), Leaves(s, c, v, done, ok),
           ~v.running, v.id = service[s].id, v.client = service[s].client,
           v.timer = service[s].timer, v.leader = service[s].leader,
           UNCHANGED <<issued, removed, owned>>
    PROVE  IInv'
<1> DEFINE cleared == [v EXCEPT !.leader = 0, !.timer = 0]
           without == [alive EXCEPT ![s].timers = @ \ {v.timer}, ![s].leaders = @ \ {v.leader}]
<1>1. Types /\ Apart /\ Known(s) /\ issued \in Nat /\ 0 \notin owned[s]
  BY DEF IInv, Types, Sound, Apart
<1>2. /\ cleared \in Fields /\ cleared.leader = 0 /\ cleared.timer = 0 /\ ~cleared.running
      /\ cleared.id = v.id /\ cleared.client = v.client
  BY DEF Fields
<1>3. /\ without \in [Service -> Things] /\ \A t \in Service : t # s => without[t] = alive[t]
      /\ without[s].timers = {} /\ without[s].leaders = {}
      /\ without[s].listening = alive[s].listening /\ without[s].clients = alive[s].clients
  <2>1. alive[s].timers \ {v.timer} = {} /\ alive[s].leaders \ {v.leader} = {}
    BY DEF Ready
  <2> QED
    BY <1>1, <2>1 DEF Types, Things
<1>4. CASE v.client = 0
  <2>1. Deregister(s, c, cleared, done, ok) /\ alive' = without
    BY <1>4 DEF Leaves
  <2>2. alive[s].clients \subseteq spoiled /\ alive[s].listening = {}
    BY <1>1, <1>4 DEF Ready, Known
  <2>3. Listed(s) \subseteq spoiled \cup {cleared.id} /\ \A d \in Caller : calls[s][d].at \in Stops \cup {"idle"}
    BY <1>2 DEF Ready
  <2> HIDE DEF cleared, without
  <2> QED
    BY <1>2, <1>3, <1>4, <2>1, <2>2, <2>3, DeregisterKeeps
<1>5. CASE v.client # 0
  <2>1. /\ Command(v.client, done, ok) /\ service' = [service EXCEPT ![s] = cleared]
        /\ alive' = [without EXCEPT ![s].listening = @ \ {v.client}]
        /\ Goes(s, c, "unsubscribing", 0, ok) /\ UNCHANGED <<beats, names>>
    BY <1>5 DEF Leaves
  <2>2. /\ service' \in [Service -> Fields] /\ service'[s] = cleared
        /\ \A t \in Service : t # s => service'[t] = service[t]
    BY <1>1, <1>2, <2>1 DEF Types
  <2>3. /\ alive' \in [Service -> Things] /\ \A t \in Service : t # s => alive'[t] = alive[t]
        /\ alive'[s].timers = {} /\ alive'[s].leaders = {} /\ alive'[s].listening = {}
        /\ alive'[s].clients = alive[s].clients
    <3>1. alive[s].listening \ {v.client} = {}
      BY DEF Ready
    <3> HIDE DEF without
    <3> QED
      BY <1>3, <2>1, <3>1 DEF Things
  <2>4. /\ calls' \in [Service -> [Caller -> Call]]
        /\ calls'[s][c] = [at |-> "unsubscribing", id |-> 0, ok |-> ok]
        /\ \A t \in Service, d \in Caller : ~(t = s /\ d = c) => calls'[t][d] = calls[t][d]
        /\ \A t \in Service : t # s => calls'[t] = calls[t]
    BY <1>1, <2>1, GoesTo, "unsubscribing" \in Places DEF Places, Stops
  <2>5. spoiled \subseteq spoiled' /\ (ok \/ v.client \in spoiled')
    BY <2>1, Commanded
  <2>6. Types'
    BY <1>1, <2>2, <2>3, <2>4 DEF Types
  <2>7. Apart'
    BY <1>1, <2>4, StillApart DEF Given, Waits
  <2>8. Known(s)'
    BY <1>1, <1>2, <2>2, <2>3 DEF Known
  <2>9. Stopping(s)'
    <3>1. Someone(s, {"resigning", "unsubscribing", "quitting"})'
      BY <2>4 DEF Someone
    <3>2. \A d \in Caller : calls'[s][d].at \in Stops \cup {"idle"}
      BY <2>4 DEF Ready, Stops
    <3>3. Listed(s)' = Listed(s)
      BY <2>1 DEF Listed
    <3>4. \A d \in Caller :
             Waits(s, d, "quitting")' \/ (Waits(s, d, "unsubscribing")' /\ ~calls'[s][d].ok) =>
                 v.client \notin alive'[s].clients \/ v.client \in spoiled'
      BY <2>3, <2>4, <2>5 DEF Ready, Waits
    <3> HIDE DEF cleared
    <3> QED
      BY <1>2, <2>2, <2>3, <2>5, <3>1, <3>2, <3>3, <3>4 DEF Stopping, Ready
  <2>10. Sound(s)'
    BY <2>7, <2>8, <2>9, Stops0
  <2> QED
    BY <2>1, <2>2, <2>3, <2>4, <2>5, <2>6, <2>7, <2>10, OwnStep DEF Spared
<1> QED
  BY <1>4, <1>5

LEMMA StopKeeps ==
    ASSUME IInv, NEW s \in Service, NEW c \in Caller, NEW done \in BOOLEAN, NEW ok \in BOOLEAN,
           Stop(s, c, done, ok)
    PROVE  IInv'
<1> DEFINE v == [service[s] EXCEPT !.running = FALSE]
<1>1. Types /\ Apart /\ Sound(s) /\ Known(s) /\ issued \in Nat /\ Ready(s)
  BY MayStop DEF IInv, Types, Sound, Stop
<1>2. /\ v \in Fields /\ ~v.running /\ v.id = service[s].id /\ v.client = service[s].client
      /\ v.timer = service[s].timer /\ v.leader = service[s].leader
  BY <1>1 DEF Types, Fields
<1>3. UNCHANGED <<issued, removed, owned>>
  BY DEF Stop
<1>4. CASE v.leader = 0
  <2>1. Leaves(s, c, v, done, ok)
    BY <1>4 DEF Stop
  <2> HIDE DEF v
  <2> QED
    BY <1>1, <1>2, <1>3, <2>1, LeavesKeeps
<1>5. CASE v.leader # 0
  <2>1. /\ service' = [service EXCEPT ![s] = v]
        /\ alive' = [alive EXCEPT ![s].leaders = @ \ {v.leader}]
        /\ Goes(s, c, "resigning", 0, ok) /\ UNCHANGED <<beats, names, spoiled>>
    BY <1>5 DEF Stop
  <2>2. /\ service' \in [Service -> Fields] /\ service'[s] = v
        /\ \A t \in Service : t # s => service'[t] = service[t]
    BY <1>1, <1>2, <2>1 DEF Types
  <2>3. /\ alive' \in [Service -> Things] /\ alive'[s] = [alive[s] EXCEPT !.leaders = {}]
        /\ \A t \in Service : t # s => alive'[t] = alive[t]
    <3>1. alive[s].leaders \ {v.leader} = {}
      BY <1>1, <1>2 DEF Ready
    <3> QED
      BY <1>1, <2>1, <3>1 DEF Types, Things
  <2>4. /\ calls' \in [Service -> [Caller -> Call]]
        /\ calls'[s][c] = [at |-> "resigning", id |-> 0, ok |-> ok]
        /\ \A t \in Service, d \in Caller : ~(t = s /\ d = c) => calls'[t][d] = calls[t][d]
        /\ \A t \in Service : t # s => calls'[t] = calls[t]
    BY <1>1, <2>1, GoesTo, "resigning" \in Places DEF Places, Stops
  <2>5. Types'
    BY <1>1, <1>3, <2>2, <2>3, <2>4 DEF Types
  <2>6. Apart'
    BY <1>1, <1>3, <2>4, StillApart DEF Given, Waits
  <2>7. Known(s)'
    BY <1>1, <1>2, <1>3, <2>2, <2>3 DEF Known, Types, Things
  <2>8. Stopping(s)'
    <3>1. Someone(s, {"resigning"})' /\ Someone(s, {"resigning", "unsubscribing", "quitting"})'
      BY <2>4 DEF Someone
    <3>2. ~Someone(s, Stops \ {"resigning"})'
      BY <1>1, <1>2, <1>5, <2>4 DEF Someone, Ready
    <3>3. \A d \in Caller : calls'[s][d].at \in Stops \cup {"idle"}
      BY <1>1, <2>4 DEF Ready, Stops
    <3>4. \A d \in Caller : ~Waits(s, d, "quitting")' /\ ~Waits(s, d, "unsubscribing")'
      BY <3>2 DEF Someone, Waits, Stops
    <3>5. Listed(s)' = Listed(s)
      BY <1>3, <2>1 DEF Listed
    <3>6. /\ alive'[s].leaders = {} /\ alive'[s].timers = alive[s].timers
          /\ alive'[s].listening = alive[s].listening /\ alive'[s].clients = alive[s].clients
      BY <1>1, <2>3 DEF Types, Things
    <3> HIDE DEF v
    <3> QED
      BY <1>1, <1>2, <1>5, <2>1, <2>2, <3>1, <3>2, <3>3, <3>4, <3>5, <3>6 DEF Stopping, Ready
  <2>9. Sound(s)'
    BY <2>6, <2>7, <2>8, Stops0
  <2> QED
    BY <1>3, <2>1, <2>2, <2>3, <2>4, <2>5, <2>6, <2>9, OwnStep DEF Spared
<1> QED
  BY <1>4, <1>5

LEMMA ResignedKeeps ==
    ASSUME IInv, NEW s \in Service, NEW c \in Caller, NEW done \in BOOLEAN, NEW ok \in BOOLEAN,
           Resigned(s, c, done, ok)
    PROVE  IInv'
<1>1. Stopping(s)
  BY InStop DEF Resigned, Waits, Stops
<1>2. Ready(s) /\ ~service[s].running
  BY <1>1 DEF Stopping, Ready
<1>3. service[s] \in Fields
  BY DEF IInv, Types
<1> QED
  BY <1>2, <1>3, LeavesKeeps DEF Resigned

LEMMA QuitKeeps ==
    ASSUME IInv, NEW s \in Service, NEW c \in Caller, NEW done \in BOOLEAN, NEW ok \in BOOLEAN,
           Quit(s, c, done, ok)
    PROVE  IInv'
<1> DEFINE client == service[s].client
<1>1. /\ Waits(s, c, "unsubscribing") /\ Command(client, done, ok) /\ Goes(s, c, "quitting", 0, ok)
      /\ alive' = IF done THEN [alive EXCEPT ![s].clients = @ \ {client}, ![s].listening = @ \ {client}]
                          ELSE alive
      /\ UNCHANGED <<service, issued, beats, names, removed, owned>>
  BY DEF Quit
<1>2. Types /\ Apart /\ Sound(s) /\ Known(s) /\ issued \in Nat /\ Stopping(s)
  BY <1>1, InStop DEF IInv, Types, Sound, Waits, Stops
<1>3. /\ alive' \in [Service -> Things] /\ \A t \in Service : t # s => alive'[t] = alive[t]
      /\ alive'[s].leaders = alive[s].leaders /\ alive'[s].timers = alive[s].timers
      /\ alive'[s].clients \subseteq alive[s].clients /\ alive'[s].listening \subseteq alive[s].listening
      /\ done => client \notin alive'[s].clients
  <2>1. CASE done
    BY <1>1, <1>2, <2>1 DEF Types, Things
  <2>2. CASE ~done
    BY <1>1, <1>2, <2>2 DEF Types
  <2> QED
    BY <2>1, <2>2
<1>4. /\ calls' \in [Service -> [Caller -> Call]]
      /\ calls'[s][c] = [at |-> "quitting", id |-> 0, ok |-> ok]
      /\ \A t \in Service, d \in Caller : ~(t = s /\ d = c) => calls'[t][d] = calls[t][d]
      /\ \A t \in Service : t # s => calls'[t] = calls[t]
  BY <1>1, <1>2, GoesTo, "quitting" \in Places DEF Places, Stops
<1>5. spoiled \subseteq spoiled' /\ (done \/ client \in spoiled')
  BY <1>1, Commanded
<1>6. Types'
  BY <1>1, <1>2, <1>3, <1>4 DEF Types
<1>7. Apart'
  BY <1>1, <1>2, <1>4, StillApart DEF Given, Waits
<1>8. Known(s)'
  BY <1>1, <1>2, <1>3 DEF Known
<1>9. Stopping(s)'
  <2>1. Someone(s, {"resigning", "unsubscribing", "quitting"})'
    BY <1>4 DEF Someone
  <2>2. \A d \in Caller : calls'[s][d].at \in Stops \cup {"idle"}
    BY <1>2, <1>4 DEF Stopping, Stops
  <2>3. service[s].leader = 0
    BY <1>1, <1>2 DEF Stopping, Someone, Waits, Stops
  <2>4. \A d \in Caller :
           Waits(s, d, "quitting")' \/ (Waits(s, d, "unsubscribing")' /\ ~calls'[s][d].ok) =>
               client \notin alive'[s].clients \/ client \in spoiled'
    BY <1>2, <1>3, <1>4, <1>5 DEF Stopping, Waits
  <2>5. Listed(s)' = Listed(s)
    BY <1>1 DEF Listed
  <2> QED
    BY <1>1, <1>2, <1>3, <1>5, <2>1, <2>2, <2>3, <2>4, <2>5 DEF Stopping
<1>10. Sound(s)'
  BY <1>7, <1>8, <1>9, Stops0
<1> QED
  BY <1>1, <1>3, <1>4, <1>5, <1>6, <1>7, <1>10, OwnStep DEF Spared

LEMMA LeftKeeps ==
    ASSUME IInv, NEW s \in Service, NEW c \in Caller, NEW done \in BOOLEAN, NEW ok \in BOOLEAN,
           Left(s, c, done, ok)
    PROVE  IInv'
<1> DEFINE v == [service[s] EXCEPT !.client = 0]
<1>1. Deregister(s, c, v, done, ok) /\ UNCHANGED <<alive, issued, removed, owned>>
  BY DEF Left
<1>2. calls[s][c].at \in Stops \ {"resigning"}
  BY DEF Left, Waits, Stops
<1>3. Types /\ Known(s) /\ Stopping(s) /\ 0 \notin owned[s]
  BY <1>2, InStop DEF IInv, Apart, Sound
<1>4. service[s].leader = 0 /\ service[s].timer = 0 /\ alive[s].listening = {}
  BY <1>2, <1>3 DEF Stopping, Someone
<1>5. /\ v \in Fields /\ ~v.running /\ v.id = service[s].id
      /\ v.client = 0 /\ v.timer = 0 /\ v.leader = 0
  BY <1>3, <1>4 DEF Types, Fields, Stopping
<1>6. alive[s].clients \subseteq spoiled
  BY <1>3 DEF Left, Stopping, Known
<1>7. alive[s].timers = {} /\ alive[s].leaders = {} /\ alive \in [Service -> Things]
  BY <1>3, <1>4 DEF Stopping, Known, Types
<1>8. Listed(s) \subseteq spoiled \cup {v.id} /\ \A d \in Caller : calls[s][d].at \in Stops \cup {"idle"}
  BY <1>3, <1>5 DEF Stopping
<1> HIDE DEF v
<1> QED
  BY <1>1, <1>4, <1>5, <1>6, <1>7, <1>8, DeregisterKeeps

LEMMA DeregisteredKeeps ==
    ASSUME IInv, NEW s \in Service, NEW c \in Caller, Deregistered(s, c)
    PROVE  IInv'
<1>1. /\ Waits(s, c, "deregistering") /\ Ends(s, c)
      /\ UNCHANGED <<service, alive, issued, beats, names, removed, owned, spoiled>>
  BY DEF Deregistered
<1>2. Types /\ Apart /\ Sound(s) /\ Known(s) /\ issued \in Nat /\ Stopping(s)
  BY <1>1, InStop DEF IInv, Types, Sound, Waits, Stops
<1>3. /\ calls' \in [Service -> [Caller -> Call]]
      /\ calls'[s][c].at = "idle"
      /\ \A t \in Service, d \in Caller : ~(t = s /\ d = c) => calls'[t][d] = calls[t][d]
      /\ \A t \in Service : t # s => calls'[t] = calls[t]
  BY <1>1, <1>2, EndsTo
<1>4. Types'
  BY <1>1, <1>2, <1>3 DEF Types
<1>5. Apart'
  BY <1>1, <1>2, <1>3, StillApart DEF Given, Waits
<1>6. Known(s)'
  BY <1>1, <1>2 DEF Known
<1>7. Stopping(s)'
  <2>1. Someone(s, {"resigning", "unsubscribing", "quitting"}) =>
            Someone(s, {"resigning", "unsubscribing", "quitting"})'
    BY <1>1, <1>3 DEF Someone, Waits
  <2>2. service[s].leader = 0
    BY <1>1, <1>2 DEF Stopping, Someone, Waits, Stops
  <2>3. \A d \in Caller : calls'[s][d].at \in Stops \cup {"idle"}
    BY <1>2, <1>3 DEF Stopping
  <2>4. Listed(s)' = Listed(s)
    BY <1>1 DEF Listed
  <2> QED
    BY <1>1, <1>2, <1>3, <2>1, <2>2, <2>3, <2>4 DEF Stopping, Waits
<1>8. Sound(s)'
  BY <1>5, <1>6, <1>7, Stops0
<1> QED
  BY <1>1, <1>3, <1>4, <1>5, <1>8, OwnStep DEF Spared

-----------------------------------------------------------------------------
(* Heartbeats, time and crashes. *)

LEMMA BeatKeeps ==
    ASSUME IInv, NEW s \in Service, NEW done \in BOOLEAN, NEW ok \in BOOLEAN, Beat(s, done, ok)
    PROVE  IInv'
<1> DEFINE id == service[s].id
<1>1. /\ service[s].running /\ Command(id, done, ok) /\ HEARTBEAT(id, done)
      /\ UNCHANGED <<service, calls, alive, issued, names, removed, owned>>
  BY DEF Beat
<1>2. Types /\ Apart /\ Sound(s) /\ Known(s) /\ Node(s) /\ ~Busy(s)
  BY <1>1 DEF IInv, Sound
<1>3. spoiled \subseteq spoiled'
  BY <1>1, Commanded
<1>4. DOMAIN beats' = IF done THEN DOMAIN beats \cup {id} ELSE DOMAIN beats
  BY <1>1, Heard
<1>5. id \in owned[s]
  BY <1>2 DEF Node
<1>6. Types'
  BY <1>1, <1>2 DEF Types
<1>7. Apart'
  BY <1>1, <1>2, StillApart DEF Given, Waits, Types
<1>8. Sound(s)'
  <2>1. \A d \in Caller : calls[s][d].at = "idle"
    BY <1>2 DEF Busy, Waits
  <2>2. ~Busy(s)' /\ ~Someone(s, Stops)' /\ \A d \in Caller : calls'[s][d].at = "idle"
    BY <1>1, <2>1 DEF Busy, Waits, Someone, Stops
  <2>3. Known(s)'
    BY <1>1, <1>2 DEF Known
  <2>4. Node(s)'
    BY <1>1, <1>2, <1>3, <1>4 DEF Node, IsNode, Listed
  <2> QED
    BY <1>1, <2>2, <2>3, <2>4 DEF Sound, Waits, Joins
<1> QED
  BY <1>1, <1>3, <1>4, <1>5, <1>6, <1>7, <1>8, OwnStep DEF Spared

\* A step that no service takes.
LEMMA NooneStep ==
    ASSUME IInv, UNCHANGED <<service, calls, alive, issued, owned>>, \A s \in Service : Elsewhere(s)
    PROVE  IInv'
<1>1. Types'
  BY DEF IInv, Types
<1>2. Apart'
  BY StillApart DEF IInv, Given, Waits, Types
<1>3. ASSUME NEW s \in Service PROVE Sound(s)'
  BY <1>3, StillSound DEF IInv, Spared
<1> QED
  BY <1>1, <1>2, <1>3 DEF IInv

LEMMA CleanupKeeps == ASSUME IInv, Cleanup PROVE IInv'
<1>1. \A s \in Service : Elsewhere(s)
  BY DEF Cleanup, Without, Elsewhere
<1> QED
  BY <1>1, NooneStep DEF Cleanup

LEMMA LateKeeps == ASSUME IInv, NEW i, Late(i) PROVE IInv'
<1>1. DOMAIN beats' = DOMAIN beats /\ UNCHANGED <<names, removed, spoiled>>
  BY DEF Late
<1>2. \A s \in Service : Elsewhere(s)
  BY <1>1 DEF Elsewhere
<1> QED
  BY <1>2, NooneStep DEF Late

LEMMA CrashKeeps == ASSUME IInv, NEW s \in Service, Crash(s) PROVE IInv'
<1>1. /\ service' = [service EXCEPT ![s] = Stopped] /\ alive' = [alive EXCEPT ![s] = Nothing]
      /\ calls' = [calls EXCEPT ![s] = [c \in Caller |-> NoCall]] /\ owned' = [owned EXCEPT ![s] = {}]
      /\ UNCHANGED <<issued, beats, names, removed, spoiled>>
  BY DEF Crash
<1>2. Types /\ Apart
  BY DEF IInv
<1>3. Stopped \in Fields /\ Nothing \in Things /\ [c \in Caller |-> NoCall] \in [Caller -> Call]
  BY DEF Stopped, Fields, Nothing, Things, NoCall, Call, Places
<1>4. /\ service'[s] = Stopped /\ alive'[s] = Nothing /\ owned'[s] = {}
      /\ \A c \in Caller : calls'[s][c] = NoCall
      /\ \A t \in Service : t # s => Spared(t)
  BY <1>1, <1>2 DEF Types, Spared
<1>5. Types'
  BY <1>1, <1>2, <1>3 DEF Types
<1>6. Apart'
  <2>1. \A t \in Service, d \in Caller : Given(t, d)' => t # s /\ Given(t, d) /\ calls'[t][d] = calls[t][d]
    BY <1>4 DEF Given, Waits, NoCall, Spared
  <2>2. \A t \in Service : owned'[t] \subseteq owned[t]
    BY <1>4 DEF Spared
  <2> QED
    BY <1>1, <1>2, <2>1, <2>2 DEF Apart
<1>7. Sound(s)'
  <2>1. \A d \in Caller : calls'[s][d].at = "idle"
    BY <1>4 DEF NoCall
  <2>2. ~Busy(s)' /\ ~Someone(s, Stops)'
    BY <2>1 DEF Busy, Waits, Someone, Stops
  <2>3. Known(s)' /\ AtRest(s)' /\ ~service'[s].running
    BY <1>4 DEF Known, AtRest, Off, LeftNothing, Stopped, Nothing
  <2> QED
    BY <2>1, <2>2, <2>3 DEF Sound, Waits, Joins
<1> QED
  BY <1>1, <1>4, <1>5, <1>6, <1>7, OwnStep

-----------------------------------------------------------------------------
(* The theorems. *)

LEMMA InitHolds == ASSUME Init PROVE IInv
<1>1. Stopped \in Fields /\ Nothing \in Things /\ NoCall \in Call
  BY DEF Stopped, Fields, Nothing, Things, NoCall, Call, Places
<1>2. Types
  BY <1>1 DEF Init, Types
<1>3. Apart
  BY DEF Init, Apart, Given, Waits, NoCall
<1>4. ASSUME NEW s \in Service PROVE Sound(s)
  <2>1. \A d \in Caller : calls[s][d].at = "idle"
    BY DEF Init, NoCall
  <2>2. ~Busy(s) /\ ~Someone(s, Stops)
    BY <2>1 DEF Busy, Waits, Someone, Stops
  <2>3. Known(s) /\ AtRest(s) /\ ~service[s].running
    BY DEF Init, Known, AtRest, Off, LeftNothing, Stopped, Nothing
  <2> QED
    BY <2>1, <2>2, <2>3 DEF Sound, Waits, Joins
<1> QED
  BY <1>2, <1>3, <1>4 DEF IInv

LEMMA NextKeeps == ASSUME IInv, [Next]_vars PROVE IInv'
<1>1. ASSUME NEW s \in Service, NEW c \in Caller,
             Started(s, c) \/ NoId(s, c) \/ Undone(s, c) \/ Deregistered(s, c)
      PROVE  IInv'
  BY <1>1, StartedKeeps, NoIdKeeps, UndoneKeeps, DeregisteredKeeps
<1>2. ASSUME NEW s \in Service, NEW c \in Caller, NEW done \in BOOLEAN, NEW ok \in BOOLEAN,
             \/ Start(s, c, done, ok) \/ Subscribe(s, c, done, ok) \/ Register(s, c, done, ok)
             \/ Name(s, c, done, ok) \/ Undo(s, c, done, ok)
      PROVE  IInv'
  BY <1>2, StartKeeps, SubscribeKeeps, RegisterKeeps, NameKeeps, UndoKeeps
<1>3. ASSUME NEW s \in Service, NEW c \in Caller, NEW done \in BOOLEAN, NEW ok \in BOOLEAN,
             \/ Stop(s, c, done, ok) \/ Resigned(s, c, done, ok)
             \/ Quit(s, c, done, ok) \/ Left(s, c, done, ok)
      PROVE  IInv'
  BY <1>3, StopKeeps, ResignedKeeps, QuitKeeps, LeftKeeps
<1>4. ASSUME NEW s \in Service, NEW done \in BOOLEAN, NEW ok \in BOOLEAN, Beat(s, done, ok)
      PROVE  IInv'
  BY <1>4, BeatKeeps
<1>5. ASSUME NEW s \in Service, Crash(s) PROVE IInv'
  BY <1>5, CrashKeeps
<1>6. ASSUME NEW i \in 1..MaxIds, Late(i) PROVE IInv'
  BY <1>6, LateKeeps
<1>7. ASSUME UNCHANGED vars PROVE IInv'
  <2>1. UNCHANGED <<service, calls, alive, issued, owned, beats, names, removed, spoiled>>
    BY <1>7 DEF vars
  <2>2. \A s \in Service : Elsewhere(s)
    BY <2>1 DEF Elsewhere
  <2> QED
    BY <2>1, <2>2, NooneStep
<1>8. CASE Cleanup
  BY <1>8, CleanupKeeps
<1> QED
  BY <1>1, <1>2, <1>3, <1>4, <1>5, <1>6, <1>7, <1>8 DEF Next

\* In every behaviour each service is at rest, on its way in, a node, or on its way out, and
\* what exists of it is told by its fields (mesh.ts, start, stop).
THEOREM Invariance == Spec => []IInv
<1>1. Init => IInv
  BY InitHolds
<1>2. IInv /\ [Next]_vars => IInv'
  BY NextKeeps
<1> QED
  BY <1>1, <1>2, PTL DEF Spec

\* For any number of services and calls, failures and crashes: with none of its calls in flight
\* a service is a node, or has left nothing behind but what a failed command has kept it from
\* taking back (mesh.ts, start, stop).
THEOREM NodesOrNothing == Spec => []NodeOrNothing
<1>1. IInv => NodeOrNothing
  BY DEF IInv, Sound, Node, AtRest, NodeOrNothing
<1> QED
  BY <1>1, Invariance, PTL
=============================================================================
