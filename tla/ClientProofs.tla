---------------------------- MODULE ClientProofs ----------------------------
(***************************************************************************)
(* What is true of MeshClients for any number of nodes, clients and        *)
(* streams.                                                                *)
(*                                                                         *)
(* Under all failures: the registry stays consistent, whatever node runs   *)
(* its scripts and in whatever order (IInv), and the types are right,      *)
(* which takes what the queued jobs, the callbacks and the streams say of  *)
(* each other (Flow).                                                      *)
(*                                                                         *)
(* While nothing fails and no key expires: the registry agrees with the    *)
(* streams once all work is done, since at any moment it does so up to     *)
(* the jobs that are queued and the kicks on their way (Smooth); and the   *)
(* application is told of a client in order (Tells, Heard).                *)
(***************************************************************************)
EXTENDS MeshClients, TLAPS

\* Consistency alone is inductive over well-typed registries.
IInv == registry \in Registries /\ RegistryConsistent

-----------------------------------------------------------------------------
(* What the scripts do to a registry. *)

\* Dropping the times to live of vanished keys concerns no listed client.
LEMMA TidyKeeps ==
    ASSUME NEW reg \in Registries, Consistent(reg)
    PROVE  Tidy(reg) \in Registries /\ Consistent(Tidy(reg))
<1>1. \A n \in Node : \A c \in reg.members[n] : c \in Client /\ reg.hash[c] # Absent
    <2> SUFFICES ASSUME NEW n \in Node, NEW c \in reg.members[n]
                 PROVE  c \in Client /\ reg.hash[c] # Absent
        OBVIOUS
    <2>1. c \in Client
        BY DEF Registries
    <2>2. reg.hash[c].node = n
        BY DEF Consistent, Owner
    <2>3. Absent.node = NoNode
        BY DEF Absent
    <2> QED
        BY <2>1, <2>2, <2>3, RegistryAssumption
<1>2. Tidy(reg) \in Registries
    BY RegistryAssumption DEF Tidy, Registries
<1>3. Consistent(Tidy(reg))
    BY <1>1 DEF Tidy, Registries, Consistent, Owner
<1> QED
    BY <1>2, <1>3

\* REGISTER moves the client from its old node's set to the new one's.
LEMMA RegisterKeeps ==
    ASSUME NEW reg \in Registries, Consistent(reg),
           NEW c \in Client, NEW n \in Node, NEW state \in {"pending", "active"}
    PROVE  Register(reg, c, n, state) \in Registries /\ Consistent(Register(reg, c, n, state))
<1> DEFINE moved ==
        [hash      |-> [reg.hash EXCEPT ![c] = [node |-> n, state |-> state]],
         hashTtl   |-> KeyTtl,
         members   |-> [m \in Node |-> IF m = n THEN reg.members[m] \cup {c}
                                       ELSE IF m = Owner(reg, c) THEN reg.members[m] \ {c}
                                       ELSE reg.members[m]],
         memberTtl |-> [reg.memberTtl EXCEPT ![n] = KeyTtl]]
<1>1. moved \in Registries
    BY RegistryAssumption DEF Registries, Registration
<1>2. ASSUME NEW m \in Node, NEW d \in moved.members[m]
      PROVE  /\ moved.hash[d].node = m
             /\ 0 < moved.memberTtl[m] /\ moved.memberTtl[m] <= moved.hashTtl
    <2>1. CASE d = c
        <3>1. m = n
            BY <1>2, <2>1 DEF Consistent, Owner, Registries
        <3> QED
            BY <2>1, <3>1, RegistryAssumption DEF Registries
    <2>2. CASE d # c
        <3>1. d \in reg.members[m]
            BY <1>2, <2>2
        <3>2. d \in Client /\ reg.hash[d].node = m /\ 0 < reg.memberTtl[m]
            BY <3>1 DEF Consistent, Owner, Registries
        <3>3. moved.hash[d].node = m
            BY <2>2, <3>2 DEF Registries
        <3>4. reg.memberTtl[m] \in 0..KeyTtl
            BY DEF Registries
        <3>5. 0 < moved.memberTtl[m] /\ moved.memberTtl[m] <= KeyTtl
            BY <3>2, <3>4, RegistryAssumption DEF Registries
        <3> QED
            BY <3>3, <3>5
    <2> QED
        BY <2>1, <2>2
<1>3. Consistent(moved)
    BY <1>2 DEF Consistent, Owner
<1> HIDE DEF moved
<1>4. Tidy(moved) \in Registries /\ Consistent(Tidy(moved))
    BY <1>1, <1>3, TidyKeeps
<1> QED
    BY <1>4 DEF Register, moved

\* ACTIVATE by the owner refreshes both keys.
LEMMA ActivateKeeps ==
    ASSUME NEW reg \in Registries, Consistent(reg),
           NEW c \in Client, NEW n \in Node, Owner(reg, c) = n
    PROVE  Activate(reg, c, n) \in Registries /\ Consistent(Activate(reg, c, n))
<1> DEFINE new == Activate(reg, c, n)
<1>1. new \in Registries
    BY RegistryAssumption DEF Activate, Registries, Registration
<1>2. ASSUME NEW m \in Node, NEW d \in new.members[m]
      PROVE  /\ new.hash[d].node = m
             /\ 0 < new.memberTtl[m] /\ new.memberTtl[m] <= new.hashTtl
    <2>1. d \in Client /\ reg.memberTtl[m] \in 0..KeyTtl
        BY <1>2 DEF Activate, Registries
    <2>2. (d = c /\ m = n) \/ d \in reg.members[m]
        BY <1>2 DEF Activate, Registries
    <2>3. d = c => m = n
        BY <2>2 DEF Consistent, Owner
    <2>4. m # n => d \in reg.members[m] /\ 0 < reg.memberTtl[m]
        BY <2>2 DEF Consistent
    <2>5. new.hash[d].node = m
        BY <2>1, <2>2, <2>3 DEF Activate, Consistent, Owner, Registries
    <2>6. 0 < new.memberTtl[m] /\ new.memberTtl[m] <= new.hashTtl
        BY <2>1, <2>4, RegistryAssumption DEF Activate, Registries
    <2> QED
        BY <2>5, <2>6
<1> QED
    BY <1>1, <1>2 DEF Consistent, Owner

\* UNREGISTER by the owner takes the client out of the hash and out of the only set it is in.
LEMMA UnregisterKeeps ==
    ASSUME NEW reg \in Registries, Consistent(reg),
           NEW c \in Client, NEW n \in Node, Owner(reg, c) = n
    PROVE  Unregister(reg, c, n) \in Registries /\ Consistent(Unregister(reg, c, n))
<1> DEFINE new == [hash      |-> [reg.hash EXCEPT ![c] = Absent],
                   hashTtl   |-> reg.hashTtl,
                   members   |-> [reg.members EXCEPT ![n] = @ \ {c}],
                   memberTtl |-> reg.memberTtl]
<1>1. new \in Registries
    BY RegistryAssumption DEF Registries, Registration, Absent
<1>2. ASSUME NEW m \in Node, NEW d \in new.members[m]
      PROVE  d \in reg.members[m] /\ d # c
    BY <1>2 DEF Consistent, Owner, Registries
<1>3. Consistent(new)
    BY <1>2 DEF Consistent, Owner, Registries
<1> HIDE DEF new
<1>4. Tidy(new) \in Registries /\ Consistent(Tidy(new))
    BY <1>1, <1>3, TidyKeeps
<1> QED
    BY <1>4 DEF Unregister, new

\* CLEANUP_NODE empties one set and removes what that set lists: no other set lists it.
LEMMA CleanupKeeps ==
    ASSUME NEW reg \in Registries, Consistent(reg), NEW n \in Node
    PROVE  CleanupNode(reg, n) \in Registries /\ Consistent(CleanupNode(reg, n))
<1> DEFINE new == [hash      |-> [c \in Client |-> IF c \in Orphans(reg, n) THEN Absent
                                                   ELSE reg.hash[c]],
                   hashTtl   |-> reg.hashTtl,
                   members   |-> [reg.members EXCEPT ![n] = {}],
                   memberTtl |-> reg.memberTtl]
<1>1. new \in Registries
    BY RegistryAssumption DEF Registries, Registration, Absent
<1>2. ASSUME NEW m \in Node, NEW d \in new.members[m]
      PROVE  m # n /\ d \in reg.members[m] /\ d \in Client /\ d \notin Orphans(reg, n)
    BY <1>2 DEF Consistent, Owner, Registries, Orphans
<1>3. Consistent(new)
    BY <1>2 DEF Consistent, Owner, Registries
<1> HIDE DEF new
<1>4. Tidy(new) \in Registries /\ Consistent(Tidy(new))
    BY <1>1, <1>3, TidyKeeps
<1> QED
    BY <1>4 DEF CleanupNode, new

\* The hash never expires under a set that is still there.
LEMMA AgedKeeps ==
    ASSUME NEW reg \in Registries, Consistent(reg)
    PROVE  Aged(reg) \in Registries /\ Consistent(Aged(reg))
<1>1. reg.hashTtl \in 0..KeyTtl /\ \A n \in Node : reg.memberTtl[n] \in 0..KeyTtl
    BY DEF Registries
<1>2. \A ttl \in 0..KeyTtl : Left(ttl) \in 0..KeyTtl /\ (ttl > 1 => Left(ttl) = ttl - 1)
    BY RegistryAssumption DEF Left
<1>3. Aged(reg) \in Registries
    <2>1. [c \in Client |-> Absent] \in [Client -> Registration]
        BY DEF Absent, Registration
    <2> QED
        BY <1>1, <1>2, <2>1 DEF Aged, Registries
<1>4. ASSUME NEW n \in Node, NEW c \in Aged(reg).members[n]
      PROVE  /\ Owner(Aged(reg), c) = n
             /\ 0 < Aged(reg).memberTtl[n] /\ Aged(reg).memberTtl[n] <= Aged(reg).hashTtl
    <2>1. c \in reg.members[n] /\ reg.memberTtl[n] > 1
        BY <1>4 DEF Aged
    <2>2. reg.hash[c].node = n /\ reg.memberTtl[n] <= reg.hashTtl
        BY <2>1 DEF Consistent, Owner
    <2>3. Left(reg.memberTtl[n]) = reg.memberTtl[n] - 1 /\ Left(reg.hashTtl) = reg.hashTtl - 1
        BY <1>1, <1>2, <2>1, <2>2, RegistryAssumption
    <2> QED
        BY <1>1, <2>1, <2>2, <2>3, RegistryAssumption DEF Aged, Owner
<1> QED
    BY <1>3, <1>4 DEF Consistent

-----------------------------------------------------------------------------
(* The invariant. *)

\* The registry is empty when nothing has been registered yet.
LEMMA InitEstablishes == Init => IInv
<1>1. Empty \in Registries /\ Consistent(Empty)
    BY RegistryAssumption DEF Empty, Registries, Registration, Absent, Consistent
<1> QED
    BY <1>1 DEF Init, IInv, RegistryConsistent

\* A script runs for a client of the node that sent it.
LEMMA ExecuteKeeps ==
    ASSUME IInv, NEW n \in Node, NEW c \in Client, Execute(n, c)
    PROVE  IInv'
<1>1. \/ registry' = registry
      \/ \E state \in {"pending", "active"} : registry' = Register(registry, c, n, state)
      \/ Owner(registry, c) = n /\ registry' = Activate(registry, c, n)
      \/ Owner(registry, c) = n /\ registry' = Unregister(registry, c, n)
    BY DEF Execute, Owns
<1>2. registry' \in Registries /\ Consistent(registry')
    BY <1>1, RegisterKeeps, ActivateKeeps, UnregisterKeeps DEF IInv, RegistryConsistent
<1> QED
    BY <1>2 DEF IInv, RegistryConsistent

\* Every step leaves the registry alone, runs one of its scripts, or lets time pass.
LEMMA NextKeeps == IInv /\ [Next]_vars => IInv'
<1> SUFFICES ASSUME IInv, [Next]_vars PROVE IInv'
    OBVIOUS
<1>1. CASE UNCHANGED registry
    BY <1>1 DEF IInv, RegistryConsistent
<1>2. CASE Tick
    BY <1>2, AgedKeeps DEF Tick, IInv, RegistryConsistent
<1>3. ASSUME NEW n \in Node, CleanupOwn(n) PROVE IInv'
    <2>1. CASE registry' = CleanupNode(registry, n)
        BY <2>1, CleanupKeeps DEF IInv, RegistryConsistent
    <2> QED
        BY <1>1, <1>3, <2>1 DEF CleanupOwn
<1>4. ASSUME NEW m \in Node, NEW n \in Node, CleanUp(m, n) PROVE IInv'
    <2>1. CASE registry' = CleanupNode(registry, n)
        BY <2>1, CleanupKeeps DEF IInv, RegistryConsistent
    <2> QED
        BY <1>1, <1>4, <2>1 DEF CleanUp
<1>5. ASSUME NEW n \in Node, NEW c \in Client, Execute(n, c) PROVE IInv'
    BY <1>5, ExecuteKeeps
<1>6. ASSUME NEW n \in Node, MeshEvent(n) PROVE UNCHANGED registry \/ CleanupOwn(n)
    BY <1>6 DEF MeshEvent, MeshStarting, MeshStarted, MeshStops, MeshClosed, Crash
<1>7. ASSUME NEW n \in Node, NEW c \in Client, ClientEvent(n, c)
      PROVE  UNCHANGED registry \/ Execute(n, c)
    BY <1>7 DEF ClientEvent, Connect, JobEnds, ReserveEnds, ActivateEnds, DisconnectEnds,
                BackfillEnds, CallbackEnds, Refuse, Disconnect
<1>8. ASSUME NEW n \in Node, NEW c \in Client, Microtask(n, c) PROVE UNCHANGED registry
    BY <1>8 DEF Microtask, JobStarts, ReserveStarts, ActivateStarts, DisconnectStarts,
                BackfillStarts, CallbackStarts, CallbackSkipped
<1>9. ASSUME NEW s \in 1..MaxStreams, Drop(s) \/ HandlersSettle(s) PROVE UNCHANGED registry
    BY <1>9 DEF Drop, HandlersSettle
<1>10. ASSUME NEW k \in kicks, Kicked(k) \/ KickLost(k) PROVE UNCHANGED registry
    BY <1>10 DEF Kicked, KickLost
<1>11. ASSUME NEW m \in Node, NEW n \in Node, Expire(m, n) PROVE UNCHANGED registry
    BY <1>11 DEF Expire
<1>12. CASE UNCHANGED vars
    BY <1>1, <1>12 DEF vars
<1> QED
    BY <1>1, <1>2, <1>3, <1>4, <1>5, <1>6, <1>7, <1>8, <1>9, <1>10, <1>11, <1>12 DEF Next, Event

\* Every node's set of clients agrees with the hash of all clients, and never outlives it, for
\* any number of nodes, clients and streams, under all failures the model has.
THEOREM RegistryHolds == Spec => []RegistryConsistent
<1>1. IInv => RegistryConsistent
    BY DEF IInv
<1> QED
    BY InitEstablishes, NextKeeps, <1>1, PTL DEF Spec

-----------------------------------------------------------------------------
(* The chain of a client at a node: what its jobs and the node's streams    *)
(* say of each other.  q is the queue of jobs, st the streams.              *)

\* reserveClient and registerClient both run REGISTER.
Takes(job) == job.kind \in {"reserve", "backfill"}

\* The streams of the client c at the node n.
Here(st, n, c) == {s \in DOMAIN st : st[s].node = n /\ st[s].client = c}

\* Only the first job has been sent; a job speaks of a stream of the client, which, if it lives,
\* is at this node and at the step that the job belongs to.
JobsFit(q, st, n, c) ==
    \A i \in 1..Len(q) :
        /\ q[i].s \in DOMAIN st /\ st[q[i].s].client = c
        /\ st[q[i].s].step # "gone" => st[q[i].s].node = n
        /\ i > 1 => q[i].reply = "queued"
        /\ q[i].kind = "disconnect" => st[q[i].s].step = "gone"
        /\ q[i].kind = "reserve" => ~q[i].active /\ st[q[i].s].step \in {"checking", "gone"}
        /\ q[i].kind = "activate" => st[q[i].s].step \in {"activating", "gone"}

\* No stream has two jobs of a kind.
OnceEach(q) ==
    \A i, k \in 1..Len(q) : q[i].kind = q[k].kind /\ q[i].s = q[k].s => i = k

\* The node has one stream of the client; jobs of older ones come before those that claim the
\* client for it, and until it is reserved its reservation is in the queue.
InTurn(q, st, n, c) ==
    \A s \in Here(st, n, c) :
        /\ \A t \in Here(st, n, c) : s = t
        /\ \A i \in 1..Len(q) : q[i].s # s => \E k \in 1..Len(q) : k > i /\ Takes(q[k]) /\ q[k].s = s
        /\ st[s].step = "checking" => \E i \in 1..Len(q) : q[i].kind = "reserve" /\ q[i].s = s

\* A mesh that has not started has sent nothing, and one that has stopped has all its answers.
InLife(q, life) ==
    \A i \in 1..Len(q) :
        /\ life \in {"off", "starting"} => q[i].reply = "queued" /\ q[i].kind # "backfill"
        /\ life \in {"stopping", "closed"} => q[i].reply # "sent"

\* What is true of the chain of a client at a node in the given life of its mesh.
QueueFits(q, st, n, c, life) ==
    JobsFit(q, st, n, c) /\ OnceEach(q) /\ InTurn(q, st, n, c) /\ InLife(q, life)

\* A stream is nobody's when it has gone.
StreamsFit(st) == \A s \in DOMAIN st : st[s].step = "gone" <=> st[s].node = NoNode

\* p is q without its first d jobs, and with jobs behind it that q did not have.
Passes(q, p, d, more) ==
    /\ Len(p) = Len(q) - d + more
    /\ \A i \in 1..Len(q) : i > d => p[i - d] = q[i]

\* The next job is at the head once the first one is done.
LEMMA TailPasses ==
    ASSUME NEW q \in Seq(Job), q # <<>>
    PROVE  Tail(q) \in Seq(Job) /\ Passes(q, Tail(q), 1, 0) /\ Len(q) > 0 /\ Head(q) = q[1]
BY DEF Passes

\* enqueueClientRegistryOperation puts a job behind the others.
LEMMA AppendPasses ==
    ASSUME NEW q \in Seq(Job), NEW job \in Job
    PROVE  /\ Append(q, job) \in Seq(Job) /\ Passes(q, Append(q, job), 0, 1)
           /\ Append(q, job)[Len(q) + 1] = job
BY DEF Passes

\* A job that ends may leave another one at the end.
LEMMA TailAppendPasses ==
    ASSUME NEW q \in Seq(Job), NEW job \in Job, q # <<>>
    PROVE  /\ Append(Tail(q), job) \in Seq(Job) /\ Passes(q, Append(Tail(q), job), 1, 1)
           /\ Append(Tail(q), job)[Len(q)] = job
<1> DEFINE t == Tail(q)
<1>1. t \in Seq(Job) /\ Len(t) = Len(q) - 1 /\ \A i \in 1..Len(q) : i > 1 => t[i - 1] = q[i]
  BY TailPasses DEF Passes
<1>2. Len(q) \in Nat /\ Len(q) > 0
  BY TailPasses
<1> HIDE DEF t
<1>3. /\ Append(t, job) \in Seq(Job) /\ Len(Append(t, job)) = Len(t) + 1
      /\ \A i \in 1..Len(t) : Append(t, job)[i] = t[i]
      /\ Append(t, job)[Len(t) + 1] = job
  BY <1>1
<1>4. \A i \in 1..Len(q) : i > 1 => i - 1 \in 1..Len(t)
  BY <1>1, <1>2
<1>5. Passes(q, Append(t, job), 1, 1)
  BY <1>1, <1>2, <1>3, <1>4 DEF Passes
<1> QED
  BY <1>1, <1>2, <1>3, <1>5 DEF t

\* A job is answered or sent: it is the first one, of a mesh that has started.
LEMMA HeadFits ==
    ASSUME NEW q \in Seq(Job), NEW p \in Seq(Job), NEW st, NEW n, NEW c, NEW life,
           QueueFits(q, st, n, c, life), Len(q) > 0, Len(p) = Len(q),
           \A i \in 1..Len(q) : i > 1 => p[i] = q[i],
           p[1].kind = q[1].kind, p[1].s = q[1].s, q[1].kind = "reserve" => p[1].active = q[1].active,
           life \notin {"off", "starting"}, life \in {"stopping", "closed"} => p[1].reply # "sent"
    PROVE  QueueFits(p, st, n, c, life)
<1>1. \A i \in 1..Len(q) : p[i].kind = q[i].kind /\ p[i].s = q[i].s
  OBVIOUS
<1>2. JobsFit(p, st, n, c)
  BY <1>1 DEF JobsFit, QueueFits
<1>3. OnceEach(p)
  BY <1>1 DEF OnceEach, QueueFits
<1>4. InTurn(p, st, n, c)
  BY <1>1 DEF InTurn, Takes, QueueFits
<1>5. InLife(p, life)
  BY DEF InLife, QueueFits
<1> QED
  BY <1>2, <1>3, <1>4, <1>5 DEF QueueFits

\* The first job is done, and its stream, if it lives, goes on to the next step.
LEMMA PopFits ==
    ASSUME NEW q \in Seq(Job), NEW st, NEW st2, NEW n, NEW c, NEW life,
           QueueFits(q, st, n, c, life), q # <<>>, DOMAIN st2 = DOMAIN st,
           \A s \in DOMAIN st : /\ st2[s].client = st[s].client /\ st2[s].node = st[s].node
                                /\ st2[s].step = "gone" <=> st[s].step = "gone"
                                /\ s # q[1].s => st2[s].step = st[s].step,
           q[1].kind \in {"reserve", "activate"} => st2[q[1].s].step # "checking",
           q[1].kind \in {"backfill", "disconnect"} => \A s \in DOMAIN st : st2[s].step = st[s].step
    PROVE  QueueFits(Tail(q), st2, n, c, life)
<1> DEFINE p == Tail(q)
<1>1. p \in Seq(Job) /\ Len(p) = Len(q) - 1 /\ Len(q) > 0 /\ Len(q) \in Nat /\ Len(p) \in Nat
      /\ \A i \in 1..Len(p) : i + 1 \in 1..Len(q) /\ p[i] = q[i + 1]
  BY TailPasses DEF Passes
<1>2. \A i \in 1..Len(q) : i > 1 => i - 1 \in 1..Len(p) /\ p[i - 1] = q[i]
  BY TailPasses, <1>1 DEF Passes
<1> HIDE DEF p
<1>3. 1 \in 1..Len(q) /\ q[1] \in Job
  BY <1>1
<1>4. JobsFit(p, st2, n, c)
  <2> SUFFICES ASSUME NEW i \in 1..Len(p), NEW job, job = q[i + 1], p[i] = job
               PROVE  /\ job.s \in DOMAIN st2 /\ st2[job.s].client = c
                      /\ st2[job.s].step # "gone" => st2[job.s].node = n
                      /\ i > 1 => job.reply = "queued"
                      /\ job.kind = "disconnect" => st2[job.s].step = "gone"
                      /\ job.kind = "reserve" => ~job.active /\ st2[job.s].step \in {"checking", "gone"}
                      /\ job.kind = "activate" => st2[job.s].step \in {"activating", "gone"}
    BY <1>1 DEF JobsFit
  <2>1. i + 1 \in 1..Len(q) /\ i + 1 # 1
    BY <1>1
  <2>2. /\ job.s \in DOMAIN st /\ st[job.s].client = c
        /\ st[job.s].step # "gone" => st[job.s].node = n
        /\ job.reply = "queued"
        /\ job.kind = "disconnect" => st[job.s].step = "gone"
        /\ job.kind = "reserve" => ~job.active /\ st[job.s].step \in {"checking", "gone"}
        /\ job.kind = "activate" => st[job.s].step \in {"activating", "gone"}
    BY <2>1 DEF QueueFits, JobsFit
  <2>3. ~(job.kind = q[1].kind /\ job.s = q[1].s)
    BY <1>3, <2>1 DEF QueueFits, OnceEach
  <2>4. CASE job.s # q[1].s
    BY <2>2, <2>4
  <2>5. CASE job.s = q[1].s
    <3>1. q[1].kind = "reserve" => st[job.s].step \in {"checking", "gone"}
      BY <1>3, <2>5 DEF QueueFits, JobsFit
    <3>2. q[1].kind = "activate" => st[job.s].step \in {"activating", "gone"}
      BY <1>3, <2>5 DEF QueueFits, JobsFit
    <3>3. q[1].kind \in {"reserve", "backfill", "activate", "disconnect"}
      BY <1>3 DEF Job
    <3> QED
      BY <2>2, <2>3, <2>5, <3>1, <3>2, <3>3
  <2> QED
    BY <2>4, <2>5
<1>5. OnceEach(p)
  BY <1>1 DEF OnceEach, QueueFits
<1>6. InTurn(p, st2, n, c)
  <2> SUFFICES ASSUME NEW s \in Here(st2, n, c)
               PROVE  /\ \A t \in Here(st2, n, c) : s = t
                      /\ \A i \in 1..Len(p) : p[i].s # s => \E k \in 1..Len(p) : k > i /\ Takes(p[k]) /\ p[k].s = s
                      /\ st2[s].step = "checking" => \E i \in 1..Len(p) : p[i].kind = "reserve" /\ p[i].s = s
    BY DEF InTurn
  <2>1. Here(st2, n, c) = Here(st, n, c)
    BY DEF Here
  <2>2. /\ \A t \in Here(st, n, c) : s = t
        /\ \A i \in 1..Len(q) : q[i].s # s => \E k \in 1..Len(q) : k > i /\ Takes(q[k]) /\ q[k].s = s
        /\ st[s].step = "checking" => \E i \in 1..Len(q) : q[i].kind = "reserve" /\ q[i].s = s
    BY <2>1 DEF QueueFits, InTurn
  <2>3. ASSUME NEW i \in 1..Len(p), p[i].s # s PROVE \E k \in 1..Len(p) : k > i /\ Takes(p[k]) /\ p[k].s = s
    <3>0. i + 1 \in 1..Len(q) /\ q[i + 1].s # s
      BY <1>1, <2>3
    <3>1. PICK k \in 1..Len(q) : k > i + 1 /\ Takes(q[k]) /\ q[k].s = s
      BY <2>2, <3>0
    <3>2. k - 1 \in 1..Len(p) /\ p[k - 1] = q[k] /\ k - 1 > i
      BY <1>1, <1>2, <3>1
    <3> QED
      BY <3>1, <3>2
  <2>4. ASSUME st2[s].step = "checking" PROVE \E i \in 1..Len(p) : p[i].kind = "reserve" /\ p[i].s = s
    <3>1. s \in DOMAIN st
      BY <2>1 DEF Here
    <3>2. st[s].step = "checking" /\ ~(q[1].kind \in {"reserve", "activate"} /\ q[1].s = s)
      BY <1>3, <2>4, <3>1 DEF Job
    <3>3. PICK i \in 1..Len(q) : q[i].kind = "reserve" /\ q[i].s = s
      BY <2>2, <3>2
    <3>4. i > 1
      BY <3>2, <3>3, <1>1
    <3> QED
      BY <1>2, <3>3, <3>4
  <2> QED
    BY <2>1, <2>2, <2>3, <2>4
<1>7. InLife(p, life)
  BY <1>1 DEF InLife, QueueFits
<1> QED
  BY <1>4, <1>5, <1>6, <1>7 DEF QueueFits, p

\* A stream of the client goes.
Parts(st, st2, s, c) ==
    /\ DOMAIN st2 = DOMAIN st
    /\ \A t \in DOMAIN st : t # s => st2[t] = st[t]
    /\ st2[s].step = "gone" /\ st2[s].node = NoNode /\ st2[s].client = c
    /\ st[s].step # "gone"

\* p is q, perhaps without its first job, and the farewell of s.
EndsWith(q, p, s) ==
    /\ \E d \in {0, 1} : d <= Len(q) /\ Passes(q, p, d, 1)
    /\ p[Len(p)].kind = "disconnect" /\ p[Len(p)].s = s /\ p[Len(p)].reply = "queued"

\* The stream of the client goes: its farewell comes last, and nothing is expected of another one.
LEMMA LeaveFits ==
    ASSUME NEW q \in Seq(Job), NEW p \in Seq(Job), NEW st, NEW n \in Node, NEW c, NEW life,
           QueueFits(q, st, n, c, life), NEW s \in Here(st, n, c),
           EndsWith(q, p, s), NEW st2, Parts(st, st2, s, c)
    PROVE  QueueFits(p, st2, n, c, life) /\ Here(st2, n, c) = {}
<1>0. NoNode \notin Node
  BY RegistryAssumption
<1> PICK d \in {0, 1} : d <= Len(q) /\ Passes(q, p, d, 1)
  BY DEF EndsWith
<1>8. p[Len(p)].kind = "disconnect" /\ p[Len(p)].s = s /\ p[Len(p)].reply = "queued"
  BY DEF EndsWith
<1>1. /\ DOMAIN st2 = DOMAIN st /\ s \in DOMAIN st /\ \A t \in DOMAIN st : t # s => st2[t] = st[t]
      /\ st2[s].step = "gone" /\ st2[s].node = NoNode /\ st2[s].client = c /\ st[s].step # "gone"
  BY DEF Here, Parts
<1>2. /\ Len(p) \in Nat /\ Len(q) \in Nat /\ Len(p) = Len(q) - d + 1
      /\ \A i \in 1..Len(p) : i # Len(p) => i + d \in 1..Len(q) /\ p[i] = q[i + d] /\ (i > 1 => i + d > 1)
  <2>1. Len(p) \in Nat /\ Len(q) \in Nat /\ Len(p) = Len(q) - d + 1
    BY DEF Passes
  <2>2. ASSUME NEW i \in 1..Len(p), i # Len(p) PROVE i + d \in 1..Len(q) /\ i + d > d /\ (i + d) - d = i /\ (i > 1 => i + d > 1)
    BY <2>1, <2>2
  <2>3. ASSUME NEW i \in 1..Len(p), i # Len(p) PROVE p[i] = q[i + d]
    <3>1. p[(i + d) - d] = q[i + d]
      BY <2>2, <2>3 DEF Passes
    <3> QED
      BY <2>2, <2>3, <3>1
  <2> QED
    BY <2>1, <2>2, <2>3
<1>3. Here(st2, n, c) = {}
  BY <1>0, <1>1 DEF QueueFits, InTurn, Here
<1>4. JobsFit(p, st2, n, c)
  <2> SUFFICES ASSUME NEW i \in 1..Len(p), NEW job, job = p[i]
               PROVE  /\ job.s \in DOMAIN st2 /\ st2[job.s].client = c
                      /\ st2[job.s].step # "gone" => st2[job.s].node = n
                      /\ i > 1 => job.reply = "queued"
                      /\ job.kind = "disconnect" => st2[job.s].step = "gone"
                      /\ job.kind = "reserve" => ~job.active /\ st2[job.s].step \in {"checking", "gone"}
                      /\ job.kind = "activate" => st2[job.s].step \in {"activating", "gone"}
    BY DEF JobsFit
  <2>1. CASE i = Len(p)
    BY <1>1, <1>8, <2>1
  <2>2. CASE i # Len(p)
    <3>1. i + d \in 1..Len(q) /\ job = q[i + d] /\ (i > 1 => i + d > 1)
      BY <1>2, <2>2
    <3>2. /\ job.s \in DOMAIN st /\ st[job.s].client = c
          /\ st[job.s].step # "gone" => st[job.s].node = n
          /\ i > 1 => job.reply = "queued"
          /\ job.kind = "disconnect" => st[job.s].step = "gone"
          /\ job.kind = "reserve" => ~job.active /\ st[job.s].step \in {"checking", "gone"}
          /\ job.kind = "activate" => st[job.s].step \in {"activating", "gone"}
      BY <3>1 DEF QueueFits, JobsFit
    <3> QED
      BY <1>1, <3>2
  <2> QED
    BY <2>1, <2>2
<1>5. OnceEach(p)
  <2> SUFFICES ASSUME NEW i \in 1..Len(p), NEW k \in 1..Len(p), i < k PROVE ~(p[i].kind = p[k].kind /\ p[i].s = p[k].s)
    <3>1. \A i, k \in 1..Len(p) : i < k \/ k < i \/ i = k
      BY <1>2
    <3> QED
      BY <3>1 DEF OnceEach
  <2>1. i + d \in 1..Len(q) /\ p[i] = q[i + d]
    BY <1>2
  <2>2. CASE k = Len(p)
    BY <1>1, <1>8, <2>1, <2>2 DEF QueueFits, JobsFit
  <2>3. CASE k # Len(p)
    <3>1. k + d \in 1..Len(q) /\ p[k] = q[k + d]
      BY <1>2, <2>3
    <3>2. i + d # k + d
      BY <1>2
    <3> QED
      BY <2>1, <3>1, <3>2 DEF QueueFits, OnceEach
  <2> QED
    BY <2>2, <2>3
<1>6. InTurn(p, st2, n, c)
  BY <1>3 DEF InTurn
<1>7. InLife(p, life)
  BY <1>2, <1>8 DEF QueueFits, InLife
<1> QED
  BY <1>3, <1>4, <1>5, <1>6, <1>7 DEF QueueFits

\* A stream joins and is to be reserved; or a stream that is here asks to be activated.
Joins(st, st2, n, c, s, job) ==
    /\ job.s = s /\ job.reply = "queued" /\ ~job.active
    /\ Here(st2, n, c) = {s} /\ s \in DOMAIN st2 /\ st2[s].client = c /\ st2[s].node = n
    /\ \A t \in DOMAIN st : t \in DOMAIN st2 /\ (t # s => st2[t] = st[t])
    /\ \/ job.kind = "reserve" /\ Here(st, n, c) = {} /\ s \notin DOMAIN st /\ st2[s].step = "checking"
       \/ /\ job.kind = "activate" /\ s \in Here(st, n, c)
          /\ st[s].step = "connecting" /\ st2[s].step = "activating"

\* Its job comes last.
LEMMA JoinFits ==
    ASSUME NEW q \in Seq(Job), NEW st, NEW st2, NEW n, NEW c, NEW life, NEW s \in 1..MaxStreams,
           NEW job \in Job, QueueFits(q, st, n, c, life), Joins(st, st2, n, c, s, job)
    PROVE  QueueFits(Append(q, job), st2, n, c, life)
<1>0. /\ job.s = s /\ job.reply = "queued" /\ ~job.active
      /\ Here(st2, n, c) = {s} /\ s \in DOMAIN st2 /\ st2[s].client = c /\ st2[s].node = n
      /\ \A t \in DOMAIN st : t \in DOMAIN st2 /\ (t # s => st2[t] = st[t])
      /\ \/ job.kind = "reserve" /\ Here(st, n, c) = {} /\ s \notin DOMAIN st /\ st2[s].step = "checking"
         \/ /\ job.kind = "activate" /\ s \in Here(st, n, c)
            /\ st[s].step = "connecting" /\ st2[s].step = "activating"
  BY DEF Joins
<1> USE <1>0
<1> DEFINE p == Append(q, job)
<1>1. /\ p \in Seq(Job) /\ Len(q) \in Nat /\ Len(p) = Len(q) + 1 /\ p[Len(q) + 1] = job
      /\ \A i \in 1..Len(q) : p[i] = q[i]
      /\ \A i \in 1..Len(p) : i \in 1..Len(q) \/ i = Len(q) + 1
  OBVIOUS
<1> HIDE DEF p
<1>2. \A i \in 1..Len(q) : q[i].s \in DOMAIN st /\ (q[i].s = s => s \in Here(st, n, c) /\ q[i].kind = "backfill")
  <2> SUFFICES ASSUME NEW i \in 1..Len(q) PROVE q[i].s \in DOMAIN st /\ (q[i].s = s => s \in Here(st, n, c) /\ q[i].kind = "backfill")
    OBVIOUS
  <2>0. q[i] \in Job
    OBVIOUS
  <2>1. q[i].kind \in {"reserve", "backfill", "activate", "disconnect"}
    BY <2>0 DEF Job
  <2> QED
    BY <2>1 DEF QueueFits, JobsFit
<1>3. JobsFit(p, st2, n, c)
  <2> SUFFICES ASSUME NEW i \in 1..Len(p), NEW j, j = p[i]
               PROVE  /\ j.s \in DOMAIN st2 /\ st2[j.s].client = c
                      /\ st2[j.s].step # "gone" => st2[j.s].node = n
                      /\ i > 1 => j.reply = "queued"
                      /\ j.kind = "disconnect" => st2[j.s].step = "gone"
                      /\ j.kind = "reserve" => ~j.active /\ st2[j.s].step \in {"checking", "gone"}
                      /\ j.kind = "activate" => st2[j.s].step \in {"activating", "gone"}
    BY DEF JobsFit
  <2>1. CASE i = Len(q) + 1
    BY <1>1, <2>1
  <2>2. CASE i \in 1..Len(q)
    <3>1. j = q[i]
      BY <1>1, <2>2
    <3>2. /\ j.s \in DOMAIN st /\ st[j.s].client = c
          /\ st[j.s].step # "gone" => st[j.s].node = n
          /\ i > 1 => j.reply = "queued"
          /\ j.kind = "disconnect" => st[j.s].step = "gone"
          /\ j.kind = "reserve" => ~j.active /\ st[j.s].step \in {"checking", "gone"}
          /\ j.kind = "activate" => st[j.s].step \in {"activating", "gone"}
      BY <2>2, <3>1 DEF QueueFits, JobsFit
    <3>3. CASE j.s # s
      BY <3>2, <3>3
    <3>4. CASE j.s = s
      BY <1>2, <2>2, <3>1, <3>2, <3>4
    <3> QED
      BY <3>3, <3>4
  <2> QED
    BY <1>1, <2>1, <2>2
<1>4. OnceEach(p)
  <2>1. \A i \in 1..Len(q) : ~(q[i].kind = job.kind /\ q[i].s = job.s)
    BY <1>2
  <2>2. OnceEach(q)
    BY DEF QueueFits
  <2> SUFFICES ASSUME NEW i \in 1..Len(p), NEW k \in 1..Len(p), p[i].kind = p[k].kind, p[i].s = p[k].s PROVE i = k
    BY DEF OnceEach
  <2>3. CASE i \in 1..Len(q) /\ k \in 1..Len(q)
    BY <1>1, <2>2, <2>3 DEF OnceEach
  <2> QED
    BY <1>1, <2>1, <2>3
<1>5. InTurn(p, st2, n, c)
  <2> SUFFICES /\ \A i \in 1..Len(p) : p[i].s # s => \E k \in 1..Len(p) : k > i /\ Takes(p[k]) /\ p[k].s = s
               /\ st2[s].step = "checking" => \E i \in 1..Len(p) : p[i].kind = "reserve" /\ p[i].s = s
    BY DEF InTurn
  <2>1. Len(q) + 1 \in 1..Len(p)
    BY <1>1
  <2>2. CASE job.kind = "reserve"
    <3>1. Takes(p[Len(q) + 1]) /\ p[Len(q) + 1].s = s /\ p[Len(q) + 1].kind = "reserve"
      BY <1>1, <2>2 DEF Takes
    <3>2. \A i \in 1..Len(p) : p[i].s # s => Len(q) + 1 > i
      BY <1>1
    <3> QED
      BY <2>1, <3>1, <3>2
  <2>3. CASE job.kind = "activate"
    <3>1. ASSUME NEW i \in 1..Len(p), p[i].s # s PROVE \E k \in 1..Len(p) : k > i /\ Takes(p[k]) /\ p[k].s = s
      <4>1. i \in 1..Len(q) /\ q[i].s # s
        BY <1>1, <3>1
      <4>2. PICK k \in 1..Len(q) : k > i /\ Takes(q[k]) /\ q[k].s = s
        BY <2>3, <4>1 DEF QueueFits, InTurn
      <4>3. k \in 1..Len(p) /\ p[k] = q[k]
        BY <1>1
      <4> QED
        BY <4>2, <4>3
    <3> QED
      BY <2>3, <3>1
  <2> QED
    BY <2>2, <2>3
<1>6. InLife(p, life)
  BY <1>1 DEF QueueFits, InLife
<1> QED
  BY <1>3, <1>4, <1>5, <1>6 DEF QueueFits, p

\* A stream whose jobs are done opens, or is announced, or published.
LEMMA StepFits ==
    ASSUME NEW q \in Seq(Job), NEW st, NEW st2, NEW n, NEW c, NEW life,
           QueueFits(q, st, n, c, life), DOMAIN st2 = DOMAIN st,
           \A s \in DOMAIN st :
              /\ st2[s].client = st[s].client /\ st2[s].node = st[s].node
              /\ \/ st2[s].step = st[s].step
                 \/ st[s].step \in {"connecting", "announcing", "open"} /\ st2[s].step \in {"announcing", "open"}
    PROVE  QueueFits(q, st2, n, c, life)
<1>1. Here(st2, n, c) = Here(st, n, c)
  BY DEF Here
<1>2. JobsFit(q, st2, n, c)
  BY DEF QueueFits, JobsFit
<1>3. InTurn(q, st2, n, c)
  <2>1. \A s \in Here(st, n, c) : s \in DOMAIN st /\ (st2[s].step = "checking" => st[s].step = "checking")
    BY DEF Here
  <2> QED
    BY <1>1, <2>1 DEF QueueFits, InTurn
<1> QED
  BY <1>2, <1>3 DEF QueueFits

\* What happens to streams of other clients and at other nodes.
SameFor(st, st2, n, c) ==
    /\ DOMAIN st \subseteq DOMAIN st2
    /\ \A s \in DOMAIN st : st[s].client = c /\ (st[s].node = n \/ st[s].step = "gone") => st2[s] = st[s]
    /\ Here(st2, n, c) = Here(st, n, c)

\* What happens to the streams of another client or node does not concern a chain.
LEMMA OtherFits ==
    ASSUME NEW q \in Seq(Job), NEW st, NEW st2, NEW n, NEW c, NEW life,
           QueueFits(q, st, n, c, life), SameFor(st, st2, n, c)
    PROVE  QueueFits(q, st2, n, c, life)
<1>1. JobsFit(q, st2, n, c)
  BY DEF QueueFits, JobsFit, SameFor
<1>2. InTurn(q, st2, n, c)
  <2>1. \A s \in Here(st, n, c) : st2[s].step = st[s].step
    BY DEF Here, SameFor
  <2> QED
    BY <2>1 DEF QueueFits, InTurn, SameFor
<1> QED
  BY <1>1, <1>2 DEF QueueFits

-----------------------------------------------------------------------------
(* The callbacks of a client at a node, b. *)

\* Only the first one runs; of a stream that lives "connected" waits once, before it opens.
CallbacksFit(b, st, n, c) ==
    \A i \in 1..Len(b) :
        /\ b[i].s \in DOMAIN st /\ st[b[i].s].client = c
        /\ st[b[i].s].step # "gone" => st[b[i].s].node = n
        /\ i > 1 => ~b[i].running
        /\ b[i].kind = "disconnected" => st[b[i].s].step = "gone"
        /\ b[i].kind = "connected" /\ st[b[i].s].step # "gone" =>
              /\ st[b[i].s].step = "announcing"
              /\ \A k \in 1..Len(b) : b[k].kind = "connected" /\ b[k].s = b[i].s => i = k

\* Nor does it concern the callbacks.
LEMMA OtherCallbacksFit ==
    ASSUME NEW b \in Seq(Callback), NEW st, NEW st2, NEW n, NEW c,
           CallbacksFit(b, st, n, c), SameFor(st, st2, n, c)
    PROVE  CallbacksFit(b, st2, n, c)
BY DEF CallbacksFit, SameFor

\* A stream of the client goes, or joins, or takes a step before it is announced, or is published.
LEMMA CallbacksStay ==
    ASSUME NEW b \in Seq(Callback), NEW st, NEW st2, NEW n, NEW c,
           CallbacksFit(b, st, n, c), DOMAIN st \subseteq DOMAIN st2,
           \A s \in DOMAIN st :
              /\ st2[s].client = st[s].client
              /\ \/ st2[s].step = "gone"
                 \/ /\ st2[s].node = st[s].node
                    /\ st2[s].step = st[s].step \/ st[s].step \notin {"announcing", "gone"}
    PROVE  CallbacksFit(b, st2, n, c)
BY DEF CallbacksFit

\* What is announced is of a stream that has gone, or that waits for it from now on.
Heralds(job, st, st2, n, c) ==
    /\ ~job.running /\ DOMAIN st \subseteq DOMAIN st2
    /\ \A s \in DOMAIN st :
          /\ st2[s].client = st[s].client /\ st2[s].node = st[s].node
          /\ st2[s].step = st[s].step \/ (s = job.s /\ st[s].step \notin {"announcing", "gone"})
    /\ job.s \in DOMAIN st /\ st2[job.s].client = c /\ (st2[job.s].step # "gone" => st2[job.s].node = n)
    /\ job.kind = "disconnected" => st2[job.s].step = "gone"
    /\ job.kind = "connected" =>
          \/ st2[job.s].step = "gone"
          \/ st2[job.s].step = "announcing" /\ st[job.s].step # "announcing"

\* It comes last.
LEMMA AnnounceFits ==
    ASSUME NEW b \in Seq(Callback), NEW job \in Callback, NEW st, NEW st2, NEW n, NEW c,
           CallbacksFit(b, st, n, c), Heralds(job, st, st2, n, c)
    PROVE  CallbacksFit(Append(b, job), st2, n, c)
<1>0. /\ ~job.running /\ DOMAIN st \subseteq DOMAIN st2
      /\ \A s \in DOMAIN st :
            /\ st2[s].client = st[s].client /\ st2[s].node = st[s].node
            /\ st2[s].step = st[s].step \/ (s = job.s /\ st[s].step \notin {"announcing", "gone"})
      /\ job.s \in DOMAIN st /\ st2[job.s].client = c /\ (st2[job.s].step # "gone" => st2[job.s].node = n)
      /\ job.kind = "disconnected" => st2[job.s].step = "gone"
      /\ job.kind = "connected" =>
            \/ st2[job.s].step = "gone"
            \/ st2[job.s].step = "announcing" /\ st[job.s].step # "announcing"
  BY DEF Heralds
<1> USE <1>0
<1> DEFINE p == Append(b, job)
<1>1. /\ p \in Seq(Callback) /\ Len(b) \in Nat /\ Len(p) = Len(b) + 1 /\ p[Len(b) + 1] = job
      /\ \A i \in 1..Len(b) : p[i] = b[i]
      /\ \A i \in 1..Len(p) : i \in 1..Len(b) \/ i = Len(b) + 1
  OBVIOUS
<1> HIDE DEF p
<1>2. CallbacksFit(b, st2, n, c)
  BY DEF CallbacksFit
<1>3. \A i \in 1..Len(b) : b[i].kind = "connected" /\ b[i].s = job.s /\ job.kind = "connected" => st2[job.s].step = "gone"
  BY DEF CallbacksFit
<1> SUFFICES ASSUME NEW i \in 1..Len(p), NEW e, e = p[i]
             PROVE  /\ e.s \in DOMAIN st2 /\ st2[e.s].client = c
                    /\ st2[e.s].step # "gone" => st2[e.s].node = n
                    /\ i > 1 => ~e.running
                    /\ e.kind = "disconnected" => st2[e.s].step = "gone"
                    /\ e.kind = "connected" /\ st2[e.s].step # "gone" =>
                          /\ st2[e.s].step = "announcing"
                          /\ \A k \in 1..Len(p) : p[k].kind = "connected" /\ p[k].s = e.s => i = k
  BY DEF CallbacksFit, p
<1>4. CASE i = Len(b) + 1
  BY <1>1, <1>3, <1>4
<1>5. CASE i \in 1..Len(b)
  <2>1. e = b[i]
    BY <1>1, <1>5
  <2>2. /\ e.s \in DOMAIN st2 /\ st2[e.s].client = c
        /\ st2[e.s].step # "gone" => st2[e.s].node = n
        /\ i > 1 => ~e.running
        /\ e.kind = "disconnected" => st2[e.s].step = "gone"
        /\ e.kind = "connected" /\ st2[e.s].step # "gone" =>
              /\ st2[e.s].step = "announcing"
              /\ \A k \in 1..Len(b) : b[k].kind = "connected" /\ b[k].s = e.s => i = k
    BY <1>2, <1>5, <2>1 DEF CallbacksFit
  <2>3. ASSUME e.kind = "connected", st2[e.s].step # "gone", NEW k \in 1..Len(p), p[k].kind = "connected", p[k].s = e.s
        PROVE  i = k
    <3>1. ~(k = Len(b) + 1)
      BY <1>1, <1>3, <1>5, <2>1, <2>3
    <3>2. k \in 1..Len(b) /\ b[k].kind = "connected" /\ b[k].s = e.s
      BY <1>1, <2>3, <3>1
    <3> QED
      BY <2>2, <2>3, <3>2
  <2> QED
    BY <2>2, <2>3
<1> QED
  BY <1>1, <1>4, <1>5

\* A callback is over, and its stream may open.
Opens(job, st, st2) ==
    /\ DOMAIN st2 = DOMAIN st
    /\ \A s \in DOMAIN st :
          /\ st2[s].client = st[s].client /\ st2[s].node = st[s].node
          /\ st2[s].step = "gone" <=> st[s].step = "gone"
          /\ ~(s = job.s /\ job.kind = "connected") => st2[s].step = st[s].step

\* It was the first one.
LEMMA CallbackDone ==
    ASSUME NEW b \in Seq(Callback), b # <<>>, NEW st, NEW st2, NEW n, NEW c, CallbacksFit(b, st, n, c),
           Opens(b[1], st, st2)
    PROVE  CallbacksFit(Tail(b), st2, n, c)
<1>0. /\ DOMAIN st2 = DOMAIN st
      /\ \A s \in DOMAIN st :
            /\ st2[s].client = st[s].client /\ st2[s].node = st[s].node
            /\ st2[s].step = "gone" <=> st[s].step = "gone"
            /\ ~(s = b[1].s /\ b[1].kind = "connected") => st2[s].step = st[s].step
  BY DEF Opens
<1> DEFINE p == Tail(b)
<1>1. p \in Seq(Callback) /\ Len(b) > 0 /\ Len(b) \in Nat /\ Len(p) = Len(b) - 1
      /\ \A i \in 1..Len(p) : i + 1 \in 1..Len(b) /\ p[i] = b[i + 1]
  OBVIOUS
<1> HIDE DEF p
<1> SUFFICES ASSUME NEW i \in 1..Len(p), NEW e, e = p[i]
             PROVE  /\ e.s \in DOMAIN st2 /\ st2[e.s].client = c
                    /\ st2[e.s].step # "gone" => st2[e.s].node = n
                    /\ i > 1 => ~e.running
                    /\ e.kind = "disconnected" => st2[e.s].step = "gone"
                    /\ e.kind = "connected" /\ st2[e.s].step # "gone" =>
                          /\ st2[e.s].step = "announcing"
                          /\ \A k \in 1..Len(p) : p[k].kind = "connected" /\ p[k].s = e.s => i = k
  BY DEF CallbacksFit, p
<1>2. i + 1 \in 1..Len(b) /\ e = b[i + 1] /\ 1 \in 1..Len(b) /\ i + 1 # 1
  BY <1>1
<1>3. e.kind = "connected" /\ st[e.s].step # "gone" => ~(b[1].kind = "connected" /\ b[1].s = e.s)
  BY <1>2 DEF CallbacksFit
<1>4. \A k \in 1..Len(p) : k + 1 \in 1..Len(b) /\ p[k] = b[k + 1] /\ (i + 1 = k + 1 => i = k)
  BY <1>1
<1>5. st2[e.s].client = st[e.s].client /\ st2[e.s].node = st[e.s].node /\ (st2[e.s].step = "gone" <=> st[e.s].step = "gone")
  BY <1>0, <1>2 DEF CallbacksFit
<1>6. e.kind = "connected" /\ st[e.s].step # "gone" => st2[e.s].step = st[e.s].step
  BY <1>0, <1>2, <1>3 DEF CallbacksFit
<1>7. e.kind = "connected" /\ st[e.s].step # "gone" =>
         /\ st[e.s].step = "announcing"
         /\ \A k \in 1..Len(b) : b[k].kind = "connected" /\ b[k].s = e.s => i + 1 = k
  BY <1>2 DEF CallbacksFit
<1>8. /\ e.s \in DOMAIN st /\ st[e.s].client = c /\ (st[e.s].step # "gone" => st[e.s].node = n) /\ ~e.running
      /\ e.kind = "disconnected" => st[e.s].step = "gone"
  BY <1>2 DEF CallbacksFit
<1> QED
  BY <1>0, <1>4, <1>5, <1>6, <1>7, <1>8

-----------------------------------------------------------------------------
(* The chains, the callbacks and the streams of all nodes. *)

\* Every stream is known, and every chain and every queue of callbacks is as it must be.
Flow ==
    /\ streams \in Seq(Stream) /\ Len(streams) <= MaxStreams /\ StreamsFit(streams)
    /\ chain \in [Node -> [Client -> Seq(Job)]]
    /\ callbacks \in [Node -> [Client -> Seq(Callback)]]
    /\ \A n \in Node, c \in Client :
          /\ QueueFits(chain[n][c], streams, n, c, mesh[n])
          /\ CallbacksFit(callbacks[n][c], streams, n, c)

\* Of all clients at all nodes only c at n is concerned.
OnlyAt(f, g, n, c) == \A m \in Node, d \in Client : (m = n /\ d = c) \/ g[m][d] = f[m][d]

\* The assignments of the actions.
Queues(n, c, q) == chain' = [chain EXCEPT ![n][c] = q]

\* The callbacks of a client.
Calls(n, c, b) == callbacks' = [callbacks EXCEPT ![n][c] = b]

\* A field of a stream, or the whole of it.
Turns(s, new) == streams' = [streams EXCEPT ![s] = new]

\* An assignment to the chain of one client leaves the other chains alone.
LEMMA PutJobs ==
    ASSUME Flow, NEW n \in Node, NEW c \in Client, NEW q \in Seq(Job), Queues(n, c, q)
    PROVE  chain' \in [Node -> [Client -> Seq(Job)]] /\ chain'[n][c] = q /\ OnlyAt(chain, chain', n, c)
BY DEF OnlyAt, Flow, Queues

\* So does one to its callbacks.
LEMMA PutCallbacks ==
    ASSUME Flow, NEW n \in Node, NEW c \in Client, NEW b \in Seq(Callback), Calls(n, c, b)
    PROVE  /\ callbacks' \in [Node -> [Client -> Seq(Callback)]] /\ callbacks'[n][c] = b
           /\ OnlyAt(callbacks, callbacks', n, c)
BY DEF OnlyAt, Flow, Calls

\* Only streams that the client has at the node change, and only such are new.
OnlyHere(st, st2, n, c) ==
    /\ DOMAIN st \subseteq DOMAIN st2
    /\ \A s \in DOMAIN st : st2[s] = st[s] \/ s \in Here(st, n, c)
    /\ \A s \in DOMAIN st2 : (s \in DOMAIN st => st2[s] # st[s]) => st2[s].client = c /\ st2[s].node \in {n, NoNode}

\* What concerns the streams of one client at one node leaves the streams of the others as they are.
LEMMA HereOnly ==
    ASSUME NEW st, NEW st2, NEW n \in Node, NEW c, NEW m \in Node, NEW d, ~(m = n /\ d = c),
           StreamsFit(st), OnlyHere(st, st2, n, c)
    PROVE  SameFor(st, st2, m, d)
<1>0. NoNode \notin Node
  BY RegistryAssumption
<1>1. \A s \in DOMAIN st : st[s].client = d /\ (st[s].node = m \/ st[s].step = "gone") => st2[s] = st[s]
  BY <1>0 DEF OnlyHere, Here, StreamsFit
<1>2. Here(st2, m, d) \subseteq Here(st, m, d)
  BY <1>0 DEF OnlyHere, Here
<1>3. Here(st, m, d) \subseteq Here(st2, m, d)
  BY DEF OnlyHere, Here
<1> QED
  BY <1>1, <1>2, <1>3 DEF SameFor, OnlyHere

\* The step is one of the client at the node.
OnlyOne(n, c) == OnlyAt(chain, chain', n, c) /\ OnlyHere(streams, streams', n, c)

\* A step of one client at one node leaves the others as they are.
LEMMA PairKeeps ==
    ASSUME Flow, NEW n \in Node, NEW c \in Client, mesh' = mesh,
           streams' \in Seq(Stream), Len(streams') <= MaxStreams, StreamsFit(streams'),
           OnlyHere(streams, streams', n, c),
           chain' \in [Node -> [Client -> Seq(Job)]], OnlyAt(chain, chain', n, c),
           callbacks' \in [Node -> [Client -> Seq(Callback)]], OnlyAt(callbacks, callbacks', n, c),
           QueueFits(chain'[n][c], streams', n, c, mesh[n]),
           CallbacksFit(callbacks'[n][c], streams', n, c)
    PROVE  Flow' /\ OnlyOne(n, c)
<1> SUFFICES ASSUME NEW m \in Node, NEW d \in Client
             PROVE  /\ QueueFits(chain'[m][d], streams', m, d, mesh[m])
                    /\ CallbacksFit(callbacks'[m][d], streams', m, d)
  BY DEF Flow, OnlyOne
<1>1. CASE m = n /\ d = c
  BY <1>1
<1>2. CASE ~(m = n /\ d = c)
  <2>1. SameFor(streams, streams', m, d)
    BY <1>2, HereOnly DEF Flow
  <2>2. chain'[m][d] = chain[m][d] /\ callbacks'[m][d] = callbacks[m][d]
    BY <1>2 DEF OnlyAt
  <2>3. chain[m][d] \in Seq(Job) /\ callbacks[m][d] \in Seq(Callback)
    BY DEF Flow
  <2>4. QueueFits(chain[m][d], streams, m, d, mesh[m]) /\ CallbacksFit(callbacks[m][d], streams, m, d)
    BY DEF Flow
  <2> QED
    BY <2>1, <2>2, <2>3, <2>4, OtherFits, OtherCallbacksFit
<1> QED
  BY <1>1, <1>2

\* A step that leaves the streams alone concerns those of nobody.
LEMMA UnchangedIsOnly ==
    ASSUME NEW f, NEW st, NEW n, NEW c
    PROVE  OnlyAt(f, f, n, c) /\ OnlyHere(st, st, n, c)
BY DEF OnlyAt, OnlyHere

\* A stream that the client has at the node goes on, and stays the client's and at the node.
LEMMA StepIs ==
    ASSUME Flow, NEW n \in Node, NEW c \in Client, NEW s \in Here(streams, n, c), NEW new \in Stream,
           new.client = c, new.node = n, new.step # "gone",
           Turns(s, new)
    PROVE  /\ streams' \in Seq(Stream) /\ Len(streams') = Len(streams)
           /\ StreamsFit(streams')
           /\ OnlyHere(streams, streams', n, c)
           /\ Here(streams', n, c) = Here(streams, n, c)
           /\ DOMAIN streams' = DOMAIN streams
           /\ streams'[s] = new
           /\ \A t \in DOMAIN streams : t # s => streams'[t] = streams[t]
<1> DEFINE st == [streams EXCEPT ![s] = new]
<1>0. NoNode \notin Node
  BY RegistryAssumption
<1>1. s \in DOMAIN streams /\ streams[s].node = n /\ streams[s].client = c
  BY DEF Here
<1>2. st \in Seq(Stream) /\ Len(st) = Len(streams) /\ DOMAIN st = DOMAIN streams /\ streams' = st
      /\ st[s] = new /\ \A t \in DOMAIN streams : t # s => st[t] = streams[t]
  BY <1>1 DEF Flow, Turns
<1> HIDE DEF st
<1>3. StreamsFit(st)
  BY <1>0, <1>1, <1>2 DEF Flow, StreamsFit
<1>4. OnlyHere(streams, st, n, c)
  BY <1>1, <1>2 DEF OnlyHere, Here
<1>5. Here(st, n, c) = Here(streams, n, c)
  BY <1>1, <1>2 DEF Here
<1> QED
  BY <1>2, <1>3, <1>4, <1>5

\* Or it goes.
LEMMA GoneIs ==
    ASSUME Flow, NEW n \in Node, NEW c \in Client, NEW s \in Here(streams, n, c),
           Turns(s, Gone(streams[s]))
    PROVE  /\ streams' \in Seq(Stream) /\ Len(streams') = Len(streams)
           /\ StreamsFit(streams')
           /\ OnlyHere(streams, streams', n, c)
           /\ DOMAIN streams' = DOMAIN streams
           /\ streams'[s].step = "gone"
           /\ streams'[s].client = c /\ streams'[s].node = NoNode
           /\ \A t \in DOMAIN streams : t # s => streams'[t] = streams[t]
           /\ streams[s] \in Stream /\ streams[s].step # "gone"
<1> DEFINE st == [streams EXCEPT ![s] = Gone(@)]
<1>0. NoNode \notin Node
  BY RegistryAssumption
<1>1. s \in DOMAIN streams /\ streams[s].node = n /\ streams[s].client = c /\ streams[s] \in Stream
  BY DEF Here, Flow
<1>2. /\ Gone(streams[s]) \in Stream /\ Gone(streams[s]).step = "gone" /\ Gone(streams[s]).node = NoNode
      /\ Gone(streams[s]).client = c
  BY <1>1 DEF Gone, Stream, StreamState
<1>3. st \in Seq(Stream) /\ Len(st) = Len(streams) /\ DOMAIN st = DOMAIN streams /\ streams' = st
      /\ st[s] = Gone(streams[s]) /\ \A t \in DOMAIN streams : t # s => st[t] = streams[t]
  BY <1>1, <1>2 DEF Flow, Turns
<1> HIDE DEF st
<1>4. StreamsFit(st)
  BY <1>2, <1>3 DEF Flow, StreamsFit
<1>5. OnlyHere(streams, st, n, c)
  BY <1>1, <1>2, <1>3 DEF OnlyHere, Here
<1>6. streams[s].step # "gone"
  BY <1>0, <1>1 DEF Flow, StreamsFit
<1> QED
  BY <1>1, <1>2, <1>3, <1>4, <1>5, <1>6

\* What is enqueued for a stream is a job.
LEMMA JobsTyped ==
    ASSUME Flow, NEW s \in DOMAIN streams
    PROVE  /\ s \in 1..MaxStreams /\ streams[s] \in Stream
           /\ \A kind \in {"reserve", "backfill", "activate", "disconnect"} : NewJob(kind, s) \in Job
           /\ Farewell(s) \in Job /\ Farewell(s).kind = "disconnect" /\ Farewell(s).s = s
           /\ Farewell(s).reply = "queued" /\ Farewell(s).told = streams[s].published
<1>1. s \in 1..MaxStreams /\ streams[s] \in Stream
  BY ClientsAssumption DEF Flow
<1>2. \A kind \in {"reserve", "backfill", "activate", "disconnect"} : NewJob(kind, s) \in Job
  BY <1>1 DEF NewJob, Job
<1>3. streams[s].published \in BOOLEAN
  BY <1>1 DEF Stream
<1>4. Farewell(s) \in Job /\ Farewell(s).told = streams[s].published
  BY <1>1, <1>3 DEF Farewell, NewJob, Job
<1>5. Farewell(s).kind = "disconnect" /\ Farewell(s).s = s /\ Farewell(s).reply = "queued"
  BY DEF Farewell, NewJob
<1> QED
  BY <1>1, <1>2, <1>4, <1>5

-----------------------------------------------------------------------------
(* The actions of one client at one node. *)

\* The first job of a queue and its stream.
LEMMA First ==
    ASSUME Flow, NEW n \in Node, NEW c \in Client, chain[n][c] # <<>>
    PROVE  /\ chain[n][c] \in Seq(Job) /\ Len(chain[n][c]) \in Nat /\ Len(chain[n][c]) > 0
           /\ Head(chain[n][c]) = chain[n][c][1] /\ chain[n][c][1] \in Job
           /\ QueueFits(chain[n][c], streams, n, c, mesh[n])
           /\ chain[n][c][1].s \in DOMAIN streams /\ streams[chain[n][c][1].s].client = c
           /\ streams[chain[n][c][1].s] \in Stream
           /\ Live(chain[n][c][1].s) => chain[n][c][1].s \in Here(streams, n, c)
           /\ chain[n][c][1].kind = "disconnect" => ~Live(chain[n][c][1].s)
           /\ chain[n][c][1].kind = "reserve" => streams[chain[n][c][1].s].step \in {"checking", "gone"}
           /\ chain[n][c][1].kind = "activate" => streams[chain[n][c][1].s].step \in {"activating", "gone"}
<1>1. chain[n][c] \in Seq(Job) /\ QueueFits(chain[n][c], streams, n, c, mesh[n])
  BY DEF Flow
<1>2. Len(chain[n][c]) \in Nat /\ Len(chain[n][c]) > 0 /\ Head(chain[n][c]) = chain[n][c][1]
  BY <1>1
<1>3. 1 \in 1..Len(chain[n][c]) /\ chain[n][c][1] \in Job
  BY <1>1, <1>2
<1> DEFINE job == chain[n][c][1]
<1>4. /\ job.s \in DOMAIN streams /\ streams[job.s].client = c
      /\ streams[job.s].step # "gone" => streams[job.s].node = n
      /\ job.kind = "disconnect" => streams[job.s].step = "gone"
      /\ job.kind = "reserve" => ~job.active /\ streams[job.s].step \in {"checking", "gone"}
      /\ job.kind = "activate" => streams[job.s].step \in {"activating", "gone"}
  BY <1>1, <1>3 DEF QueueFits, JobsFit
<1>5. streams[job.s] \in Stream
  BY <1>4 DEF Flow
<1> QED
  BY <1>1, <1>2, <1>3, <1>4, <1>5 DEF Live, Here

\* What the first job changes of the streams, so that it may be taken off the queue.
Advanced(st, st2, s) ==
    /\ DOMAIN st2 = DOMAIN st
    /\ \A t \in DOMAIN st : /\ st2[t].client = st[t].client /\ st2[t].node = st[t].node
                            /\ st2[t].step = "gone" <=> st[t].step = "gone"
                            /\ t # s => st2[t].step = st[t].step

\* A job ends: it leaves the queue, and its stream may go on to its next step.
LEMMA FinishKeeps ==
    ASSUME Flow, NEW n \in Node, NEW c \in Client, chain[n][c] # <<>>, Finish(n, c), mesh' = mesh,
           \/ streams' = streams /\ (chain[n][c][1].kind \in {"backfill", "disconnect"} \/ ~Live(chain[n][c][1].s))
           \/ /\ chain[n][c][1].kind \in {"reserve", "activate"} /\ Live(chain[n][c][1].s)
              /\ streams' = [streams EXCEPT ![chain[n][c][1].s].step =
                                IF chain[n][c][1].kind = "reserve" THEN "connecting" ELSE "announcing"],
           callbacks' \in [Node -> [Client -> Seq(Callback)]], OnlyAt(callbacks, callbacks', n, c),
           CallbacksFit(callbacks[n][c], streams', n, c) => CallbacksFit(callbacks'[n][c], streams', n, c)
    PROVE  Flow' /\ OnlyOne(n, c) /\ Advanced(streams, streams', chain[n][c][1].s)
<1> DEFINE q == chain[n][c]
           s == q[1].s
<1>1. /\ q \in Seq(Job) /\ QueueFits(q, streams, n, c, mesh[n]) /\ q[1] \in Job
      /\ s \in DOMAIN streams /\ streams[s].client = c /\ streams[s] \in Stream
      /\ Live(s) => s \in Here(streams, n, c)
      /\ q[1].kind = "activate" => streams[s].step \in {"activating", "gone"}
      /\ q[1].kind = "reserve" => streams[s].step \in {"checking", "gone"}
  BY First
<1>2. q[1].kind \in {"reserve", "backfill", "activate", "disconnect"}
  BY <1>1 DEF Job
<1>3. /\ streams' \in Seq(Stream) /\ Len(streams') <= MaxStreams /\ StreamsFit(streams')
      /\ OnlyHere(streams, streams', n, c)
      /\ Advanced(streams, streams', s)
      /\ q[1].kind \in {"reserve", "activate"} => streams'[s].step # "checking"
      /\ q[1].kind \in {"backfill", "disconnect"} => \A t \in DOMAIN streams : streams'[t].step = streams[t].step
      /\ \A t \in DOMAIN streams : streams'[t].step = streams[t].step \/ streams[t].step \notin {"announcing", "gone"}
  <2>1. CASE streams' = streams /\ (q[1].kind \in {"backfill", "disconnect"} \/ ~Live(s))
    BY <1>1, <1>2, <2>1 DEF Flow, OnlyHere, Live, Advanced
  <2>2. CASE /\ q[1].kind \in {"reserve", "activate"} /\ Live(s)
             /\ streams' = [streams EXCEPT ![s].step = IF q[1].kind = "reserve" THEN "connecting" ELSE "announcing"]
    <3> DEFINE new == [streams[s] EXCEPT !.step = IF q[1].kind = "reserve" THEN "connecting" ELSE "announcing"]
    <3>1. Turns(s, new)
      BY <1>1, <2>2 DEF Turns
    <3>2. new \in Stream /\ new.client = c /\ new.step \in {"connecting", "announcing"} /\ new.node = n
      BY <1>1, <2>2 DEF Stream, StreamState, Here
    <3>0. s \in Here(streams, n, c)
      BY <1>1, <2>2
    <3> HIDE DEF new, s
    <3>3. /\ streams' \in Seq(Stream) /\ Len(streams') = Len(streams) /\ StreamsFit(streams')
          /\ OnlyHere(streams, streams', n, c) /\ DOMAIN streams' = DOMAIN streams
          /\ streams'[s] = new /\ \A t \in DOMAIN streams : t # s => streams'[t] = streams[t]
      BY <3>0, <3>1, <3>2, StepIs
    <3>4. Len(streams') <= MaxStreams
      BY <3>3 DEF Flow
    <3>5. streams[s].step \notin {"announcing", "gone"} /\ streams[s].node = n
      BY <1>1, <2>2 DEF Live, Here
    <3>6. Advanced(streams, streams', s)
      BY <1>1, <3>2, <3>3, <3>5 DEF Advanced
    <3> QED
      BY <1>1, <2>2, <3>2, <3>3, <3>4, <3>5, <3>6
  <2> QED
    BY <2>1, <2>2
<1>4. QueueFits(Tail(q), streams', n, c, mesh[n])
  BY <1>1, <1>3, PopFits DEF Advanced
<1>5. CallbacksFit(callbacks[n][c], streams', n, c)
  <2>1. CallbacksFit(callbacks[n][c], streams, n, c) /\ callbacks[n][c] \in Seq(Callback)
    BY DEF Flow
  <2> QED
    BY <1>3, <2>1, CallbacksStay DEF Advanced
<1>6. Tail(q) \in Seq(Job) /\ Queues(n, c, Tail(q))
  BY <1>1 DEF Finish, Rest, Queues
<1>7. /\ chain' \in [Node -> [Client -> Seq(Job)]] /\ OnlyAt(chain, chain', n, c)
      /\ chain'[n][c] = Tail(q)
  BY <1>6, PutJobs
<1> QED
  BY <1>3, <1>4, <1>5, <1>7, PairKeeps

\* A job gets its answer, or is sent.
LEMMA HeadKeeps ==
    ASSUME Flow, NEW n \in Node, NEW c \in Client, chain[n][c] # <<>>, mesh' = mesh, NEW job \in Job,
           chain' = [chain EXCEPT ![n][c] = [chain[n][c] EXCEPT ![1] = job]],
           streams' = streams, callbacks' = callbacks,
           job.kind = chain[n][c][1].kind, job.s = chain[n][c][1].s,
           job.kind = "reserve" => job.active = chain[n][c][1].active,
           mesh[n] \notin {"off", "starting"}, mesh[n] \in {"stopping", "closed"} => job.reply # "sent"
    PROVE  Flow' /\ OnlyOne(n, c)
<1> DEFINE q == chain[n][c]
           p == [q EXCEPT ![1] = job]
<1>1. q \in Seq(Job) /\ QueueFits(q, streams, n, c, mesh[n]) /\ Len(q) \in Nat /\ Len(q) > 0
  BY First
<1>2. p \in Seq(Job) /\ Len(p) = Len(q) /\ p[1] = job /\ \A i \in 1..Len(q) : i > 1 => p[i] = q[i]
  BY <1>1
<1>0. Queues(n, c, p)
  BY DEF Queues
<1>3. chain' \in [Node -> [Client -> Seq(Job)]] /\ OnlyAt(chain, chain', n, c) /\ chain'[n][c] = p
  BY <1>2, <1>0, PutJobs
<1> HIDE DEF p
<1>4. QueueFits(p, streams, n, c, mesh[n])
  BY <1>1, <1>2, HeadFits
<1>5. OnlyAt(callbacks, callbacks', n, c) /\ OnlyHere(streams, streams', n, c)
  BY UnchangedIsOnly
<1> QED
  BY <1>3, <1>4, <1>5, PairKeeps DEF Flow

\* A stream leaves, with or without the first job of the queue, which is its own.
LEMMA LeaveKeeps ==
    ASSUME Flow, NEW n \in Node, NEW c \in Client, NEW s \in DOMAIN streams, streams[s].client = c,
           Live(s) => streams[s].node = n, NEW queue \in Seq(Job), Leave(n, c, s, queue),
           mesh' = mesh, callbacks' = callbacks,
           \/ queue = chain[n][c]
           \/ chain[n][c] # <<>> /\ queue = Rest(n, c) /\ s = chain[n][c][1].s
    PROVE  Flow' /\ OnlyOne(n, c)
<1> DEFINE q == chain[n][c]
<1>1. q \in Seq(Job) /\ QueueFits(q, streams, n, c, mesh[n]) /\ CallbacksFit(callbacks[n][c], streams, n, c)
      /\ callbacks[n][c] \in Seq(Callback) /\ streams \in Seq(Stream) /\ StreamsFit(streams)
  BY DEF Flow
<1>2. CASE ~Live(s)
  <2>1. streams' = streams /\ chain' = [chain EXCEPT ![n][c] = queue]
    BY <1>2 DEF Leave
  <2>2. CASE queue = q
    <3>1. chain' = chain
      BY <2>1, <2>2 DEF Flow
    <3> QED
      <4>1. OnlyOne(n, c)
        BY <2>1, <3>1, UnchangedIsOnly DEF OnlyOne
      <4>2. Flow'
        BY <2>1, <3>1 DEF Flow
      <4> QED
        BY <4>1, <4>2
  <2>3. CASE q # <<>> /\ queue = Rest(n, c) /\ s = q[1].s
    <3>1. Finish(n, c)
      BY <2>1, <2>3 DEF Finish
    <3>2. OnlyAt(callbacks, callbacks', n, c)
      BY UnchangedIsOnly
    <3>3. callbacks' \in [Node -> [Client -> Seq(Callback)]]
      BY DEF Flow
    <3>4. CallbacksFit(callbacks[n][c], streams', n, c) => CallbacksFit(callbacks'[n][c], streams', n, c)
      OBVIOUS
    <3>5. ~Live(q[1].s)
      BY <1>2, <2>3
    <3> QED
      BY <2>1, <2>3, <3>1, <3>2, <3>3, <3>4, <3>5, FinishKeeps
  <2> QED
    BY <2>2, <2>3
<1>3. CASE Live(s)
  <2>1. s \in Here(streams, n, c)
    BY <1>3 DEF Here
  <2> DEFINE p == Append(queue, Farewell(s))
  <2>2. streams' = [streams EXCEPT ![s] = Gone(@)] /\ Turns(s, Gone(streams[s])) /\ Queues(n, c, p)
    BY <1>3 DEF Leave, Turns, Queues
  <2>3. Farewell(s) \in Job /\ Farewell(s).kind = "disconnect" /\ Farewell(s).s = s /\ Farewell(s).reply = "queued"
    BY JobsTyped
  <2>4. PICK d \in {0, 1} : d <= Len(q) /\ Passes(q, p, d, 1) /\ p \in Seq(Job) /\ p[Len(p)] = Farewell(s)
    <3>1. CASE queue = q
      <4>1. p \in Seq(Job) /\ Passes(q, p, 0, 1) /\ p[Len(q) + 1] = Farewell(s)
        BY <1>1, <2>3, <3>1, AppendPasses
      <4>2. Len(p) = Len(q) + 1 /\ 0 <= Len(q)
        BY <1>1, <3>1
      <4> QED
        BY <4>1, <4>2
    <3>2. CASE q # <<>> /\ queue = Rest(n, c) /\ s = q[1].s
      <4>1. p \in Seq(Job) /\ Passes(q, p, 1, 1) /\ p[Len(q)] = Farewell(s)
        BY <1>1, <2>3, <3>2, TailAppendPasses DEF Rest
      <4>2. Len(q) \in Nat /\ Len(q) > 0
        BY <1>1, <3>2
      <4>3. Len(p) = Len(q)
        BY <4>1, <4>2 DEF Passes
      <4> QED
        BY <4>1, <4>2, <4>3
    <3> QED
      BY <3>1, <3>2
  <2> HIDE DEF p
  <2>5. p \in Seq(Job)
    BY <2>4
  <2>6. chain' \in [Node -> [Client -> Seq(Job)]] /\ OnlyAt(chain, chain', n, c) /\ chain'[n][c] = p
    BY <2>2, <2>5, PutJobs
  <2>7. /\ streams' \in Seq(Stream) /\ Len(streams') = Len(streams) /\ StreamsFit(streams')
        /\ OnlyHere(streams, streams', n, c) /\ DOMAIN streams' = DOMAIN streams
        /\ streams'[s].step = "gone" /\ streams'[s].client = c /\ streams'[s].node = NoNode /\ streams[s].step # "gone"
        /\ \A t \in DOMAIN streams : t # s => streams'[t] = streams[t]
    <3>1. Turns(s, Gone(streams[s]))
      BY <2>2
    <3> QED
      BY <2>1, <3>1, GoneIs
  <2>8. QueueFits(p, streams', n, c, mesh[n])
    <3>1. p[Len(p)].kind = "disconnect" /\ p[Len(p)].s = s /\ p[Len(p)].reply = "queued"
      BY <2>3, <2>4
    <3>2. Parts(streams, streams', s, c)
      BY <2>7 DEF Parts
    <3>3. q \in Seq(Job) /\ QueueFits(q, streams, n, c, mesh[n])
      BY <1>1
    <3> HIDE DEF q
    <3>4. EndsWith(q, p, s)
      BY <2>4, <3>1 DEF EndsWith
    <3> QED
      BY <2>1, <2>5, <3>2, <3>3, <3>4, LeaveFits
  <2>9. CallbacksFit(callbacks[n][c], streams', n, c)
    <3>1. \A t \in DOMAIN streams :
              /\ streams'[t].client = streams[t].client
              /\ \/ streams'[t].step = "gone"
                 \/ /\ streams'[t].node = streams[t].node
                    /\ streams'[t].step = streams[t].step \/ streams[t].step \notin {"announcing", "gone"}
      BY <2>7
    <3> QED
      BY <1>1, <2>7, <3>1, CallbacksStay
  <2>10. OnlyAt(callbacks, callbacks', n, c)
    BY UnchangedIsOnly
  <2>11. Len(streams') <= MaxStreams
    BY <2>7 DEF Flow
  <2> QED
    BY <2>6, <2>8, <2>7, <2>9, <2>10, <2>11, PairKeeps DEF Flow
<1> QED
  BY <1>2, <1>3

\* A stream replaces the one that the client has here, if any: the farewell of the old stream,
\* then the reservation of the new one.
LEMMA ConnectKeeps ==
    ASSUME Flow, NEW n \in Node, NEW c \in Client, NEW polite \in BOOLEAN, Connect(n, c, polite)
    PROVE  Flow' /\ OnlyOne(n, c)
<1> DEFINE q == chain[n][c]
           s == Len(streams) + 1
           kept == [t \in DOMAIN streams |-> IF t \in Current(n, c) THEN Gone(streams[t]) ELSE streams[t]]
           left == IF Current(n, c) = {} THEN <<>> ELSE <<Farewell(CHOOSE t \in Current(n, c) : TRUE)>>
           new == [client |-> c, node |-> n, polite |-> polite, step |-> "checking", published |-> FALSE]
           p == q \o left
<1>0. NoNode \notin Node
  BY RegistryAssumption
<1>1. /\ streams \in Seq(Stream) /\ Len(streams) \in Nat /\ Len(streams) < MaxStreams /\ StreamsFit(streams)
      /\ s \in 1..MaxStreams /\ s \notin DOMAIN streams /\ DOMAIN streams = 1..Len(streams)
  BY ClientsAssumption DEF Flow, Connect
<1>2. q \in Seq(Job) /\ QueueFits(q, streams, n, c, mesh[n]) /\ CallbacksFit(callbacks[n][c], streams, n, c)
      /\ callbacks[n][c] \in Seq(Callback)
  BY DEF Flow
<1>3. streams' = Append(kept, new) /\ Queues(n, c, p \o <<NewJob("reserve", s)>>) /\ mesh' = mesh /\ callbacks' = callbacks
  BY DEF Connect, Queues
<1>4. Current(n, c) = Here(streams, n, c)
  BY DEF Current, Here
<1>5. ASSUME NEW t \in Here(streams, n, c)
      PROVE  /\ t \in DOMAIN streams /\ streams[t].client = c /\ streams[t].step # "gone"
             /\ Gone(streams[t]) \in Stream /\ Gone(streams[t]).step = "gone" /\ Gone(streams[t]).node = NoNode
             /\ Gone(streams[t]).client = c
  <2>1. t \in DOMAIN streams /\ streams[t].client = c /\ streams[t].node = n /\ streams[t] \in Stream
    BY <1>1 DEF Here
  <2> QED
    BY <1>0, <1>1, <2>1 DEF Gone, Stream, StreamState, StreamsFit
<1>6. new \in Stream
  BY DEF Stream, StreamState
<1>7. /\ kept \in Seq(Stream) /\ Len(kept) = Len(streams) /\ DOMAIN kept = DOMAIN streams
      /\ \A t \in DOMAIN streams : kept[t] = IF t \in Here(streams, n, c) THEN Gone(streams[t]) ELSE streams[t]
  <2>1. \A t \in DOMAIN streams : kept[t] \in Stream
    BY <1>1, <1>4, <1>5
  <2> QED
    BY <1>1, <1>4, <2>1
<1> HIDE DEF kept, new
<1>8. /\ streams' \in Seq(Stream) /\ Len(streams') = s /\ DOMAIN streams' = 1..s /\ streams'[s] = new
      /\ \A t \in DOMAIN streams : streams'[t] = kept[t] /\ t \in DOMAIN streams' /\ t # s
      /\ \A t \in DOMAIN streams' : t \in DOMAIN streams \/ t = s
  BY <1>1, <1>3, <1>6, <1>7
<1>9. new.client = c /\ new.node = n /\ new.step = "checking"
  BY DEF new
<1> HIDE DEF s
<1>10. p \in Seq(Job) /\ QueueFits(p, kept, n, c, mesh[n]) /\ Here(kept, n, c) = {}
  <2>1. CASE Here(streams, n, c) = {}
    <3>1. p = q
      BY <1>2, <1>4, <2>1
    <3>2. \A t \in DOMAIN streams : kept[t] = streams[t]
      BY <1>7, <2>1
    <3>3. Here(kept, n, c) = {}
      BY <1>7, <2>1, <3>2 DEF Here
    <3>4. SameFor(streams, kept, n, c)
      BY <1>7, <2>1, <3>2, <3>3 DEF SameFor
    <3> QED
      BY <1>2, <3>1, <3>3, <3>4, OtherFits
  <2>2. ASSUME NEW t \in Here(streams, n, c) PROVE p \in Seq(Job) /\ QueueFits(p, kept, n, c, mesh[n]) /\ Here(kept, n, c) = {}
    <3>1. Here(streams, n, c) = {t}
      BY <1>2, <2>2 DEF QueueFits, InTurn
    <3>2. Current(n, c) # {} /\ (CHOOSE x \in Current(n, c) : TRUE) = t
      BY <1>4, <3>1
    <3>3. Farewell(t) \in Job /\ Farewell(t).kind = "disconnect" /\ Farewell(t).s = t /\ Farewell(t).reply = "queued"
      BY <1>5, JobsTyped
    <3>4. left = <<Farewell(t)>>
      BY <3>2
    <3> HIDE DEF left
    <3>5. p = Append(q, Farewell(t))
      <4> DEFINE job == Farewell(t)
      <4>1. job \in Job /\ left = <<job>>
        BY <3>3, <3>4
      <4> HIDE DEF job
      <4>2. q \o <<job>> = Append(q, job)
        BY <1>2, <4>1
      <4> QED
        BY <4>1, <4>2 DEF job
    <3> HIDE DEF p
    <3>6. p \in Seq(Job) /\ Passes(q, p, 0, 1) /\ p[Len(q) + 1] = Farewell(t) /\ Len(p) = Len(q) + 1 /\ 0 <= Len(q)
      BY <1>2, <3>3, <3>5, AppendPasses
    <3>7. EndsWith(q, p, t)
      BY <3>3, <3>6 DEF EndsWith
    <3>8. Parts(streams, kept, t, c)
      BY <1>5, <1>7, <3>1 DEF Parts
    <3> QED
      BY <1>2, <3>6, <3>7, <3>8, LeaveFits
  <2> QED
    BY <2>1, <2>2
<1>11. NewJob("reserve", s) \in Job /\ NewJob("reserve", s).s = s /\ NewJob("reserve", s).reply = "queued"
       /\ NewJob("reserve", s).kind = "reserve" /\ ~NewJob("reserve", s).active
  BY <1>1 DEF NewJob, Job
<1> HIDE DEF p
<1>12. p \o <<NewJob("reserve", s)>> = Append(p, NewJob("reserve", s)) /\ Append(p, NewJob("reserve", s)) \in Seq(Job)
  BY <1>10, <1>11
<1>13. Here(streams', n, c) = {s}
  <2>1. s \in Here(streams', n, c)
    BY <1>8, <1>9, <1>1 DEF Here
  <2>2. ASSUME NEW t \in Here(streams', n, c), t # s PROVE FALSE
    <3>1. t \in DOMAIN kept /\ kept[t] = streams'[t] /\ streams'[t].node = n /\ streams'[t].client = c
      BY <1>7, <1>8, <2>2 DEF Here
    <3>2. t \in Here(kept, n, c)
      BY <3>1 DEF Here
    <3> QED
      BY <1>10, <3>2
  <2> QED
    BY <2>1, <2>2
<1>14. QueueFits(Append(p, NewJob("reserve", s)), streams', n, c, mesh[n])
  <2> DEFINE job == NewJob("reserve", s)
  <2> HIDE DEF job
  <2>1. \A t \in DOMAIN kept : t \in DOMAIN streams' /\ (t # s => streams'[t] = kept[t])
    BY <1>7, <1>8
  <2>2. s \notin DOMAIN kept /\ s \in DOMAIN streams'
    BY <1>1, <1>7, <1>8
  <2>3. job \in Job /\ job.s = s /\ job.reply = "queued" /\ job.kind = "reserve" /\ ~job.active
    BY <1>11 DEF job
  <2>4. Joins(kept, streams', n, c, s, job)
    BY <1>1, <1>8, <1>9, <1>10, <1>13, <2>1, <2>2, <2>3 DEF Joins
  <2>5. QueueFits(Append(p, job), streams', n, c, mesh[n])
    BY <1>1, <1>10, <2>3, <2>4, JoinFits
  <2> QED
    BY <2>5 DEF job
<1>15. chain' \in [Node -> [Client -> Seq(Job)]] /\ chain'[n][c] = Append(p, NewJob("reserve", s)) /\ OnlyAt(chain, chain', n, c)
  <2>1. Queues(n, c, Append(p, NewJob("reserve", s)))
    BY <1>3, <1>12
  <2> QED
    BY <1>12, <2>1, PutJobs
<1>16. StreamsFit(streams')
  BY <1>0, <1>1, <1>5, <1>7, <1>8, <1>9 DEF StreamsFit
<1>17. OnlyHere(streams, streams', n, c)
  <2>1. \A t \in DOMAIN streams : streams'[t] = streams[t] \/ t \in Here(streams, n, c)
    BY <1>7, <1>8
  <2>2. \A t \in DOMAIN streams' : (t \in DOMAIN streams => streams'[t] # streams[t]) => streams'[t].client = c /\ streams'[t].node \in {n, NoNode}
    BY <1>5, <1>7, <1>8, <1>9
  <2> QED
    BY <1>8, <2>1, <2>2 DEF OnlyHere
<1>18. CallbacksFit(callbacks[n][c], streams', n, c)
  <2>1. \A t \in DOMAIN streams : streams'[t] = streams[t] \/ (streams'[t].step = "gone" /\ streams'[t].client = streams[t].client)
    BY <1>5, <1>7, <1>8
  <2>2. DOMAIN streams \subseteq DOMAIN streams'
    BY <1>8
  <2> QED
    BY <1>2, <2>1, <2>2, CallbacksStay
<1>19. OnlyAt(callbacks, callbacks', n, c)
  BY <1>3, UnchangedIsOnly
<1>20. Len(streams') <= MaxStreams
  BY <1>1, <1>8
<1> QED
  BY <1>3, <1>8, <1>14, <1>15, <1>16, <1>17, <1>18, <1>19, <1>20, PairKeeps DEF Flow

\* A stream that breaks leaves its farewell behind.
LEMMA DropKeeps ==
    ASSUME Flow, NEW s, Drop(s)
    PROVE  Flow' /\ OnlyOne(streams[s].node, streams[s].client)
<1>1. s \in DOMAIN streams /\ Live(s) /\ streams[s] \in Stream /\ mesh' = mesh /\ callbacks' = callbacks
  BY DEF Drop, Flow
<1>2. streams[s].node \in Node /\ streams[s].client \in Client
  BY <1>1 DEF Flow, StreamsFit, Live, Stream
<1> DEFINE n == streams[s].node
           c == streams[s].client
<1>3. chain[n][c] \in Seq(Job)
  BY <1>2 DEF Flow
<1>4. Leave(n, c, s, chain[n][c])
  BY DEF Drop
<1>5. streams[s].client = c /\ streams[s].node = n /\ n \in Node /\ c \in Client
  BY <1>2
<1>6. Flow' /\ OnlyOne(n, c)
  <2> HIDE DEF n, c
  <2> QED
    BY <1>1, <1>3, <1>4, <1>5, LeaveKeeps
<1> QED
  BY <1>6

\* So does a stream that is superseded, if there is one.
LEMMA KickedKeeps ==
    ASSUME Flow, NEW k \in Kick, Kicked(k)
    PROVE  Flow' /\ OnlyOne(k.node, k.client)
<1>1. k.node \in Node /\ k.client \in Client /\ mesh' = mesh /\ callbacks' = callbacks
  BY DEF Kick, Kicked
<1>2. CASE UNCHANGED <<streams, chain>>
  BY <1>1, <1>2, UnchangedIsOnly DEF Flow, OnlyOne
<1>3. ASSUME NEW s \in Current(k.node, k.client), Leave(k.node, k.client, s, chain[k.node][k.client])
      PROVE  Flow' /\ OnlyOne(k.node, k.client)
  <2>1. s \in DOMAIN streams /\ streams[s].client = k.client /\ streams[s].node = k.node
    BY DEF Current
  <2>2. chain[k.node][k.client] \in Seq(Job)
    BY <1>1 DEF Flow
  <2> QED
    BY <1>1, <1>3, <2>1, <2>2, LeaveKeeps
<1> QED
  BY <1>2, <1>3 DEF Kicked

\* The stream of the first job leaves with it.
LEMMA RestLeaves ==
    ASSUME Flow, NEW n \in Node, NEW c \in Client, chain[n][c] # <<>>, Leave(n, c, Subject(n, c), Rest(n, c)),
           mesh' = mesh, callbacks' = callbacks
    PROVE  Flow' /\ OnlyOne(n, c)
<1> DEFINE s == chain[n][c][1].s
<1>1. /\ chain[n][c] \in Seq(Job) /\ Head(chain[n][c]) = chain[n][c][1]
      /\ s \in DOMAIN streams /\ streams[s].client = c /\ (Live(s) => s \in Here(streams, n, c))
  BY First
<1>2. Subject(n, c) = s /\ (Live(s) => streams[s].node = n)
  BY <1>1 DEF Subject, Here
<1>3. Rest(n, c) \in Seq(Job)
  BY <1>1 DEF Rest
<1> HIDE DEF s
<1>4. s = chain[n][c][1].s
  BY DEF s
<1> QED
  BY <1>1, <1>2, <1>3, <1>4, LeaveKeeps

\* The first job is done, and the application hears nothing of it.
LEMMA JobDone ==
    ASSUME Flow, NEW n \in Node, NEW c \in Client, chain[n][c] # <<>>, Finish(n, c),
           mesh' = mesh, callbacks' = callbacks,
           LET s == Subject(n, c) IN
              \/ streams' = streams /\ (Head(chain[n][c]).kind \in {"backfill", "disconnect"} \/ ~Live(s))
              \/ Head(chain[n][c]).kind = "reserve" /\ Live(s) /\ streams' = [streams EXCEPT ![s].step = "connecting"]
    PROVE  Flow' /\ OnlyOne(n, c)
<1>1. Head(chain[n][c]) = chain[n][c][1]
  BY First
<1> DEFINE job == chain[n][c][1]
<1>2. \/ streams' = streams /\ (job.kind \in {"backfill", "disconnect"} \/ ~Live(job.s))
      \/ /\ job.kind \in {"reserve", "activate"} /\ Live(job.s)
         /\ streams' = [streams EXCEPT ![job.s].step = IF job.kind = "reserve" THEN "connecting" ELSE "announcing"]
  BY <1>1 DEF Subject
<1>3. callbacks' \in [Node -> [Client -> Seq(Callback)]] /\ OnlyAt(callbacks, callbacks', n, c)
  BY UnchangedIsOnly DEF Flow
<1>4. CallbacksFit(callbacks[n][c], streams', n, c) => CallbacksFit(callbacks'[n][c], streams', n, c)
  OBVIOUS
<1> QED
  BY <1>2, <1>3, <1>4, FinishKeeps

\* The first job of the queue becomes this one.
Turned(n, c, job) == chain' = [chain EXCEPT ![n][c] = [chain[n][c] EXCEPT ![1] = job]]

\* The first job is sent, by a mesh that runs, or answered.
LEMMA JobGoesOn ==
    ASSUME Flow, NEW n \in Node, NEW c \in Client, chain[n][c] # <<>>, mesh' = mesh, NEW job \in Job,
           Turned(n, c, job), streams' = streams, callbacks' = callbacks,
           job.kind = chain[n][c][1].kind, job.s = chain[n][c][1].s,
           job.kind = "reserve" => job.active = chain[n][c][1].active,
           \/ job.reply = "sent" /\ Running(n)
           \/ job.reply # "sent" /\ chain[n][c][1].reply = "sent"
    PROVE  Flow' /\ OnlyOne(n, c)
<1>1. QueueFits(chain[n][c], streams, n, c, mesh[n]) /\ 1 \in 1..Len(chain[n][c])
  BY First
<1>2. mesh[n] \notin {"off", "starting"} /\ (mesh[n] \in {"stopping", "closed"} => job.reply # "sent")
  BY <1>1 DEF QueueFits, InLife, Running
<1> QED
  BY <1>2, HeadKeeps DEF Turned

\* A job that is sent stays at the head.
LEMMA SendKeeps ==
    ASSUME Flow, NEW n \in Node, NEW c \in Client, chain[n][c] # <<>>, Send(n, c), Running(n),
           mesh' = mesh, streams' = streams, callbacks' = callbacks
    PROVE  Flow' /\ OnlyOne(n, c)
<1> DEFINE job == [chain[n][c][1] EXCEPT !.reply = "sent"]
<1>1. chain[n][c][1] \in Job
  BY First
<1>2. Turned(n, c, job)
  BY DEF Send, Turned
<1>3. /\ job \in Job /\ job.kind = chain[n][c][1].kind /\ job.s = chain[n][c][1].s
      /\ job.active = chain[n][c][1].active /\ job.reply = "sent"
  BY <1>1 DEF Job
<1> HIDE DEF job
<1> QED
  BY <1>2, <1>3, JobGoesOn

\* So does one that is answered.
LEMMA AnswerKeeps ==
    ASSUME Flow, NEW n \in Node, NEW c \in Client, chain[n][c] # <<>>, chain[n][c][1].reply = "sent",
           NEW reply \in {"yes", "no", "error"}, NEW old \in Node \cup {NoNode}, Answer(n, c, reply, old),
           mesh' = mesh, streams' = streams, callbacks' = callbacks
    PROVE  Flow' /\ OnlyOne(n, c)
<1> DEFINE job == [chain[n][c][1] EXCEPT !.reply = reply, !.old = old]
<1>1. chain[n][c][1] \in Job /\ chain[n][c] \in Seq(Job) /\ 1 \in DOMAIN chain[n][c]
      /\ n \in DOMAIN chain /\ c \in DOMAIN chain[n]
  BY First DEF Flow
<1>2. Turned(n, c, job)
  BY <1>1 DEF Answer, Turned
<1>3. /\ job \in Job /\ job.kind = chain[n][c][1].kind /\ job.s = chain[n][c][1].s
      /\ job.active = chain[n][c][1].active /\ job.reply # "sent"
  BY <1>1 DEF Job
<1> HIDE DEF job
<1> QED
  BY <1>2, <1>3, JobGoesOn

\* The microtask that starts a job: it is sent, or is done without a word to Redis.
LEMMA JobStartsKeep ==
    ASSUME Flow, NEW n \in Node, NEW c \in Client, JobStarts(n, c)
    PROVE  Flow' /\ OnlyOne(n, c)
<1>1. /\ chain[n][c] # <<>> /\ mesh' = mesh /\ callbacks' = callbacks
      /\ chain[n][c][1] \in Job /\ Head(chain[n][c]) = chain[n][c][1] /\ chain[n][c][1].s \in DOMAIN streams
  BY First DEF JobStarts, ReserveStarts, ActivateStarts, DisconnectStarts, BackfillStarts, Due
<1>2. CASE ReserveStarts(n, c)
  <2>1. CASE Send(n, c) /\ Running(n) /\ UNCHANGED streams
    BY <1>1, <2>1, SendKeeps
  <2>2. CASE Finish(n, c) /\ streams' = IF Live(Subject(n, c)) THEN [streams EXCEPT ![Subject(n, c)].step = "connecting"] ELSE streams
    <3>1. Head(chain[n][c]).kind = "reserve"
      BY <1>2 DEF ReserveStarts, Due
    <3> QED
      BY <1>1, <2>2, <3>1, JobDone
  <2> QED
    BY <1>2, <2>1, <2>2 DEF ReserveStarts
<1>3. CASE ActivateStarts(n, c)
  <2>1. CASE Send(n, c) /\ Running(n) /\ UNCHANGED streams
    BY <1>1, <2>1, SendKeeps
  <2>2. CASE Leave(n, c, Subject(n, c), Rest(n, c))
    BY <1>1, <2>2, RestLeaves
  <2> QED
    BY <1>3, <2>1, <2>2 DEF ActivateStarts
<1>4. CASE DisconnectStarts(n, c)
  <2>1. CASE Send(n, c) /\ Running(n)
    BY <1>1, <1>4, <2>1, SendKeeps DEF DisconnectStarts
  <2>2. CASE Finish(n, c)
    BY <1>1, <1>4, <2>2, JobDone DEF DisconnectStarts, Due
  <2> QED
    BY <1>4, <2>1, <2>2 DEF DisconnectStarts
<1>5. CASE BackfillStarts(n, c)
  <2>1. CASE Finish(n, c)
    BY <1>1, <1>5, <2>1, JobDone DEF BackfillStarts, Due
  <2>2. CASE ~Finish(n, c)
    <3> DEFINE active == streams[chain[n][c][1].s].step \notin {"checking", "connecting"}
               job == [chain[n][c][1] EXCEPT !.reply = "sent", !.active = active]
    <3>1. Running(n) /\ streams' = streams
          /\ chain' = [chain EXCEPT ![n][c][1].reply = "sent", ![n][c][1].active = active]
      BY <1>1, <1>5, <2>2 DEF BackfillStarts, Subject
    <3>2. chain[n][c] \in Seq(Job) /\ 1 \in DOMAIN chain[n][c] /\ n \in DOMAIN chain /\ c \in DOMAIN chain[n]
          /\ chain[n][c][1].kind = "backfill"
      BY <1>1, <1>5, First DEF Flow, BackfillStarts, Due
    <3> HIDE DEF active
    <3>3. Turned(n, c, job)
      BY <3>1, <3>2 DEF Turned
    <3>4. active \in BOOLEAN
      BY DEF active
    <3>5. /\ job \in Job /\ job.kind = chain[n][c][1].kind /\ job.s = chain[n][c][1].s /\ job.reply = "sent"
      BY <1>1, <3>4 DEF Job
    <3> HIDE DEF job
    <3> QED
      BY <1>1, <3>1, <3>2, <3>3, <3>5, JobGoesOn
  <2> QED
    BY <2>1, <2>2
<1> QED
  BY <1>2, <1>3, <1>4, <1>5 DEF JobStarts

\* The application is to hear of a stream: the callback comes last.
LEMMA Announced ==
    ASSUME Flow, NEW n \in Node, NEW c \in Client, NEW kind \in {"connected", "disconnected"}, NEW s \in DOMAIN streams,
           Announce(n, c, kind, s), Heralds([kind |-> kind, s |-> s, running |-> FALSE], streams, streams', n, c)
    PROVE  /\ callbacks' \in [Node -> [Client -> Seq(Callback)]] /\ OnlyAt(callbacks, callbacks', n, c)
           /\ CallbacksFit(callbacks'[n][c], streams', n, c)
           /\ callbacks'[n][c] = Append(callbacks[n][c], [kind |-> kind, s |-> s, running |-> FALSE])
<1> DEFINE job == [kind |-> kind, s |-> s, running |-> FALSE]
           b == callbacks[n][c]
<1>1. job \in Callback
  BY JobsTyped DEF Callback
<1>2. b \in Seq(Callback) /\ CallbacksFit(b, streams, n, c)
  BY DEF Flow
<1>3. Calls(n, c, Append(b, job))
  BY DEF Announce, Calls
<1>4. Heralds(job, streams, streams', n, c)
  OBVIOUS
<1> HIDE DEF job, b
<1>5. Append(b, job) \in Seq(Callback)
  BY <1>1, <1>2
<1>6. CallbacksFit(Append(b, job), streams', n, c)
  BY <1>1, <1>2, <1>4, AnnounceFits
<1> QED
  BY <1>3, <1>5, <1>6, PutCallbacks DEF job, b

\* The answer to ACTIVATE: the stream is announced, or cleaned up.
LEMMA ActivateEndsKeeps ==
    ASSUME Flow, NEW n \in Node, NEW c \in Client, ActivateEnds(n, c)
    PROVE  Flow' /\ OnlyOne(n, c)
<1>1. /\ chain[n][c] # <<>> /\ mesh' = mesh
      /\ Head(chain[n][c]).kind = "activate"
  BY DEF ActivateEnds, Answered
<1> DEFINE s == chain[n][c][1].s
<1>2. /\ Head(chain[n][c]) = chain[n][c][1] /\ s \in DOMAIN streams /\ Subject(n, c) = s
      /\ chain[n][c][1].kind = "activate" /\ streams[s].step \in {"activating", "gone"}
      /\ streams[s].client = c /\ (Live(s) => s \in Here(streams, n, c)) /\ streams[s] \in Stream
  BY <1>1, First DEF Subject
<1>3. CASE Announce(n, c, "connected", s) /\ Finish(n, c)
           /\ streams' = IF Live(s) THEN [streams EXCEPT ![s].step = "announcing"] ELSE streams
  <2>1. Heralds([kind |-> "connected", s |-> s, running |-> FALSE], streams, streams', n, c)
    <3>1. DOMAIN streams' = DOMAIN streams /\ \A t \in DOMAIN streams : t # s => streams'[t] = streams[t]
      BY <1>3
    <3>2. /\ Live(s) => streams'[s].step = "announcing" /\ streams[s].node = n
          /\ ~Live(s) => streams'[s].step = "gone"
          /\ streams'[s].client = c /\ streams'[s].node = streams[s].node
      BY <1>2, <1>3 DEF Live, Stream, Here
    <3> HIDE DEF s
    <3>3. ASSUME NEW t \in DOMAIN streams
          PROVE  /\ streams'[t].client = streams[t].client /\ streams'[t].node = streams[t].node
                 /\ streams'[t].step = streams[t].step \/ (t = s /\ streams[t].step \notin {"announcing", "gone"})
      BY <1>2, <3>1, <3>2 DEF Live
    <3> QED
      BY <1>2, <3>1, <3>2, <3>3 DEF Heralds, Live
  <2>2. /\ callbacks' \in [Node -> [Client -> Seq(Callback)]] /\ OnlyAt(callbacks, callbacks', n, c)
        /\ CallbacksFit(callbacks'[n][c], streams', n, c)
    BY <1>2, <1>3, <2>1, Announced
  <2>3. \/ streams' = streams /\ (chain[n][c][1].kind \in {"backfill", "disconnect"} \/ ~Live(s))
        \/ /\ chain[n][c][1].kind \in {"reserve", "activate"} /\ Live(s)
           /\ streams' = [streams EXCEPT ![s].step = IF chain[n][c][1].kind = "reserve" THEN "connecting" ELSE "announcing"]
    BY <1>2, <1>3
  <2> QED
    BY <1>1, <1>3, <2>2, <2>3, FinishKeeps
<1>4. CASE Leave(n, c, s, Rest(n, c)) /\ callbacks' = callbacks
  BY <1>1, <1>2, <1>4, RestLeaves
<1> QED
  BY <1>2, <1>3, <1>4 DEF ActivateEnds

\* The answer to UNREGISTER: the application hears of it if it had heard of the stream.
LEMMA DisconnectEndsKeeps ==
    ASSUME Flow, NEW n \in Node, NEW c \in Client, DisconnectEnds(n, c)
    PROVE  Flow' /\ OnlyOne(n, c)
<1>1. /\ chain[n][c] # <<>> /\ mesh' = mesh /\ streams' = streams /\ Finish(n, c)
      /\ Head(chain[n][c]).kind = "disconnect"
  BY DEF DisconnectEnds, Answered
<1> DEFINE s == chain[n][c][1].s
<1>2. /\ Head(chain[n][c]) = chain[n][c][1] /\ s \in DOMAIN streams /\ Subject(n, c) = s
      /\ chain[n][c][1].kind = "disconnect" /\ ~Live(s)
      /\ streams[s].client = c
  BY <1>1, First DEF Subject
<1>3. CASE callbacks' = callbacks
  BY <1>1, <1>3, JobDone
<1>4. CASE Announce(n, c, "disconnected", s)
  <2>1. Heralds([kind |-> "disconnected", s |-> s, running |-> FALSE], streams, streams', n, c)
    BY <1>1, <1>2 DEF Heralds, Live
  <2>2. /\ callbacks' \in [Node -> [Client -> Seq(Callback)]] /\ OnlyAt(callbacks, callbacks', n, c)
        /\ CallbacksFit(callbacks'[n][c], streams', n, c)
    BY <1>2, <1>4, <2>1, Announced
  <2> QED
    BY <1>1, <1>2, <2>2, FinishKeeps
<1> QED
  BY <1>2, <1>3, <1>4 DEF DisconnectEnds

\* The end of any job.
LEMMA JobEndsKeep ==
    ASSUME Flow, NEW n \in Node, NEW c \in Client, JobEnds(n, c)
    PROVE  Flow' /\ OnlyOne(n, c)
<1>1. CASE ReserveEnds(n, c)
  <2>1. chain[n][c] # <<>> /\ mesh' = mesh /\ callbacks' = callbacks /\ Head(chain[n][c]).kind = "reserve"
    BY <1>1 DEF ReserveEnds, Answered
  <2>2. CASE Leave(n, c, Subject(n, c), Rest(n, c))
    BY <2>1, <2>2, RestLeaves
  <2>3. CASE Finish(n, c) /\ streams' = IF Live(Subject(n, c)) THEN [streams EXCEPT ![Subject(n, c)].step = "connecting"] ELSE streams
    BY <2>1, <2>3, JobDone
  <2> QED
    BY <1>1, <2>2, <2>3 DEF ReserveEnds
<1>2. CASE BackfillEnds(n, c)
  <2>1. chain[n][c] # <<>> /\ mesh' = mesh /\ callbacks' = callbacks /\ Head(chain[n][c]).kind = "backfill"
    BY <1>2 DEF BackfillEnds, Answered
  <2>2. CASE Leave(n, c, Subject(n, c), Rest(n, c))
    BY <2>1, <2>2, RestLeaves
  <2>3. CASE Finish(n, c) /\ UNCHANGED streams
    BY <2>1, <2>3, JobDone
  <2> QED
    BY <1>2, <2>2, <2>3 DEF BackfillEnds
<1> QED
  BY <1>1, <1>2, ActivateEndsKeeps, DisconnectEndsKeeps DEF JobEnds

\* The stream is activated, by way of the registry or at once.
LEMMA HandlersSettleKeeps ==
    ASSUME Flow, NEW s, HandlersSettle(s)
    PROVE  Flow' /\ OnlyOne(streams[s].node, streams[s].client)
<1>1. s \in DOMAIN streams /\ streams[s].step = "connecting" /\ streams[s] \in Stream /\ mesh' = mesh
  BY DEF HandlersSettle, Flow
<1>2. streams[s].node \in Node /\ streams[s].client \in Client
  BY <1>1 DEF Flow, StreamsFit, Stream
<1> DEFINE n == streams[s].node
           c == streams[s].client
<1>3. /\ n \in Node /\ c \in Client /\ streams[s].node = n /\ streams[s].client = c /\ s \in Here(streams, n, c)
      /\ \/ /\ streams' = [streams EXCEPT ![s].step = "announcing"]
            /\ Announce(n, c, "connected", s) /\ chain' = chain
         \/ /\ streams' = [streams EXCEPT ![s].step = "activating"]
            /\ chain' = [chain EXCEPT ![n][c] = Append(chain[n][c], NewJob("activate", s))]
            /\ callbacks' = callbacks
  BY <1>1, <1>2 DEF HandlersSettle, Here
<1> HIDE DEF n, c
<1>4. /\ chain[n][c] \in Seq(Job) /\ QueueFits(chain[n][c], streams, n, c, mesh[n])
      /\ callbacks[n][c] \in Seq(Callback) /\ CallbacksFit(callbacks[n][c], streams, n, c)
      /\ chain \in [Node -> [Client -> Seq(Job)]] /\ callbacks \in [Node -> [Client -> Seq(Callback)]]
      /\ Len(streams) <= MaxStreams
  BY <1>3 DEF Flow
<1>5. ASSUME NEW step \in {"announcing", "activating"}, streams' = [streams EXCEPT ![s].step = step]
      PROVE  /\ streams' \in Seq(Stream) /\ Len(streams') <= MaxStreams /\ StreamsFit(streams')
             /\ OnlyHere(streams, streams', n, c) /\ Here(streams', n, c) = Here(streams, n, c)
             /\ DOMAIN streams' = DOMAIN streams
             /\ streams'[s].step = step /\ streams'[s].client = c /\ streams'[s].node = n
             /\ \A t \in DOMAIN streams : t # s => streams'[t] = streams[t]
  <2> DEFINE new == [streams[s] EXCEPT !.step = step]
  <2>1. Turns(s, new)
    BY <1>5 DEF Turns
  <2>2. new \in Stream /\ new.client = c /\ new.node = n /\ new.step = step /\ new.step # "gone"
    BY <1>1, <1>3 DEF Stream, StreamState
  <2> HIDE DEF new
  <2>3. /\ streams' \in Seq(Stream) /\ Len(streams') = Len(streams) /\ StreamsFit(streams')
        /\ OnlyHere(streams, streams', n, c) /\ Here(streams', n, c) = Here(streams, n, c)
        /\ DOMAIN streams' = DOMAIN streams /\ streams'[s] = new
        /\ \A t \in DOMAIN streams : t # s => streams'[t] = streams[t]
    BY <1>3, <2>1, <2>2, StepIs
  <2> QED
    BY <1>4, <2>2, <2>3
<1>6. ASSUME streams' = [streams EXCEPT ![s].step = "announcing"] /\ Announce(n, c, "connected", s) /\ chain' = chain
      PROVE  Flow' /\ OnlyOne(n, c)
  <2>1. /\ streams' \in Seq(Stream) /\ Len(streams') <= MaxStreams /\ StreamsFit(streams')
        /\ OnlyHere(streams, streams', n, c) /\ DOMAIN streams' = DOMAIN streams
        /\ streams'[s].step = "announcing" /\ streams'[s].client = c /\ streams'[s].node = n
        /\ \A t \in DOMAIN streams : t # s => streams'[t] = streams[t]
    BY <1>5, <1>6
  <2>2. Heralds([kind |-> "connected", s |-> s, running |-> FALSE], streams, streams', n, c)
    BY <1>1, <1>3, <2>1 DEF Heralds
  <2>3. /\ callbacks' \in [Node -> [Client -> Seq(Callback)]] /\ OnlyAt(callbacks, callbacks', n, c)
        /\ CallbacksFit(callbacks'[n][c], streams', n, c)
    BY <1>1, <1>3, <1>6, <2>2, Announced
  <2>4. \A t \in DOMAIN streams :
              /\ streams'[t].client = streams[t].client /\ streams'[t].node = streams[t].node
              /\ \/ streams'[t].step = streams[t].step
                 \/ streams[t].step \in {"connecting", "announcing", "open"} /\ streams'[t].step \in {"announcing", "open"}
    BY <1>1, <1>3, <2>1
  <2>5. QueueFits(chain'[n][c], streams', n, c, mesh[n])
    <3>1. QueueFits(chain[n][c], streams', n, c, mesh[n])
      BY <1>4, <2>1, <2>4, StepFits
    <3> QED
      BY <1>6, <3>1
  <2>6. OnlyAt(chain, chain', n, c)
    BY <1>6, UnchangedIsOnly
  <2> QED
    BY <1>1, <1>3, <1>4, <1>6, <2>1, <2>3, <2>5, <2>6, PairKeeps
<1>7. ASSUME /\ streams' = [streams EXCEPT ![s].step = "activating"] /\ callbacks' = callbacks
             /\ chain' = [chain EXCEPT ![n][c] = Append(chain[n][c], NewJob("activate", s))]
      PROVE  Flow' /\ OnlyOne(n, c)
  <2>1. /\ streams' \in Seq(Stream) /\ Len(streams') <= MaxStreams /\ StreamsFit(streams')
        /\ OnlyHere(streams, streams', n, c) /\ DOMAIN streams' = DOMAIN streams
        /\ Here(streams', n, c) = Here(streams, n, c)
        /\ streams'[s].step = "activating" /\ streams'[s].client = c /\ streams'[s].node = n
        /\ \A t \in DOMAIN streams : t # s => streams'[t] = streams[t]
    BY <1>5, <1>7
  <2> DEFINE job == NewJob("activate", s)
  <2>2. job \in Job /\ job.s = s /\ job.reply = "queued" /\ job.kind = "activate" /\ ~job.active /\ s \in 1..MaxStreams
    BY <1>1, JobsTyped DEF NewJob
  <2>3. Queues(n, c, Append(chain[n][c], job))
    BY <1>7 DEF Queues
  <2> HIDE DEF job
  <2>4. Here(streams, n, c) = {s}
    BY <1>3, <1>4 DEF QueueFits, InTurn
  <2>5. Joins(streams, streams', n, c, s, job)
    BY <1>1, <1>3, <2>1, <2>2, <2>4 DEF Joins
  <2>6. Append(chain[n][c], job) \in Seq(Job) /\ QueueFits(Append(chain[n][c], job), streams', n, c, mesh[n])
    BY <1>4, <2>2, <2>5, JoinFits
  <2>7. /\ chain' \in [Node -> [Client -> Seq(Job)]] /\ OnlyAt(chain, chain', n, c)
        /\ chain'[n][c] = Append(chain[n][c], job)
    <3> DEFINE p == Append(chain[n][c], job)
    <3>1. Queues(n, c, p) /\ p \in Seq(Job)
      BY <2>3, <2>6
    <3> HIDE DEF p
    <3>2. /\ chain' \in [Node -> [Client -> Seq(Job)]] /\ OnlyAt(chain, chain', n, c) /\ chain'[n][c] = p
      BY <1>3, <3>1, PutJobs
    <3> QED
      BY <3>2 DEF p
  <2>8. CallbacksFit(callbacks[n][c], streams', n, c)
    <3>1. \A t \in DOMAIN streams :
              /\ streams'[t].client = streams[t].client
              /\ \/ streams'[t].step = "gone"
                 \/ /\ streams'[t].node = streams[t].node
                    /\ streams'[t].step = streams[t].step \/ streams[t].step \notin {"announcing", "gone"}
      BY <1>1, <1>3, <2>1
    <3> QED
      BY <1>4, <2>1, <3>1, CallbacksStay
  <2>9. OnlyAt(callbacks, callbacks', n, c)
    BY <1>7, UnchangedIsOnly
  <2> QED
    BY <1>1, <1>3, <1>4, <1>7, <2>1, <2>6, <2>7, <2>8, <2>9, PairKeeps
<1>8. Flow' /\ OnlyOne(n, c)
  BY <1>3, <1>6, <1>7
<1> QED
  BY <1>8 DEF n, c

\* A callback starts, is skipped, or returns.
LEMMA CallbackKeeps ==
    ASSUME Flow, NEW n \in Node, NEW c \in Client,
           CallbackStarts(n, c) \/ CallbackSkipped(n, c) \/ CallbackEnds(n, c)
    PROVE  Flow' /\ OnlyOne(n, c)
<1> DEFINE b == callbacks[n][c]
           s == b[1].s
<1>1. /\ b \in Seq(Callback) /\ b # <<>> /\ Len(b) \in Nat /\ Len(b) > 0 /\ Head(b) = b[1] /\ 1 \in 1..Len(b)
      /\ b[1] \in Callback /\ CallbacksFit(b, streams, n, c) /\ mesh' = mesh /\ chain' = chain
      /\ chain[n][c] \in Seq(Job) /\ QueueFits(chain[n][c], streams, n, c, mesh[n])
  <2>1. b \in Seq(Callback) /\ b # <<>>
    BY DEF Flow, CallbackStarts, CallbackSkipped, CallbackEnds, CallbackDue
  <2> QED
    BY <2>1 DEF Flow, CallbackStarts, CallbackSkipped, CallbackEnds
<1>2. /\ s \in DOMAIN streams /\ streams[s].client = c /\ streams[s] \in Stream
      /\ streams[s].step # "gone" => s \in Here(streams, n, c)
      /\ b[1].kind = "connected" => streams[s].step \in {"announcing", "gone"}
      /\ b[1].kind \in {"connected", "disconnected"}
  <2>1. /\ s \in DOMAIN streams /\ streams[s].client = c /\ (streams[s].step # "gone" => streams[s].node = n)
        /\ b[1].kind = "connected" /\ streams[s].step # "gone" => streams[s].step = "announcing"
    BY <1>1 DEF CallbacksFit
  <2> QED
    BY <1>1, <2>1 DEF Here, Flow, Callback
<1>3. CASE CallbackStarts(n, c)
  <2> DEFINE p == [b EXCEPT ![1].running = TRUE]
  <2>1. /\ b[1].kind = "connected" => Live(s)
        /\ callbacks' = [callbacks EXCEPT ![n][c][1].running = TRUE]
        /\ streams' = IF b[1].kind = "connected" THEN [streams EXCEPT ![s].published = TRUE] ELSE streams
    BY <1>1, <1>3 DEF CallbackStarts
  <2>2. Calls(n, c, p)
    BY <2>1 DEF Calls
  <2>3. /\ p \in Seq(Callback) /\ Len(p) = Len(b) /\ p[1].kind = b[1].kind /\ p[1].s = b[1].s
        /\ \A i \in 1..Len(b) : i > 1 => p[i] = b[i]
    <3>1. [b[1] EXCEPT !.running = TRUE] \in Callback /\ [b[1] EXCEPT !.running = TRUE].kind = b[1].kind
          /\ [b[1] EXCEPT !.running = TRUE].s = b[1].s
      BY <1>1 DEF Callback
    <3> QED
      BY <1>1, <3>1
  <2> HIDE DEF p
  <2>4. /\ callbacks' \in [Node -> [Client -> Seq(Callback)]] /\ OnlyAt(callbacks, callbacks', n, c) /\ callbacks'[n][c] = p
    BY <2>2, <2>3, PutCallbacks
  <2>5. /\ streams' \in Seq(Stream) /\ Len(streams') <= MaxStreams /\ StreamsFit(streams')
        /\ OnlyHere(streams, streams', n, c) /\ DOMAIN streams' = DOMAIN streams
        /\ \A t \in DOMAIN streams : streams'[t].client = streams[t].client /\ streams'[t].node = streams[t].node
                                     /\ streams'[t].step = streams[t].step
    <3>1. CASE b[1].kind # "connected"
      BY <2>1, <3>1, UnchangedIsOnly DEF Flow
    <3>2. CASE b[1].kind = "connected"
      <4> DEFINE new == [streams[s] EXCEPT !.published = TRUE]
      <4>1. Turns(s, new) /\ s \in Here(streams, n, c)
        BY <1>2, <2>1, <3>2 DEF Turns, Live
      <4>2. /\ new \in Stream /\ new.client = c /\ new.node = n /\ new.step # "gone" /\ new.step = streams[s].step
            /\ new.node = streams[s].node
        BY <1>2, <2>1, <3>2 DEF Stream, Live, Here
      <4> HIDE DEF new, s
      <4>3. /\ streams' \in Seq(Stream) /\ Len(streams') = Len(streams) /\ StreamsFit(streams')
            /\ OnlyHere(streams, streams', n, c) /\ DOMAIN streams' = DOMAIN streams
            /\ streams'[s] = new /\ \A t \in DOMAIN streams : t # s => streams'[t] = streams[t]
        BY <4>1, <4>2, StepIs
      <4> QED
        BY <1>2, <4>2, <4>3 DEF Flow
    <3> QED
      BY <3>1, <3>2
  <2>6. QueueFits(chain[n][c], streams', n, c, mesh[n])
    BY <1>1, <2>5, StepFits
  <2>7. CallbacksFit(p, streams', n, c)
    <3>1. \A i \in 1..Len(b) : p[i].kind = b[i].kind /\ p[i].s = b[i].s /\ (i > 1 => p[i].running = b[i].running)
      BY <1>1, <2>3
    <3>2. CallbacksFit(b, streams', n, c)
      BY <1>1, <2>5 DEF CallbacksFit
    <3> HIDE DEF b
    <3> QED
      BY <2>3, <3>1, <3>2 DEF CallbacksFit
  <2>8. OnlyAt(chain, chain', n, c)
    BY <1>1, UnchangedIsOnly
  <2> QED
    BY <1>1, <2>4, <2>5, <2>6, <2>7, <2>8, PairKeeps DEF Flow
<1>4. CASE CallbackSkipped(n, c) \/ CallbackEnds(n, c)
  <2>1. /\ Calls(n, c, Tail(b))
        /\ streams' = streams \/ (b[1].kind = "connected" /\ Live(s) /\ streams' = [streams EXCEPT ![s].step = "open"])
    BY <1>1, <1>4 DEF CallbackSkipped, CallbackEnds, Calls, Opened
  <2>2. Tail(b) \in Seq(Callback)
    BY <1>1
  <2>3. /\ callbacks' \in [Node -> [Client -> Seq(Callback)]] /\ OnlyAt(callbacks, callbacks', n, c)
        /\ callbacks'[n][c] = Tail(b)
    BY <2>1, <2>2, PutCallbacks
  <2>4. /\ streams' \in Seq(Stream) /\ Len(streams') <= MaxStreams /\ StreamsFit(streams')
        /\ OnlyHere(streams, streams', n, c) /\ DOMAIN streams' = DOMAIN streams
        /\ \A t \in DOMAIN streams :
              /\ streams'[t].client = streams[t].client /\ streams'[t].node = streams[t].node
              /\ \/ streams'[t].step = streams[t].step
                 \/ t = s /\ b[1].kind = "connected" /\ streams[t].step = "announcing" /\ streams'[t].step = "open"
    <3>1. CASE streams' = streams
      BY <3>1, UnchangedIsOnly DEF Flow
    <3>2. CASE b[1].kind = "connected" /\ Live(s) /\ streams' = [streams EXCEPT ![s].step = "open"]
      <4> DEFINE new == [streams[s] EXCEPT !.step = "open"]
      <4>1. Turns(s, new) /\ s \in Here(streams, n, c) /\ streams[s].step = "announcing"
        BY <1>2, <3>2 DEF Turns, Live
      <4>2. /\ new \in Stream /\ new.client = c /\ new.node = n /\ new.step = "open" /\ new.step # "gone"
            /\ new.node = streams[s].node
        BY <1>2, <3>2 DEF Stream, StreamState, Live, Here
      <4> HIDE DEF new, s
      <4>3. /\ streams' \in Seq(Stream) /\ Len(streams') = Len(streams) /\ StreamsFit(streams')
            /\ OnlyHere(streams, streams', n, c) /\ DOMAIN streams' = DOMAIN streams
            /\ streams'[s] = new /\ \A t \in DOMAIN streams : t # s => streams'[t] = streams[t]
        BY <4>1, <4>2, StepIs
      <4> QED
        BY <1>2, <3>2, <4>1, <4>2, <4>3 DEF Flow
    <3> QED
      BY <2>1, <3>1, <3>2
  <2>5. QueueFits(chain[n][c], streams', n, c, mesh[n])
    <3>1. \A t \in DOMAIN streams :
              /\ streams'[t].client = streams[t].client /\ streams'[t].node = streams[t].node
              /\ \/ streams'[t].step = streams[t].step
                 \/ streams[t].step \in {"connecting", "announcing", "open"} /\ streams'[t].step \in {"announcing", "open"}
      BY <2>4
    <3> QED
      BY <1>1, <2>4, <3>1, StepFits
  <2>6. CallbacksFit(Tail(b), streams', n, c)
    <3>1. \A t \in DOMAIN streams :
              /\ streams'[t].client = streams[t].client /\ streams'[t].node = streams[t].node
              /\ streams'[t].step = "gone" <=> streams[t].step = "gone"
              /\ ~(t = b[1].s /\ b[1].kind = "connected") => streams'[t].step = streams[t].step
      BY <2>4
    <3>2. Opens(b[1], streams, streams')
      BY <2>4, <3>1 DEF Opens
    <3> HIDE DEF b
    <3> QED
      BY <1>1, <3>2, CallbackDone
  <2>7. OnlyAt(chain, chain', n, c)
    BY <1>1, UnchangedIsOnly
  <2> QED
    BY <1>1, <2>3, <2>4, <2>5, <2>6, <2>7, PairKeeps DEF Flow
<1> QED
  BY <1>3, <1>4

\* What Redis answers.
LEMMA RedisKeeps ==
    ASSUME Flow, registry \in Registries, NEW n \in Node, NEW c \in Client, Execute(n, c) \/ Refuse(n, c)
    PROVE  Flow' /\ OnlyOne(n, c)
<1>1. chain[n][c] # <<>> /\ Head(chain[n][c]).reply = "sent" /\ mesh' = mesh /\ streams' = streams /\ callbacks' = callbacks
  BY DEF Execute, Refuse
<1>2. Owner(registry, c) \in Node \cup {NoNode}
  BY DEF Owner, Registries, Registration
<1>3. \E reply \in {"yes", "no", "error"}, old \in Node \cup {NoNode} : Answer(n, c, reply, old)
  <2>1. CASE Refuse(n, c)
    BY <2>1 DEF Refuse
  <2>2. CASE Execute(n, c)
    BY <1>2, <2>2 DEF Execute
  <2> QED
    BY <2>1, <2>2
<1>4. chain[n][c][1].reply = "sent"
  BY <1>1, First
<1> QED
  BY <1>1, <1>3, <1>4, AnswerKeeps

\* The connection of a dead process to Redis is closed.
LEMMA DisconnectKeeps ==
    ASSUME Flow, NEW n \in Node, NEW c \in Client, Disconnect(n, c), Here(streams, n, c) = {}
    PROVE  Flow'
<1>1. Queues(n, c, <<>>) /\ <<>> \in Seq(Job) /\ mesh' = mesh /\ streams' = streams /\ callbacks' = callbacks
  BY DEF Disconnect, Queues
<1>2. chain' \in [Node -> [Client -> Seq(Job)]] /\ chain'[n][c] = <<>> /\ OnlyAt(chain, chain', n, c)
  BY <1>1, PutJobs
<1>3. QueueFits(<<>>, streams, n, c, mesh[n])
  BY DEF QueueFits, JobsFit, OnceEach, InTurn, InLife
<1>4. OnlyAt(callbacks, callbacks', n, c) /\ OnlyHere(streams, streams', n, c)
  BY <1>1, UnchangedIsOnly
<1> QED
  BY <1>1, <1>2, <1>3, <1>4, PairKeeps DEF Flow

-----------------------------------------------------------------------------
(* The life of a node. *)

\* No stream is at a node that has died.
Buried == \A s \in DOMAIN streams : streams[s].node # NoNode => Up(streams[s].node)

\* The mesh of a node goes on, and what it has queued is as it must be.
LEMMA LifeKeeps ==
    ASSUME Flow, UNCHANGED <<streams, chain, callbacks>>,
           \A n \in Node, c \in Client : InLife(chain[n][c], mesh'[n])
    PROVE  Flow'
BY DEF Flow, QueueFits

\* The node itself has nothing queued once its mesh starts: whatever came before was done at once.
LEMMA MeshStartedKeeps ==
    ASSUME Flow, Drained, NEW n \in Node, MeshStarted(n), mesh \in [Node -> MeshState]
    PROVE  Flow'
<1>1. /\ streams' = streams /\ callbacks' = callbacks /\ mesh' = [mesh EXCEPT ![n] = "on"] /\ mesh[n] = "starting"
      /\ chain' = [chain EXCEPT ![n] =
                    [c \in Client |->
                        IF Current(n, c) = {} THEN @[c]
                        ELSE Append(@[c], NewJob("backfill", CHOOSE s \in Current(n, c) : TRUE))]]
  BY DEF MeshStarted
<1>2. \A c \in Client : chain[n][c] = <<>>
  <2> SUFFICES ASSUME NEW c \in Client, chain[n][c] # <<>> PROVE FALSE
    OBVIOUS
  <2>1. Head(chain[n][c]).reply # "queued"
    BY <1>1 DEF Drained, Up
  <2>2. Head(chain[n][c]) = chain[n][c][1] /\ 1 \in 1..Len(chain[n][c]) /\ QueueFits(chain[n][c], streams, n, c, mesh[n])
    BY First
  <2> QED
    BY <1>1, <2>1, <2>2 DEF QueueFits, InLife
<1>3. ASSUME NEW c \in Client
      PROVE  /\ chain'[n][c] \in Seq(Job)
             /\ QueueFits(chain'[n][c], streams, n, c, "on")
  <2>1. QueueFits(<<>>, streams, n, c, "starting")
    BY <1>1, <1>2 DEF Flow
  <2>2. chain'[n][c] = IF Current(n, c) = {} THEN <<>> ELSE Append(<<>>, NewJob("backfill", CHOOSE s \in Current(n, c) : TRUE))
    <3> DEFINE s(d) == CHOOSE s \in Current(n, d) : TRUE
    <3> HIDE DEF s
    <3>1. chain' = [chain EXCEPT ![n] =
                      [d \in Client |-> IF Current(n, d) = {} THEN @[d] ELSE Append(@[d], NewJob("backfill", s(d)))]]
      BY <1>1 DEF s
    <3>2. chain'[n] = [d \in Client |-> IF Current(n, d) = {} THEN chain[n][d] ELSE Append(chain[n][d], NewJob("backfill", s(d)))]
      BY <3>1 DEF Flow
    <3>3. chain'[n][c] = IF Current(n, c) = {} THEN <<>> ELSE Append(<<>>, NewJob("backfill", s(c)))
      BY <1>2, <3>2
    <3> QED
      BY <3>3 DEF s
  <2>3. CASE Current(n, c) = {}
    BY <2>1, <2>2, <2>3 DEF QueueFits, InLife
  <2>4. CASE Current(n, c) # {}
    <3> DEFINE s == CHOOSE s \in Current(n, c) : TRUE
               job == NewJob("backfill", s)
    <3>1. s \in Here(streams, n, c) /\ s \in DOMAIN streams /\ streams[s].client = c /\ streams[s].node = n
      BY <2>4 DEF Current, Here
    <3> HIDE DEF s
    <3>2. /\ job \in Job /\ job.s = s /\ job.kind = "backfill" /\ job.reply = "queued"
      BY <3>1, JobsTyped DEF NewJob
    <3>3. chain'[n][c] = Append(<<>>, job)
      BY <2>2, <2>4 DEF s
    <3> HIDE DEF job
    <3> DEFINE p == chain'[n][c]
    <3>4. p \in Seq(Job) /\ Len(p) = 1 /\ p[1] = job
      BY <3>2, <3>3
    <3> HIDE DEF p
    <3>5. JobsFit(p, streams, n, c) /\ OnceEach(p)
      BY <3>1, <3>2, <3>4 DEF JobsFit, OnceEach
    <3>6. \A t \in Here(streams, n, c) : s = t /\ streams[t].step # "checking"
      BY <2>1, <3>1 DEF QueueFits, InTurn
    <3>7. InTurn(p, streams, n, c)
      BY <3>2, <3>4, <3>6 DEF InTurn
    <3>8. InLife(p, "on")
      BY DEF InLife
    <3> QED
      BY <3>4, <3>5, <3>7, <3>8 DEF QueueFits, p
  <2> QED
    BY <2>3, <2>4
<1>4. \A m \in Node, c \in Client : m # n => chain'[m][c] = chain[m][c] /\ mesh'[m] = mesh[m]
  BY <1>1 DEF Flow
<1>5. mesh'[n] = "on"
  BY <1>1
<1>6. chain' \in [Node -> [Client -> Seq(Job)]]
  <2> DEFINE f == [c \in Client |->
                        IF Current(n, c) = {} THEN chain[n][c]
                        ELSE Append(chain[n][c], NewJob("backfill", CHOOSE s \in Current(n, c) : TRUE))]
  <2>1. chain' = [chain EXCEPT ![n] = f] /\ chain'[n] = f
    BY <1>1 DEF Flow
  <2>2. f = [c \in Client |-> f[c]]
    OBVIOUS
  <2> HIDE DEF f
  <2>3. \A c \in Client : f[c] \in Seq(Job)
    BY <1>3, <2>1
  <2>4. f \in [Client -> Seq(Job)]
    BY <2>2, <2>3
  <2> QED
    BY <2>1, <2>4 DEF Flow
<1>7. ASSUME NEW m \in Node, NEW c \in Client PROVE QueueFits(chain'[m][c], streams', m, c, mesh'[m])
  <2>1. CASE m = n
    BY <1>1, <1>3, <1>5, <2>1
  <2>2. CASE m # n
    BY <1>1, <1>4, <2>2 DEF Flow
  <2> QED
    BY <2>1, <2>2
<1>8. \A m \in Node, c \in Client : CallbacksFit(callbacks'[m][c], streams', m, c)
  BY <1>1 DEF Flow
<1>9. /\ streams' \in Seq(Stream) /\ Len(streams') <= MaxStreams /\ StreamsFit(streams')
      /\ callbacks' \in [Node -> [Client -> Seq(Callback)]]
  BY <1>1 DEF Flow
<1> QED
  BY <1>6, <1>7, <1>8, <1>9 DEF Flow

\* A process dies: its streams go, and only what it has sent is left of its queues.
LEMMA CrashKeeps ==
    ASSUME Flow, NEW n \in Node, Crash(n), mesh \in [Node -> MeshState]
    PROVE  Flow'
<1>0. NoNode \notin Node
  BY RegistryAssumption
<1>1. /\ mesh' = [mesh EXCEPT ![n] = "dead"]
      /\ streams' = [s \in DOMAIN streams |-> IF streams[s].node = n THEN Gone(streams[s]) ELSE streams[s]]
      /\ chain' = [chain EXCEPT ![n] = [c \in Client |->
                     IF @[c] # <<>> /\ Head(@[c]).reply = "sent" THEN <<Head(@[c])>> ELSE <<>>]]
      /\ callbacks' = [callbacks EXCEPT ![n] = [c \in Client |-> <<>>]]
  BY DEF Crash
<1>2. /\ streams \in Seq(Stream) /\ Len(streams) <= MaxStreams /\ StreamsFit(streams)
      /\ DOMAIN streams = 1..Len(streams) /\ Len(streams) \in Nat
  BY DEF Flow
<1>3. \A s \in DOMAIN streams : /\ streams[s] \in Stream
                                /\ Gone(streams[s]) \in Stream /\ Gone(streams[s]).step = "gone"
                                /\ Gone(streams[s]).node = NoNode /\ Gone(streams[s]).client = streams[s].client
  <2>1. \A x \in Stream : /\ Gone(x) \in Stream /\ Gone(x).step = "gone"
                           /\ Gone(x).node = NoNode /\ Gone(x).client = x.client
    BY DEF Gone, Stream, StreamState
  <2> QED
    BY <1>2, <2>1
<1>4. /\ DOMAIN streams' = DOMAIN streams
      /\ \A s \in DOMAIN streams : streams'[s] = IF streams[s].node = n THEN Gone(streams[s]) ELSE streams[s]
  BY <1>1
<1>5. streams' \in Seq(Stream) /\ Len(streams') = Len(streams)
  <2>1. \A s \in 1..Len(streams) : streams'[s] \in Stream
    BY <1>2, <1>3, <1>4
  <2>2. streams' \in [1..Len(streams) -> Stream]
    BY <1>1, <1>2, <2>1
  <2> QED
    BY <1>2, <2>2
<1>6. StreamsFit(streams')
  BY <1>0, <1>2, <1>3, <1>4 DEF StreamsFit
<1>7. ASSUME NEW m \in Node, NEW c \in Client, m # n PROVE SameFor(streams, streams', m, c)
  BY <1>0, <1>2, <1>3, <1>4, <1>7 DEF SameFor, Here, StreamsFit
<1>8. \A c \in Client : Here(streams', n, c) = {}
  BY <1>0, <1>3, <1>4 DEF Here
<1>9. ASSUME NEW c \in Client
      PROVE  /\ chain'[n][c] \in Seq(Job) /\ QueueFits(chain'[n][c], streams', n, c, "dead")
             /\ callbacks'[n][c] = <<>>
  <2>1. callbacks'[n][c] = <<>> /\ chain'[n][c] = IF chain[n][c] # <<>> /\ Head(chain[n][c]).reply = "sent" THEN <<Head(chain[n][c])>> ELSE <<>>
    BY <1>1 DEF Flow
  <2>2. CASE chain'[n][c] = <<>>
    <3>1. QueueFits(<<>>, streams', n, c, "dead")
      BY <1>8 DEF QueueFits, JobsFit, OnceEach, InTurn, InLife
    <3>2. <<>> \in Seq(Job) /\ callbacks'[n][c] = <<>>
      BY <2>1
    <3> QED
      BY <2>2, <3>1, <3>2
  <2>3. CASE chain[n][c] # <<>> /\ chain'[n][c] = <<Head(chain[n][c])>>
    <3> DEFINE job == chain[n][c][1]
               p == chain'[n][c]
    <3>1. job \in Job /\ QueueFits(chain[n][c], streams, n, c, mesh[n]) /\ p = <<job>> /\ 1 \in 1..Len(chain[n][c])
      BY <2>3, First
    <3>2. /\ job.s \in DOMAIN streams /\ streams[job.s].client = c
          /\ streams[job.s].step # "gone" => streams[job.s].node = n
          /\ job.kind = "reserve" => ~job.active
      BY <3>1 DEF QueueFits, JobsFit
    <3> HIDE DEF job, p
    <3>3. p \in Seq(Job) /\ Len(p) = 1 /\ p[1] = job
      BY <3>1
    <3>4. streams'[job.s].step = "gone" /\ streams'[job.s].client = c /\ job.s \in DOMAIN streams'
      BY <1>3, <1>4, <3>2
    <3>5. JobsFit(p, streams', n, c) /\ OnceEach(p) /\ InLife(p, "dead")
      BY <3>2, <3>3, <3>4 DEF JobsFit, OnceEach, InLife
    <3>6. InTurn(p, streams', n, c)
      BY <1>8 DEF InTurn
    <3> QED
      BY <2>1, <3>3, <3>5, <3>6 DEF QueueFits, p
  <2> QED
    BY <2>1, <2>2, <2>3
<1>10. \A m \in Node, c \in Client : m # n =>
          chain'[m][c] = chain[m][c] /\ callbacks'[m][c] = callbacks[m][c] /\ mesh'[m] = mesh[m]
  BY <1>1 DEF Flow
<1>11. chain' \in [Node -> [Client -> Seq(Job)]] /\ callbacks' \in [Node -> [Client -> Seq(Callback)]]
  <2> DEFINE f == [c \in Client |-> IF chain[n][c] # <<>> /\ Head(chain[n][c]).reply = "sent" THEN <<Head(chain[n][c])>> ELSE <<>>]
  <2>1. chain' = [chain EXCEPT ![n] = f] /\ chain'[n] = f
    BY <1>1 DEF Flow
  <2>2. f = [c \in Client |-> f[c]]
    OBVIOUS
  <2> HIDE DEF f
  <2>3. \A c \in Client : f[c] \in Seq(Job)
    BY <1>9, <2>1
  <2>4. f \in [Client -> Seq(Job)]
    BY <2>2, <2>3
  <2>5. [c \in Client |-> <<>>] \in [Client -> Seq(Callback)]
    OBVIOUS
  <2> QED
    BY <1>1, <2>1, <2>4, <2>5 DEF Flow
<1>12. mesh'[n] = "dead"
  BY <1>1
<1>13. Len(streams') <= MaxStreams
  BY <1>2, <1>5
<1> SUFFICES ASSUME NEW m \in Node, NEW c \in Client
             PROVE  /\ QueueFits(chain'[m][c], streams', m, c, mesh'[m])
                    /\ CallbacksFit(callbacks'[m][c], streams', m, c)
  BY <1>5, <1>6, <1>11, <1>13 DEF Flow
<1>14. CASE m = n
  <2>1. CallbacksFit(<<>>, streams', n, c)
    BY DEF CallbacksFit
  <2> QED
    BY <1>9, <1>12, <1>14, <2>1
<1>15. CASE m # n
  <2>1. SameFor(streams, streams', m, c)
    BY <1>7, <1>15
  <2>2. /\ chain[m][c] \in Seq(Job) /\ QueueFits(chain[m][c], streams, m, c, mesh[m])
        /\ callbacks[m][c] \in Seq(Callback) /\ CallbacksFit(callbacks[m][c], streams, m, c)
    BY DEF Flow
  <2>3. QueueFits(chain[m][c], streams', m, c, mesh[m]) /\ CallbacksFit(callbacks[m][c], streams', m, c)
    BY <2>1, <2>2, OtherFits, OtherCallbacksFit
  <2> QED
    BY <1>10, <1>15, <2>3
<1> QED
  BY <1>14, <1>15

-----------------------------------------------------------------------------
(* The types of what else there is. *)

\* The variables that are only flags, counters and sets.
Types ==
    /\ mesh \in [Node -> MeshState]
    /\ listed \subseteq Node
    /\ duty \in [Node -> SUBSET Node]
    /\ told \in [Node -> [Client -> [kind : {"none", "connected", "disconnected"}, s : 0..MaxStreams]]]
    /\ kicks \subseteq Kick
    /\ faults \in Nat /\ ticks \in Nat

\* What holds whatever fails.
Base == IInv /\ Types /\ Flow /\ Buried

\* A kick goes to a node that REGISTER took the client from.
LEMMA KickTyped ==
    ASSUME Flow, kicks \subseteq Kick, NEW n \in Node, NEW c \in Client, chain[n][c] # <<>>, KickOld(n, c)
    PROVE  kicks' \subseteq Kick
<1>1. chain[n][c][1] \in Job /\ Head(chain[n][c]) = chain[n][c][1]
  BY First
<1>2. Head(chain[n][c]).old \in Node \cup {NoNode}
  BY <1>1 DEF Job
<1> QED
  BY <1>2 DEF KickOld, Kick

\* The variables that no proof needs more of keep their types.
LEMMA TypesKeep ==
    ASSUME Base, [Next]_vars
    PROVE  Types'
<1> USE DEF Base
<1>1. CASE UNCHANGED <<mesh, listed, duty, told, kicks, faults, ticks>>
  BY <1>1 DEF Types
<1>2. ASSUME NEW n \in Node, NEW c \in Client, Microtask(n, c) PROVE Types'
  <2>1. CASE CallbackStarts(n, c)
    <3>1. callbacks[n][c] # <<>> /\ callbacks[n][c] \in Seq(Callback)
      BY <2>1 DEF CallbackStarts, CallbackDue, Flow
    <3>2. Head(callbacks[n][c]) \in Callback
      BY <3>1
    <3>3. [kind |-> Head(callbacks[n][c]).kind, s |-> Head(callbacks[n][c]).s]
             \in [kind : {"none", "connected", "disconnected"}, s : 0..MaxStreams]
      BY <3>2, ClientsAssumption DEF Callback
    <3>4. told' = [told EXCEPT ![n][c] = [kind |-> Head(callbacks[n][c]).kind, s |-> Head(callbacks[n][c]).s]]
          /\ UNCHANGED <<mesh, listed, duty, kicks, faults, ticks>>
      BY <2>1 DEF CallbackStarts
    <3> QED
      BY <3>3, <3>4 DEF Types
  <2>2. CASE ~CallbackStarts(n, c)
    BY <1>1, <1>2, <2>2 DEF Microtask, JobStarts, ReserveStarts, ActivateStarts, DisconnectStarts, BackfillStarts, CallbackSkipped
  <2> QED
    BY <2>1, <2>2
<1>3. CASE Tick
  BY <1>3 DEF Types, Tick
<1>4. ASSUME NEW s, Drop(s) \/ HandlersSettle(s) PROVE Types'
  BY <1>1, <1>4 DEF Drop, HandlersSettle
<1>5. ASSUME NEW k \in kicks, Kicked(k) \/ KickLost(k) PROVE Types'
  BY <1>5 DEF Types, Kicked, KickLost, Fault
<1>6. ASSUME NEW n \in Node, MeshEvent(n) PROVE Types'
  <2>1. mesh' \in [Node -> MeshState]
    BY <1>6 DEF Types, MeshEvent, MeshStarting, MeshStarted, MeshStops, CleanupOwn, MeshClosed, Crash, MeshState
  <2>2. listed' \subseteq Node /\ told' = told /\ kicks' = kicks /\ ticks' = ticks /\ (faults' = faults \/ faults' = faults + 1)
    BY <1>6 DEF Types, MeshEvent, MeshStarting, MeshStarted, MeshStops, CleanupOwn, MeshClosed, Crash, Fault
  <2>3. duty' = duty \/ duty' = [duty EXCEPT ![n] = {}]
    BY <1>6 DEF MeshEvent, MeshStarting, MeshStarted, MeshStops, CleanupOwn, MeshClosed, Crash
  <2>4. duty' \in [Node -> SUBSET Node]
    BY <2>3 DEF Types
  <2> QED
    BY <2>1, <2>2, <2>4 DEF Types
<1>7. ASSUME NEW m \in Node, NEW n \in Node, Expire(m, n) \/ CleanUp(m, n) PROVE Types'
  <2>1. duty' \in [Node -> SUBSET Node]
    BY <1>7 DEF Types, Expire, CleanUp
  <2>2. listed' \subseteq Node /\ UNCHANGED <<mesh, told, kicks, ticks>> /\ (faults' = faults \/ faults' = faults + 1)
    BY <1>7 DEF Types, Expire, CleanUp, Fault
  <2> QED
    BY <2>1, <2>2 DEF Types
<1>8. ASSUME NEW n \in Node, NEW c \in Client, ClientEvent(n, c) PROVE Types'
  <2>1. CASE ReserveEnds(n, c) \/ BackfillEnds(n, c)
    <3>1. chain[n][c] # <<>> /\ (KickOld(n, c) \/ kicks' = kicks) /\ UNCHANGED <<mesh, listed, duty, told, faults, ticks>>
      BY <2>1 DEF ReserveEnds, BackfillEnds, Answered
    <3>2. kicks' \subseteq Kick
      BY <3>1, KickTyped DEF Types
    <3> QED
      BY <3>1, <3>2 DEF Types
  <2>2. CASE Refuse(n, c)
    BY <2>2 DEF Refuse, Types, Fault
  <2>3. CASE ~ReserveEnds(n, c) /\ ~BackfillEnds(n, c) /\ ~Refuse(n, c)
    BY <1>1, <1>8, <2>3 DEF ClientEvent, Connect, JobEnds, ActivateEnds, DisconnectEnds, CallbackEnds, Execute, Disconnect
  <2> QED
    BY <2>1, <2>2, <2>3
<1>9. CASE UNCHANGED vars
  BY <1>1, <1>9 DEF vars
<1> QED
  BY <1>2, <1>3, <1>4, <1>5, <1>6, <1>7, <1>8, <1>9 DEF Next, Event

\* The streams after a client has connected.
LEMMA ConnectStreams ==
    ASSUME Flow, NEW n \in Node, NEW c \in Client, NEW polite \in BOOLEAN, Connect(n, c, polite)
    PROVE  LET s == Len(streams) + 1 IN
           /\ DOMAIN streams' = DOMAIN streams \cup {s} /\ s \notin DOMAIN streams /\ s \in 1..MaxStreams
           /\ streams'[s] = [client |-> c, node |-> n, polite |-> polite, step |-> "checking", published |-> FALSE]
           /\ \A t \in DOMAIN streams :
                 streams'[t] = IF t \in Here(streams, n, c) THEN Gone(streams[t]) ELSE streams[t]
<1> DEFINE kept == [t \in DOMAIN streams |-> IF t \in Current(n, c) THEN Gone(streams[t]) ELSE streams[t]]
           new == [client |-> c, node |-> n, polite |-> polite, step |-> "checking", published |-> FALSE]
<1>1. streams' = Append(kept, new) /\ Len(streams) < MaxStreams
  BY DEF Connect
<1>2. Current(n, c) = Here(streams, n, c)
  BY DEF Current, Here
<1>3. \A x \in Stream : Gone(x) \in Stream
  BY DEF Gone, Stream, StreamState
<1>4. streams \in Seq(Stream) /\ Len(streams) \in Nat /\ DOMAIN streams = 1..Len(streams)
  BY DEF Flow
<1>5. kept \in Seq(Stream) /\ Len(kept) = Len(streams)
  <2>1. \A t \in 1..Len(streams) : kept[t] \in Stream
    BY <1>3, <1>4
  <2> QED
    BY <1>4, <2>1
<1>6. \A t \in DOMAIN streams : kept[t] = IF t \in Here(streams, n, c) THEN Gone(streams[t]) ELSE streams[t]
  BY <1>2
<1>7. new \in Stream
  BY DEF Stream, StreamState
<1> HIDE DEF kept, new
<1>8. /\ DOMAIN streams' = 1..(Len(streams) + 1) /\ streams'[Len(streams) + 1] = new
      /\ \A t \in 1..Len(streams) : streams'[t] = kept[t]
  BY <1>1, <1>4, <1>5, <1>7
<1> QED
  BY <1>1, <1>4, <1>6, <1>8, ClientsAssumption DEF new

\* The stream s goes, or remains where it is.
Stays(s) ==
    /\ s \in DOMAIN streams' /\ streams'[s].client = streams[s].client
    /\ streams'[s].node \in {streams[s].node, NoNode}

\* Whatever happens to a stream, it remains the client's, and where it is until it goes.
LEMMA StreamsStay ==
    ASSUME Flow, [Next]_vars, NEW s \in DOMAIN streams
    PROVE  Stays(s)
<1>0. streams \in Seq(Stream) /\ streams[s] \in Stream /\ Gone(streams[s]).client = streams[s].client
      /\ Gone(streams[s]).node = NoNode /\ Len(streams) \in Nat
  <2>1. \A x \in Stream : Gone(x).node = NoNode /\ Gone(x).client = x.client
    BY DEF Gone, Stream
  <2>2. streams \in Seq(Stream) /\ streams[s] \in Stream /\ Len(streams) \in Nat
    BY DEF Flow
  <2> QED
    BY <2>1, <2>2
<1>1. CASE streams' = streams
  BY <1>1 DEF Stays
<1>2. ASSUME NEW t, streams' = [streams EXCEPT ![t] = Gone(@)] PROVE Stays(s)
  BY <1>0, <1>2 DEF Stays
<1>3. ASSUME NEW t, NEW step, streams' = [streams EXCEPT ![t].step = step] PROVE Stays(s)
  BY <1>0, <1>3 DEF Stays, Stream
<1>4. ASSUME NEW t, streams' = [streams EXCEPT ![t].published = TRUE] PROVE Stays(s)
  BY <1>0, <1>4 DEF Stays, Stream
<1>5. ASSUME NEW n \in Node, NEW c \in Client, Microtask(n, c) PROVE Stays(s)
  BY <1>1, <1>2, <1>3, <1>4, <1>5
     DEF Microtask, JobStarts, ReserveStarts, ActivateStarts, DisconnectStarts, BackfillStarts, Leave,
         CallbackStarts, CallbackSkipped, Opened
<1>6. ASSUME NEW t, Drop(t) \/ HandlersSettle(t) PROVE Stays(s)
  BY <1>1, <1>2, <1>3, <1>6 DEF Drop, HandlersSettle, Leave
<1>7. ASSUME NEW k \in kicks, Kicked(k) \/ KickLost(k) PROVE Stays(s)
  BY <1>1, <1>2, <1>7 DEF Kicked, KickLost, Leave
<1>8. ASSUME NEW n \in Node, MeshEvent(n) PROVE Stays(s)
  <2>1. CASE Crash(n)
    BY <1>0, <2>1 DEF Crash, Stays
  <2> QED
    BY <1>1, <1>8, <2>1 DEF MeshEvent, MeshStarting, MeshStarted, MeshStops, CleanupOwn, MeshClosed
<1>9. ASSUME NEW n \in Node, NEW c \in Client, NEW polite \in BOOLEAN, Connect(n, c, polite) PROVE Stays(s)
  BY <1>0, <1>9, ConnectStreams DEF Stays
<1>10. ASSUME NEW n \in Node, NEW c \in Client, JobEnds(n, c) PROVE Stays(s)
  BY <1>1, <1>2, <1>3, <1>10 DEF JobEnds, ReserveEnds, ActivateEnds, DisconnectEnds, BackfillEnds, Leave
<1>11. ASSUME NEW n \in Node, NEW c \in Client, CallbackEnds(n, c) \/ Execute(n, c) \/ Refuse(n, c) \/ Disconnect(n, c) PROVE Stays(s)
  BY <1>1, <1>3, <1>11 DEF CallbackEnds, Opened, Execute, Refuse, Disconnect
<1>12. CASE Tick
  BY <1>1, <1>12 DEF Tick
<1>13. ASSUME NEW m \in Node, NEW n \in Node, Expire(m, n) \/ CleanUp(m, n) PROVE Stays(s)
  BY <1>1, <1>13 DEF Expire, CleanUp
<1>14. CASE UNCHANGED vars
  BY <1>1, <1>14 DEF vars
<1> QED
  BY <1>5, <1>6, <1>7, <1>8, <1>9, <1>10, <1>11, <1>12, <1>13, <1>14 DEF Next, Event, ClientEvent

\* The streams are as many as before, unless a client connects.
LEMMA StreamsRemain ==
    ASSUME Flow, [Next]_vars,
           \A n \in Node, c \in Client, polite \in BOOLEAN : ~(Drained /\ Connect(n, c, polite))
    PROVE  DOMAIN streams' = DOMAIN streams
<1>1. ASSUME NEW n \in Node, NEW c \in Client, Microtask(n, c) PROVE DOMAIN streams' = DOMAIN streams
  BY <1>1
     DEF Microtask, JobStarts, ReserveStarts, ActivateStarts, DisconnectStarts, BackfillStarts, Leave,
         CallbackStarts, CallbackSkipped, Opened
<1>2. ASSUME NEW t, Drop(t) \/ HandlersSettle(t) PROVE DOMAIN streams' = DOMAIN streams
  BY <1>2 DEF Drop, HandlersSettle, Leave
<1>3. ASSUME NEW k \in kicks, Kicked(k) \/ KickLost(k) PROVE DOMAIN streams' = DOMAIN streams
  BY <1>3 DEF Kicked, KickLost, Leave
<1>4. ASSUME NEW n \in Node, MeshEvent(n) PROVE DOMAIN streams' = DOMAIN streams
  BY <1>4 DEF MeshEvent, MeshStarting, MeshStarted, MeshStops, CleanupOwn, MeshClosed, Crash
<1>5. ASSUME NEW n \in Node, NEW c \in Client, JobEnds(n, c) PROVE DOMAIN streams' = DOMAIN streams
  BY <1>5 DEF JobEnds, ReserveEnds, ActivateEnds, DisconnectEnds, BackfillEnds, Leave
<1>6. ASSUME NEW n \in Node, NEW c \in Client, CallbackEnds(n, c) \/ Execute(n, c) \/ Refuse(n, c) \/ Disconnect(n, c)
      PROVE  DOMAIN streams' = DOMAIN streams
  BY <1>6 DEF CallbackEnds, Opened, Execute, Refuse, Disconnect
<1>7. CASE Tick
  BY <1>7 DEF Tick
<1>8. ASSUME NEW m \in Node, NEW n \in Node, Expire(m, n) \/ CleanUp(m, n) PROVE DOMAIN streams' = DOMAIN streams
  BY <1>8 DEF Expire, CleanUp
<1>9. CASE UNCHANGED vars
  BY <1>9 DEF vars
<1> QED
  BY <1>1, <1>2, <1>3, <1>4, <1>5, <1>6, <1>7, <1>8, <1>9 DEF Next, Event, ClientEvent

\* Only a crash kills a node.
LEMMA UpRemains ==
    ASSUME Types, [Next]_vars, NEW n \in Node, Up(n), ~Crash(n)
    PROVE  mesh'[n] # "dead"
<1>1. CASE mesh' = mesh
  BY <1>1 DEF Up
<1>2. ASSUME NEW m \in Node, NEW life, life # "dead", mesh' = [mesh EXCEPT ![m] = life] PROVE mesh'[n] # "dead"
  BY <1>2 DEF Up, Types
<1>3. ASSUME NEW m \in Node, MeshEvent(m) PROVE mesh'[n] # "dead"
  <2>1. CASE Crash(m)
    BY <2>1 DEF Crash, Types, Up
  <2> QED
    BY <1>1, <1>2, <1>3, <2>1 DEF MeshEvent, MeshStarting, MeshStarted, MeshStops, CleanupOwn, MeshClosed
<1>4. ASSUME NEW m \in Node, NEW c \in Client, Microtask(m, c) PROVE mesh' = mesh
  BY <1>4 DEF Microtask, JobStarts, ReserveStarts, ActivateStarts, DisconnectStarts, BackfillStarts,
              CallbackStarts, CallbackSkipped
<1>5. ASSUME NEW m \in Node, NEW c \in Client, ClientEvent(m, c) PROVE mesh' = mesh
  BY <1>5 DEF ClientEvent, Connect, JobEnds, ReserveEnds, ActivateEnds, DisconnectEnds, BackfillEnds,
              CallbackEnds, Execute, Refuse, Disconnect
<1>6. ASSUME NEW s, Drop(s) \/ HandlersSettle(s) PROVE mesh' = mesh
  BY <1>6 DEF Drop, HandlersSettle
<1>7. ASSUME NEW k \in kicks, Kicked(k) \/ KickLost(k) PROVE mesh' = mesh
  BY <1>7 DEF Kicked, KickLost
<1>8. ASSUME NEW m \in Node, NEW l \in Node, Expire(l, m) \/ CleanUp(l, m) PROVE mesh' = mesh
  BY <1>8 DEF Expire, CleanUp
<1>9. CASE Tick \/ UNCHANGED vars
  BY <1>1, <1>9 DEF Tick, vars
<1> QED
  BY <1>1, <1>3, <1>4, <1>5, <1>6, <1>7, <1>8, <1>9 DEF Next, Event

\* The streams of a process die with it.
LEMMA BuriedKeeps ==
    ASSUME Base, [Next]_vars
    PROVE  Buried'
<1> USE DEF Base
<1>0. NoNode \notin Node
  BY RegistryAssumption
<1> SUFFICES ASSUME NEW s \in DOMAIN streams', streams'[s].node # NoNode
             PROVE  mesh'[streams'[s].node] # "dead"
  BY DEF Buried, Up
<1>1. CASE s \in DOMAIN streams
  <2> DEFINE n == streams[s].node
  <2>1. streams'[s].node = n /\ n # NoNode /\ n \in Node /\ Up(n)
    <3>1. streams[s] \in Stream /\ streams'[s].node \in {streams[s].node, NoNode}
      BY <1>1, StreamsStay DEF Stays, Flow
    <3>2. streams[s].node \in Node \cup {NoNode}
      BY <3>1 DEF Stream
    <3> QED
      BY <1>1, <3>1, <3>2 DEF Buried
  <2>2. CASE Crash(n)
    <3>1. streams'[s] = Gone(streams[s])
      BY <1>1, <2>2 DEF Crash
    <3>2. streams'[s].node = NoNode
      BY <1>1, <3>1 DEF Gone, Flow, Stream
    <3> QED
      BY <3>2
  <2>3. CASE ~Crash(n)
    BY <2>1, <2>3, UpRemains
  <2> QED
    BY <2>2, <2>3
<1>2. CASE s \notin DOMAIN streams
  <2>1. PICK n \in Node, c \in Client, polite \in BOOLEAN : Drained /\ Connect(n, c, polite)
    BY <1>2, StreamsRemain
  <2>2. streams'[s].node = n
    <3>1. /\ DOMAIN streams' = DOMAIN streams \cup {Len(streams) + 1}
          /\ streams'[Len(streams) + 1] = [client |-> c, node |-> n, polite |-> polite, step |-> "checking", published |-> FALSE]
      BY <2>1, ConnectStreams
    <3> QED
      BY <1>2, <3>1
  <2>3. Up(n) /\ mesh' = mesh
    BY <2>1 DEF Connect
  <2> QED
    BY <2>2, <2>3 DEF Up
<1> QED
  BY <1>1, <1>2

\* Nothing that happens to one client at one node, or to a node, disturbs the chains, the
\* callbacks and the streams.
LEMMA FlowKeeps ==
    ASSUME Base, [Next]_vars
    PROVE  Flow'
<1> USE DEF Base
<1>1. CASE UNCHANGED <<streams, chain, callbacks, mesh>>
  BY <1>1 DEF Flow
<1>2. ASSUME NEW n \in Node, NEW c \in Client, Microtask(n, c) PROVE Flow'
  BY <1>2, JobStartsKeep, CallbackKeeps DEF Microtask
<1>3. ASSUME NEW s, Drop(s) \/ HandlersSettle(s) PROVE Flow'
  BY <1>3, DropKeeps, HandlersSettleKeeps
<1>4. ASSUME NEW k \in kicks, Kicked(k) \/ KickLost(k) PROVE Flow'
  <2>1. CASE KickLost(k)
    BY <1>1, <2>1 DEF KickLost
  <2> QED
    BY <1>4, <2>1, KickedKeeps DEF Types
<1>5. ASSUME Drained, NEW n \in Node, MeshEvent(n) PROVE Flow'
  <2>1. CASE MeshStarting(n) \/ MeshStops(n) \/ MeshClosed(n) \/ CleanupOwn(n)
    <3>1. UNCHANGED <<streams, chain, callbacks>>
      BY <2>1 DEF MeshStarting, MeshStops, MeshClosed, CleanupOwn
    <3>2. ASSUME NEW m \in Node, NEW c \in Client PROVE InLife(chain[m][c], mesh'[m])
      <4>1. InLife(chain[m][c], mesh[m])
        BY DEF Flow, QueueFits
      <4>2. CASE m # n
        <5>1. mesh'[m] = mesh[m]
          BY <2>1, <4>2 DEF MeshStarting, MeshStops, MeshClosed, CleanupOwn, Types
        <5> QED
          BY <4>1, <5>1
      <4>3. CASE m = n
        <5>1. CASE CleanupOwn(n)
          <6>1. chain[m][c] = <<>>
            BY <4>3, <5>1 DEF CleanupOwn
          <6> QED
            BY <6>1 DEF InLife
        <5>2. CASE MeshStarting(n)
          BY <4>1, <4>3, <5>2 DEF MeshStarting, Types, InLife
        <5>3. CASE MeshStops(n)
          BY <4>1, <4>3, <5>3 DEF MeshStops, Types, InLife
        <5>4. CASE MeshClosed(n)
          BY <4>1, <4>3, <5>4 DEF MeshClosed, Types, InLife
        <5> QED
          BY <2>1, <5>1, <5>2, <5>3, <5>4
      <4> QED
        BY <4>2, <4>3
    <3> QED
      BY <3>1, <3>2, LifeKeeps
  <2>2. CASE MeshStarted(n)
    BY <1>5, <2>2, MeshStartedKeeps DEF Types
  <2>3. CASE Crash(n)
    BY <2>3, CrashKeeps DEF Types
  <2> QED
    BY <1>5, <2>1, <2>2, <2>3 DEF MeshEvent
<1>6. ASSUME NEW n \in Node, NEW c \in Client, ClientEvent(n, c) PROVE Flow'
  <2>1. CASE Disconnect(n, c)
    <3>1. Here(streams, n, c) = {}
      BY <2>1, RegistryAssumption DEF Disconnect, Buried, Here
    <3> QED
      BY <2>1, <3>1, DisconnectKeeps
  <2> QED
    BY <1>6, <2>1, ConnectKeeps, JobEndsKeep, CallbackKeeps, RedisKeeps DEF ClientEvent, IInv
<1>7. CASE Tick \/ UNCHANGED vars
  BY <1>1, <1>7 DEF Tick, vars
<1>8. ASSUME NEW m \in Node, NEW n \in Node, Expire(m, n) \/ CleanUp(m, n) PROVE Flow'
  BY <1>1, <1>8 DEF Expire, CleanUp
<1> QED
  BY <1>2, <1>3, <1>4, <1>5, <1>6, <1>7, <1>8 DEF Next, Event

\* Nothing is connected, queued or registered at first.
LEMMA BaseStarts ==
    ASSUME Init
    PROVE  Base
<1>1. IInv
  BY InitEstablishes
<1>2. Types
  BY ClientsAssumption DEF Init, Types, MeshState
<1>3. streams = <<>> /\ streams \in Seq(Stream) /\ Len(streams) = 0 /\ DOMAIN streams = {}
  BY DEF Init
<1>4. \A n \in Node, c \in Client : chain[n][c] = <<>> /\ callbacks[n][c] = <<>>
  BY DEF Init
<1>5. chain \in [Node -> [Client -> Seq(Job)]] /\ callbacks \in [Node -> [Client -> Seq(Callback)]]
  <2>1. <<>> \in Seq(Job) /\ <<>> \in Seq(Callback)
    OBVIOUS
  <2> QED
    BY <2>1 DEF Init
<1>6. \A n, c, life : QueueFits(<<>>, streams, n, c, life) /\ CallbacksFit(<<>>, streams, n, c)
  BY <1>3 DEF QueueFits, JobsFit, OnceEach, InTurn, InLife, CallbacksFit, Here
<1>7. Flow
  BY <1>3, <1>4, <1>5, <1>6, ClientsAssumption DEF Flow, StreamsFit
<1>8. Buried
  BY <1>3 DEF Buried
<1> QED
  BY <1>1, <1>2, <1>7, <1>8 DEF Base

\* Each part of the invariant is kept, given the others before the step.
LEMMA BaseKeeps ==
    ASSUME Base, [Next]_vars
    PROVE  Base'
<1>1. IInv'
  BY NextKeeps DEF Base
<1> QED
  BY <1>1, TypesKeep, FlowKeeps, BuriedKeeps DEF Base

\* What the model says of the types of its variables holds.
THEOREM ClientsTyped == Spec => []TypeOK
<1>1. Base => TypeOK
  BY DEF Base, IInv, Types, Flow, TypeOK
<1>2. Base /\ [Next]_vars => Base'
  BY BaseKeeps
<1> QED
  BY <1>1, <1>2, BaseStarts, PTL DEF Spec

-----------------------------------------------------------------------------
(* What the registry says of a client, e, and what its node n has in mind with it, q.  free are *)
(* the nodes that have been asked, or will be, to let the client go.                           *)

\* The stream has not been activated.
Early(st, s) == st[s].step \in {"checking", "connecting"}

\* A claim on the client for its stream s is on its way.
Holds(q, s) == \E i \in 1..Len(q) : Takes(q[i]) /\ q[i].s = s /\ q[i].reply # "yes"

\* What the registry says of the stream s may be overtaken.
Waits(q, s) == \E i \in 1..Len(q) : q[i].s = s /\ q[i].kind # "disconnect" /\ q[i].reply # "yes"

\* No answer was an error.
Flawless(q) == \A i \in 1..Len(q) : q[i].reply # "error"

\* The farewell of a stream has not been answered yet.
LetsGo(q) == \E i \in 1..Len(q) : q[i].kind = "disconnect" /\ q[i].reply \in {"queued", "sent"}

\* REGISTER is on its way to Redis.
Claiming(q) == Len(q) > 0 /\ Takes(q[1]) /\ q[1].reply = "sent"

\* A registration that outlives the stream is about to be removed; that of a stream is there, on
\* its way, or lost to a node that has this one let the stream go; it tells whether the stream is
\* active; and a backfill that has been sent told so, too.
PairFits(q, st, n, c, e, free) ==
    /\ Flawless(q)
    /\ Here(st, n, c) = {} /\ (e.node = n \/ Claiming(q)) => LetsGo(q)
    /\ \A s \in Here(st, n, c) :
          /\ e.node = n \/ Holds(q, s) \/ n \in free
          /\ e.node = n => Waits(q, s) \/ e.state = IF Early(st, s) THEN "pending" ELSE "active"
    /\ \A i \in 1..Len(q) : q[i].kind = "backfill" /\ q[i].reply # "queued" /\ st[q[i].s].step # "gone" =>
          /\ q[i].active => ~Early(st, q[i].s)
          /\ ~q[i].active => \/ Early(st, q[i].s)
                             \/ \E k \in 1..Len(q) : q[k].kind = "activate" /\ q[k].s = q[i].s /\ q[k].reply = "queued"

\* Another node may take the client, or let it go, and the streams of others do not matter.
LEMMA OthersPair ==
    ASSUME NEW q \in Seq(Job), NEW st, NEW st2, NEW n, NEW c, NEW life, NEW e, NEW e2, NEW free, NEW free2,
           QueueFits(q, st, n, c, life), SameFor(st, st2, n, c), PairFits(q, st, n, c, e, free),
           n \in free => n \in free2,
           e2 = e \/ (e2.node # n /\ (e.node = n => n \in free2))
    PROVE  PairFits(q, st2, n, c, e2, free2)
<1>1. /\ Here(st2, n, c) = Here(st, n, c)
      /\ \A s \in Here(st, n, c) : Early(st2, s) <=> Early(st, s)
  BY DEF SameFor, Here, Early
<1>2. \A i \in 1..Len(q) : (Early(st2, q[i].s) <=> Early(st, q[i].s)) /\ (st2[q[i].s].step = "gone" <=> st[q[i].s].step = "gone")
  BY DEF SameFor, QueueFits, JobsFit, Early
<1>3. Here(st2, n, c) = {} /\ (e2.node = n \/ Claiming(q)) => LetsGo(q)
  BY <1>1 DEF PairFits
<1>4. \A s \in Here(st2, n, c) :
          /\ e2.node = n \/ Holds(q, s) \/ n \in free2
          /\ e2.node = n => Waits(q, s) \/ e2.state = IF Early(st2, s) THEN "pending" ELSE "active"
  BY <1>1 DEF PairFits
<1>5. \A i \in 1..Len(q) : q[i].kind = "backfill" /\ q[i].reply # "queued" /\ st2[q[i].s].step # "gone" =>
          /\ q[i].active => ~Early(st2, q[i].s)
          /\ ~q[i].active => \/ Early(st2, q[i].s)
                             \/ \E k \in 1..Len(q) : q[k].kind = "activate" /\ q[k].s = q[i].s /\ q[k].reply = "queued"
  BY <1>2 DEF PairFits
<1> QED
  BY <1>3, <1>4, <1>5 DEF PairFits

\* The client leaves the node, which will remove its registration.
LEMMA LeavePair ==
    ASSUME NEW q \in Seq(Job), NEW p \in Seq(Job), NEW st, NEW st2, NEW n, NEW c, NEW e, NEW free2, NEW life, NEW s,
           QueueFits(q, st, n, c, life), QueueFits(p, st2, n, c, life), Here(st2, n, c) = {}, EndsWith(q, p, s),
           Flawless(q)
    PROVE  PairFits(p, st2, n, c, e, free2)
<1>1. Len(p) \in Nat /\ Len(q) \in Nat /\ Len(p) > 0
  BY DEF EndsWith, Passes
<1>2. LetsGo(p)
  BY <1>1 DEF EndsWith, LetsGo
<1>3. \A i \in 1..Len(p) : st2[p[i].s].step = "gone"
  BY DEF QueueFits, JobsFit, Here
<1>4. Flawless(p)
  <2>1. PICK d \in {0, 1} : d <= Len(q) /\ Passes(q, p, d, 1)
    BY DEF EndsWith
  <2>2. p[Len(p)].reply = "queued"
    BY DEF EndsWith
  <2>3. ASSUME NEW i \in 1..Len(p), i # Len(p) PROVE p[i].reply # "error"
    <3>1. i + d \in 1..Len(q) /\ i + d > d /\ (i + d) - d = i
      BY <1>1, <2>1, <2>3 DEF Passes
    <3>2. p[(i + d) - d] = q[i + d]
      BY <2>1, <3>1 DEF Passes
    <3> QED
      BY <3>1, <3>2 DEF Flawless
  <2> QED
    BY <2>2, <2>3 DEF Flawless
<1> QED
  BY <1>2, <1>3, <1>4 DEF PairFits

\* A client connects, and is to be reserved.
LEMMA JoinPair ==
    ASSUME NEW q \in Seq(Job), NEW p \in Seq(Job), NEW st2, NEW n, NEW c, NEW e, NEW free2, NEW life, NEW s,
           QueueFits(p, st2, n, c, life), Here(st2, n, c) = {s}, Len(p) > 0,
           p[Len(p)].kind = "reserve", p[Len(p)].s = s, p[Len(p)].reply = "queued",
           \A i \in 1..Len(p) : p[i].kind = "backfill" => p[i].s # s,
           Flawless(p)
    PROVE  PairFits(p, st2, n, c, e, free2)
<1>1. Len(p) \in Nat /\ Len(p) \in 1..Len(p)
  OBVIOUS
<1>2. Holds(p, s) /\ Waits(p, s)
  BY <1>1 DEF Holds, Waits, Takes
<1>3. \A i \in 1..Len(p) : p[i].kind = "backfill" => st2[p[i].s].step = "gone"
  <2> SUFFICES ASSUME NEW i \in 1..Len(p), p[i].kind = "backfill", st2[p[i].s].step # "gone" PROVE FALSE
    OBVIOUS
  <2>1. p[i].s \in DOMAIN st2 /\ st2[p[i].s].client = c /\ st2[p[i].s].node = n
    BY DEF QueueFits, JobsFit
  <2>2. p[i].s \in Here(st2, n, c)
    BY <2>1 DEF Here
  <2> QED
    BY <2>2
<1> QED
  BY <1>2, <1>3 DEF PairFits

\* A stream takes a step, between being connected and active only with a job behind it to tell.
LEMMA StepPair ==
    ASSUME NEW q \in Seq(Job), NEW st, NEW st2, NEW n, NEW c, NEW e, NEW free, NEW life,
           QueueFits(q, st, n, c, life), PairFits(q, st, n, c, e, free), DOMAIN st2 = DOMAIN st,
           \A s \in DOMAIN st : /\ st2[s].client = st[s].client /\ st2[s].node = st[s].node
                                /\ st2[s].step = "gone" <=> st[s].step = "gone"
                                /\ Early(st2, s) <=> Early(st, s)
    PROVE  PairFits(q, st2, n, c, e, free)
<1>1. /\ Here(st2, n, c) = Here(st, n, c)
      /\ \A s \in Here(st, n, c) : Early(st2, s) <=> Early(st, s)
  BY DEF Here
<1>2. \A i \in 1..Len(q) : (Early(st2, q[i].s) <=> Early(st, q[i].s)) /\ (st2[q[i].s].step = "gone" <=> st[q[i].s].step = "gone")
  BY DEF QueueFits, JobsFit
<1>3. Here(st2, n, c) = {} /\ (e.node = n \/ Claiming(q)) => LetsGo(q)
  BY <1>1 DEF PairFits
<1>4. \A s \in Here(st2, n, c) :
          /\ e.node = n \/ Holds(q, s) \/ n \in free
          /\ e.node = n => Waits(q, s) \/ e.state = IF Early(st2, s) THEN "pending" ELSE "active"
  BY <1>1 DEF PairFits
<1>5. \A i \in 1..Len(q) : q[i].kind = "backfill" /\ q[i].reply # "queued" /\ st2[q[i].s].step # "gone" =>
          /\ q[i].active => ~Early(st2, q[i].s)
          /\ ~q[i].active => \/ Early(st2, q[i].s)
                             \/ \E k \in 1..Len(q) : q[k].kind = "activate" /\ q[k].s = q[i].s /\ q[k].reply = "queued"
  BY <1>2 DEF PairFits
<1> QED
  BY <1>3, <1>4, <1>5 DEF PairFits

\* A stream is to be activated.
LEMMA ActivatePair ==
    ASSUME NEW q \in Seq(Job), NEW st, NEW st2, NEW n, NEW c, NEW e, NEW free, NEW life, NEW s,
           NEW job \in Job, QueueFits(q, st, n, c, life), PairFits(q, st, n, c, e, free),
           Joins(st, st2, n, c, s, job), job.kind = "activate", Here(st, n, c) = {s}
    PROVE  PairFits(Append(q, job), st2, n, c, e, free)
<1> DEFINE p == Append(q, job)
<1>1. /\ p \in Seq(Job) /\ Len(q) \in Nat /\ Len(p) = Len(q) + 1 /\ p[Len(q) + 1] = job
      /\ \A i \in 1..Len(q) : p[i] = q[i] /\ i \in 1..Len(p)
      /\ \A i \in 1..Len(p) : i \in 1..Len(q) \/ i = Len(q) + 1
      /\ Len(q) + 1 \in 1..Len(p)
  OBVIOUS
<1> HIDE DEF p
<1>2. job.s = s /\ job.reply = "queued" /\ Here(st2, n, c) = {s} /\ st2[s].step = "activating"
  BY DEF Joins
<1>3. \A t : Holds(q, t) => Holds(p, t)
  BY <1>1 DEF Holds
<1>4. Waits(p, s)
  BY <1>1, <1>2 DEF Waits
<1>5. ~Early(st2, s)
  BY <1>2 DEF Early
<1>6. ASSUME NEW i \in 1..Len(p), p[i].kind = "backfill", st2[p[i].s].step # "gone"
      PROVE  p[i].s = s
  <2>1. i \in 1..Len(q) /\ p[i] = q[i]
    BY <1>1, <1>6
  <2>2. q[i].s \in DOMAIN st /\ st[q[i].s].client = c /\ (st[q[i].s].step # "gone" => st[q[i].s].node = n)
    BY <2>1 DEF QueueFits, JobsFit
  <2>3. q[i].s # s => st2[q[i].s] = st[q[i].s]
    BY <2>2 DEF Joins
  <2>4. q[i].s # s => q[i].s \in Here(st, n, c)
    BY <1>6, <2>1, <2>2, <2>3 DEF Here
  <2> QED
    BY <2>1, <2>4
<1>7. \A i \in 1..Len(p) : p[i].kind = "backfill" /\ p[i].reply # "queued" /\ st2[p[i].s].step # "gone" =>
          /\ p[i].active => ~Early(st2, p[i].s)
          /\ ~p[i].active => \/ Early(st2, p[i].s)
                             \/ \E k \in 1..Len(p) : p[k].kind = "activate" /\ p[k].s = p[i].s /\ p[k].reply = "queued"
  BY <1>1, <1>2, <1>5, <1>6
<1>8. \A t \in Here(st2, n, c) :
          /\ e.node = n \/ Holds(p, t) \/ n \in free
          /\ e.node = n => Waits(p, t) \/ e.state = IF Early(st2, t) THEN "pending" ELSE "active"
  BY <1>2, <1>3, <1>4 DEF PairFits
<1>9. Flawless(p)
  BY <1>1, <1>2 DEF PairFits, Flawless
<1> QED
  BY <1>2, <1>7, <1>8, <1>9 DEF PairFits, p

\* The first job is done: it has let the client go, or claimed it, or its stream is not there.
LEMMA PopPair ==
    ASSUME NEW q \in Seq(Job), NEW st, NEW st2, NEW n, NEW c, NEW e, NEW free, NEW free2, NEW life,
           QueueFits(q, st, n, c, life), PairFits(q, st, n, c, e, free), q # <<>>,
           Advanced(st, st2, q[1].s), \A s \in DOMAIN st : Early(st2, s) <=> Early(st, s),
           n \in free => n \in free2,
           q[1].kind = "disconnect" => Here(st, n, c) # {} \/ q[1].reply \notin {"queued", "sent"},
           q[1].kind # "disconnect" => q[1].reply = "yes" \/ q[1].s \notin Here(st, n, c)
    PROVE  PairFits(Tail(q), st2, n, c, e, free2)
<1> DEFINE p == Tail(q)
<1>1. p \in Seq(Job) /\ Len(p) = Len(q) - 1 /\ Len(q) > 0 /\ Len(q) \in Nat /\ Len(p) \in Nat
      /\ \A i \in 1..Len(p) : i + 1 \in 1..Len(q) /\ p[i] = q[i + 1] /\ i + 1 > 1
  BY TailPasses DEF Passes
<1>2. \A i \in 1..Len(q) : i # 1 => i - 1 \in 1..Len(p) /\ p[i - 1] = q[i]
  BY TailPasses, <1>1 DEF Passes
<1> HIDE DEF p
<1>3. \A i \in 1..Len(p) : p[i].reply = "queued"
  BY <1>1 DEF QueueFits, JobsFit
<1>4. /\ Here(st2, n, c) = Here(st, n, c)
      /\ \A s \in Here(st, n, c) : Early(st2, s) <=> Early(st, s)
  BY DEF Here, Advanced
<1>5. ~Claiming(p)
  BY <1>1, <1>3 DEF Claiming
<1>6. Here(st, n, c) = {} /\ LetsGo(q) => LetsGo(p)
  BY <1>2 DEF LetsGo
<1>7. \A s \in Here(st, n, c) : Holds(q, s) => Holds(p, s)
  BY <1>2 DEF Holds, Takes
<1>8. \A s \in Here(st, n, c) : Waits(q, s) => Waits(p, s)
  BY <1>2 DEF Waits
<1>9. \A s \in Here(st2, n, c) :
          /\ e.node = n \/ Holds(p, s) \/ n \in free2
          /\ e.node = n => Waits(p, s) \/ e.state = IF Early(st2, s) THEN "pending" ELSE "active"
  BY <1>4, <1>7, <1>8 DEF PairFits
<1>10. Here(st2, n, c) = {} /\ (e.node = n \/ Claiming(p)) => LetsGo(p)
  BY <1>4, <1>5, <1>6 DEF PairFits
<1>11. Flawless(p)
  BY <1>3 DEF Flawless
<1> QED
  BY <1>3, <1>9, <1>10, <1>11 DEF PairFits, p

\* The first job of the queue q becomes another one of its kind.
Heads(q, p) ==
    /\ Len(q) > 0 /\ Len(p) = Len(q)
    /\ \A i \in 1..Len(q) : i # 1 => p[i] = q[i]
    /\ p[1].kind = q[1].kind /\ p[1].s = q[1].s

\* It is sent.
LEMMA SendPair ==
    ASSUME NEW q \in Seq(Job), NEW p \in Seq(Job), NEW st, NEW n, NEW c, NEW e, NEW free, NEW life,
           QueueFits(q, st, n, c, life), PairFits(q, st, n, c, e, free), Heads(q, p),
           q[1].reply = "queued", p[1].reply = "sent",
           Takes(q[1]) => Here(st, n, c) # {},
           q[1].kind = "backfill" => p[1].active = ~Early(st, q[1].s)
    PROVE  PairFits(p, st, n, c, e, free)
<1>0. /\ Len(q) > 0 /\ Len(p) = Len(q) /\ 1 \in 1..Len(q) /\ 1..Len(p) = 1..Len(q)
      /\ \A i \in 1..Len(q) : i # 1 => p[i] = q[i]
      /\ p[1].kind = q[1].kind /\ p[1].s = q[1].s
  BY DEF Heads
<1>1. LetsGo(q) => LetsGo(p)
  BY <1>0 DEF LetsGo
<1>2. \A s : (Holds(q, s) => Holds(p, s)) /\ (Waits(q, s) => Waits(p, s))
  BY <1>0 DEF Holds, Waits, Takes
<1>3. Here(st, n, c) = {} => ~Claiming(p)
  BY <1>0 DEF Claiming, Takes
<1>4. \A i \in 1..Len(q) : i # 1 => q[i].reply = "queued"
  BY DEF QueueFits, JobsFit
<1>5. \A i \in 1..Len(p) : p[i].kind = "backfill" /\ p[i].reply # "queued" => i = 1
  BY <1>0, <1>4
<1>6. \A i \in 1..Len(p) : p[i].kind = "backfill" /\ p[i].reply # "queued" /\ st[p[i].s].step # "gone" =>
          /\ p[i].active => ~Early(st, p[i].s)
          /\ ~p[i].active => \/ Early(st, p[i].s)
                             \/ \E k \in 1..Len(p) : p[k].kind = "activate" /\ p[k].s = p[i].s /\ p[k].reply = "queued"
  BY <1>0, <1>5
<1>7. \A s \in Here(st, n, c) :
          /\ e.node = n \/ Holds(p, s) \/ n \in free
          /\ e.node = n => Waits(p, s) \/ e.state = IF Early(st, s) THEN "pending" ELSE "active"
  BY <1>2 DEF PairFits
<1>8. Flawless(p)
  BY <1>0, <1>4 DEF Flawless
<1> QED
  BY <1>1, <1>3, <1>6, <1>7, <1>8 DEF PairFits

\* It is answered: the registry has changed accordingly, from e to e2.
Grants(job, n, e, e2) ==
    \/ Takes(job) /\ e2 = [node |-> n, state |-> IF job.active THEN "active" ELSE "pending"]
    \/ job.kind = "activate" /\ e.node = n /\ e2 = [node |-> n, state |-> "active"]
    \/ job.kind = "disconnect" /\ e.node = n /\ e2.node # n

\* A script that refuses: ACTIVATE and UNREGISTER do so when the node is not the owner.
Denies(job, n, e, e2) == e2 = e /\ (~Takes(job) => e.node # n)

\* Whatever the script of the first job answers, the pair fits what it has made of the registry.
LEMMA AnswerPair ==
    ASSUME NEW q \in Seq(Job), NEW p \in Seq(Job), NEW st, NEW n \in Node, NEW c, StreamsFit(st), NEW e, NEW e2, NEW free, NEW free2, NEW life,
           QueueFits(q, st, n, c, life), PairFits(q, st, n, c, e, free), Heads(q, p),
           q[1].reply = "sent", p[1].active = q[1].active, n \in free => n \in free2,
           \/ p[1].reply = "yes" /\ Grants(q[1], n, e, e2)
           \/ p[1].reply = "no" /\ Denies(q[1], n, e, e2)
    PROVE  PairFits(p, st, n, c, e2, free2)
<1>0. /\ Len(q) > 0 /\ Len(p) = Len(q) /\ 1 \in 1..Len(q) /\ 1..Len(p) = 1..Len(q)
      /\ \A i \in 1..Len(q) : i # 1 => p[i] = q[i]
      /\ p[1].kind = q[1].kind /\ p[1].s = q[1].s
  BY DEF Heads
<1>1. \A i \in 1..Len(q) : i # 1 => q[i].reply = "queued" /\ p[i].reply = "queued"
  BY <1>0 DEF QueueFits, JobsFit
<1>2. \A i \in 1..Len(p) : p[i].kind = "backfill" /\ p[i].reply # "queued" /\ st[p[i].s].step # "gone" =>
          /\ p[i].active => ~Early(st, p[i].s)
          /\ ~p[i].active => \/ Early(st, p[i].s)
                             \/ \E k \in 1..Len(p) : p[k].kind = "activate" /\ p[k].s = p[i].s /\ p[k].reply = "queued"
  <2>1. \A i \in 1..Len(p) : p[i].kind = "backfill" /\ p[i].reply # "queued" => i = 1
    BY <1>0, <1>1
  <2>2. q[1].kind = "backfill" /\ st[q[1].s].step # "gone" =>
          /\ q[1].active => ~Early(st, q[1].s)
          /\ ~q[1].active => \/ Early(st, q[1].s)
                             \/ \E k \in 1..Len(q) : q[k].kind = "activate" /\ q[k].s = q[1].s /\ q[k].reply = "queued"
    BY <1>0 DEF PairFits
  <2>3. \A k \in 1..Len(q) : q[k].kind = "activate" /\ q[k].reply = "queued" => k \in 1..Len(p) /\ p[k] = q[k]
    BY <1>0
  <2> QED
    BY <1>0, <2>1, <2>2, <2>3
<1>3. q[1].kind \in {"reserve", "backfill", "activate", "disconnect"}
  <2>1. q[1] \in Job
    BY <1>0
  <2> QED
    BY <2>1 DEF Job
<1>4. ~Claiming(p)
  BY DEF Claiming
<1>5. Here(st, n, c) = {} /\ e2.node = n => LetsGo(p)
  <2> SUFFICES ASSUME Here(st, n, c) = {}, e2.node = n PROVE LetsGo(p)
    OBVIOUS
  <2>1. q[1].kind # "disconnect"
    BY DEF Grants, Denies, Takes
  <2>2. e.node = n \/ Claiming(q)
    BY <1>0 DEF Grants, Denies, Takes, Claiming
  <2>3. LetsGo(q)
    BY <2>2 DEF PairFits
  <2> QED
    BY <1>0, <2>1, <2>3 DEF LetsGo
\* The stream that is here is the one of the job, or a claim for it is still to come.
<1>6. ASSUME NEW s \in Here(st, n, c), q[1].s # s PROVE Holds(p, s) /\ Waits(p, s)
  <2>1. PICK k \in 1..Len(q) : k > 1 /\ Takes(q[k]) /\ q[k].s = s
    BY <1>0, <1>6 DEF QueueFits, InTurn
  <2>2. k \in 1..Len(p) /\ p[k] = q[k] /\ p[k].reply = "queued"
    BY <1>0, <1>1, <2>1
  <2> QED
    BY <2>1, <2>2 DEF Holds, Waits, Takes
<1>7. ASSUME NEW s \in Here(st, n, c), q[1].s = s
      PROVE  /\ e2.node = n \/ Holds(p, s) \/ n \in free2
             /\ e2.node = n => Waits(p, s) \/ e2.state = IF Early(st, s) THEN "pending" ELSE "active"
  <2>0. s \in DOMAIN st /\ st[s].step # "gone"
    BY RegistryAssumption DEF Here, StreamsFit
  <2>1. /\ q[1].kind # "disconnect"
        /\ q[1].kind = "reserve" => ~q[1].active /\ st[s].step = "checking"
        /\ q[1].kind = "activate" => st[s].step = "activating"
    BY <1>0, <1>7, <2>0 DEF QueueFits, JobsFit
  <2>2. CASE Takes(q[1]) /\ Grants(q[1], n, e, e2)
    <3>1. e2.node = n /\ e2.state = IF q[1].active THEN "active" ELSE "pending"
      BY <2>2 DEF Grants, Takes
    <3>2. CASE q[1].kind = "reserve"
      BY <2>1, <3>1, <3>2 DEF Early
    <3>3. CASE q[1].kind = "backfill"
      <4>1. /\ q[1].active => ~Early(st, s)
            /\ ~q[1].active => \/ Early(st, s)
                               \/ \E k \in 1..Len(q) : q[k].kind = "activate" /\ q[k].s = s /\ q[k].reply = "queued"
        BY <1>0, <1>7, <2>0, <3>3 DEF PairFits
      <4>2. (\E k \in 1..Len(q) : q[k].kind = "activate" /\ q[k].s = s /\ q[k].reply = "queued") => Waits(p, s)
        BY <1>0, <3>3 DEF Waits
      <4> QED
        BY <3>1, <4>1, <4>2
    <3> QED
      BY <2>2, <3>2, <3>3 DEF Takes
  <2>3. CASE Takes(q[1]) /\ p[1].reply = "no"
    BY <1>0, <1>7, <2>1, <2>3 DEF Holds, Waits, Takes
  <2>4. CASE q[1].kind = "activate" /\ Grants(q[1], n, e, e2)
    BY <2>1, <2>4 DEF Grants, Takes, Early
  <2>5. CASE q[1].kind = "activate" /\ Denies(q[1], n, e, e2)
    <3>1. e2.node # n /\ e.node # n
      BY <2>5 DEF Denies, Takes
    <3>2. Holds(q, s) => Holds(p, s)
      BY <1>0, <2>5 DEF Holds, Takes
    <3> QED
      BY <3>1, <3>2 DEF PairFits
  <2> QED
    BY <1>3, <2>1, <2>2, <2>3, <2>4, <2>5 DEF Takes
<1>8. Flawless(p)
  BY <1>0, <1>1 DEF Flawless
<1> QED
  BY <1>2, <1>4, <1>5, <1>6, <1>7, <1>8 DEF PairFits

-----------------------------------------------------------------------------
(* No key of the registry expires before left ticks have passed: a script refreshes the keys of *)
(* the client that it is for.                                                                   *)

\* Every registration is in the set of its node, and all the keys have left ticks to live.
FreshFor(reg, left) ==
    /\ \A c \in Client : reg.hash[c].node # NoNode =>
          c \in reg.members[reg.hash[c].node] /\ reg.hashTtl >= left
    /\ \A n \in Node : reg.members[n] # {} => reg.memberTtl[n] >= left

\* The time that has passed is all that the keys have lost.
Fresh == ticks <= MaxTicks /\ FreshFor(registry, KeyTtl - ticks)

\* A key that has not vanished keeps its time to live.
LEMMA TidyFresh ==
    ASSUME NEW reg \in Registries, NEW left \in Int, FreshFor(reg, left)
    PROVE  FreshFor(Tidy(reg), left)
<1>1. \A c \in Client : reg.hash[c].node # NoNode => reg.hash[c] # Absent
  BY DEF Absent
<1>2. /\ Tidy(reg).hash = reg.hash /\ Tidy(reg).members = reg.members
      /\ (\E c \in Client : reg.hash[c] # Absent) => Tidy(reg).hashTtl = reg.hashTtl
      /\ \A n \in Node : reg.members[n] # {} => Tidy(reg).memberTtl[n] = reg.memberTtl[n]
  BY DEF Tidy
<1> QED
  BY <1>1, <1>2 DEF FreshFor

\* REGISTER refreshes the hash and the set of the client's node.
LEMMA RegisterFresh ==
    ASSUME NEW reg \in Registries, NEW left \in Int, left <= KeyTtl, FreshFor(reg, left),
           NEW c \in Client, NEW n \in Node, NEW state \in {"pending", "active"}
    PROVE  /\ FreshFor(Register(reg, c, n, state), left)
           /\ Register(reg, c, n, state).hash = [reg.hash EXCEPT ![c] = [node |-> n, state |-> state]]
<1> DEFINE moved ==
        [hash      |-> [reg.hash EXCEPT ![c] = [node |-> n, state |-> state]],
         hashTtl   |-> KeyTtl,
         members   |-> [m \in Node |-> IF m = n THEN reg.members[m] \cup {c}
                                       ELSE IF m = Owner(reg, c) THEN reg.members[m] \ {c}
                                       ELSE reg.members[m]],
         memberTtl |-> [reg.memberTtl EXCEPT ![n] = KeyTtl]]
<1>1. moved \in Registries
  BY RegistryAssumption DEF Registries, Registration
<1>2. ASSUME NEW d \in Client, moved.hash[d].node # NoNode PROVE d \in moved.members[moved.hash[d].node]
  <2>1. CASE d = c
    BY <2>1 DEF Registries
  <2>2. CASE d # c
    <3>1. moved.hash[d] = reg.hash[d] /\ reg.hash[d].node \in Node
      BY <1>2, <2>2 DEF Registries, Registration
    <3>2. d \in reg.members[reg.hash[d].node]
      BY <1>2, <3>1 DEF FreshFor
    <3> QED
      BY <2>2, <3>1, <3>2
  <2> QED
    BY <2>1, <2>2
<1>3. ASSUME NEW m \in Node, moved.members[m] # {} PROVE moved.memberTtl[m] >= left
  <2>1. CASE m = n
    BY <2>1, RegistryAssumption DEF Registries
  <2>2. CASE m # n
    <3>1. moved.memberTtl[m] = reg.memberTtl[m] /\ moved.members[m] \subseteq reg.members[m]
      BY <2>2 DEF Registries
    <3> QED
      BY <1>3, <3>1 DEF FreshFor
  <2> QED
    BY <2>1, <2>2
<1>4. FreshFor(moved, left)
  BY <1>2, <1>3, RegistryAssumption DEF FreshFor
<1>5. moved.hash = [reg.hash EXCEPT ![c] = [node |-> n, state |-> state]]
  OBVIOUS
<1> HIDE DEF moved
<1>6. FreshFor(Tidy(moved), left) /\ Tidy(moved).hash = moved.hash
  BY <1>1, <1>4, TidyFresh DEF Tidy
<1> QED
  BY <1>5, <1>6 DEF Register, moved

\* So does ACTIVATE.
LEMMA ActivateFresh ==
    ASSUME NEW reg \in Registries, NEW left \in Int, left <= KeyTtl, FreshFor(reg, left),
           NEW c \in Client, NEW n \in Node
    PROVE  /\ FreshFor(Activate(reg, c, n), left)
           /\ Activate(reg, c, n).hash = [reg.hash EXCEPT ![c] = [node |-> n, state |-> "active"]]
<1> DEFINE new == Activate(reg, c, n)
<1>1. /\ new.hash = [reg.hash EXCEPT ![c] = [node |-> n, state |-> "active"]]
      /\ new.hashTtl = KeyTtl /\ KeyTtl >= left
      /\ new.members = [reg.members EXCEPT ![n] = @ \cup {c}]
      /\ new.memberTtl = [reg.memberTtl EXCEPT ![n] = KeyTtl]
  BY RegistryAssumption DEF Activate
<1> HIDE DEF new
<1>2. ASSUME NEW d \in Client, new.hash[d].node # NoNode PROVE d \in new.members[new.hash[d].node]
  <2>1. CASE d = c
    BY <1>1, <2>1 DEF Registries
  <2>2. CASE d # c
    <3>1. new.hash[d] = reg.hash[d] /\ reg.hash[d].node \in Node
      BY <1>1, <1>2, <2>2 DEF Registries, Registration
    <3>2. d \in reg.members[reg.hash[d].node]
      BY <1>2, <3>1 DEF FreshFor
    <3> QED
      BY <1>1, <3>1, <3>2 DEF Registries
  <2> QED
    BY <2>1, <2>2
<1>3. ASSUME NEW m \in Node, new.members[m] # {} PROVE new.memberTtl[m] >= left
  <2>1. CASE m = n
    BY <1>1, <2>1 DEF Registries
  <2>2. CASE m # n
    <3>1. new.memberTtl[m] = reg.memberTtl[m] /\ new.members[m] = reg.members[m]
      BY <1>1, <2>2 DEF Registries
    <3> QED
      BY <1>3, <3>1 DEF FreshFor
  <2> QED
    BY <2>1, <2>2
<1> QED
  BY <1>1, <1>2, <1>3 DEF FreshFor, new

\* UNREGISTER takes the client out of the hash and out of the set.
LEMMA UnregisterFresh ==
    ASSUME NEW reg \in Registries, NEW left \in Int, FreshFor(reg, left),
           NEW c \in Client, NEW n \in Node
    PROVE  /\ FreshFor(Unregister(reg, c, n), left)
           /\ Unregister(reg, c, n).hash = [reg.hash EXCEPT ![c] = Absent]
<1> DEFINE new == [hash      |-> [reg.hash EXCEPT ![c] = Absent],
                   hashTtl   |-> reg.hashTtl,
                   members   |-> [reg.members EXCEPT ![n] = @ \ {c}],
                   memberTtl |-> reg.memberTtl]
<1>1. new \in Registries
  BY RegistryAssumption DEF Registries, Registration, Absent
<1>2. ASSUME NEW d \in Client, new.hash[d].node # NoNode
      PROVE  d \in new.members[new.hash[d].node] /\ new.hashTtl >= left
  <2>1. d # c
    BY <1>2 DEF Registries, Absent
  <2>2. new.hash[d] = reg.hash[d] /\ reg.hash[d].node \in Node
    BY <1>2, <2>1 DEF Registries, Registration
  <2>3. d \in reg.members[reg.hash[d].node] /\ reg.hashTtl >= left
    BY <1>2, <2>2 DEF FreshFor
  <2> QED
    BY <2>1, <2>2, <2>3 DEF Registries
<1>3. ASSUME NEW m \in Node, new.members[m] # {} PROVE new.memberTtl[m] >= left
  <2>1. reg.members[m] # {}
    BY <1>3 DEF Registries
  <2> QED
    BY <2>1 DEF FreshFor
<1>4. FreshFor(new, left)
  BY <1>2, <1>3 DEF FreshFor
<1> HIDE DEF new
<1>5. FreshFor(Tidy(new), left) /\ Tidy(new).hash = new.hash
  BY <1>1, <1>4, TidyFresh DEF Tidy
<1> QED
  BY <1>5 DEF Unregister, new

\* CLEANUP_NODE finds every client of the node in the node's set, and touches no other one's.
LEMMA CleanupFresh ==
    ASSUME NEW reg \in Registries, Consistent(reg), NEW left \in Int, FreshFor(reg, left), NEW n \in Node
    PROVE  /\ FreshFor(CleanupNode(reg, n), left)
           /\ \A c \in Client : /\ CleanupNode(reg, n).hash[c].node # n
                                /\ reg.hash[c].node # n => CleanupNode(reg, n).hash[c] = reg.hash[c]
                                /\ reg.hash[c].node = n => CleanupNode(reg, n).hash[c].node = NoNode
<1> DEFINE new == [hash      |-> [c \in Client |-> IF c \in Orphans(reg, n) THEN Absent
                                                   ELSE reg.hash[c]],
                   hashTtl   |-> reg.hashTtl,
                   members   |-> [reg.members EXCEPT ![n] = {}],
                   memberTtl |-> reg.memberTtl]
<1>1. new \in Registries
  BY RegistryAssumption DEF Registries, Registration, Absent
<1>2. \A c \in Client : c \in Orphans(reg, n) <=> reg.hash[c].node = n
  BY RegistryAssumption DEF Orphans, Owner, FreshFor, Registries
<1>3. \A c \in Client : /\ reg.hash[c].node = n => new.hash[c].node = NoNode
                        /\ reg.hash[c].node # n => new.hash[c] = reg.hash[c]
  BY <1>2 DEF Absent
<1>4. ASSUME NEW d \in Client, new.hash[d].node # NoNode
      PROVE  d \in new.members[new.hash[d].node] /\ new.hashTtl >= left
  <2>1. new.hash[d] = reg.hash[d] /\ reg.hash[d].node # n /\ reg.hash[d].node \in Node
    BY <1>3, <1>4 DEF Registries, Registration
  <2>2. d \in reg.members[reg.hash[d].node] /\ reg.hashTtl >= left
    BY <1>4, <2>1 DEF FreshFor
  <2> QED
    BY <2>1, <2>2 DEF Registries
<1>5. ASSUME NEW m \in Node, new.members[m] # {} PROVE new.memberTtl[m] >= left
  <2>1. reg.members[m] # {}
    BY <1>5 DEF Registries
  <2> QED
    BY <2>1 DEF FreshFor
<1>6. FreshFor(new, left)
  BY <1>4, <1>5 DEF FreshFor
<1>7. \A c \in Client : new.hash[c].node # n
  BY <1>3, RegistryAssumption
<1> HIDE DEF new
<1>8. FreshFor(Tidy(new), left) /\ Tidy(new).hash = new.hash
  BY <1>1, <1>6, TidyFresh DEF Tidy
<1> QED
  BY <1>3, <1>7, <1>8 DEF CleanupNode, new

\* Until then time changes nothing.
LEMMA AgedFresh ==
    ASSUME NEW reg \in Registries, NEW left \in Int, left > 1, FreshFor(reg, left)
    PROVE  /\ FreshFor(Aged(reg), left - 1)
           /\ \A c \in Client : /\ Aged(reg).hash[c] = reg.hash[c] \/ reg.hash[c].node = NoNode
                                /\ Aged(reg).hash[c].node = reg.hash[c].node
<1>1. /\ reg.hashTtl \in Int /\ \A n \in Node : reg.memberTtl[n] \in Int
      /\ \A ttl \in Int : ttl >= left => Left(ttl) >= left - 1
  BY RegistryAssumption DEF Registries, Left
<1>2. \A c \in Client : /\ Aged(reg).hash[c] = reg.hash[c] \/ reg.hash[c].node = NoNode
                        /\ Aged(reg).hash[c].node = reg.hash[c].node
  BY <1>1 DEF Aged, FreshFor, Absent, Registries
<1>3. ASSUME NEW n \in Node PROVE /\ reg.members[n] # {} => Aged(reg).members[n] = reg.members[n]
                                  /\ Aged(reg).members[n] # {} => reg.members[n] # {}
                                  /\ Aged(reg).memberTtl[n] = Left(reg.memberTtl[n])
  BY <1>1 DEF Aged, FreshFor
<1>4. Aged(reg).hashTtl = Left(reg.hashTtl)
  BY DEF Aged
<1>5. ASSUME NEW c \in Client, Aged(reg).hash[c].node # NoNode
      PROVE  c \in Aged(reg).members[Aged(reg).hash[c].node] /\ Aged(reg).hashTtl >= left - 1
  <2>1. reg.hash[c].node # NoNode /\ reg.hash[c].node \in Node /\ Aged(reg).hash[c].node = reg.hash[c].node
    BY <1>2, <1>5 DEF Registries, Registration
  <2>2. c \in reg.members[reg.hash[c].node] /\ reg.hashTtl >= left
    BY <2>1 DEF FreshFor
  <2> QED
    BY <1>1, <1>3, <1>4, <2>1, <2>2
<1>6. ASSUME NEW n \in Node, Aged(reg).members[n] # {} PROVE Aged(reg).memberTtl[n] >= left - 1
  BY <1>1, <1>3, <1>6 DEF FreshFor
<1> QED
  BY <1>2, <1>5, <1>6 DEF FreshFor

\* What is known of the keys when no run is as long as their time to live.
LEMMA FreshKeeps ==
    ASSUME Base, Fresh, MaxTicks < KeyTtl, [Next]_vars
    PROVE  Fresh'
<1> USE DEF Base, IInv, RegistryConsistent, Types
<1> DEFINE left == KeyTtl - ticks
<1>0. left \in Int /\ left <= KeyTtl /\ left > 0 /\ FreshFor(registry, left) /\ ticks <= MaxTicks
  BY RegistryAssumption, ClientsAssumption DEF Fresh
<1>1. CASE UNCHANGED <<registry, ticks>>
  BY <1>1 DEF Fresh
<1>2. CASE Tick
  <2>1. ticks' = ticks + 1 /\ ticks < MaxTicks /\ registry' = Aged(registry) /\ left > 1 /\ left - 1 = KeyTtl - ticks'
    BY <1>2, RegistryAssumption, ClientsAssumption DEF Tick
  <2> HIDE DEF left
  <2>2. FreshFor(Aged(registry), left - 1)
    BY <1>0, <2>1, AgedFresh
  <2> QED
    BY <2>1, <2>2, ClientsAssumption DEF Fresh
<1>3. ASSUME NEW n \in Node, CleanupOwn(n) PROVE Fresh'
  <2>1. CASE registry' = CleanupNode(registry, n)
    <3>1. FreshFor(CleanupNode(registry, n), left)
      BY <1>0, CleanupFresh
    <3> QED
      BY <1>0, <1>3, <2>1, <3>1 DEF CleanupOwn, Fresh
  <2> QED
    BY <1>1, <1>3, <2>1 DEF CleanupOwn
<1>4. ASSUME NEW m \in Node, NEW n \in Node, CleanUp(m, n) PROVE Fresh'
  <2>1. CASE registry' = CleanupNode(registry, n)
    <3>1. FreshFor(CleanupNode(registry, n), left)
      BY <1>0, CleanupFresh
    <3> QED
      BY <1>0, <1>4, <2>1, <3>1 DEF CleanUp, Fresh
  <2> QED
    BY <1>1, <1>4, <2>1 DEF CleanUp
<1>5. ASSUME NEW n \in Node, NEW c \in Client, Execute(n, c) PROVE Fresh'
  <2>1. /\ ticks' = ticks
        /\ \/ registry' = registry
           \/ \E state \in {"pending", "active"} : registry' = Register(registry, c, n, state)
           \/ registry' = Activate(registry, c, n)
           \/ registry' = Unregister(registry, c, n)
    BY <1>5 DEF Execute
  <2> HIDE DEF left
  <2>2. FreshFor(registry', left)
    <3>1. CASE registry' = registry
      BY <1>0, <3>1
    <3>2. ASSUME NEW state \in {"pending", "active"}, registry' = Register(registry, c, n, state)
          PROVE  FreshFor(registry', left)
      BY <1>0, <3>2, RegisterFresh
    <3>3. CASE registry' = Activate(registry, c, n)
      BY <1>0, <3>3, ActivateFresh
    <3>4. CASE registry' = Unregister(registry, c, n)
      BY <1>0, <3>4, UnregisterFresh
    <3> QED
      BY <2>1, <3>1, <3>2, <3>3, <3>4
  <2> QED
    BY <1>0, <2>1, <2>2 DEF Fresh, left
<1>6. ASSUME NEW n \in Node, MeshEvent(n) PROVE UNCHANGED <<registry, ticks>> \/ CleanupOwn(n)
  BY <1>6 DEF MeshEvent, MeshStarting, MeshStarted, MeshStops, MeshClosed, Crash
<1>7. ASSUME NEW n \in Node, NEW c \in Client, ClientEvent(n, c)
      PROVE  UNCHANGED <<registry, ticks>> \/ Execute(n, c)
  BY <1>7 DEF ClientEvent, Connect, JobEnds, ReserveEnds, ActivateEnds, DisconnectEnds,
              BackfillEnds, CallbackEnds, Refuse, Disconnect
<1>8. ASSUME NEW n \in Node, NEW c \in Client, Microtask(n, c) PROVE UNCHANGED <<registry, ticks>>
  BY <1>8 DEF Microtask, JobStarts, ReserveStarts, ActivateStarts, DisconnectStarts,
              BackfillStarts, CallbackStarts, CallbackSkipped
<1>9. ASSUME NEW s \in 1..MaxStreams, Drop(s) \/ HandlersSettle(s) PROVE UNCHANGED <<registry, ticks>>
  BY <1>9 DEF Drop, HandlersSettle
<1>10. ASSUME NEW k \in kicks, Kicked(k) \/ KickLost(k) PROVE UNCHANGED <<registry, ticks>>
  BY <1>10 DEF Kicked, KickLost
<1>11. ASSUME NEW m \in Node, NEW n \in Node, Expire(m, n) PROVE UNCHANGED <<registry, ticks>>
  BY <1>11 DEF Expire
<1>12. CASE UNCHANGED vars
  BY <1>1, <1>12 DEF vars
<1> QED
  BY <1>1, <1>2, <1>3, <1>4, <1>5, <1>6, <1>7, <1>8, <1>9, <1>10, <1>11, <1>12 DEF Next, Event

-----------------------------------------------------------------------------
(* Every client at every node, while nothing has failed. *)

\* REGISTER has taken the client from m, and the node has not asked m yet to let it go.
Losing(q, m) == Len(q) > 0 /\ Takes(q[1]) /\ q[1].reply = "yes" /\ q[1].old = m

\* The nodes that have been asked, or will be, to let the client go.
Freed(asked, jobs, c) ==
    {m \in Node : [node |-> m, client |-> c] \in asked \/ \E k \in Node : Losing(jobs[k][c], m)}

\* The mesh has no instance id that Redis knows of.
Idle(life) == life \in {"off", "starting", "stopping", "closed"}

\* A node whose mesh has not started, or has stopped, owns nothing.
PairSmooth(life, q, st, n, c, e, free) ==
    /\ Idle(life) => e.node # n
    /\ life = "on" => PairFits(q, st, n, c, e, free)

\* The client c at the node n, in the present state.
SmoothAt(n, c) ==
    PairSmooth(mesh[n], chain[n][c], streams, n, c, registry.hash[c], Freed(kicks, chain, c))

\* While nothing has failed: nobody is dead, nobody cleans up, and every pair is smooth.
Smooth == \A n \in Node : Up(n) /\ duty[n] = {} /\ \A c \in Client : SmoothAt(n, c)

\* What becomes of another client, or of the same client at another node.
Spared(n, c) ==
    \A m \in Node, d \in Client : ~(m = n /\ d = c) =>
        /\ m \in Freed(kicks, chain, d) => m \in Freed(kicks', chain', d)
        /\ \/ registry'.hash[d] = registry.hash[d]
           \/ registry'.hash[d].node # m /\ (registry.hash[d].node = m => m \in Freed(kicks', chain', d))

\* A step of one client at one node that leaves this pair smooth leaves all of them so.
LEMMA PairStep ==
    ASSUME Base, Smooth, NEW n \in Node, NEW c \in Client, OnlyOne(n, c), mesh' = mesh, duty' = duty, Spared(n, c),
           PairSmooth(mesh[n], chain'[n][c], streams', n, c, registry'.hash[c], Freed(kicks', chain', c))
    PROVE  Smooth'
<1>1. \A m \in Node : Up(m)' /\ duty'[m] = {}
  BY DEF Smooth, Up
<1>2. ASSUME NEW m \in Node, NEW d \in Client PROVE SmoothAt(m, d)'
  <2>1. CASE m = n /\ d = c
    BY <2>1 DEF SmoothAt
  <2>2. CASE ~(m = n /\ d = c)
    <3> DEFINE q == chain[m][d]
               e == registry.hash[d]
               e2 == registry'.hash[d]
               free == Freed(kicks, chain, d)
               free2 == Freed(kicks', chain', d)
    <3>1. chain'[m][d] = q /\ mesh'[m] = mesh[m]
      BY <2>2 DEF OnlyOne, OnlyAt
    <3>2. q \in Seq(Job) /\ QueueFits(q, streams, m, d, mesh[m])
      BY DEF Base, Flow
    <3>3. SameFor(streams, streams', m, d)
      BY <2>2, HereOnly DEF Base, Flow, OnlyOne
    <3>4. PairSmooth(mesh[m], q, streams, m, d, e, free)
      BY DEF Smooth, SmoothAt
    <3>5. m \in free => m \in free2
      BY <2>2 DEF Spared
    <3>6. e2 = e \/ (e2.node # m /\ (e.node = m => m \in free2))
      BY <2>2 DEF Spared
    <3> HIDE DEF q, e, e2, free, free2
    <3>7. Idle(mesh[m]) => e2.node # m
      BY <3>4, <3>6 DEF PairSmooth
    <3>8. CASE mesh[m] # "on"
      <4>1. PairSmooth(mesh[m], q, streams', m, d, e2, free2)
        BY <3>7, <3>8 DEF PairSmooth
      <4> QED
        BY <3>1, <4>1 DEF SmoothAt, q, e2, free2
    <3>9. CASE mesh[m] = "on"
      <4>1. PairFits(q, streams, m, d, e, free)
        BY <3>4, <3>9 DEF PairSmooth
      <4>2. PairFits(q, streams', m, d, e2, free2)
        BY <3>2, <3>3, <3>5, <3>6, <4>1, OthersPair
      <4>3. PairSmooth(mesh[m], q, streams', m, d, e2, free2)
        BY <3>7, <3>9, <4>2 DEF PairSmooth
      <4> QED
        BY <3>1, <4>3 DEF SmoothAt, q, e2, free2
    <3> QED
      BY <3>8, <3>9
  <2> QED
    BY <2>1, <2>2
<1> QED
  BY <1>1, <1>2 DEF Smooth

\* Who has been asked to let a client go remains so, when no kick is forgotten.
LEMMA FreedRemains ==
    ASSUME NEW n \in Node, NEW c \in Client, OnlyAt(chain, chain', n, c),
           \A k \in kicks : k \in kicks' \/ k = [node |-> n, client |-> c],
           \A m \in Node : Losing(chain[n][c], m) => Losing(chain'[n][c], m) \/ [node |-> m, client |-> c] \in kicks'
    PROVE  \A m \in Node, d \in Client : ~(m = n /\ d = c) =>
              (m \in Freed(kicks, chain, d) => m \in Freed(kicks', chain', d))
<1> SUFFICES ASSUME NEW m \in Node, NEW d \in Client, ~(m = n /\ d = c), m \in Freed(kicks, chain, d)
             PROVE  m \in Freed(kicks', chain', d)
  OBVIOUS
<1>1. CASE [node |-> m, client |-> d] \in kicks
  <2>1. [node |-> m, client |-> d] # [node |-> n, client |-> c]
    OBVIOUS
  <2> QED
    BY <1>1, <2>1 DEF Freed
<1>2. ASSUME NEW k \in Node, Losing(chain[k][d], m) PROVE m \in Freed(kicks', chain', d)
  <2>1. CASE k = n /\ d = c
    BY <1>2, <2>1 DEF Freed
  <2>2. CASE ~(k = n /\ d = c)
    <3>1. chain'[k][d] = chain[k][d]
      BY <2>2 DEF OnlyAt
    <3> QED
      BY <1>2, <3>1 DEF Freed
  <2> QED
    BY <2>1, <2>2
<1> QED
  BY <1>1, <1>2 DEF Freed

\* The step concerns neither the registry nor whom the node has been asked to let go.
LEMMA QuietStep ==
    ASSUME Base, Smooth, NEW n \in Node, NEW c \in Client, OnlyOne(n, c), mesh' = mesh, duty' = duty,
           registry' = registry,
           \A k \in kicks : k \in kicks' \/ k = [node |-> n, client |-> c],
           \A m \in Node : Losing(chain[n][c], m) => Losing(chain'[n][c], m) \/ [node |-> m, client |-> c] \in kicks',
           mesh[n] = "on" => PairFits(chain'[n][c], streams', n, c, registry.hash[c], Freed(kicks', chain', c))
    PROVE  Smooth'
<1>1. Spared(n, c)
  BY FreedRemains DEF Spared, OnlyOne
<1>2. PairSmooth(mesh[n], chain[n][c], streams, n, c, registry.hash[c], Freed(kicks, chain, c))
  BY DEF Smooth, SmoothAt
<1>3. PairSmooth(mesh[n], chain'[n][c], streams', n, c, registry'.hash[c], Freed(kicks', chain', c))
  BY <1>2 DEF PairSmooth
<1> QED
  BY <1>1, <1>3, PairStep

\* What is known of a client at a node whose mesh runs.
LEMMA PairIs ==
    ASSUME Smooth, NEW n \in Node, NEW c \in Client, mesh[n] = "on"
    PROVE  PairFits(chain[n][c], streams, n, c, registry.hash[c], Freed(kicks, chain, c))
BY DEF Smooth, SmoothAt, PairSmooth

\* What a node has been asked to let go is asked still.
LEMMA FreedGrows ==
    ASSUME NEW n \in Node, NEW c \in Client, OnlyAt(chain, chain', n, c), kicks \subseteq kicks',
           \A m \in Node : Losing(chain[n][c], m) => Losing(chain'[n][c], m) \/ [node |-> m, client |-> c] \in kicks'
    PROVE  n \in Freed(kicks, chain, c) => n \in Freed(kicks', chain', c)
<1> SUFFICES ASSUME n \in Freed(kicks, chain, c) PROVE n \in Freed(kicks', chain', c)
  OBVIOUS
<1>1. CASE [node |-> n, client |-> c] \in kicks
  BY <1>1 DEF Freed
<1>2. ASSUME NEW k \in Node, Losing(chain[k][c], n) PROVE n \in Freed(kicks', chain', c)
  <2>1. CASE k = n
    BY <1>2, <2>1 DEF Freed
  <2>2. CASE k # n
    <3>1. chain'[k][c] = chain[k][c]
      BY <2>2 DEF OnlyAt
    <3> QED
      BY <1>2, <3>1 DEF Freed
  <2> QED
    BY <2>1, <2>2
<1> QED
  BY <1>1, <1>2 DEF Freed

\* A stream takes a step.
LEMMA StepMoves ==
    ASSUME Flow, NEW s \in DOMAIN streams, NEW step, streams' = [streams EXCEPT ![s].step = step]
    PROVE  /\ DOMAIN streams' = DOMAIN streams /\ streams'[s].step = step
           /\ \A t \in DOMAIN streams : /\ streams'[t].client = streams[t].client /\ streams'[t].node = streams[t].node
                                        /\ t # s => streams'[t] = streams[t]
<1>1. streams \in Seq(Stream) /\ streams[s] \in Stream
  BY DEF Flow
<1>2. DOMAIN streams' = DOMAIN streams /\ \A t \in DOMAIN streams : t # s => streams'[t] = streams[t]
  BY <1>1
<1>3. streams'[s] = [streams[s] EXCEPT !.step = step]
  BY <1>1
<1>4. streams'[s].step = step /\ streams'[s].client = streams[s].client /\ streams'[s].node = streams[s].node
  BY <1>1, <1>3 DEF Stream
<1> QED
  BY <1>2, <1>4

\* The first job of a client is done.
LEMMA PopSmooth ==
    ASSUME Base, Smooth, NEW n \in Node, NEW c \in Client, chain[n][c] # <<>>, Finish(n, c), OnlyOne(n, c),
           mesh' = mesh, duty' = duty, registry' = registry, kicks \subseteq kicks',
           \A m \in Node : Losing(chain[n][c], m) => [node |-> m, client |-> c] \in kicks',
           Advanced(streams, streams', chain[n][c][1].s),
           \A t \in DOMAIN streams : Early(streams', t) <=> Early(streams, t),
           mesh[n] = "on" =>
              /\ chain[n][c][1].kind = "disconnect" => Here(streams, n, c) # {} \/ chain[n][c][1].reply \notin {"queued", "sent"}
              /\ chain[n][c][1].kind # "disconnect" => chain[n][c][1].reply = "yes" \/ chain[n][c][1].s \notin Here(streams, n, c)
    PROVE  Smooth'
<1>1. chain[n][c] \in Seq(Job) /\ QueueFits(chain[n][c], streams, n, c, mesh[n])
  BY DEF Base, Flow
<1>2. chain'[n][c] = Tail(chain[n][c])
  <2>1. Queues(n, c, Tail(chain[n][c])) /\ Tail(chain[n][c]) \in Seq(Job)
    BY <1>1 DEF Finish, Rest, Queues
  <2> QED
    BY <2>1, PutJobs DEF Base
<1>3. n \in Freed(kicks, chain, c) => n \in Freed(kicks', chain', c)
  BY FreedGrows DEF OnlyOne
<1>4. mesh[n] = "on" => PairFits(chain'[n][c], streams', n, c, registry.hash[c], Freed(kicks', chain', c))
  <2> SUFFICES ASSUME mesh[n] = "on"
               PROVE  PairFits(Tail(chain[n][c]), streams', n, c, registry.hash[c], Freed(kicks', chain', c))
    BY <1>2
  <2>1. PairFits(chain[n][c], streams, n, c, registry.hash[c], Freed(kicks, chain, c))
    BY PairIs
  <2> DEFINE q == chain[n][c]
             e == registry.hash[c]
             free == Freed(kicks, chain, c)
             free2 == Freed(kicks', chain', c)
  <2>2. /\ q \in Seq(Job) /\ QueueFits(q, streams, n, c, mesh[n]) /\ q # <<>> /\ Advanced(streams, streams', q[1].s)
        /\ PairFits(q, streams, n, c, e, free) /\ (n \in free => n \in free2)
        /\ q[1].kind = "disconnect" => Here(streams, n, c) # {} \/ q[1].reply \notin {"queued", "sent"}
        /\ q[1].kind # "disconnect" => q[1].reply = "yes" \/ q[1].s \notin Here(streams, n, c)
    BY <1>1, <1>3, <2>1
  <2> HIDE DEF q, e, free, free2
  <2>3. PairFits(Tail(q), streams', n, c, e, free2)
    BY <2>2, PopPair
  <2> QED
    BY <2>3 DEF q, e, free2
<1> QED
  BY <1>4, QuietStep

\* The client leaves the node.
LEMMA LeaveSmooth ==
    ASSUME Base, Smooth, NEW n \in Node, NEW c \in Client, NEW s \in Here(streams, n, c),
           NEW queue \in Seq(Job), Leave(n, c, s, queue), OnlyOne(n, c),
           mesh' = mesh, duty' = duty, registry' = registry,
           \A k \in kicks : k \in kicks' \/ k = [node |-> n, client |-> c],
           \/ queue = chain[n][c]
           \/ chain[n][c] # <<>> /\ queue = Rest(n, c) /\ chain[n][c][1].reply # "yes"
    PROVE  Smooth'
<1> DEFINE q == chain[n][c]
           p == Append(queue, Farewell(s))
<1>1. q \in Seq(Job) /\ QueueFits(q, streams, n, c, mesh[n]) /\ streams \in Seq(Stream) /\ StreamsFit(streams)
  BY DEF Base, Flow
<1>2. s \in DOMAIN streams /\ Live(s) /\ streams[s].client = c
  BY <1>1, RegistryAssumption DEF Here, Live, StreamsFit
<1>3. Turns(s, Gone(streams[s])) /\ Queues(n, c, p)
  BY <1>2 DEF Leave, Turns, Queues
<1>4. Farewell(s) \in Job /\ Farewell(s).kind = "disconnect" /\ Farewell(s).s = s /\ Farewell(s).reply = "queued"
  BY <1>2, JobsTyped DEF Base
<1>5. /\ \E d \in {0, 1} : d <= Len(q) /\ Passes(q, p, d, 1)
      /\ p \in Seq(Job) /\ p[Len(p)] = Farewell(s)
      /\ \A m \in Node : Losing(q, m) => Losing(p, m)
  <2>1. CASE queue = q
    <3>1. p \in Seq(Job) /\ Passes(q, p, 0, 1) /\ p[Len(q) + 1] = Farewell(s)
      BY <1>1, <1>4, <2>1, AppendPasses
    <3>2. Len(p) = Len(q) + 1 /\ 0 <= Len(q) /\ Len(q) \in Nat
      BY <1>1, <2>1
    <3>3. Len(q) > 0 => p[1] = q[1]
      BY <1>1, <2>1
    <3> HIDE DEF p, q
    <3> QED
      BY <3>1, <3>2, <3>3 DEF Losing
  <2>2. CASE q # <<>> /\ queue = Rest(n, c) /\ q[1].reply # "yes"
    <3>1. p \in Seq(Job) /\ Passes(q, p, 1, 1) /\ p[Len(q)] = Farewell(s)
      BY <1>1, <1>4, <2>2, TailAppendPasses DEF Rest
    <3>2. Len(q) \in Nat /\ Len(q) > 0
      BY <1>1, <2>2
    <3>3. Len(p) = Len(q)
      BY <3>1, <3>2 DEF Passes
    <3> HIDE DEF p, q
    <3> QED
      BY <2>2, <3>1, <3>2, <3>3 DEF Losing
  <2> QED
    BY <2>1, <2>2
<1> HIDE DEF p
<1>6. chain'[n][c] = p
  BY <1>3, <1>5, PutJobs DEF Base
<1>7. Parts(streams, streams', s, c)
  <2>1. /\ DOMAIN streams' = DOMAIN streams /\ streams[s].step # "gone"
        /\ streams'[s].step = "gone" /\ streams'[s].client = c /\ streams'[s].node = NoNode
        /\ \A t \in DOMAIN streams : t # s => streams'[t] = streams[t]
    BY <1>3, GoneIs DEF Base
  <2> QED
    BY <2>1 DEF Parts
<1> HIDE DEF q
<1>8. EndsWith(q, p, s)
  BY <1>4, <1>5 DEF EndsWith
<1>9. QueueFits(p, streams', n, c, mesh[n]) /\ Here(streams', n, c) = {}
  BY <1>1, <1>5, <1>7, <1>8, LeaveFits
<1>10. mesh[n] = "on" => PairFits(p, streams', n, c, registry.hash[c], Freed(kicks', chain', c))
  <2> SUFFICES ASSUME mesh[n] = "on" PROVE PairFits(p, streams', n, c, registry.hash[c], Freed(kicks', chain', c))
    OBVIOUS
  <2>1. Flawless(q)
    BY PairIs DEF PairFits, q
  <2> DEFINE e == registry.hash[c]
             free2 == Freed(kicks', chain', c)
  <2> HIDE DEF e, free2
  <2>2. PairFits(p, streams', n, c, e, free2)
    BY <1>1, <1>5, <1>8, <1>9, <2>1, LeavePair
  <2> QED
    BY <2>2 DEF e, free2
<1> QED
  BY <1>5, <1>6, <1>10, QuietStep DEF q

\* The stream of the first job leaves with it, if it is there still.
LEMMA RestSmooth ==
    ASSUME Base, Smooth, NEW n \in Node, NEW c \in Client, chain[n][c] # <<>>, Leave(n, c, Subject(n, c), Rest(n, c)),
           OnlyOne(n, c), UNCHANGED <<mesh, duty, registry, kicks>>,
           chain[n][c][1].kind # "disconnect", chain[n][c][1].reply # "yes"
    PROVE  Smooth'
<1>1. /\ chain[n][c] \in Seq(Job) /\ Head(chain[n][c]) = chain[n][c][1]
      /\ chain[n][c][1].s \in DOMAIN streams /\ streams[chain[n][c][1].s].client = c
      /\ (Live(chain[n][c][1].s) => chain[n][c][1].s \in Here(streams, n, c))
  BY First DEF Base
<1>2. Subject(n, c) = chain[n][c][1].s /\ Rest(n, c) \in Seq(Job)
  BY <1>1 DEF Subject, Rest
<1>3. CASE Live(Subject(n, c))
  <2>1. Subject(n, c) \in Here(streams, n, c)
    BY <1>1, <1>2, <1>3
  <2> QED
    BY <1>2, <2>1, LeaveSmooth
<1>4. CASE ~Live(Subject(n, c))
  <2>1. Finish(n, c) /\ streams' = streams
    BY <1>4 DEF Leave, Finish
  <2>2. Advanced(streams, streams', chain[n][c][1].s)
    BY <2>1 DEF Advanced
  <2>3. \A t \in DOMAIN streams : Early(streams', t) <=> Early(streams, t)
    BY <2>1
  <2>4. chain[n][c][1].s \notin Here(streams, n, c)
    BY <1>2, <1>4, RegistryAssumption DEF Here, Live, Base, Flow, StreamsFit
  <2>5. \A m \in Node : ~Losing(chain[n][c], m)
    BY DEF Losing
  <2> QED
    BY <2>1, <2>2, <2>3, <2>4, <2>5, PopSmooth
<1> QED
  BY <1>3, <1>4

\* A stream ends.
LEMMA DropSmooth ==
    ASSUME Base, Smooth, NEW s, Drop(s)
    PROVE  Smooth'
<1> USE DEF Base
<1>1. s \in DOMAIN streams /\ Live(s) /\ streams[s] \in Stream /\ UNCHANGED <<mesh, duty, registry, kicks>>
  BY DEF Drop, Flow
<1>2. streams[s].node \in Node /\ streams[s].client \in Client
  BY <1>1 DEF Flow, StreamsFit, Live, Stream
<1> DEFINE n == streams[s].node
           c == streams[s].client
<1>3. chain[n][c] \in Seq(Job) /\ Leave(n, c, s, chain[n][c]) /\ OnlyOne(n, c)
  BY <1>2, DropKeeps DEF Flow, Drop
<1>4. s \in Here(streams, n, c) /\ n \in Node /\ c \in Client
  BY <1>1, <1>2 DEF Here
<1>5. \A k \in kicks : k \in kicks'
  BY <1>1
<1> HIDE DEF n, c
<1> QED
  BY <1>1, <1>3, <1>4, <1>5, LeaveSmooth

\* A node is asked to let a client go, and does, unless it is not connected to it.
LEMMA KickedSmooth ==
    ASSUME Base, Smooth, NEW k \in kicks, Kicked(k)
    PROVE  Smooth'
<1> USE DEF Base
<1> DEFINE n == k.node
           c == k.client
<1>1. n \in Node /\ c \in Client /\ k = [node |-> n, client |-> c] /\ k \in Kick
      /\ UNCHANGED <<mesh, duty, registry, callbacks>> /\ kicks' = kicks \ {k}
  BY DEF Kicked, Kick, Types
<1>2. OnlyOne(n, c)
  BY <1>1, KickedKeeps
<1>3. \A l \in kicks : l \in kicks' \/ l = [node |-> n, client |-> c]
  BY <1>1
<1>4. ASSUME NEW s \in Current(n, c), Leave(n, c, s, chain[n][c]) PROVE Smooth'
  <2>1. s \in Here(streams, n, c)
    BY DEF Current, Here
  <2>2. chain[n][c] \in Seq(Job)
    BY <1>1 DEF Flow
  <2> HIDE DEF n, c
  <2> QED
    BY <1>1, <1>2, <1>3, <1>4, <2>1, <2>2, LeaveSmooth
<1>5. ASSUME UNCHANGED <<streams, chain>>, mesh[n] = "on" => Current(n, c) = {} PROVE Smooth'
  <2>1. \A m \in Node : Losing(chain[n][c], m) => Losing(chain'[n][c], m)
    BY <1>5
  <2>2. mesh[n] = "on" => PairFits(chain'[n][c], streams', n, c, registry.hash[c], Freed(kicks', chain', c))
    <3> SUFFICES ASSUME mesh[n] = "on" PROVE PairFits(chain[n][c], streams, n, c, registry.hash[c], Freed(kicks', chain', c))
      BY <1>5
    <3>1. PairFits(chain[n][c], streams, n, c, registry.hash[c], Freed(kicks, chain, c))
      BY <1>1, PairIs
    <3>2. Here(streams, n, c) = {}
      BY <1>5 DEF Current, Here
    <3> QED
      BY <3>1, <3>2 DEF PairFits
  <2> HIDE DEF n, c
  <2> QED
    BY <1>1, <1>2, <1>3, <2>1, <2>2, QuietStep
<1>6. \/ \E s \in Current(n, c) : Leave(n, c, s, chain[n][c])
      \/ UNCHANGED <<streams, chain>> /\ (mesh[n] = "on" => Current(n, c) = {})
  BY DEF Kicked
<1> HIDE DEF n, c
<1> QED
  BY <1>4, <1>5, <1>6

\* The queue of a client that connects.
LEMMA ConnectQueue ==
    ASSUME Base, NEW n \in Node, NEW c \in Client, NEW polite \in BOOLEAN, Connect(n, c, polite)
    PROVE  LET s == Len(streams) + 1
               q == chain[n][c]
               p == chain'[n][c]
           IN /\ Len(p) > 0 /\ p[Len(p)] = NewJob("reserve", s)
              /\ Len(q) <= Len(p)
              /\ \A i \in 1..Len(q) : p[i] = q[i]
              /\ \A i \in 1..Len(p) : i > Len(q) => p[i].reply = "queued" /\ p[i].kind # "backfill"
<1> USE DEF Base
<1> DEFINE s == Len(streams) + 1
           q == chain[n][c]
           left == IF Current(n, c) = {} THEN <<>> ELSE <<Farewell(CHOOSE t \in Current(n, c) : TRUE)>>
           last == NewJob("reserve", s)
           p == (q \o left) \o <<last>>
<1>1. q \in Seq(Job) /\ streams \in Seq(Stream) /\ s \in 1..MaxStreams
  BY ClientsAssumption DEF Flow, Connect
<1>2. last \in Job /\ last.reply = "queued" /\ last.kind = "reserve"
  BY <1>1 DEF NewJob, Job
<1>3. left = <<>> \/ \E job \in Job : left = <<job>> /\ job.reply = "queued" /\ job.kind = "disconnect"
  <2>1. CASE Current(n, c) = {}
    BY <2>1
  <2>2. CASE Current(n, c) # {}
    <3> DEFINE t == CHOOSE t \in Current(n, c) : TRUE
    <3>1. t \in DOMAIN streams
      BY <2>2 DEF Current
    <3>2. Farewell(t) \in Job /\ Farewell(t).kind = "disconnect" /\ Farewell(t).reply = "queued"
      BY <3>1, JobsTyped
    <3>3. left = <<Farewell(t)>>
      BY <2>2
    <3> QED
      BY <3>2, <3>3
  <2> QED
    BY <2>1, <2>2
<1>4. chain' = [chain EXCEPT ![n][c] = p]
  BY DEF Connect
<1> HIDE DEF left, last
<1>5. /\ p \in Seq(Job) /\ Len(p) > 0 /\ p[Len(p)] = last /\ Len(q) <= Len(p)
      /\ \A i \in 1..Len(q) : p[i] = q[i]
      /\ \A i \in 1..Len(p) : i > Len(q) => p[i].reply = "queued" /\ p[i].kind # "backfill"
  <2> HIDE DEF q
  <2>1. CASE left = <<>>
    <3>1. p = Append(q, last)
      BY <1>1, <1>2, <2>1
    <3> HIDE DEF p
    <3> QED
      BY <1>1, <1>2, <3>1
  <2>2. ASSUME NEW job \in Job, left = <<job>>, job.reply = "queued", job.kind = "disconnect"
        PROVE  /\ p \in Seq(Job) /\ Len(p) > 0 /\ p[Len(p)] = last /\ Len(q) <= Len(p)
               /\ \A i \in 1..Len(q) : p[i] = q[i]
               /\ \A i \in 1..Len(p) : i > Len(q) => p[i].reply = "queued" /\ p[i].kind # "backfill"
    <3>1. p = Append(Append(q, job), last)
      BY <1>1, <1>2, <2>2
    <3> HIDE DEF p
    <3> QED
      BY <1>1, <1>2, <2>2, <3>1
  <2> QED
    BY <1>3, <2>1, <2>2
<1> HIDE DEF p
<1>6. Queues(n, c, p)
  BY <1>4 DEF Queues
<1>7. chain'[n][c] = p
  BY <1>5, <1>6, PutJobs
<1> QED
  BY <1>5, <1>7 DEF last

\* A client connects.
LEMMA ConnectSmooth ==
    ASSUME Base, Smooth, NEW n \in Node, NEW c \in Client, NEW polite \in BOOLEAN, Connect(n, c, polite)
    PROVE  Smooth'
<1> USE DEF Base
<1> DEFINE s == Len(streams) + 1
           q == chain[n][c]
           p == chain'[n][c]
           e == registry.hash[c]
           free2 == Freed(kicks', chain', c)
<1>1. UNCHANGED <<mesh, duty, registry, kicks>>
  BY DEF Connect
<1>2. Flow' /\ OnlyOne(n, c)
  BY ConnectKeeps
<1>3. p \in Seq(Job) /\ QueueFits(p, streams', n, c, mesh[n]) /\ q \in Seq(Job) /\ QueueFits(q, streams, n, c, mesh[n])
  BY <1>1, <1>2 DEF Flow
<1>4. /\ Len(p) > 0 /\ p[Len(p)] = NewJob("reserve", s)
      /\ Len(q) <= Len(p)
      /\ \A i \in 1..Len(q) : p[i] = q[i]
      /\ \A i \in 1..Len(p) : i > Len(q) => p[i].reply = "queued" /\ p[i].kind # "backfill"
  BY ConnectQueue
<1>5. /\ DOMAIN streams' = DOMAIN streams \cup {s} /\ s \notin DOMAIN streams
      /\ streams'[s].client = c /\ streams'[s].node = n
      /\ \A t \in DOMAIN streams :
            streams'[t] = IF t \in Here(streams, n, c) THEN Gone(streams[t]) ELSE streams[t]
  <2>1. /\ DOMAIN streams' = DOMAIN streams \cup {s} /\ s \notin DOMAIN streams
        /\ streams'[s] = [client |-> c, node |-> n, polite |-> polite, step |-> "checking", published |-> FALSE]
        /\ \A t \in DOMAIN streams :
              streams'[t] = IF t \in Here(streams, n, c) THEN Gone(streams[t]) ELSE streams[t]
    BY ConnectStreams
  <2> HIDE DEF s
  <2> QED
    BY <2>1
<1>6. Here(streams', n, c) = {s}
  <2>1. s \in Here(streams', n, c)
    BY <1>5 DEF Here
  <2>2. \A t \in Here(streams', n, c) : s = t
    BY <1>2, <2>1, <1>3 DEF QueueFits, InTurn
  <2> QED
    BY <2>1, <2>2
<1>7. p[Len(p)].kind = "reserve" /\ p[Len(p)].s = s /\ p[Len(p)].reply = "queued"
  BY <1>4 DEF NewJob
<1> HIDE DEF p, s, e, free2
<1>8. \A i \in 1..Len(p) : p[i].kind = "backfill" => p[i].s # s
  <2> SUFFICES ASSUME NEW i \in 1..Len(p), p[i].kind = "backfill" PROVE p[i].s # s
    OBVIOUS
  <2>1. i \in 1..Len(q) /\ p[i] = q[i]
    BY <1>3, <1>4
  <2>2. q[i].s \in DOMAIN streams
    BY <1>3, <2>1 DEF QueueFits, JobsFit
  <2> QED
    BY <1>5, <2>1, <2>2
<1>9. mesh[n] = "on" => PairFits(p, streams', n, c, e, free2)
  <2> SUFFICES ASSUME mesh[n] = "on" PROVE PairFits(p, streams', n, c, e, free2)
    OBVIOUS
  <2>1. Flawless(q)
    BY PairIs DEF PairFits
  <2>2. Flawless(p)
    <3> SUFFICES ASSUME NEW i \in 1..Len(p) PROVE p[i].reply # "error"
      BY DEF Flawless
    <3>1. i \in 1..Len(q) \/ i > Len(q)
      BY <1>3
    <3> QED
      BY <1>4, <2>1, <3>1 DEF Flawless
  <2> HIDE DEF q
  <2> QED
    BY <1>3, <1>4, <1>6, <1>7, <1>8, <2>2, JoinPair
<1>10. \A m \in Node : Losing(q, m) => Losing(p, m)
  BY <1>3, <1>4 DEF Losing
<1>11. \A k \in kicks : k \in kicks'
  BY <1>1
<1> QED
  BY <1>1, <1>2, <1>9, <1>10, <1>11, QuietStep DEF p, e, free2

\* The handlers of a stream have settled.
LEMMA HandlersSettleSmooth ==
    ASSUME Base, Smooth, NEW s, HandlersSettle(s)
    PROVE  Smooth'
<1> USE DEF Base
<1>1. s \in DOMAIN streams /\ streams[s].step = "connecting" /\ streams[s] \in Stream /\ UNCHANGED <<mesh, duty, registry, kicks>>
  BY DEF HandlersSettle, Flow
<1>2. streams[s].node \in Node /\ streams[s].client \in Client
  BY <1>1 DEF Flow, StreamsFit, Stream
<1> DEFINE n == streams[s].node
           c == streams[s].client
           q == chain[n][c]
           job == NewJob("activate", s)
<1>3. n \in Node /\ c \in Client /\ s \in Here(streams, n, c) /\ OnlyOne(n, c) /\ streams[s].client = c
      /\ q \in Seq(Job) /\ QueueFits(q, streams, n, c, mesh[n])
  BY <1>1, <1>2, HandlersSettleKeeps DEF Flow, Here
<1>4. \/ mesh[n] \in {"off", "closed"} /\ chain' = chain
      \/ /\ streams' = [streams EXCEPT ![s].step = "activating"]
         /\ Queues(n, c, Append(q, job))
  BY DEF HandlersSettle, Queues
<1>5. \A k \in kicks : k \in kicks'
  BY <1>1
<1>6. job \in Job /\ job.s = s /\ job.reply = "queued" /\ job.kind = "activate" /\ ~job.active
  BY <1>1, JobsTyped DEF NewJob
<1> HIDE DEF n, c, job
<1>7. CASE mesh[n] \in {"off", "closed"} /\ chain' = chain
  <2>1. \A m \in Node : Losing(chain[n][c], m) => Losing(chain'[n][c], m)
    BY <1>7
  <2> QED
    BY <1>1, <1>3, <1>5, <1>7, <2>1, QuietStep
<1>8. ASSUME streams' = [streams EXCEPT ![s].step = "activating"], Queues(n, c, Append(q, job)) PROVE Smooth'
  <2> DEFINE p == Append(q, job)
             e == registry.hash[c]
             free == Freed(kicks, chain, c)
             free2 == Freed(kicks', chain', c)
  <2>1. p \in Seq(Job) /\ (Len(q) > 0 => p[1] = q[1]) /\ Len(p) > 0
    BY <1>3, <1>6
  <2>2. chain'[n][c] = p
    <3>1. Queues(n, c, p)
      BY <1>8
    <3> HIDE DEF p
    <3> QED
      BY <1>3, <2>1, <3>1, PutJobs
  <2>3. /\ DOMAIN streams' = DOMAIN streams /\ streams'[s].step = "activating"
        /\ streams'[s].client = c /\ streams'[s].node = streams[s].node
        /\ \A t \in DOMAIN streams : t # s => streams'[t] = streams[t]
    BY <1>1, <1>3, <1>8, StepMoves
  <2>4. Here(streams, n, c) = {s}
    BY <1>3 DEF QueueFits, InTurn
  <2>5. streams'[s].node = n
    BY <1>3, <2>3 DEF Here
  <2>6. Here(streams', n, c) = {s}
    <3>1. s \in Here(streams', n, c)
      BY <1>1, <2>3, <2>5 DEF Here
    <3>2. \A t \in Here(streams', n, c) : t # s => t \in Here(streams, n, c)
      BY <2>3 DEF Here
    <3> QED
      BY <2>4, <3>1, <3>2
  <2>7. Joins(streams, streams', n, c, s, job)
    BY <1>1, <1>3, <1>6, <2>3, <2>5, <2>6 DEF Joins
  <2>8. \A m \in Node : Losing(q, m) => Losing(p, m)
    <3> HIDE DEF p, q
    <3> QED
      BY <2>1 DEF Losing
  <2>9. kicks \subseteq kicks' /\ OnlyAt(chain, chain', n, c)
    BY <1>1, <1>3 DEF OnlyOne
  <2>10. \A m \in Node : Losing(chain[n][c], m) => Losing(chain'[n][c], m)
    BY <2>2, <2>8
  <2>11. n \in free => n \in free2
    BY <1>3, <2>9, <2>10, FreedGrows
  <2>12. mesh[n] = "on" => PairFits(p, streams', n, c, e, free2)
    <3> SUFFICES ASSUME mesh[n] = "on" PROVE PairFits(p, streams', n, c, e, free2)
      OBVIOUS
    <3>1. PairFits(q, streams, n, c, e, free)
      BY <1>3, PairIs
    <3> HIDE DEF q, e, free, free2
    <3>2. PairFits(p, streams', n, c, e, free)
      BY <1>3, <1>6, <2>4, <2>7, <3>1, ActivatePair
    <3> HIDE DEF p
    <3> QED
      BY <2>11, <3>2 DEF PairFits
  <2> QED
    BY <1>1, <1>3, <1>5, <2>2, <2>10, <2>12, QuietStep
<1> QED
  BY <1>4, <1>7, <1>8

\* The application is told of a client.
LEMMA CallbackSmooth ==
    ASSUME Base, Smooth, NEW n \in Node, NEW c \in Client,
           CallbackStarts(n, c) \/ CallbackSkipped(n, c) \/ CallbackEnds(n, c)
    PROVE  Smooth'
<1> USE DEF Base
<1> DEFINE b == callbacks[n][c]
           s == b[1].s
           q == chain[n][c]
           e == registry.hash[c]
           free == Freed(kicks, chain, c)
<1>1. UNCHANGED <<mesh, duty, registry, kicks, chain>> /\ OnlyOne(n, c)
  BY CallbackKeeps DEF CallbackStarts, CallbackSkipped, CallbackEnds
<1>2. b \in Seq(Callback) /\ b # <<>>
  BY DEF Flow, CallbackStarts, CallbackSkipped, CallbackEnds, CallbackDue
<1>3. /\ Head(b) = b[1] /\ s \in DOMAIN streams /\ streams[s] \in Stream
      /\ b[1].kind = "connected" => streams[s].step \in {"announcing", "gone"}
  <2>1. CallbacksFit(b, streams, n, c) /\ 1 \in 1..Len(b) /\ Head(b) = b[1]
    BY <1>2 DEF Flow
  <2>2. s \in DOMAIN streams /\ (b[1].kind = "connected" => streams[s].step \in {"announcing", "gone"})
    BY <2>1 DEF CallbacksFit
  <2> QED
    BY <2>1, <2>2 DEF Flow
<1>4. \/ streams' = streams
      \/ streams' = [streams EXCEPT ![s].published = TRUE]
      \/ /\ b[1].kind = "connected" /\ Live(s)
         /\ streams' = [streams EXCEPT ![s].step = "open"]
  BY <1>3 DEF CallbackStarts, CallbackSkipped, CallbackEnds, Opened
<1>5. /\ DOMAIN streams' = DOMAIN streams
      /\ \A t \in DOMAIN streams : /\ streams'[t].client = streams[t].client /\ streams'[t].node = streams[t].node
                                   /\ streams'[t].step = "gone" <=> streams[t].step = "gone"
                                   /\ Early(streams', t) <=> Early(streams, t)
  <2> HIDE DEF s
  <2>1. CASE streams' = streams
    BY <2>1
  <2>2. CASE streams' = [streams EXCEPT ![s].published = TRUE]
    <3>1. streams \in Seq(Stream)
      BY DEF Flow
    <3>2. DOMAIN streams' = DOMAIN streams /\ \A t \in DOMAIN streams : t # s => streams'[t] = streams[t]
      BY <2>2, <3>1
    <3>3. streams'[s] = [streams[s] EXCEPT !.published = TRUE]
      BY <1>3, <2>2, <3>1
    <3>4. streams'[s].step = streams[s].step /\ streams'[s].client = streams[s].client /\ streams'[s].node = streams[s].node
      BY <1>3, <3>3 DEF Stream
    <3> QED
      BY <3>2, <3>4 DEF Early
  <2>3. CASE b[1].kind = "connected" /\ Live(s) /\ streams' = [streams EXCEPT ![s].step = "open"]
    <3>1. streams[s].step = "announcing"
      BY <1>3, <2>3 DEF Live
    <3>2. /\ DOMAIN streams' = DOMAIN streams /\ streams'[s].step = "open"
          /\ \A t \in DOMAIN streams : /\ streams'[t].client = streams[t].client /\ streams'[t].node = streams[t].node
                                       /\ t # s => streams'[t] = streams[t]
      BY <1>3, <2>3, StepMoves
    <3> QED
      BY <3>1, <3>2 DEF Early
  <2> QED
    BY <1>4, <2>1, <2>2, <2>3
<1>6. q \in Seq(Job) /\ QueueFits(q, streams, n, c, mesh[n])
  BY DEF Flow
<1>7. mesh[n] = "on" => PairFits(q, streams', n, c, e, free)
  <2> SUFFICES ASSUME mesh[n] = "on" PROVE PairFits(q, streams', n, c, e, free)
    OBVIOUS
  <2>1. PairFits(q, streams, n, c, e, free)
    BY PairIs
  <2> HIDE DEF q, e, free
  <2> QED
    BY <1>5, <1>6, <2>1, StepPair
<1>8. \A m \in Node : Losing(chain[n][c], m) => Losing(chain'[n][c], m)
  BY <1>1
<1>9. chain'[n][c] = q /\ Freed(kicks', chain', c) = free
  BY <1>1
<1>10. \A k \in kicks : k \in kicks'
  BY <1>1
<1> QED
  BY <1>1, <1>7, <1>8, <1>9, <1>10, QuietStep

\* The queue after its first job has become another one.
LEMMA TurnedHeads ==
    ASSUME Flow, NEW n \in Node, NEW c \in Client, chain[n][c] # <<>>, NEW job \in Job, Turned(n, c, job),
           job.kind = chain[n][c][1].kind, job.s = chain[n][c][1].s
    PROVE  /\ chain'[n][c] \in Seq(Job) /\ Heads(chain[n][c], chain'[n][c]) /\ chain'[n][c][1] = job
           /\ chain[n][c] \in Seq(Job) /\ QueueFits(chain[n][c], streams, n, c, mesh[n]) /\ Len(chain[n][c]) > 0
<1> DEFINE q == chain[n][c]
           p == [q EXCEPT ![1] = job]
<1>1. q \in Seq(Job) /\ Len(q) > 0 /\ Len(q) \in Nat /\ QueueFits(q, streams, n, c, mesh[n])
  BY DEF Flow
<1>2. p \in Seq(Job) /\ Len(p) = Len(q) /\ p[1] = job /\ \A i \in 1..Len(q) : i # 1 => p[i] = q[i]
  BY <1>1
<1>3. Queues(n, c, p)
  BY DEF Turned, Queues
<1> HIDE DEF p
<1>4. chain'[n][c] = p
  BY <1>2, <1>3, PutJobs
<1> QED
  BY <1>1, <1>2, <1>4 DEF Heads

\* A job is sent.
LEMMA SentSmooth ==
    ASSUME Base, Smooth, NEW n \in Node, NEW c \in Client, chain[n][c] # <<>>, NEW job \in Job, Turned(n, c, job),
           OnlyOne(n, c), UNCHANGED <<mesh, duty, registry, kicks, streams>>,
           job.kind = chain[n][c][1].kind, job.s = chain[n][c][1].s, job.reply = "sent",
           chain[n][c][1].reply = "queued",
           Takes(chain[n][c][1]) => Here(streams, n, c) # {},
           job.kind = "backfill" => job.active = ~Early(streams, job.s)
    PROVE  Smooth'
<1> DEFINE q == chain[n][c]
           p == chain'[n][c]
           e == registry.hash[c]
           free == Freed(kicks, chain, c)
           free2 == Freed(kicks', chain', c)
<1>1. /\ q \in Seq(Job) /\ QueueFits(q, streams, n, c, mesh[n]) /\ p \in Seq(Job) /\ Heads(q, p) /\ p[1] = job
  BY TurnedHeads DEF Base
<1>2. \A m \in Node : ~Losing(q, m)
  BY DEF Losing
<1>3. n \in free => n \in free2
  BY <1>2, FreedGrows DEF OnlyOne
<1>4. /\ q[1].reply = "queued" /\ p[1].reply = "sent" /\ (Takes(q[1]) => Here(streams, n, c) # {})
      /\ q[1].kind = "backfill" => p[1].active = ~Early(streams, q[1].s)
  BY <1>1
<1>5. mesh[n] = "on" => PairFits(p, streams', n, c, e, free2)
  <2> SUFFICES ASSUME mesh[n] = "on" PROVE PairFits(p, streams, n, c, e, free2)
    OBVIOUS
  <2>1. PairFits(q, streams, n, c, e, free)
    BY PairIs
  <2> HIDE DEF q, p, e, free, free2
  <2>2. PairFits(p, streams, n, c, e, free)
    BY <1>1, <1>4, <2>1, SendPair
  <2> QED
    BY <1>3, <2>2 DEF PairFits
<1> QED
  BY <1>2, <1>5, QuietStep

\* REGISTER, ACTIVATE or UNREGISTER answers.
LEMMA AnswerSmooth ==
    ASSUME Base, Smooth, NEW n \in Node, NEW c \in Client, chain[n][c] # <<>>, NEW job \in Job, Turned(n, c, job),
           OnlyOne(n, c), UNCHANGED <<mesh, duty, kicks, streams>>,
           job.kind = chain[n][c][1].kind, job.s = chain[n][c][1].s, job.active = chain[n][c][1].active,
           chain[n][c][1].reply = "sent",
           \/ job.reply = "yes" /\ Grants(chain[n][c][1], n, registry.hash[c], registry'.hash[c])
           \/ job.reply = "no" /\ Denies(chain[n][c][1], n, registry.hash[c], registry'.hash[c]),
           \A d \in Client : d # c => registry'.hash[d] = registry.hash[d],
           \A m \in Node : m # n =>
              \/ registry'.hash[c] = registry.hash[c]
              \/ /\ registry'.hash[c].node # m
                 /\ registry.hash[c].node = m => Takes(job) /\ job.reply = "yes" /\ job.old = m
    PROVE  Smooth'
<1> DEFINE q == chain[n][c]
           p == chain'[n][c]
           e == registry.hash[c]
           e2 == registry'.hash[c]
           free == Freed(kicks, chain, c)
           free2 == Freed(kicks', chain', c)
<1>1. /\ q \in Seq(Job) /\ QueueFits(q, streams, n, c, mesh[n]) /\ p \in Seq(Job) /\ Heads(q, p) /\ p[1] = job /\ Len(q) > 0
  BY TurnedHeads DEF Base
<1>2. \A m \in Node : ~Losing(q, m)
  BY DEF Losing
<1>3. n \in free => n \in free2
  BY <1>2, FreedGrows DEF OnlyOne
<1>4. ~Idle(mesh[n])
  <2>1. 1 \in 1..Len(q)
    BY <1>1
  <2> QED
    BY <1>1, <2>1 DEF QueueFits, InLife, Idle
<1>5. /\ q[1].reply = "sent" /\ p[1].active = q[1].active
      /\ \/ p[1].reply = "yes" /\ Grants(q[1], n, e, e2)
         \/ p[1].reply = "no" /\ Denies(q[1], n, e, e2)
  BY <1>1
<1>6. mesh[n] = "on" => PairFits(p, streams', n, c, e2, free2)
  <2> SUFFICES ASSUME mesh[n] = "on" PROVE PairFits(p, streams, n, c, e2, free2)
    OBVIOUS
  <2>1. PairFits(q, streams, n, c, e, free) /\ StreamsFit(streams)
    BY PairIs DEF Base, Flow
  <2> HIDE DEF q, p, e, e2, free, free2
  <2> QED
    BY <1>1, <1>3, <1>5, <2>1, AnswerPair
<1>7. PairSmooth(mesh[n], p, streams', n, c, e2, free2)
  BY <1>4, <1>6 DEF PairSmooth
<1>8. Spared(n, c)
  <2> SUFFICES ASSUME NEW m \in Node, NEW d \in Client, ~(m = n /\ d = c)
               PROVE  /\ m \in Freed(kicks, chain, d) => m \in Freed(kicks', chain', d)
                      /\ \/ registry'.hash[d] = registry.hash[d]
                         \/ registry'.hash[d].node # m /\ (registry.hash[d].node = m => m \in Freed(kicks', chain', d))
    BY DEF Spared
  <2>1. m \in Freed(kicks, chain, d) => m \in Freed(kicks', chain', d)
    BY <1>2, FreedRemains DEF OnlyOne
  <2>2. CASE d # c
    BY <2>1, <2>2
  <2>3. CASE d = c
    <3>1. m # n
      BY <2>3
    <3>2. Takes(job) /\ job.reply = "yes" /\ job.old = m => Losing(p, m)
      BY <1>1 DEF Losing, Heads
    <3>3. Losing(p, m) => m \in Freed(kicks', chain', c)
      BY DEF Freed
    <3> QED
      BY <2>1, <2>3, <3>1, <3>2, <3>3
  <2> QED
    BY <2>2, <2>3
<1> QED
  BY <1>7, <1>8, PairStep

\* The first job has its answer.
LEMMA AnswerTurns ==
    ASSUME Flow, NEW n \in Node, NEW c \in Client, chain[n][c] # <<>>,
           NEW reply, NEW old, Answer(n, c, reply, old)
    PROVE  Turned(n, c, [chain[n][c][1] EXCEPT !.reply = reply, !.old = old])
<1>1. chain[n][c][1] \in Job /\ chain[n][c] \in Seq(Job) /\ 1 \in DOMAIN chain[n][c]
      /\ n \in DOMAIN chain /\ c \in DOMAIN chain[n]
  BY First DEF Flow
<1> QED
  BY <1>1 DEF Answer, Turned

\* A script runs.
LEMMA ExecuteSmooth ==
    ASSUME Base, Fresh, Smooth, NEW n \in Node, NEW c \in Client, Execute(n, c)
    PROVE  Smooth'
<1> USE DEF Base
<1> DEFINE q == chain[n][c]
           owner == registry.hash[c].node
           left == KeyTtl - ticks
           Replied(reply, old) == [q[1] EXCEPT !.reply = reply, !.old = old]
<1>1. /\ q # <<>> /\ q[1].reply = "sent" /\ Head(q) = q[1] /\ q[1] \in Job /\ OnlyOne(n, c)
      /\ UNCHANGED <<mesh, duty, kicks, streams>> /\ q \in Seq(Job) /\ 1 \in DOMAIN q
      /\ n \in DOMAIN chain /\ c \in DOMAIN chain[n]
  <2>1. q # <<>> /\ Head(q) = q[1] /\ q[1] \in Job /\ q \in Seq(Job)
    BY First DEF Execute
  <2>2. Flow' /\ OnlyOne(n, c)
    BY RedisKeeps DEF IInv
  <2> QED
    BY <2>1, <2>2 DEF Execute, Flow
<1>2. registry \in Registries /\ owner \in Node \cup {NoNode} /\ left \in Int /\ left <= KeyTtl /\ FreshFor(registry, left)
  BY RegistryAssumption DEF IInv, Registries, Registration, Types, Fresh
<1>3. ASSUME NEW reply \in {"yes", "no"}, NEW old \in Node \cup {NoNode}
      PROVE  /\ Replied(reply, old) \in Job /\ Replied(reply, old).reply = reply /\ Replied(reply, old).old = old
             /\ Replied(reply, old).kind = q[1].kind /\ Replied(reply, old).s = q[1].s
             /\ Replied(reply, old).active = q[1].active
             /\ Answer(n, c, reply, old) => Turned(n, c, Replied(reply, old))
  <2> DEFINE job == [q[1] EXCEPT !.reply = reply, !.old = old]
  <2>1. job \in Job /\ job.reply = reply /\ job.old = old /\ job.kind = q[1].kind /\ job.s = q[1].s /\ job.active = q[1].active
    BY <1>1 DEF Job
  <2>2. Answer(n, c, reply, old) => Turned(n, c, job)
    BY <1>1, AnswerTurns
  <2> QED
    BY <2>1, <2>2
<1>4. ASSUME NEW reply \in {"yes", "no"}, NEW old \in Node \cup {NoNode}, Answer(n, c, reply, old),
             \/ reply = "yes" /\ Grants(q[1], n, registry.hash[c], registry'.hash[c])
             \/ reply = "no" /\ Denies(q[1], n, registry.hash[c], registry'.hash[c]),
             \A d \in Client : d # c => registry'.hash[d] = registry.hash[d],
             \A m \in Node : m # n =>
                \/ registry'.hash[c] = registry.hash[c]
                \/ /\ registry'.hash[c].node # m
                   /\ owner = m => Takes(q[1]) /\ reply = "yes" /\ old = m
      PROVE  Smooth'
  <2> DEFINE job == Replied(reply, old)
  <2> HIDE DEF Replied
  <2>1. /\ job \in Job /\ job.reply = reply /\ job.old = old /\ job.kind = q[1].kind /\ job.s = q[1].s
        /\ job.active = q[1].active /\ Turned(n, c, job)
    BY <1>3, <1>4
  <2>2. Takes(job) <=> Takes(q[1])
    BY <2>1 DEF Takes
  <2> HIDE DEF job
  <2> QED
    BY <1>1, <1>4, <2>1, <2>2, AnswerSmooth
<1> HIDE DEF left
<1>5. CASE Answer(n, c, "no", NoNode) /\ registry' = registry /\ (Takes(q[1]) \/ owner # n)
  <2>1. Denies(q[1], n, registry.hash[c], registry'.hash[c])
    BY <1>5 DEF Denies
  <2> HIDE DEF Replied, q
  <2> QED
    BY <1>4, <1>5, <2>1 DEF q
<1>6. ASSUME NEW state \in {"pending", "active"}, state = IF q[1].active THEN "active" ELSE "pending", Takes(q[1]),
             registry' = Register(registry, c, n, state), Answer(n, c, "yes", IF owner = n THEN NoNode ELSE owner)
      PROVE  Smooth'
  <2>1. registry'.hash = [registry.hash EXCEPT ![c] = [node |-> n, state |-> state]]
    <3>1. Register(registry, c, n, state).hash = [registry.hash EXCEPT ![c] = [node |-> n, state |-> state]]
      BY DEF Register, Tidy
    <3> QED
      BY <1>6, <3>1
  <2>2. registry'.hash[c] = [node |-> n, state |-> state] /\ \A d \in Client : d # c => registry'.hash[d] = registry.hash[d]
    BY <1>2, <2>1 DEF Registries
  <2>3. Grants(q[1], n, registry.hash[c], registry'.hash[c])
    BY <1>6, <2>2 DEF Grants
  <2> DEFINE old == IF owner = n THEN NoNode ELSE owner
  <2>4. old \in Node \cup {NoNode} /\ \A m \in Node : m # n => registry'.hash[c].node # m /\ (owner = m => old = m)
    BY <1>2, <2>2
  <2>5. Answer(n, c, "yes", old)
    BY <1>6
  <2> HIDE DEF Replied, q, old, owner
  <2> QED
    BY <1>4, <1>6, <2>2, <2>3, <2>4, <2>5 DEF q
<1>7. CASE q[1].kind = "activate" /\ owner = n /\ registry' = Activate(registry, c, n) /\ Answer(n, c, "yes", NoNode)
  <2>1. registry'.hash = [registry.hash EXCEPT ![c] = [node |-> n, state |-> "active"]]
    BY <1>2, <1>7, ActivateFresh
  <2>2. registry'.hash[c] = [node |-> n, state |-> "active"] /\ \A d \in Client : d # c => registry'.hash[d] = registry.hash[d]
    BY <1>2, <2>1 DEF Registries
  <2>3. Grants(q[1], n, registry.hash[c], registry'.hash[c])
    BY <1>7, <2>2 DEF Grants
  <2>4. \A m \in Node : m # n => registry'.hash[c].node # m /\ owner # m
    BY <1>7, <2>2
  <2> HIDE DEF Replied, q
  <2> QED
    BY <1>4, <1>7, <2>2, <2>3, <2>4 DEF q
<1>8. CASE q[1].kind = "disconnect" /\ owner = n /\ registry' = Unregister(registry, c, n) /\ Answer(n, c, "yes", NoNode)
  <2>1. registry'.hash = [registry.hash EXCEPT ![c] = Absent]
    BY <1>2, <1>8, UnregisterFresh
  <2>2. registry'.hash[c] = Absent /\ \A d \in Client : d # c => registry'.hash[d] = registry.hash[d]
    BY <1>2, <2>1 DEF Registries
  <2>3. registry'.hash[c].node = NoNode
    BY <2>2 DEF Absent
  <2>4. Grants(q[1], n, registry.hash[c], registry'.hash[c])
    BY <1>8, <2>3, RegistryAssumption DEF Grants
  <2>5. \A m \in Node : m # n => registry'.hash[c].node # m /\ owner # m
    BY <1>8, <2>3, RegistryAssumption
  <2> HIDE DEF Replied, q
  <2> QED
    BY <1>4, <1>8, <2>2, <2>4, <2>5 DEF q
<1>9. (Claims(n, c) <=> Takes(q[1])) /\ (Owns(n, c) <=> owner = n)
  BY <1>1 DEF Claims, Takes, Owns, Owner
<1> QED
  BY <1>1, <1>5, <1>6, <1>7, <1>8, <1>9 DEF Execute, Owner

\* A job starts: it is sent, or there is nothing to do any more.
LEMMA StartsSmooth ==
    ASSUME Base, Smooth, NEW n \in Node, NEW c \in Client, JobStarts(n, c)
    PROVE  Smooth'
<1> USE DEF Base
<1> DEFINE q == chain[n][c]
           s == q[1].s
<1>1. /\ q # <<>> /\ q[1].reply = "queued" /\ UNCHANGED <<mesh, duty, registry, kicks>> /\ OnlyOne(n, c)
      /\ q[1] \in Job /\ Head(q) = q[1] /\ Subject(n, c) = s
      /\ s \in DOMAIN streams /\ streams[s] \in Stream /\ (Live(s) => s \in Here(streams, n, c))
      /\ s \in Here(streams, n, c) => Live(s)
      /\ q[1].kind = "reserve" => streams[s].step \in {"checking", "gone"}
  <2>1. q # <<>> /\ Head(q).reply = "queued" /\ UNCHANGED <<mesh, duty, registry, kicks>>
    BY DEF JobStarts, ReserveStarts, ActivateStarts, DisconnectStarts, BackfillStarts, Due
  <2>2. OnlyOne(n, c)
    BY JobStartsKeep
  <2>3. /\ q[1] \in Job /\ Head(q) = q[1] /\ s \in DOMAIN streams /\ streams[s] \in Stream
        /\ (Live(s) => s \in Here(streams, n, c)) /\ (q[1].kind = "reserve" => streams[s].step \in {"checking", "gone"})
    BY <2>1, First
  <2>4. s \in Here(streams, n, c) => Live(s)
    BY <2>3, RegistryAssumption DEF Here, Live, Flow, StreamsFit
  <2> QED
    BY <2>1, <2>2, <2>3, <2>4 DEF Subject
<1>2. Current(n, c) = Here(streams, n, c)
  BY DEF Current, Here
<1>3. \A m \in Node : ~Losing(q, m)
  BY <1>1 DEF Losing
<1>4. ASSUME Send(n, c), streams' = streams, q[1].kind # "backfill", Takes(q[1]) => Here(streams, n, c) # {}
      PROVE  Smooth'
  <2> DEFINE job == [q[1] EXCEPT !.reply = "sent"]
  <2>1. job \in Job /\ job.kind = q[1].kind /\ job.s = s /\ job.reply = "sent"
    BY <1>1 DEF Job
  <2>2. Turned(n, c, job)
    BY <1>4 DEF Send, Turned
  <2> HIDE DEF job
  <2> QED
    BY <1>1, <1>4, <2>1, <2>2, SentSmooth
<1>5. ASSUME Finish(n, c),
             \/ streams' = streams
             \/ q[1].kind = "reserve" /\ Live(s) /\ streams' = [streams EXCEPT ![s].step = "connecting"],
             mesh[n] = "on" =>
                 /\ q[1].kind = "disconnect" => Here(streams, n, c) # {}
                 /\ q[1].kind # "disconnect" => s \notin Here(streams, n, c)
      PROVE  Smooth'
  <2>1. Advanced(streams, streams', s) /\ \A t \in DOMAIN streams : Early(streams', t) <=> Early(streams, t)
    <3>1. CASE streams' = streams
      BY <3>1 DEF Advanced
    <3>2. CASE q[1].kind = "reserve" /\ Live(s) /\ streams' = [streams EXCEPT ![s].step = "connecting"]
      <4>1. streams[s].step = "checking"
        BY <1>1, <3>2 DEF Live
      <4>2. /\ DOMAIN streams' = DOMAIN streams /\ streams'[s].step = "connecting"
            /\ \A t \in DOMAIN streams : /\ streams'[t].client = streams[t].client /\ streams'[t].node = streams[t].node
                                         /\ t # s => streams'[t] = streams[t]
        BY <1>1, <3>2, StepMoves
      <4> HIDE DEF s
      <4> QED
        BY <4>1, <4>2 DEF Advanced, Early
    <3> QED
      BY <1>5, <3>1, <3>2
  <2> QED
    BY <1>1, <1>3, <1>5, <2>1, PopSmooth
<1>6. CASE ReserveStarts(n, c)
  <2>0. q[1].kind = "reserve"
    BY <1>1, <1>6 DEF ReserveStarts, Due
  <2>1. CASE Live(s) /\ Running(n)
    BY <1>1, <1>4, <1>6, <2>0, <2>1 DEF ReserveStarts
  <2>2. CASE ~(Live(s) /\ Running(n))
    BY <1>1, <1>5, <1>6, <2>0, <2>2 DEF ReserveStarts, Running
  <2> QED
    BY <2>1, <2>2
<1>7. CASE ActivateStarts(n, c)
  <2>0. q[1].kind = "activate"
    BY <1>1, <1>7 DEF ActivateStarts, Due
  <2>1. CASE Live(s) /\ Running(n)
    BY <1>1, <1>4, <1>7, <2>0, <2>1 DEF ActivateStarts, Takes
  <2>2. CASE ~(Live(s) /\ Running(n))
    BY <1>1, <1>7, <2>0, <2>2, RestSmooth DEF ActivateStarts
  <2> QED
    BY <2>1, <2>2
<1>8. CASE DisconnectStarts(n, c)
  <2>0. q[1].kind = "disconnect" /\ streams' = streams
    BY <1>1, <1>8 DEF DisconnectStarts, Due
  <2>1. CASE Current(n, c) = {} /\ Running(n)
    BY <1>4, <1>8, <2>0, <2>1 DEF DisconnectStarts, Takes
  <2>2. CASE ~(Current(n, c) = {} /\ Running(n))
    BY <1>2, <1>5, <1>8, <2>0, <2>2 DEF DisconnectStarts, Running
  <2> QED
    BY <2>1, <2>2
<1>9. CASE BackfillStarts(n, c)
  <2>0. q[1].kind = "backfill" /\ streams' = streams
    BY <1>1, <1>9 DEF BackfillStarts, Due
  <2>1. CASE Live(s) /\ Running(n)
    <3> DEFINE active == streams[s].step \notin {"checking", "connecting"}
               job == [q[1] EXCEPT !.reply = "sent", !.active = active]
    <3>1. chain' = [chain EXCEPT ![n][c][1].reply = "sent", ![n][c][1].active = active]
      BY <1>1, <1>9, <2>1 DEF BackfillStarts
    <3>2. q \in Seq(Job) /\ 1 \in DOMAIN q /\ n \in DOMAIN chain /\ c \in DOMAIN chain[n]
      BY <1>1, First DEF Flow
    <3>3. active = ~Early(streams, s)
      BY DEF Early
    <3> HIDE DEF active
    <3>4. Turned(n, c, job)
      BY <1>1, <3>1, <3>2 DEF Turned
    <3>5. active \in BOOLEAN
      BY DEF active
    <3>6. /\ job \in Job /\ job.kind = q[1].kind /\ job.s = s /\ job.reply = "sent" /\ job.active = active
      BY <1>1, <3>5 DEF Job
    <3> HIDE DEF job
    <3>7. Takes(q[1]) => Here(streams, n, c) # {}
      BY <1>1, <2>1
    <3>8. job.active = ~Early(streams, job.s)
      BY <3>3, <3>6
    <3> HIDE DEF s
    <3> QED
      BY <1>1, <2>0, <3>4, <3>6, <3>7, <3>8, SentSmooth DEF s
  <2>2. CASE ~(Live(s) /\ Running(n))
    BY <1>1, <1>5, <1>9, <2>0, <2>2 DEF BackfillStarts, Running
  <2> QED
    BY <2>1, <2>2
<1> QED
  BY <1>6, <1>7, <1>8, <1>9 DEF JobStarts

\* A job ends.
LEMMA EndsSmooth ==
    ASSUME Base, Smooth, NEW n \in Node, NEW c \in Client, JobEnds(n, c)
    PROVE  Smooth'
<1> USE DEF Base
<1> DEFINE q == chain[n][c]
           s == q[1].s
<1>1. /\ q # <<>> /\ q[1].reply \in {"yes", "no", "error"} /\ UNCHANGED <<mesh, duty, registry>> /\ OnlyOne(n, c)
      /\ q[1] \in Job /\ Head(q) = q[1] /\ Subject(n, c) = s
      /\ s \in DOMAIN streams /\ streams[s] \in Stream
      /\ q[1].kind = "reserve" => streams[s].step \in {"checking", "gone"}
      /\ q[1].kind = "activate" => streams[s].step \in {"activating", "gone"}
      /\ QueueFits(q, streams, n, c, mesh[n]) /\ Len(q) > 0
  <2>1. q # <<>> /\ Head(q).reply \in {"yes", "no", "error"} /\ UNCHANGED <<mesh, duty, registry>>
    BY DEF JobEnds, ReserveEnds, ActivateEnds, DisconnectEnds, BackfillEnds, Answered
  <2>2. OnlyOne(n, c)
    BY JobEndsKeep
  <2>3. /\ q[1] \in Job /\ Head(q) = q[1] /\ s \in DOMAIN streams /\ streams[s] \in Stream
        /\ (q[1].kind = "reserve" => streams[s].step \in {"checking", "gone"})
        /\ (q[1].kind = "activate" => streams[s].step \in {"activating", "gone"})
        /\ QueueFits(q, streams, n, c, mesh[n]) /\ Len(q) > 0
    BY <2>1, First
  <2> QED
    BY <2>1, <2>2, <2>3 DEF Subject
<1>2. mesh[n] = "on" => q[1].reply # "error"
  <2> SUFFICES ASSUME mesh[n] = "on" PROVE q[1].reply # "error"
    OBVIOUS
  <2>1. PairFits(q, streams, n, c, registry.hash[c], Freed(kicks, chain, c))
    BY PairIs
  <2>2. Flawless(q) /\ 1 \in 1..Len(q)
    BY <1>1, <2>1 DEF PairFits
  <2> QED
    BY <2>2 DEF Flawless
<1>3. KickOld(n, c) => kicks \subseteq kicks' /\ \A m \in Node : Losing(q, m) => [node |-> m, client |-> c] \in kicks'
  BY <1>1, RegistryAssumption DEF KickOld, Losing
<1>4. ASSUME Finish(n, c), kicks \subseteq kicks',
             \A m \in Node : Losing(q, m) => [node |-> m, client |-> c] \in kicks',
             \/ streams' = streams
             \/ /\ Live(s)
                /\ \/ q[1].kind = "reserve" /\ streams' = [streams EXCEPT ![s].step = "connecting"]
                   \/ q[1].kind = "activate" /\ streams' = [streams EXCEPT ![s].step = "announcing"],
             q[1].reply = "yes" \/ q[1].kind = "disconnect" \/ (q[1].kind = "backfill" /\ q[1].reply = "error")
      PROVE  Smooth'
  <2>1. Advanced(streams, streams', s) /\ \A t \in DOMAIN streams : Early(streams', t) <=> Early(streams, t)
    <3>1. CASE streams' = streams
      BY <3>1 DEF Advanced
    <3>2. ASSUME NEW step, streams' = [streams EXCEPT ![s].step = step],
                 \/ streams[s].step = "checking" /\ step = "connecting"
                 \/ streams[s].step = "activating" /\ step = "announcing"
          PROVE  Advanced(streams, streams', s) /\ \A t \in DOMAIN streams : Early(streams', t) <=> Early(streams, t)
      <4>1. /\ DOMAIN streams' = DOMAIN streams /\ streams'[s].step = step
            /\ \A t \in DOMAIN streams : /\ streams'[t].client = streams[t].client /\ streams'[t].node = streams[t].node
                                         /\ t # s => streams'[t] = streams[t]
        BY <1>1, <3>2, StepMoves
      <4> HIDE DEF s
      <4> QED
        BY <3>2, <4>1 DEF Advanced, Early
    <3> QED
      BY <1>1, <1>4, <3>1, <3>2 DEF Live
  <2>2. mesh[n] = "on" =>
           /\ q[1].kind = "disconnect" => q[1].reply \notin {"queued", "sent"}
           /\ q[1].kind # "disconnect" => q[1].reply = "yes"
    BY <1>1, <1>2, <1>4
  <2> QED
    BY <1>1, <1>4, <2>1, <2>2, PopSmooth
<1>5. ASSUME Leave(n, c, Subject(n, c), Rest(n, c)), kicks' = kicks, q[1].kind # "disconnect", q[1].reply # "yes"
      PROVE  Smooth'
  BY <1>1, <1>5, RestSmooth
<1>6. CASE ReserveEnds(n, c)
  <2>1. CASE Answered(n, c, "reserve", {"yes"})
    <3>1. /\ q[1].kind = "reserve" /\ q[1].reply = "yes" /\ KickOld(n, c) /\ Finish(n, c)
          /\ streams' = IF Live(s) THEN [streams EXCEPT ![s].step = "connecting"] ELSE streams
      BY <1>1, <1>6, <2>1 DEF ReserveEnds, Answered
    <3> QED
      BY <1>3, <1>4, <3>1
  <2>2. CASE ~Answered(n, c, "reserve", {"yes"})
    BY <1>1, <1>5, <1>6, <2>2 DEF ReserveEnds, Answered
  <2> QED
    BY <2>1, <2>2
<1>7. CASE ActivateEnds(n, c)
  <2>1. CASE Answered(n, c, "activate", {"yes"})
    <3>1. /\ q[1].kind = "activate" /\ q[1].reply = "yes" /\ kicks' = kicks /\ Finish(n, c)
          /\ streams' = IF Live(s) THEN [streams EXCEPT ![s].step = "announcing"] ELSE streams
      BY <1>1, <1>7, <2>1 DEF ActivateEnds, Answered
    <3>2. \A m \in Node : ~Losing(q, m)
      BY <3>1 DEF Losing, Takes
    <3> QED
      BY <1>4, <3>1, <3>2
  <2>2. CASE ~Answered(n, c, "activate", {"yes"})
    BY <1>1, <1>5, <1>7, <2>2 DEF ActivateEnds, Answered
  <2> QED
    BY <2>1, <2>2
<1>8. CASE DisconnectEnds(n, c)
  <2>1. q[1].kind = "disconnect" /\ kicks' = kicks /\ Finish(n, c) /\ streams' = streams
    BY <1>1, <1>8 DEF DisconnectEnds, Answered
  <2>2. \A m \in Node : ~Losing(q, m)
    BY <2>1 DEF Losing, Takes
  <2> QED
    BY <1>4, <2>1, <2>2
<1>9. CASE BackfillEnds(n, c)
  <2>1. CASE Answered(n, c, "backfill", {"yes", "error"})
    <3>1. /\ q[1].kind = "backfill" /\ q[1].reply \in {"yes", "error"} /\ KickOld(n, c) /\ Finish(n, c)
          /\ streams' = streams
      BY <1>1, <1>9, <2>1 DEF BackfillEnds, Answered
    <3> QED
      BY <1>3, <1>4, <3>1
  <2>2. CASE ~Answered(n, c, "backfill", {"yes", "error"})
    BY <1>1, <1>5, <1>9, <2>2 DEF BackfillEnds, Answered
  <2> QED
    BY <2>1, <2>2
<1> QED
  BY <1>6, <1>7, <1>8, <1>9 DEF JobEnds

\* What happens to the nodes N, or to none of them, leaves the other nodes as they are.
LEMMA NodesSmooth ==
    ASSUME Base, Smooth, NEW N \in SUBSET Node, UNCHANGED <<streams, kicks, duty>>,
           \A m \in N : mesh'[m] # "dead",
           \A m \in Node \ N : mesh'[m] = mesh[m],
           \A m \in Node \ N, d \in Client : chain'[m][d] = chain[m][d],
           \A m \in N, d \in Client : chain'[m][d] = chain[m][d] \/ \A l \in Node : ~Losing(chain[m][d], l),
           \A m \in Node \ N, d \in Client :
              \/ registry'.hash[d] = registry.hash[d]
              \/ registry'.hash[d].node # m /\ registry.hash[d].node # m,
           \A m \in N, d \in Client :
              PairSmooth(mesh'[m], chain'[m][d], streams, m, d, registry'.hash[d], Freed(kicks', chain', d))
    PROVE  Smooth'
<1>1. \A m \in Node : Up(m)' /\ duty'[m] = {}
  BY DEF Smooth, Up
<1>2. ASSUME NEW m \in Node, NEW d \in Client, m \in Freed(kicks, chain, d) PROVE m \in Freed(kicks', chain', d)
  <2>1. CASE [node |-> m, client |-> d] \in kicks
    BY <2>1 DEF Freed
  <2>2. ASSUME NEW k \in Node, Losing(chain[k][d], m) PROVE m \in Freed(kicks', chain', d)
    <3>1. chain'[k][d] = chain[k][d]
      BY <2>2
    <3> QED
      BY <2>2, <3>1 DEF Freed
  <2> QED
    BY <1>2, <2>1, <2>2 DEF Freed
<1>3. ASSUME NEW m \in Node, NEW d \in Client PROVE SmoothAt(m, d)'
  <2>1. CASE m \in N
    BY <2>1 DEF SmoothAt
  <2>2. CASE m \notin N
    <3> DEFINE q == chain[m][d]
               e == registry.hash[d]
               e2 == registry'.hash[d]
               free == Freed(kicks, chain, d)
               free2 == Freed(kicks', chain', d)
    <3>1. chain'[m][d] = q /\ mesh'[m] = mesh[m] /\ streams' = streams
      BY <2>2
    <3>2. q \in Seq(Job) /\ QueueFits(q, streams, m, d, mesh[m]) /\ SameFor(streams, streams, m, d)
      BY DEF Base, Flow, SameFor
    <3>3. PairSmooth(mesh[m], q, streams, m, d, e, free)
      BY DEF Smooth, SmoothAt
    <3>4. m \in free => m \in free2
      BY <1>2
    <3>5. e2 = e \/ (e2.node # m /\ e.node # m)
      BY <2>2
    <3> HIDE DEF q, e, e2, free, free2
    <3>6. mesh[m] = "on" => PairFits(q, streams, m, d, e2, free2)
      <4> SUFFICES ASSUME mesh[m] = "on" PROVE PairFits(q, streams, m, d, e2, free2)
        OBVIOUS
      <4>1. PairFits(q, streams, m, d, e, free)
        BY <3>3 DEF PairSmooth
      <4> QED
        BY <3>2, <3>4, <3>5, <4>1, OthersPair
    <3>7. PairSmooth(mesh[m], q, streams, m, d, e2, free2)
      BY <3>3, <3>5, <3>6 DEF PairSmooth
    <3> QED
      BY <3>1, <3>7 DEF SmoothAt, q, e2, free2
  <2> QED
    BY <2>1, <2>2
<1> QED
  BY <1>1, <1>3 DEF Smooth

\* Time passes.
LEMMA TickSmooth ==
    ASSUME Base, Fresh, Smooth, MaxTicks < KeyTtl, Tick
    PROVE  Smooth'
<1> DEFINE left == KeyTtl - ticks
<1>1. left \in Int /\ left > 1 /\ FreshFor(registry, left) /\ registry \in Registries /\ registry' = Aged(registry)
  BY RegistryAssumption, ClientsAssumption DEF Tick, Fresh, Base, Types, IInv
<1> HIDE DEF left
<1>2. \A d \in Client : /\ registry'.hash[d] = registry.hash[d] \/ registry.hash[d].node = NoNode
                        /\ registry'.hash[d].node = registry.hash[d].node
  BY <1>1, AgedFresh
<1>3. \A m \in Node, d \in Client :
         \/ registry'.hash[d] = registry.hash[d]
         \/ registry'.hash[d].node # m /\ registry.hash[d].node # m
  BY <1>2, RegistryAssumption
<1>4. UNCHANGED <<streams, kicks, duty, mesh, chain>>
  BY DEF Tick
<1> DEFINE N == {}
<1>5. N \in SUBSET Node /\ N = {}
  OBVIOUS
<1> HIDE DEF N
<1> QED
  BY <1>3, <1>4, <1>5, NodesSmooth

\* Its mesh lives on, while the clients do nothing; once it is idle it owns none of them.
Lives(n, life) == mesh' = [mesh EXCEPT ![n] = life] /\ life \notin {"dead", "on"}

\* The other nodes keep what they own, and the node owns nothing once its mesh is idle.
Frees(n, life) ==
    /\ \A m \in Node, d \in Client : m # n =>
          \/ registry'.hash[d] = registry.hash[d]
          \/ registry'.hash[d].node # m /\ registry.hash[d].node # m
    /\ Idle(life) => \A d \in Client : registry'.hash[d].node # n

\* A stop, or a step of one, leaves the pairs smooth.
LEMMA LifeSmooth ==
    ASSUME Base, Smooth, NEW n \in Node, NEW life, Lives(n, life), Frees(n, life),
           streams' = streams, kicks' = kicks, duty' = duty, chain' = chain
    PROVE  Smooth'
<1> DEFINE N == {n}
<1>1. N \in SUBSET Node /\ (\A m \in N : m = n) /\ \A m \in Node \ N : m # n
  OBVIOUS
<1>2. mesh'[n] = life /\ \A m \in Node : m # n => mesh'[m] = mesh[m]
  BY DEF Base, Types, Lives
<1>3. \A d \in Client : PairSmooth(life, chain'[n][d], streams, n, d, registry'.hash[d], Freed(kicks', chain', d))
  BY DEF PairSmooth, Lives, Frees
<1> HIDE DEF N
<1> QED
  BY <1>1, <1>2, <1>3, NodesSmooth DEF Lives, Frees

\* The mesh of a node goes on.
LEMMA MeshSmooth ==
    ASSUME Base, Fresh, Smooth, Drained, NEW n \in Node, MeshEvent(n), faults' = faults
    PROVE  Smooth'
<1> USE DEF Base
<1>0. faults \in Nat /\ mesh \in [Node -> MeshState] /\ chain \in [Node -> [Client -> Seq(Job)]]
  BY DEF Types, Flow
<1>2. Idle(mesh[n]) => \A d \in Client : registry.hash[d].node # n
  BY DEF Smooth, SmoothAt, PairSmooth
<1>3. CASE MeshStarting(n)
  <2>1. /\ streams' = streams /\ kicks' = kicks /\ duty' = duty /\ chain' = chain /\ registry' = registry
        /\ Lives(n, "starting") /\ Idle(mesh[n])
    BY <1>3 DEF MeshStarting, Idle, Lives
  <2>2. Frees(n, "starting")
    BY <1>2, <2>1 DEF Frees, Idle
  <2> QED
    BY <2>1, <2>2, LifeSmooth
<1>4. CASE MeshStops(n)
  <2>1. /\ streams' = streams /\ kicks' = kicks /\ duty' = duty /\ chain' = chain /\ registry' = registry
        /\ Lives(n, "closing")
    BY <1>4 DEF MeshStops, Idle, Lives
  <2>2. Frees(n, "closing")
    BY <1>2, <2>1 DEF Frees, Idle
  <2> QED
    BY <2>1, <2>2, LifeSmooth
<1>5. CASE MeshClosed(n)
  <2>1. /\ streams' = streams /\ kicks' = kicks /\ duty' = duty /\ chain' = chain /\ registry' = registry
        /\ Lives(n, "closed") /\ Idle(mesh[n])
    BY <1>5 DEF MeshClosed, Idle, Lives
  <2>2. Frees(n, "closed")
    BY <1>2, <2>1 DEF Frees, Idle
  <2> QED
    BY <2>1, <2>2, LifeSmooth
<1>6. CASE CleanupOwn(n)
  <2>1. /\ streams' = streams /\ kicks' = kicks /\ duty' = duty /\ chain' = chain
        /\ Lives(n, "stopping") /\ registry' = CleanupNode(registry, n)
    BY <1>0, <1>6 DEF CleanupOwn, Fault, Lives
  <2> DEFINE left == KeyTtl - ticks
  <2>2. registry \in Registries /\ Consistent(registry) /\ left \in Int /\ FreshFor(registry, left)
    BY RegistryAssumption DEF IInv, RegistryConsistent, Fresh, Types
  <2> HIDE DEF left
  <2>3. \A d \in Client : /\ registry'.hash[d].node # n
                          /\ registry.hash[d].node # n => registry'.hash[d] = registry.hash[d]
                          /\ registry.hash[d].node = n => registry'.hash[d].node = NoNode
    BY <2>1, <2>2, CleanupFresh
  <2>4. \A m \in Node, d \in Client : m # n =>
           \/ registry'.hash[d] = registry.hash[d]
           \/ registry'.hash[d].node # m /\ registry.hash[d].node # m
    BY <2>3, RegistryAssumption
  <2>5. Frees(n, "stopping")
    BY <2>3, <2>4 DEF Frees
  <2> QED
    BY <2>1, <2>5, LifeSmooth
<1>7. CASE MeshStarted(n)
  <2>1. UNCHANGED <<streams, kicks, duty, registry>> /\ mesh[n] = "starting" /\ mesh'[n] = "on"
        /\ \A m \in Node : m # n => mesh'[m] = mesh[m]
    BY <1>0, <1>7 DEF MeshStarted
  <2>2. ASSUME NEW d \in Client PROVE chain[n][d] = <<>>
    <3>1. chain[n][d] \in Seq(Job) /\ InLife(chain[n][d], mesh[n])
      BY DEF Flow, QueueFits
    <3>2. \A i \in 1..Len(chain[n][d]) : chain[n][d][i].reply = "queued"
      BY <2>1, <3>1 DEF InLife
    <3>3. chain[n][d] # <<>> => Head(chain[n][d]).reply # "queued"
      BY <2>1 DEF Drained, Up
    <3> QED
      BY <3>1, <3>2, <3>3
  <2>3. \A m \in Node, d \in Client : m # n => chain'[m][d] = chain[m][d]
    BY <1>0, <1>7 DEF MeshStarted
  <2>4. ASSUME NEW d \in Client
        PROVE  PairFits(chain'[n][d], streams, n, d, registry.hash[d], Freed(kicks', chain', d))
    <3>1. registry.hash[d].node # n
      BY <1>2, <2>1 DEF Idle
    <3>2. Current(n, d) = Here(streams, n, d)
      BY DEF Current, Here
    <3>3. CASE Here(streams, n, d) = {}
      <4>1. chain'[n][d] = <<>>
        BY <1>0, <1>7, <2>2, <3>2, <3>3 DEF MeshStarted
      <4>2. ~Claiming(<<>>) /\ Flawless(<<>>)
        BY DEF Claiming, Flawless
      <4> QED
        BY <3>1, <3>3, <4>1, <4>2 DEF PairFits
    <3>4. ASSUME NEW s \in Here(streams, n, d)
          PROVE  PairFits(chain'[n][d], streams, n, d, registry.hash[d], Freed(kicks', chain', d))
      <4> DEFINE job == NewJob("backfill", s)
      <4>1. Here(streams, n, d) = {s} /\ s \in DOMAIN streams
        BY DEF Flow, QueueFits, InTurn, Here
      <4>2. (CHOOSE t \in Current(n, d) : TRUE) = s /\ Current(n, d) # {}
        BY <3>2, <4>1
      <4>3. chain'[n][d] = Append(<<>>, job)
        BY <1>0, <1>7, <2>2, <4>2 DEF MeshStarted
      <4>4. job \in Job /\ job.kind = "backfill" /\ job.s = s /\ job.reply = "queued"
        BY <4>1, JobsTyped DEF NewJob
      <4> HIDE DEF job
      <4> DEFINE p == Append(<<>>, job)
      <4>5. Len(p) = 1 /\ p[1] = job
        BY <4>4
      <4> HIDE DEF p
      <4>6. Holds(p, s) /\ Waits(p, s) /\ Flawless(p)
        BY <4>4, <4>5 DEF Holds, Waits, Flawless, Takes
      <4>7. PairFits(p, streams, n, d, registry.hash[d], Freed(kicks', chain', d))
        BY <4>1, <4>4, <4>5, <4>6 DEF PairFits
      <4> QED
        BY <4>3, <4>7 DEF p
    <3> QED
      BY <3>3, <3>4
  <2>5. \A d \in Client : PairSmooth(mesh'[n], chain'[n][d], streams, n, d, registry'.hash[d], Freed(kicks', chain', d))
    BY <2>1, <2>4 DEF PairSmooth, Idle
  <2>6. \A d \in Client, l \in Node : ~Losing(chain[n][d], l)
    BY <2>2 DEF Losing
  <2> DEFINE N == {n}
  <2>7. N \in SUBSET Node /\ (\A m \in N : m = n) /\ \A m \in Node \ N : m # n
    OBVIOUS
  <2> HIDE DEF N
  <2> QED
    BY <2>1, <2>3, <2>5, <2>6, <2>7, NodesSmooth
<1>8. ~Crash(n)
  BY <1>0 DEF Crash, Fault
<1> QED
  BY <1>3, <1>4, <1>5, <1>6, <1>7, <1>8 DEF MeshEvent

\* Nothing is left behind while nothing fails.
LEMMA SmoothKeeps ==
    ASSUME Base, Fresh, Smooth, MaxTicks < KeyTtl, [Next]_vars, faults' = faults
    PROVE  Smooth'
<1> USE DEF Base
<1>0. faults \in Nat /\ ~Fault
  BY DEF Types, Fault
<1>1. CASE UNCHANGED vars
  BY <1>1 DEF vars, Smooth, SmoothAt, Up
<1>2. ASSUME NEW n \in Node, NEW c \in Client, Microtask(n, c) PROVE Smooth'
  BY <1>2, StartsSmooth, CallbackSmooth DEF Microtask
<1>3. CASE Tick
  BY <1>3, TickSmooth
<1>4. ASSUME NEW s, Drop(s) \/ HandlersSettle(s) PROVE Smooth'
  BY <1>4, DropSmooth, HandlersSettleSmooth
<1>5. ASSUME NEW k \in kicks, Kicked(k) \/ KickLost(k) PROVE Smooth'
  <2>1. ~KickLost(k)
    <3>1. k.node \in Node
      BY DEF Types, Kick
    <3> QED
      BY <1>0, <3>1 DEF KickLost, Smooth
  <2> QED
    BY <1>5, <2>1, KickedSmooth
<1>6. ASSUME Drained, NEW n \in Node, MeshEvent(n) PROVE Smooth'
  BY <1>6, MeshSmooth
<1>7. ASSUME NEW m \in Node, NEW n \in Node, Expire(m, n) \/ CleanUp(m, n) PROVE Smooth'
  BY <1>0, <1>7 DEF Expire, CleanUp, Smooth
<1>8. ASSUME NEW n \in Node, NEW c \in Client, ClientEvent(n, c) PROVE Smooth'
  <2>1. ~Refuse(n, c) /\ ~Disconnect(n, c)
    BY <1>0 DEF Refuse, Disconnect, Smooth
  <2> QED
    BY <1>8, <2>1, ConnectSmooth, EndsSmooth, CallbackSmooth, ExecuteSmooth DEF ClientEvent
<1> QED
  BY <1>1, <1>2, <1>3, <1>4, <1>5, <1>6, <1>7, <1>8 DEF Next, Event

\* A step counts at most one failure.
LEMMA FaultsGrow ==
    ASSUME faults \in Nat, [Next]_vars
    PROVE  faults' = faults \/ faults' = faults + 1
<1>1. ASSUME NEW n \in Node, NEW c \in Client, Microtask(n, c) PROVE faults' = faults
  BY <1>1 DEF Microtask, JobStarts, ReserveStarts, ActivateStarts, DisconnectStarts, BackfillStarts,
              CallbackStarts, CallbackSkipped
<1>2. ASSUME NEW n \in Node, NEW c \in Client, ClientEvent(n, c) PROVE faults' = faults \/ faults' = faults + 1
  BY <1>2 DEF ClientEvent, Connect, JobEnds, ReserveEnds, ActivateEnds, DisconnectEnds, BackfillEnds,
              CallbackEnds, Execute, Refuse, Disconnect, Fault
<1>3. ASSUME NEW n \in Node, MeshEvent(n) PROVE faults' = faults \/ faults' = faults + 1
  BY <1>3 DEF MeshEvent, MeshStarting, MeshStarted, MeshStops, CleanupOwn, MeshClosed, Crash, Fault
<1>4. ASSUME NEW s, Drop(s) \/ HandlersSettle(s) PROVE faults' = faults
  BY <1>4 DEF Drop, HandlersSettle
<1>5. ASSUME NEW k \in kicks, Kicked(k) \/ KickLost(k) PROVE faults' = faults \/ faults' = faults + 1
  BY <1>5 DEF Kicked, KickLost, Fault
<1>6. ASSUME NEW m \in Node, NEW n \in Node, Expire(m, n) \/ CleanUp(m, n)
      PROVE  faults' = faults \/ faults' = faults + 1
  BY <1>6 DEF Expire, CleanUp, Fault
<1>7. CASE Tick \/ UNCHANGED vars
  BY <1>7 DEF Tick, vars
<1> QED
  BY <1>1, <1>2, <1>3, <1>4, <1>5, <1>6, <1>7 DEF Next, Event

\* The registry is empty, and nobody has anything to do.
LEMMA SmoothStarts ==
    ASSUME Init
    PROVE  Fresh /\ Smooth
<1>1. ticks = 0 /\ registry = Empty /\ streams = <<>> /\ kicks = {}
  BY DEF Init
<1>2. /\ \A c \in Client : registry.hash[c].node = NoNode
      /\ \A n \in Node : registry.members[n] = {}
  BY <1>1 DEF Empty, Absent
<1>3. Fresh
  BY <1>1, <1>2, ClientsAssumption DEF Fresh, FreshFor
<1>4. \A n \in Node : mesh[n] \in {"on", "off"} /\ duty[n] = {} /\ \A c \in Client : chain[n][c] = <<>>
  BY DEF Init
<1>5. ASSUME NEW n \in Node, NEW c \in Client PROVE SmoothAt(n, c)
  <2>1. registry.hash[c].node # n
    BY <1>2, RegistryAssumption
  <2>2. Here(streams, n, c) = {} /\ Len(<<>>) = 0
    BY <1>1 DEF Here
  <2> DEFINE e == registry.hash[c]
             free == Freed(kicks, chain, c)
  <2> HIDE DEF e, free
  <2>3. PairFits(<<>>, streams, n, c, e, free)
    BY <2>1, <2>2 DEF PairFits, Flawless, Claiming, e
  <2>4. PairSmooth(mesh[n], <<>>, streams, n, c, e, free)
    BY <2>1, <2>3 DEF PairSmooth, e
  <2> QED
    BY <1>4, <2>4 DEF SmoothAt, e, free
<1> QED
  BY <1>3, <1>4, <1>5 DEF Smooth, Up

\* With nothing on its way, what is smooth has settled.
LEMMA SmoothSettles ==
    ASSUME Base, faults = 0 => Smooth
    PROVE  SettledAgrees
<1>1. TypeOK
  BY DEF Base, IInv, Types, Flow, TypeOK
<1> SUFFICES ASSUME Quiet, NEW c \in Client
             PROVE  \/ Meshed(c) = {} /\ Owner(registry, c) \in {NoNode} \cup {n \in Node : mesh[n] = "closing"}
                    \/ \E s \in Meshed(c) :
                          /\ Meshed(c) = {s}
                          /\ registry.hash[c] =
                                [node  |-> streams[s].node,
                                 state |-> IF streams[s].step = "connecting" THEN "pending" ELSE "active"]
  BY <1>1 DEF SettledAgrees
<1> DEFINE e == registry.hash[c]
<1>2. Smooth /\ e \in Registration
  BY DEF Quiet, Base, IInv, Registries
<1>3. \A n \in Node : chain[n][c] = <<>> /\ Len(<<>>) = 0
  BY DEF Quiet
<1>4. Freed(kicks, chain, c) = {}
  BY <1>3 DEF Quiet, Freed, Losing
<1>5. \A n \in Node : Current(n, c) = Here(streams, n, c)
  BY DEF Current, Here
<1>6. ASSUME NEW n \in Node, Running(n)
      PROVE  /\ Current(n, c) = {} => e.node # n
             /\ \A s \in Current(n, c) :
                   /\ e.node = n
                   /\ e.state = IF Early(streams, s) THEN "pending" ELSE "active"
                   /\ streams[s].step # "checking" /\ streams[s].node = n
                   /\ \A t \in Current(n, c) : t = s
  <2>1. PairFits(<<>>, streams, n, c, e, {})
    <3>1. SmoothAt(n, c)
      BY <1>2 DEF Smooth
    <3>2. PairSmooth("on", chain[n][c], streams, n, c, e, Freed(kicks, chain, c))
      BY <1>6, <3>1 DEF SmoothAt, Running
    <3> QED
      BY <1>3, <1>4, <3>2 DEF PairSmooth
  <2>2. InTurn(<<>>, streams, n, c)
    BY <1>3 DEF Base, Flow, QueueFits
  <2> HIDE DEF e
  <2>3. /\ \A s : ~Holds(<<>>, s) /\ ~Waits(<<>>, s)
        /\ ~LetsGo(<<>>)
    BY DEF Holds, Waits, LetsGo
  <2>4. Current(n, c) = {} => e.node # n
    BY <1>5, <2>1, <2>3 DEF PairFits
  <2>5. ASSUME NEW s \in Current(n, c)
        PROVE  /\ e.node = n
               /\ e.state = IF Early(streams, s) THEN "pending" ELSE "active"
               /\ streams[s].step # "checking" /\ streams[s].node = n
               /\ \A t \in Current(n, c) : t = s
    <3>1. e.node = n /\ e.state = IF Early(streams, s) THEN "pending" ELSE "active"
      BY <1>5, <2>1, <2>3, <2>5 DEF PairFits
    <3>2. streams[s].step # "checking" /\ \A t \in Current(n, c) : s = t
      BY <1>5, <2>2, <2>5 DEF InTurn
    <3> QED
      BY <3>1, <3>2 DEF Current
  <2> QED
    BY <2>4, <2>5
<1>7. CASE Meshed(c) = {}
  <2>1. \A n \in Node : Running(n) => Current(n, c) = {}
    BY <1>7 DEF Meshed
  <2>2. ASSUME e.node \in Node PROVE mesh[e.node] = "closing"
    <3>1. mesh[e.node] \in MeshState /\ ~Running(e.node) /\ Up(e.node)
      BY <1>2, <1>6, <2>1, <2>2 DEF Base, Types, Smooth
    <3>2. ~Idle(mesh[e.node])
      BY <1>2, <2>2 DEF Smooth, SmoothAt, PairSmooth
    <3> QED
      BY <3>1, <3>2 DEF MeshState, Running, Up, Idle
  <2> QED
    BY <1>2, <1>7, <2>2 DEF Registration, Owner
<1>8. CASE Meshed(c) # {}
  <2>1. PICK n \in Node : Running(n) /\ Current(n, c) # {}
    BY <1>8 DEF Meshed
  <2>0. PICK s : s \in Current(n, c)
    BY <2>1
  <2>2. s \in Meshed(c)
    BY <2>0, <2>1 DEF Meshed
  <2>3. /\ e.node = n /\ streams[s].node = n /\ streams[s].step # "checking"
        /\ e.state = IF Early(streams, s) THEN "pending" ELSE "active"
        /\ \A t \in Current(n, c) : t = s
    BY <1>6, <2>0, <2>1
  <2>4. ASSUME NEW t \in Meshed(c) PROVE t = s
    <3>1. PICK m \in Node : Running(m) /\ t \in Current(m, c)
      BY <2>4 DEF Meshed
    <3>2. e.node = m
      BY <1>6, <3>1
    <3> QED
      BY <2>3, <3>1, <3>2
  <2>5. Meshed(c) = {s}
    BY <2>2, <2>4
  <2>6. e.state = IF streams[s].step = "connecting" THEN "pending" ELSE "active"
    BY <2>3 DEF Early
  <2>7. e = [node |-> e.node, state |-> e.state]
    BY <1>2 DEF Registration
  <2> QED
    BY <2>2, <2>3, <2>5, <2>6, <2>7
<1> QED
  BY <1>7, <1>8

\* When all work is done, the registry says of every client what is so, as long as no run lasts until
\* a key expires that nobody refreshed.
THEOREM RegistrySettles ==
    ASSUME MaxTicks < KeyTtl
    PROVE  Spec => []SettledAgrees
<1> DEFINE Inv == Base /\ Fresh /\ (faults = 0 => Smooth)
<1>1. Init => Inv
  BY BaseStarts, SmoothStarts
<1>2. Inv /\ [Next]_vars => Inv'
  <2> SUFFICES ASSUME Inv, [Next]_vars PROVE Inv'
    OBVIOUS
  <2>1. Base'
    BY BaseKeeps
  <2>2. Fresh'
    BY FreshKeeps
  <2>3. ASSUME faults' = 0 PROVE Smooth'
    <3>1. faults \in Nat
      BY DEF Base, Types
    <3>2. faults = 0 /\ faults' = faults
      BY <2>3, <3>1, FaultsGrow
    <3> QED
      BY <3>2, SmoothKeeps
  <2> QED
    BY <2>1, <2>2, <2>3
<1>3. Inv => SettledAgrees
  BY SmoothSettles
<1> QED
  BY <1>1, <1>2, <1>3, PTL DEF Spec

-----------------------------------------------------------------------------
(* One client at one node: what may happen to it at all. *)

\* Nothing happens to the client at the node.
Untouched(n, c) ==
    /\ chain'[n][c] = chain[n][c] /\ callbacks'[n][c] = callbacks[n][c] /\ told'[n][c] = told[n][c]
    /\ SameFor(streams, streams', n, c)

\* Something does.
Acts(n, c) ==
    \/ JobStarts(n, c) \/ CallbackStarts(n, c) \/ CallbackSkipped(n, c)
    \/ \E polite \in BOOLEAN : Connect(n, c, polite)
    \/ JobEnds(n, c) \/ CallbackEnds(n, c)
    \/ Execute(n, c) \/ Refuse(n, c) \/ Disconnect(n, c)
    \/ \E s : (Drop(s) \/ HandlersSettle(s)) /\ streams[s].node = n /\ streams[s].client = c
    \/ Kicked([node |-> n, client |-> c])
    \/ MeshStarted(n) \/ Crash(n)

\* A step of one client at one node does not touch the others.
LEMMA OneTouched ==
    ASSUME Flow, NEW n \in Node, NEW c \in Client, NEW m \in Node, NEW d \in Client, ~(m = n /\ d = c),
           OnlyOne(m, d), OnlyAt(callbacks, callbacks', m, d), OnlyAt(told, told', m, d)
    PROVE  Untouched(n, c)
<1>1. SameFor(streams, streams', n, c)
  BY HereOnly DEF Flow, OnlyOne
<1> QED
  BY <1>1 DEF Untouched, OnlyOne, OnlyAt

\* Every callback is announced, started and ended for one client at one node.
LEMMA CallbacksOne ==
    ASSUME Base, NEW m \in Node, NEW d \in Client,
           \/ callbacks' = callbacks
           \/ \E b : callbacks' = [callbacks EXCEPT ![m][d] = b],
           \/ told' = told
           \/ \E heard : told' = [told EXCEPT ![m][d] = heard]
    PROVE  OnlyAt(callbacks, callbacks', m, d) /\ OnlyAt(told, told', m, d)
<1>1. callbacks \in [Node -> [Client -> Seq(Callback)]]
  BY DEF Base, Flow
<1>2. told \in [Node -> [Client -> [kind : {"none", "connected", "disconnected"}, s : 0..MaxStreams]]]
  BY DEF Base, Types
<1>3. OnlyAt(callbacks, callbacks', m, d)
  BY <1>1 DEF OnlyAt
<1>4. OnlyAt(told, told', m, d)
  BY <1>2 DEF OnlyAt
<1> QED
  BY <1>3, <1>4

\* What happens, happens to the client at the node, or leaves it untouched.
LEMMA Elsewhere ==
    ASSUME Base, [Next]_vars, NEW n \in Node, NEW c \in Client
    PROVE  Untouched(n, c) \/ Acts(n, c)
<1> USE DEF Base
<1>1. CASE UNCHANGED <<streams, chain, callbacks, told>>
  BY <1>1 DEF Untouched, SameFor
<1>2. ASSUME NEW m \in Node, NEW d \in Client, OnlyOne(m, d),
             OnlyAt(callbacks, callbacks', m, d), OnlyAt(told, told', m, d), m = n /\ d = c => Acts(n, c)
      PROVE  Untouched(n, c) \/ Acts(n, c)
  BY <1>2, OneTouched
<1>3. ASSUME NEW m \in Node, NEW d \in Client, JobStarts(m, d) PROVE Untouched(n, c) \/ Acts(n, c)
  <2>1. callbacks' = callbacks /\ told' = told
    BY <1>3 DEF JobStarts, ReserveStarts, ActivateStarts, DisconnectStarts, BackfillStarts
  <2> QED
    BY <1>2, <1>3, <2>1, JobStartsKeep, CallbacksOne DEF Acts
<1>4. ASSUME NEW m \in Node, NEW d \in Client, CallbackStarts(m, d) \/ CallbackSkipped(m, d) \/ CallbackEnds(m, d)
      PROVE  Untouched(n, c) \/ Acts(n, c)
  <2>1. /\ \E b : callbacks' = [callbacks EXCEPT ![m][d] = b]
        /\ told' = told \/ \E heard : told' = [told EXCEPT ![m][d] = heard]
    BY <1>4 DEF CallbackStarts, CallbackSkipped, CallbackEnds
  <2> QED
    BY <1>2, <1>4, <2>1, CallbackKeeps, CallbacksOne DEF Acts
<1>5. ASSUME NEW m \in Node, NEW d \in Client, NEW polite \in BOOLEAN, Connect(m, d, polite)
      PROVE  Untouched(n, c) \/ Acts(n, c)
  <2>1. callbacks' = callbacks /\ told' = told
    BY <1>5 DEF Connect
  <2> QED
    BY <1>2, <1>5, <2>1, ConnectKeeps, CallbacksOne DEF Acts
<1>6. ASSUME NEW m \in Node, NEW d \in Client, JobEnds(m, d) PROVE Untouched(n, c) \/ Acts(n, c)
  <2>1. told' = told /\ (callbacks' = callbacks \/ \E b : callbacks' = [callbacks EXCEPT ![m][d] = b])
    BY <1>6 DEF JobEnds, ReserveEnds, ActivateEnds, DisconnectEnds, BackfillEnds, Announce
  <2> QED
    BY <1>2, <1>6, <2>1, JobEndsKeep, CallbacksOne DEF Acts
<1>7. ASSUME NEW m \in Node, NEW d \in Client, Execute(m, d) \/ Refuse(m, d) PROVE Untouched(n, c) \/ Acts(n, c)
  <2>1. callbacks' = callbacks /\ told' = told
    BY <1>7 DEF Execute, Refuse
  <2> QED
    BY <1>2, <1>7, <2>1, RedisKeeps, CallbacksOne DEF Acts, IInv
<1>8. ASSUME NEW m \in Node, NEW d \in Client, Disconnect(m, d) PROVE Untouched(n, c) \/ Acts(n, c)
  <2>1. UNCHANGED <<streams, callbacks, told>> /\ chain' = [chain EXCEPT ![m][d] = <<>>]
    BY <1>8 DEF Disconnect
  <2>2. OnlyAt(chain, chain', m, d) /\ OnlyHere(streams, streams', m, d)
    BY <2>1, UnchangedIsOnly DEF OnlyAt, Flow
  <2> QED
    BY <1>2, <1>8, <2>1, <2>2, CallbacksOne DEF Acts, OnlyOne
<1>9. ASSUME NEW s, Drop(s) \/ HandlersSettle(s) PROVE Untouched(n, c) \/ Acts(n, c)
  <2>1. /\ streams[s].node \in Node /\ streams[s].client \in Client
        /\ told' = told
    <3>1. s \in DOMAIN streams /\ Live(s) /\ told' = told
      BY <1>9 DEF Drop, HandlersSettle, Live
    <3>2. streams[s] \in Stream /\ streams[s].node # NoNode
      BY <3>1 DEF Flow, StreamsFit, Live
    <3> QED
      BY <3>1, <3>2 DEF Stream
  <2>2. callbacks' = callbacks \/ \E b : callbacks' = [callbacks EXCEPT ![streams[s].node][streams[s].client] = b]
    BY <1>9 DEF Drop, HandlersSettle, Announce
  <2> QED
    BY <1>2, <1>9, <2>1, <2>2, DropKeeps, HandlersSettleKeeps, CallbacksOne DEF Acts
<1>10. ASSUME NEW k \in kicks, Kicked(k) PROVE Untouched(n, c) \/ Acts(n, c)
  <2>1. k \in Kick /\ k = [node |-> k.node, client |-> k.client] /\ k.node \in Node /\ k.client \in Client
    BY DEF Types, Kick
  <2>2. callbacks' = callbacks /\ told' = told
    BY <1>10 DEF Kicked
  <2>3. k.node = n /\ k.client = c => Acts(n, c)
    BY <1>10, <2>1 DEF Acts
  <2> QED
    BY <1>2, <1>10, <2>1, <2>2, <2>3, KickedKeeps, CallbacksOne
<1>11. ASSUME NEW m \in Node, MeshStarted(m) PROVE Untouched(n, c) \/ Acts(n, c)
  <2>1. m # n => chain'[n] = chain[n]
    BY <1>11 DEF MeshStarted, Flow
  <2>2. UNCHANGED <<streams, callbacks, told>>
    BY <1>11 DEF MeshStarted
  <2>3. SameFor(streams, streams', n, c)
    BY <2>2 DEF SameFor
  <2> QED
    BY <1>11, <2>1, <2>2, <2>3 DEF Acts, Untouched
<1>12. ASSUME NEW m \in Node, Crash(m) PROVE Untouched(n, c) \/ Acts(n, c)
  <2>1. CASE m = n
    BY <1>12, <2>1 DEF Acts
  <2>2. CASE m # n
    <3>1. chain'[n] = chain[n] /\ callbacks'[n] = callbacks[n] /\ told' = told
      BY <1>12, <2>2 DEF Crash, Flow
    <3>2. /\ DOMAIN streams' = DOMAIN streams
          /\ \A s \in DOMAIN streams : IF streams[s].node = m THEN streams'[s] = Gone(streams[s]) ELSE streams'[s] = streams[s]
      BY <1>12 DEF Crash
    <3>3. NoNode # m /\ NoNode # n /\ \A x \in Stream : Gone(x).node = NoNode
      BY RegistryAssumption DEF Gone, Stream
    <3>4. \A s \in DOMAIN streams : /\ streams[s] \in Stream
                                    /\ streams[s].step = "gone" => streams[s].node = NoNode
      BY DEF Flow, StreamsFit
    <3>5. SameFor(streams, streams', n, c)
      <4>1. \A s \in DOMAIN streams : streams[s].node = n \/ streams[s].step = "gone" => streams'[s] = streams[s]
        BY <2>2, <3>2, <3>3, <3>4
      <4>2. \A s \in DOMAIN streams : streams'[s].node = n => streams'[s] = streams[s]
        BY <3>2, <3>3, <3>4
      <4> QED
        BY <3>2, <4>1, <4>2 DEF SameFor, Here
    <3> QED
      BY <3>1, <3>5 DEF Untouched
  <2> QED
    BY <2>1, <2>2
<1>13. ASSUME NEW m \in Node, MeshEvent(m) PROVE Untouched(n, c) \/ Acts(n, c)
  BY <1>1, <1>11, <1>12, <1>13 DEF MeshEvent, MeshStarting, MeshStops, CleanupOwn, MeshClosed
<1>14. CASE Tick \/ UNCHANGED vars
  BY <1>1, <1>14 DEF Tick, vars
<1>15. ASSUME NEW m \in Node, NEW l \in Node, Expire(m, l) \/ CleanUp(m, l) PROVE Untouched(n, c) \/ Acts(n, c)
  BY <1>1, <1>15 DEF Expire, CleanUp
<1>16. ASSUME NEW k \in kicks, KickLost(k) PROVE Untouched(n, c) \/ Acts(n, c)
  BY <1>1, <1>16 DEF KickLost
<1> QED
  BY <1>3, <1>4, <1>5, <1>6, <1>7, <1>8, <1>9, <1>10, <1>13, <1>14, <1>15, <1>16
     DEF Next, Event, Microtask, ClientEvent

-----------------------------------------------------------------------------
(* A node whose mesh has run from the start. *)

\* meshStart has left nothing in the queue.
Plain(q) == \A i \in 1..Len(q) : q[i].kind # "backfill"

\* The mesh of such a node does not start again, and so has nobody to backfill.
Begun ==
    \A n \in StartsOn : mesh[n] \notin {"off", "starting"} /\ \A c \in Client : Plain(chain[n][c])

\* A job goes, or another one joins.
LEMMA PlainMoves ==
    ASSUME NEW q \in Seq(Job), Plain(q)
    PROVE  /\ q # <<>> => Plain(Tail(q)) /\ Plain(<<Head(q)>>)
           /\ \A job \in Job : job.kind # "backfill" => Plain(Append(q, job))
           /\ \A p \in Seq(Job) : Len(p) = Len(q) /\ (\A i \in 1..Len(q) : p[i].kind = q[i].kind) => Plain(p)
<1>1. ASSUME q # <<>> PROVE Plain(Tail(q)) /\ Plain(<<Head(q)>>)
  <2>1. Len(q) > 0 /\ Head(q) = q[1] /\ Len(Tail(q)) = Len(q) - 1 /\ \A i \in 1..Len(Tail(q)) : Tail(q)[i] = q[i + 1]
    BY <1>1
  <2>2. Plain(Tail(q))
    BY <2>1 DEF Plain
  <2>3. q[1].kind # "backfill"
    BY <2>1 DEF Plain
  <2> QED
    BY <2>1, <2>2, <2>3 DEF Plain
<1>2. ASSUME NEW job \in Job, job.kind # "backfill" PROVE Plain(Append(q, job))
  BY <1>2 DEF Plain
<1>3. ASSUME NEW p \in Seq(Job), Len(p) = Len(q), \A i \in 1..Len(q) : p[i].kind = q[i].kind PROVE Plain(p)
  BY <1>3 DEF Plain
<1> QED
  BY <1>1, <1>2, <1>3

\* Only meshStart leaves its jobs in the queue.
LEMMA PlainKeeps ==
    ASSUME Base, [Next]_vars, NEW n \in Node, NEW c \in Client, mesh[n] \notin {"off", "starting"},
           Plain(chain[n][c])
    PROVE  Plain(chain'[n][c])
<1> USE DEF Base
<1> DEFINE q == chain[n][c]
<1>0. q \in Seq(Job) /\ chain \in [Node -> [Client -> Seq(Job)]] /\ Plain(<<>>)
  BY DEF Flow, Plain
<1>1. CASE chain'[n][c] = q
  BY <1>1
<1>2. CASE chain[n][c] # <<>> /\ Finish(n, c)
  <2>1. chain'[n][c] = Tail(q)
    BY <1>0, <1>2 DEF Finish, Rest
  <2> QED
    BY <1>0, <1>2, <2>1, PlainMoves
<1>3. ASSUME NEW s \in DOMAIN streams, NEW queue \in Seq(Job), Plain(queue), Leave(n, c, s, queue)
      PROVE  Plain(chain'[n][c])
  <2>1. chain'[n][c] \in {queue, Append(queue, Farewell(s))}
    BY <1>0, <1>3 DEF Leave
  <2>2. Farewell(s) \in Job /\ Farewell(s).kind = "disconnect"
    BY JobsTyped
  <2>3. Plain(Append(queue, Farewell(s)))
    BY <1>3, <2>2, PlainMoves
  <2> QED
    BY <1>3, <2>1, <2>3
<1>4. ASSUME chain[n][c] # <<>>, NEW job \in Job, Turned(n, c, job), job.kind = chain[n][c][1].kind
      PROVE  Plain(chain'[n][c])
  <2>1. chain'[n][c] = [q EXCEPT ![1] = job] /\ [q EXCEPT ![1] = job] \in Seq(Job) /\ Len([q EXCEPT ![1] = job]) = Len(q)
    BY <1>0, <1>4 DEF Turned
  <2>2. \A i \in 1..Len(q) : [q EXCEPT ![1] = job][i].kind = q[i].kind
    BY <1>0, <1>4
  <2> QED
    BY <1>0, <2>1, <2>2, PlainMoves
<1>5. ASSUME chain[n][c] # <<>> PROVE /\ Head(q) = q[1] /\ q[1] \in Job /\ q[1].s \in DOMAIN streams
                                       /\ Rest(n, c) \in Seq(Job) /\ Plain(Rest(n, c)) /\ q[1].kind # "backfill"
  <2>1. Head(q) = q[1] /\ q[1] \in Job /\ q[1].s \in DOMAIN streams /\ Len(q) > 0
    BY <1>5, First
  <2>2. Plain(Tail(q)) /\ Tail(q) \in Seq(Job)
    BY <1>0, <1>5, PlainMoves, TailPasses
  <2>3. q[1].kind # "backfill"
    BY <1>0, <2>1 DEF Plain
  <2> QED
    BY <2>1, <2>2, <2>3 DEF Rest
<1>6. ASSUME chain[n][c] # <<>>, Send(n, c) PROVE Plain(chain'[n][c])
  <2> DEFINE job == [chain[n][c][1] EXCEPT !.reply = "sent"]
  <2>1. Turned(n, c, job)
    BY <1>6 DEF Send, Turned
  <2>2. job \in Job /\ job.kind = chain[n][c][1].kind
    BY <1>5, <1>6 DEF Job
  <2> QED
    BY <1>4, <1>6, <2>1, <2>2
<1>7. ASSUME chain[n][c] # <<>>, NEW reply \in {"yes", "no", "error"}, NEW old \in Node \cup {NoNode}, Answer(n, c, reply, old)
      PROVE  Plain(chain'[n][c])
  <2> DEFINE job == [chain[n][c][1] EXCEPT !.reply = reply, !.old = old]
  <2>1. Turned(n, c, job)
    BY <1>7, AnswerTurns
  <2>2. job \in Job /\ job.kind = chain[n][c][1].kind
    BY <1>5, <1>7 DEF Job
  <2> QED
    BY <1>4, <1>7, <2>1, <2>2
<1> HIDE DEF q
<1>8. CASE JobStarts(n, c)
  <2>1. chain[n][c] # <<>> /\ ~BackfillStarts(n, c)
    BY <1>5, <1>8 DEF JobStarts, ReserveStarts, ActivateStarts, DisconnectStarts, BackfillStarts, Due, q
  <2>2. Subject(n, c) \in DOMAIN streams
    BY <1>5, <2>1 DEF Subject, q
  <2>3. CASE ReserveStarts(n, c) \/ DisconnectStarts(n, c)
    BY <1>2, <1>6, <2>1, <2>3 DEF ReserveStarts, DisconnectStarts
  <2>4. CASE ActivateStarts(n, c)
    BY <1>3, <1>5, <1>6, <2>1, <2>2, <2>4 DEF ActivateStarts
  <2> QED
    BY <1>8, <2>1, <2>3, <2>4 DEF JobStarts
<1>9. CASE JobEnds(n, c)
  <2>1. chain[n][c] # <<>>
    BY <1>9 DEF JobEnds, ReserveEnds, ActivateEnds, DisconnectEnds, BackfillEnds, Answered
  <2>2. Subject(n, c) \in DOMAIN streams
    BY <1>5, <2>1 DEF Subject, q
  <2>3. Finish(n, c) \/ Leave(n, c, Subject(n, c), Rest(n, c))
    BY <1>9 DEF JobEnds, ReserveEnds, ActivateEnds, DisconnectEnds, BackfillEnds
  <2> QED
    BY <1>2, <1>3, <1>5, <2>1, <2>2, <2>3
<1>10. CASE CallbackStarts(n, c) \/ CallbackSkipped(n, c) \/ CallbackEnds(n, c)
  BY <1>1, <1>10 DEF CallbackStarts, CallbackSkipped, CallbackEnds, q
<1>11. ASSUME NEW polite \in BOOLEAN, Connect(n, c, polite) PROVE Plain(chain'[n][c])
  <2> DEFINE p == chain'[n][c]
  <2>1. /\ Len(q) <= Len(p) /\ \A i \in 1..Len(q) : p[i] = q[i]
        /\ \A i \in 1..Len(p) : i > Len(q) => p[i].kind # "backfill"
    BY <1>11, ConnectQueue DEF q
  <2>2. Len(q) \in Nat /\ Len(p) \in Nat
    <3>1. chain' \in [Node -> [Client -> Seq(Job)]]
      BY FlowKeeps DEF Flow
    <3> QED
      BY <1>0, <3>1
  <2> HIDE DEF p
  <2>3. Plain(q)
    BY DEF q
  <2>4. Plain(p)
    BY <2>1, <2>2, <2>3 DEF Plain
  <2> QED
    BY <2>4 DEF p
<1>12. CASE Execute(n, c)
  <2>1. chain[n][c] # <<>> /\ \E reply \in {"yes", "no", "error"}, old \in Node \cup {NoNode} : Answer(n, c, reply, old)
    <3>1. Owner(registry, c) \in Node \cup {NoNode}
      BY DEF IInv, Owner, Registries, Registration
    <3> QED
      BY <1>12, <3>1 DEF Execute
  <2> QED
    BY <1>7, <2>1
<1>13. CASE Refuse(n, c)
  BY <1>7, <1>13 DEF Refuse
<1>14. CASE Disconnect(n, c)
  BY <1>0, <1>14 DEF Disconnect
<1>15. ASSUME NEW s, Drop(s), streams[s].node = n, streams[s].client = c PROVE Plain(chain'[n][c])
  <2>1. s \in DOMAIN streams /\ Leave(n, c, s, chain[n][c])
    BY <1>15 DEF Drop
  <2> QED
    BY <1>0, <1>3, <2>1 DEF q
<1>16. ASSUME NEW s, HandlersSettle(s), streams[s].node = n, streams[s].client = c PROVE Plain(chain'[n][c])
  <2>1. s \in DOMAIN streams /\ (chain' = chain \/ chain' = [chain EXCEPT ![n][c] = Append(@, NewJob("activate", s))])
    BY <1>16 DEF HandlersSettle
  <2>2. NewJob("activate", s) \in Job /\ NewJob("activate", s).kind # "backfill"
    BY <2>1, JobsTyped DEF NewJob
  <2>3. Plain(Append(q, NewJob("activate", s)))
    BY <1>0, <2>2, PlainMoves DEF q
  <2>4. chain'[n][c] \in {q, Append(q, NewJob("activate", s))}
    BY <1>0, <2>1 DEF q
  <2> QED
    BY <1>1, <2>3, <2>4
<1>17. CASE Kicked([node |-> n, client |-> c])
  <2>1. chain' = chain \/ \E s \in Current(n, c) : Leave(n, c, s, chain[n][c])
    BY <1>17 DEF Kicked
  <2>2. \A s \in Current(n, c) : s \in DOMAIN streams
    BY DEF Current
  <2> QED
    BY <1>0, <1>1, <1>3, <2>1, <2>2 DEF q
<1>18. ~MeshStarted(n)
  BY DEF MeshStarted
<1>19. CASE Crash(n)
  <2>1. chain'[n][c] = <<>> \/ (q # <<>> /\ chain'[n][c] = <<Head(q)>>)
    BY <1>0, <1>19 DEF Crash, q
  <2> QED
    BY <1>0, <2>1, PlainMoves DEF q
<1>20. Untouched(n, c) => chain'[n][c] = q
  BY DEF Untouched, q
<1> QED
  BY <1>1, <1>8, <1>9, <1>10, <1>11, <1>12, <1>13, <1>14, <1>15, <1>16, <1>17, <1>18, <1>19, <1>20, Elsewhere DEF Acts

\* A mesh that runs has run before, or was starting; one that has started does not start again.
LEMMA MeshRemains ==
    ASSUME Base, [Next]_vars, NEW n \in Node
    PROVE  /\ mesh'[n] = "on" => mesh[n] \in {"on", "starting"}
           /\ mesh'[n] \in {"off", "starting"} => mesh[n] \in {"off", "starting"}
<1> USE DEF Base
<1> DEFINE Fine == /\ mesh'[n] = "on" => mesh[n] \in {"on", "starting"}
                   /\ mesh'[n] \in {"off", "starting"} => mesh[n] \in {"off", "starting"}
<1>1. CASE mesh' = mesh
  BY <1>1
<1>2. ASSUME NEW m \in Node, NEW life, mesh' = [mesh EXCEPT ![m] = life],
             life = "on" => mesh[m] = "starting", life # "off", life = "starting" => mesh[m] = "off"
      PROVE  Fine
  BY <1>2 DEF Types
<1>3. ASSUME NEW m \in Node, MeshEvent(m) PROVE Fine
  BY <1>2, <1>3 DEF MeshEvent, MeshStarting, MeshStarted, MeshStops, CleanupOwn, MeshClosed, Crash
<1>4. ASSUME NEW m \in Node, NEW c \in Client, Microtask(m, c) PROVE mesh' = mesh
  BY <1>4 DEF Microtask, JobStarts, ReserveStarts, ActivateStarts, DisconnectStarts, BackfillStarts,
              CallbackStarts, CallbackSkipped
<1>5. ASSUME NEW m \in Node, NEW c \in Client, ClientEvent(m, c) PROVE mesh' = mesh
  BY <1>5 DEF ClientEvent, Connect, JobEnds, ReserveEnds, ActivateEnds, DisconnectEnds, BackfillEnds,
              CallbackEnds, Execute, Refuse, Disconnect
<1>6. ASSUME NEW s, Drop(s) \/ HandlersSettle(s) PROVE mesh' = mesh
  BY <1>6 DEF Drop, HandlersSettle
<1>7. ASSUME NEW k \in kicks, Kicked(k) \/ KickLost(k) PROVE mesh' = mesh
  BY <1>7 DEF Kicked, KickLost
<1>8. ASSUME NEW m \in Node, NEW l \in Node, Expire(l, m) \/ CleanUp(l, m) PROVE mesh' = mesh
  BY <1>8 DEF Expire, CleanUp
<1>9. CASE Tick \/ UNCHANGED vars
  BY <1>1, <1>9 DEF Tick, vars
<1> QED
  BY <1>1, <1>3, <1>4, <1>5, <1>6, <1>7, <1>8, <1>9 DEF Next, Event

\* Whose mesh has run from the start has no backfill to do.
LEMMA BegunKeeps ==
    ASSUME Base, Begun, [Next]_vars
    PROVE  Begun'
<1>1. ASSUME NEW n \in StartsOn PROVE mesh'[n] \notin {"off", "starting"} /\ \A c \in Client : Plain(chain'[n][c])
  <2>1. n \in Node /\ mesh[n] \notin {"off", "starting"} /\ \A c \in Client : Plain(chain[n][c])
    BY ClientsAssumption DEF Begun
  <2> QED
    BY <2>1, MeshRemains, PlainKeeps
<1> QED
  BY <1>1 DEF Begun

-----------------------------------------------------------------------------
(* What the application has heard of a client at such a node: b are its callbacks, heard the *)
(* last one.                                                                                *)

\* The one that runs has been heard; a stream that lives is announced by the last one, and when it
\* is open none is left, and what has been heard last is that it connected.
TellsFit(b, st, n, c, heard) ==
    /\ Len(b) > 0 => (b[1].running => heard = [kind |-> b[1].kind, s |-> b[1].s])
    /\ \A i \in 1..Len(b) : b[i].kind = "connected" /\ st[b[i].s].step # "gone" => i = Len(b)
    /\ \A s \in Here(st, n, c) :
          /\ st[s].step = "announcing" => Len(b) > 0 /\ b[Len(b)].kind = "connected" /\ b[Len(b)].s = s
          /\ st[s].step = "open" => Len(b) = 0 /\ heard = [kind |-> "connected", s |-> s]

\* Every client at every node whose mesh has run from the start.
Tells ==
    \A n \in StartsOn : mesh[n] = "on" =>
        \A c \in Client : TellsFit(callbacks[n][c], streams, n, c, told[n][c])

\* A stream that has gone does not come back.
Ended(st, st2) == \A s \in DOMAIN st : st[s].step = "gone" => st2[s].step = "gone"

\* A step that announces and opens no stream, and tells nothing.
LEMMA StillTells ==
    ASSUME NEW b \in Seq(Callback), NEW st, NEW st2, NEW n, NEW c, NEW heard,
           TellsFit(b, st, n, c, heard), CallbacksFit(b, st, n, c), Ended(st, st2),
           \A s \in Here(st2, n, c) : st2[s].step \in {"announcing", "open"} =>
              s \in Here(st, n, c) /\ st2[s].step = st[s].step
    PROVE  TellsFit(b, st2, n, c, heard)
<1>1. \A i \in 1..Len(b) : b[i].s \in DOMAIN st
  BY DEF CallbacksFit
<1>2. ASSUME NEW i \in 1..Len(b), b[i].kind = "connected", st2[b[i].s].step # "gone" PROVE i = Len(b)
  BY <1>1, <1>2 DEF TellsFit, Ended
<1>3. ASSUME NEW s \in Here(st2, n, c)
      PROVE  /\ st2[s].step = "announcing" => Len(b) > 0 /\ b[Len(b)].kind = "connected" /\ b[Len(b)].s = s
             /\ st2[s].step = "open" => Len(b) = 0 /\ heard = [kind |-> "connected", s |-> s]
  BY <1>3 DEF TellsFit
<1> QED
  BY <1>2, <1>3 DEF TellsFit

\* No stream of the client is announced or open.
Silent(st, n, c) == \A s \in Here(st, n, c) : st[s].step \notin {"announcing", "open"}

\* None but the one of the callback is.
AllBut(st, n, c, job) ==
    \A s \in Here(st, n, c) :
        /\ st[s].step # "open"
        /\ st[s].step = "announcing" => s = job.s /\ job.kind = "connected"

\* A callback is enqueued while no stream of the client is announced or open.
LEMMA AnnounceTells ==
    ASSUME NEW b \in Seq(Callback), NEW job \in Callback, ~job.running, NEW st, NEW st2, NEW n, NEW c, NEW heard,
           TellsFit(b, st, n, c, heard), CallbacksFit(b, st, n, c), Ended(st, st2),
           Silent(st, n, c), AllBut(st2, n, c, job)
    PROVE  TellsFit(Append(b, job), st2, n, c, heard)
<1> DEFINE p == Append(b, job)
<1>1. /\ Len(p) = Len(b) + 1 /\ Len(b) \in Nat /\ p[Len(p)] = job
      /\ \A i \in 1..Len(b) : p[i] = b[i]
      /\ \A i \in 1..Len(p) : i = Len(p) \/ i \in 1..Len(b)
  OBVIOUS
<1> HIDE DEF p
<1>2. ASSUME NEW i \in 1..Len(b), b[i].kind = "connected" PROVE st2[b[i].s].step = "gone"
  <2>1. b[i].s \in DOMAIN st /\ st[b[i].s].client = c
    BY DEF CallbacksFit
  <2>2. CASE st[b[i].s].step = "gone"
    BY <2>1, <2>2 DEF Ended
  <2>3. CASE st[b[i].s].step # "gone"
    <3>1. st[b[i].s].node = n /\ st[b[i].s].step = "announcing"
      BY <1>2, <2>3 DEF CallbacksFit
    <3>2. b[i].s \in Here(st, n, c)
      BY <2>1, <3>1 DEF Here
    <3> QED
      BY <3>1, <3>2 DEF Silent
  <2> QED
    BY <2>2, <2>3
<1>3. Len(p) > 0 => (p[1].running => heard = [kind |-> p[1].kind, s |-> p[1].s])
  <2>1. CASE Len(b) = 0
    BY <1>1, <2>1
  <2>2. CASE Len(b) > 0
    <3>1. p[1] = b[1]
      BY <1>1, <2>2
    <3> QED
      BY <2>2, <3>1 DEF TellsFit
  <2> QED
    BY <1>1, <2>1, <2>2
<1>4. \A i \in 1..Len(p) : p[i].kind = "connected" /\ st2[p[i].s].step # "gone" => i = Len(p)
  BY <1>1, <1>2
<1>5. \A s \in Here(st2, n, c) :
          /\ st2[s].step = "announcing" => Len(p) > 0 /\ p[Len(p)].kind = "connected" /\ p[Len(p)].s = s
          /\ st2[s].step = "open" => Len(p) = 0 /\ heard = [kind |-> "connected", s |-> s]
  BY <1>1 DEF AllBut
<1>6. TellsFit(p, st2, n, c, heard)
  BY <1>3, <1>4, <1>5 DEF TellsFit
<1> QED
  BY <1>6 DEF p

\* The streams are at the same steps.
Still(st, st2) ==
    /\ DOMAIN st2 = DOMAIN st
    /\ \A s \in DOMAIN st : /\ st2[s].client = st[s].client /\ st2[s].node = st[s].node
                            /\ st2[s].step = st[s].step

\* The first callback starts.
LEMMA StartTells ==
    ASSUME NEW b \in Seq(Callback), NEW p \in Seq(Callback), Len(b) > 0, Len(p) = Len(b),
           \A i \in 1..Len(b) : p[i].kind = b[i].kind /\ p[i].s = b[i].s,
           NEW st, NEW st2, NEW n, NEW c, NEW heard, NEW heard2, heard2 = [kind |-> b[1].kind, s |-> b[1].s],
           TellsFit(b, st, n, c, heard), CallbacksFit(b, st, n, c), Still(st, st2)
    PROVE  TellsFit(p, st2, n, c, heard2)
<1>1. 1 \in 1..Len(b) /\ Len(b) \in 1..Len(b) /\ Len(b) # 0
  OBVIOUS
<1>2. \A i \in 1..Len(b) : b[i].s \in DOMAIN st
  BY DEF CallbacksFit
<1>3. Here(st2, n, c) = Here(st, n, c) /\ \A s \in Here(st, n, c) : st2[s].step = st[s].step
  BY DEF Here, Still
<1>4. heard2 = [kind |-> p[1].kind, s |-> p[1].s]
  BY <1>1
<1>5. \A i \in 1..Len(p) : p[i].kind = "connected" /\ st2[p[i].s].step # "gone" => i = Len(p)
  BY <1>2 DEF TellsFit, Still
<1>6. ASSUME NEW s \in Here(st2, n, c)
      PROVE  /\ st2[s].step = "announcing" => Len(p) > 0 /\ p[Len(p)].kind = "connected" /\ p[Len(p)].s = s
             /\ st2[s].step # "open"
  BY <1>1, <1>3 DEF TellsFit
<1> QED
  BY <1>4, <1>5, <1>6 DEF TellsFit

\* The first callback ends, or is skipped because its stream has gone: only one that has been heard
\* opens a stream.
LEMMA PopTells ==
    ASSUME NEW b \in Seq(Callback), b # <<>>, NEW st, NEW st2, NEW n, NEW c, NEW heard,
           TellsFit(b, st, n, c, heard), CallbacksFit(b, st, n, c), DOMAIN st2 = DOMAIN st,
           \A s \in DOMAIN st :
              /\ st2[s].client = st[s].client /\ st2[s].node = st[s].node
              /\ IF s = b[1].s /\ b[1].kind = "connected" /\ st[s].step # "gone"
                 THEN st2[s].step = "open" /\ b[1].running
                 ELSE st2[s].step = st[s].step
    PROVE  TellsFit(Tail(b), st2, n, c, heard)
<1> DEFINE p == Tail(b)
<1>1. /\ Len(b) > 0 /\ Len(b) \in Nat /\ Len(p) = Len(b) - 1 /\ 1 \in 1..Len(b)
      /\ \A i \in 1..Len(p) : i + 1 \in 1..Len(b) /\ p[i] = b[i + 1]
  OBVIOUS
<1> HIDE DEF p
<1>2. \A i \in 1..Len(b) : b[i].s \in DOMAIN st /\ (i > 1 => ~b[i].running)
  BY DEF CallbacksFit
<1>3. Len(p) > 0 => ~p[1].running
  <2> SUFFICES ASSUME Len(p) > 0 PROVE ~p[1].running
    OBVIOUS
  <2>1. p[1] = b[2] /\ 2 \in 1..Len(b)
    BY <1>1
  <2> QED
    BY <1>2, <2>1
<1>4. ASSUME NEW i \in 1..Len(p), p[i].kind = "connected", st2[p[i].s].step # "gone" PROVE i = Len(p)
  <2>1. i + 1 \in 1..Len(b) /\ b[i + 1].kind = "connected" /\ b[i + 1].s \in DOMAIN st /\ st2[b[i + 1].s].step # "gone"
    BY <1>1, <1>2, <1>4
  <2>2. st[b[i + 1].s].step # "gone"
    BY <2>1
  <2>3. i + 1 = Len(b)
    BY <2>1, <2>2 DEF TellsFit
  <2> QED
    BY <1>1, <2>3
<1>5. Here(st2, n, c) = Here(st, n, c) /\ \A s \in Here(st, n, c) : s \in DOMAIN st
  BY DEF Here
<1>6. ASSUME NEW s \in Here(st2, n, c), st2[s].step = "announcing"
      PROVE  Len(p) > 0 /\ p[Len(p)].kind = "connected" /\ p[Len(p)].s = s
  <2>1. s \in DOMAIN st /\ st[s].step = "announcing" /\ ~(s = b[1].s /\ b[1].kind = "connected")
    BY <1>5, <1>6
  <2>2. b[Len(b)].kind = "connected" /\ b[Len(b)].s = s
    BY <1>5, <2>1 DEF TellsFit
  <2>3. Len(b) > 1
    BY <1>1, <2>1, <2>2
  <2> QED
    BY <1>1, <2>2, <2>3
<1>7. ASSUME NEW s \in Here(st2, n, c), st2[s].step = "open"
      PROVE  Len(p) = 0 /\ heard = [kind |-> "connected", s |-> s]
  <2>1. st[s].step # "open"
    BY <1>1, <1>5 DEF TellsFit
  <2>2. s = b[1].s /\ b[1].kind = "connected" /\ st[s].step # "gone" /\ b[1].running
    BY <1>5, <1>7, <2>1
  <2>3. 1 = Len(b)
    BY <1>1, <2>2 DEF TellsFit
  <2>4. Len(p) = 0
    <3>1. Len(p) = Len(b) - 1
      BY <1>1
    <3> QED
      BY <2>3, <3>1
  <2>5. heard = [kind |-> "connected", s |-> s]
    BY <1>1, <2>2 DEF TellsFit
  <2> QED
    BY <2>4, <2>5
<1>8. TellsFit(p, st2, n, c, heard)
  BY <1>3, <1>4, <1>6, <1>7 DEF TellsFit
<1> QED
  BY <1>8 DEF p

\* A stream that is not the first job's has not been announced, unless a backfill is to come.
LEMMA NotYet ==
    ASSUME NEW q \in Seq(Job), NEW st, NEW n \in Node, NEW c, NEW life, QueueFits(q, st, n, c, life), Plain(q), StreamsFit(st),
           Len(q) > 0, NEW s \in Here(st, n, c), q[1].s # s
    PROVE  st[s].step = "checking"
<1>1. 1 \in 1..Len(q)
  OBVIOUS
<1>2. PICK k \in 1..Len(q) : Takes(q[k]) /\ q[k].s = s
  BY <1>1 DEF QueueFits, InTurn
<1>3. q[k].kind = "reserve"
  BY <1>2 DEF Takes, Plain
<1>4. st[s].step \in {"checking", "gone"}
  BY <1>2, <1>3 DEF QueueFits, JobsFit
<1>5. st[s].step # "gone"
  BY RegistryAssumption DEF StreamsFit, Here
<1> QED
  BY <1>4, <1>5

\* Gone is gone.
LEMMA GoneStays ==
    ASSUME Base, [Next]_vars
    PROVE  Ended(streams, streams')
<1> SUFFICES ASSUME NEW s \in DOMAIN streams, streams[s].step = "gone" PROVE streams'[s].step = "gone"
  BY DEF Ended
<1>1. streams[s].node = NoNode
  BY DEF Base, Flow, StreamsFit
<1>2. s \in DOMAIN streams' /\ streams'[s].node = NoNode
  BY <1>1, StreamsStay DEF Stays, Base
<1> QED
  BY <1>2, FlowKeeps DEF Flow, StreamsFit

\* What a step of a client has told is in order.
LEMMA ActTells ==
    ASSUME Base, [Next]_vars, NEW n \in Node, NEW c \in Client, mesh[n] = "on", mesh'[n] = "on", Plain(chain[n][c]),
           TellsFit(callbacks[n][c], streams, n, c, told[n][c]), Acts(n, c)
    PROVE  TellsFit(callbacks'[n][c], streams', n, c, told'[n][c])
<1> USE DEF Base
<1> DEFINE b == callbacks[n][c]
           heard == told[n][c]
           Goal == TellsFit(callbacks'[n][c], streams', n, c, told'[n][c])
<1>0. /\ b \in Seq(Callback) /\ CallbacksFit(b, streams, n, c) /\ StreamsFit(streams) /\ Ended(streams, streams')
      /\ TellsFit(b, streams, n, c, heard) /\ callbacks \in [Node -> [Client -> Seq(Callback)]]
      /\ streams \in Seq(Stream) /\ \A s \in DOMAIN streams : streams[s] \in Stream
  BY GoneStays DEF Flow
<1>a. ASSUME b # <<>>
      PROVE  /\ Len(b) > 0 /\ 1 \in 1..Len(b) /\ Head(b) = b[1] /\ b[1] \in Callback /\ b[1].s \in DOMAIN streams
             /\ streams[b[1].s] \in Stream
  <2>1. Len(b) > 0 /\ 1 \in 1..Len(b) /\ Head(b) = b[1] /\ b[1] \in Callback
    BY <1>0, <1>a
  <2>2. b[1].s \in DOMAIN streams
    BY <1>0, <2>1 DEF CallbacksFit
  <2> QED
    BY <1>0, <2>1, <2>2
<1>1. ASSUME callbacks' = callbacks, told' = told,
             \A s \in Here(streams', n, c) : streams'[s].step \in {"announcing", "open"} =>
                s \in Here(streams, n, c) /\ streams'[s].step = streams[s].step
      PROVE  Goal
  BY <1>0, <1>1, StillTells
<1>2. ASSUME NEW t, NEW step \in {"connecting", "activating"}, streams' = [streams EXCEPT ![t].step = step],
             callbacks' = callbacks, told' = told
      PROVE  Goal
  <2>1. \A s \in DOMAIN streams : streams'[s].step \in {"announcing", "open"} => streams'[s] = streams[s]
    BY <1>0, <1>2 DEF Stream
  <2>2. DOMAIN streams' = DOMAIN streams
    BY <1>2
  <2> QED
    BY <1>1, <1>2, <2>1, <2>2 DEF Here
<1>3. ASSUME NEW t, streams' = [streams EXCEPT ![t] = Gone(@)], callbacks' = callbacks, told' = told
      PROVE  Goal
  <2>1. \A x \in Stream : Gone(x).step = "gone"
    BY DEF Gone, Stream
  <2>2. \A s \in DOMAIN streams : streams'[s].step \in {"announcing", "open"} => streams'[s] = streams[s]
    BY <1>0, <1>3, <2>1
  <2>3. DOMAIN streams' = DOMAIN streams
    BY <1>3
  <2> QED
    BY <1>1, <1>3, <2>2, <2>3 DEF Here
<1>4. ASSUME streams' = streams, callbacks' = callbacks, told' = told PROVE Goal
  BY <1>1, <1>4
<1>5. ASSUME NEW s, NEW queue, Leave(n, c, s, queue), callbacks' = callbacks, told' = told PROVE Goal
  BY <1>3, <1>4, <1>5 DEF Leave
<1>6. CASE JobStarts(n, c)
  <2>1. CASE ReserveStarts(n, c)
    BY <1>2, <1>4, <2>1 DEF ReserveStarts
  <2>2. CASE ActivateStarts(n, c)
    BY <1>4, <1>5, <2>2 DEF ActivateStarts
  <2>3. CASE DisconnectStarts(n, c) \/ BackfillStarts(n, c)
    BY <1>4, <2>3 DEF DisconnectStarts, BackfillStarts
  <2> QED
    BY <1>6, <2>1, <2>2, <2>3 DEF JobStarts
<1>7. CASE ReserveEnds(n, c) \/ BackfillEnds(n, c)
  <2>1. CASE ReserveEnds(n, c)
    BY <1>2, <1>4, <1>5, <2>1 DEF ReserveEnds
  <2>2. CASE BackfillEnds(n, c)
    BY <1>4, <1>5, <2>2 DEF BackfillEnds
  <2> QED
    BY <1>7, <2>1, <2>2
<1>8. CASE Execute(n, c) \/ Refuse(n, c) \/ Disconnect(n, c)
  BY <1>4, <1>8 DEF Execute, Refuse, Disconnect
<1>9. CASE (\E s : Drop(s)) \/ Kicked([node |-> n, client |-> c])
  <2>1. ASSUME NEW s, Drop(s) PROVE Goal
    BY <1>3, <1>4, <2>1 DEF Drop, Leave
  <2>2. ASSUME Kicked([node |-> n, client |-> c]) PROVE Goal
    <3>1. /\ callbacks' = callbacks /\ told' = told
          /\ streams' = streams \/ \E s \in Current(n, c) : Leave(n, c, s, chain[n][c])
      BY <2>2 DEF Kicked
    <3> QED
      BY <1>4, <1>5, <3>1
  <2> QED
    BY <1>9, <2>1, <2>2
<1>10. ASSUME NEW s, HandlersSettle(s), streams[s].node = n PROVE Goal
  BY <1>2, <1>10 DEF HandlersSettle
<1>11. ASSUME NEW polite \in BOOLEAN, Connect(n, c, polite) PROVE Goal
  <2>1. callbacks' = callbacks /\ told' = told
    BY <1>11 DEF Connect
  <2> DEFINE new == Len(streams) + 1
  <2>2. /\ DOMAIN streams' = DOMAIN streams \cup {new}
        /\ streams'[new] = [client |-> c, node |-> n, polite |-> polite, step |-> "checking", published |-> FALSE]
        /\ \A t \in DOMAIN streams :
              streams'[t] = IF t \in Here(streams, n, c) THEN Gone(streams[t]) ELSE streams[t]
    BY <1>11, ConnectStreams
  <2>3. \A x \in Stream : Gone(x).step = "gone"
    BY DEF Gone, Stream
  <2>4. \A s \in DOMAIN streams' : streams'[s].step \in {"announcing", "open"} =>
           s \in DOMAIN streams /\ streams'[s] = streams[s]
    BY <1>0, <2>2, <2>3
  <2> QED
    BY <1>1, <2>1, <2>4 DEF Here
<1>12. CASE CallbackStarts(n, c)
  <2>1. b # <<>> /\ callbacks' = [callbacks EXCEPT ![n][c][1].running = TRUE]
    BY <1>12 DEF CallbackStarts, CallbackDue
  <2> DEFINE job == [b[1] EXCEPT !.running = TRUE]
             p == [b EXCEPT ![1] = job]
             heard2 == told'[n][c]
  <2>2. callbacks'[n][c] = p
    BY <1>0, <2>1
  <2>3. job \in Callback /\ job.kind = b[1].kind /\ job.s = b[1].s
    BY <1>a, <2>1 DEF Callback
  <2>4. /\ p \in Seq(Callback) /\ Len(p) = Len(b)
        /\ \A i \in 1..Len(b) : p[i].kind = b[i].kind /\ p[i].s = b[i].s
    <3> HIDE DEF job
    <3>1. p \in Seq(Callback) /\ Len(p) = Len(b) /\ \A i \in 1..Len(b) : p[i] = IF i = 1 THEN job ELSE b[i]
      BY <1>0, <1>a, <2>1, <2>3
    <3> QED
      BY <2>3, <3>1
  <2>5. heard2 = [kind |-> b[1].kind, s |-> b[1].s]
    BY <1>12, <1>a, <2>1 DEF CallbackStarts, Types
  <2>6. Still(streams, streams')
    <3>1. CASE streams' = streams
      BY <3>1 DEF Still
    <3>2. CASE streams' = [streams EXCEPT ![b[1].s].published = TRUE]
      <4>1. DOMAIN streams' = DOMAIN streams /\ \A s \in DOMAIN streams : s # b[1].s => streams'[s] = streams[s]
        BY <3>2
      <4>2. streams'[b[1].s] = [streams[b[1].s] EXCEPT !.published = TRUE]
        BY <1>a, <2>1, <3>2
      <4>3. /\ streams'[b[1].s].client = streams[b[1].s].client /\ streams'[b[1].s].node = streams[b[1].s].node
            /\ streams'[b[1].s].step = streams[b[1].s].step
        BY <1>a, <2>1, <4>2 DEF Stream
      <4> QED
        BY <4>1, <4>3 DEF Still
    <3> QED
      BY <1>12, <1>a, <2>1, <3>1, <3>2 DEF CallbackStarts
  <2> HIDE DEF b, p, heard2, heard, job
  <2>7. TellsFit(p, streams', n, c, heard2)
    BY <1>0, <1>a, <2>1, <2>4, <2>5, <2>6, StartTells
  <2> QED
    BY <2>2, <2>7 DEF heard2
<1>13. CASE CallbackSkipped(n, c) \/ CallbackEnds(n, c)
  <2>1. b # <<>> /\ callbacks' = [callbacks EXCEPT ![n][c] = Tail(@)] /\ told' = told
    BY <1>13 DEF CallbackSkipped, CallbackEnds, CallbackDue
  <2>2. Head(b) = b[1] /\ b[1].s \in DOMAIN streams /\ streams[b[1].s] \in Stream
    BY <1>a, <2>1
  <2>3. callbacks'[n][c] = Tail(b)
    BY <1>0, <2>1
  <2>4. IF b[1].kind = "connected" /\ Live(b[1].s)
        THEN streams' = [streams EXCEPT ![b[1].s].step = "open"] /\ b[1].running
        ELSE streams' = streams
    BY <1>13, <2>2 DEF CallbackSkipped, CallbackEnds, Opened
  <2>5. /\ DOMAIN streams' = DOMAIN streams
        /\ \A s \in DOMAIN streams :
              /\ streams'[s].client = streams[s].client /\ streams'[s].node = streams[s].node
              /\ IF s = b[1].s /\ b[1].kind = "connected" /\ streams[s].step # "gone"
                 THEN streams'[s].step = "open" /\ b[1].running
                 ELSE streams'[s].step = streams[s].step
    <3>1. CASE ~(b[1].kind = "connected" /\ Live(b[1].s))
      BY <2>4, <3>1 DEF Live
    <3>2. CASE b[1].kind = "connected" /\ Live(b[1].s)
      <4>1. /\ DOMAIN streams' = DOMAIN streams
            /\ \A s \in DOMAIN streams : s # b[1].s => streams'[s] = streams[s]
            /\ streams'[b[1].s] = [streams[b[1].s] EXCEPT !.step = "open"]
            /\ b[1].running
        BY <2>2, <2>4, <3>2
      <4>2. /\ streams'[b[1].s].client = streams[b[1].s].client /\ streams'[b[1].s].node = streams[b[1].s].node
            /\ streams'[b[1].s].step = "open"
        BY <2>2, <4>1 DEF Stream
      <4> QED
        BY <3>2, <4>1, <4>2 DEF Live
    <3> QED
      BY <3>1, <3>2
  <2> HIDE DEF b, heard
  <2>6. TellsFit(Tail(b), streams', n, c, heard)
    BY <1>0, <2>1, <2>5, PopTells
  <2> QED
    BY <2>1, <2>3, <2>6 DEF heard
<1>14. ASSUME NEW job \in Callback, ~job.running, callbacks' = [callbacks EXCEPT ![n][c] = Append(@, job)], told' = told,
              Silent(streams, n, c), AllBut(streams', n, c, job)
       PROVE  Goal
  <2>1. callbacks'[n][c] = Append(b, job)
    BY <1>0, <1>14
  <2> HIDE DEF b, heard
  <2>2. TellsFit(Append(b, job), streams', n, c, heard)
    BY <1>0, <1>14, AnnounceTells
  <2> QED
    BY <1>14, <2>1, <2>2 DEF heard
<1>15. CASE ActivateEnds(n, c)
  <2>1. chain[n][c] # <<>> /\ Head(chain[n][c]).kind = "activate" /\ told' = told
    BY <1>15 DEF ActivateEnds, Answered
  <2> DEFINE s == Subject(n, c)
             q == chain[n][c]
  <2>2. /\ q \in Seq(Job) /\ Len(q) > 0 /\ q[1].s = s /\ QueueFits(q, streams, n, c, mesh[n])
        /\ s \in DOMAIN streams /\ streams[s].step \in {"activating", "gone"}
    BY <2>1, First DEF Subject
  <2>3. CASE callbacks' = callbacks /\ Leave(n, c, s, Rest(n, c))
    BY <1>5, <2>1, <2>3
  <2>4. CASE Announce(n, c, "connected", s) /\ streams' = IF Live(s) THEN [streams EXCEPT ![s].step = "announcing"] ELSE streams
    <3> DEFINE job == [kind |-> "connected", s |-> s, running |-> FALSE]
    <3>0. job \in Callback /\ ~job.running /\ job.s = s /\ job.kind = "connected"
      BY <2>2, ClientsAssumption DEF Callback, Flow
    <3>1. \A t \in Here(streams, n, c) : t = s \/ streams[t].step = "checking"
      BY <1>0, <2>2, NotYet
    <3>2. Silent(streams, n, c)
      BY <2>2, <3>1 DEF Silent
    <3>3. /\ DOMAIN streams' = DOMAIN streams
          /\ \A t \in DOMAIN streams : t # s => streams'[t] = streams[t]
          /\ streams'[s].node = streams[s].node /\ streams'[s].client = streams[s].client
          /\ streams'[s].step \in {"announcing", streams[s].step}
      <4>1. CASE Live(s)
        <5>1. streams'[s] = [streams[s] EXCEPT !.step = "announcing"] /\ streams[s] \in Stream
          BY <1>0, <2>2, <2>4, <4>1
        <5> QED
          BY <2>2, <2>4, <4>1, <5>1 DEF Stream
      <4>2. CASE ~Live(s)
        BY <2>4, <4>2
      <4> QED
        BY <4>1, <4>2
    <3> HIDE DEF job
    <3>4. AllBut(streams', n, c, job)
      <4> SUFFICES ASSUME NEW t \in Here(streams', n, c)
                   PROVE  streams'[t].step # "open" /\ (streams'[t].step = "announcing" => t = s)
        BY <3>0 DEF AllBut
      <4>1. CASE t = s
        BY <2>2, <3>3, <4>1
      <4>2. CASE t # s
        BY <3>1, <3>3, <4>2 DEF Here
      <4> QED
        BY <4>1, <4>2
    <3>5. callbacks' = [callbacks EXCEPT ![n][c] = Append(@, job)]
      BY <2>4 DEF Announce, job
    <3> QED
      BY <1>14, <2>1, <3>0, <3>2, <3>4, <3>5
  <2> QED
    BY <1>15, <2>3, <2>4 DEF ActivateEnds
<1>16. CASE DisconnectEnds(n, c)
  <2>1. chain[n][c] # <<>> /\ Head(chain[n][c]).kind = "disconnect" /\ told' = told /\ streams' = streams
    BY <1>16 DEF DisconnectEnds, Answered
  <2> DEFINE s == Subject(n, c)
             q == chain[n][c]
  <2>2. /\ q \in Seq(Job) /\ Len(q) > 0 /\ q[1].s = s /\ QueueFits(q, streams, n, c, mesh[n])
        /\ s \in DOMAIN streams /\ streams[s].step = "gone"
    BY <2>1, First DEF Subject, Live
  <2>3. CASE callbacks' = callbacks
    BY <1>4, <2>1, <2>3
  <2>4. CASE Announce(n, c, "disconnected", s)
    <3> DEFINE job == [kind |-> "disconnected", s |-> s, running |-> FALSE]
    <3>0. job \in Callback /\ ~job.running
      BY <2>2, ClientsAssumption DEF Callback, Flow
    <3>1. \A t \in Here(streams, n, c) : t # s
      BY <1>0, <2>2, RegistryAssumption DEF Here, StreamsFit
    <3>2. \A t \in Here(streams, n, c) : streams[t].step = "checking"
      BY <1>0, <2>2, <3>1, NotYet
    <3>3. callbacks' = [callbacks EXCEPT ![n][c] = Append(@, job)]
      BY <2>4 DEF Announce
    <3> HIDE DEF job
    <3>4. Silent(streams, n, c) /\ AllBut(streams', n, c, job)
      BY <2>1, <3>2 DEF Silent, AllBut
    <3> QED
      BY <1>14, <2>1, <3>0, <3>3, <3>4
  <2> QED
    BY <1>16, <2>3, <2>4 DEF DisconnectEnds
<1>17. ~MeshStarted(n) /\ ~Crash(n)
  BY DEF MeshStarted, Crash, Types
<1> QED
  BY <1>6, <1>7, <1>8, <1>9, <1>10, <1>11, <1>12, <1>13, <1>15, <1>16, <1>17 DEF Acts, JobEnds

\* The application goes on to be told in order.
LEMMA TellsKeeps ==
    ASSUME Base, Begun, Tells, [Next]_vars
    PROVE  Tells'
<1> SUFFICES ASSUME NEW n \in StartsOn, mesh'[n] = "on", NEW c \in Client
             PROVE  TellsFit(callbacks'[n][c], streams', n, c, told'[n][c])
  BY DEF Tells
<1>1. n \in Node /\ mesh[n] = "on" /\ Plain(chain[n][c])
  BY MeshRemains, ClientsAssumption DEF Begun
<1>2. TellsFit(callbacks[n][c], streams, n, c, told[n][c])
  BY <1>1 DEF Tells
<1>3. CASE Acts(n, c)
  BY <1>1, <1>2, <1>3, ActTells
<1>4. CASE Untouched(n, c)
  <2> DEFINE b == callbacks[n][c]
             heard == told[n][c]
  <2>1. callbacks'[n][c] = b /\ told'[n][c] = heard /\ SameFor(streams, streams', n, c)
    BY <1>4 DEF Untouched
  <2>2. b \in Seq(Callback) /\ CallbacksFit(b, streams, n, c) /\ TellsFit(b, streams, n, c, heard)
    BY <1>1, <1>2 DEF Base, Flow
  <2>3. \A s \in Here(streams', n, c) : s \in Here(streams, n, c) /\ streams'[s] = streams[s]
    BY <2>1 DEF SameFor, Here
  <2>4. Ended(streams, streams')
    BY GoneStays
  <2> HIDE DEF b, heard
  <2>5. TellsFit(b, streams', n, c, heard)
    BY <2>2, <2>3, <2>4, StillTells
  <2> QED
    BY <2>1, <2>5
<1> QED
  BY <1>1, <1>3, <1>4, Elsewhere

-----------------------------------------------------------------------------
(* A client that has connected once: no other node knows of it. *)

\* There is something of the client at the node.
Touched(n, c) ==
    \/ chain[n][c] # <<>> \/ callbacks[n][c] # <<>> \/ told[n][c].kind # "none"
    \/ Here(streams, n, c) # {} \/ registry.hash[c].node = n

\* No client is at two nodes unless two streams have been accepted, and none before the first.
OneSide ==
    /\ Len(streams) = 1 => \A c \in Client, n, m \in Node : Touched(n, c) /\ Touched(m, c) => n = m
    /\ Len(streams) = 0 => \A c \in Client, n \in Node : ~Touched(n, c)

\* Only its own script registers a client for a node.
LEMMA OwnerComes ==
    ASSUME Base, [Next]_vars, NEW n \in Node, NEW c \in Client, registry'.hash[c].node = n
    PROVE  registry.hash[c].node = n \/ Execute(n, c)
<1> USE DEF Base, IInv
<1>0. n # NoNode /\ Absent.node = NoNode /\ registry \in Registries
  BY RegistryAssumption DEF Absent
<1>1. CASE registry' = registry
  BY <1>1
<1>2. ASSUME NEW m \in Node, registry' = CleanupNode(registry, m) PROVE registry.hash[c].node = n
  <2>1. registry'.hash[c] = Absent \/ registry'.hash[c] = registry.hash[c]
    BY <1>2 DEF CleanupNode, Tidy
  <2> QED
    BY <1>0, <2>1
<1>3. CASE Tick
  <2>1. registry'.hash[c] = Absent \/ registry'.hash[c] = registry.hash[c]
    BY <1>3 DEF Tick, Aged
  <2> QED
    BY <1>0, <2>1
<1>4. ASSUME NEW m \in Node, NEW d \in Client, Execute(m, d) PROVE registry.hash[c].node = n \/ Execute(n, c)
  <2>1. \/ registry' = registry
        \/ \E state \in {"pending", "active"} : registry' = Register(registry, d, m, state)
        \/ registry' = Activate(registry, d, m)
        \/ registry' = Unregister(registry, d, m)
    BY <1>4 DEF Execute
  <2>2. ASSUME NEW entry, registry'.hash = [registry.hash EXCEPT ![d] = entry], entry.node = m \/ entry.node = NoNode
        PROVE  registry.hash[c].node = n \/ Execute(n, c)
    <3>1. CASE d = c
      <4>1. registry'.hash[c] = entry
        BY <2>2, <3>1 DEF Registries
      <4>2. m = n
        BY <1>0, <2>2, <4>1
      <4> QED
        BY <1>4, <3>1, <4>2
    <3>2. CASE d # c
      BY <2>2, <3>2 DEF Registries
    <3> QED
      BY <3>1, <3>2
  <2>3. CASE registry' = registry
    BY <1>1, <2>3
  <2>4. ASSUME NEW state \in {"pending", "active"}, registry' = Register(registry, d, m, state)
        PROVE  registry.hash[c].node = n \/ Execute(n, c)
    <3>1. registry'.hash = [registry.hash EXCEPT ![d] = [node |-> m, state |-> state]]
      BY <2>4 DEF Register, Tidy
    <3> QED
      BY <2>2, <3>1
  <2>5. CASE registry' = Activate(registry, d, m)
    <3>1. registry'.hash = [registry.hash EXCEPT ![d] = [node |-> m, state |-> "active"]]
      BY <2>5 DEF Activate
    <3> QED
      BY <2>2, <3>1
  <2>6. CASE registry' = Unregister(registry, d, m)
    <3>1. registry'.hash = [registry.hash EXCEPT ![d] = Absent]
      BY <2>6 DEF Unregister, Tidy
    <3> QED
      BY <1>0, <2>2, <3>1
  <2> QED
    BY <2>1, <2>3, <2>4, <2>5, <2>6
<1>5. ASSUME NEW m \in Node, MeshEvent(m) PROVE registry' = registry \/ registry' = CleanupNode(registry, m)
  BY <1>5 DEF MeshEvent, MeshStarting, MeshStarted, MeshStops, CleanupOwn, MeshClosed, Crash
<1>6. ASSUME NEW m \in Node, NEW d \in Client, ClientEvent(m, d) PROVE registry' = registry \/ Execute(m, d)
  BY <1>6 DEF ClientEvent, Connect, JobEnds, ReserveEnds, ActivateEnds, DisconnectEnds,
              BackfillEnds, CallbackEnds, Refuse, Disconnect
<1>7. ASSUME NEW m \in Node, NEW d \in Client, Microtask(m, d) PROVE registry' = registry
  BY <1>7 DEF Microtask, JobStarts, ReserveStarts, ActivateStarts, DisconnectStarts,
              BackfillStarts, CallbackStarts, CallbackSkipped
<1>8. ASSUME NEW s \in 1..MaxStreams, Drop(s) \/ HandlersSettle(s) PROVE registry' = registry
  BY <1>8 DEF Drop, HandlersSettle
<1>9. ASSUME NEW k \in kicks, Kicked(k) \/ KickLost(k) PROVE registry' = registry
  BY <1>9 DEF Kicked, KickLost
<1>10. ASSUME NEW m \in Node, NEW l \in Node, Expire(m, l) \/ CleanUp(m, l)
       PROVE  registry' = registry \/ registry' = CleanupNode(registry, l)
  BY <1>10 DEF Expire, CleanUp
<1>11. CASE UNCHANGED vars
  BY <1>1, <1>11 DEF vars
<1> QED
  BY <1>1, <1>2, <1>3, <1>4, <1>5, <1>6, <1>7, <1>8, <1>9, <1>10, <1>11 DEF Next, Event

\* A node hears of a client only when it connects there.
LEMMA TouchedComes ==
    ASSUME Base, [Next]_vars, NEW n \in Node, NEW c \in Client, Touched(n, c)',
           \A polite \in BOOLEAN : ~Connect(n, c, polite)
    PROVE  Touched(n, c)
<1> USE DEF Base
<1> SUFFICES ASSUME ~Touched(n, c) PROVE FALSE
  OBVIOUS
<1>1. /\ chain[n][c] = <<>> /\ callbacks[n][c] = <<>> /\ told[n][c].kind = "none" /\ Here(streams, n, c) = {}
      /\ Current(n, c) = {}
  BY DEF Touched, Here, Current
<1>2. registry'.hash[c].node # n
  <2>1. ~Execute(n, c)
    BY <1>1 DEF Execute
  <2> QED
    BY <2>1, OwnerComes DEF Touched
<1>3. CASE Untouched(n, c)
  BY <1>1, <1>2, <1>3 DEF Untouched, SameFor, Touched
<1>4. CASE UNCHANGED <<streams, chain, callbacks, told>>
  BY <1>1, <1>2, <1>4 DEF Touched, Here
<1>5. ~JobStarts(n, c) /\ ~JobEnds(n, c)
  BY <1>1 DEF JobStarts, ReserveStarts, ActivateStarts, DisconnectStarts, BackfillStarts, Due,
              JobEnds, ReserveEnds, ActivateEnds, DisconnectEnds, BackfillEnds, Answered
<1>6. ~CallbackStarts(n, c) /\ ~CallbackSkipped(n, c) /\ ~CallbackEnds(n, c)
  BY <1>1 DEF CallbackStarts, CallbackSkipped, CallbackEnds, CallbackDue
<1>7. ~Execute(n, c) /\ ~Refuse(n, c) /\ ~Disconnect(n, c)
  BY <1>1 DEF Execute, Refuse, Disconnect
<1>8. ASSUME NEW s, Drop(s) \/ HandlersSettle(s), streams[s].node = n, streams[s].client = c PROVE FALSE
  BY <1>1, <1>8 DEF Drop, HandlersSettle, Here
<1>9. Kicked([node |-> n, client |-> c]) => UNCHANGED <<streams, chain, callbacks, told>>
  BY <1>1 DEF Kicked
<1>10. CASE MeshStarted(n)
  <2>1. chain'[n][c] = chain[n][c] /\ UNCHANGED <<streams, callbacks, told>>
    BY <1>1, <1>10 DEF MeshStarted, Flow
  <2> QED
    BY <1>1, <1>2, <2>1 DEF Touched, Here
<1>11. CASE Crash(n)
  <2>1. chain'[n][c] = <<>> /\ callbacks'[n][c] = <<>> /\ told' = told
    BY <1>1, <1>11 DEF Crash, Flow
  <2>2. Here(streams', n, c) = {}
    <3>1. /\ DOMAIN streams' = DOMAIN streams
          /\ \A s \in DOMAIN streams : streams'[s] = streams[s] \/ streams'[s] = Gone(streams[s])
      BY <1>11 DEF Crash
    <3>2. \A s \in DOMAIN streams : Gone(streams[s]).node # n
      BY RegistryAssumption DEF Gone, Stream, Flow
    <3> QED
      BY <1>1, <3>1, <3>2 DEF Here
  <2> QED
    BY <1>1, <1>2, <2>1, <2>2 DEF Touched
<1> QED
  BY <1>3, <1>4, <1>5, <1>6, <1>7, <1>8, <1>9, <1>10, <1>11, Elsewhere DEF Acts

\* Counting up to a number.
LEMMA Counted ==
    ASSUME NEW i \in Nat, NEW j \in Nat
    PROVE  (1..i = 1..j => i = j) /\ (1..i = (1..j) \cup {j + 1} => i = j + 1)
<1>1. ASSUME 1..i = 1..j PROVE i = j
  <2>1. i = 0 \/ i \in 1..i
    OBVIOUS
  <2>2. j = 0 \/ j \in 1..j
    OBVIOUS
  <2>3. i <= j
    BY <1>1, <2>1
  <2>4. j <= i
    BY <1>1, <2>2
  <2> QED
    BY <2>3, <2>4
<1>2. ASSUME 1..i = (1..j) \cup {j + 1} PROVE i = j + 1
  <2>1. i \in 1..i /\ j + 1 \in 1..i
    BY <1>2
  <2> QED
    BY <1>2, <2>1
<1> QED
  BY <1>1, <1>2

\* So it stays on one side until another stream is accepted.
LEMMA OneSideKeeps ==
    ASSUME Base, OneSide, [Next]_vars
    PROVE  OneSide'
<1>0. Len(streams) \in Nat /\ DOMAIN streams = 1..Len(streams) /\ Len(streams') \in Nat /\ DOMAIN streams' = 1..Len(streams')
  BY FlowKeeps DEF Base, Flow
<1>1. CASE \A n \in Node, c \in Client, polite \in BOOLEAN : ~Connect(n, c, polite)
  <2>1. Len(streams') = Len(streams)
    <3>1. DOMAIN streams' = DOMAIN streams
      BY <1>1, StreamsRemain DEF Base
    <3> QED
      BY <1>0, <3>1, Counted
  <2>2. \A n \in Node, c \in Client : Touched(n, c)' => Touched(n, c)
    BY <1>1, TouchedComes
  <2> QED
    BY <2>1, <2>2 DEF OneSide
<1>2. ASSUME NEW n \in Node, NEW c \in Client, NEW polite \in BOOLEAN, Connect(n, c, polite)
      PROVE  OneSide'
  <2>1. Len(streams') = Len(streams) + 1
    <3>1. DOMAIN streams' = DOMAIN streams \cup {Len(streams) + 1}
      BY <1>2, ConnectStreams DEF Base
    <3>2. 1..Len(streams') = (1..Len(streams)) \cup {Len(streams) + 1}
      BY <1>0, <3>1
    <3> QED
      BY <1>0, <3>2, Counted
  <2> SUFFICES ASSUME Len(streams') = 1, NEW d \in Client, NEW l \in Node, NEW m \in Node, Touched(l, d)', Touched(m, d)'
               PROVE  l = m
    BY <1>0, <2>1 DEF OneSide
  <2>2. ~Touched(l, d) /\ ~Touched(m, d) /\ Len(streams) = 0
    BY <1>0, <2>1 DEF OneSide
  <2>3. (\E p \in BOOLEAN : Connect(l, d, p)) /\ (\E p \in BOOLEAN : Connect(m, d, p))
    BY <2>2, TouchedComes
  <2>4. ASSUME NEW k \in Node, NEW p \in BOOLEAN, Connect(k, d, p) PROVE streams'[Len(streams) + 1].node = k
    <3>1. streams'[Len(streams) + 1] = [client |-> d, node |-> k, polite |-> p, step |-> "checking", published |-> FALSE]
      BY <2>4, ConnectStreams DEF Base
    <3> QED
      BY <3>1
  <2> QED
    BY <2>3, <2>4
<1> QED
  BY <1>1, <1>2

\* While nothing fails a running node loses a client only to a script that another one, or itself,
\* has sent.
LEMMA OwnerRemains ==
    ASSUME Base, Fresh, Smooth, MaxTicks < KeyTtl, [Next]_vars, NEW n \in Node, NEW c \in Client,
           mesh[n] = "on", registry.hash[c].node = n
    PROVE  registry'.hash[c].node = n \/ \E m \in Node : Execute(m, c)
<1> USE DEF Base, IInv, RegistryConsistent
<1>1. CASE registry' = registry
  BY <1>1
<1> DEFINE left == KeyTtl - ticks
<1>2. left \in Int /\ left <= KeyTtl /\ left > 0 /\ FreshFor(registry, left) /\ ticks <= MaxTicks /\ ticks \in Nat
  BY RegistryAssumption, ClientsAssumption DEF Fresh, Types
<1>3. CASE Tick
  <2>1. registry' = Aged(registry) /\ left > 1
    BY <1>2, <1>3, RegistryAssumption, ClientsAssumption DEF Tick
  <2> HIDE DEF left
  <2> QED
    BY <1>2, <2>1, AgedFresh
<1> HIDE DEF left
<1>4. ASSUME NEW m \in Node, m # n, registry' = CleanupNode(registry, m) PROVE registry'.hash[c].node = n
  BY <1>2, <1>4, CleanupFresh
<1>5. ASSUME NEW m \in Node, MeshEvent(m) PROVE registry' = registry \/ (m # n /\ registry' = CleanupNode(registry, m))
  BY <1>5 DEF MeshEvent, MeshStarting, MeshStarted, MeshStops, CleanupOwn, MeshClosed, Crash
<1>6. ASSUME NEW m \in Node, NEW d \in Client, ClientEvent(m, d)
      PROVE  registry' = registry \/ Execute(m, d)
  BY <1>6 DEF ClientEvent, Connect, JobEnds, ReserveEnds, ActivateEnds, DisconnectEnds,
              BackfillEnds, CallbackEnds, Refuse, Disconnect
<1>7. ASSUME NEW m \in Node, NEW d \in Client, Execute(m, d), d # c PROVE registry'.hash[c].node = n
  <2>1. \/ registry' = registry
        \/ \E state \in {"pending", "active"} : registry' = Register(registry, d, m, state)
        \/ registry' = Activate(registry, d, m)
        \/ registry' = Unregister(registry, d, m)
    BY <1>7 DEF Execute
  <2>2. \A state : Register(registry, d, m, state).hash[c] = registry.hash[c]
    BY <1>7 DEF Register, Tidy, Registries
  <2>3. Activate(registry, d, m).hash[c] = registry.hash[c]
    BY <1>7 DEF Activate, Registries
  <2>4. Unregister(registry, d, m).hash[c] = registry.hash[c]
    BY <1>7 DEF Unregister, Tidy, Registries
  <2> QED
    BY <2>1, <2>2, <2>3, <2>4
<1>8. ASSUME NEW m \in Node, NEW d \in Client, Microtask(m, d) PROVE registry' = registry
  BY <1>8 DEF Microtask, JobStarts, ReserveStarts, ActivateStarts, DisconnectStarts,
              BackfillStarts, CallbackStarts, CallbackSkipped
<1>9. ASSUME NEW s \in 1..MaxStreams, Drop(s) \/ HandlersSettle(s) PROVE registry' = registry
  BY <1>9 DEF Drop, HandlersSettle
<1>10. ASSUME NEW k \in kicks, Kicked(k) \/ KickLost(k) PROVE registry' = registry
  BY <1>10 DEF Kicked, KickLost
<1>11. ASSUME NEW m \in Node, NEW l \in Node, Expire(m, l) \/ CleanUp(m, l) PROVE registry' = registry
  <2>1. ~CleanUp(m, l)
    BY DEF CleanUp, Smooth
  <2> QED
    BY <1>11, <2>1 DEF Expire
<1>12. CASE UNCHANGED vars
  BY <1>1, <1>12 DEF vars
<1> QED
  BY <1>1, <1>3, <1>4, <1>5, <1>6, <1>7, <1>8, <1>9, <1>10, <1>11, <1>12 DEF Next, Event

-----------------------------------------------------------------------------
(* The farewell to a client whose only stream has left such a node: q are its jobs, b its   *)
(* callbacks, st the streams, heard the last callback.                                      *)

\* The job has been answered for a stream that lives, or is still to take the registration back.
Needs(job, st) ==
    \/ job.kind = "reserve" /\ job.reply = "yes" /\ st[job.s].step # "gone"
    \/ job.kind = "disconnect" /\ job.told /\ job.reply \in {"queued", "sent"}

\* Some job does.
Requires(q, st) == \E i \in 1..Len(q) : Needs(q[i], st)

\* The job will have the application told, as far as the node knows.
Says(job) == job.kind = "disconnect" /\ job.told /\ job.reply \in {"queued", "sent", "yes"}

\* Some job will.
Parting(q) == \E i \in 1..Len(q) : Says(q[i])

\* The application is about to be told.
Notice(b) == \E i \in 1..Len(b) : b[i].kind = "disconnected"

\* A stream that has been reserved has the registration.
Reserved(st, n, c) == \E s \in Here(st, n, c) : st[s].step # "checking"

\* A stream whose connection the application has been told of lives.
Shown(st, n, c) == \E s \in Here(st, n, c) : st[s].published

\* The registration is kept until the farewell has been answered; only what is announced has been
\* published; and after a connection that was told the stream lives, or the farewell is on its way.
HeardFits(q, b, st, n, c, owner, heard) ==
    /\ Requires(q, st) => owner = n
    /\ Reserved(st, n, c) => owner = n
    /\ \A s \in Here(st, n, c) : st[s].published => st[s].step \in {"announcing", "open"}
    /\ heard.kind = "connected" => Shown(st, n, c) \/ Parting(q) \/ Notice(b)

\* The client c at the node n.
HeardAt(n, c) ==
    HeardFits(chain[n][c], callbacks[n][c], streams, n, c, registry.hash[c].node, told[n][c])

\* Every client at every node whose mesh has run from the start.
Heard == \A n \in StartsOn : mesh[n] = "on" => \A c \in Client : HeardAt(n, c)

\* The first job goes.
LEMMA TailHeard ==
    ASSUME NEW q \in Seq(Job), q # <<>>, NEW st
    PROVE  /\ Requires(Tail(q), st) => Requires(q, st)
           /\ Parting(q) => Parting(Tail(q)) \/ Says(q[1])
<1>1. /\ Len(q) \in Nat /\ Len(Tail(q)) = Len(q) - 1 /\ Len(q) > 0
      /\ \A i \in 1..Len(Tail(q)) : i + 1 \in 1..Len(q) /\ Tail(q)[i] = q[i + 1]
      /\ \A i \in 1..Len(q) : i = 1 \/ (i - 1 \in 1..Len(Tail(q)) /\ Tail(q)[i - 1] = q[i])
  OBVIOUS
<1>2. Requires(Tail(q), st) => Requires(q, st)
  BY <1>1 DEF Requires
<1>3. Parting(q) => Parting(Tail(q)) \/ Says(q[1])
  BY <1>1 DEF Parting
<1> QED
  BY <1>2, <1>3

\* Another job joins.
LEMMA JoinHeard ==
    ASSUME NEW q \in Seq(Job), NEW job \in Job, NEW st
    PROVE  /\ Requires(Append(q, job), st) => Requires(q, st) \/ Needs(job, st)
           /\ Parting(q) \/ Says(job) => Parting(Append(q, job))
<1> DEFINE p == Append(q, job)
<1>1. /\ Len(q) \in Nat /\ Len(p) = Len(q) + 1 /\ p[Len(p)] = job /\ Len(p) \in 1..Len(p)
      /\ \A i \in 1..Len(q) : i \in 1..Len(p) /\ p[i] = q[i]
      /\ \A i \in 1..Len(p) : i = Len(p) \/ i \in 1..Len(q)
  OBVIOUS
<1> HIDE DEF p
<1>2. Requires(p, st) => Requires(q, st) \/ Needs(job, st)
  BY <1>1 DEF Requires
<1>3. Parting(q) \/ Says(job) => Parting(p)
  BY <1>1 DEF Parting
<1> QED
  BY <1>2, <1>3 DEF p

\* The first job is sent, or answered.
LEMMA TurnHeard ==
    ASSUME NEW q \in Seq(Job), q # <<>>, NEW job \in Job, NEW st
    PROVE  LET p == [q EXCEPT ![1] = job] IN
           /\ Requires(p, st) => Requires(q, st) \/ Needs(job, st)
           /\ Parting(q) /\ (Says(q[1]) => Says(job)) => Parting(p)
<1> DEFINE p == [q EXCEPT ![1] = job]
<1>1. Len(p) = Len(q) /\ \A i \in 1..Len(q) : p[i] = IF i = 1 THEN job ELSE q[i]
  OBVIOUS
<1> HIDE DEF p
<1>2. Requires(p, st) => Requires(q, st) \/ Needs(job, st)
  BY <1>1 DEF Requires
<1>3. Parting(q) /\ (Says(q[1]) => Says(job)) => Parting(p)
  BY <1>1 DEF Parting
<1> QED
  BY <1>2, <1>3 DEF p

\* Streams that have gone stay gone.
LEMMA EndedHeard ==
    ASSUME NEW q \in Seq(Job), NEW st, NEW st2, Ended(st, st2), \A i \in 1..Len(q) : q[i].s \in DOMAIN st,
           Requires(q, st2)
    PROVE  Requires(q, st)
BY DEF Requires, Needs, Ended

\* The first callback goes, another one joins, or the first one starts.
LEMMA NoticeMoves ==
    ASSUME NEW b \in Seq(Callback)
    PROVE  /\ b # <<>> /\ Notice(b) => Notice(Tail(b)) \/ b[1].kind = "disconnected"
           /\ \A job \in Callback : Notice(b) \/ job.kind = "disconnected" => Notice(Append(b, job))
<1>1. ASSUME b # <<>>, Notice(b) PROVE Notice(Tail(b)) \/ b[1].kind = "disconnected"
  <2>1. /\ Len(b) \in Nat /\ Len(Tail(b)) = Len(b) - 1
        /\ \A i \in 1..Len(b) : i = 1 \/ (i - 1 \in 1..Len(Tail(b)) /\ Tail(b)[i - 1] = b[i])
    BY <1>1
  <2> QED
    BY <1>1, <2>1 DEF Notice
<1>2. ASSUME NEW job \in Callback, Notice(b) \/ job.kind = "disconnected" PROVE Notice(Append(b, job))
  <2> DEFINE p == Append(b, job)
  <2>1. /\ Len(b) \in Nat /\ Len(p) = Len(b) + 1 /\ p[Len(p)] = job /\ Len(p) \in 1..Len(p)
        /\ \A i \in 1..Len(b) : i \in 1..Len(p) /\ p[i] = b[i]
    OBVIOUS
  <2> HIDE DEF p
  <2>2. Notice(p)
    BY <1>2, <2>1 DEF Notice
  <2> QED
    BY <2>2 DEF p
<1> QED
  BY <1>1, <1>2

-----------------------------------------------------------------------------
(* The steps of a client at such a node, whose only stream is the first one. *)

\* What a step needs not take away.
StepHeard(n, c, p, b, st) ==
    /\ Requires(p, st) => Requires(chain[n][c], streams)
    /\ Reserved(st, n, c) => Reserved(streams, n, c) \/ registry.hash[c].node = n
    /\ \A s \in Here(st, n, c) : st[s].published => st[s].step \in {"announcing", "open"}
    /\ Shown(streams, n, c) => Shown(st, n, c) \/ Parting(p)
    /\ Parting(chain[n][c]) => Parting(p) \/ Notice(b)
    /\ Notice(callbacks[n][c]) => Notice(b)

\* Such a step tells nothing.
LEMMA HeardKeeps ==
    ASSUME NEW n, NEW c, HeardAt(n, c), registry' = registry, told' = told,
           StepHeard(n, c, chain'[n][c], callbacks'[n][c], streams')
    PROVE  HeardAt(n, c)'
BY DEF HeardAt, HeardFits, StepHeard

\* The only stream of the client at the node, which lives.
LEMMA OnlyOneHere ==
    ASSUME Base, Len(streams) = 1, NEW n \in Node, NEW c \in Client
    PROVE  /\ DOMAIN streams = {1} /\ streams[1] \in Stream
           /\ \A s \in DOMAIN streams : s = 1
           /\ \A s \in Here(streams, n, c) : s = 1 /\ s \in DOMAIN streams /\ Live(s)
                                             /\ streams[s].node = n /\ streams[s].client = c
<1>1. streams \in Seq(Stream) /\ StreamsFit(streams)
  BY DEF Base, Flow
<1>2. DOMAIN streams = {1} /\ streams[1] \in Stream
  BY <1>1
<1> QED
  BY <1>1, <1>2, RegistryAssumption DEF Here, StreamsFit, Live

\* The streams are as they were.
LEMMA SameHeard ==
    ASSUME Base, [Next]_vars, NEW n \in Node, NEW c \in Client, HeardAt(n, c), registry' = registry, told' = told,
           streams' = streams,
           Requires(chain'[n][c], streams) => Requires(chain[n][c], streams),
           Parting(chain[n][c]) => Parting(chain'[n][c]) \/ Notice(callbacks'[n][c]),
           Notice(callbacks[n][c]) => Notice(callbacks'[n][c])
    PROVE  HeardAt(n, c)'
<1>1. StepHeard(n, c, chain'[n][c], callbacks'[n][c], streams)
  BY DEF StepHeard, HeardAt, HeardFits
<1> QED
  BY <1>1, HeardKeeps

\* The stream takes a step; its reservation has been answered by then.
LEMMA StepsHeard ==
    ASSUME Base, [Next]_vars, NEW n \in Node, NEW c \in Client, HeardAt(n, c), registry' = registry, told' = told,
           NEW s \in Here(streams, n, c), NEW step \in {"connecting", "activating", "announcing", "open"},
           streams' = [streams EXCEPT ![s].step = step],
           streams[s].published => step \in {"announcing", "open"},
           streams[s].step = "checking" => registry.hash[c].node = n,
           Requires(chain'[n][c], streams) => Requires(chain[n][c], streams),
           \A i \in 1..Len(chain'[n][c]) : chain'[n][c][i].s \in DOMAIN streams,
           Parting(chain[n][c]) => Parting(chain'[n][c]) \/ Notice(callbacks'[n][c]),
           Notice(callbacks[n][c]) => Notice(callbacks'[n][c])
    PROVE  HeardAt(n, c)'
<1> DEFINE p == chain'[n][c]
           st == streams'
<1>1. s \in DOMAIN streams /\ streams[s] \in Stream
  BY DEF Here, Base, Flow
<1>2. st[s] = [streams[s] EXCEPT !.step = step]
  BY <1>1
<1>3. /\ st[s].published = streams[s].published /\ st[s].node = streams[s].node /\ st[s].client = streams[s].client
      /\ st[s].step = step
  BY <1>1, <1>2 DEF Stream
<1>4. DOMAIN st = DOMAIN streams /\ \A t \in DOMAIN streams : t # s => st[t] = streams[t]
  OBVIOUS
<1>5. Here(st, n, c) = Here(streams, n, c)
  BY <1>3, <1>4 DEF Here
<1>6. Ended(streams, st)
  BY GoneStays
<1>7. p \in Seq(Job)
  BY FlowKeeps DEF Base, Flow
<1> HIDE DEF p, st
<1>8. Requires(p, st) => Requires(chain[n][c], streams)
  BY <1>6, <1>7, EndedHeard DEF p
<1>9. Reserved(st, n, c) => Reserved(streams, n, c) \/ registry.hash[c].node = n
  BY <1>4, <1>5 DEF Reserved, Here
<1>10. \A t \in Here(st, n, c) : st[t].published => st[t].step \in {"announcing", "open"}
  <2>1. \A t \in Here(streams, n, c) : t \in DOMAIN streams /\ (streams[t].published => streams[t].step \in {"announcing", "open"})
    BY DEF HeardAt, HeardFits, Here
  <2> QED
    BY <1>3, <1>4, <1>5, <2>1
<1>11. Shown(streams, n, c) => Shown(st, n, c)
  BY <1>3, <1>4, <1>5 DEF Shown, Here
<1>12. StepHeard(n, c, p, callbacks'[n][c], st)
  BY <1>8, <1>9, <1>10, <1>11 DEF StepHeard, p
<1> QED
  BY <1>12, HeardKeeps DEF p, st

\* The stream leaves; its farewell says whether the application has been told of it.
LEMMA LeaveHeard ==
    ASSUME Base, [Next]_vars, Len(streams) = 1, NEW n \in Node, NEW c \in Client, HeardAt(n, c),
           registry' = registry, told' = told, callbacks' = callbacks,
           NEW s \in DOMAIN streams, streams[s].client = c, Live(s) => streams[s].node = n,
           NEW queue \in Seq(Job), Leave(n, c, s, queue),
           Requires(queue, streams) => Requires(chain[n][c], streams),
           \A i \in 1..Len(queue) : queue[i].s \in DOMAIN streams,
           Parting(chain[n][c]) => Parting(queue)
    PROVE  HeardAt(n, c)'
<1> DEFINE p == chain'[n][c]
           st == streams'
<1>0. chain \in [Node -> [Client -> Seq(Job)]] /\ DOMAIN streams = {1} /\ s = 1 /\ streams[1] \in Stream
  BY OnlyOneHere DEF Base, Flow
<1>1. CASE ~Live(s)
  <2>1. streams' = streams /\ chain'[n][c] = queue
    BY <1>0, <1>1 DEF Leave
  <2> QED
    BY <2>1, SameHeard
<1>2. CASE Live(s)
  <2>1. st = [streams EXCEPT ![1] = Gone(@)] /\ p = Append(queue, Farewell(s))
    BY <1>0, <1>2 DEF Leave
  <2>2. Farewell(s) \in Job /\ Farewell(s).kind = "disconnect" /\ Farewell(s).s = s
        /\ Farewell(s).reply = "queued" /\ Farewell(s).told = streams[s].published
    BY JobsTyped DEF Base
  <2>3. Gone(streams[1]).node = NoNode /\ NoNode # n
    BY <1>0, RegistryAssumption DEF Gone, Stream
  <2>4. DOMAIN st = {1} /\ st[1].node # n
    BY <1>0, <2>1, <2>3
  <2>5. Here(st, n, c) = {} /\ 1 \in Here(streams, n, c)
    BY <1>0, <1>2, <2>4 DEF Here
  <2>6. Ended(streams, st)
    BY GoneStays
  <2> HIDE DEF p, st
  <2>7. ASSUME Requires(p, st) PROVE Requires(queue, st) \/ Needs(Farewell(s), st)
    BY <2>1, <2>2, <2>7, JoinHeard
  <2>8. ASSUME Requires(p, st) PROVE registry.hash[c].node = n
    <3>1. CASE Requires(queue, st)
      <4>1. Requires(queue, streams)
        BY <2>6, <3>1, EndedHeard
      <4> QED
        BY <4>1 DEF HeardAt, HeardFits
    <3>2. CASE Needs(Farewell(s), st)
      <4>1. streams[s].published
        BY <2>2, <3>2 DEF Needs
      <4>2. Reserved(streams, n, c)
        BY <1>0, <2>5, <4>1 DEF HeardAt, HeardFits, Reserved
      <4> QED
        BY <4>2 DEF HeardAt, HeardFits
    <3> QED
      BY <2>7, <2>8, <3>1, <3>2
  <2>9. Shown(streams, n, c) => Parting(p)
    <3> SUFFICES ASSUME Shown(streams, n, c) PROVE Parting(p)
      OBVIOUS
    <3>1. streams[s].published
      BY <1>0 DEF Shown, Here
    <3>2. Says(Farewell(s))
      BY <2>2, <3>1 DEF Says
    <3> QED
      BY <2>1, <2>2, <3>2, JoinHeard
  <2>10. Parting(chain[n][c]) => Parting(p)
    BY <2>1, <2>2, JoinHeard
  <2>11. ~Reserved(st, n, c)
    BY <2>5 DEF Reserved
  <2>12. HeardFits(p, callbacks[n][c], st, n, c, registry.hash[c].node, told[n][c])
    BY <2>5, <2>8, <2>9, <2>10, <2>11 DEF HeardAt, HeardFits
  <2> QED
    BY <2>12 DEF HeardAt, p, st
<1> QED
  BY <1>1, <1>2

\* The registry answers: it gives the client to the node, or takes it back once the stream has gone,
\* and what it refuses to take back nobody had been told of.
LEMMA ExecuteHeard ==
    ASSUME Base, [Next]_vars, Len(streams) = 1, NEW n \in Node, NEW c \in Client, Plain(chain[n][c]),
           HeardAt(n, c), Execute(n, c)
    PROVE  HeardAt(n, c)'
<1> DEFINE q == chain[n][c]
           p == chain'[n][c]
           owner == registry'.hash[c].node
<1>1. /\ q # <<>> /\ q \in Seq(Job) /\ Len(q) > 0 /\ Head(q) = q[1] /\ q[1] \in Job /\ q[1].s \in DOMAIN streams
      /\ QueueFits(q, streams, n, c, mesh[n]) /\ q[1].reply = "sent" /\ q[1].kind # "backfill"
  <2>1. q # <<>> /\ Head(q).reply = "sent"
    BY DEF Execute
  <2>2. /\ q \in Seq(Job) /\ Len(q) > 0 /\ Head(q) = q[1] /\ q[1] \in Job /\ q[1].s \in DOMAIN streams
        /\ QueueFits(q, streams, n, c, mesh[n])
    BY <2>1, First DEF Base
  <2>3. 1 \in 1..Len(q)
    BY <2>2
  <2> QED
    BY <2>1, <2>2, <2>3 DEF Plain
<1>2. UNCHANGED <<streams, callbacks, told>>
  BY DEF Execute
<1>3. registry \in Registries /\ chain \in [Node -> [Client -> Seq(Job)]]
  BY DEF Base, IInv, Flow
<1>4. ASSUME Requires(p, streams) => owner = n, Reserved(streams, n, c) => owner = n, Parting(q) => Parting(p)
      PROVE  HeardAt(n, c)'
  BY <1>2, <1>4 DEF HeardAt, HeardFits
<1>5. ASSUME NEW reply \in {"yes", "no", "error"}, NEW old \in Node \cup {NoNode}, Answer(n, c, reply, old)
      PROVE  LET job == [q[1] EXCEPT !.reply = reply, !.old = old] IN
             /\ p = [q EXCEPT ![1] = job]
             /\ job \in Job /\ job.kind = q[1].kind /\ job.reply = reply /\ job.told = q[1].told
             /\ Requires(p, streams) => Requires(q, streams) \/ Needs(job, streams)
             /\ Parting(q) /\ (Says(q[1]) => Says(job)) => Parting(p)
  <2> DEFINE job == [q[1] EXCEPT !.reply = reply, !.old = old]
  <2>1. Turned(n, c, job)
    BY <1>1, <1>5, AnswerTurns DEF Base
  <2>2. p = [q EXCEPT ![1] = job]
    BY <1>3, <2>1 DEF Turned
  <2>3. job \in Job /\ job.kind = q[1].kind /\ job.reply = reply /\ job.told = q[1].told
    BY <1>1 DEF Job
  <2> HIDE DEF job, q, p
  <2>4. /\ Requires(p, streams) => Requires(q, streams) \/ Needs(job, streams)
        /\ Parting(q) /\ (Says(q[1]) => Says(job)) => Parting(p)
    BY <1>1, <2>2, <2>3, TurnHeard
  <2> QED
    BY <2>2, <2>3, <2>4 DEF job
<1>6. Requires(q, streams) => registry.hash[c].node = n
  BY DEF HeardAt, HeardFits
<1>7. Reserved(streams, n, c) => registry.hash[c].node = n
  BY DEF HeardAt, HeardFits
<1> HIDE DEF p, q
<1>8. CASE Claims(n, c) /\ Answer(n, c, "no", NoNode) /\ registry' = registry
  <2>1. q[1].kind = "reserve" /\ ~Says(q[1])
    BY <1>1, <1>8 DEF Claims, q, Says
  <2> DEFINE job == [q[1] EXCEPT !.reply = "no", !.old = NoNode]
  <2>2. /\ job.kind = q[1].kind /\ job.reply = "no"
        /\ Requires(p, streams) => Requires(q, streams) \/ Needs(job, streams)
        /\ Parting(q) /\ (Says(q[1]) => Says(job)) => Parting(p)
    BY <1>5, <1>8
  <2> HIDE DEF job
  <2>3. ~Needs(job, streams)
    BY <2>1, <2>2 DEF Needs
  <2> QED
    BY <1>4, <1>6, <1>7, <1>8, <2>1, <2>2, <2>3
<1>9. ASSUME NEW old \in Node \cup {NoNode}, Answer(n, c, "yes", old), q[1].kind # "disconnect", owner = n
      PROVE  HeardAt(n, c)'
  <2> DEFINE job == [q[1] EXCEPT !.reply = "yes", !.old = old]
  <2>1. Parting(q) /\ (Says(q[1]) => Says(job)) => Parting(p)
    BY <1>5, <1>9
  <2>2. ~Says(q[1])
    BY <1>9 DEF Says
  <2> QED
    BY <1>4, <1>9, <2>1, <2>2
<1>10. ASSUME Claims(n, c), NEW state \in {"pending", "active"}, registry' = Register(registry, c, n, state),
              NEW old \in Node \cup {NoNode}, Answer(n, c, "yes", old)
       PROVE  HeardAt(n, c)'
  <2>1. registry'.hash = [registry.hash EXCEPT ![c] = [node |-> n, state |-> state]]
    BY <1>10 DEF Register, Tidy
  <2>2. owner = n
    BY <1>3, <2>1 DEF Registries
  <2>3. q[1].kind # "disconnect"
    BY <1>1, <1>10 DEF Claims, q
  <2> QED
    BY <1>9, <1>10, <2>2, <2>3
<1>11. ASSUME Head(q).kind = "activate", registry' = Activate(registry, c, n), Answer(n, c, "yes", NoNode)
       PROVE  HeardAt(n, c)'
  <2>1. registry'.hash = [registry.hash EXCEPT ![c] = [node |-> n, state |-> "active"]]
    BY <1>11 DEF Activate
  <2>2. owner = n
    BY <1>3, <2>1 DEF Registries
  <2> QED
    BY <1>1, <1>9, <1>11, <2>2
<1>12. CASE Head(q).kind = "disconnect" /\ Answer(n, c, "yes", NoNode)
  <2> DEFINE job == [q[1] EXCEPT !.reply = "yes", !.old = NoNode]
  <2>0. /\ p = [q EXCEPT ![1] = job] /\ job.kind = q[1].kind /\ job.reply = "yes" /\ job.told = q[1].told
        /\ Parting(q) /\ (Says(q[1]) => Says(job)) => Parting(p)
    BY <1>5, <1>12
  <2>1. /\ p = [q EXCEPT ![1] = job] /\ job.kind = "disconnect" /\ job.reply = "yes" /\ job.told = q[1].told
        /\ Parting(q) /\ (Says(q[1]) => Says(job)) => Parting(p)
    BY <1>1, <1>12, <2>0
  <2>2. q[1].kind = "disconnect" /\ q[1].s = 1 /\ 1 \in 1..Len(q)
    BY <1>1, <1>12, OnlyOneHere
  <2>3. streams[1].step = "gone"
    BY <1>1, <2>2 DEF QueueFits, JobsFit
  <2>4. ~Reserved(streams, n, c)
    BY <2>3, OnlyOneHere DEF Reserved, Live
  <2>5. Says(q[1]) => Says(job)
    BY <2>1 DEF Says
  <2> HIDE DEF job
  <2>6. ~Requires(p, streams)
    <3> SUFFICES ASSUME NEW i \in 1..Len(p), Needs(p[i], streams) PROVE FALSE
      BY DEF Requires
    <3>1. i \in 1..Len(q) /\ p[i] = IF i = 1 THEN job ELSE q[i]
      BY <1>1, <2>1
    <3>2. CASE i = 1
      BY <2>1, <3>1, <3>2 DEF Needs
    <3>3. CASE i # 1
      <4>1. q[i].reply = "queued" /\ q[i].s \in DOMAIN streams
        BY <1>1, <3>1, <3>3 DEF QueueFits, JobsFit
      <4>2. q[i].kind = "disconnect" /\ q[i].s = 1
        BY <3>1, <3>3, <4>1, OnlyOneHere DEF Needs
      <4> QED
        BY <1>1, <2>2, <3>1, <3>3, <4>2 DEF QueueFits, OnceEach
    <3> QED
      BY <3>2, <3>3
  <2> QED
    BY <1>4, <2>1, <2>4, <2>5, <2>6
<1>13. CASE ~Claims(n, c) /\ ~Owns(n, c) /\ Answer(n, c, "no", NoNode) /\ registry' = registry
  <2> DEFINE job == [q[1] EXCEPT !.reply = "no", !.old = NoNode]
  <2>1. /\ job.kind = q[1].kind /\ job.reply = "no"
        /\ Requires(p, streams) => Requires(q, streams) \/ Needs(job, streams)
        /\ Parting(q) /\ (Says(q[1]) => Says(job)) => Parting(p)
    BY <1>5, <1>13
  <2> HIDE DEF job
  <2>2. ~Needs(job, streams)
    BY <2>1 DEF Needs
  <2>3. ~Requires(q, streams)
    BY <1>6, <1>13 DEF Owns, Owner
  <2>4. ~Says(q[1])
    <3>1. 1 \in 1..Len(q) /\ ~Needs(q[1], streams)
      BY <1>1, <2>3 DEF Requires
    <3> QED
      BY <1>1, <3>1 DEF Needs, Says
  <2> QED
    BY <1>4, <1>7, <1>13, <2>1, <2>2, <2>3, <2>4
<1>14. Owner(registry, c) \in Node \cup {NoNode}
  BY <1>3 DEF Owner, Registries, Registration
<1> QED
  BY <1>8, <1>10, <1>11, <1>12, <1>13, <1>14 DEF Execute, q

\* What the client does at the node, or what is done to it there, keeps the farewell on its way.
LEMMA ActHeard ==
    ASSUME Base, [Next]_vars, Len(streams) = 1, Len(streams') = 1, NEW n \in Node, NEW c \in Client,
           mesh[n] = "on", faults' = faults, Plain(chain[n][c]), HeardAt(n, c),
           TellsFit(callbacks[n][c], streams, n, c, told[n][c]), Acts(n, c)
    PROVE  HeardAt(n, c)'
<1> DEFINE q == chain[n][c]
           b == callbacks[n][c]
           Goal == HeardAt(n, c)'
<1>0. /\ q \in Seq(Job) /\ b \in Seq(Callback) /\ CallbacksFit(b, streams, n, c) /\ faults \in Nat
      /\ chain \in [Node -> [Client -> Seq(Job)]] /\ callbacks \in [Node -> [Client -> Seq(Callback)]]
      /\ QueueFits(q, streams, n, c, mesh[n])
  BY DEF Base, Flow, Types
<1>1. \A i \in 1..Len(q) : q[i].s \in DOMAIN streams
  BY <1>0 DEF QueueFits, JobsFit
<1>2. ASSUME q # <<>>
      PROVE  /\ Len(q) > 0 /\ 1 \in 1..Len(q) /\ Head(q) = q[1] /\ q[1] \in Job /\ q[1].s \in DOMAIN streams
             /\ streams[q[1].s].client = c /\ (Live(q[1].s) => q[1].s \in Here(streams, n, c))
             /\ (q[1].kind = "disconnect" => ~Live(q[1].s))
             /\ q[1].kind # "backfill" /\ Rest(n, c) = Tail(q) /\ Tail(q) \in Seq(Job) /\ Subject(n, c) = q[1].s
             /\ \A i \in 1..Len(Tail(q)) : Tail(q)[i].s \in DOMAIN streams
  <2>1. /\ Len(q) > 0 /\ Head(q) = q[1] /\ q[1] \in Job /\ q[1].s \in DOMAIN streams
        /\ streams[q[1].s].client = c /\ (Live(q[1].s) => q[1].s \in Here(streams, n, c))
        /\ (q[1].kind = "disconnect" => ~Live(q[1].s))
    BY <1>2, First DEF Base
  <2>2. 1 \in 1..Len(q) /\ Tail(q) \in Seq(Job) /\ Len(Tail(q)) = Len(q) - 1
        /\ \A i \in 1..Len(Tail(q)) : i + 1 \in 1..Len(q) /\ Tail(q)[i] = q[i + 1]
    BY <1>0, <1>2
  <2>3. q[1].kind # "backfill"
    BY <2>2 DEF Plain
  <2>4. \A i \in 1..Len(Tail(q)) : Tail(q)[i].s \in DOMAIN streams
    BY <1>1, <2>2
  <2> QED
    BY <2>1, <2>2, <2>3, <2>4 DEF Rest, Subject
<1>3. ASSUME q # <<>>, Head(q).reply = "queued", Send(n, c), UNCHANGED <<registry, streams, callbacks, told>> PROVE Goal
  <2> DEFINE job == [q[1] EXCEPT !.reply = "sent"]
             p == [q EXCEPT ![1] = job]
  <2>1. chain'[n][c] = p
    BY <1>0, <1>3 DEF Send
  <2>2. job \in Job /\ job.kind = q[1].kind /\ job.reply = "sent" /\ job.told = q[1].told
    BY <1>2, <1>3 DEF Job
  <2>3. Head(q) = q[1] /\ 1 \in 1..Len(q)
    BY <1>2, <1>3
  <2>4. (Needs(job, streams) => Needs(q[1], streams)) /\ (Says(q[1]) => Says(job))
    BY <1>3, <2>2, <2>3 DEF Needs, Says
  <2> HIDE DEF job
  <2>5. /\ Requires(p, streams) => Requires(q, streams) \/ Needs(job, streams)
        /\ Parting(q) /\ (Says(q[1]) => Says(job)) => Parting(p)
    BY <1>0, <1>3, <2>2, TurnHeard
  <2>6. Requires(p, streams) => Requires(q, streams)
    BY <2>3, <2>4, <2>5 DEF Requires
  <2> HIDE DEF p
  <2> QED
    BY <1>3, <2>1, <2>4, <2>5, <2>6, SameHeard
<1>4. ASSUME q # <<>>, Finish(n, c), Says(q[1]) => Notice(callbacks'[n][c])
      PROVE  /\ Requires(chain'[n][c], streams) => Requires(q, streams)
             /\ Parting(q) => Parting(chain'[n][c]) \/ Notice(callbacks'[n][c])
             /\ \A i \in 1..Len(chain'[n][c]) : chain'[n][c][i].s \in DOMAIN streams
  <2>1. chain'[n][c] = Tail(q)
    BY <1>0, <1>4 DEF Finish, Rest
  <2>2. (Requires(Tail(q), streams) => Requires(q, streams)) /\ (Parting(q) => Parting(Tail(q)) \/ Says(q[1]))
    BY <1>0, <1>4, TailHeard
  <2> QED
    BY <1>2, <1>4, <2>1, <2>2
<1>5. ASSUME q # <<>>, q[1].kind # "disconnect", Leave(n, c, Subject(n, c), Rest(n, c)),
             UNCHANGED <<registry, callbacks, told>>
      PROVE  Goal
  <2>1. (Requires(Tail(q), streams) => Requires(q, streams)) /\ (Parting(q) => Parting(Tail(q)) \/ Says(q[1]))
    BY <1>0, <1>5, TailHeard
  <2>2. ~Says(q[1])
    BY <1>5 DEF Says
  <2> DEFINE s == q[1].s
             queue == Tail(q)
  <2>3. /\ s \in DOMAIN streams /\ streams[s].client = c /\ (Live(s) => streams[s].node = n)
        /\ queue \in Seq(Job) /\ Leave(n, c, s, queue)
        /\ \A i \in 1..Len(queue) : queue[i].s \in DOMAIN streams
    BY <1>2, <1>5 DEF Here
  <2> HIDE DEF s
  <2>4. (Requires(queue, streams) => Requires(q, streams)) /\ (Parting(q) => Parting(queue))
    BY <2>1, <2>2
  <2> HIDE DEF queue
  <2> QED
    BY <1>5, <2>3, <2>4, LeaveHeard
<1>6. ASSUME NEW s \in DOMAIN streams, streams[s].client = c, Live(s) => streams[s].node = n, Leave(n, c, s, q),
             UNCHANGED <<registry, callbacks, told>>
      PROVE  Goal
  BY <1>0, <1>1, <1>6, LeaveHeard
<1>7. \A s \in Here(streams, n, c) : /\ streams[s].published => streams[s].step \in {"announcing", "open"}
                                     /\ streams[s].step # "checking" => registry.hash[c].node = n
  BY DEF HeardAt, HeardFits, Reserved
<1> HIDE DEF q, b
<1>8. CASE JobStarts(n, c)
  <2>1. q # <<>> /\ Head(q).reply = "queued" /\ UNCHANGED <<registry, callbacks, told>> /\ Running(n)
    BY <1>8 DEF JobStarts, ReserveStarts, ActivateStarts, DisconnectStarts, BackfillStarts, Due, Running, q
  <2>2. CASE ReserveStarts(n, c)
    <3>1. q[1].kind = "reserve"
      BY <1>2, <2>1, <2>2 DEF ReserveStarts, Due, q
    <3>2. CASE Send(n, c) /\ streams' = streams
      BY <1>3, <2>1, <3>2
    <3>3. CASE Finish(n, c) /\ streams' = streams
      <4>1. ~Says(q[1])
        BY <3>1 DEF Says
      <4> QED
        BY <1>4, <2>1, <3>3, <4>1, SameHeard DEF q
    <3> QED
      BY <2>1, <2>2, <3>2, <3>3 DEF ReserveStarts
  <2>3. CASE ActivateStarts(n, c)
    <3>1. q[1].kind = "activate"
      BY <1>2, <2>1, <2>3 DEF ActivateStarts, Due, q
    <3>2. \/ Send(n, c) /\ streams' = streams
          \/ Leave(n, c, Subject(n, c), Rest(n, c))
      BY <2>3 DEF ActivateStarts
    <3> QED
      BY <1>3, <1>5, <2>1, <3>1, <3>2
  <2>4. CASE DisconnectStarts(n, c)
    <3>1. q[1].kind = "disconnect" /\ streams' = streams
      BY <1>2, <2>1, <2>4 DEF DisconnectStarts, Due, q
    <3>2. Here(streams, n, c) = {}
      BY <1>2, <2>1, <3>1, OnlyOneHere
    <3>3. Send(n, c)
      BY <2>1, <2>4, <3>2 DEF DisconnectStarts, Current, Here
    <3> QED
      BY <1>3, <2>1, <3>1, <3>3
  <2>5. ~BackfillStarts(n, c)
    BY <1>2, <2>1 DEF BackfillStarts, Due, q
  <2> QED
    BY <1>8, <2>2, <2>3, <2>4, <2>5 DEF JobStarts
<1>9. CASE ReserveEnds(n, c)
  <2>1. q # <<>> /\ UNCHANGED <<registry, callbacks, told>>
    BY <1>9 DEF ReserveEnds, Answered, q
  <2>2. q[1].kind = "reserve" /\ ~Says(q[1])
    BY <1>2, <1>9, <2>1 DEF ReserveEnds, Answered, q, Says
  <2>3. CASE Leave(n, c, Subject(n, c), Rest(n, c))
    BY <1>5, <2>1, <2>2, <2>3
  <2> DEFINE s == q[1].s
  <2>4. CASE Finish(n, c) /\ Live(s) /\ streams' = [streams EXCEPT ![s].step = "connecting"] /\ Head(q).reply = "yes"
    <3>1. s \in Here(streams, n, c) /\ streams[s].step = "checking" /\ 1 \in 1..Len(q)
      BY <1>0, <1>2, <2>1, <2>2, <2>4 DEF QueueFits, JobsFit, Live
    <3>2. ~streams[s].published
      BY <1>7, <3>1
    <3>3. Needs(q[1], streams)
      BY <1>2, <2>1, <2>2, <2>4 DEF Needs, Live
    <3>4. registry.hash[c].node = n
      BY <3>1, <3>3 DEF HeardAt, HeardFits, Requires, q
    <3>5. /\ Requires(chain'[n][c], streams) => Requires(chain[n][c], streams)
          /\ Parting(chain[n][c]) => Parting(chain'[n][c]) \/ Notice(callbacks'[n][c])
          /\ \A i \in 1..Len(chain'[n][c]) : chain'[n][c][i].s \in DOMAIN streams
      BY <1>4, <2>1, <2>2, <2>4 DEF q
    <3> HIDE DEF s
    <3> QED
      BY <2>1, <2>4, <3>1, <3>2, <3>4, <3>5, StepsHeard
  <2>5. CASE Finish(n, c) /\ streams' = streams
    BY <1>4, <2>1, <2>2, <2>5, SameHeard DEF q
  <2> QED
    BY <1>2, <1>9, <2>1, <2>3, <2>4, <2>5 DEF ReserveEnds, Answered, q
<1>10. CASE ActivateEnds(n, c)
  <2>1. q # <<>> /\ UNCHANGED <<registry, told>>
    BY <1>10 DEF ActivateEnds, Answered, q
  <2>2. q[1].kind = "activate" /\ ~Says(q[1])
    BY <1>2, <1>10, <2>1 DEF ActivateEnds, Answered, q, Says
  <2>3. CASE Leave(n, c, Subject(n, c), Rest(n, c)) /\ callbacks' = callbacks
    BY <1>5, <2>1, <2>2, <2>3
  <2> DEFINE s == q[1].s
  <2>4. ASSUME Finish(n, c), Announce(n, c, "connected", s)
        PROVE  /\ Requires(chain'[n][c], streams) => Requires(chain[n][c], streams)
               /\ Parting(chain[n][c]) => Parting(chain'[n][c]) \/ Notice(callbacks'[n][c])
               /\ \A i \in 1..Len(chain'[n][c]) : chain'[n][c][i].s \in DOMAIN streams
               /\ Notice(callbacks[n][c]) => Notice(callbacks'[n][c])
    <3> DEFINE job == [kind |-> "connected", s |-> s, running |-> FALSE]
    <3>1. job \in Callback
      <4>1. s \in 1..MaxStreams
        BY <1>2, <2>1, JobsTyped DEF Base
      <4> QED
        BY <4>1 DEF Callback
    <3>2. callbacks'[n][c] = Append(b, job)
      BY <1>0, <2>4 DEF Announce, b
    <3> HIDE DEF job
    <3>3. Notice(b) => Notice(callbacks'[n][c])
      BY <1>0, <3>1, <3>2, NoticeMoves
    <3> QED
      BY <1>4, <2>1, <2>2, <2>4, <3>3 DEF q, b
  <2>5. CASE Finish(n, c) /\ Announce(n, c, "connected", s) /\ Live(s) /\ streams' = [streams EXCEPT ![s].step = "announcing"]
    <3>1. s \in Here(streams, n, c) /\ streams[s].step = "activating"
      BY <1>0, <1>2, <2>1, <2>2, <2>5 DEF QueueFits, JobsFit, Live
    <3> HIDE DEF s
    <3> QED
      BY <2>1, <2>4, <2>5, <3>1, StepsHeard
  <2>6. CASE Finish(n, c) /\ Announce(n, c, "connected", s) /\ streams' = streams
    BY <2>1, <2>4, <2>6, SameHeard
  <2> QED
    BY <1>2, <1>10, <2>1, <2>3, <2>5, <2>6 DEF ActivateEnds
<1>11. CASE DisconnectEnds(n, c)
  <2>1. q # <<>> /\ Finish(n, c) /\ UNCHANGED <<registry, told, streams>>
    BY <1>11 DEF DisconnectEnds, Answered, q
  <2>2. (Says(q[1]) => Notice(callbacks'[n][c])) /\ (Notice(callbacks[n][c]) => Notice(callbacks'[n][c]))
    <3>1. CASE callbacks' = callbacks
      <4>1. ~(Head(q).reply = "yes" /\ Head(q).told) \/ Announce(n, c, "disconnected", Subject(n, c))
        BY <1>11 DEF DisconnectEnds, q
      <4>2. ~Announce(n, c, "disconnected", Subject(n, c))
        <5> DEFINE job == [kind |-> "disconnected", s |-> Subject(n, c), running |-> FALSE]
        <5>1. ASSUME Announce(n, c, "disconnected", Subject(n, c)) PROVE b = Append(b, job)
          BY <1>0, <3>1, <5>1 DEF Announce, b
        <5>2. Len(Append(b, job)) = Len(b) + 1 /\ Len(b) \in Nat
          BY <1>0
        <5> QED
          BY <5>1, <5>2
      <4>3. Head(q).reply \in {"yes", "no", "error"}
        BY <1>11 DEF DisconnectEnds, Answered, q
      <4> QED
        BY <1>2, <2>1, <3>1, <4>1, <4>2, <4>3 DEF Says
    <3>2. CASE Announce(n, c, "disconnected", Subject(n, c))
      <4> DEFINE job == [kind |-> "disconnected", s |-> Subject(n, c), running |-> FALSE]
      <4>1. job \in Callback /\ job.kind = "disconnected"
        <5>1. Subject(n, c) \in 1..MaxStreams
          BY <1>2, <2>1, JobsTyped DEF Base
        <5> QED
          BY <5>1 DEF Callback
      <4>2. callbacks'[n][c] = Append(b, job)
        BY <1>0, <3>2 DEF Announce, b
      <4> HIDE DEF job
      <4> QED
        BY <1>0, <4>1, <4>2, NoticeMoves
    <3> QED
      BY <1>11, <3>1, <3>2 DEF DisconnectEnds
  <2> QED
    BY <1>4, <2>1, <2>2, SameHeard DEF q
<1>12. ~BackfillEnds(n, c)
  BY <1>2 DEF BackfillEnds, Answered, q
<1>13. ASSUME NEW s, HandlersSettle(s), streams[s].node = n, streams[s].client = c PROVE Goal
  <2> DEFINE job == NewJob("activate", s)
  <2>1. /\ s \in Here(streams, n, c) /\ streams[s].step = "connecting"
        /\ chain' = [chain EXCEPT ![n][c] = Append(@, job)]
        /\ streams' = [streams EXCEPT ![s].step = "activating"] /\ UNCHANGED <<registry, callbacks, told>>
    BY <1>13 DEF HandlersSettle, Here
  <2>2. job \in Job /\ job.kind = "activate" /\ job.s = s
    <3>1. s \in DOMAIN streams
      BY <2>1 DEF Here
    <3> QED
      BY <3>1, JobsTyped DEF Base, NewJob
  <2>3. chain'[n][c] = Append(q, job)
    BY <1>0, <2>1 DEF q
  <2> HIDE DEF job
  <2>4. ~Needs(job, streams)
    BY <2>2 DEF Needs
  <2>5. /\ Requires(Append(q, job), streams) => Requires(q, streams)
        /\ Parting(q) => Parting(Append(q, job))
    BY <1>0, <2>2, <2>4, JoinHeard
  <2>6. \A i \in 1..Len(Append(q, job)) : Append(q, job)[i].s \in DOMAIN streams
    <3>1. \A i \in 1..Len(Append(q, job)) : Append(q, job)[i] = job \/ (i \in 1..Len(q) /\ Append(q, job)[i] = q[i])
      BY <1>0
    <3> QED
      BY <1>1, <2>1, <2>2, <3>1 DEF Here
  <2>7. ~streams[s].published
    BY <1>7, <2>1
  <2> QED
    BY <2>1, <2>3, <2>5, <2>6, <2>7, StepsHeard DEF q
<1>14. ASSUME b # <<>>
       PROVE  /\ Len(b) > 0 /\ 1 \in 1..Len(b) /\ Head(b) = b[1] /\ b[1] \in Callback /\ b[1].s \in DOMAIN streams
              /\ Live(b[1].s) => b[1].s \in Here(streams, n, c)
              /\ b[1].kind = "connected" /\ Live(b[1].s) => streams[b[1].s].step = "announcing"
  <2>1. Len(b) > 0 /\ 1 \in 1..Len(b) /\ Head(b) = b[1] /\ b[1] \in Callback
    BY <1>0, <1>14
  <2> QED
    BY <1>0, <2>1 DEF CallbacksFit, Here, Live
<1>15. CASE CallbackStarts(n, c)
  <2>1. b # <<>> /\ UNCHANGED <<registry, chain>>
    BY <1>15 DEF CallbackStarts, CallbackDue, b
  <2> DEFINE s == b[1].s
             heard == told'[n][c]
  <2>2. heard.kind = b[1].kind
    <3>1. told' = [told EXCEPT ![n][c] = [kind |-> b[1].kind, s |-> b[1].s]]
      BY <1>14, <1>15, <2>1 DEF CallbackStarts, b
    <3>2. told \in [Node -> [Client -> [kind : {"none", "connected", "disconnected"}, s : 0..MaxStreams]]]
      BY DEF Base, Types
    <3> QED
      BY <3>1, <3>2
  <2>3. CASE b[1].kind = "connected"
    <3>1. s \in Here(streams, n, c) /\ streams[s].step = "announcing" /\ streams' = [streams EXCEPT ![s].published = TRUE]
      BY <1>14, <1>15, <2>1, <2>3 DEF CallbackStarts, b
    <3>2. streams[1] \in Stream /\ s = 1 /\ DOMAIN streams = {1} /\ streams[1].node = n /\ streams[1].client = c
      BY <3>1, OnlyOneHere
    <3>3. streams'[1] = [streams[1] EXCEPT !.published = TRUE] /\ DOMAIN streams' = {1}
      BY <3>1, <3>2
    <3>4. streams'[1].published /\ streams'[1].step = "announcing" /\ streams'[1].node = n /\ streams'[1].client = c
      BY <3>1, <3>2, <3>3 DEF Stream
    <3>5. Here(streams', n, c) = {1}
      BY <3>3, <3>4 DEF Here
    <3>6. Shown(streams', n, c)
      BY <3>4, <3>5 DEF Shown
    <3>7. registry.hash[c].node = n
      BY <1>7, <3>1
    <3>8. HeardFits(q, callbacks'[n][c], streams', n, c, registry.hash[c].node, heard)
      BY <3>4, <3>5, <3>6, <3>7 DEF HeardFits
    <3> QED
      BY <2>1, <3>8 DEF HeardAt, q
  <2>4. CASE b[1].kind # "connected"
    <3>1. streams' = streams
      BY <1>14, <1>15, <2>1, <2>4 DEF CallbackStarts, b
    <3> QED
      BY <2>1, <2>2, <2>4, <3>1 DEF HeardAt, HeardFits
  <2> QED
    BY <2>3, <2>4
<1>16. ASSUME b # <<>>, callbacks' = [callbacks EXCEPT ![n][c] = Tail(@)], b[1].kind = "connected"
       PROVE  Notice(callbacks[n][c]) => Notice(callbacks'[n][c])
  <2>1. callbacks'[n][c] = Tail(b)
    BY <1>0, <1>16 DEF b
  <2>2. Notice(b) => Notice(Tail(b))
    BY <1>0, <1>16, NoticeMoves
  <2> QED
    BY <2>1, <2>2 DEF b
<1>17. CASE CallbackSkipped(n, c)
  <2>1. b # <<>> /\ UNCHANGED <<registry, chain, told>> /\ callbacks' = [callbacks EXCEPT ![n][c] = Tail(@)]
    BY <1>17 DEF CallbackSkipped, CallbackDue, b
  <2>2. b[1].kind = "connected" /\ streams' = streams
    BY <1>14, <1>17, <2>1 DEF CallbackSkipped, Opened, b
  <2> QED
    BY <1>16, <2>1, <2>2, SameHeard
<1>18. CASE CallbackEnds(n, c)
  <2>1. b # <<>> /\ UNCHANGED <<registry, chain, told>> /\ callbacks' = [callbacks EXCEPT ![n][c] = Tail(@)]
    BY <1>18 DEF CallbackEnds, b
  <2> DEFINE s == b[1].s
  <2>2. Head(b) = b[1] /\ b[1].running
    BY <1>14, <1>18, <2>1 DEF CallbackEnds, b
  <2>3. CASE b[1].kind = "connected" /\ Live(s)
    <3>1. s \in Here(streams, n, c) /\ streams[s].step = "announcing"
      BY <1>14, <2>1, <2>3
    <3>2. streams' = [streams EXCEPT ![s].step = "open"]
      BY <1>18, <2>2, <2>3 DEF CallbackEnds, Opened, b
    <3>3. Notice(callbacks[n][c]) => Notice(callbacks'[n][c])
      BY <1>16, <2>1, <2>3
    <3>4. \A i \in 1..Len(chain'[n][c]) : chain'[n][c][i].s \in DOMAIN streams
      BY <1>1, <2>1 DEF q
    <3> HIDE DEF s
    <3> QED
      BY <2>1, <3>1, <3>2, <3>3, <3>4, StepsHeard
  <2>4. CASE b[1].kind = "connected" /\ ~Live(s)
    <3>1. streams' = streams
      BY <1>18, <2>2, <2>4 DEF CallbackEnds, Opened, b
    <3>2. Notice(callbacks[n][c]) => Notice(callbacks'[n][c])
      BY <1>16, <2>1, <2>4
    <3> QED
      BY <2>1, <3>1, <3>2, SameHeard
  <2>5. CASE b[1].kind # "connected"
    <3>1. streams' = streams
      BY <1>18, <2>2, <2>5 DEF CallbackEnds, b
    <3>2. told[n][c].kind # "connected"
      BY <1>14, <2>1, <2>2, <2>5 DEF TellsFit, b
    <3> QED
      BY <2>1, <3>1, <3>2 DEF HeardAt, HeardFits
  <2> QED
    BY <2>3, <2>4, <2>5
<1>19. ASSUME NEW s, Drop(s), streams[s].node = n, streams[s].client = c PROVE Goal
  <2>1. s \in DOMAIN streams /\ Leave(n, c, s, chain[n][c]) /\ UNCHANGED <<registry, callbacks, told>>
    BY <1>19 DEF Drop
  <2> QED
    BY <1>6, <1>19, <2>1 DEF q
<1>20. CASE Kicked([node |-> n, client |-> c])
  <2>1. UNCHANGED <<registry, callbacks, told>>
    BY <1>20 DEF Kicked
  <2>2. \/ \E s \in Current(n, c) : Leave(n, c, s, chain[n][c])
        \/ UNCHANGED <<streams, chain>>
    BY <1>20 DEF Kicked
  <2>3. ASSUME NEW s \in Current(n, c), Leave(n, c, s, chain[n][c]) PROVE Goal
    BY <1>6, <2>1, <2>3 DEF Current, q
  <2> QED
    BY <2>1, <2>2, <2>3, SameHeard
<1>21. ASSUME NEW polite \in BOOLEAN, Connect(n, c, polite) PROVE FALSE
  <2>1. DOMAIN streams' = DOMAIN streams \cup {Len(streams) + 1}
    BY <1>21, ConnectStreams DEF Base
  <2>2. DOMAIN streams' = 1..Len(streams')
    BY FlowKeeps DEF Flow
  <2> QED
    BY <2>1, <2>2
<1>22. ~Refuse(n, c) /\ ~Crash(n)
  BY <1>0 DEF Refuse, Crash, Fault
<1>23. ~MeshStarted(n) /\ ~Disconnect(n, c)
  BY DEF MeshStarted, Disconnect, Up
<1>24. Execute(n, c) => Goal
  BY ExecuteHeard
<1> QED
  BY <1>8, <1>9, <1>10, <1>11, <1>12, <1>13, <1>15, <1>17, <1>18, <1>19, <1>20, <1>21, <1>22, <1>23, <1>24
     DEF Acts, JobEnds

\* At most one stream is accepted in a step.
LEMMA LengthGrows ==
    ASSUME Base, [Next]_vars
    PROVE  Len(streams) \in Nat /\ (Len(streams') = Len(streams) \/ Len(streams') = Len(streams) + 1)
<1>0. Len(streams) \in Nat /\ DOMAIN streams = 1..Len(streams) /\ Len(streams') \in Nat /\ DOMAIN streams' = 1..Len(streams')
  BY FlowKeeps DEF Base, Flow
<1>1. CASE \A n \in Node, c \in Client, polite \in BOOLEAN : ~Connect(n, c, polite)
  <2>1. DOMAIN streams' = DOMAIN streams
    BY <1>1, StreamsRemain DEF Base
  <2> QED
    BY <1>0, <2>1, Counted
<1>2. ASSUME NEW n \in Node, NEW c \in Client, NEW polite \in BOOLEAN, Connect(n, c, polite)
      PROVE  Len(streams') = Len(streams) + 1
  <2>1. DOMAIN streams' = DOMAIN streams \cup {Len(streams) + 1}
    BY <1>2, ConnectStreams DEF Base
  <2>2. 1..Len(streams') = (1..Len(streams)) \cup {Len(streams) + 1}
    BY <1>0, <2>1
  <2> QED
    BY <1>0, <2>2, Counted
<1> QED
  BY <1>0, <1>1, <1>2

\* Nothing that happens elsewhere takes the registration from the node of the only stream.
LEMMA OthersHeard ==
    ASSUME Base, Fresh, Smooth, MaxTicks < KeyTtl, OneSide, [Next]_vars, Len(streams) = 1,
           NEW n \in Node, NEW c \in Client, mesh[n] = "on", HeardAt(n, c), Untouched(n, c), ~Execute(n, c)
    PROVE  HeardAt(n, c)'
<1> DEFINE q == chain[n][c]
           st == streams'
           owner == registry.hash[c].node
<1>1. chain'[n][c] = q /\ callbacks'[n][c] = callbacks[n][c] /\ told'[n][c] = told[n][c] /\ SameFor(streams, st, n, c)
  BY DEF Untouched
<1>2. owner = n => registry'.hash[c].node = n
  <2> SUFFICES ASSUME owner = n, NEW m \in Node, Execute(m, c) PROVE FALSE
    BY OwnerRemains
  <2>1. Touched(n, c)
    BY DEF Touched
  <2>2. Touched(m, c)
    BY DEF Execute, Touched
  <2> QED
    BY <2>1, <2>2 DEF OneSide
<1>3. Here(st, n, c) = Here(streams, n, c) /\ \A s \in Here(streams, n, c) : st[s] = streams[s]
  BY <1>1 DEF SameFor, Here
<1>4. Requires(q, st) => Requires(q, streams)
  <2>1. q \in Seq(Job) /\ \A i \in 1..Len(q) : q[i].s \in DOMAIN streams
    BY DEF Base, Flow, QueueFits, JobsFit
  <2>2. Ended(streams, st)
    BY GoneStays
  <2> HIDE DEF q, st
  <2> QED
    BY <2>1, <2>2, EndedHeard
<1>5. /\ Reserved(st, n, c) => Reserved(streams, n, c)
      /\ Shown(streams, n, c) => Shown(st, n, c)
  BY <1>3 DEF Reserved, Shown
<1> HIDE DEF q, st, owner
<1>6. HeardFits(q, callbacks[n][c], st, n, c, registry'.hash[c].node, told[n][c])
  BY <1>2, <1>3, <1>4, <1>5 DEF HeardAt, HeardFits, q, owner
<1> QED
  BY <1>1, <1>6 DEF HeardAt, st

\* While there is one stream, and nothing fails, the farewell remains on its way.
LEMMA HeardGoesOn ==
    ASSUME Base, Fresh, Smooth, MaxTicks < KeyTtl, OneSide, Begun, Tells, Heard, [Next]_vars,
           Len(streams) = 1, Len(streams') = 1, faults' = faults
    PROVE  Heard'
<1> SUFFICES ASSUME NEW n \in StartsOn, mesh'[n] = "on", NEW c \in Client PROVE HeardAt(n, c)'
  BY DEF Heard
<1>1. n \in Node /\ mesh[n] = "on" /\ Plain(chain[n][c])
  BY MeshRemains, ClientsAssumption DEF Begun
<1>2. HeardAt(n, c) /\ TellsFit(callbacks[n][c], streams, n, c, told[n][c])
  BY <1>1 DEF Heard, Tells
<1>3. CASE Acts(n, c)
  BY <1>1, <1>2, <1>3, ActHeard
<1>4. CASE Untouched(n, c) /\ ~Acts(n, c)
  <2>1. ~Execute(n, c)
    BY <1>4 DEF Acts
  <2> QED
    BY <1>1, <1>2, <1>4, <2>1, OthersHeard
<1> QED
  BY <1>1, <1>3, <1>4, Elsewhere

\* The first stream finds nothing of its client anywhere.
LEMMA HeardBegins ==
    ASSUME Base, OneSide, [Next]_vars, Len(streams) = 0
    PROVE  Heard'
<1> SUFFICES ASSUME NEW n \in StartsOn, NEW c \in Client PROVE HeardAt(n, c)'
  BY DEF Heard
<1>0. n \in Node /\ ~Touched(n, c)
  BY ClientsAssumption DEF OneSide
<1>1. CASE ~Touched(n, c)'
  <2>1. chain'[n][c] = <<>> /\ told'[n][c].kind = "none" /\ Here(streams', n, c) = {}
    BY <1>1 DEF Touched
  <2>2. ~Requires(<<>>, streams') /\ ~Reserved(streams', n, c)
    BY <2>1 DEF Requires, Reserved
  <2> QED
    BY <2>1, <2>2 DEF HeardAt, HeardFits
<1>2. ASSUME NEW polite \in BOOLEAN, Connect(n, c, polite) PROVE HeardAt(n, c)'
  <2> DEFINE job == NewJob("reserve", Len(streams) + 1)
             st == streams'
  <2>1. chain[n][c] = <<>> /\ Current(n, c) = {} /\ told[n][c].kind = "none"
    BY <1>0 DEF Touched, Current, Here
  <2>2. chain'[n][c] = (<<>> \o <<>>) \o <<job>>
    BY <1>0, <1>2, <2>1 DEF Connect, Base, Flow
  <2>3. job.kind = "reserve" /\ job.reply = "queued"
    BY DEF NewJob
  <2>4. /\ DOMAIN st = DOMAIN streams \cup {1} /\ 1 \notin DOMAIN streams
        /\ st[1] = [client |-> c, node |-> n, polite |-> polite, step |-> "checking", published |-> FALSE]
    BY <1>0, <1>2, ConnectStreams DEF Base
  <2>5. DOMAIN streams = {}
    BY DEF Base, Flow
  <2>6. \A s \in Here(st, n, c) : st[s].step = "checking" /\ ~st[s].published
    BY <2>4, <2>5 DEF Here
  <2> HIDE DEF job, st
  <2>7. chain'[n][c] = <<job>>
    BY <2>2
  <2>8. ~Requires(<<job>>, st)
    BY <2>3 DEF Requires, Needs
  <2>9. ~Reserved(st, n, c)
    BY <2>6 DEF Reserved
  <2>10. told' = told
    BY <1>2 DEF Connect
  <2>11. HeardFits(<<job>>, callbacks'[n][c], st, n, c, registry'.hash[c].node, told[n][c])
    BY <2>1, <2>6, <2>8, <2>9 DEF HeardFits
  <2> QED
    BY <2>7, <2>10, <2>11 DEF HeardAt, st
<1> QED
  BY <1>0, <1>1, <1>2, TouchedComes

\* Nobody has connected, and nobody has been told of anything.
LEMMA ToldStarts ==
    ASSUME Init
    PROVE  Begun /\ Tells /\ OneSide /\ Len(streams) = 0
<1>1. /\ streams = <<>> /\ Len(<<>>) = 0 /\ DOMAIN streams = {} /\ registry = Empty
      /\ \A n \in Node, c \in Client : chain[n][c] = <<>> /\ callbacks[n][c] = <<>> /\ told[n][c].kind = "none"
  BY DEF Init
<1>2. \A n \in Node, c \in Client : Here(streams, n, c) = {}
  BY <1>1 DEF Here
<1>3. Begun
  BY <1>1, ClientsAssumption DEF Begun, Plain, Init
<1>4. Tells
  BY <1>1, <1>2, ClientsAssumption DEF Tells, TellsFit
<1>5. \A n \in Node, c \in Client : registry.hash[c].node # n
  BY <1>1, RegistryAssumption DEF Empty, Absent
<1>6. OneSide
  BY <1>1, <1>2, <1>5 DEF OneSide, Touched
<1> QED
  BY <1>1, <1>3, <1>4, <1>6

\* With nothing on its way, what the application has heard last is so.
LEMMA HeardSettles ==
    ASSUME Base, Tells, faults = 0 /\ Len(streams) = 1 => Heard
    PROVE  ToldInOrder
<1> SUFFICES ASSUME Quiet, NEW n \in StartsOn, NEW c \in Client, Running(n), callbacks[n][c] = <<>>
             PROVE  /\ \A s \in Current(n, c) : streams[s].step = "open" => told[n][c] = [kind |-> "connected", s |-> s]
                    /\ Len(streams) = 1 /\ Current(n, c) = {} => told[n][c].kind # "connected"
  BY DEF ToldInOrder
<1>1. n \in Node /\ mesh[n] = "on" /\ Current(n, c) = Here(streams, n, c) /\ chain[n][c] = <<>> /\ Len(<<>>) = 0
  BY ClientsAssumption DEF Running, Quiet, Current, Here
<1>2. \A s \in Current(n, c) : streams[s].step = "open" => told[n][c] = [kind |-> "connected", s |-> s]
  <2>1. TellsFit(callbacks[n][c], streams, n, c, told[n][c])
    BY <1>1 DEF Tells
  <2> QED
    BY <1>1, <2>1 DEF TellsFit
<1>3. ASSUME Len(streams) = 1, Current(n, c) = {} PROVE told[n][c].kind # "connected"
  <2>1. HeardAt(n, c)
    BY <1>1, <1>3 DEF Heard, Quiet
  <2>2. ~Shown(streams, n, c) /\ ~Parting(chain[n][c]) /\ ~Notice(callbacks[n][c])
    BY <1>1, <1>3 DEF Shown, Parting, Notice
  <2> QED
    BY <2>1, <2>2 DEF HeardAt, HeardFits
<1> QED
  BY <1>2, <1>3

\* The application is told of a client in the order things happened, under the same condition.
THEOREM TellsInOrder ==
    ASSUME MaxTicks < KeyTtl
    PROVE  Spec => []ToldInOrder
<1> DEFINE Inv == /\ Base /\ Fresh /\ (faults = 0 => Smooth)
                  /\ Begun /\ Tells /\ OneSide /\ (faults = 0 /\ Len(streams) = 1 => Heard)
<1>1. Init => Inv
  BY BaseStarts, SmoothStarts, ToldStarts
<1>2. Inv /\ [Next]_vars => Inv'
  <2> SUFFICES ASSUME Inv, [Next]_vars PROVE Inv'
    OBVIOUS
  <2>1. Base' /\ Fresh'
    BY BaseKeeps, FreshKeeps
  <2>2. Begun' /\ Tells' /\ OneSide'
    BY BegunKeeps, TellsKeeps, OneSideKeeps
  <2>3. ASSUME faults' = 0 PROVE Smooth /\ faults = 0 /\ faults' = faults
    <3>1. faults \in Nat
      BY DEF Base, Types
    <3> QED
      BY <2>3, <3>1, FaultsGrow
  <2>4. ASSUME faults' = 0 PROVE Smooth'
    BY <2>3, <2>4, SmoothKeeps
  <2>5. ASSUME faults' = 0, Len(streams') = 1 PROVE Heard'
    <3>1. Len(streams) \in {0, 1}
      BY <2>5, LengthGrows
    <3>2. CASE Len(streams) = 0
      BY <3>2, HeardBegins
    <3>3. CASE Len(streams) = 1
      BY <2>3, <2>5, <3>3, HeardGoesOn
    <3> QED
      BY <3>1, <3>2, <3>3
  <2> QED
    BY <2>1, <2>2, <2>4, <2>5
<1>3. Inv => ToldInOrder
  BY HeardSettles
<1> QED
  BY <1>1, <1>2, <1>3, PTL DEF Spec
=============================================================================
