--------------------------- MODULE ClientRegistry ---------------------------
(***************************************************************************)
(* The Lua scripts of MeshClientRedisRegistry                              *)
(* (src/services/mesh-client/mesh-client-redis-registry.ts) as functions   *)
(* of the registry: a hash from clients to their registrations and a set   *)
(* of clients for each node, every key with a time to live.  Redis runs a  *)
(* script as one step.  Metadata and connectedAt are left out.             *)
(***************************************************************************)
EXTENDS Integers, FiniteSets

CONSTANTS
    Client,
    Node,           \* mesh instance ids; one is never used again (INCR next_id)
    NoNode,
    KeyTtl          \* KEY_TTL_SECONDS, in ticks

ASSUME RegistryAssumption ==
    /\ KeyTtl \in Nat \ {0}
    /\ NoNode \notin Node

Registration == [node : Node \cup {NoNode}, state : {"pending", "active"}]

\* No field for the client in the hash.
Absent == [node |-> NoNode, state |-> "active"]

\* A key that does not exist has no time to live.
Registries ==
    [hash      : [Client -> Registration],
     hashTtl   : 0..KeyTtl,
     members   : [Node -> SUBSET Client],
     memberTtl : [Node -> 0..KeyTtl]]

Empty ==
    [hash      |-> [c \in Client |-> Absent],
     hashTtl   |-> 0,
     members   |-> [n \in Node |-> {}],
     memberTtl |-> [n \in Node |-> 0]]

Owner(reg, c) == reg.hash[c].node

\* What REGISTER refuses: another node's client, unless it may be superseded.
Conflicts(reg, c, n, allowSupersede) ==
    Owner(reg, c) \notin {NoNode, n} /\ ~allowSupersede

\* Redis drops a key whose last element is gone, and its time to live with it.
Tidy(reg) ==
    [hash      |-> reg.hash,
     hashTtl   |-> IF \A c \in Client : reg.hash[c] = Absent THEN 0 ELSE reg.hashTtl,
     members   |-> reg.members,
     memberTtl |-> [n \in Node |-> IF reg.members[n] = {} THEN 0 ELSE reg.memberTtl[n]]]

\* Mutant: the client stays in the set of the node it left.
RegisterKeepsMember(reg, c, n, state) ==
    [hash      |-> [reg.hash EXCEPT ![c] = [node |-> n, state |-> state]],
     hashTtl   |-> KeyTtl,
     members   |-> [reg.members EXCEPT ![n] = @ \cup {c}],
     memberTtl |-> [reg.memberTtl EXCEPT ![n] = KeyTtl]]

\* REGISTER of a client that does not conflict.
Register(reg, c, n, state) == Tidy(
    [hash      |-> [reg.hash EXCEPT ![c] = [node |-> n, state |-> state]],
     hashTtl   |-> KeyTtl,
     members   |-> [m \in Node |-> IF m = n THEN reg.members[m] \cup {c}
                                   ELSE IF m = Owner(reg, c) THEN reg.members[m] \ {c}
                                   ELSE reg.members[m]],
     memberTtl |-> [reg.memberTtl EXCEPT ![n] = KeyTtl]])

\* ACTIVATE by the node that owns the client.
Activate(reg, c, n) ==
    [hash      |-> [reg.hash EXCEPT ![c] = [node |-> n, state |-> "active"]],
     hashTtl   |-> KeyTtl,
     members   |-> [reg.members EXCEPT ![n] = @ \cup {c}],
     memberTtl |-> [reg.memberTtl EXCEPT ![n] = KeyTtl]]

\* UNREGISTER by the node that owns the client.
Unregister(reg, c, n) == Tidy(
    [hash      |-> [reg.hash EXCEPT ![c] = Absent],
     hashTtl   |-> reg.hashTtl,
     members   |-> [reg.members EXCEPT ![n] = @ \ {c}],
     memberTtl |-> reg.memberTtl])

\* What CLEANUP_NODE removes from the hash: it looks for members of the node's set only.
Orphans(reg, n) == {c \in reg.members[n] : Owner(reg, c) = n}

\* Mutant: the set goes, the registrations stay.
CleanupNodeSetOnly(reg, n) == Tidy([reg EXCEPT !.members[n] = {}])

CleanupNode(reg, n) == Tidy(
    [hash      |-> [c \in Client |-> IF c \in Orphans(reg, n) THEN Absent ELSE reg.hash[c]],
     hashTtl   |-> reg.hashTtl,
     members   |-> [reg.members EXCEPT ![n] = {}],
     memberTtl |-> reg.memberTtl])

Left(ttl) == IF ttl > 0 THEN ttl - 1 ELSE 0

\* One tick: a key whose time is up vanishes.
Aged(reg) ==
    [hash      |-> IF reg.hashTtl > 1 THEN reg.hash ELSE [c \in Client |-> Absent],
     hashTtl   |-> Left(reg.hashTtl),
     members   |-> [n \in Node |-> IF reg.memberTtl[n] > 1 THEN reg.members[n] ELSE {}],
     memberTtl |-> [n \in Node |-> Left(reg.memberTtl[n])]]

\* Every set lists only clients that the hash gives to its node, and expires no later than
\* the hash.
Consistent(reg) ==
    \A n \in Node : \A c \in reg.members[n] :
        /\ Owner(reg, c) = n
        /\ 0 < reg.memberTtl[n] /\ reg.memberTtl[n] <= reg.hashTtl
=============================================================================
