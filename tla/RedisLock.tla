----------------------------- MODULE RedisLock -----------------------------
(***************************************************************************)
(* The three Lua scripts that LeaderService (src/services/leader.ts) and   *)
(* the Redis mutex (src/helpers/redis/mutex.ts) run against one key.       *)
(* Redis runs a script atomically, so a script is a function of the key to *)
(* the key it leaves and the answer it returns.                            *)
(*                                                                         *)
(* A key is a record: the token stored in it (NoToken when the key does    *)
(* not exist) and the ticks left until Redis expires it.                   *)
(***************************************************************************)
EXTENDS Integers

CONSTANTS NoToken, TTL

ASSUME TTLAssumption == TTL \in Nat \ {0}

Free == [owner |-> NoToken, ttl |-> 0]

Held(token, ttl) == [owner |-> token, ttl |-> ttl]

Keys(Tokens) == [owner : Tokens \cup {NoToken}, ttl : 0..TTL]

\* Mutant: the script sets the key without looking at it first.
AcquireBlindly(key, token) ==
    [key |-> Held(token, TTL), granted |-> TRUE]

\* ACQUIRE refuses when the key exists, even when it holds the caller's token.
Acquire(key, token) ==
    IF key.owner # NoToken
    THEN [key |-> key, granted |-> FALSE]
    ELSE [key |-> Held(token, TTL), granted |-> TRUE]

\* Mutant: the script answers 1 and forgets the pexpire.
RenewWithoutExpire(key, token) ==
    [key |-> key, granted |-> key.owner = token]

\* RENEW extends the key only when it holds the caller's token.
Renew(key, token) ==
    IF key.owner # token
    THEN [key |-> key, granted |-> FALSE]
    ELSE [key |-> Held(token, TTL), granted |-> TRUE]

\* RELEASE deletes the key only when it holds the caller's token.
Release(key, token) ==
    IF key.owner # token
    THEN [key |-> key, granted |-> FALSE]
    ELSE [key |-> Free, granted |-> TRUE]

\* Redis expires the key when its time to live has passed.
Aged(key) ==
    IF key.ttl <= 1 THEN Free ELSE [key EXCEPT !.ttl = @ - 1]
=============================================================================
