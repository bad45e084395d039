---------------------------- MODULE MCRedisMutex ----------------------------
(* Instances of RedisMutex small enough for TLC. *)
EXTENDS RedisMutex

Callers == {"c1", "c2"}
TwoKeys == {"a", "b"}

\* The embrace: each takes the keys in the other's order.
Crossed == [c1 |-> <<"a", "b">>, c2 |-> <<"b", "a">>]

\* One key that both want, and an inner key of one of them.
Nested == [c1 |-> <<"a", "b">>, c2 |-> <<"a">>]

=============================================================================
