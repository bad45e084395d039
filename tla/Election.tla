------------------------------ MODULE Election ------------------------------
(***************************************************************************)
(* What LeaderService promises its callers: leadership is given to one     *)
(* instance when nobody has it, and given up before another gets it.       *)
(***************************************************************************)
CONSTANT Node

VARIABLE leaders

Init == leaders = {}

Elect(n) == leaders = {} /\ leaders' = {n}

Resign(n) == leaders = {n} /\ leaders' = {}

Next == \E n \in Node : Elect(n) \/ Resign(n)

Spec == Init /\ [][Next]_leaders
=============================================================================
