------------------------------ MODULE MCLeader ------------------------------
(* Instances of Leader small enough for TLC. *)
EXTENDS Leader

\* Two services and enough uuids for the commands in flight.
OneNode == {"n1"}
TwoNodes == {"n1", "n2"}
Uuids == 0..3
=============================================================================
