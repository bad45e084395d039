--------------------------- MODULE MCMeshClients ---------------------------
(* Instances of MeshClients small enough for TLC. *)
EXTENDS MeshClients

OneClient == {"c"}
TwoNodes == {"a", "b"}

\* The mesh of one node runs from the beginning, the other one starts among its clients.
First == {"a"}

=============================================================================
