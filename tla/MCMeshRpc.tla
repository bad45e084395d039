----------------------------- MODULE MCMeshRpc -----------------------------
(* Instances of MeshRpc small enough for TLC. *)
EXTENDS MeshRpc

TwoNodes == {"a", "b"}

\* One node runs from the beginning, the other one joins.
First == {"a"}

\* That one handles requests, the first one has no handler for them.
Second == {"b"}
=============================================================================
