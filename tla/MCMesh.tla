------------------------------- MODULE MCMesh -------------------------------
(* Mesh for TLC: slot indexes are interchangeable. *)
EXTENDS Mesh, TLC

Symmetry == Permutations(Index)
=============================================================================
