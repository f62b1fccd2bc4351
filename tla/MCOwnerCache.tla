---------------------------- MODULE MCOwnerCache ----------------------------
(* Instances of OwnerCache for TLC. *)
EXTENDS OwnerCache, TLC

Symmetry == Permutations(Threads)
=============================================================================
