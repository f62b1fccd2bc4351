------------------------------ MODULE MCCalls -------------------------------
(* Calls for TLC: two classes of small objects. *)
EXTENDS Calls

ClassSizes == <<1, 2>>
=============================================================================
