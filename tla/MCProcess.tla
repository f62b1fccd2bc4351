----------------------------- MODULE MCProcess ------------------------------
(***************************************************************************)
(* The process with two threads, for TLC.                                  *)
(***************************************************************************)
EXTENDS Process, TLC

=============================================================================
