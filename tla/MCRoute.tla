------------------------------- MODULE MCRoute ------------------------------
(* How btm_malloc_at routes a request: the partition by its call site      *)
(* (Intern), the class by its size (SizeClass).  The sites' hashes collide  *)
(* at the end of the table, so that probing wraps around.                   *)
EXTENDS Intern, SizeClass, TLC

CONSTANTS ra1, ra2, ra3, ra4

MCBucket == (ra1 :> Cap - 1) @@ (ra2 :> Cap - 1) @@ (ra3 :> 0) @@ (ra4 :> Cap - 1)

\* The two parts share no state, so that it is enough to carve up chunks before
\* the first lookup.
RouteInit == Init /\ ChunkInit
RouteNext ==
  \/ sc = NoClass /\ Next /\ UNCHANGED chunkVars
  \/ Init /\ ChunkNext /\ UNCHANGED vars

RouteSpec == RouteInit /\ [][RouteNext]_<<vars, chunkVars>> /\ Fairness
=============================================================================
