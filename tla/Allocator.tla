------------------------------ MODULE Allocator ------------------------------
(***************************************************************************)
(* What the small-object heap promises its callers: a block that is handed *)
(* out is not in use, it goes to one caller, and the 2 MiB region around it *)
(* holds live blocks of no other pool, that is, of no other partition of   *)
(* call sites and of no other size class.                                  *)
(***************************************************************************)
CONSTANTS
  Blocks,      \* every slot of every slab of every chunk
  Pools,       \* (partition, size class) pairs
  RegionOf,    \* the chunk each block lies in
  NoPool

VARIABLE live  \* the pool a block was allocated for, while it is in use

Init == live = [x \in Blocks |-> NoPool]

Malloc(p, x) ==
  /\ live[x] = NoPool
  /\ \A y \in Blocks : RegionOf[y] = RegionOf[x] => live[y] \in {NoPool, p}
  /\ live' = [live EXCEPT ![x] = p]

Free(x) ==
  /\ live[x] # NoPool
  /\ live' = [live EXCEPT ![x] = NoPool]

Next == \E x \in Blocks : Free(x) \/ \E p \in Pools : Malloc(p, x)

Spec == Init /\ [][Next]_live
=============================================================================
