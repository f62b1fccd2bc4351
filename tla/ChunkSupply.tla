---------------------------- MODULE ChunkSupply -----------------------------
(***************************************************************************)
(* What background.c promises the slab pools: btm_chunk_obtain gives a     *)
(* pool a chunk that no pool has, and btm_chunk_dispose takes a chunk      *)
(* back.  pool[c] is the pool that has the chunk at address c.             *)
(***************************************************************************)
CONSTANTS Chunks, Pools, NoPool

VARIABLE pool

Init == pool = [c \in Chunks |-> NoPool]

Obtain(c, p) == pool[c] = NoPool /\ pool' = [pool EXCEPT ![c] = p]

Dispose(c) == pool[c] # NoPool /\ pool' = [pool EXCEPT ![c] = NoPool]

Next == \E c \in Chunks : Dispose(c) \/ \E p \in Pools : Obtain(c, p)

Spec == Init /\ [][Next]_pool
=============================================================================
