--------------------------- MODULE HeapInductive ----------------------------
(***************************************************************************)
(* The inductive invariant of Heap, for any number of threads, pools,      *)
(* chunks, slabs and slots.  Its parts are stated over three state         *)
(* functions, so that a step can be described by how it changes them.      *)
(* Proved here: it holds initially; the steps that leave the pools alone   *)
(* preserve it; so do both steps of btm_pool_refill, the one that finds,   *)
(* recycles or carves a slab and the one that moves slots from that slab   *)
(* to the thread.                                                          *)
(***************************************************************************)
EXTENDS Heap, FiniteSetTheorems, TLAPS

\* The slots of each pool that are in use or cached.
OutF == [p \in Pools |-> {x \in Slots : Out(p, x)}]

\* The slabs carved from the chunks of each pool.
CarvF == [p \in Pools |-> Carved(p)]

\* The slab of each pool that a refill has found and not yet used.
RefF == [p \in Pools |-> InRefill(p)]

-----------------------------------------------------------------------------
(* The inductive invariant: the pools *)

\* A chunk on a pool's list names that pool in its header and is not in the
\* store, so that no chunk has two owners; the active chunk is on the list.
Owned ==
  \A p \in Pools :
    /\ \A c \in chunks[p] : pool[c] = p /\ c \notin store
    /\ active[p] # NoChunk => active[p] \in chunks[p]

\* A slot that is out lies in a carved slab and not on its free list.
OutCarved ==
  \A p \in Pools : \A x \in OutF[p] :
    x[1] \in CarvF[p] /\ x[2] \notin free_head[x[1]]

\* A slot of a carved slab that is not on the free list is out.
NoneLost ==
  \A p \in Pools : \A s \in CarvF[p] : \A k \in Index :
    k \in free_head[s] \/ <<s, k>> \in OutF[p]

\* free_count counts the free list.
FreeCounted ==
  \A p \in Pools : \A s \in CarvF[p] : free_count[s] = Cardinality(free_head[s])

\* The three lists of a pool, as ListsAreExact has them, and the slab a refill
\* works on.
Lists ==
  \A p \in Pools :
    /\ partial[p] = {s \in CarvF[p] : free_count[s] \in 1..(NSlots - 1)} \cup RefF[p]
    /\ empty_warm[p] \cup empty_cold[p] =
         {s \in CarvF[p] : free_count[s] = NSlots} \ RefF[p]
    /\ empty_warm[p] \cap empty_cold[p] = {}
    /\ \A s \in RefF[p] : s \in CarvF[p] /\ free_count[s] # 0

\* The in_partial flag tells whether the slab is on the list.
Flags ==
  \A p \in Pools : \A s \in CarvF[p] :
    /\ in_partial[s] <=> s \in partial[p]
    /\ decommitted[s] => s \in empty_cold[p]

\* The carved slabs of chunk c, by number, that are on no empty list.
Busy(p, c) == {i \in 1..next_free_page[c] :
                 <<c, i>> \notin empty_warm[p] \cup empty_cold[p]}

\* live_slabs counts them, and a chunk on the list has one.
LiveSlabs ==
  \A p \in Pools : \A c \in chunks[p] :
    live_slabs[c] = Cardinality(Busy(p, c)) /\ live_slabs[c] # 0

WarmCounted ==
  \A p \in Pools :
    /\ IsFiniteSet(empty_warm[p])
    /\ warm_count[p] = Cardinality(empty_warm[p])
    /\ warm_count[p] <= KeepWarmEmpty

OutCounted ==
  \A p \in Pools :
    IsFiniteSet(OutF[p]) /\ outstanding[p] = Cardinality(OutF[p])

PoolInv == /\ Owned /\ OutCarved /\ NoneLost /\ FreeCounted /\ Lists /\ Flags
           /\ LiveSlabs /\ WarmCounted /\ OutCounted

-----------------------------------------------------------------------------
(* The inductive invariant: the threads *)

\* A slot is in one bin at most, and in none while it is in use.
BinsDisjoint ==
  \A t \in Threads, p \in Pools : \A x \in bin_head[t][p] :
    /\ live[x] = NoPool
    /\ \A u \in Threads, q \in Pools : x \in bin_head[u][q] => u = t /\ q = p

\* A refill holds the lock of its pool, has one slab and an empty bin.
RefillInv ==
  \A t \in Threads :
    /\ refilling[t] = NoPool => slab[t] = {}
    /\ refilling[t] # NoPool =>
         /\ lock[refilling[t]] = t
         /\ flushing[t] = NoPool
         /\ t \notin exiting
         /\ bin_head[t][refilling[t]] = {}
         /\ \A s1, s2 \in slab[t] : s1 = s2

BinsCounted ==
  \A t \in Threads, p \in Pools :
    /\ IsFiniteSet(bin_head[t][p])
    /\ bin_count[t][p] = Cardinality(bin_head[t][p])
    /\ bin_count[t][p] <= CacheMax + 1
    /\ bin_count[t][p] > CacheMax => flushing[t] = p

ThreadInv == BinsDisjoint /\ RefillInv /\ BinsCounted

IInv == TypeOK /\ PoolInv /\ ThreadInv

-----------------------------------------------------------------------------
(* Facts about slabs, slots and free lists *)

\* A set of slots of one slab has as many members as indexes.
LEMMA OneSlab ==
  ASSUME NEW s, NEW R, IsFiniteSet(R)
  PROVE  IsFiniteSet({s} \X R) /\ Cardinality({s} \X R) = Cardinality(R)
<1>1. IsFiniteSet({s}) /\ Cardinality({s}) = 1
  BY Zenon, FS_Singleton
<1>2. IsFiniteSet({s} \X R) /\ Cardinality({s} \X R) = 1 * Cardinality(R)
  BY Zenon, <1>1, FS_Product
<1>3. Cardinality(R) \in Nat
  BY Zenon, FS_CardinalityType
<1> QED BY <1>2, <1>3

\* A refill takes at least one slot and at most as many as a bin may hold.
LEMMA LimitKept ==
  ASSUME NEW w \in 1..CacheMax, NEW n \in 1..NSlots
  PROVE  MinOf(w, n) \in 1..CacheMax
BY SMTT(30), HeapAssumption DEF MinOf

\* The size of the union of two sets without a common member.
LEMMA ApartUnion ==
  ASSUME NEW S, NEW T, IsFiniteSet(S), IsFiniteSet(T), T \cap S = {}
  PROVE  IsFiniteSet(S \cup T) /\ Cardinality(S \cup T) = Cardinality(S) + Cardinality(T)
<1>1. IsFiniteSet(S \cup T)
      /\ Cardinality(S \cup T) = Cardinality(S) + Cardinality(T) - Cardinality(S \cap T)
  BY FS_Union
<1>2. S \cap T = {}
  BY Zenon
<1>3. Cardinality(S \cap T) = 0
  BY Zenon, <1>2, FS_EmptySet
<1>4. Cardinality(S) \in Nat /\ Cardinality(T) \in Nat
  BY Zenon, FS_CardinalityType
<1> QED BY <1>1, <1>3, <1>4

\* Taking an element out of a finite set leaves one less, as every decrement of
\* a counter in partition.c assumes.
LEMMA OneLess ==
  ASSUME NEW S, IsFiniteSet(S), NEW e \in S
  PROVE  IsFiniteSet(S \ {e}) /\ Cardinality(S \ {e}) = Cardinality(S) - 1
  BY FS_RemoveElement

\* A slab is a chunk and a number, a slot is a slab and an index.
LEMMA Shapes ==
  /\ \A s \in Slabs : /\ s[1] \in Chunks /\ s[2] \in 1..SlabsPerChunk
                       /\ s = <<s[1], s[2]>>
  /\ \A x \in Slots : x[1] \in Slabs /\ x[2] \in Index /\ x = <<x[1], x[2]>>
  /\ \A c \in Chunks, i \in 1..SlabsPerChunk : <<c, i>> \in Slabs
  /\ \A s \in Slabs, k \in Index : <<s, k>> \in Slots
BY DEF Slabs, Slots, Index

\* A free list is finite; it is empty or full when its length says so.
LEMMA FreeListLength ==
  ASSUME NEW F \in SUBSET Index
  PROVE  /\ IsFiniteSet(F)
         /\ Cardinality(F) \in 0..NSlots
         /\ Cardinality(F) = NSlots <=> F = Index
         /\ Cardinality(F) = 0 <=> F = {}
<1>1. IsFiniteSet(Index) /\ Cardinality(Index) = NSlots
  BY FS_Interval, HeapAssumption DEF Index
<1>2. IsFiniteSet(F) /\ Cardinality(F) <= NSlots /\ (Cardinality(F) = NSlots => F = Index)
  BY Zenon, <1>1, FS_Subset
<1>3. Cardinality(F) \in Nat
  BY Zenon, <1>2, FS_CardinalityType
<1>4. Cardinality(F) = 0 <=> F = {}
  BY Zenon, <1>2, FS_EmptySet
<1> QED
  BY <1>1, <1>2, <1>3, <1>4, HeapAssumption

\* No slab is carved for two pools.
LEMMA CarvedApart ==
  ASSUME TypeOK, Owned, NEW p \in Pools, NEW q \in Pools, NEW s \in CarvF[p], s \in CarvF[q]
  PROVE  p = q
BY DEF TypeOK, Owned, CarvF, Carved, chunk_of

\* A slab on an empty list is carved for that pool, and no slot of it is out.
LEMMA EmptySlab ==
  ASSUME IInv, NEW p \in Pools, NEW s \in empty_warm[p] \cup empty_cold[p]
  PROVE  /\ s \in CarvF[p]
         /\ free_head[s] = Index
         /\ \A q \in Pools : \A x \in OutF[q] : x[1] # s
         /\ \A q \in Pools : s \in CarvF[q] => q = p
<1>1. s \in CarvF[p] /\ free_count[s] = NSlots /\ s \in Slabs
  BY Zenon DEF IInv, PoolInv, Lists, TypeOK
<1>2. free_head[s] = Index
  <2>1. free_head[s] \in SUBSET Index /\ Cardinality(free_head[s]) = NSlots
    BY Zenon, <1>1 DEF IInv, PoolInv, FreeCounted, TypeOK
  <2> QED
    BY Zenon, <2>1, FreeListLength
<1>3. \A q \in Pools : \A x \in OutF[q] : x[1] # s
  BY Zenon, <1>2, Shapes DEF IInv, PoolInv, OutCarved, OutF
<1>4. \A q \in Pools : s \in CarvF[q] => q = p
  BY Zenon, <1>1, CarvedApart DEF IInv, PoolInv
<1> QED
  BY Zenon, <1>1, <1>2, <1>3, <1>4

-----------------------------------------------------------------------------
\* The inductive invariant holds initially: no pool owns a chunk.
LEMMA InitInv == Init => IInv
<1> SUFFICES ASSUME Init PROVE IInv
  BY Zenon
<1> USE DEF Init
<1>1. TypeOK
  BY HeapAssumption DEF TypeOK
<1>2. /\ OutF = [p \in Pools |-> {}]
      /\ CarvF = [p \in Pools |-> {}]
      /\ RefF = [p \in Pools |-> {}]
  <2>1. \A p \in Pools : Carved(p) = {}
    BY Zenon, Shapes DEF Carved, chunk_of
  <2>2. \A p \in Pools : InRefill(p) = {}
    BY Zenon DEF InRefill
  <2>3. \A p \in Pools, x \in Slots : ~Out(p, x)
    BY Zenon, HeapAssumption DEF Out
  <2> QED
    BY Zenon, <2>1, <2>2, <2>3 DEF OutF, CarvF, RefF
<1>3. PoolInv
  BY <1>2, FS_EmptySet, HeapAssumption DEF PoolInv, Owned, OutCarved, NoneLost, FreeCounted,
     Lists, Flags, LiveSlabs, WarmCounted, OutCounted
<1>4. ThreadInv
  BY FS_EmptySet, HeapAssumption DEF ThreadInv, BinsDisjoint, RefillInv, BinsCounted
<1> QED
  BY Zenon, <1>1, <1>3, <1>4 DEF IInv

-----------------------------------------------------------------------------
(* Steps that leave the pools alone *)

\* A step that changes no pool and leaves every slot in or out preserves
\* PoolInv.
LEMMA PoolFrame ==
  ASSUME PoolInv, UNCHANGED poolVars, OutF' = OutF, RefF' = RefF
  PROVE  PoolInv'
<1> USE DEF poolVars, emptyVars, listVars, chunkVars, slabVars
<1>1. CarvF' = CarvF
  BY Zenon DEF CarvF, Carved
<1>2. Owned' /\ OutCarved' /\ NoneLost' /\ FreeCounted' /\ Lists' /\ Flags'
  BY <1>1 DEF PoolInv, Owned, OutCarved, NoneLost, FreeCounted, Lists, Flags
<1>3. LiveSlabs' /\ WarmCounted' /\ OutCounted'
  BY <1>1 DEF PoolInv, LiveSlabs, WarmCounted, OutCounted, Busy
<1> QED
  BY Zenon, <1>2, <1>3 DEF PoolInv

\* A slot that is in use is out for the pool its chunk header names.
LEMMA LiveGoesHome ==
  ASSUME TypeOK, PoolInv, NEW x \in Slots, live[x] # NoPool
  PROVE  /\ live[x] \in Pools
         /\ pool[SlotChunk(x)] = live[x]
         /\ x \in OutF[live[x]]
<1>1. live[x] \in Pools
  BY Zenon DEF TypeOK
<1>2. x \in OutF[live[x]]
  BY Zenon, <1>1 DEF OutF, Out
<1> QED
  BY Zenon, <1>1, <1>2
    DEF PoolInv, OutCarved, Owned, CarvF, Carved, chunk_of, SlotChunk, btm_slab_of

\* A malloc served from the bin moves a slot from the bin to its caller; for
\* the pool it was out before and is out after.
LEMMA MallocHitInv ==
  ASSUME IInv, NEW t \in Threads, NEW p \in Pools, Running(t), MallocHit(t, p),
         btm_tls' = [btm_tls EXCEPT ![t] = TRUE], UNCHANGED <<exiting, flushing>>
  PROVE  IInv'
<1> PICK x \in bin_head[t][p] :
      /\ bin_head' = [bin_head EXCEPT ![t][p] = @ \ {x}]
      /\ bin_count' = [bin_count EXCEPT ![t][p] = @ - 1]
      /\ live' = [live EXCEPT ![x] = p]
  BY Zenon DEF MallocHit
<1> UNCHANGED <<refillVars, lock, poolVars>>
  BY Zenon DEF MallocHit
<1> USE DEF refillVars, poolVars, emptyVars, listVars, chunkVars, slabVars
<1>1. /\ IsFiniteSet(bin_head[t][p])
      /\ bin_count[t][p] = Cardinality(bin_head[t][p])
      /\ IsFiniteSet(bin_head[t][p] \ {x})
      /\ Cardinality(bin_head[t][p] \ {x}) = bin_count[t][p] - 1
      /\ bin_count[t][p] - 1 \in Nat
  <2>1. IsFiniteSet(bin_head[t][p]) /\ bin_count[t][p] = Cardinality(bin_head[t][p])
    BY Zenon DEF IInv, ThreadInv, BinsCounted
  <2>2. IsFiniteSet(bin_head[t][p] \ {x}) /\ Cardinality(bin_head[t][p] \ {x}) = bin_count[t][p] - 1
    BY Zenon, <2>1, FS_RemoveElement
  <2> QED
    BY Zenon, <2>1, <2>2, FS_CardinalityType
<1>2. TypeOK'
  BY <1>1 DEF IInv, TypeOK
<1>3. OutF' = OutF
  <2>1. \A q \in Pools, y \in Slots : Out(q, y)' <=> Out(q, y)
    BY HeapAssumption DEF IInv, TypeOK, ThreadInv, BinsDisjoint, Out
  <2> QED
    BY Zenon, <2>1 DEF OutF
<1>4. RefF' = RefF
  BY Zenon DEF RefF, InRefill
<1>5. PoolInv'
  BY Zenon, <1>3, <1>4, PoolFrame DEF IInv
<1>6. BinsDisjoint'
  BY HeapAssumption DEF IInv, TypeOK, ThreadInv, BinsDisjoint
<1>7. RefillInv'
  BY DEF IInv, TypeOK, ThreadInv, RefillInv, Running
<1>8. BinsCounted'
  BY <1>1, HeapAssumption DEF IInv, TypeOK, ThreadInv, BinsCounted, Running
<1> QED
  BY Zenon, <1>2, <1>5, <1>6, <1>7, <1>8 DEF IInv, ThreadInv

\* A free into the bin is the reverse move: the chunk header names the pool
\* the slot was allocated for, so it stays out for the same pool.
LEMMA FreeToBinInv ==
  ASSUME IInv, NEW t \in Threads, NEW x \in Slots, Running(t), live[x] # NoPool,
         live' = [live EXCEPT ![x] = NoPool], FreeToBin(t, x)
  PROVE  IInv'
<1> DEFINE p == pool[SlotChunk(x)]
<1>1. p = live[x] /\ p \in Pools
  BY Zenon, LiveGoesHome DEF IInv
<1> /\ btm_tls' = [btm_tls EXCEPT ![t] = TRUE]
    /\ bin_head' = [bin_head EXCEPT ![t][p] = @ \cup {x}]
    /\ bin_count' = [bin_count EXCEPT ![t][p] = @ + 1]
    /\ flushing' = [flushing EXCEPT ![t] =
                      IF bin_count[t][p] + 1 > CacheMax THEN p ELSE NoPool]
    /\ UNCHANGED <<exiting, refillVars, lock, poolVars>>
  BY Zenon DEF FreeToBin
<1> HIDE DEF p
<1> USE DEF refillVars, poolVars, emptyVars, listVars, chunkVars, slabVars
<1>2. \A u \in Threads, q \in Pools : x \notin bin_head[u][q]
  BY Zenon DEF IInv, ThreadInv, BinsDisjoint
<1>3. /\ IsFiniteSet(bin_head[t][p])
      /\ bin_count[t][p] = Cardinality(bin_head[t][p])
      /\ bin_count[t][p] <= CacheMax
      /\ IsFiniteSet(bin_head[t][p] \cup {x})
      /\ Cardinality(bin_head[t][p] \cup {x}) = bin_count[t][p] + 1
  <2>1. IsFiniteSet(bin_head[t][p]) /\ bin_count[t][p] = Cardinality(bin_head[t][p])
    BY Zenon, <1>1 DEF IInv, ThreadInv, BinsCounted
  <2>2. bin_count[t][p] <= CacheMax
    BY <1>1, HeapAssumption DEF IInv, TypeOK, ThreadInv, BinsCounted, Running
  <2>3. x \notin bin_head[t][p]
    BY Zenon, <1>1, <1>2
  <2>4. /\ IsFiniteSet(bin_head[t][p] \cup {x})
        /\ Cardinality(bin_head[t][p] \cup {x}) = bin_count[t][p] + 1
    BY Zenon, <2>1, <2>3, FS_AddElement
  <2> QED
    BY Zenon, <2>1, <2>2, <2>4
<1>4. TypeOK'
  BY <1>1, <1>3 DEF IInv, TypeOK
<1>5. OutF' = OutF
  <2>1. \A q \in Pools, y \in Slots : Out(q, y)' <=> Out(q, y)
    BY <1>1, <1>2, HeapAssumption DEF IInv, TypeOK, Out
  <2> QED
    BY Zenon, <2>1 DEF OutF
<1>6. RefF' = RefF
  BY Zenon DEF RefF, InRefill
<1>7. PoolInv'
  BY Zenon, <1>5, <1>6, PoolFrame DEF IInv
<1>8. BinsDisjoint'
  BY <1>1, <1>2, HeapAssumption DEF IInv, TypeOK, ThreadInv, BinsDisjoint
<1>9. RefillInv'
  BY <1>1, <1>2 DEF IInv, TypeOK, ThreadInv, RefillInv, Running
<1>10. BinsCounted'
  BY <1>1, <1>3, HeapAssumption DEF IInv, TypeOK, ThreadInv, BinsCounted, Running
<1> QED
  BY Zenon, <1>4, <1>7, <1>8, <1>9, <1>10 DEF IInv, ThreadInv

\* A step that moves no slot and touches no pool preserves everything but the
\* facts about locks and flushes.
LEMMA StillSlots ==
  ASSUME IInv, UNCHANGED <<binVars, refillVars, poolVars, live>>
  PROVE  PoolInv' /\ BinsDisjoint'
<1> USE DEF binVars, refillVars
<1>1. OutF' = OutF /\ RefF' = RefF
  BY Zenon DEF OutF, Out, RefF, InRefill
<1> QED
  BY <1>1, PoolFrame DEF IInv, ThreadInv, BinsDisjoint

\* A malloc that returns NULL changes no list.
LEMMA MallocNullInv ==
  ASSUME IInv, NEW t \in Threads, NEW p \in Pools, MallocNull(t, p),
         btm_tls' = [btm_tls EXCEPT ![t] = TRUE], UNCHANGED <<exiting, flushing>>
  PROVE  IInv'
<1>1. UNCHANGED <<binVars, refillVars, lock, poolVars, live>>
  BY Zenon DEF MallocNull
<1>2. PoolInv' /\ BinsDisjoint'
  BY Zenon, <1>1, StillSlots
<1> USE <1>1 DEF binVars, refillVars, poolVars, emptyVars, listVars, chunkVars, slabVars
<1>3. TypeOK'
  BY Zenon DEF IInv, TypeOK
<1>4. RefillInv' /\ BinsCounted'
  BY DEF IInv, ThreadInv, RefillInv, BinsCounted
<1> QED
  BY Zenon, <1>2, <1>3, <1>4 DEF IInv, ThreadInv

\* Taking the pool lock for a flush: the pool is not being refilled.
LEMMA FlushLockInv ==
  ASSUME IInv, NEW t \in Threads, FlushLock(t)
  PROVE  IInv'
<1>1. UNCHANGED <<btm_tls, binVars, exiting, flushing, refillVars, poolVars, live>>
  BY Zenon DEF FlushLock
<1>2. PoolInv' /\ BinsDisjoint'
  BY Zenon, <1>1, StillSlots
<1> USE <1>1 DEF binVars, refillVars, poolVars, emptyVars, listVars, chunkVars, slabVars
<1>3. TypeOK'
  BY Zenon DEF IInv, TypeOK, FlushLock
<1>4. RefillInv'
  BY HeapAssumption DEF IInv, TypeOK, ThreadInv, RefillInv, FlushLock
<1>5. BinsCounted'
  BY Zenon DEF IInv, ThreadInv, BinsCounted
<1> QED
  BY Zenon, <1>2, <1>3, <1>4, <1>5 DEF IInv, ThreadInv

\* The end of a flush leaves the bin within its cap.
LEMMA FlushUnlockInv ==
  ASSUME IInv, NEW t \in Threads, FlushUnlock(t)
  PROVE  IInv'
<1>1. UNCHANGED <<btm_tls, binVars, exiting, refillVars, poolVars, live>>
  BY Zenon DEF FlushUnlock
<1>2. PoolInv' /\ BinsDisjoint'
  BY Zenon, <1>1, StillSlots
<1> USE <1>1 DEF binVars, refillVars, poolVars, emptyVars, listVars, chunkVars, slabVars
<1>3. TypeOK'
  BY Zenon DEF IInv, TypeOK, FlushUnlock
<1>4. RefillInv'
  BY HeapAssumption DEF IInv, TypeOK, ThreadInv, RefillInv, FlushUnlock
<1>5. bin_count[t][flushing[t]] <= CacheMax
  BY HeapAssumption DEF IInv, TypeOK, FlushUnlock, keep
<1>6. BinsCounted'
  BY <1>5, HeapAssumption DEF IInv, TypeOK, ThreadInv, BinsCounted, FlushUnlock
<1> QED
  BY Zenon, <1>2, <1>3, <1>4, <1>6 DEF IInv, ThreadInv

\* The steps of btm_tls_destroy outside its flushes; a bin that is unmapped
\* holds nothing.
LEMMA ExitInv ==
  ASSUME IInv, NEW t \in Threads, Exit(t)
  PROVE  IInv'
<1>1. CASE ExitBegin(t)
  <2>1. UNCHANGED <<binVars, flushing, refillVars, lock, poolVars, live>>
    BY Zenon, <1>1 DEF ExitBegin
  <2>2. PoolInv' /\ BinsDisjoint'
    BY Zenon, <2>1, StillSlots
  <2> USE <2>1 DEF binVars, refillVars, poolVars, emptyVars, listVars, chunkVars, slabVars
  <2>3. TypeOK'
    BY ZenonT(40), <1>1 DEF IInv, TypeOK, ExitBegin
  <2>4. RefillInv' /\ BinsCounted'
    BY <1>1 DEF IInv, ThreadInv, RefillInv, BinsCounted, ExitBegin, Running
  <2> QED
    BY Zenon, <2>2, <2>3, <2>4 DEF IInv, ThreadInv
<1>2. CASE ExitBin(t)
  <2>1. UNCHANGED <<btm_tls, binVars, exiting, refillVars, lock, poolVars, live>>
    BY Zenon, <1>2 DEF ExitBin
  <2>2. PoolInv' /\ BinsDisjoint'
    BY Zenon, <2>1, StillSlots
  <2> USE <2>1 DEF binVars, refillVars, poolVars, emptyVars, listVars, chunkVars, slabVars
  <2>3. TypeOK'
    BY <1>2 DEF IInv, TypeOK, ExitBin
  <2>4. RefillInv'
    BY <1>2 DEF IInv, TypeOK, ThreadInv, RefillInv, ExitBin
  <2>5. BinsCounted'
    BY <1>2, HeapAssumption DEF IInv, TypeOK, ThreadInv, BinsCounted, ExitBin
  <2> QED
    BY Zenon, <2>2, <2>3, <2>4, <2>5 DEF IInv, ThreadInv
<1>3. CASE ExitEnd(t)
  <2>1. bin_head' = bin_head
    <3>1. \A p \in Pools : bin_head[t][p] = {}
      BY <1>3, FS_EmptySet DEF IInv, ThreadInv, BinsCounted, ExitEnd
    <3> QED
      BY SMTT(30), <1>3, <3>1 DEF ExitEnd, IInv, TypeOK
  <2>2. UNCHANGED <<btm_tls, binVars, flushing, refillVars, lock, poolVars, live>>
    BY Zenon, <1>3, <2>1 DEF ExitEnd, binVars
  <2>3. PoolInv' /\ BinsDisjoint'
    BY <2>2, StillSlots
  <2> USE <2>2 DEF binVars, refillVars, poolVars, emptyVars, listVars, chunkVars, slabVars
  <2>4. TypeOK'
    BY Zenon, <1>3 DEF IInv, TypeOK, ExitEnd
  <2>5. RefillInv' /\ BinsCounted'
    BY <1>3 DEF IInv, ThreadInv, RefillInv, BinsCounted, ExitEnd
  <2> QED
    BY Zenon, <2>3, <2>4, <2>5 DEF IInv, ThreadInv
<1> QED
  BY Zenon, <1>1, <1>2, <1>3 DEF Exit

-----------------------------------------------------------------------------
(* RefillLock: finding a slab *)

\* What a refill that has found slab s does to the threads.
RefillBegun(t, p, s) ==
  /\ lock[p] = NoThread
  /\ lock' = [lock EXCEPT ![p] = t]
  /\ refilling' = [refilling EXCEPT ![t] = p]
  /\ slab' = [slab EXCEPT ![t] = {s}]
  /\ UNCHANGED <<binVars, exiting, flushing, live>>

\* A refill that begins takes a lock that was free, so it is the only one on
\* its pool, and moves no slot.
LEMMA RefillBegunThreads ==
  ASSUME IInv, NEW t \in Threads, NEW p \in Pools, NEW s \in Slabs,
         Running(t), bin_head[t][p] = {}, RefillBegun(t, p, s)
  PROVE  /\ RefF[p] = {}
         /\ RefF' = [RefF EXCEPT ![p] = {s}]
         /\ OutF' = OutF
         /\ ThreadInv'
<1> USE DEF RefillBegun, binVars
<1>1. \A u \in Threads : refilling[u] # p
  <2> SUFFICES ASSUME NEW u \in Threads, refilling[u] = p PROVE FALSE
    BY Zenon
  <2>1. lock[p] = u
    BY Zenon, HeapAssumption DEF IInv, ThreadInv, RefillInv
  <2> QED
    BY Zenon, <2>1, HeapAssumption
<1>2. RefF[p] = {}
  BY Zenon, <1>1 DEF RefF, InRefill
<1>3. RefF' = [RefF EXCEPT ![p] = {s}]
  <2>1. InRefill(p)' = {s}
    BY <1>1 DEF IInv, TypeOK, InRefill
  <2>2. \A q \in Pools \ {p} : InRefill(q)' = InRefill(q)
    BY HeapAssumption DEF IInv, TypeOK, InRefill, Running
  <2> QED
    BY Zenon, <2>1, <2>2 DEF RefF
<1>4. OutF' = OutF
  BY Zenon DEF OutF, Out
<1>5. BinsDisjoint' /\ BinsCounted'
  BY DEF IInv, ThreadInv, BinsDisjoint, BinsCounted
<1>6. RefillInv'
  BY <1>1, HeapAssumption DEF IInv, TypeOK, ThreadInv, RefillInv, Running
<1> QED
  BY Zenon, <1>2, <1>3, <1>4, <1>5, <1>6 DEF ThreadInv

\* A refill that finds a slab on the partial list.
LEMMA RefillPartialInv ==
  ASSUME IInv, NEW t \in Threads, NEW p \in Pools, NEW s \in Slabs, Running(t),
         bin_head[t][p] = {}, RefillBegun(t, p, s), RefillPartial(p, s),
         btm_tls' = [btm_tls EXCEPT ![t] = TRUE], UNCHANGED outstanding
  PROVE  IInv'
<1>1. /\ RefF[p] = {}
      /\ RefF' = [RefF EXCEPT ![p] = {s}]
      /\ OutF' = OutF
      /\ ThreadInv'
  BY Zenon, RefillBegunThreads
<1>2. s \in partial[p] /\ UNCHANGED <<emptyVars, listVars, chunkVars, slabVars>>
  BY Zenon DEF RefillPartial
<1> USE <1>2 DEF emptyVars, listVars, chunkVars, slabVars
<1>3. CarvF' = CarvF
  BY Zenon DEF CarvF, Carved
<1>4. TypeOK'
  BY Zenon DEF IInv, TypeOK, RefillBegun, binVars
<1>5. Owned' /\ OutCarved' /\ NoneLost' /\ FreeCounted' /\ Flags' /\ WarmCounted' /\ OutCounted'
  BY SMTT(30), <1>1, <1>3 DEF IInv, PoolInv, Owned, OutCarved, NoneLost, FreeCounted, Flags,
     WarmCounted, OutCounted
<1>6. LiveSlabs'
  BY DEF IInv, PoolInv, LiveSlabs, Busy
<1>7. Lists'
  <2>1. s \in CarvF[p] /\ free_count[s] \in 1..(NSlots - 1)
    BY Zenon, <1>1 DEF IInv, PoolInv, Lists
  <2>2. RefF \in [Pools -> SUBSET Slabs]
    BY SMTT(30) DEF RefF, InRefill, IInv, TypeOK
  <2>3. free_count[s] # NSlots /\ free_count[s] # 0
    BY <2>1, HeapAssumption
  <2> QED
    BY <1>1, <1>3, <2>1, <2>2, <2>3 DEF IInv, PoolInv, Lists
<1> QED
  BY Zenon, <1>1, <1>4, <1>5, <1>6, <1>7 DEF IInv, PoolInv

\* The part of the argument that is common to recycling and carving: slab s is
\* formatted, pushed on the partial list and becomes the slab of the refill.
LEMMA NewSlabLists ==
  ASSUME IInv, NEW p \in Pools, NEW s \in Slabs,
         partial[p] = {}, slab_format(s), partial_push(p, s), UNCHANGED outstanding,
         RefF[p] = {}, RefF' = [RefF EXCEPT ![p] = {s}], OutF' = OutF,
         CarvF' = [CarvF EXCEPT ![p] = @ \cup {s}],
         \A q \in Pools : \A x \in OutF[q] : x[1] # s,
         \A q \in Pools : s \in CarvF[q] => q = p,
         \A q \in Pools : /\ empty_warm'[q] = empty_warm[q] \ {s}
                         /\ empty_cold'[q] = empty_cold[q] \ {s}
  PROVE  OutCarved' /\ NoneLost' /\ FreeCounted' /\ Lists' /\ Flags' /\ OutCounted'
<1> USE DEF slab_format, partial_push
<1>0. /\ CarvF \in [Pools -> SUBSET Slabs]
      /\ RefF \in [Pools -> SUBSET Slabs]
      /\ OutF \in [Pools -> SUBSET Slots]
  BY DEF CarvF, Carved, RefF, InRefill, OutF, IInv, TypeOK
<1>1. OutCarved'
  BY <1>0, Shapes DEF IInv, TypeOK, PoolInv, OutCarved
<1>2. NoneLost'
  <2> SUFFICES ASSUME NEW q \in Pools, NEW e \in CarvF'[q], NEW k \in Index
               PROVE  k \in free_head'[e] \/ <<e, k>> \in OutF[q]
    BY Zenon DEF NoneLost
  <2>1. CASE e = s
    BY Zenon, <2>1 DEF IInv, TypeOK
  <2>2. CASE e # s
    <3>1. e \in CarvF[q] /\ free_head'[e] = free_head[e]
      BY Zenon, <1>0, <2>2 DEF IInv, TypeOK
    <3> QED
      BY Zenon, <3>1 DEF IInv, PoolInv, NoneLost
  <2> QED
    BY Zenon, <2>1, <2>2
<1>3. FreeCounted'
  <2>1. Cardinality(Index) = NSlots
    BY Zenon, FreeListLength
  <2> QED
    BY <1>0, <2>1 DEF IInv, TypeOK, PoolInv, FreeCounted
<1>4. NSlots # 0 /\ NSlots \notin 1..(NSlots - 1)
  BY HeapAssumption
<1>5. Lists'
  <2> SUFFICES ASSUME NEW q \in Pools
               PROVE
      /\ partial'[q] = {e \in CarvF'[q] : free_count'[e] \in 1..(NSlots - 1)} \cup RefF'[q]
      /\ empty_warm'[q] \cup empty_cold'[q] =
           {e \in CarvF'[q] : free_count'[e] = NSlots} \ RefF'[q]
      /\ empty_warm'[q] \cap empty_cold'[q] = {}
      /\ \A e \in RefF'[q] : e \in CarvF'[q] /\ free_count'[e] # 0
    BY ZenonT(40) DEF Lists
  <2>1. CASE q = p
    BY SMTT(30), <1>0, <1>4, <2>1 DEF IInv, TypeOK, PoolInv, Lists
  <2>2. CASE q # p
    BY SMTT(30), <1>0, <2>2 DEF IInv, TypeOK, PoolInv, Lists
  <2> QED
    BY Zenon, <2>1, <2>2
<1>6. Flags'
  BY <1>0 DEF IInv, TypeOK, PoolInv, Flags
<1>7. OutCounted'
  BY Zenon DEF IInv, PoolInv, OutCounted
<1> QED
  BY ZenonT(40), <1>1, <1>2, <1>3, <1>5, <1>6, <1>7

\* A refill that takes a slab off the warm or the cold empty list.
LEMMA RecycleInv ==
  ASSUME IInv, NEW t \in Threads, NEW p \in Pools, NEW s \in Slabs, Running(t),
         bin_head[t][p] = {}, RefillBegun(t, p, s), partial[p] = {}, Recycle(p, s),
         slab_format(s), partial_push(p, s),
         btm_tls' = [btm_tls EXCEPT ![t] = TRUE], UNCHANGED outstanding
  PROVE  IInv'
<1> USE DEF Recycle, RecycleWarm, RecycleCold
<1>1. /\ RefF[p] = {}
      /\ RefF' = [RefF EXCEPT ![p] = {s}]
      /\ OutF' = OutF
      /\ ThreadInv'
  BY Zenon, RefillBegunThreads
<1>2. /\ s \in empty_warm[p] \cup empty_cold[p]
      /\ s \in CarvF[p]
      /\ \A q \in Pools : \A x \in OutF[q] : x[1] # s
      /\ \A q \in Pools : s \in CarvF[q] => q = p
  BY Zenon, EmptySlab
<1>3. \A q \in Pools : q # p => s \notin empty_warm[q] \cup empty_cold[q]
  BY Zenon, EmptySlab
<1>4. \A q \in Pools : /\ empty_warm'[q] = empty_warm[q] \ {s}
                      /\ empty_cold'[q] = empty_cold[q] \ {s}
  <2>1. empty_warm[p] \cap empty_cold[p] = {}
    BY Zenon DEF IInv, PoolInv, Lists
  <2>2. /\ empty_warm'[p] = empty_warm[p] \ {s}
        /\ empty_cold'[p] = empty_cold[p] \ {s}
    BY <2>1 DEF IInv, TypeOK
  <2>3. \A q \in Pools : q # p => /\ empty_warm'[q] = empty_warm[q]
                                 /\ empty_cold'[q] = empty_cold[q]
    BY Zenon DEF IInv, TypeOK
  <2> QED
    BY Zenon, <1>3, <2>2, <2>3
<1>5. CarvF' = [CarvF EXCEPT ![p] = @ \cup {s}]
  <2>1. CarvF' = CarvF
    BY Zenon DEF CarvF, Carved
  <2>2. CarvF[p] \cup {s} = CarvF[p]
    BY Zenon, <1>2
  <2>3. CarvF = [q \in Pools |-> CarvF[q]]
    BY Zenon DEF CarvF
  <2> QED
    BY Zenon, <2>1, <2>2, <2>3
<1>6. OutCarved' /\ NoneLost' /\ FreeCounted' /\ Lists' /\ Flags' /\ OutCounted'
  BY Zenon, <1>1, <1>2, <1>4, <1>5, NewSlabLists
<1>7. Owned'
  BY Zenon DEF IInv, PoolInv, Owned
<1>8. WarmCounted' /\ warm_count' \in [Pools -> Nat]
  <2>1. CASE RecycleWarm(p, s)
    <3>1. IsFiniteSet(empty_warm[p]) /\ warm_count[p] = Cardinality(empty_warm[p])
      BY Zenon DEF IInv, PoolInv, WarmCounted
    <3>2. /\ IsFiniteSet(empty_warm[p] \ {s})
          /\ Cardinality(empty_warm[p] \ {s}) = warm_count[p] - 1
      BY Zenon, <2>1, <3>1, FS_RemoveElement
    <3>3. warm_count[p] - 1 \in Nat
      BY Zenon, <3>2, FS_CardinalityType
    <3> QED
      BY <2>1, <3>2, <3>3, HeapAssumption DEF IInv, TypeOK, PoolInv, WarmCounted
  <2>2. CASE RecycleCold(p, s)
    BY Zenon, <2>2 DEF IInv, TypeOK, PoolInv, WarmCounted
  <2> QED
    BY ZenonT(40), <2>1, <2>2
<1>9. s[1] \in chunks[p] /\ s[2] \in 1..next_free_page[s[1]] /\ s = <<s[1], s[2]>>
  BY <1>2, Shapes DEF CarvF, Carved, chunk_of, IInv, TypeOK
<1>10. LiveSlabs'
  <2> SUFFICES ASSUME NEW q \in Pools, NEW c \in chunks[q]
               PROVE  /\ live_slabs'[c] = Cardinality(Busy(q, c)')
                      /\ live_slabs'[c] # 0
    BY Zenon DEF LiveSlabs
  <2>0. /\ c \in Chunks
        /\ live_slabs[c] = Cardinality(Busy(q, c)) /\ live_slabs[c] # 0 /\ live_slabs[c] \in Nat
    BY Zenon DEF IInv, TypeOK, PoolInv, LiveSlabs
  <2>1. CASE c = s[1]
    <3>1. q = p
      BY <2>1, <1>9 DEF IInv, PoolInv, Owned
    <3>2. Busy(q, c)' = Busy(q, c) \cup {s[2]} /\ s[2] \notin Busy(q, c)
      BY <1>2, <1>4, <1>9, <2>1, <3>1 DEF Busy
    <3>3. IsFiniteSet(Busy(q, c))
      <4>1. IsFiniteSet(1..next_free_page[c]) /\ Busy(q, c) \in SUBSET (1..next_free_page[c])
        BY <2>0, FS_Interval DEF Busy, IInv, TypeOK
      <4> QED
        BY Zenon, <4>1, FS_Subset
    <3>4. Cardinality(Busy(q, c)') = Cardinality(Busy(q, c)) + 1
      BY Zenon, <3>2, <3>3, FS_AddElement
    <3> QED
      BY <2>0, <2>1, <3>4 DEF chunk_of, IInv, TypeOK
  <2>2. CASE c # s[1]
    <3>1. Busy(q, c)' = Busy(q, c)
      BY SMTT(30), <1>4, <1>9, <2>2 DEF Busy
    <3> QED
      BY Zenon, <2>0, <2>2, <3>1 DEF chunk_of, IInv, TypeOK
  <2> QED
    BY Zenon, <2>1, <2>2
<1>11. TypeOK'
  <2>1. live_slabs' \in [Chunks -> Nat]
    BY Shapes DEF IInv, TypeOK, chunk_of
  <2>2. empty_warm' \in [Pools -> SUBSET Slabs]
    BY DEF IInv, TypeOK
  <2>3. empty_cold' \in [Pools -> SUBSET Slabs]
    <3>0. empty_cold \in [Pools -> SUBSET Slabs]
      BY Zenon DEF IInv, TypeOK
    <3>1. CASE RecycleWarm(p, s)
      BY Zenon, <3>0, <3>1
    <3>2. CASE RecycleCold(p, s)
      BY Zenon, <3>0, <3>2
    <3> QED
      BY Zenon, <3>1, <3>2
  <2>4. /\ partial' \in [Pools -> SUBSET Slabs]
        /\ in_partial' \in [Slabs -> BOOLEAN]
        /\ free_head' \in [Slabs -> SUBSET Index]
        /\ free_count' \in [Slabs -> Nat]
        /\ decommitted' \in [Slabs -> BOOLEAN]
    BY Zenon, HeapAssumption DEF IInv, TypeOK, slab_format, partial_push
  <2> QED
    BY SMTT(30), <2>1, <2>2, <2>3, <2>4, <1>8 DEF IInv, TypeOK, RefillBegun, binVars
<1> QED
  BY Zenon, <1>1, <1>6, <1>7, <1>8, <1>10, <1>11 DEF IInv, PoolInv

\* Both ways of carving add one slab, not carved before, to those of pool p,
\* leave the chunks of the other pools alone, and count the slab as live.
LEMMA CarvedAdds ==
  ASSUME IInv, NEW p \in Pools, NEW s \in Slabs, Carve(p, s)
  PROVE  /\ CarvF' = [CarvF EXCEPT ![p] = @ \cup {s}]
         /\ \A q \in Pools : s \notin CarvF[q]
         /\ Owned'
         /\ LiveSlabs'
<1> UNCHANGED emptyVars /\ empty_warm[p] = {} /\ empty_cold[p] = {}
  BY Zenon DEF Carve
<1> USE DEF emptyVars
<1>1. CASE CarveActive(p, s)
  <2> DEFINE c == active[p]
             n == next_free_page[c]
  <2>1. c \in chunks[p] /\ c \in Chunks /\ n \in 0..SlabsPerChunk /\ n + 1 <= SlabsPerChunk
    BY ZenonT(40), <1>1 DEF IInv, TypeOK, PoolInv, Owned, CarveActive, HasRoom
  <2>2. /\ s = <<c, n + 1>>
        /\ next_free_page' = [next_free_page EXCEPT ![c] = n + 1]
        /\ live_slabs' = [live_slabs EXCEPT ![c] = @ + 1]
        /\ UNCHANGED <<chunks, active, pool, store>>
    BY Zenon, <1>1 DEF CarveActive
  <2> HIDE DEF c, n
  <2>3. \A q \in Pools : c \in chunks[q] => q = p
    BY <2>1 DEF IInv, PoolInv, Owned
  <2>4. \A q \in Pools : s \notin CarvF[q]
    <3>1. next_free_page[c] = n
      BY Zenon DEF n
    <3> QED
      BY <2>1, <2>2, <3>1, HeapAssumption DEF CarvF, Carved, chunk_of
  <2>5. CarvF' = [CarvF EXCEPT ![p] = @ \cup {s}]
    <3>1. Carved(p)' = Carved(p) \cup {s}
      <4> SUFFICES ASSUME NEW e \in Slabs
                   PROVE  (e \in Carved(p)) ' <=> e \in Carved(p) \/ e = s
        BY Zenon DEF Carved
      <4>1. /\ e[1] \in Chunks /\ e[2] \in 1..SlabsPerChunk /\ e = <<e[1], e[2]>>
            /\ next_free_page[c] = n
        BY Zenon, Shapes DEF n
      <4>2. CASE e[1] = c
        <5>1. (e \in Carved(p))' <=> e[2] <= n + 1
          BY Zenon, <2>1, <2>2, <4>2 DEF Carved, chunk_of, IInv, TypeOK
        <5>2. e \in Carved(p) <=> e[2] <= n
          BY Zenon, <2>1, <4>1, <4>2 DEF Carved, chunk_of
        <5>3. e = s <=> e[2] = n + 1
          BY SMTT(30), <2>2, <4>1, <4>2
        <5> QED
          BY <2>1, <4>1, <5>1, <5>2, <5>3, HeapAssumption
      <4>3. CASE e[1] # c
        BY <2>1, <2>2, <4>1, <4>3 DEF Carved, chunk_of, IInv, TypeOK
      <4> QED
        BY Zenon, <4>2, <4>3
    <3>2. \A q \in Pools : q # p => Carved(q)' = Carved(q)
      BY Zenon, <2>1, <2>2, <2>3, Shapes DEF Carved, chunk_of, IInv, TypeOK
    <3> QED
      BY Zenon, <3>1, <3>2 DEF CarvF
  <2>6. Owned'
    BY Zenon, <2>2 DEF IInv, PoolInv, Owned
  <2>7. LiveSlabs'
    <3> SUFFICES ASSUME NEW q \in Pools, NEW d \in chunks[q]
                 PROVE  /\ live_slabs'[d] = Cardinality(Busy(q, d)')
                        /\ live_slabs'[d] # 0
      BY Zenon, <2>2 DEF LiveSlabs
    <3>0. /\ d \in Chunks
          /\ live_slabs[d] = Cardinality(Busy(q, d)) /\ live_slabs[d] # 0
          /\ live_slabs[d] \in Nat
      BY Zenon DEF IInv, TypeOK, PoolInv, LiveSlabs
    <3>1. CASE d = c
      <4>1. q = p
        BY Zenon, <2>3, <3>1
      <4>2. next_free_page[d] = n /\ next_free_page'[d] = n + 1
        BY ZenonT(40), <2>1, <2>2, <3>1 DEF n, IInv, TypeOK
      <4>3. Busy(q, d)' = Busy(q, d) \cup {n + 1} /\ n + 1 \notin Busy(q, d)
        BY <2>1, <4>1, <4>2, HeapAssumption DEF Busy
      <4>4. IsFiniteSet(Busy(q, d))
        <5>1. IsFiniteSet(1..n) /\ Busy(q, d) \in SUBSET (1..n)
          BY <2>1, <4>2, FS_Interval DEF Busy
        <5> QED
          BY ZenonT(40), <5>1, FS_Subset
      <4>5. Cardinality(Busy(q, d)') = Cardinality(Busy(q, d)) + 1
        BY Zenon, <4>3, <4>4, FS_AddElement
      <4> QED
        BY <2>2, <3>0, <3>1, <4>5 DEF IInv, TypeOK
    <3>2. CASE d # c
      <4>1. Busy(q, d)' = Busy(q, d)
        BY Zenon, <2>2, <3>0, <3>2 DEF Busy, IInv, TypeOK
      <4> QED
        BY Zenon, <2>2, <3>0, <3>2, <4>1 DEF IInv, TypeOK
    <3> QED
      BY Zenon, <3>1, <3>2
  <2> QED
    BY Zenon, <2>4, <2>5, <2>6, <2>7
<1>2. CASE CarveFresh(p, s)
  <2> PICK c \in store :
         /\ s = <<c, 1>>
         /\ store' = store \ {c}
         /\ pool' = [pool EXCEPT ![c] = p]
         /\ chunks' = [chunks EXCEPT ![p] = @ \cup {c}]
         /\ active' = [active EXCEPT ![p] = c]
         /\ next_free_page' = [next_free_page EXCEPT ![c] = 1]
         /\ live_slabs' = [live_slabs EXCEPT ![c] = 1]
    BY Zenon, <1>2 DEF CarveFresh
  <2>1. c \in Chunks /\ \A q \in Pools : c \notin chunks[q]
    BY Zenon DEF IInv, TypeOK, PoolInv, Owned
  <2>2. \A q \in Pools : s \notin CarvF[q]
    BY Zenon, <2>1 DEF CarvF, Carved, chunk_of
  <2>3. CarvF' = [CarvF EXCEPT ![p] = @ \cup {s}]
    <3>1. Carved(p)' = Carved(p) \cup {s}
      <4> SUFFICES ASSUME NEW e \in Slabs
                   PROVE  (e \in Carved(p)) ' <=> e \in Carved(p) \/ e = s
        BY Zenon DEF Carved
      <4>1. /\ e[1] \in Chunks /\ e[2] \in 1..SlabsPerChunk /\ e = <<e[1], e[2]>>
        BY ZenonT(40), Shapes
      <4>2. CASE e[1] = c
        BY SMTT(30), <2>1, <4>1, <4>2, HeapAssumption DEF Carved, chunk_of, IInv, TypeOK
      <4>3. CASE e[1] # c
        BY <2>1, <4>1, <4>3 DEF Carved, chunk_of, IInv, TypeOK
      <4> QED
        BY Zenon, <4>2, <4>3
    <3>2. \A q \in Pools : q # p => Carved(q)' = Carved(q)
      BY Zenon, <2>1, Shapes DEF Carved, chunk_of, IInv, TypeOK
    <3> QED
      BY Zenon, <3>1, <3>2 DEF CarvF
  <2>4. Owned'
    BY <2>1 DEF IInv, TypeOK, PoolInv, Owned
  <2>5. LiveSlabs'
    <3> SUFFICES ASSUME NEW q \in Pools, NEW d \in chunks'[q]
                 PROVE  /\ live_slabs'[d] = Cardinality(Busy(q, d)')
                        /\ live_slabs'[d] # 0
      BY Zenon DEF LiveSlabs
    <3>1. CASE d = c
      <4>1. q = p
        BY Zenon, <2>1, <3>1 DEF IInv, TypeOK
      <4>2. live_slabs'[d] = 1 /\ next_free_page'[d] = 1
        BY Zenon, <2>1, <3>1 DEF IInv, TypeOK
      <4>3. Busy(q, d)' = {1}
        BY <4>1, <4>2 DEF Busy
      <4>4. Cardinality({1}) = 1
        BY Zenon, FS_Singleton
      <4> QED
        BY <4>2, <4>3, <4>4
    <3>2. CASE d # c
      <4>1. d \in chunks[q] /\ d \in Chunks
        BY Zenon, <3>2 DEF IInv, TypeOK
      <4>2. Busy(q, d)' = Busy(q, d)
        BY Zenon, <3>2, <4>1 DEF Busy, IInv, TypeOK
      <4> QED
        BY Zenon, <3>2, <4>1, <4>2 DEF IInv, TypeOK, PoolInv, LiveSlabs
    <3> QED
      BY Zenon, <3>1, <3>2
  <2> QED
    BY Zenon, <2>2, <2>3, <2>4, <2>5
<1> QED
  BY Zenon, <1>1, <1>2 DEF Carve

\* A refill that carves a new slab, from the active chunk or a fresh one.
LEMMA CarveInv ==
  ASSUME IInv, NEW t \in Threads, NEW p \in Pools, NEW s \in Slabs, Running(t),
         bin_head[t][p] = {}, RefillBegun(t, p, s), partial[p] = {}, Carve(p, s),
         slab_format(s), partial_push(p, s),
         btm_tls' = [btm_tls EXCEPT ![t] = TRUE], UNCHANGED outstanding
  PROVE  IInv'
<1>1. /\ RefF[p] = {}
      /\ RefF' = [RefF EXCEPT ![p] = {s}]
      /\ OutF' = OutF
      /\ ThreadInv'
  BY Zenon, RefillBegunThreads
<1>2. /\ CarvF' = [CarvF EXCEPT ![p] = @ \cup {s}]
      /\ \A q \in Pools : s \notin CarvF[q]
      /\ Owned'
      /\ LiveSlabs'
  BY Zenon, CarvedAdds
<1>3. \A q \in Pools : \A x \in OutF[q] : x[1] # s
  BY Zenon, <1>2 DEF IInv, PoolInv, OutCarved
<1>4. UNCHANGED emptyVars
  BY Zenon DEF Carve
<1>5. \A q \in Pools : s \notin empty_warm[q] \cup empty_cold[q]
  BY Zenon, <1>2 DEF IInv, PoolInv, Lists
<1>6. \A q \in Pools : /\ empty_warm'[q] = empty_warm[q] \ {s}
                      /\ empty_cold'[q] = empty_cold[q] \ {s}
  BY Zenon, <1>4, <1>5 DEF emptyVars
<1>7. OutCarved' /\ NoneLost' /\ FreeCounted' /\ Lists' /\ Flags' /\ OutCounted'
  BY Zenon, <1>1, <1>2, <1>3, <1>6, NewSlabLists
<1>8. WarmCounted'
  BY Zenon, <1>4 DEF emptyVars, IInv, PoolInv, WarmCounted
<1>9. TypeOK'
  <2>1. /\ partial' \in [Pools -> SUBSET Slabs]
        /\ in_partial' \in [Slabs -> BOOLEAN]
        /\ free_head' \in [Slabs -> SUBSET Index]
        /\ free_count' \in [Slabs -> Nat]
        /\ decommitted' \in [Slabs -> BOOLEAN]
    BY Zenon, HeapAssumption DEF IInv, TypeOK, slab_format, partial_push
  <2>2. /\ chunks' \in [Pools -> SUBSET Chunks]
        /\ active' \in [Pools -> Chunks \cup {NoChunk}]
        /\ pool' \in [Chunks -> Pools \cup {NoPool}]
        /\ next_free_page' \in [Chunks -> 0..SlabsPerChunk]
        /\ live_slabs' \in [Chunks -> Nat]
        /\ store' \in SUBSET Chunks
    <3>1. CASE CarveActive(p, s)
      BY SMTT(30), <3>1, HeapAssumption DEF CarveActive, HasRoom, IInv, TypeOK
    <3>2. CASE CarveFresh(p, s)
      BY <3>2, HeapAssumption DEF CarveFresh, IInv, TypeOK
    <3> QED
      BY Zenon, <3>1, <3>2 DEF Carve
  <2> QED
    BY Zenon, <2>1, <2>2, <1>4 DEF emptyVars, IInv, TypeOK, RefillBegun, binVars
<1> QED
  BY Zenon, <1>1, <1>2, <1>7, <1>8, <1>9 DEF IInv, PoolInv

\* The first step of a refill preserves the invariant, wherever the slab
\* comes from.
LEMMA MallocMissInv ==
  ASSUME IInv, NEW t \in Threads, NEW p \in Pools, Running(t), MallocMiss(t, p),
         btm_tls' = [btm_tls EXCEPT ![t] = TRUE], UNCHANGED <<exiting, flushing>>
  PROVE  IInv'
<1>1. bin_head[t][p] = {} /\ RefillLock(t, p)
  BY Zenon DEF MallocMiss
<1>2. PICK s \in Slabs : /\ RefillPartial(p, s) \/ RefillNew(p, s)
                         /\ slab' = [slab EXCEPT ![t] = {s}]
  BY Zenon, <1>1 DEF RefillLock
<1>3. RefillBegun(t, p, s) /\ UNCHANGED outstanding
  BY Zenon, <1>1, <1>2 DEF RefillLock, RefillBegun
<1>4. CASE RefillPartial(p, s)
  BY Zenon, <1>1, <1>3, <1>4, RefillPartialInv
<1>5. CASE RefillNew(p, s)
  <2>1. /\ partial[p] = {} /\ partial_push(p, s) /\ slab_format(s)
        /\ Recycle(p, s) \/ Carve(p, s)
    BY Zenon, <1>5 DEF RefillNew, btm_slab_new
  <2> QED
    BY Zenon, <1>1, <1>3, <2>1, RecycleInv, CarveInv
<1> QED
  BY Zenon, <1>2, <1>4, <1>5

-----------------------------------------------------------------------------
(* RefillTake: moving slots from the slab *)

\* The slab a refill works on is the only one of its pool, is carved and on the
\* partial list, and has a free slot.
LEMMA RefillSlab ==
  ASSUME IInv, NEW t \in Threads, refilling[t] # NoPool, NEW s \in slab[t]
  PROVE  /\ refilling[t] \in Pools /\ s \in Slabs
         /\ RefF[refilling[t]] = {s}
         /\ slab[t] = {s}
         /\ \A u \in Threads : refilling[u] = refilling[t] => u = t
         /\ s \in CarvF[refilling[t]] /\ s \in partial[refilling[t]]
         /\ free_head[s] \in SUBSET Index
         /\ free_count[s] = Cardinality(free_head[s])
         /\ free_count[s] \in 1..NSlots
<1> DEFINE p == refilling[t]
<1>1. p \in Pools /\ s \in Slabs /\ slab[t] = {s}
  BY DEF IInv, TypeOK, ThreadInv, RefillInv
<1>2. \A u \in Threads : refilling[u] = p => u = t
  BY <1>1, HeapAssumption DEF IInv, ThreadInv, RefillInv
<1>3. RefF[p] = {s}
  BY Zenon, <1>1, <1>2 DEF RefF, InRefill
<1> HIDE DEF p
<1>4. s \in CarvF[p] /\ s \in partial[p] /\ free_count[s] # 0
  BY Zenon, <1>1, <1>3 DEF IInv, PoolInv, Lists
<1>5. free_head[s] \in SUBSET Index /\ free_count[s] = Cardinality(free_head[s])
  BY Zenon, <1>1, <1>4 DEF IInv, TypeOK, PoolInv, FreeCounted
<1>6. free_count[s] \in 1..NSlots
  BY <1>4, <1>5, FreeListLength, HeapAssumption
<1> QED
  BY Zenon, <1>1, <1>2, <1>3, <1>4, <1>5, <1>6 DEF p

\* What moving the slots R of slab s out of pool p does to the pool.
SlotsTaken(p, s, R) ==
  /\ R \in SUBSET free_head[s] /\ R # {}
  /\ free_head' = [free_head EXCEPT ![s] = @ \ R]
  /\ free_count' = [free_count EXCEPT ![s] = @ - Cardinality(R)]
  /\ outstanding' = [outstanding EXCEPT ![p] = @ + Cardinality(R)]
  /\ IF free_count[s] - Cardinality(R) = 0
     THEN /\ partial' = [partial EXCEPT ![p] = partial_remove(@, s)]
          /\ in_partial' = [in_partial EXCEPT ![s] = FALSE]
     ELSE UNCHANGED listVars
  /\ UNCHANGED <<emptyVars, chunkVars, decommitted>>

\* Taking slots off the slab keeps every list and counter of the pool right;
\* the slab leaves the partial list exactly when its last free slot goes.
LEMMA SlotsTakenPools ==
  ASSUME IInv, NEW p \in Pools, NEW s \in CarvF[p], NEW R, SlotsTaken(p, s, R),
         RefF[p] = {s}, RefF' = [RefF EXCEPT ![p] = {}],
         OutF' = [OutF EXCEPT ![p] = @ \cup ({s} \X R)]
  PROVE  /\ PoolInv'
         /\ Cardinality(R) \in Nat
         /\ free_count[s] - Cardinality(R) \in Nat
<1> USE DEF SlotsTaken, emptyVars, listVars, chunkVars
<1>0. /\ CarvF \in [Pools -> SUBSET Slabs]
      /\ RefF \in [Pools -> SUBSET Slabs]
      /\ OutF \in [Pools -> SUBSET Slots]
      /\ CarvF' = CarvF
  BY DEF CarvF, Carved, RefF, InRefill, OutF, IInv, TypeOK
<1>1. s \in Slabs /\ free_head[s] \in SUBSET Index /\ R \in SUBSET Index
  BY Zenon, <1>0 DEF IInv, TypeOK
<1>2. /\ IsFiniteSet(R) /\ Cardinality(R) \in Nat
      /\ Cardinality(free_head[s] \ R) = free_count[s] - Cardinality(R)
      /\ free_count[s] - Cardinality(R) \in 0..(NSlots - 1)
      /\ free_count[s] - Cardinality(R) \in Nat
  <2>1. free_count[s] = Cardinality(free_head[s]) /\ free_count[s] \in 0..NSlots
    BY Zenon, <1>1, FreeListLength DEF IInv, PoolInv, FreeCounted
  <2>2. IsFiniteSet(R) /\ Cardinality(R) \in 0..NSlots /\ Cardinality(R) # 0
    BY Zenon, <1>1, FreeListLength
  <2>3. IsFiniteSet(free_head[s]) /\ free_head[s] \cap R = R
    BY Zenon, <1>1, FreeListLength
  <2>4. Cardinality(free_head[s] \ R) = free_count[s] - Cardinality(R)
    <3>1. Cardinality(free_head[s] \ R) =
            Cardinality(free_head[s]) - Cardinality(free_head[s] \cap R)
      BY Zenon, <2>3, FS_Difference
    <3> QED
      BY Zenon, <2>1, <2>3, <3>1
  <2>5. Cardinality(free_head[s] \ R) \in 0..NSlots
    BY Zenon, <1>1, FreeListLength
  <2> QED
    BY <2>1, <2>2, <2>4, <2>5, HeapAssumption
<1>3. Owned' /\ WarmCounted'
  BY ZenonT(40) DEF IInv, PoolInv, Owned, WarmCounted
<1>4. LiveSlabs'
  BY DEF IInv, PoolInv, LiveSlabs, Busy
<1>5. \A q \in Pools : s \in CarvF[q] => q = p
  BY Zenon, CarvedApart DEF IInv, PoolInv
<1>6. OutCarved'
  <2> SUFFICES ASSUME NEW q \in Pools, NEW x \in OutF'[q]
               PROVE  x[1] \in CarvF[q] /\ x[2] \notin free_head'[x[1]]
    BY Zenon, <1>0 DEF OutCarved
  <2>1. CASE x \in OutF[q]
    <3>1. x[1] \in CarvF[q] /\ x[2] \notin free_head[x[1]] /\ x[1] \in Slabs
      BY Zenon, <1>0, <2>1 DEF IInv, PoolInv, OutCarved
    <3> QED
      BY Zenon, <1>1, <3>1 DEF IInv, TypeOK
  <2>2. CASE x \notin OutF[q]
    <3>1. q = p /\ x[1] = s /\ x[2] \in R
      BY Zenon, <1>0, <2>2
    <3> QED
      BY Zenon, <1>1, <3>1 DEF IInv, TypeOK
  <2> QED
    BY Zenon, <2>1, <2>2
<1>7. NoneLost'
  <2> SUFFICES ASSUME NEW q \in Pools, NEW e \in CarvF[q], NEW k \in Index
               PROVE  k \in free_head'[e] \/ <<e, k>> \in OutF'[q]
    BY Zenon, <1>0 DEF NoneLost
  <2>1. k \in free_head[e] \/ <<e, k>> \in OutF[q]
    BY Zenon DEF IInv, PoolInv, NoneLost
  <2>2. OutF[q] \subseteq OutF'[q]
    BY Zenon, <1>0
  <2>3. CASE e = s
    <3>1. q = p
      BY Zenon, <1>5, <2>3
    <3>2. k \in R => <<e, k>> \in OutF'[q]
      BY Zenon, <1>0, <2>3, <3>1
    <3> QED
      BY Zenon, <1>1, <2>1, <2>2, <2>3, <3>2 DEF IInv, TypeOK
  <2>4. CASE e # s
    BY Zenon, <1>0, <1>1, <2>1, <2>2, <2>4 DEF IInv, TypeOK
  <2> QED
    BY Zenon, <2>3, <2>4
<1>8. FreeCounted'
  BY Zenon, <1>0, <1>1, <1>2 DEF IInv, TypeOK, PoolInv, FreeCounted
<1>9. s \in partial[p]
  BY Zenon DEF IInv, PoolInv, Lists
<1>10. Lists'
  <2> SUFFICES ASSUME NEW q \in Pools
               PROVE
      /\ partial'[q] = {e \in CarvF[q] : free_count'[e] \in 1..(NSlots - 1)} \cup RefF'[q]
      /\ empty_warm[q] \cup empty_cold[q] =
           {e \in CarvF[q] : free_count'[e] = NSlots} \ RefF'[q]
      /\ empty_warm[q] \cap empty_cold[q] = {}
      /\ \A e \in RefF'[q] : e \in CarvF[q] /\ free_count'[e] # 0
    BY Zenon, <1>0 DEF Lists
  <2>0. /\ free_count'[s] = free_count[s] - Cardinality(R)
        /\ \A e \in Slabs \ {s} : free_count'[e] = free_count[e]
    BY Zenon, <1>1 DEF IInv, TypeOK
  <2>1. CASE q = p
    <3>1. /\ partial[p] = {e \in CarvF[p] : free_count[e] \in 1..(NSlots - 1)} \cup {s}
          /\ empty_warm[p] \cup empty_cold[p] = {e \in CarvF[p] : free_count[e] = NSlots} \ {s}
          /\ empty_warm[p] \cap empty_cold[p] = {}
      BY Zenon DEF IInv, PoolInv, Lists
    <3>2. RefF'[p] = {}
      BY Zenon, <1>0
    <3>3. free_count'[s] # NSlots
      BY SMTT(30), <1>2, <2>0, HeapAssumption
    <3>4. CASE free_count'[s] = 0
      <4>1. partial'[p] = partial[p] \ {s}
        BY SMTT(30), <1>9, <2>0, <3>4 DEF partial_remove, IInv, TypeOK
      <4> QED
        BY SMTT(30), <1>0, <2>0, <2>1, <3>1, <3>2, <3>3, <3>4, <4>1
    <3>5. CASE free_count'[s] # 0
      <4>1. partial'[p] = partial[p]
        BY ZenonT(40), <2>0, <3>5
      <4>2. free_count'[s] \in 1..(NSlots - 1)
        BY SMTT(30), <1>2, <2>0, <3>5, HeapAssumption
      <4> QED
        BY SMTT(30), <1>0, <2>0, <2>1, <3>1, <3>2, <3>3, <4>1, <4>2
    <3> QED
      BY Zenon, <3>4, <3>5
  <2>2. CASE q # p
    <3>1. s \notin CarvF[q]
      BY Zenon, <1>5, <2>2
    <3>2. partial'[q] = partial[q]
      BY Zenon, <2>2 DEF IInv, TypeOK
    <3>3. RefF'[q] = RefF[q]
      BY Zenon, <1>0, <2>2
    <3>4. \A e \in CarvF[q] : free_count'[e] = free_count[e]
      BY Zenon, <1>0, <2>0, <3>1
    <3> QED
      BY <1>0, <3>2, <3>3, <3>4 DEF IInv, PoolInv, Lists
  <2> QED
    BY Zenon, <2>1, <2>2
<1>11. Flags'
  <2> SUFFICES ASSUME NEW q \in Pools, NEW e \in CarvF[q]
               PROVE  /\ in_partial'[e] <=> e \in partial'[q]
                      /\ decommitted[e] => e \in empty_cold[q]
    BY Zenon, <1>0 DEF Flags
  <2>1. in_partial[e] <=> e \in partial[q]
    BY Zenon DEF IInv, PoolInv, Flags
  <2>2. decommitted[e] => e \in empty_cold[q]
    BY Zenon DEF IInv, PoolInv, Flags
  <2>3. in_partial'[e] <=> e \in partial'[q]
    BY SMTT(30), <1>0, <1>1, <1>5, <1>9, <2>1 DEF partial_remove, IInv, TypeOK
  <2> QED
    BY Zenon, <2>2, <2>3
<1>12. OutCounted'
  <2>1. ({s} \X R) \cap OutF[p] = {}
    BY ZenonT(40) DEF IInv, PoolInv, OutCarved
  <2>2. IsFiniteSet({s} \X R) /\ Cardinality({s} \X R) = Cardinality(R)
    BY Zenon, <1>2, OneSlab
  <2>3. IsFiniteSet(OutF[p]) /\ outstanding[p] = Cardinality(OutF[p])
    BY Zenon DEF IInv, PoolInv, OutCounted
  <2>4. IsFiniteSet(OutF[p] \cup ({s} \X R))
    BY Zenon, <2>1, <2>2, <2>3, ApartUnion
  <2>5. Cardinality(OutF[p] \cup ({s} \X R)) = outstanding[p] + Cardinality(R)
    <3>1. Cardinality(OutF[p] \cup ({s} \X R)) = Cardinality(OutF[p]) + Cardinality({s} \X R)
      BY Zenon, <2>1, <2>2, <2>3, ApartUnion
    <3> QED
      BY Zenon, <2>2, <2>3, <3>1
  <2> QED
    BY Zenon, <1>0, <2>4, <2>5 DEF IInv, TypeOK, PoolInv, OutCounted
<1> QED
  BY ZenonT(40), <1>2, <1>3, <1>4, <1>6, <1>7, <1>8, <1>10, <1>11, <1>12 DEF PoolInv

\* The second step of a refill: the slots taken were neither in use nor
\* cached, one goes to the caller and the rest to the bin.
LEMMA RefillTakeInv ==
  ASSUME IInv, NEW t \in Threads, RefillTake(t)
  PROVE  IInv'
<1>21. refilling[t] \in Pools
  BY Zenon DEF RefillTake, IInv, TypeOK
<1>22. PICK p \in Pools : p = refilling[t]
  BY Zenon, <1>21
<1>1. /\ p # NoPool
      /\ lock' = [lock EXCEPT ![p] = NoThread]
      /\ refilling' = [refilling EXCEPT ![t] = NoPool]
      /\ slab' = [slab EXCEPT ![t] = {}]
      /\ UNCHANGED <<btm_tls, exiting, flushing, emptyVars, chunkVars, decommitted>>
  BY Zenon, <1>22 DEF RefillTake
<1> DEFINE Taken(s, R) ==
        LET n == MinOf(want, Cardinality(free_head[s]))
            left == free_count[s] - n
        IN
        /\ Cardinality(R) = n
        /\ free_head' = [free_head EXCEPT ![s] = @ \ R]
        /\ free_count' = [free_count EXCEPT ![s] = left]
        /\ outstanding' = [outstanding EXCEPT ![p] = @ + n]
        /\ IF left = 0
           THEN /\ partial' = [partial EXCEPT ![p] = partial_remove(@, s)]
                /\ in_partial' = [in_partial EXCEPT ![s] = FALSE]
           ELSE UNCHANGED listVars
        /\ IF R = {} THEN UNCHANGED <<live, binVars>> ELSE HandOut(t, p, s, R)
<1>20. PICK s \in slab[t] : \E R \in SUBSET free_head[s] : Taken(s, R)
  BY Zenon, <1>22 DEF RefillTake
<1>2. PICK R \in SUBSET free_head[s] : Taken(s, R)
  BY Zenon, <1>20
<1>3. /\ p \in Pools /\ s \in Slabs
      /\ RefF[p] = {s}
      /\ slab[t] = {s}
      /\ \A u \in Threads : refilling[u] = p => u = t
      /\ s \in CarvF[p] /\ s \in partial[p]
      /\ free_head[s] \in SUBSET Index
      /\ free_count[s] = Cardinality(free_head[s])
      /\ free_count[s] \in 1..NSlots
  BY Zenon, <1>1, <1>22, RefillSlab
<1>19. bin_head[t][p] = {} /\ lock[p] = t /\ flushing[t] = NoPool
  BY ZenonT(40), <1>1, <1>22 DEF IInv, ThreadInv, RefillInv
<1>4. /\ want \in 1..CacheMax
      /\ Cardinality(R) = MinOf(want, free_count[s])
      /\ Cardinality(R) \in 1..CacheMax
  <2>1. want \in 1..CacheMax
    BY HeapAssumption DEF want
  <2>2. Cardinality(R) = MinOf(want, free_count[s])
    BY Zenon, <1>2, <1>3
  <2> QED
    BY Zenon, <1>3, <2>1, <2>2, LimitKept
<1>5. R # {}
  <2>1. Cardinality({}) = 0
    BY Zenon, FS_EmptySet
  <2> QED
    BY <1>4, <2>1
<1>6. SlotsTaken(p, s, R)
  BY Zenon, <1>1, <1>2, <1>3, <1>4, <1>5 DEF SlotsTaken, IInv, TypeOK
<1>7. PICK k \in R :
        /\ live' = [live EXCEPT ![<<s, k>>] = p]
        /\ bin_head' = [bin_head EXCEPT ![t][p] = @ \cup ({s} \X (R \ {k}))]
        /\ bin_count' = [bin_count EXCEPT ![t][p] = @ + (Cardinality(R) - 1)]
  BY Zenon, <1>2, <1>5 DEF HandOut
<1>8. /\ {s} \X R \subseteq Slots
      /\ <<s, k>> \in Slots
      /\ \A y \in Slots : y \in {s} \X R <=> y = <<s, k>> \/ y \in {s} \X (R \ {k})
  <2>1. R \subseteq Index
    BY Zenon, <1>3
  <2> QED
    BY <1>3, <1>7, <2>1, Shapes
<1>9. \A y \in {s} \X R, q \in Pools : y \notin OutF[q]
  BY Zenon DEF IInv, PoolInv, OutCarved
<1>10. /\ \A y \in {s} \X R, q \in Pools, u \in Threads : y \notin bin_head[u][q]
       /\ \A y \in {s} \X R : live[y] = NoPool
  BY Zenon, <1>8, <1>9 DEF OutF, Out, IInv, TypeOK
<1>11. OutF' = [OutF EXCEPT ![p] = @ \cup ({s} \X R)]
  <2>0. <<s, k>> \notin {s} \X (R \ {k})
    BY Zenon
  <2>1. \A y \in Slots : Out(p, y)' <=> Out(p, y) \/ y \in {s} \X R
    <3> SUFFICES ASSUME NEW y \in Slots
                 PROVE Out(p, y)' <=> Out(p, y) \/ y \in {s} \X R
      BY Zenon
    <3>1. live'[y] = p <=> live[y] = p \/ y = <<s, k>>
      BY Zenon, <1>7, <1>8 DEF IInv, TypeOK
    <3>2. (\E u \in Threads : y \in bin_head'[u][p]) <=>
             (\E u \in Threads : y \in bin_head[u][p]) \/ y \in {s} \X (R \ {k})
      BY Zenon, <1>3, <1>7 DEF IInv, TypeOK
    <3> QED
      BY Zenon, <1>8, <3>1, <3>2 DEF Out
  <2>2. \A q \in Pools, y \in Slots : q # p => (Out(q, y)' <=> Out(q, y))
    <3> SUFFICES ASSUME NEW q \in Pools, NEW y \in Slots, q # p
                 PROVE Out(q, y)' <=> Out(q, y)
      BY Zenon
    <3>1. \A u \in Threads : bin_head'[u][q] = bin_head[u][q]
      BY Zenon, <1>3, <1>7 DEF IInv, TypeOK
    <3>2. live'[y] = q <=> live[y] = q
      <4>1. live[<<s, k>>] # q
        BY Zenon, <1>7, <1>10, HeapAssumption
      <4> QED
        BY Zenon, <1>7, <4>1 DEF IInv, TypeOK
    <3> QED
      BY Zenon, <3>1, <3>2 DEF Out
  <2>3. OutF'[p] = OutF[p] \cup ({s} \X R)
    <3>1. OutF'[p] = {y \in Slots : Out(p, y)'} /\ OutF[p] = {y \in Slots : Out(p, y)}
      BY Zenon DEF OutF
    <3> QED
      BY Zenon, <1>8, <2>1, <3>1
  <2>4. \A q \in Pools : q # p => OutF'[q] = OutF[q]
    BY Zenon, <2>2 DEF OutF
  <2> QED
    BY Zenon, <2>3, <2>4 DEF OutF
<1>12. RefF' = [RefF EXCEPT ![p] = {}]
  <2>1. InRefill(p)' = {}
    BY SMTT(30), <1>1, <1>3, HeapAssumption DEF InRefill, IInv, TypeOK
  <2>2. \A q \in Pools : q # p => InRefill(q)' = InRefill(q)
    BY <1>1, <1>22, HeapAssumption DEF InRefill, IInv, TypeOK
  <2> QED
    BY ZenonT(40), <2>1, <2>2 DEF RefF
<1>13. /\ PoolInv'
       /\ Cardinality(R) \in Nat
       /\ free_count[s] - Cardinality(R) \in Nat
  BY Zenon, <1>3, <1>6, <1>11, <1>12, SlotsTakenPools
<1>14. /\ bin_count[t][p] = 0
       /\ IsFiniteSet({s} \X (R \ {k}))
       /\ Cardinality({s} \X (R \ {k})) = Cardinality(R) - 1
  <2>1. bin_count[t][p] = 0
    BY <1>3, <1>19, FS_EmptySet DEF IInv, ThreadInv, BinsCounted
  <2>2. IsFiniteSet(R)
    BY Zenon, <1>3, FreeListLength
  <2>3. IsFiniteSet(R \ {k}) /\ Cardinality(R \ {k}) = Cardinality(R) - 1
    BY Zenon, <1>7, <2>2, FS_RemoveElement
  <2>4. IsFiniteSet({s}) /\ Cardinality({s}) = 1
    BY Zenon, FS_Singleton
  <2>5. /\ IsFiniteSet({s} \X (R \ {k}))
        /\ Cardinality({s} \X (R \ {k})) = 1 * Cardinality(R \ {k})
    BY Zenon, <2>3, <2>4, FS_Product
  <2> QED
    BY SMTT(30), <1>13, <2>1, <2>3, <2>5
<1>23. /\ bin_head'[t][p] = {s} \X (R \ {k})
       /\ \A u \in Threads, q \in Pools : u # t \/ q # p => bin_head'[u][q] = bin_head[u][q]
  <2> DEFINE B == {s} \X (R \ {k})
  <2>1. bin_head' = [bin_head EXCEPT ![t][p] = @ \cup B] /\ bin_head[t][p] \cup B = B
    BY Zenon, <1>7, <1>19
  <2> HIDE DEF B
  <2>2. bin_head'[t][p] = B
    BY Zenon, <2>1 DEF IInv, TypeOK
  <2>3. \A u \in Threads, q \in Pools : u # t \/ q # p => bin_head'[u][q] = bin_head[u][q]
    BY Zenon, <2>1 DEF IInv, TypeOK
  <2> QED
    BY Zenon, <2>2, <2>3 DEF B
<1>15. BinsDisjoint'
  <2> SUFFICES ASSUME NEW u \in Threads, NEW q \in Pools, NEW y \in bin_head'[u][q]
               PROVE  /\ live'[y] = NoPool
                      /\ \A v \in Threads, r \in Pools : y \in bin_head'[v][r] => v = u /\ r = q
    BY Zenon DEF BinsDisjoint
  <2>1. \A v \in Threads, r \in Pools :
          y \in bin_head'[v][r] <=>
            y \in bin_head[v][r] \/ (v = t /\ r = p /\ y \in {s} \X (R \ {k}))
    <3> DEFINE B == {s} \X (R \ {k})
    <3>1. bin_head'[t][p] = B
      BY Zenon, <1>23
    <3> HIDE DEF B
    <3>2. \A v \in Threads, r \in Pools :
            y \in bin_head'[v][r] <=> y \in bin_head[v][r] \/ (v = t /\ r = p /\ y \in B)
      BY ZenonT(40), <1>19, <1>23, <3>1
    <3> QED
      BY Zenon, <3>2 DEF B
  <2>2. CASE y \in {s} \X (R \ {k})
    <3>1. y \in {s} \X R /\ y # <<s, k>> /\ y \in Slots
      BY <1>8, <2>2
    <3>2. live'[y] = NoPool
      BY Zenon, <1>7, <1>10, <3>1 DEF IInv, TypeOK
    <3> QED
      BY SMTT(30), <1>10, <2>1, <3>1, <3>2
  <2>3. CASE y \notin {s} \X (R \ {k})
    <3>1. y \in bin_head[u][q]
      BY Zenon, <2>1, <2>3
    <3>2. y # <<s, k>>
      BY SMTT(30), <1>7, <1>10, <3>1
    <3>3. live'[y] = NoPool
      BY <1>7, <3>1, <3>2 DEF IInv, TypeOK, ThreadInv, BinsDisjoint
    <3> QED
      BY <2>1, <2>3, <3>1, <3>3 DEF IInv, ThreadInv, BinsDisjoint
  <2> QED
    BY Zenon, <2>2, <2>3
<1>16. RefillInv'
  <2> SUFFICES ASSUME NEW u \in Threads
               PROVE  /\ refilling'[u] = NoPool => slab'[u] = {}
                      /\ refilling'[u] # NoPool =>
                           /\ lock'[refilling'[u]] = u
                           /\ flushing'[u] = NoPool
                           /\ u \notin exiting'
                           /\ bin_head'[u][refilling'[u]] = {}
                           /\ \A s1, s2 \in slab'[u] : s1 = s2
    BY Zenon DEF RefillInv
  <2>1. CASE u = t
    BY Zenon, <1>1, <2>1 DEF IInv, TypeOK
  <2>2. CASE u # t
    <3>1. refilling'[u] = refilling[u] /\ slab'[u] = slab[u] /\ bin_head'[u] = bin_head[u]
      BY Zenon, <1>1, <1>7, <2>2 DEF IInv, TypeOK
    <3>2. refilling[u] # p
      BY Zenon, <1>3, <2>2
    <3>3. /\ refilling[u] = NoPool => slab[u] = {}
          /\ refilling[u] # NoPool =>
               /\ lock[refilling[u]] = u /\ flushing[u] = NoPool /\ u \notin exiting
               /\ bin_head[u][refilling[u]] = {}
               /\ \A s1, s2 \in slab[u] : s1 = s2
      BY Zenon DEF IInv, ThreadInv, RefillInv
    <3>4. refilling[u] # NoPool => lock'[refilling[u]] = lock[refilling[u]]
      BY ZenonT(40), <1>1, <3>2 DEF IInv, TypeOK
    <3> QED
      BY Zenon, <1>1, <3>1, <3>3, <3>4
  <2> QED
    BY Zenon, <2>1, <2>2
<1>17. BinsCounted'
  <2>1. bin_head'[t][p] = {s} \X (R \ {k}) /\ bin_count'[t][p] = Cardinality(R) - 1
    BY <1>7, <1>13, <1>14, <1>23 DEF IInv, TypeOK
  <2>2. \A u \in Threads, q \in Pools : u # t \/ q # p =>
          bin_head'[u][q] = bin_head[u][q] /\ bin_count'[u][q] = bin_count[u][q]
    BY ZenonT(40), <1>7 DEF IInv, TypeOK
  <2>3. Cardinality(R) - 1 <= CacheMax
    BY SMTT(30), <1>4, HeapAssumption
  <2>4. /\ IsFiniteSet(bin_head'[t][p])
        /\ bin_count'[t][p] = Cardinality(bin_head'[t][p])
        /\ bin_count'[t][p] <= CacheMax + 1
        /\ ~(bin_count'[t][p] > CacheMax)
    BY SMTT(30), <1>4, <1>13, <1>14, <2>1, <2>3, HeapAssumption
  <2> SUFFICES ASSUME NEW u \in Threads, NEW q \in Pools
               PROVE  /\ IsFiniteSet(bin_head'[u][q])
                      /\ bin_count'[u][q] = Cardinality(bin_head'[u][q])
                      /\ bin_count'[u][q] <= CacheMax + 1
                      /\ bin_count'[u][q] > CacheMax => flushing'[u] = q
    BY Zenon DEF BinsCounted
  <2>5. CASE u = t /\ q = p
    BY Zenon, <2>4, <2>5
  <2>6. CASE u # t \/ q # p
    <3>1. /\ bin_head'[u][q] = bin_head[u][q]
          /\ bin_count'[u][q] = bin_count[u][q]
          /\ flushing' = flushing
      BY Zenon, <1>1, <2>2, <2>6
    <3> QED
      BY Zenon, <3>1 DEF IInv, ThreadInv, BinsCounted
  <2> QED
    BY Zenon, <2>5, <2>6
<1>18. TypeOK'
  <2>1. /\ bin_head' \in [Threads -> [Pools -> SUBSET Slots]]
        /\ live' \in [Slots -> Pools \cup {NoPool}]
    <3> DEFINE B == {s} \X (R \ {k})
    <3>1. B \in SUBSET Slots /\ bin_head' = [bin_head EXCEPT ![t][p] = @ \cup B]
      BY Zenon, <1>7, <1>8
    <3> HIDE DEF B
    <3>2. bin_head' \in [Threads -> [Pools -> SUBSET Slots]]
      BY <3>1 DEF IInv, TypeOK
    <3>3. live' \in [Slots -> Pools \cup {NoPool}]
      BY Zenon, <1>7 DEF IInv, TypeOK
    <3> QED
      BY Zenon, <3>2, <3>3
  <2>2. bin_count' \in [Threads -> [Pools -> Nat]]
    <3>1. Cardinality(R) - 1 \in Nat
      BY SMTT(30), <1>4
    <3>2. bin_count[t][p] + (Cardinality(R) - 1) \in Nat
      BY <1>14, <3>1
    <3>3. bin_count \in [Threads -> [Pools -> Nat]]
      BY Zenon DEF IInv, TypeOK
    <3>4. PICK n \in Nat : n = bin_count[t][p] + (Cardinality(R) - 1)
      BY Zenon, <3>2
    <3>5. bin_count' = [bin_count EXCEPT ![t][p] = n]
      BY Zenon, <1>7, <3>3, <3>4
    <3> QED
      BY Zenon, <3>3, <3>5
  <2>4. /\ free_head' \in [Slabs -> SUBSET Index]
        /\ free_count' \in [Slabs -> Nat]
        /\ outstanding' \in [Pools -> Nat]
    <3>1. /\ free_head' = [free_head EXCEPT ![s] = @ \ R]
          /\ free_count' = [free_count EXCEPT ![s] = @ - Cardinality(R)]
          /\ outstanding' = [outstanding EXCEPT ![p] = @ + Cardinality(R)]
      BY Zenon, <1>6 DEF SlotsTaken
    <3>2. outstanding[p] + Cardinality(R) \in Nat
      BY <1>13 DEF IInv, TypeOK
    <3>3. free_head[s] \ R \in SUBSET Index
      BY Zenon, <1>3
    <3> QED
      BY Zenon, <1>3, <1>13, <3>1, <3>2, <3>3 DEF IInv, TypeOK
  <2>3. /\ partial' \in [Pools -> SUBSET Slabs]
        /\ in_partial' \in [Slabs -> BOOLEAN]
    <3>1. partial_remove(partial[p], s) \in SUBSET Slabs
      BY Zenon DEF partial_remove, IInv, TypeOK
    <3>2. CASE free_count[s] - Cardinality(R) = 0
      BY Zenon, <1>6, <3>1, <3>2 DEF SlotsTaken, IInv, TypeOK
    <3>3. CASE free_count[s] - Cardinality(R) # 0
      BY Zenon, <1>6, <3>3 DEF SlotsTaken, listVars, IInv, TypeOK
    <3> QED
      BY Zenon, <3>2, <3>3
  <2> QED
    BY Zenon, <1>1, <1>3, <2>1, <2>2, <2>3, <2>4 DEF IInv, TypeOK, emptyVars, chunkVars
<1> QED
  BY Zenon, <1>13, <1>15, <1>16, <1>17, <1>18 DEF IInv, ThreadInv
=============================================================================
