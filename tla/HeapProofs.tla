----------------------------- MODULE HeapProofs -----------------------------
(***************************************************************************)
(* The theorems about Heap.  The steps that return a slot to its slab,     *)
(* from btm_pool_flush and btm_pool_free_one, preserve the inductive       *)
(* invariant too, whatever becomes of the slab and of its chunk; so it     *)
(* holds, the properties that TLC checks on small instances follow from    *)
(* it, and Heap implements the abstract Allocator.                         *)
(***************************************************************************)
EXTENDS HeapInductive

-----------------------------------------------------------------------------
(* Steps that return a slot to its slab *)

\* The slot x, out for pool p, is linked back into its slab while no refill
\* works on the pool.
SlotBack(p, x) ==
  /\ x \in OutF[p]
  /\ RefF[p] = {}
  /\ ReturnSlot(p, x)
  /\ outstanding' = [outstanding EXCEPT ![p] = @ - 1]
  /\ OutF' = [OutF EXCEPT ![p] = @ \ {x}]
  /\ RefF' = RefF

\* The part of TypeOK that is about the pools.
PoolTypes ==
  /\ partial \in [Pools -> SUBSET Slabs]
  /\ empty_warm \in [Pools -> SUBSET Slabs]
  /\ empty_cold \in [Pools -> SUBSET Slabs]
  /\ warm_count \in [Pools -> Nat]
  /\ chunks \in [Pools -> SUBSET Chunks]
  /\ active \in [Pools -> Chunks \cup {NoChunk}]
  /\ outstanding \in [Pools -> Nat]
  /\ pool \in [Chunks -> Pools \cup {NoPool}]
  /\ next_free_page \in [Chunks -> 0..SlabsPerChunk]
  /\ live_slabs \in [Chunks -> Nat]
  /\ free_head \in [Slabs -> SUBSET Index]
  /\ free_count \in [Slabs -> Nat]
  /\ in_partial \in [Slabs -> BOOLEAN]
  /\ decommitted \in [Slabs -> BOOLEAN]
  /\ store \in SUBSET Chunks

\* Where a slot that is out lies: in a slab of its pool that is not fully free,
\* is on no empty list, and is on the partial list if its flag says so.
LEMMA OutSlab ==
  ASSUME IInv, NEW p \in Pools, NEW x \in OutF[p], RefF[p] = {}
  PROVE  /\ x \in Slots /\ x[1] \in Slabs /\ x[2] \in Index /\ x = <<x[1], x[2]>>
         /\ x[1] \in CarvF[p] /\ x[2] \notin free_head[x[1]]
         /\ \A q \in Pools : x[1] \in CarvF[q] => q = p
         /\ free_head[x[1]] \in SUBSET Index
         /\ free_count[x[1]] = Cardinality(free_head[x[1]])
         /\ free_count[x[1]] \in 0..(NSlots - 1)
         /\ \A q \in Pools : x[1] \notin empty_warm[q] \cup empty_cold[q]
         /\ x[1] \in partial[p] <=> free_count[x[1]] # 0
         /\ in_partial[x[1]] <=> free_count[x[1]] # 0
         /\ decommitted[x[1]] = FALSE
<1> DEFINE s == x[1]
<1>1. x \in Slots /\ s \in Slabs /\ x[2] \in Index /\ x = <<x[1], x[2]>>
  BY Zenon, Shapes DEF OutF
<1>2. s \in CarvF[p] /\ x[2] \notin free_head[s]
  BY Zenon DEF IInv, PoolInv, OutCarved
<1>3. \A q \in Pools : s \in CarvF[q] => q = p
  BY Zenon, <1>2, CarvedApart DEF IInv, PoolInv
<1>4. free_head[s] \in SUBSET Index /\ free_count[s] = Cardinality(free_head[s])
  BY Zenon, <1>1, <1>2 DEF IInv, TypeOK, PoolInv, FreeCounted
<1>5. free_count[s] \in 0..(NSlots - 1)
  <2>1. free_head[s] # Index
    BY Zenon, <1>1, <1>2
  <2> QED
    BY <1>4, <2>1, FreeListLength, HeapAssumption
<1>6. \A q \in Pools : s \notin empty_warm[q] \cup empty_cold[q]
  BY EmptySlab
<1>7. s \in partial[p] <=> free_count[s] # 0
  <2>1. partial[p] = {e \in CarvF[p] : free_count[e] \in 1..(NSlots - 1)}
    BY Zenon DEF IInv, PoolInv, Lists
  <2>2. free_count[s] \in 1..(NSlots - 1) <=> free_count[s] # 0
    BY <1>5, HeapAssumption
  <2> QED
    BY Zenon, <1>2, <2>1, <2>2
<1>8. in_partial[s] <=> s \in partial[p]
  BY Zenon, <1>2 DEF IInv, PoolInv, Flags
<1>9. decommitted[s] = FALSE
  BY Zenon, <1>1, <1>2, <1>6 DEF IInv, TypeOK, PoolInv, Flags
<1> QED
  BY Zenon, <1>1, <1>2, <1>3, <1>4, <1>5, <1>6, <1>7, <1>8, <1>9

\* Linking the slot back keeps the slab descriptors and the count of slots
\* that are out right, whatever becomes of the slab, as long as no slab that
\* has a slot out is given up.
LEMMA SlotLinked ==
  ASSUME IInv, NEW p \in Pools, NEW x, SlotBack(p, x),
         \A q \in Pools : CarvF'[q] \subseteq CarvF[q],
         \A q \in Pools : \A y \in OutF'[q] : y[1] \in CarvF'[q]
  PROVE  /\ OutCarved' /\ NoneLost' /\ FreeCounted' /\ OutCounted'
         /\ free_head' \in [Slabs -> SUBSET Index]
         /\ free_count' \in [Slabs -> Nat]
         /\ outstanding' \in [Pools -> Nat]
<1> DEFINE s == x[1]
           k == x[2]
<1>0. /\ CarvF \in [Pools -> SUBSET Slabs]
      /\ OutF \in [Pools -> SUBSET Slots]
  BY Zenon DEF CarvF, Carved, OutF
<1>1. /\ x \in OutF[p] /\ RefF[p] = {}
      /\ free_head' = [free_head EXCEPT ![s] = @ \cup {k}]
      /\ free_count' = [free_count EXCEPT ![s] = @ + 1]
      /\ outstanding' = [outstanding EXCEPT ![p] = @ - 1]
      /\ OutF' = [OutF EXCEPT ![p] = @ \ {x}]
  BY Zenon DEF SlotBack, ReturnSlot, btm_slab_of
<1>2. /\ x \in Slots /\ s \in Slabs /\ k \in Index /\ x = <<s, k>>
      /\ s \in CarvF[p] /\ k \notin free_head[s]
      /\ \A q \in Pools : s \in CarvF[q] => q = p
      /\ free_head[s] \in SUBSET Index
      /\ free_count[s] = Cardinality(free_head[s])
  BY Zenon, <1>1, OutSlab
<1> HIDE DEF s, k
<1>3. OutCarved'
  <2> SUFFICES ASSUME NEW q \in Pools, NEW y \in OutF'[q]
               PROVE  y[2] \notin free_head'[y[1]]
    BY Zenon DEF OutCarved
  <2>1. y \in OutF[q] /\ y # x
    <3>1. CASE q = p
      BY Zenon, <1>0, <1>1, <3>1
    <3>2. CASE q # p
      <4>1. y \in OutF[q]
        BY Zenon, <1>0, <1>1, <3>2
      <4>2. y[1] \in CarvF[q]
        BY Zenon, <4>1 DEF IInv, PoolInv, OutCarved
      <4> QED
        BY Zenon, <1>2, <3>2, <4>1, <4>2 DEF s
    <3> QED
      BY Zenon, <3>1, <3>2
  <2>2. y \in Slots /\ y[1] \in Slabs /\ y = <<y[1], y[2]>> /\ y[2] \notin free_head[y[1]]
    BY Zenon, <1>0, <2>1, Shapes DEF IInv, PoolInv, OutCarved
  <2>3. y[1] # s \/ y[2] # k
    BY Zenon, <1>2, <2>1, <2>2
  <2> QED
    BY Zenon, <1>1, <1>2, <2>2, <2>3 DEF IInv, TypeOK
<1>4. NoneLost'
  <2> SUFFICES ASSUME NEW q \in Pools, NEW e \in CarvF'[q], NEW i \in Index
               PROVE  i \in free_head'[e] \/ <<e, i>> \in OutF'[q]
    BY Zenon DEF NoneLost
  <2>1. e \in CarvF[q] /\ e \in Slabs
    BY Zenon, <1>0
  <2>2. i \in free_head[e] \/ <<e, i>> \in OutF[q]
    BY Zenon, <2>1 DEF IInv, PoolInv, NoneLost
  <2>3. free_head[e] \subseteq free_head'[e]
    BY Zenon, <1>1, <1>2, <2>1 DEF IInv, TypeOK
  <2>4. <<e, i>> = x => i \in free_head'[e]
    BY Zenon, <1>1, <1>2, <2>1 DEF IInv, TypeOK
  <2>5. <<e, i>> \in OutF[q] /\ <<e, i>> # x => <<e, i>> \in OutF'[q]
    BY Zenon, <1>0, <1>1
  <2> QED
    BY Zenon, <2>2, <2>3, <2>4, <2>5
<1>5. Cardinality(free_head[s] \cup {k}) = free_count[s] + 1
  BY <1>2, FreeListLength, FS_AddElement
<1>6. FreeCounted'
  BY Zenon, <1>0, <1>1, <1>2, <1>5 DEF IInv, TypeOK, PoolInv, FreeCounted
<1>7. /\ IsFiniteSet(OutF[p] \ {x})
      /\ Cardinality(OutF[p] \ {x}) = outstanding[p] - 1
      /\ outstanding[p] - 1 \in Nat
  <2>1. IsFiniteSet(OutF[p]) /\ outstanding[p] = Cardinality(OutF[p])
    BY Zenon DEF IInv, PoolInv, OutCounted
  <2>2. IsFiniteSet(OutF[p] \ {x}) /\ Cardinality(OutF[p] \ {x}) = Cardinality(OutF[p]) - 1
    BY Zenon, <1>1, <2>1, FS_RemoveElement
  <2> QED
    BY Zenon, <2>1, <2>2, FS_CardinalityType
<1>8. OutCounted'
  BY Zenon, <1>0, <1>1, <1>7 DEF IInv, TypeOK, PoolInv, OutCounted
<1>9. /\ free_head' \in [Slabs -> SUBSET Index]
      /\ free_count' \in [Slabs -> Nat]
      /\ outstanding' \in [Pools -> Nat]
  BY <1>1, <1>2, <1>7 DEF IInv, TypeOK
<1> QED
  BY Zenon, <1>3, <1>4, <1>6, <1>8, <1>9

\* The slab does not become fully free: it is on the partial list afterwards.
LEMMA SlabStays ==
  ASSUME IInv, NEW p \in Pools, NEW x, SlotBack(p, x), free_count[x[1]] + 1 # NSlots
  PROVE  PoolInv' /\ PoolTypes'
<1> DEFINE s == x[1]
<1> USE DEF emptyVars, chunkVars, listVars
<1>0. /\ CarvF \in [Pools -> SUBSET Slabs]
      /\ OutF \in [Pools -> SUBSET Slots]
      /\ RefF \in [Pools -> SUBSET Slabs]
  BY DEF CarvF, Carved, OutF, RefF, InRefill, IInv, TypeOK
<1>1. /\ x \in OutF[p] /\ RefF[p] = {} /\ RefF' = RefF
      /\ OutF' = [OutF EXCEPT ![p] = @ \ {x}]
      /\ free_count' = [free_count EXCEPT ![s] = @ + 1]
      /\ IF in_partial[s] THEN UNCHANGED listVars ELSE partial_push(p, s)
      /\ UNCHANGED <<emptyVars, chunkVars, decommitted>>
  BY Zenon DEF SlotBack, ReturnSlot, btm_slab_of
<1>2. /\ s \in Slabs /\ s \in CarvF[p]
      /\ \A q \in Pools : s \in CarvF[q] => q = p
      /\ free_count[s] \in 0..(NSlots - 1)
      /\ \A q \in Pools : s \notin empty_warm[q] \cup empty_cold[q]
      /\ s \in partial[p] <=> free_count[s] # 0
      /\ in_partial[s] <=> free_count[s] # 0
  BY ZenonT(40), <1>1, OutSlab
<1>3. free_count[s] + 1 \in 1..(NSlots - 1) /\ free_count[s] # NSlots /\ free_count[s] + 1 # NSlots
  BY <1>2, HeapAssumption
<1> HIDE DEF s
<1>4. CarvF' = CarvF
  BY Zenon, <1>1 DEF CarvF, Carved
<1>5. /\ OutCarved' /\ NoneLost' /\ FreeCounted' /\ OutCounted'
      /\ free_head' \in [Slabs -> SUBSET Index]
      /\ free_count' \in [Slabs -> Nat]
      /\ outstanding' \in [Pools -> Nat]
  <2>1. \A q \in Pools : \A y \in OutF'[q] : y[1] \in CarvF'[q]
    BY Zenon, <1>0, <1>1, <1>4 DEF IInv, PoolInv, OutCarved
  <2> QED
    BY Zenon, <1>4, <2>1, SlotLinked
<1>6. Owned' /\ WarmCounted'
  BY Zenon, <1>1 DEF IInv, PoolInv, Owned, WarmCounted
<1>7. LiveSlabs'
  BY <1>1 DEF IInv, PoolInv, LiveSlabs, Busy
<1>8. /\ partial' = [partial EXCEPT ![p] = @ \cup {s}]
      /\ in_partial' = [in_partial EXCEPT ![s] = TRUE]
  <2>1. CASE in_partial[s]
    <3>1. partial[p] \cup {s} = partial[p] /\ in_partial[s] = TRUE
      BY <1>2, <2>1 DEF IInv, TypeOK
    <3> QED
      BY Zenon, <1>1, <2>1, <3>1 DEF IInv, TypeOK
  <2>2. CASE ~in_partial[s]
    BY Zenon, <1>1, <2>2 DEF partial_push
  <2> QED
    BY Zenon, <2>1, <2>2
<1>9. free_count'[s] = free_count[s] + 1 /\ \A e \in Slabs \ {s} : free_count'[e] = free_count[e]
  BY Zenon, <1>1, <1>2 DEF IInv, TypeOK
<1>10. Lists'
  <2> SUFFICES ASSUME NEW q \in Pools
               PROVE
      /\ partial'[q] = {e \in CarvF[q] : free_count'[e] \in 1..(NSlots - 1)} \cup RefF[q]
      /\ empty_warm[q] \cup empty_cold[q] = {e \in CarvF[q] : free_count'[e] = NSlots} \ RefF[q]
      /\ empty_warm[q] \cap empty_cold[q] = {}
      /\ \A e \in RefF[q] : e \in CarvF[q] /\ free_count'[e] # 0
    BY Zenon, <1>1, <1>4 DEF Lists
  <2>1. /\ partial[q] = {e \in CarvF[q] : free_count[e] \in 1..(NSlots - 1)} \cup RefF[q]
        /\ empty_warm[q] \cup empty_cold[q] = {e \in CarvF[q] : free_count[e] = NSlots} \ RefF[q]
        /\ empty_warm[q] \cap empty_cold[q] = {}
        /\ \A e \in RefF[q] : e \in CarvF[q] /\ free_count[e] # 0
    BY Zenon DEF IInv, PoolInv, Lists
  <2>2. CASE q = p
    <3>1. partial'[p] = partial[p] \cup {s}
      BY Zenon, <1>8 DEF IInv, TypeOK
    <3> QED
      BY <1>0, <1>1, <1>2, <1>3, <1>9, <2>1, <2>2, <3>1
  <2>3. CASE q # p
    <3>1. partial'[q] = partial[q]
      BY Zenon, <1>8, <2>3 DEF IInv, TypeOK
    <3>2. \A e \in CarvF[q] : free_count'[e] = free_count[e]
      BY Zenon, <1>0, <1>2, <1>9, <2>3
    <3> QED
      BY Zenon, <2>1, <3>1, <3>2
  <2> QED
    BY Zenon, <2>2, <2>3
<1>11. Flags'
  <2>1. \A q \in Pools : \A e \in CarvF[q] : in_partial'[e] <=> e \in partial'[q]
    BY Zenon, <1>0, <1>2, <1>8 DEF IInv, TypeOK, PoolInv, Flags
  <2> QED
    BY Zenon, <1>1, <1>4, <2>1 DEF IInv, PoolInv, Flags
<1>12. PoolTypes'
  BY Zenon, <1>1, <1>2, <1>5, <1>8 DEF IInv, TypeOK, PoolTypes
<1> QED
  BY Zenon, <1>5, <1>6, <1>7, <1>10, <1>11, <1>12 DEF PoolInv

\* The slab s, with its last slot back, leaves the partial list.  E are the
\* slabs that leave the pool with it (those of its chunk, if that is disposed).
LEMMA SlabEmptied ==
  ASSUME IInv, NEW p \in Pools, NEW x, SlotBack(p, x), free_count[x[1]] + 1 = NSlots,
         NEW E \in SUBSET Slabs,
         CarvF' = [CarvF EXCEPT ![p] = @ \ E],
         partial[p] \cap E \subseteq {x[1]},
         \A q \in Pools : q # p => empty_warm'[q] = empty_warm[q] /\ empty_cold'[q] = empty_cold[q],
         empty_warm'[p] \cup empty_cold'[p] = (empty_warm[p] \cup empty_cold[p] \cup {x[1]}) \ E,
         empty_warm'[p] \cap empty_cold'[p] = {},
         empty_cold[p] \ E \subseteq empty_cold'[p],
         decommitted' = [decommitted EXCEPT ![x[1]] = x[1] \in empty_cold'[p]]
  PROVE  /\ Lists' /\ Flags'
         /\ partial' \in [Pools -> SUBSET Slabs]
         /\ in_partial' \in [Slabs -> BOOLEAN]
<1> DEFINE s == x[1]
<1>0. /\ CarvF \in [Pools -> SUBSET Slabs]
      /\ RefF \in [Pools -> SUBSET Slabs]
  BY DEF CarvF, Carved, RefF, InRefill, IInv, TypeOK
<1>1. /\ x \in OutF[p] /\ RefF[p] = {} /\ RefF' = RefF
      /\ free_count' = [free_count EXCEPT ![s] = @ + 1]
      /\ partial' = [partial EXCEPT ![p] = partial_remove(@, s)]
      /\ in_partial' = [in_partial EXCEPT ![s] = FALSE]
  BY Zenon DEF SlotBack, ReturnSlot, btm_slab_of, slab_became_free
<1>2. /\ s \in Slabs /\ s \in CarvF[p]
      /\ \A q \in Pools : s \in CarvF[q] => q = p
      /\ free_count[s] \in 0..(NSlots - 1)
      /\ \A q \in Pools : s \notin empty_warm[q] \cup empty_cold[q]
      /\ s \in partial[p] <=> free_count[s] # 0
  BY Zenon, <1>1, OutSlab
<1>3. /\ s \in partial[p]
      /\ NSlots \notin 1..(NSlots - 1)
      /\ free_count[s] # NSlots
  BY <1>2, HeapAssumption
<1> HIDE DEF s
<1>4. partial' = [partial EXCEPT ![p] = @ \ {s}]
  BY Zenon, <1>1, <1>3 DEF partial_remove
<1>9. free_count'[s] = NSlots /\ \A e \in Slabs \ {s} : free_count'[e] = free_count[e]
  BY <1>1, <1>2 DEF s, IInv, TypeOK
<1>10. Lists'
  <2> SUFFICES ASSUME NEW q \in Pools
               PROVE
      /\ partial'[q] = {e \in CarvF'[q] : free_count'[e] \in 1..(NSlots - 1)} \cup RefF[q]
      /\ empty_warm'[q] \cup empty_cold'[q] =
           {e \in CarvF'[q] : free_count'[e] = NSlots} \ RefF[q]
      /\ empty_warm'[q] \cap empty_cold'[q] = {}
      /\ \A e \in RefF[q] : e \in CarvF'[q] /\ free_count'[e] # 0
    BY Zenon, <1>1 DEF Lists
  <2>1. /\ partial[q] = {e \in CarvF[q] : free_count[e] \in 1..(NSlots - 1)} \cup RefF[q]
        /\ empty_warm[q] \cup empty_cold[q] = {e \in CarvF[q] : free_count[e] = NSlots} \ RefF[q]
        /\ empty_warm[q] \cap empty_cold[q] = {}
        /\ \A e \in RefF[q] : e \in CarvF[q] /\ free_count[e] # 0
    BY Zenon DEF IInv, PoolInv, Lists
  <2>2. CASE q = p
    <3>1. partial'[p] = partial[p] \ {s} /\ CarvF'[p] = CarvF[p] \ E
      BY Zenon, <1>0, <1>4 DEF IInv, TypeOK
    <3>2. partial'[p] = {e \in CarvF'[p] : free_count'[e] \in 1..(NSlots - 1)}
      BY SMTT(30), <1>0, <1>1, <1>3, <1>9, <2>1, <2>2, <3>1 DEF s
    <3>3. empty_warm'[p] \cup empty_cold'[p] = {e \in CarvF'[p] : free_count'[e] = NSlots}
      BY <1>0, <1>1, <1>2, <1>9, <2>1, <2>2, <3>1 DEF s
    <3> QED
      BY Zenon, <1>1, <2>2, <3>2, <3>3
  <2>3. CASE q # p
    <3>1. partial'[q] = partial[q] /\ CarvF'[q] = CarvF[q]
      BY Zenon, <1>0, <1>4, <2>3 DEF IInv, TypeOK
    <3>2. \A e \in CarvF[q] : free_count'[e] = free_count[e]
      BY <1>0, <1>2, <1>9, <2>3
    <3> QED
      BY <2>1, <2>3, <3>1, <3>2
  <2> QED
    BY Zenon, <2>2, <2>3
<1>11. Flags'
  <2> SUFFICES ASSUME NEW q \in Pools, NEW e \in CarvF'[q]
               PROVE  /\ in_partial'[e] <=> e \in partial'[q]
                      /\ decommitted'[e] => e \in empty_cold'[q]
    BY Zenon DEF Flags
  <2>1. e \in CarvF[q] /\ e \in Slabs
    BY Zenon, <1>0
  <2>2. /\ in_partial[e] <=> e \in partial[q]
        /\ decommitted[e] => e \in empty_cold[q]
    BY Zenon, <2>1 DEF IInv, PoolInv, Flags
  <2>3. in_partial'[e] <=> e \in partial'[q]
    BY <1>1, <1>2, <1>4, <2>1, <2>2 DEF IInv, TypeOK
  <2>4. decommitted'[e] => e \in empty_cold'[q]
    <3>1. CASE e = s
      <4>1. q = p
        BY Zenon, <1>2, <2>1, <3>1
      <4> QED
        BY Zenon, <1>2, <3>1, <4>1 DEF s, IInv, TypeOK
    <3>2. CASE e # s
      <4>1. decommitted'[e] <=> decommitted[e]
        BY Zenon, <2>1, <3>2 DEF s, IInv, TypeOK
      <4>2. q = p => e \notin E
        BY Zenon, <1>0
      <4> QED
        BY Zenon, <2>2, <4>1, <4>2
    <3> QED
      BY Zenon, <3>1, <3>2
  <2> QED
    BY Zenon, <2>3, <2>4
<1>12. partial' \in [Pools -> SUBSET Slabs] /\ in_partial' \in [Slabs -> BOOLEAN]
  BY <1>1, <1>2, <1>4 DEF IInv, TypeOK
<1> QED
  BY Zenon, <1>10, <1>11, <1>12

\* A slab on no empty list counts as live in its chunk.
LEMMA BusyCounted ==
  ASSUME IInv, NEW p \in Pools, NEW s \in CarvF[p], s \notin empty_warm[p] \cup empty_cold[p]
  PROVE  /\ s \in Slabs /\ s[1] \in chunks[p] /\ s[1] \in Chunks /\ s = <<s[1], s[2]>>
         /\ s[2] \in Busy(p, s[1])
         /\ IsFiniteSet(Busy(p, s[1]))
         /\ live_slabs[s[1]] = Cardinality(Busy(p, s[1]))
         /\ live_slabs[s[1]] \in Nat \ {0}
         /\ \A q \in Pools : s[1] \in chunks[q] => q = p
<1>1. /\ s \in Slabs /\ s[1] \in chunks[p] /\ s[1] \in Chunks /\ s = <<s[1], s[2]>>
      /\ s[2] \in 1..next_free_page[s[1]]
  BY Shapes DEF CarvF, Carved, chunk_of, IInv, TypeOK
<1>2. s[2] \in Busy(p, s[1])
  BY Zenon, <1>1 DEF Busy
<1>3. IsFiniteSet(Busy(p, s[1]))
  <2>1. next_free_page[s[1]] \in Nat
    BY <1>1, HeapAssumption DEF IInv, TypeOK
  <2>2. IsFiniteSet(1..next_free_page[s[1]])
    BY <2>1, FS_Interval
  <2>3. Busy(p, s[1]) \in SUBSET (1..next_free_page[s[1]])
    BY Zenon DEF Busy
  <2> QED
    BY Zenon, <2>2, <2>3, FS_Subset
<1>4. live_slabs[s[1]] = Cardinality(Busy(p, s[1])) /\ live_slabs[s[1]] \in Nat \ {0}
  BY Zenon, <1>1 DEF IInv, TypeOK, PoolInv, LiveSlabs
<1>5. \A q \in Pools : s[1] \in chunks[q] => q = p
  BY <1>1 DEF IInv, PoolInv, Owned
<1> QED
  BY Zenon, <1>1, <1>2, <1>3, <1>4, <1>5

\* The emptied slab is kept, warm or cold; its chunk has other live slabs.
LEMMA SlabKept ==
  ASSUME IInv, NEW p \in Pools, NEW x, SlotBack(p, x), free_count[x[1]] + 1 = NSlots,
         live_slabs[x[1][1]] # 1,
         \/ warm_count[p] < KeepWarmEmpty /\ KeepWarm(p, x[1])
         \/ ParkCold(p, x[1])
  PROVE  PoolInv' /\ PoolTypes'
<1> DEFINE s == x[1]
           c == s[1]
<1>0. /\ CarvF \in [Pools -> SUBSET Slabs]
      /\ OutF \in [Pools -> SUBSET Slots]
  BY Zenon DEF CarvF, Carved, OutF
<1>1. /\ x \in OutF[p] /\ RefF[p] = {} /\ RefF' = RefF
      /\ OutF' = [OutF EXCEPT ![p] = @ \ {x}]
      /\ live_slabs' = [live_slabs EXCEPT ![c] = @ - 1]
      /\ UNCHANGED <<pool, next_free_page, active, chunks, store>>
  BY Zenon DEF SlotBack, ReturnSlot, btm_slab_of, slab_became_free, KeepWarm, ParkCold, chunk_of
<1>2. /\ s \in Slabs /\ s \in CarvF[p]
      /\ \A q \in Pools : s \notin empty_warm[q] \cup empty_cold[q]
      /\ decommitted[s] = FALSE
  BY Zenon, <1>1, OutSlab
<1>3. /\ c \in chunks[p] /\ c \in Chunks /\ s = <<c, s[2]>>
      /\ s[2] \in Busy(p, c)
      /\ IsFiniteSet(Busy(p, c))
      /\ live_slabs[c] = Cardinality(Busy(p, c))
      /\ live_slabs[c] \in Nat \ {0, 1}
      /\ \A q \in Pools : c \in chunks[q] => q = p
  BY Zenon, <1>2, BusyCounted
<1>19. \/ warm_count[p] < KeepWarmEmpty /\ KeepWarm(p, s)
       \/ ParkCold(p, s)
  BY Zenon
<1> HIDE DEF s, c
<1>4. CarvF' = CarvF
  BY Zenon, <1>1 DEF CarvF, Carved
<1>5. /\ OutCarved' /\ NoneLost' /\ FreeCounted' /\ OutCounted'
      /\ free_head' \in [Slabs -> SUBSET Index]
      /\ free_count' \in [Slabs -> Nat]
      /\ outstanding' \in [Pools -> Nat]
  <2>1. \A q \in Pools : \A y \in OutF'[q] : y[1] \in CarvF'[q]
    BY Zenon, <1>0, <1>1, <1>4 DEF IInv, PoolInv, OutCarved
  <2> QED
    BY Zenon, <1>4, <2>1, SlotLinked
<1>6. Owned'
  BY Zenon, <1>1 DEF IInv, PoolInv, Owned
<1>7. /\ \A q \in Pools : q # p => empty_warm'[q] = empty_warm[q] /\ empty_cold'[q] = empty_cold[q]
      /\ empty_warm'[p] \cup empty_cold'[p] = (empty_warm[p] \cup empty_cold[p]) \cup {s}
      /\ empty_warm'[p] \cap empty_cold'[p] = {}
      /\ empty_cold[p] \subseteq empty_cold'[p]
      /\ decommitted' = [decommitted EXCEPT ![s] = s \in empty_cold'[p]]
      /\ empty_warm' \in [Pools -> SUBSET Slabs]
      /\ empty_cold' \in [Pools -> SUBSET Slabs]
      /\ decommitted' \in [Slabs -> BOOLEAN]
  <2>0. empty_warm[p] \cap empty_cold[p] = {}
    BY Zenon DEF IInv, PoolInv, Lists
  <2>1. CASE KeepWarm(p, s)
    <3>1. empty_warm'[p] = empty_warm[p] \cup {s} /\ empty_cold' = empty_cold
      BY Zenon, <2>1 DEF KeepWarm, IInv, TypeOK
    <3>2. decommitted' = [decommitted EXCEPT ![s] = FALSE]
      BY Zenon, <1>2, <2>1 DEF KeepWarm, IInv, TypeOK
    <3>3. (s \in empty_cold'[p]) = FALSE
      BY <1>2, <3>1
    <3>4. decommitted' = [decommitted EXCEPT ![s] = s \in empty_cold'[p]]
      BY Zenon, <3>2, <3>3
    <3>5. \A q \in Pools : q # p => empty_warm'[q] = empty_warm[q]
      BY Zenon, <2>1 DEF KeepWarm, IInv, TypeOK
    <3>6. empty_warm' \in [Pools -> SUBSET Slabs] /\ decommitted' \in [Slabs -> BOOLEAN]
      BY ZenonT(40), <1>2, <2>1 DEF KeepWarm, IInv, TypeOK
    <3> QED
      BY SMTT(30), <1>2, <2>0, <3>1, <3>4, <3>5, <3>6 DEF IInv, TypeOK
  <2>2. CASE ParkCold(p, s)
    <3>1. empty_cold'[p] = empty_cold[p] \cup {s} /\ empty_warm' = empty_warm
      BY Zenon, <2>2 DEF ParkCold, IInv, TypeOK
    <3>2. decommitted' = [decommitted EXCEPT ![s] = TRUE]
      BY Zenon, <2>2 DEF ParkCold
    <3>3. s \in empty_cold'[p]
      BY Zenon, <3>1
    <3>4. decommitted' = [decommitted EXCEPT ![s] = s \in empty_cold'[p]]
      BY Zenon, <3>2, <3>3
    <3>5. \A q \in Pools : q # p => empty_cold'[q] = empty_cold[q]
      BY Zenon, <2>2 DEF ParkCold, IInv, TypeOK
    <3>6. empty_cold' \in [Pools -> SUBSET Slabs] /\ decommitted' \in [Slabs -> BOOLEAN]
      BY <1>2, <2>2 DEF ParkCold, IInv, TypeOK
    <3> QED
      BY SMTT(30), <1>2, <2>0, <3>1, <3>4, <3>5, <3>6 DEF IInv, TypeOK
  <2> QED
    BY Zenon, <1>19, <2>1, <2>2
<1>8. /\ Lists' /\ Flags'
      /\ partial' \in [Pools -> SUBSET Slabs]
      /\ in_partial' \in [Slabs -> BOOLEAN]
  <2>1. CarvF' = [CarvF EXCEPT ![p] = @ \ {}]
    BY Zenon, <1>0, <1>4
  <2>2. partial[p] \cap {} \subseteq {x[1]}
    BY Zenon
  <2>3. empty_warm'[p] \cup empty_cold'[p] = (empty_warm[p] \cup empty_cold[p] \cup {x[1]}) \ {}
    BY Zenon, <1>7 DEF s
  <2>4. empty_cold[p] \ {} \subseteq empty_cold'[p]
    BY Zenon, <1>7
  <2>5. decommitted' = [decommitted EXCEPT ![x[1]] = x[1] \in empty_cold'[p]]
    BY Zenon, <1>7 DEF s
  <2>6. {} \in SUBSET Slabs
    BY Zenon
  <2> QED
    BY Zenon, <1>7, <2>1, <2>2, <2>3, <2>4, <2>5, <2>6, SlabEmptied
<1>9. LiveSlabs'
  <2> SUFFICES ASSUME NEW q \in Pools, NEW d \in chunks[q]
               PROVE  live_slabs'[d] = Cardinality(Busy(q, d)') /\ live_slabs'[d] # 0
    BY Zenon, <1>1 DEF LiveSlabs
  <2>0. d \in Chunks /\ live_slabs[d] = Cardinality(Busy(q, d)) /\ live_slabs[d] # 0
    BY Zenon DEF IInv, TypeOK, PoolInv, LiveSlabs
  <2>1. CASE d = c
    <3>1. q = p
      BY Zenon, <1>3, <2>1
    <3>2. Busy(p, c)' = Busy(p, c) \ {s[2]}
      BY <1>1, <1>3, <1>7 DEF Busy
    <3>3. Cardinality(Busy(p, c) \ {s[2]}) = live_slabs[c] - 1
      BY Zenon, <1>3, OneLess
    <3>4. live_slabs'[c] = live_slabs[c] - 1 /\ live_slabs[c] - 1 # 0
      BY <1>1, <1>3 DEF IInv, TypeOK
    <3> QED
      BY Zenon, <2>1, <3>1, <3>2, <3>3, <3>4
  <2>2. CASE d # c
    <3>1. Busy(q, d)' = Busy(q, d)
      BY <1>1, <1>3, <1>7, <2>2 DEF Busy
    <3>2. live_slabs'[d] = live_slabs[d]
      BY Zenon, <1>1, <2>0, <2>2 DEF IInv, TypeOK
    <3> QED
      BY Zenon, <2>0, <3>1, <3>2
  <2> QED
    BY Zenon, <2>1, <2>2
<1>10. WarmCounted' /\ warm_count' \in [Pools -> Nat]
  <2>1. CASE warm_count[p] < KeepWarmEmpty /\ KeepWarm(p, s)
    <3>1. IsFiniteSet(empty_warm[p]) /\ warm_count[p] = Cardinality(empty_warm[p])
      BY Zenon DEF IInv, PoolInv, WarmCounted
    <3>2. /\ IsFiniteSet(empty_warm[p] \cup {s})
          /\ Cardinality(empty_warm[p] \cup {s}) = warm_count[p] + 1
      BY Zenon, <1>2, <3>1, FS_AddElement
    <3>3. warm_count[p] + 1 <= KeepWarmEmpty
      BY <2>1, HeapAssumption DEF IInv, TypeOK
    <3> QED
      BY <2>1, <3>2, <3>3 DEF KeepWarm, IInv, TypeOK, PoolInv, WarmCounted
  <2>2. CASE ParkCold(p, s)
    BY Zenon, <2>2 DEF ParkCold, IInv, TypeOK, PoolInv, WarmCounted
  <2> QED
    BY ZenonT(40), <1>19, <2>1, <2>2
<1>11. live_slabs' \in [Chunks -> Nat]
  <2>1. live_slabs[c] - 1 \in Nat
    BY <1>3
  <2> QED
    BY Zenon, <1>1, <1>3, <2>1 DEF IInv, TypeOK
<1>12. PoolTypes'
  BY Zenon, <1>1, <1>5, <1>7, <1>8, <1>10, <1>11 DEF IInv, TypeOK, PoolTypes
<1> QED
  BY Zenon, <1>5, <1>6, <1>8, <1>9, <1>10, <1>12 DEF PoolInv

\* The emptied slab was the last live one of its chunk, which is disposed.
\* Every other carved slab of the chunk is on an empty list, so no slot of the
\* chunk is out.
LEMMA ChunkDisposed ==
  ASSUME IInv, NEW p \in Pools, NEW x, SlotBack(p, x), free_count[x[1]] + 1 = NSlots,
         live_slabs[x[1][1]] = 1, DisposeChunk(p, x[1][1])
  PROVE  PoolInv' /\ PoolTypes'
<1> DEFINE s == x[1]
           c == s[1]
           E == {e \in Slabs : e[1] = c}
<1>0. /\ CarvF \in [Pools -> SUBSET Slabs]
      /\ OutF \in [Pools -> SUBSET Slots]
      /\ E \in SUBSET Slabs
  BY Zenon DEF CarvF, Carved, OutF
<1>1. /\ x \in OutF[p] /\ RefF[p] = {} /\ RefF' = RefF
      /\ OutF' = [OutF EXCEPT ![p] = @ \ {x}]
      /\ live_slabs' = [live_slabs EXCEPT ![c] = @ - 1]
      /\ chunks' = [chunks EXCEPT ![p] = @ \ {c}]
      /\ store' = store \cup {c}
      /\ active' = [active EXCEPT ![p] = IF @ = c THEN NoChunk ELSE @]
      /\ UNCHANGED <<pool, next_free_page, decommitted>>
  BY Zenon DEF SlotBack, ReturnSlot, btm_slab_of, slab_became_free, DisposeChunk, chunk_of
<1>18. /\ empty_warm' = [empty_warm EXCEPT ![p] = @ \ E]
       /\ empty_cold' = [empty_cold EXCEPT ![p] = @ \ E]
       /\ warm_count' = [warm_count EXCEPT ![p] = @ - Cardinality(empty_warm[p] \cap E)]
  <2>1. \A S \in SUBSET Slabs : S \ {e \in S : chunk_of(e) = c} = S \ E
    BY Zenon DEF chunk_of
  <2>2. empty_warm[p] \in SUBSET Slabs /\ empty_cold[p] \in SUBSET Slabs
    BY Zenon DEF IInv, TypeOK
  <2>3. {e \in empty_warm[p] : chunk_of(e) = c} = empty_warm[p] \cap E
    BY Zenon, <2>2 DEF chunk_of
  <2> QED
    BY Zenon, <2>1, <2>2, <2>3 DEF DisposeChunk
<1>2. /\ s \in Slabs /\ s \in CarvF[p] /\ x \in Slots
      /\ \A q \in Pools : s \notin empty_warm[q] \cup empty_cold[q]
      /\ \A q \in Pools : s \in CarvF[q] => q = p
      /\ free_head[s] \in SUBSET Index
      /\ x[2] \in Index /\ x[2] \notin free_head[s]
      /\ free_count[s] = Cardinality(free_head[s])
      /\ decommitted[s] = FALSE
  BY Zenon, <1>1, OutSlab
<1>3. /\ c \in chunks[p] /\ c \in Chunks /\ s = <<c, s[2]>>
      /\ s[2] \in Busy(p, c)
      /\ IsFiniteSet(Busy(p, c))
      /\ Cardinality(Busy(p, c)) = 1
      /\ \A q \in Pools : c \in chunks[q] => q = p
  BY Zenon, <1>2, BusyCounted
<1>20. s \in E
  BY Zenon, <1>2
<1>21. \A e \in Slabs : e \in E <=> e[1] = c
  BY Zenon
<1>22. x[1] = s
  BY Zenon
<1>23. free_count[s] + 1 = NSlots
  BY Zenon
<1> HIDE DEF s, c, E
<1>4. Busy(p, c) = {s[2]}
  <2>1. Cardinality(Busy(p, c) \ {s[2]}) = 0 /\ IsFiniteSet(Busy(p, c) \ {s[2]})
    BY <1>3, FS_RemoveElement
  <2>2. Busy(p, c) \ {s[2]} = {}
    BY Zenon, <2>1, FS_EmptySet
  <2> QED
    BY Zenon, <1>3, <2>2
<1>5. \A e \in CarvF[p] : e \in E /\ e # s => e \in empty_warm[p] \cup empty_cold[p]
  <2> SUFFICES ASSUME NEW e \in CarvF[p], e \in E, e # s
               PROVE  e \in empty_warm[p] \cup empty_cold[p]
    BY Zenon
  <2>1. e = <<c, e[2]>> /\ e[2] \in 1..next_free_page[c]
    BY <1>0, <1>21, Shapes, HeapAssumption DEF CarvF, Carved, chunk_of, IInv, TypeOK
  <2>2. e[2] # s[2]
    BY Zenon, <1>3, <2>1
  <2> QED
    BY Zenon, <1>4, <2>1, <2>2 DEF Busy
<1>6. \A q \in Pools : q # p => CarvF[q] \cap E = {}
  BY Zenon, <1>0, <1>3, <1>21 DEF CarvF, Carved, chunk_of
<1>7. CarvF' = [CarvF EXCEPT ![p] = @ \ E]
  <2>1. Carved(p)' = Carved(p) \ E
    BY Zenon, <1>1, <1>21 DEF Carved, chunk_of, IInv, TypeOK
  <2>2. \A q \in Pools : q # p => Carved(q)' = Carved(q)
    BY Zenon, <1>1 DEF Carved, IInv, TypeOK
  <2> QED
    BY Zenon, <2>1, <2>2 DEF CarvF
<1>8. \A y \in OutF[p] : y[1] = s => y = x
  <2> SUFFICES ASSUME NEW y \in OutF[p], y[1] = s
               PROVE  y = x
    BY Zenon
  <2>1. /\ y \in Slots /\ y[2] \notin free_head[s] /\ y[2] \in Index
        /\ y = <<s, y[2]>> /\ x = <<s, x[2]>>
    BY Zenon, <1>0, <1>2, <1>22, Shapes DEF IInv, PoolInv, OutCarved
  <2>2. Cardinality(free_head[s] \cup {x[2]}) = NSlots
    BY <1>2, <1>23, FreeListLength, FS_AddElement
  <2>3. free_head[s] \cup {x[2]} = Index
    BY Zenon, <1>2, <2>2, FreeListLength
  <2> QED
    BY Zenon, <2>1, <2>3
<1>9. \A q \in Pools : \A y \in OutF'[q] : y[1] \in CarvF'[q]
  <2> SUFFICES ASSUME NEW q \in Pools, NEW y \in OutF'[q]
               PROVE  y[1] \in CarvF'[q]
    BY Zenon
  <2>1. CASE q = p
    <3>1. y \in OutF[p] /\ y # x
      BY Zenon, <1>0, <1>1, <2>1
    <3>2. y[1] \in CarvF[p] /\ y[1] # s
      BY Zenon, <1>8, <3>1 DEF IInv, PoolInv, OutCarved
    <3>3. y[1] \notin empty_warm[p] \cup empty_cold[p]
      BY <3>1, EmptySlab
    <3> QED
      BY Zenon, <1>0, <1>5, <1>7, <2>1, <3>2, <3>3
  <2>2. CASE q # p
    BY Zenon, <1>0, <1>1, <1>7, <2>2 DEF IInv, PoolInv, OutCarved
  <2> QED
    BY Zenon, <2>1, <2>2
<1>10. /\ OutCarved' /\ NoneLost' /\ FreeCounted' /\ OutCounted'
       /\ free_head' \in [Slabs -> SUBSET Index]
       /\ free_count' \in [Slabs -> Nat]
       /\ outstanding' \in [Pools -> Nat]
  <2>1. \A q \in Pools : CarvF'[q] \subseteq CarvF[q]
    BY Zenon, <1>0, <1>7
  <2> QED
    BY Zenon, <1>9, <2>1, SlotLinked
<1>11. /\ \A q \in Pools : q # p => empty_warm'[q] = empty_warm[q] /\ empty_cold'[q] = empty_cold[q]
       /\ empty_warm'[p] = empty_warm[p] \ E
       /\ empty_cold'[p] = empty_cold[p] \ E
       /\ empty_warm' \in [Pools -> SUBSET Slabs]
       /\ empty_cold' \in [Pools -> SUBSET Slabs]
  BY Zenon, <1>18 DEF IInv, TypeOK
<1>12. partial[p] \cap E \subseteq {s}
  <2> SUFFICES ASSUME NEW e \in partial[p], e \in E, e # s
               PROVE  FALSE
    BY Zenon
  <2>1. e \in CarvF[p] /\ free_count[e] \in 1..(NSlots - 1)
    BY Zenon, <1>1 DEF IInv, PoolInv, Lists
  <2>2. free_count[e] = NSlots
    BY Zenon, <1>5, <2>1 DEF IInv, PoolInv, Lists
  <2> QED
    BY <2>1, <2>2, HeapAssumption
<1>13. decommitted' = [decommitted EXCEPT ![s] = s \in empty_cold'[p]]
  <2>1. s \notin empty_cold'[p]
    BY Zenon, <1>2, <1>11
  <2> QED
    BY <1>1, <1>2, <2>1 DEF IInv, TypeOK
<1>14. /\ Lists' /\ Flags'
       /\ partial' \in [Pools -> SUBSET Slabs]
       /\ in_partial' \in [Slabs -> BOOLEAN]
  <2>1. empty_warm'[p] \cup empty_cold'[p] = (empty_warm[p] \cup empty_cold[p] \cup {s}) \ E
    BY Zenon, <1>11, <1>20
  <2>2. empty_warm'[p] \cap empty_cold'[p] = {}
    BY Zenon, <1>11 DEF IInv, PoolInv, Lists
  <2>3. empty_cold[p] \ E \subseteq empty_cold'[p]
    BY Zenon, <1>11
  <2> QED
    BY ZenonT(40), <1>0, <1>7, <1>11, <1>12, <1>13, <1>22, <2>1, <2>2, <2>3, SlabEmptied
<1>15. Owned'
  BY <1>1, <1>3, HeapAssumption DEF IInv, TypeOK, PoolInv, Owned
<1>16. LiveSlabs'
  <2> SUFFICES ASSUME NEW q \in Pools, NEW d \in chunks'[q]
               PROVE  live_slabs'[d] = Cardinality(Busy(q, d)') /\ live_slabs'[d] # 0
    BY Zenon DEF LiveSlabs
  <2>1. d \in chunks[q] /\ d # c /\ d \in Chunks
    BY <1>1, <1>3 DEF IInv, TypeOK
  <2>2. live_slabs[d] = Cardinality(Busy(q, d)) /\ live_slabs[d] # 0
    BY Zenon, <2>1 DEF IInv, PoolInv, LiveSlabs
  <2>3. live_slabs'[d] = live_slabs[d]
    BY Zenon, <1>1, <2>1 DEF IInv, TypeOK
  <2>4. Busy(q, d)' = Busy(q, d)
    <3>1. next_free_page[d] \in 0..SlabsPerChunk
      BY Zenon, <2>1 DEF IInv, TypeOK
    <3>2. \A i \in 1..next_free_page[d] : <<d, i>> \in Slabs /\ <<d, i>> \notin E
      BY <1>21, <2>1, <3>1, Shapes, HeapAssumption
    <3>3. \A i \in 1..next_free_page[d] :
            <<d, i>> \in empty_warm'[q] \cup empty_cold'[q] <=>
            <<d, i>> \in empty_warm[q] \cup empty_cold[q]
      BY Zenon, <1>11, <3>2
    <3> QED
      BY Zenon, <1>1, <3>3 DEF Busy
  <2> QED
    BY Zenon, <2>2, <2>3, <2>4
<1>17. WarmCounted' /\ warm_count' \in [Pools -> Nat]
  <2>1. /\ IsFiniteSet(empty_warm[p]) /\ warm_count[p] = Cardinality(empty_warm[p])
        /\ warm_count[p] <= KeepWarmEmpty /\ warm_count[p] \in Nat
    BY Zenon DEF IInv, TypeOK, PoolInv, WarmCounted
  <2>2. /\ IsFiniteSet(empty_warm[p] \ E)
        /\ Cardinality(empty_warm[p] \ E) = warm_count[p] - Cardinality(empty_warm[p] \cap E)
    BY Zenon, <2>1, FS_Difference
  <2>3. IsFiniteSet(empty_warm[p] \cap E)
    BY Zenon, <2>1, FS_Subset
  <2>4. Cardinality(empty_warm[p] \ E) \in Nat /\ Cardinality(empty_warm[p] \cap E) \in Nat
    BY Zenon, <2>2, <2>3, FS_CardinalityType
  <2>5. warm_count[p] - Cardinality(empty_warm[p] \cap E) <= KeepWarmEmpty
    BY <2>1, <2>4, HeapAssumption
  <2>6. warm_count'[p] = warm_count[p] - Cardinality(empty_warm[p] \cap E)
    BY Zenon, <1>18 DEF IInv, TypeOK
  <2>7. \A q \in Pools : q # p => warm_count'[q] = warm_count[q]
    BY Zenon, <1>18 DEF IInv, TypeOK
  <2>8. warm_count' \in [Pools -> Nat]
    BY Zenon, <1>18, <2>2, <2>4 DEF IInv, TypeOK
  <2>9. WarmCounted'
    <3> SUFFICES ASSUME NEW q \in Pools
                 PROVE  /\ IsFiniteSet(empty_warm'[q])
                        /\ warm_count'[q] = Cardinality(empty_warm'[q])
                        /\ warm_count'[q] <= KeepWarmEmpty
      BY Zenon DEF WarmCounted
    <3>1. CASE q = p
      BY Zenon, <1>11, <2>2, <2>5, <2>6, <3>1
    <3>2. CASE q # p
      BY ZenonT(40), <1>11, <2>7, <3>2 DEF IInv, PoolInv, WarmCounted
    <3> QED
      BY Zenon, <3>1, <3>2
  <2> QED
    BY Zenon, <2>8, <2>9
<1>24. live_slabs' \in [Chunks -> Nat] /\ live_slabs'[c] = 0
  BY <1>1, <1>3 DEF s, c, IInv, TypeOK
<1>25. PoolTypes'
  BY Zenon, <1>1, <1>3, <1>10, <1>11, <1>14, <1>17, <1>24 DEF IInv, TypeOK, PoolTypes
<1> QED
  BY Zenon, <1>10, <1>14, <1>15, <1>16, <1>17, <1>25 DEF PoolInv

\* Returning a slot preserves the invariant of the pools, whatever becomes of
\* its slab.
LEMMA SlotBackInv ==
  ASSUME IInv, NEW p \in Pools, NEW x, SlotBack(p, x)
  PROVE  PoolInv' /\ PoolTypes'
<1>1. CASE free_count[x[1]] + 1 # NSlots
  BY Zenon, <1>1, SlabStays
<1>2. CASE free_count[x[1]] + 1 = NSlots
  <2>1. slab_became_free(p, x[1])
    BY Zenon, <1>2 DEF SlotBack, ReturnSlot, btm_slab_of
  <2>2. \/ live_slabs[x[1][1]] = 1 /\ DisposeChunk(p, x[1][1])
        \/ /\ live_slabs[x[1][1]] # 1
           /\ \/ warm_count[p] < KeepWarmEmpty /\ KeepWarm(p, x[1])
              \/ ParkCold(p, x[1])
    BY Zenon, <2>1 DEF slab_became_free, chunk_of
  <2> QED
    BY Zenon, <1>2, <2>2, SlabKept, ChunkDisposed
<1> QED
  BY Zenon, <1>1, <1>2

\* One iteration of the loop of btm_pool_flush.  The slot is in no other bin,
\* and no refill works on the pool whose lock the flush holds.
LEMMA FlushStepInv ==
  ASSUME IInv, NEW t \in Threads, FlushStep(t)
  PROVE  IInv'
<1>1. PICK p \in Pools : p = flushing[t]
  BY Zenon DEF FlushStep, IInv, TypeOK
<1>2. /\ lock[p] = t /\ flushing[t] = p /\ p # NoPool
      /\ bin_count' = [bin_count EXCEPT ![t][p] = @ - 1]
      /\ outstanding' = [outstanding EXCEPT ![p] = @ - 1]
      /\ UNCHANGED <<btm_tls, exiting, flushing, refillVars, lock, live>>
  BY Zenon, <1>1, HeapAssumption DEF FlushStep
<1>3. PICK x \in bin_head[t][p] :
        /\ bin_head' = [bin_head EXCEPT ![t][p] = @ \ {x}]
        /\ ReturnSlot(p, x)
  BY Zenon, <1>1 DEF FlushStep
<1> USE DEF refillVars
<1>4. /\ x \in Slots /\ live[x] = NoPool
      /\ \A u \in Threads, q \in Pools : x \in bin_head[u][q] => u = t /\ q = p
  BY <1>3 DEF IInv, TypeOK, ThreadInv, BinsDisjoint
<1>5. RefF[p] = {} /\ RefF' = RefF
  <2>1. \A u \in Threads : refilling[u] # p
    BY ZenonT(40), <1>2, HeapAssumption DEF IInv, ThreadInv, RefillInv
  <2> QED
    BY Zenon, <1>2, <2>1 DEF RefF, InRefill
<1>6. x \in OutF[p]
  BY Zenon, <1>3, <1>4 DEF OutF, Out
<1>7. OutF' = [OutF EXCEPT ![p] = @ \ {x}]
  <2>1. \A u \in Threads, q \in Pools :
          bin_head'[u][q] = IF u = t /\ q = p THEN bin_head[t][p] \ {x} ELSE bin_head[u][q]
    BY Zenon, <1>3 DEF IInv, TypeOK
  <2>2. \A y \in Slots : Out(p, y)' <=> Out(p, y) /\ y # x
    <3>1. ~Out(p, x)'
      BY Zenon, <1>2, <1>4, <2>1, HeapAssumption DEF Out
    <3>2. \A y \in Slots : y # x => (Out(p, y)' <=> Out(p, y))
      BY Zenon, <1>2, <2>1 DEF Out
    <3> QED
      BY Zenon, <3>1, <3>2
  <2>3. \A q \in Pools, y \in Slots : q # p => (Out(q, y)' <=> Out(q, y))
    BY <1>2, <2>1 DEF Out
  <2>4. OutF'[p] = OutF[p] \ {x}
    BY Zenon, <2>2 DEF OutF
  <2>5. \A q \in Pools : q # p => OutF'[q] = OutF[q]
    BY Zenon, <2>3 DEF OutF
  <2> QED
    BY Zenon, <2>4, <2>5 DEF OutF
<1>8. PoolInv' /\ PoolTypes'
  BY Zenon, <1>2, <1>3, <1>5, <1>6, <1>7, SlotBackInv DEF SlotBack
<1>9. /\ IsFiniteSet(bin_head[t][p] \ {x})
      /\ Cardinality(bin_head[t][p] \ {x}) = bin_count[t][p] - 1
      /\ bin_count[t][p] - 1 \in Nat
      /\ bin_count[t][p] <= CacheMax + 1
  <2>1. /\ IsFiniteSet(bin_head[t][p]) /\ bin_count[t][p] = Cardinality(bin_head[t][p])
        /\ bin_count[t][p] <= CacheMax + 1
    BY Zenon DEF IInv, ThreadInv, BinsCounted
  <2>2. /\ IsFiniteSet(bin_head[t][p] \ {x})
        /\ Cardinality(bin_head[t][p] \ {x}) = bin_count[t][p] - 1
    BY Zenon, <1>3, <2>1, FS_RemoveElement
  <2> QED
    BY Zenon, <2>1, <2>2, FS_CardinalityType
<1>10. BinsDisjoint'
  BY SMTT(30), <1>2, <1>3 DEF IInv, TypeOK, ThreadInv, BinsDisjoint
<1>11. RefillInv'
  BY SMTT(30), <1>2, <1>3 DEF IInv, TypeOK, ThreadInv, RefillInv
<1>12. BinsCounted'
  BY SMTT(30), <1>2, <1>3, <1>9, HeapAssumption DEF IInv, TypeOK, ThreadInv, BinsCounted
<1>13. TypeOK'
  BY <1>2, <1>3, <1>8, <1>9 DEF IInv, TypeOK, PoolTypes
<1> QED
  BY Zenon, <1>8, <1>10, <1>11, <1>12, <1>13 DEF IInv, ThreadInv

\* btm_pool_free_one, the path without a thread cache.  The lock is free, so no
\* refill works on the pool, and the guard of the decrement always holds.
LEMMA FreeOneInv ==
  ASSUME IInv, NEW t \in Threads, NEW x \in Slots, live[x] # NoPool,
         live' = [live EXCEPT ![x] = NoPool], btm_pool_free_one(t, x)
  PROVE  IInv'
<1>1. PICK p \in Pools : p = pool[SlotChunk(x)] /\ p = live[x] /\ x \in OutF[p]
  BY Zenon, LiveGoesHome DEF IInv
<1>2. /\ lock[p] = NoThread
      /\ ReturnSlot(p, x)
      /\ outstanding' = [outstanding EXCEPT ![p] = IF @ > 0 THEN @ - 1 ELSE @]
      /\ UNCHANGED <<btm_tls, binVars, exiting, flushing, refillVars, lock>>
  BY Zenon, <1>1 DEF btm_pool_free_one
<1> USE DEF binVars, refillVars
<1>3. outstanding' = [outstanding EXCEPT ![p] = @ - 1]
  <2>1. outstanding[p] # 0 /\ outstanding[p] \in Nat
    BY Zenon, <1>1, FS_EmptySet DEF IInv, TypeOK, PoolInv, OutCounted
  <2>2. outstanding[p] > 0
    BY <2>1
  <2> QED
    BY Zenon, <1>2, <2>2
<1>4. \A u \in Threads, q \in Pools : x \notin bin_head[u][q]
  BY Zenon DEF IInv, ThreadInv, BinsDisjoint
<1>5. RefF[p] = {} /\ RefF' = RefF
  <2>1. \A u \in Threads : refilling[u] # p
    BY <1>2, HeapAssumption DEF IInv, ThreadInv, RefillInv
  <2> QED
    BY Zenon, <1>2, <2>1 DEF RefF, InRefill
<1>6. OutF' = [OutF EXCEPT ![p] = @ \ {x}]
  <2>1. \A y \in Slots : live'[y] = IF y = x THEN NoPool ELSE live[y]
    BY Zenon DEF IInv, TypeOK
  <2>2. \A y \in Slots : Out(p, y)' <=> Out(p, y) /\ y # x
    BY Zenon, <1>2, <1>4, <2>1, HeapAssumption DEF Out
  <2>3. \A q \in Pools, y \in Slots : q # p => (Out(q, y)' <=> Out(q, y))
    BY Zenon, <1>1, <1>2, <1>4, <2>1, HeapAssumption DEF Out
  <2>4. OutF'[p] = OutF[p] \ {x}
    BY Zenon, <2>2 DEF OutF
  <2>5. \A q \in Pools : q # p => OutF'[q] = OutF[q]
    BY Zenon, <2>3 DEF OutF
  <2> QED
    BY Zenon, <2>4, <2>5 DEF OutF
<1>7. PoolInv' /\ PoolTypes'
  BY Zenon, <1>1, <1>2, <1>3, <1>5, <1>6, SlotBackInv DEF SlotBack
<1>8. BinsDisjoint'
  BY SMTT(30), <1>2, <1>4 DEF IInv, TypeOK, ThreadInv, BinsDisjoint
<1>9. RefillInv' /\ BinsCounted'
  BY <1>2 DEF IInv, ThreadInv, RefillInv, BinsCounted
<1>10. TypeOK'
  BY Zenon, <1>2, <1>7 DEF IInv, TypeOK, PoolTypes
<1> QED
  BY Zenon, <1>7, <1>8, <1>9, <1>10 DEF IInv, ThreadInv

-----------------------------------------------------------------------------
(* The theorems *)

\* Every step of the heap preserves the inductive invariant.
LEMMA NextInv == IInv /\ [Next]_vars => IInv'
<1> SUFFICES ASSUME IInv, [Next]_vars PROVE IInv'
  BY Zenon
<1>1. CASE UNCHANGED vars
  <2> USE <1>1 DEF vars, binVars, refillVars, poolVars, emptyVars, listVars, chunkVars, slabVars
  <2>1. PoolInv' /\ BinsDisjoint'
    BY Zenon, StillSlots
  <2>2. TypeOK'
    BY Zenon DEF IInv, TypeOK
  <2>3. RefillInv' /\ BinsCounted'
    BY DEF IInv, ThreadInv, RefillInv, BinsCounted
  <2> QED
    BY Zenon, <2>1, <2>2, <2>3 DEF IInv, ThreadInv
<1>2. ASSUME NEW t \in Threads, NEW p \in Pools, btm_malloc_at(t, p)
      PROVE  IInv'
  BY Zenon, <1>2, MallocHitInv, MallocMissInv, MallocNullInv DEF btm_malloc_at
<1>3. ASSUME NEW t \in Threads, NEW x \in Slots, btm_free(t, x)
      PROVE  IInv'
  BY Zenon, <1>3, FreeToBinInv, FreeOneInv DEF btm_free
<1>4. ASSUME NEW t \in Threads, Flush(t)
      PROVE  IInv'
  BY Zenon, <1>4, FlushLockInv, FlushStepInv, FlushUnlockInv DEF Flush
<1> QED
  BY Zenon, <1>1, <1>2, <1>3, <1>4, RefillTakeInv, ExitInv DEF Next

\* The inductive invariant holds in every reachable state.
THEOREM HeapInvariant == Spec => []IInv
BY InitInv, NextInv, PTL DEF Spec

\* The variables of the heap keep their types: in particular no counter goes
\* below zero.
THEOREM HeapTypeCorrect == Spec => []TypeOK
BY HeapInvariant, PTL DEF IInv

\* No slot has two owners.
THEOREM NoSlotHandedOutTwice == Spec => []SlotExclusive
<1>1. IInv => SlotExclusive
  <2> SUFFICES ASSUME IInv PROVE SlotExclusive
    BY Zenon
  <2> SUFFICES ASSUME NEW x \in Slots
               PROVE
      /\ live[x] # NoPool =>
           /\ \A t \in Threads, p \in Pools : x \notin bin_head[t][p]
           /\ x[2] \notin free_head[x[1]]
      /\ \A t \in Threads, p \in Pools :
           x \in bin_head[t][p] =>
             /\ x[2] \notin free_head[x[1]]
             /\ \A u \in Threads, q \in Pools : x \in bin_head[u][q] => u = t /\ q = p
    BY Zenon DEF SlotExclusive, btm_slab_of
  <2>1. \A p \in Pools : Out(p, x) => x[2] \notin free_head[x[1]]
    BY Zenon DEF IInv, PoolInv, OutCarved, OutF
  <2>2. live[x] # NoPool => x[2] \notin free_head[x[1]]
    BY Zenon, <2>1 DEF Out, IInv, TypeOK
  <2>3. \A t \in Threads, p \in Pools : x \in bin_head[t][p] => x[2] \notin free_head[x[1]]
    BY Zenon, <2>1 DEF Out
  <2> QED
    BY <2>2, <2>3 DEF IInv, ThreadInv, BinsDisjoint
<1> QED
  BY <1>1, HeapInvariant, PTL

\* A slot that is in use or cached is backed by memory that its pool owns.
THEOREM NoPagePulledFromUnderASlot == Spec => []OutIsBacked
<1>1. IInv => OutIsBacked
  <2> SUFFICES ASSUME IInv, NEW p \in Pools, NEW x \in Slots, Out(p, x)
               PROVE  /\ pool[x[1][1]] = p
                      /\ x[1] \in Carved(p)
                      /\ x[1][1] \notin store
                      /\ ~decommitted[x[1]]
                      /\ \A q \in Pools : x[1] \notin empty_warm[q] \cup empty_cold[q]
    BY Zenon DEF OutIsBacked, btm_slab_of, chunk_of
  <2>1. x \in OutF[p]
    BY Zenon DEF OutF
  <2>2. x[1] \in CarvF[p] /\ x[1] \in Carved(p) /\ x[1][1] \in chunks[p]
    BY Zenon, <2>1 DEF IInv, PoolInv, OutCarved, CarvF, Carved, chunk_of
  <2>3. pool[x[1][1]] = p /\ x[1][1] \notin store
    BY <2>2 DEF IInv, PoolInv, Owned
  <2>4. \A q \in Pools : x[1] \notin empty_warm[q] \cup empty_cold[q]
    BY ZenonT(40), <2>1, EmptySlab
  <2>5. ~decommitted[x[1]]
    BY Zenon, <2>2, <2>4 DEF IInv, PoolInv, Flags
  <2> QED
    BY Zenon, <2>2, <2>3, <2>4, <2>5
<1> QED
  BY <1>1, HeapInvariant, PTL

\* The partial list and the empty lists hold exactly the slabs they should.
THEOREM EverySlabOnItsList == Spec => []ListsAreExact
<1>1. IInv => ListsAreExact
  BY Zenon DEF IInv, PoolInv, Lists, ListsAreExact, CarvF, RefF
<1> QED
  BY <1>1, HeapInvariant, PTL

\* The counters of the pools, slabs, chunks and bins agree with what they
\* count.
THEOREM EveryCounterIsRight == Spec => []CountersAgree
<1>1. IInv => CountersAgree
  <2> SUFFICES ASSUME IInv PROVE CountersAgree
    OBVIOUS
  <2>1. ASSUME NEW p \in Pools
        PROVE  /\ outstanding[p] = Cardinality({x \in Slots : Out(p, x)})
               /\ warm_count[p] = Cardinality(empty_warm[p])
               /\ warm_count[p] <= KeepWarmEmpty
               /\ \A s \in Carved(p) : free_count[s] = Cardinality(free_head[s])
    BY Zenon DEF IInv, PoolInv, OutCounted, WarmCounted, FreeCounted, OutF, CarvF
  <2>2. \A p \in Pools : \A c \in chunks[p] :
          live_slabs[c] = Cardinality({i \in 1..next_free_page[c] :
                            <<c, i>> \notin empty_warm[p] \cup empty_cold[p]})
    BY Zenon DEF IInv, PoolInv, LiveSlabs, Busy
  <2>3. \A t \in Threads, p \in Pools :
          /\ bin_count[t][p] = Cardinality(bin_head[t][p])
          /\ bin_count[t][p] <= CacheMax + 1
          /\ bin_count[t][p] > CacheMax => flushing[t] = p
    BY Zenon DEF IInv, ThreadInv, BinsCounted
  <2> QED
    BY Zenon, <2>1, <2>2, <2>3 DEF CountersAgree
<1> QED
  BY <1>1, HeapInvariant, PTL

\* A pool that has no slot out and none being refilled owns no chunk.
THEOREM EveryChunkComesBack == Spec => []DrainedPoolOwnsNothing
<1>1. IInv => DrainedPoolOwnsNothing
  <2> SUFFICES ASSUME IInv, NEW p \in Pools, \A x \in Slots : ~Out(p, x), InRefill(p) = {},
                      NEW c \in chunks[p]
               PROVE  FALSE
    BY Zenon DEF DrainedPoolOwnsNothing
  <2>1. c \in Chunks /\ live_slabs[c] = Cardinality(Busy(p, c)) /\ live_slabs[c] # 0
    BY Zenon DEF IInv, TypeOK, PoolInv, LiveSlabs
  <2>2. Busy(p, c) # {}
    BY Zenon, <2>1, FS_EmptySet
  <2>3. PICK i \in 1..next_free_page[c] : <<c, i>> \notin empty_warm[p] \cup empty_cold[p]
    BY Zenon, <2>2 DEF Busy
  <2>4. next_free_page[c] \in 0..SlabsPerChunk
    BY Zenon, <2>1 DEF IInv, TypeOK
  <2>5. i \in 1..SlabsPerChunk /\ i <= next_free_page[c]
    BY <2>4, HeapAssumption
  <2>6. <<c, i>> \in CarvF[p] /\ <<c, i>> \in Slabs
    BY Zenon, <2>1, <2>5, Shapes DEF CarvF, Carved, chunk_of
  <2>7. free_count[<<c, i>>] # NSlots
    BY ZenonT(40), <2>3, <2>6 DEF IInv, PoolInv, Lists, RefF
  <2>8. free_head[<<c, i>>] # Index
    BY <2>6, <2>7, FreeListLength DEF IInv, TypeOK, PoolInv, FreeCounted
  <2>9. PICK k \in Index : k \notin free_head[<<c, i>>]
    BY Zenon, <2>6, <2>8 DEF IInv, TypeOK
  <2>10. <<<<c, i>>, k>> \in OutF[p]
    BY Zenon, <2>6, <2>9 DEF IInv, PoolInv, NoneLost
  <2> QED
    BY Zenon, <2>10 DEF OutF
<1> QED
  BY <1>1, HeapInvariant, PTL

\* The header of a chunk changes only while no slot of the chunk is out.  The
\* one step that writes c->pool takes c from the store, and a slot that is out
\* lies in a chunk that is not in the store.
THEOREM HeaderNeverStale == Spec => HeaderStable
<1> DEFINE Stable == \A c \in Chunks :
             pool'[c] # pool[c] =>
               \A p \in Pools, x \in Slots : SlotChunk(x) = c => ~Out(p, x)
<1>1. IInv /\ [Next]_vars => [Stable]_vars
  <2> SUFFICES ASSUME IInv, Next, NEW c \in Chunks, pool'[c] # pool[c],
                      NEW p \in Pools, NEW x \in Slots, SlotChunk(x) = c, Out(p, x)
               PROVE  FALSE
    BY Zenon
  <2>1. c \in store
    <3>1. PICK t \in Threads :
            \/ \E q \in Pools : btm_malloc_at(t, q)
            \/ \E y \in Slots : btm_free(t, y)
            \/ RefillTake(t)
            \/ Flush(t)
            \/ Exit(t)
      BY Zenon DEF Next
    <3>2. CASE \E q \in Pools : btm_malloc_at(t, q)
      <4>1. PICK q \in Pools : MallocMiss(t, q)
        BY Zenon, <3>2 DEF btm_malloc_at, MallocHit, MallocNull, poolVars, chunkVars
      <4>2. PICK s \in Slabs : RefillPartial(q, s) \/ RefillNew(q, s)
        BY Zenon, <4>1 DEF MallocMiss, RefillLock
      <4>3. CarveFresh(q, s)
        BY Zenon, <4>2
          DEF RefillPartial, RefillNew, btm_slab_new, Recycle, Carve, CarveActive, chunkVars
      <4> QED
        BY Zenon, <4>3 DEF CarveFresh, IInv, TypeOK
    <3>3. CASE \E y \in Slots : btm_free(t, y)
      BY Zenon, <3>3 DEF btm_free, FreeToBin, btm_pool_free_one, ReturnSlot, slab_became_free,
         poolVars, chunkVars
    <3>4. CASE RefillTake(t)
      BY Zenon, <3>4 DEF RefillTake, chunkVars
    <3>5. CASE Flush(t)
      BY Zenon, <3>5 DEF Flush, FlushLock, FlushStep, FlushUnlock, ReturnSlot, slab_became_free,
         poolVars, chunkVars
    <3>6. CASE Exit(t)
      BY Zenon, <3>6 DEF Exit, ExitBegin, ExitBin, ExitEnd, poolVars, chunkVars
    <3> QED
      BY Zenon, <3>1, <3>2, <3>3, <3>4, <3>5, <3>6
  <2>2. x \in OutF[p]
    BY Zenon DEF OutF
  <2>3. c \in chunks[p]
    BY Zenon, <2>2 DEF IInv, PoolInv, OutCarved, CarvF, Carved, SlotChunk, btm_slab_of, chunk_of
  <2> QED
    BY Zenon, <2>1, <2>3 DEF IInv, PoolInv, Owned
<1> QED
  BY <1>1, HeapInvariant, PTL DEF Spec, HeaderStable

\* A slot about to be handed out for pool p, from a slab of p, lies in a chunk
\* where only p has live slots.
LEMMA OnePoolPerChunk ==
  ASSUME IInv, NEW p \in Pools, NEW x \in Slots, x[1] \in CarvF[p],
         NEW y \in Slots, SlotChunk(y) = SlotChunk(x)
  PROVE  live[y] \in {NoPool, p}
<1> SUFFICES ASSUME live[y] # NoPool PROVE live[y] = p
  BY Zenon
<1>1. pool[SlotChunk(y)] = live[y]
  BY Zenon, LiveGoesHome DEF IInv
<1>2. SlotChunk(x) \in chunks[p]
  BY Zenon DEF CarvF, Carved, SlotChunk, btm_slab_of, chunk_of
<1> QED
  BY Zenon, <1>1, <1>2 DEF IInv, PoolInv, Owned

\* A step that hands out a slot of pool p that is not in use is a Malloc of the
\* abstract allocator.
LEMMA HandsOut ==
  ASSUME IInv, NEW p \in Pools, NEW x \in Slots, x[1] \in CarvF[p], live[x] = NoPool,
         live' = [live EXCEPT ![x] = p]
  PROVE  Abstract!Next
<1>1. \A y \in Slots : SlotChunk(y) = SlotChunk(x) => live[y] \in {NoPool, p}
  BY Zenon, OnePoolPerChunk
<1>2. Abstract!Malloc(p, x)
  BY Zenon, <1>1 DEF Abstract!Malloc
<1> QED
  BY Zenon, <1>2 DEF Abstract!Next

\* The heap implements the abstract allocator: every step hands out one slot,
\* takes one back, or changes nothing a caller can see.
THEOREM HeapImplementsAllocator == Spec => AllocatorSpec
<1>1. Init => Abstract!Init
  BY Zenon DEF Init, Abstract!Init
<1>2. IInv /\ [Next]_vars => [Abstract!Next]_live
  <2> SUFFICES ASSUME IInv, Next PROVE Abstract!Next \/ live' = live
    BY Zenon DEF vars
  <2>1. PICK t \in Threads :
          \/ \E q \in Pools : btm_malloc_at(t, q)
          \/ \E y \in Slots : btm_free(t, y)
          \/ RefillTake(t)
          \/ Flush(t)
          \/ Exit(t)
    BY Zenon DEF Next
  <2>2. CASE \E q \in Pools : btm_malloc_at(t, q)
    <3>1. PICK p \in Pools : MallocHit(t, p) \/ MallocMiss(t, p) \/ MallocNull(t, p)
      BY Zenon, <2>2 DEF btm_malloc_at
    <3>2. CASE MallocHit(t, p)
      <4>1. PICK x \in bin_head[t][p] : live' = [live EXCEPT ![x] = p]
        BY Zenon, <3>2 DEF MallocHit
      <4>2. x \in Slots /\ live[x] = NoPool
        BY <4>1 DEF IInv, TypeOK, ThreadInv, BinsDisjoint
      <4>3. x[1] \in CarvF[p]
        <5>1. x \in OutF[p]
          BY Zenon, <4>1, <4>2 DEF OutF, Out
        <5> QED
          BY Zenon, <5>1 DEF IInv, PoolInv, OutCarved
      <4> QED
        BY Zenon, <4>1, <4>2, <4>3, HandsOut
    <3>3. CASE MallocMiss(t, p)
      BY Zenon, <3>3 DEF MallocMiss, RefillLock
    <3>4. CASE MallocNull(t, p)
      BY Zenon, <3>4 DEF MallocNull
    <3> QED
      BY Zenon, <3>1, <3>2, <3>3, <3>4
  <2>3. CASE \E y \in Slots : btm_free(t, y)
    <3>1. PICK x \in Slots : live[x] # NoPool /\ live' = [live EXCEPT ![x] = NoPool]
      BY Zenon, <2>3 DEF btm_free
    <3>2. Abstract!Free(x)
      BY Zenon, <3>1 DEF Abstract!Free
    <3> QED
      BY Zenon, <3>2 DEF Abstract!Next
  <2>4. CASE RefillTake(t)
    <3>1. PICK p \in Pools : p = refilling[t]
      BY Zenon, <2>4 DEF RefillTake, IInv, TypeOK
    <3>2. refilling[t] # NoPool
      BY Zenon, <2>4 DEF RefillTake
    <3>3. PICK s \in slab[t] : \E R \in SUBSET free_head[s] :
            IF R = {} THEN UNCHANGED <<live, binVars>> ELSE HandOut(t, p, s, R)
      BY Zenon, <2>4, <3>1 DEF RefillTake
    <3>4. PICK R \in SUBSET free_head[s] :
            IF R = {} THEN UNCHANGED <<live, binVars>> ELSE HandOut(t, p, s, R)
      BY Zenon, <3>3
    <3>5. CASE R = {}
      BY Zenon, <3>4, <3>5
    <3>6. CASE R # {}
      <4>1. PICK k \in R : live' = [live EXCEPT ![<<s, k>>] = p]
        BY Zenon, <3>4, <3>6 DEF HandOut
      <4>2. s \in Slabs /\ s \in CarvF[p] /\ free_head[s] \in SUBSET Index
        BY Zenon, <3>1, <3>2, RefillSlab
      <4>3. <<s, k>> \in Slots
        BY Zenon, <4>2, Shapes
      <4>4. live[<<s, k>>] = NoPool
        <5> SUFFICES ASSUME live[<<s, k>>] # NoPool PROVE FALSE
          BY Zenon
        <5>1. live[<<s, k>>] \in Pools /\ <<s, k>> \in OutF[live[<<s, k>>]]
          BY Zenon, <4>3, LiveGoesHome DEF IInv
        <5>2. k \notin free_head[s]
          BY Zenon, <5>1 DEF IInv, PoolInv, OutCarved
        <5> QED
          BY Zenon, <5>2
      <4>5. <<s, k>>[1] \in CarvF[p]
        BY Zenon, <4>2
      <4> QED
        BY Zenon, <4>1, <4>3, <4>4, <4>5, HandsOut
    <3> QED
      BY Zenon, <3>5, <3>6
  <2>5. CASE Flush(t)
    BY Zenon, <2>5 DEF Flush, FlushLock, FlushStep, FlushUnlock
  <2>6. CASE Exit(t)
    BY Zenon, <2>6 DEF Exit, ExitBegin, ExitBin, ExitEnd
  <2> QED
    BY Zenon, <2>1, <2>2, <2>3, <2>4, <2>5, <2>6
<1> QED
  BY <1>1, <1>2, HeapInvariant, PTL DEF Spec, AllocatorSpec, Abstract!Spec

-----------------------------------------------------------------------------
(* The pools and the chunk store *)

\* The pool that has a chunk: the header's, unless the store has the chunk and
\* the header is only what the last owner left.
HeldBy == [c \in Chunks |-> IF c \in store THEN NoPool ELSE pool[c]]

Client == INSTANCE ChunkSupply WITH pool <- HeldBy

ClientSpec == Client!Spec

\* A chunk that the store does not have is on the list of the pool its header
\* names: none is lost between btm_chunk_obtain and btm_chunk_dispose.
NoChunkLost == \A c \in Chunks \ store : pool[c] \in Pools /\ c \in chunks[pool[c]]

\* Pool p obtains the chunk c.
Obtains(p, c) ==
  /\ c \in store
  /\ store' = store \ {c}
  /\ pool' = [pool EXCEPT ![c] = p]
  /\ chunks' = [chunks EXCEPT ![p] = @ \cup {c}]

\* Pool p disposes of its chunk c.
Disposes(p, c) ==
  /\ c \in chunks[p]
  /\ store' = store \cup {c}
  /\ pool' = pool
  /\ chunks' = [chunks EXCEPT ![p] = @ \ {c}]

\* A step moves at most one chunk.
ChunkMove ==
  \/ store' = store /\ pool' = pool /\ chunks' = chunks
  \/ \E p \in Pools, c \in Chunks : Obtains(p, c) \/ Disposes(p, c)

\* Returning a slot that is out moves at most the chunk it lies in.
LEMMA ReturnMoves ==
  ASSUME IInv, NEW p \in Pools, NEW x \in OutF[p], ReturnSlot(p, x)
  PROVE  ChunkMove
<1>1. PICK c : c = chunk_of(btm_slab_of(x))
  BY Zenon
<1>2. c \in chunks[p] /\ c \in Chunks
  BY Zenon, <1>1
    DEF IInv, TypeOK, PoolInv, OutCarved, CarvF, Carved, btm_slab_of, chunk_of
<1>3. CASE slab_became_free(p, btm_slab_of(x))
  <2>1. pool' = pool
    BY Zenon, <1>3 DEF slab_became_free
  <2>2. \/ store' = store /\ chunks' = chunks
        \/ store' = store \cup {c} /\ chunks' = [chunks EXCEPT ![p] = @ \ {c}]
    BY Zenon, <1>1, <1>3 DEF slab_became_free, DisposeChunk, KeepWarm, ParkCold
  <2> QED
    BY Zenon, <1>2, <2>1, <2>2 DEF ChunkMove, Disposes
<1>4. CASE UNCHANGED chunkVars
  BY Zenon, <1>4 DEF chunkVars, ChunkMove
<1> QED
  BY Zenon, <1>3, <1>4 DEF ReturnSlot

\* Every step of the heap moves at most one chunk, and only the way the store's
\* functions move it.
LEMMA ChunksMoveSingly ==
  ASSUME IInv, Next
  PROVE  ChunkMove
<1>1. PICK t \in Threads :
        \/ \E q \in Pools : btm_malloc_at(t, q)
        \/ \E y \in Slots : btm_free(t, y)
        \/ RefillTake(t)
        \/ Flush(t)
        \/ Exit(t)
  BY Zenon DEF Next
<1>2. CASE \E q \in Pools : btm_malloc_at(t, q)
  <2>1. PICK q \in Pools : MallocHit(t, q) \/ MallocMiss(t, q) \/ MallocNull(t, q)
    BY Zenon, <1>2 DEF btm_malloc_at
  <2>2. CASE MallocHit(t, q) \/ MallocNull(t, q)
    BY Zenon, <2>2 DEF MallocHit, MallocNull, poolVars, chunkVars, ChunkMove
  <2>3. CASE MallocMiss(t, q)
    <3>1. PICK s \in Slabs : RefillPartial(q, s) \/ RefillNew(q, s)
      BY Zenon, <2>3 DEF MallocMiss, RefillLock
    <3>2. CASE CarveFresh(q, s)
      <4>1. store \subseteq Chunks
        BY Zenon DEF IInv, TypeOK
      <4> QED
        BY Zenon, <3>2, <4>1 DEF CarveFresh, ChunkMove, Obtains
    <3>3. CASE store' = store /\ pool' = pool /\ chunks' = chunks
      BY Zenon, <3>3 DEF ChunkMove
    <3> QED
      BY Zenon, <3>1, <3>2, <3>3
        DEF RefillPartial, RefillNew, btm_slab_new, Recycle, Carve, CarveActive, chunkVars
  <2> QED
    BY Zenon, <2>1, <2>2, <2>3
<1>3. CASE \E y \in Slots : btm_free(t, y)
  <2>1. PICK x \in Slots : live[x] # NoPool /\ (FreeToBin(t, x) \/ btm_pool_free_one(t, x))
    BY Zenon, <1>3 DEF btm_free
  <2>2. CASE FreeToBin(t, x)
    BY Zenon, <2>2 DEF FreeToBin, poolVars, chunkVars, ChunkMove
  <2>3. CASE btm_pool_free_one(t, x)
    <3>1. PICK p : p = pool[SlotChunk(x)]
      BY Zenon
    <3>2. p \in Pools /\ x \in OutF[p]
      BY Zenon, <2>1, <3>1, LiveGoesHome DEF IInv
    <3> QED
      BY Zenon, <2>3, <3>1, <3>2, ReturnMoves DEF btm_pool_free_one
  <2> QED
    BY Zenon, <2>1, <2>2, <2>3
<1>4. CASE RefillTake(t)
  BY Zenon, <1>4 DEF RefillTake, chunkVars, ChunkMove
<1>5. CASE Flush(t)
  <2>1. CASE FlushLock(t) \/ FlushUnlock(t)
    BY Zenon, <2>1 DEF FlushLock, FlushUnlock, poolVars, chunkVars, ChunkMove
  <2>2. CASE FlushStep(t)
    <3>1. PICK p : p = flushing[t]
      BY Zenon
    <3>2. p \in Pools
      BY Zenon, <2>2, <3>1 DEF FlushStep, IInv, TypeOK
    <3>3. PICK x \in bin_head[t][p] : ReturnSlot(p, x)
      BY Zenon, <2>2, <3>1 DEF FlushStep
    <3>4. x \in OutF[p]
      <4>1. x \in Slots
        BY <3>2, <3>3 DEF IInv, TypeOK
      <4> QED
        BY Zenon, <3>2, <3>3, <4>1 DEF OutF, Out
    <3> QED
      BY Zenon, <3>2, <3>3, <3>4, ReturnMoves
  <2> QED
    BY Zenon, <1>5, <2>1, <2>2 DEF Flush
<1>6. CASE Exit(t)
  BY Zenon, <1>6 DEF Exit, ExitBegin, ExitBin, ExitEnd, poolVars, chunkVars, ChunkMove
<1> QED
  BY Zenon, <1>1, <1>2, <1>3, <1>4, <1>5, <1>6

\* The heap loses no chunk: what btm_chunk_obtain gave a pool stays on that
\* pool's list, under its name, until slab_became_free gives it back.
THEOREM ChunksNeverLost == Spec => []NoChunkLost
<1>1. Init => NoChunkLost
  BY Zenon DEF Init, NoChunkLost
<1>2. IInv /\ NoChunkLost /\ [Next]_vars => NoChunkLost'
  <2> SUFFICES ASSUME IInv, NoChunkLost, [Next]_vars, NEW c \in Chunks, c \notin store'
               PROVE  pool'[c] \in Pools /\ c \in chunks'[pool'[c]]
    BY Zenon DEF NoChunkLost
  <2>1. ChunkMove
    BY Zenon, ChunksMoveSingly DEF ChunkMove, vars, poolVars, chunkVars
  <2>2. chunks \in [Pools -> SUBSET Chunks] /\ pool \in [Chunks -> Pools \cup {NoPool}]
    BY Zenon DEF IInv, TypeOK
  <2>3. CASE store' = store /\ pool' = pool /\ chunks' = chunks
    BY Zenon, <2>3 DEF NoChunkLost
  <2>4. ASSUME NEW p \in Pools, NEW d \in Chunks, Obtains(p, d)
        PROVE  pool'[c] \in Pools /\ c \in chunks'[pool'[c]]
    <3>1. CASE c = d
      BY Zenon, <2>2, <2>4, <3>1 DEF Obtains
    <3>2. CASE c # d
      <4>1. pool'[c] = pool[c] /\ c \notin store
        BY Zenon, <2>2, <2>4, <3>2 DEF Obtains
      <4>2. pool[c] \in Pools /\ c \in chunks[pool[c]]
        BY Zenon, <4>1 DEF NoChunkLost
      <4> QED
        BY Zenon, <2>2, <2>4, <4>1, <4>2 DEF Obtains
    <3> QED
      BY Zenon, <3>1, <3>2
  <2>5. ASSUME NEW p \in Pools, NEW d \in Chunks, Disposes(p, d)
        PROVE  pool'[c] \in Pools /\ c \in chunks'[pool'[c]]
    <3>1. c # d /\ c \notin store /\ pool'[c] = pool[c]
      BY Zenon, <2>5 DEF Disposes
    <3>2. pool[c] \in Pools /\ c \in chunks[pool[c]]
      BY Zenon, <3>1 DEF NoChunkLost
    <3> QED
      BY Zenon, <2>2, <2>5, <3>1, <3>2 DEF Disposes
  <2> QED
    BY Zenon, <2>1, <2>3, <2>4, <2>5 DEF ChunkMove
<1> QED
  BY <1>1, <1>2, HeapInvariant, PTL DEF Spec

\* The pools use the chunk store the way background.c expects: they obtain only
\* chunks that no pool has, and dispose, once, of a chunk they have.  It is the
\* specification that background.c is shown to implement (ChunkStore), seen from
\* the other side.
THEOREM HeapIsAStoreClient == Spec => ClientSpec
<1>1. Init => Client!Init
  BY Zenon DEF Init, Client!Init, HeldBy
<1>2. IInv /\ [Next]_vars => [Client!Next]_HeldBy
  <2> SUFFICES ASSUME IInv, [Next]_vars PROVE Client!Next \/ HeldBy' = HeldBy
    BY Zenon
  <2>1. ChunkMove
    BY Zenon, ChunksMoveSingly DEF ChunkMove, vars, poolVars, chunkVars
  <2>2. pool \in [Chunks -> Pools \cup {NoPool}] /\ NoPool \notin Pools
    BY Zenon, HeapAssumption DEF IInv, TypeOK
  <2>3. CASE store' = store /\ pool' = pool /\ chunks' = chunks
    BY Zenon, <2>3 DEF HeldBy
  <2>4. ASSUME NEW p \in Pools, NEW c \in Chunks, Obtains(p, c)
        PROVE  Client!Next
    <3>1. HeldBy[c] = NoPool
      BY Zenon, <2>4 DEF Obtains, HeldBy
    <3>2. HeldBy' = [HeldBy EXCEPT ![c] = p]
      BY Zenon, <2>2, <2>4 DEF Obtains, HeldBy
    <3> QED
      BY Zenon, <3>1, <3>2 DEF Client!Next, Client!Obtain
  <2>5. ASSUME NEW p \in Pools, NEW c \in Chunks, Disposes(p, c)
        PROVE  Client!Next
    <3>1. pool[c] = p /\ c \notin store
      BY Zenon, <2>5 DEF Disposes, IInv, PoolInv, Owned
    <3>2. HeldBy[c] # NoPool
      BY Zenon, <2>2, <3>1 DEF HeldBy
    <3>3. HeldBy' = [HeldBy EXCEPT ![c] = NoPool]
      BY Zenon, <2>2, <2>5 DEF Disposes, HeldBy
    <3> QED
      BY Zenon, <3>2, <3>3 DEF Client!Next, Client!Dispose
  <2> QED
    BY Zenon, <2>1, <2>3, <2>4, <2>5 DEF ChunkMove
<1> QED
  BY <1>1, <1>2, HeapInvariant, PTL DEF Spec, ClientSpec, Client!Spec

-----------------------------------------------------------------------------
(* The critical sections are bounded *)

\* What a thread works with inside btm_pool_refill and btm_pool_flush.
Own(t) == <<btm_tls[t], bin_head[t], bin_count[t], flushing[t], refilling[t], slab[t]>>

\* The holder of a pool's lock is refilling from that pool and has found its
\* slab, or is flushing to it.
HolderInside ==
  \A p \in Pools, t \in Threads :
    lock[p] = t => (refilling[t] = p /\ slab[t] # {}) \/ flushing[t] = p

\* While a thread holds a pool's lock every step, of any thread, releases that
\* lock, takes a slot from the holder's bin, or leaves what the holder works with
\* alone.  Nobody takes the lock from it.
HolderAdvances ==
  [][\A p \in Pools, t \in Threads : lock[p] = t =>
       \/ lock'[p] = NoThread
       \/ lock'[p] = t /\ bin_count'[t][p] < bin_count[t][p]
       \/ lock'[p] = t /\ Own(t)' = Own(t)]_vars

\* A thread that runs application code holds no pool's lock.
LEMMA RunnerHoldsNothing ==
  ASSUME IInv, HolderInside, NEW u \in Threads, Running(u), NEW p \in Pools
  PROVE  lock[p] # u
  BY Zenon, HeapAssumption DEF HolderInside, Running

\* The threads' variables are functions on the threads.
LEMMA OwnTypes ==
  ASSUME IInv
  PROVE  /\ btm_tls \in [Threads -> BOOLEAN]
         /\ bin_head \in [Threads -> [Pools -> SUBSET Slots]]
         /\ bin_count \in [Threads -> [Pools -> Nat]]
         /\ flushing \in [Threads -> Pools \cup {NoPool}]
         /\ refilling \in [Threads -> Pools \cup {NoPool}]
         /\ slab \in [Threads -> SUBSET Slabs]
         /\ lock \in [Pools -> Threads \cup {NoThread}]
         /\ NoThread \notin Threads /\ NoPool \notin Pools
  BY Zenon, HeapAssumption DEF IInv, TypeOK

\* A step of thread u changes nothing of the others, and frees or takes only a
\* lock that it holds or that is free.
LEMMA StepIsLocal ==
  ASSUME IInv, HolderInside, NEW u \in Threads,
         \/ \E q \in Pools : btm_malloc_at(u, q)
         \/ \E y \in Slots : btm_free(u, y)
         \/ RefillTake(u)
         \/ Flush(u)
         \/ Exit(u)
  PROVE  /\ \A t \in Threads : t = u \/ Own(t)' = Own(t)
         /\ \A p \in Pools : lock[p] \in {u, NoThread} \/ lock'[p] = lock[p]
         /\ \A p \in Pools : lock'[p] \in {u, NoThread} \/ lock'[p] = lock[p]
<1>0. /\ btm_tls \in [Threads -> BOOLEAN]
      /\ bin_head \in [Threads -> [Pools -> SUBSET Slots]]
      /\ bin_count \in [Threads -> [Pools -> Nat]]
      /\ flushing \in [Threads -> Pools \cup {NoPool}]
      /\ refilling \in [Threads -> Pools \cup {NoPool}]
      /\ slab \in [Threads -> SUBSET Slabs]
      /\ lock \in [Pools -> Threads \cup {NoThread}]
  BY Zenon, OwnTypes
<1>1. CASE \E q \in Pools : btm_malloc_at(u, q)
  <2>1. PICK q \in Pools : btm_malloc_at(u, q)
    BY Zenon, <1>1
  <2>2. CASE MallocHit(u, q)
    BY Zenon, <1>0, <2>1, <2>2 DEF btm_malloc_at, MallocHit, refillVars, Own
  <2>3. CASE MallocMiss(u, q)
    BY Zenon, <1>0, <2>1, <2>3 DEF btm_malloc_at, MallocMiss, RefillLock, binVars, Own
  <2>4. CASE MallocNull(u, q)
    BY Zenon, <1>0, <2>1, <2>4 DEF btm_malloc_at, MallocNull, binVars, refillVars, Own
  <2> QED
    BY Zenon, <2>1, <2>2, <2>3, <2>4 DEF btm_malloc_at
<1>2. CASE \E y \in Slots : btm_free(u, y)
  BY Zenon, <1>0, <1>2 DEF btm_free, FreeToBin, btm_pool_free_one, refillVars, binVars, Own
<1>3. CASE RefillTake(u)
  <2>1. PICK q : q = refilling[u]
    BY Zenon
  <2>2. q \in Pools /\ lock[q] = u
    <3>1. q # NoPool
      BY Zenon, <1>3, <2>1 DEF RefillTake
    <3>2. q \in Pools
      BY Zenon, <1>0, <2>1, <3>1
    <3> QED
      BY Zenon, <2>1, <3>1, <3>2 DEF IInv, ThreadInv, RefillInv
  <2>3. \A t \in Threads : t = u \/ (bin_head'[t] = bin_head[t] /\ bin_count'[t] = bin_count[t])
    BY Zenon, <1>0, <1>3, <2>1 DEF RefillTake, HandOut, binVars
  <2>4. /\ btm_tls' = btm_tls /\ flushing' = flushing
        /\ refilling' = [refilling EXCEPT ![u] = NoPool] /\ slab' = [slab EXCEPT ![u] = {}]
        /\ lock' = [lock EXCEPT ![q] = NoThread]
    BY Zenon, <1>3, <2>1 DEF RefillTake
  <2> QED
    BY Zenon, <1>0, <2>2, <2>3, <2>4 DEF Own
<1>4. CASE Flush(u)
  <2>1. CASE FlushLock(u)
    BY Zenon, <1>0, <2>1 DEF FlushLock, binVars, refillVars, Own
  <2>2. CASE FlushStep(u)
    BY Zenon, <1>0, <2>2 DEF FlushStep, refillVars, Own
  <2>3. CASE FlushUnlock(u)
    BY Zenon, <1>0, <2>3 DEF FlushUnlock, binVars, refillVars, Own
  <2> QED
    BY Zenon, <1>4, <2>1, <2>2, <2>3 DEF Flush
<1>5. CASE Exit(u)
  BY Zenon, <1>0, <1>5 DEF Exit, ExitBegin, ExitBin, ExitEnd, binVars, refillVars, Own
<1> QED
  BY Zenon, <1>1, <1>2, <1>3, <1>4, <1>5

\* The holder's own step releases the lock or takes a slot from its bin.
LEMMA HolderStep ==
  ASSUME IInv, HolderInside, NEW u \in Threads, NEW p \in Pools, lock[p] = u,
         \/ \E q \in Pools : btm_malloc_at(u, q)
         \/ \E y \in Slots : btm_free(u, y)
         \/ RefillTake(u)
         \/ Flush(u)
         \/ Exit(u)
  PROVE  \/ lock'[p] = NoThread
         \/ /\ lock'[p] = u /\ bin_count'[u][p] < bin_count[u][p]
            /\ flushing[u] = p /\ flushing' = flushing
<1>1. /\ bin_count \in [Threads -> [Pools -> Nat]]
      /\ lock \in [Pools -> Threads \cup {NoThread}]
      /\ NoThread \notin Threads /\ NoPool \notin Pools
  BY Zenon, OwnTypes
<1>2. ~Running(u)
  BY Zenon, RunnerHoldsNothing
<1>3. ~Exit(u)
  <2>1. CASE flushing[u] = p
    BY Zenon, <1>1, <1>2, <2>1 DEF Exit, ExitBegin, ExitBin, ExitEnd
  <2>2. CASE refilling[u] = p
    <3>1. u \notin exiting
      <4>1. refilling[u] # NoPool
        BY Zenon, <1>1, <2>2
      <4> QED
        BY Zenon, <4>1 DEF IInv, ThreadInv, RefillInv
    <3> QED
      BY Zenon, <1>2, <3>1 DEF Exit, ExitBegin, ExitBin, ExitEnd
  <2> QED
    BY Zenon, <2>1, <2>2 DEF HolderInside
<1>4. CASE RefillTake(u)
  <2>1. refilling[u] # NoPool
    BY Zenon, <1>4 DEF RefillTake
  <2>2. flushing[u] = NoPool
    BY Zenon, <2>1 DEF IInv, ThreadInv, RefillInv
  <2>3. refilling[u] = p
    BY Zenon, <1>1, <2>2 DEF HolderInside
  <2> QED
    BY Zenon, <1>1, <1>4, <2>3 DEF RefillTake
<1>5. CASE Flush(u)
  <2>1. flushing[u] # NoPool
    BY Zenon, <1>5 DEF Flush, FlushLock, FlushStep, FlushUnlock
  <2>2. flushing[u] = p
    BY Zenon, <1>1, <2>1 DEF HolderInside, IInv, ThreadInv, RefillInv
  <2>3. CASE FlushLock(u)
    BY Zenon, <1>1, <2>2, <2>3 DEF FlushLock
  <2>4. CASE FlushUnlock(u)
    BY Zenon, <1>1, <2>2, <2>4 DEF FlushUnlock
  <2>5. CASE FlushStep(u)
    <3>1. bin_count' = [bin_count EXCEPT ![u][p] = @ - 1] /\ lock' = lock /\ flushing' = flushing
      BY Zenon, <2>2, <2>5 DEF FlushStep
    <3>2. bin_count'[u][p] = bin_count[u][p] - 1 /\ bin_count[u][p] \in Nat
      BY ZenonT(40), <1>1, <3>1
    <3>3. bin_count'[u][p] < bin_count[u][p]
      BY <3>2
    <3> QED
      BY Zenon, <2>2, <3>1, <3>3
  <2> QED
    BY Zenon, <1>5, <2>3, <2>4, <2>5 DEF Flush
<1> QED
  BY Zenon, <1>2, <1>3, <1>4, <1>5 DEF btm_malloc_at, btm_free

\* Whoever takes a lock is inside a refill that has its slab, or inside a flush.
LEMMA TakerInside ==
  ASSUME IInv, NEW u \in Threads, NEW p \in Pools, lock[p] = NoThread, lock'[p] = u,
         \/ \E q \in Pools : btm_malloc_at(u, q)
         \/ \E y \in Slots : btm_free(u, y)
         \/ RefillTake(u)
         \/ Flush(u)
         \/ Exit(u)
  PROVE  (refilling'[u] = p /\ slab'[u] # {}) \/ flushing'[u] = p
<1>1. /\ refilling \in [Threads -> Pools \cup {NoPool}]
      /\ flushing \in [Threads -> Pools \cup {NoPool}]
      /\ slab \in [Threads -> SUBSET Slabs]
      /\ lock \in [Pools -> Threads \cup {NoThread}]
      /\ NoThread \notin Threads
  BY Zenon, OwnTypes
<1>2. lock' # lock
  BY Zenon, <1>1
<1>3. CASE \E q \in Pools : btm_malloc_at(u, q)
  <2>1. PICK q \in Pools : RefillLock(u, q)
    BY Zenon, <1>2, <1>3 DEF btm_malloc_at, MallocHit, MallocMiss, MallocNull
  <2>2. q = p
    BY Zenon, <1>1, <2>1 DEF RefillLock
  <2>3. refilling'[u] = p
    BY Zenon, <1>1, <2>1, <2>2 DEF RefillLock
  <2>4. slab'[u] # {}
    BY ZenonT(40), <1>1, <2>1 DEF RefillLock
  <2> QED
    BY Zenon, <2>3, <2>4
<1>4. CASE RefillTake(u)
  BY Zenon, <1>1, <1>4 DEF RefillTake
<1>5. CASE FlushLock(u)
  <2>1. flushing[u] = p
    BY Zenon, <1>1, <1>5 DEF FlushLock
  <2> QED
    BY Zenon, <1>5, <2>1 DEF FlushLock
<1>6. CASE FlushUnlock(u)
  BY Zenon, <1>1, <1>6 DEF FlushUnlock
<1> QED
  BY Zenon, <1>2, <1>3, <1>4, <1>5, <1>6
    DEF btm_free, FreeToBin, btm_pool_free_one, Flush, FlushStep, Exit, ExitBegin, ExitBin, ExitEnd

\* HolderInside holds in every run.
LEMMA AlwaysHolderInside == Spec => []HolderInside
<1>1. Init => HolderInside
  <2>1. NoThread \notin Threads
    BY HeapAssumption
  <2>2. ASSUME Init, NEW p \in Pools PROVE lock[p] = NoThread
    BY Zenon, <2>2 DEF Init
  <2> QED
    BY Zenon, <2>1, <2>2 DEF HolderInside
<1>2. IInv /\ HolderInside /\ [Next]_vars => HolderInside'
  <2> SUFFICES ASSUME IInv, HolderInside, Next, NEW p \in Pools, NEW t \in Threads, lock'[p] = t
               PROVE  (refilling'[t] = p /\ slab'[t] # {}) \/ flushing'[t] = p
    <3>1. CASE UNCHANGED vars
      BY Zenon, <3>1 DEF HolderInside, vars, refillVars
    <3> QED
      BY Zenon, <3>1 DEF HolderInside
  <2>1. PICK u \in Threads :
          \/ \E q \in Pools : btm_malloc_at(u, q)
          \/ \E y \in Slots : btm_free(u, y)
          \/ RefillTake(u)
          \/ Flush(u)
          \/ Exit(u)
    BY Zenon DEF Next
  <2>2. NoThread \notin Threads
    BY Zenon, OwnTypes
  <2>3. /\ t = u \/ Own(t)' = Own(t)
        /\ lock[p] \in {u, NoThread} \/ lock'[p] = lock[p]
        /\ lock'[p] \in {u, NoThread} \/ lock'[p] = lock[p]
    BY Zenon, <2>1, StepIsLocal
  <2>4. CASE lock[p] = t
    <3>1. CASE t = u
      <4>1. lock[p] = u /\ lock'[p] # NoThread
        BY Zenon, <2>2, <2>4, <3>1
      <4>2. flushing[u] = p /\ flushing' = flushing
        BY Zenon, <2>1, <4>1, HolderStep
      <4> QED
        BY Zenon, <3>1, <4>2
    <3>2. CASE t # u
      BY Zenon, <2>3, <2>4, <3>2 DEF HolderInside, Own
    <3> QED
      BY Zenon, <3>1, <3>2
  <2>5. CASE lock[p] # t
    <3>1. t = u
      BY Zenon, <2>2, <2>3, <2>5
    <3>2. lock[p] = NoThread
      BY Zenon, <2>3, <2>5, <3>1
    <3> QED
      BY Zenon, <2>1, <3>1, <3>2, TakerInside
  <2> QED
    BY Zenon, <2>4, <2>5
<1> QED
  BY <1>1, <1>2, HeapInvariant, PTL DEF Spec

\* The critical sections of btm_pool_refill and btm_pool_flush are bounded: the
\* holder of a pool's lock keeps it, no step of another thread sets it back, and
\* each of its own steps releases the lock or makes its bin one slot smaller.
\* This is what LockReleased rests on, without its fairness.
THEOREM CriticalSectionsBounded == Spec => HolderAdvances
<1> DEFINE Advances == \A p \in Pools, t \in Threads : lock[p] = t =>
             \/ lock'[p] = NoThread
             \/ lock'[p] = t /\ bin_count'[t][p] < bin_count[t][p]
             \/ lock'[p] = t /\ Own(t)' = Own(t)
<1>1. IInv /\ HolderInside /\ [Next]_vars => [Advances]_vars
  <2> SUFFICES ASSUME IInv, HolderInside, Next, NEW p \in Pools, NEW t \in Threads, lock[p] = t
               PROVE  \/ lock'[p] = NoThread
                      \/ lock'[p] = t /\ bin_count'[t][p] < bin_count[t][p]
                      \/ lock'[p] = t /\ Own(t)' = Own(t)
    BY Zenon
  <2>1. PICK u \in Threads :
          \/ \E q \in Pools : btm_malloc_at(u, q)
          \/ \E y \in Slots : btm_free(u, y)
          \/ RefillTake(u)
          \/ Flush(u)
          \/ Exit(u)
    BY Zenon DEF Next
  <2>2. CASE t = u
    BY Zenon, <2>1, <2>2, HolderStep
  <2>3. CASE t # u
    <3>1. Own(t)' = Own(t) /\ (lock[p] \in {u, NoThread} \/ lock'[p] = lock[p])
      BY Zenon, <2>1, <2>3, StepIsLocal
    <3>2. t # NoThread
      BY Zenon, OwnTypes
    <3> QED
      BY Zenon, <2>3, <3>1, <3>2
  <2> QED
    BY Zenon, <2>2, <2>3
<1> QED
  BY <1>1, AlwaysHolderInside, HeapInvariant, PTL DEF Spec, HolderAdvances
=============================================================================
