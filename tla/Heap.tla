-------------------------------- MODULE Heap --------------------------------
(***************************************************************************)
(* The small-object heap of btmalloc: the slab pools of partition.c, the   *)
(* thread caches of tcache.c and the hot paths of btmalloc.c.              *)
(*                                                                         *)
(* A pool stands for one (partition, size class) pair; partition.c keeps   *)
(* nothing that is shared between two pools except the chunks they obtain  *)
(* from, and dispose to, the chunk store of background.c (module           *)
(* ChunkStore), which appears here as the set `store'.                     *)
(*                                                                         *)
(* Free lists are LIFO chains in the code.  They are sets here, and a pop  *)
(* takes any member: no property depends on the order, and every order the *)
(* code can produce is among the ones the model allows.  The counters that *)
(* the code keeps beside the lists (free_count, count, warm_count,         *)
(* live_slabs, outstanding) are variables of their own, so that a slot     *)
(* linked twice or lost shows as a counter that disagrees with its list.   *)
(*                                                                         *)
(* What a pool does between pthread_mutex_lock and pthread_mutex_unlock is *)
(* seen by nobody else, except through the store, as long as every critical *)
(* section takes the lock.  A refill is two steps under the lock: finding a *)
(* slab (the lock is taken in the same step), and moving slots from it.  A *)
(* flush is one step per returned slot, each of which may dispose a chunk. *)
(***************************************************************************)
EXTENDS Naturals, FiniteSets

CONSTANTS
  Threads,          \* application threads
  Pools,            \* (partition, size class) pairs
  Chunks,           \* 2 MiB chunk addresses
  SlabsPerChunk,    \* slabs that fit in the data pages of one chunk
  NSlots,           \* nslots of a slab
  CacheMax,         \* btm_cache_max: a bin holding more is flushed
  KeepWarmEmpty,    \* BTM_KEEP_WARM_EMPTY
  NoThread, NoPool, NoChunk

ASSUME HeapAssumption ==
  /\ SlabsPerChunk \in Nat \ {0}
  /\ NSlots \in Nat /\ NSlots >= 2
  /\ CacheMax \in Nat /\ CacheMax >= 2
  /\ KeepWarmEmpty \in Nat
  /\ NoThread \notin Threads
  /\ NoPool \notin Pools
  /\ NoChunk \notin Chunks

Slabs == Chunks \X (1..SlabsPerChunk)
Index == 1..NSlots
Slots == Slabs \X Index

chunk_of(s) == s[1]              \* the chunk a slab descriptor lives in
btm_slab_of(x) == x[1]           \* the slab a slot belongs to
SlotChunk(x) == chunk_of(btm_slab_of(x))

VARIABLES
  \* per thread
  btm_tls,          \* the thread has a cache (btm_tls # NULL)
  bin_head,         \* bins[p].free_head: the slots cached for pool p
  bin_count,        \* bins[p].count
  exiting,          \* threads inside btm_tls_destroy
  flushing,         \* the pool whose bin the thread is flushing
  refilling,        \* the pool the thread is refilling a bin from
  slab,             \* the slab found by that refill, as a set: {} is NULL
  \* per pool
  lock, partial, empty_warm, empty_cold, warm_count, chunks, active,
  outstanding,
  \* per chunk header
  pool,             \* c->pool, c->sc and c->part_idx
  next_free_page,   \* slabs carved so far (the bump pointer)
  live_slabs,
  \* per slab descriptor
  free_head, free_count, in_partial, decommitted,
  \* the rest of the system
  store,            \* chunks in the hands of background.c or not mapped
  live              \* the pool a slot was allocated for, while it is in use

binVars    == <<bin_head, bin_count>>
refillVars == <<refilling, slab>>
emptyVars  == <<empty_warm, empty_cold, warm_count>>
listVars   == <<partial, in_partial>>
chunkVars  == <<chunks, active, pool, next_free_page, live_slabs, store>>
slabVars   == <<free_head, free_count, decommitted>>
poolVars   == <<emptyVars, listVars, chunkVars, slabVars, outstanding>>
vars == <<btm_tls, binVars, exiting, flushing, refillVars, lock, poolVars, live>>

Init ==
  /\ btm_tls = [t \in Threads |-> FALSE]
  /\ bin_head = [t \in Threads |-> [p \in Pools |-> {}]]
  /\ bin_count = [t \in Threads |-> [p \in Pools |-> 0]]
  /\ exiting = {}
  /\ flushing = [t \in Threads |-> NoPool]
  /\ refilling = [t \in Threads |-> NoPool]
  /\ slab = [t \in Threads |-> {}]
  /\ lock = [p \in Pools |-> NoThread]
  /\ partial = [p \in Pools |-> {}]
  /\ empty_warm = [p \in Pools |-> {}]
  /\ empty_cold = [p \in Pools |-> {}]
  /\ warm_count = [p \in Pools |-> 0]
  /\ chunks = [p \in Pools |-> {}]
  /\ active = [p \in Pools |-> NoChunk]
  /\ outstanding = [p \in Pools |-> 0]
  /\ pool = [c \in Chunks |-> NoPool]
  /\ next_free_page = [c \in Chunks |-> 0]
  /\ live_slabs = [c \in Chunks |-> 0]
  /\ free_head = [s \in Slabs |-> {}]
  /\ free_count = [s \in Slabs |-> 0]
  /\ in_partial = [s \in Slabs |-> FALSE]
  /\ decommitted = [s \in Slabs |-> FALSE]
  /\ store = Chunks
  /\ live = [x \in Slots |-> NoPool]

-----------------------------------------------------------------------------
(* Helpers *)

MinOf(a, b) == IF a <= b THEN a ELSE b

\* A thread that is running application code.
Running(t) ==
  t \notin exiting /\ flushing[t] = NoPool /\ refilling[t] = NoPool

\* partial_remove of a slab that is not on the list finds prev = next = NULL
\* and so sets pool->partial to NULL: it drops every other slab.
partial_remove(S, s) == IF s \in S THEN S \ {s} ELSE {}

\* The number of slots a flush leaves in the bin.
keep(t) == IF t \in exiting THEN 0 ELSE CacheMax \div 2

\* The number of slots a refill asks for.
want == IF CacheMax \div 2 < 1 THEN 1 ELSE CacheMax \div 2

-----------------------------------------------------------------------------
(* btm_slab_new: recycle an empty slab, or carve one from the active chunk, *)
(* obtaining a chunk when the active one is used up.  Each alternative names *)
(* the slab s it yields.                                                     *)

partial_push(p, s) ==
  /\ partial' = [partial EXCEPT ![p] = @ \cup {s}]
  /\ in_partial' = [in_partial EXCEPT ![s] = TRUE]

\* Every slot of the slab goes on its free list.
slab_format(s) ==
  /\ free_head' = [free_head EXCEPT ![s] = Index]
  /\ free_count' = [free_count EXCEPT ![s] = NSlots]
  /\ decommitted' = [decommitted EXCEPT ![s] = FALSE]

RecycleWarm(p, s) ==
  /\ s \in empty_warm[p]
  /\ empty_warm' = [empty_warm EXCEPT ![p] = @ \ {s}]
  /\ warm_count' = [warm_count EXCEPT ![p] = @ - 1]
  /\ UNCHANGED empty_cold

\* Mutant: warm_count is decremented whichever list the slab came from.
RecycleColdMutant(p, s) ==
  /\ empty_warm[p] = {}
  /\ s \in empty_cold[p]
  /\ empty_cold' = [empty_cold EXCEPT ![p] = @ \ {s}]
  /\ warm_count' = [warm_count EXCEPT ![p] = @ - 1]
  /\ UNCHANGED empty_warm

RecycleCold(p, s) ==
  /\ empty_warm[p] = {}
  /\ s \in empty_cold[p]
  /\ empty_cold' = [empty_cold EXCEPT ![p] = @ \ {s}]
  /\ UNCHANGED <<empty_warm, warm_count>>

Recycle(p, s) ==
  /\ RecycleWarm(p, s) \/ RecycleCold(p, s)
  /\ live_slabs' = [live_slabs EXCEPT ![chunk_of(s)] = @ + 1]
  /\ UNCHANGED <<chunks, active, pool, next_free_page, store>>

HasRoom(p) ==
  active[p] # NoChunk /\ next_free_page[active[p]] + 1 <= SlabsPerChunk

CarveActive(p, s) ==
  /\ HasRoom(p)
  /\ s = <<active[p], next_free_page[active[p]] + 1>>
  /\ next_free_page' = [next_free_page EXCEPT ![active[p]] = @ + 1]
  /\ live_slabs' = [live_slabs EXCEPT ![active[p]] = @ + 1]
  /\ UNCHANGED <<chunks, active, pool, store>>

\* btm_chunk_obtain, which resets the header, the link into pool->chunks, and
\* the first carve from the new chunk.
CarveFresh(p, s) ==
  /\ ~HasRoom(p)
  /\ \E c \in store :
       /\ s = <<c, 1>>
       /\ store' = store \ {c}
       /\ pool' = [pool EXCEPT ![c] = p]
       /\ chunks' = [chunks EXCEPT ![p] = @ \cup {c}]
       /\ active' = [active EXCEPT ![p] = c]
       /\ next_free_page' = [next_free_page EXCEPT ![c] = 1]
       /\ live_slabs' = [live_slabs EXCEPT ![c] = 1]

Carve(p, s) ==
  /\ empty_warm[p] = {} /\ empty_cold[p] = {}
  /\ CarveActive(p, s) \/ CarveFresh(p, s)
  /\ UNCHANGED emptyVars

btm_slab_new(p, s) ==
  /\ Recycle(p, s) \/ Carve(p, s)
  /\ slab_format(s)

-----------------------------------------------------------------------------
(* btm_pool_refill *)

RefillPartial(p, s) ==
  /\ s \in partial[p]
  /\ UNCHANGED <<emptyVars, listVars, chunkVars, slabVars>>

RefillNew(p, s) ==
  /\ partial[p] = {}
  /\ btm_slab_new(p, s)
  /\ partial_push(p, s)

\* Take the lock and find a slab with free slots.
RefillLock(t, p) ==
  /\ lock[p] = NoThread
  /\ lock' = [lock EXCEPT ![p] = t]
  /\ refilling' = [refilling EXCEPT ![t] = p]
  /\ \E s \in Slabs :
       /\ RefillPartial(p, s) \/ RefillNew(p, s)
       /\ slab' = [slab EXCEPT ![t] = {s}]
  /\ UNCHANGED <<binVars, outstanding, live>>

\* Move the slots R of slab s, whose indexes are taken from its free list, to
\* thread t: one is returned to the caller, the others go to its bin.
HandOut(t, p, s, R) ==
  \E k \in R :
    /\ live' = [live EXCEPT ![<<s, k>>] = p]
    /\ bin_head' = [bin_head EXCEPT ![t][p] = @ \cup ({s} \X (R \ {k}))]
    /\ bin_count' = [bin_count EXCEPT ![t][p] = @ + (Cardinality(R) - 1)]

\* Pop up to `want' slots, take the slab off the partial list if it has none
\* left, unlock, and hand the slots out.  With no slot popped NULL is returned.
RefillTake(t) ==
  LET p == refilling[t] IN
  /\ p # NoPool
  /\ \E s \in slab[t] : \E R \in SUBSET free_head[s] :
       LET n == MinOf(want, Cardinality(free_head[s]))
           left == free_count[s] - n
       IN
       /\ Cardinality(R) = n
       /\ free_head' = [free_head EXCEPT ![s] = @ \ R]
       /\ free_count' = [free_count EXCEPT ![s] = left]
       /\ outstanding' = [outstanding EXCEPT ![p] = @ + n]
       /\ IF left = 0
          THEN /\ partial' = [partial EXCEPT ![p] = partial_remove(@, s)]
               /\ in_partial' = [in_partial EXCEPT ![s] = FALSE]
          ELSE UNCHANGED listVars
       /\ IF R = {} THEN UNCHANGED <<live, binVars>> ELSE HandOut(t, p, s, R)
  /\ lock' = [lock EXCEPT ![p] = NoThread]
  /\ refilling' = [refilling EXCEPT ![t] = NoPool]
  /\ slab' = [slab EXCEPT ![t] = {}]
  /\ UNCHANGED <<btm_tls, exiting, flushing, emptyVars, chunkVars, decommitted>>

-----------------------------------------------------------------------------
(* btm_malloc_at, small sizes.  A request that misses its bin continues with *)
(* RefillTake.                                                               *)

MallocHit(t, p) ==
  /\ \E x \in bin_head[t][p] :
       /\ bin_head' = [bin_head EXCEPT ![t][p] = @ \ {x}]
       /\ bin_count' = [bin_count EXCEPT ![t][p] = @ - 1]
       /\ live' = [live EXCEPT ![x] = p]
  /\ UNCHANGED <<refillVars, lock, poolVars>>

MallocMiss(t, p) ==
  /\ bin_head[t][p] = {}
  /\ RefillLock(t, p)

\* The pool has nothing left and btm_chunk_obtain fails: NULL is returned.
MallocNull(t, p) ==
  /\ bin_head[t][p] = {}
  /\ lock[p] = NoThread
  /\ partial[p] = {} /\ empty_warm[p] = {} /\ empty_cold[p] = {}
  /\ ~HasRoom(p)
  /\ UNCHANGED <<binVars, refillVars, lock, poolVars, live>>

btm_malloc_at(t, p) ==
  /\ Running(t)
  /\ MallocHit(t, p) \/ MallocMiss(t, p) \/ MallocNull(t, p)
  /\ btm_tls' = [btm_tls EXCEPT ![t] = TRUE]        \* btm_tls_get
  /\ UNCHANGED <<exiting, flushing>>

-----------------------------------------------------------------------------
(* Returning a slot to its slab *)

\* Mutant: purge_empties_of_chunk leaves warm_count alone.
DisposeChunkMutant(p, c) ==
  LET InC(S) == {e \in S : chunk_of(e) = c} IN
  /\ empty_warm' = [empty_warm EXCEPT ![p] = @ \ InC(@)]
  /\ empty_cold' = [empty_cold EXCEPT ![p] = @ \ InC(@)]
  /\ active' = [active EXCEPT ![p] = IF @ = c THEN NoChunk ELSE @]
  /\ chunks' = [chunks EXCEPT ![p] = @ \ {c}]
  /\ store' = store \cup {c}
  /\ UNCHANGED <<warm_count, decommitted>>

\* The whole chunk is free: drop its slabs from the empty lists, unlink it
\* and hand it to btm_chunk_dispose.
DisposeChunk(p, c) ==
  LET InC(S) == {e \in S : chunk_of(e) = c} IN
  /\ empty_warm' = [empty_warm EXCEPT ![p] = @ \ InC(@)]
  /\ empty_cold' = [empty_cold EXCEPT ![p] = @ \ InC(@)]
  /\ warm_count' = [warm_count EXCEPT ![p] = @ - Cardinality(InC(empty_warm[p]))]
  /\ active' = [active EXCEPT ![p] = IF @ = c THEN NoChunk ELSE @]
  /\ chunks' = [chunks EXCEPT ![p] = @ \ {c}]
  /\ store' = store \cup {c}
  /\ UNCHANGED decommitted

KeepWarm(p, s) ==
  /\ empty_warm' = [empty_warm EXCEPT ![p] = @ \cup {s}]
  /\ warm_count' = [warm_count EXCEPT ![p] = @ + 1]
  /\ UNCHANGED <<empty_cold, active, chunks, store, decommitted>>

ParkCold(p, s) ==
  /\ decommitted' = [decommitted EXCEPT ![s] = TRUE]     \* slab_decommit
  /\ empty_cold' = [empty_cold EXCEPT ![p] = @ \cup {s}]
  /\ UNCHANGED <<empty_warm, warm_count, active, chunks, store>>

\* Mutant: the warm budget is looked at before the whole-chunk case.
slab_became_freeMutant(p, s) ==
  LET c == chunk_of(s) IN
  /\ partial' = [partial EXCEPT ![p] = partial_remove(@, s)]
  /\ in_partial' = [in_partial EXCEPT ![s] = FALSE]
  /\ live_slabs' = [live_slabs EXCEPT ![c] = @ - 1]
  /\ \/ warm_count[p] < KeepWarmEmpty /\ KeepWarm(p, s)
     \/ warm_count[p] >= KeepWarmEmpty /\ live_slabs[c] = 1 /\ DisposeChunk(p, c)
     \/ warm_count[p] >= KeepWarmEmpty /\ live_slabs[c] # 1 /\ ParkCold(p, s)
  /\ UNCHANGED <<pool, next_free_page>>

slab_became_free(p, s) ==
  LET c == chunk_of(s) IN
  /\ partial' = [partial EXCEPT ![p] = partial_remove(@, s)]
  /\ in_partial' = [in_partial EXCEPT ![s] = FALSE]
  /\ live_slabs' = [live_slabs EXCEPT ![c] = @ - 1]
  /\ \/ live_slabs[c] = 1 /\ DisposeChunk(p, c)
     \/ live_slabs[c] # 1 /\ warm_count[p] < KeepWarmEmpty /\ KeepWarm(p, s)
     \/ live_slabs[c] # 1 /\ warm_count[p] >= KeepWarmEmpty /\ ParkCold(p, s)
  /\ UNCHANGED <<pool, next_free_page>>

\* Mutant: a slab that was full is not put back on the partial list.
ReturnSlotNoPush(p, x) ==
  LET s == btm_slab_of(x) IN
  /\ free_head' = [free_head EXCEPT ![s] = @ \cup {x[2]}]
  /\ free_count' = [free_count EXCEPT ![s] = @ + 1]
  /\ IF free_count[s] + 1 = NSlots
     THEN slab_became_free(p, s)
     ELSE UNCHANGED <<listVars, emptyVars, chunkVars, decommitted>>

\* Mutant: a slab counts as fully free one slot too early.
ReturnSlotEarly(p, x) ==
  LET s == btm_slab_of(x) IN
  /\ free_head' = [free_head EXCEPT ![s] = @ \cup {x[2]}]
  /\ free_count' = [free_count EXCEPT ![s] = @ + 1]
  /\ IF free_count[s] + 1 = NSlots - 1
     THEN slab_became_free(p, s)
     ELSE /\ IF in_partial[s] THEN UNCHANGED listVars ELSE partial_push(p, s)
          /\ UNCHANGED <<emptyVars, chunkVars, decommitted>>

ReturnSlot(p, x) ==
  LET s == btm_slab_of(x) IN
  /\ free_head' = [free_head EXCEPT ![s] = @ \cup {x[2]}]
  /\ free_count' = [free_count EXCEPT ![s] = @ + 1]
  /\ IF free_count[s] + 1 = NSlots
     THEN slab_became_free(p, s)
     ELSE /\ IF in_partial[s] THEN UNCHANGED listVars ELSE partial_push(p, s)
          /\ UNCHANGED <<emptyVars, chunkVars, decommitted>>

-----------------------------------------------------------------------------
(* btm_pool_flush: FlushLock, then FlushStep until the bin is small enough, *)
(* then FlushUnlock.                                                        *)

\* Mutant: the lock is not waited for.
FlushLockMutant(t) ==
  LET p == flushing[t] IN
  /\ p # NoPool
  /\ lock' = [lock EXCEPT ![p] = t]
  /\ UNCHANGED <<btm_tls, binVars, exiting, flushing, refillVars, poolVars, live>>

FlushLock(t) ==
  LET p == flushing[t] IN
  /\ p # NoPool
  /\ lock[p] = NoThread
  /\ lock' = [lock EXCEPT ![p] = t]
  /\ UNCHANGED <<btm_tls, binVars, exiting, flushing, refillVars, poolVars, live>>

\* Mutant: the slot is linked into its slab but stays in the bin.
FlushStepMutant(t) ==
  LET p == flushing[t] IN
  /\ p # NoPool
  /\ lock[p] = t
  /\ bin_count[t][p] > keep(t)
  /\ \E x \in bin_head[t][p] : ReturnSlot(p, x)
  /\ bin_count' = [bin_count EXCEPT ![t][p] = @ - 1]
  /\ outstanding' = [outstanding EXCEPT ![p] = @ - 1]
  /\ UNCHANGED <<btm_tls, bin_head, exiting, flushing, refillVars, lock, live>>

\* Mutant: the popped slot is linked back into the bin it came from.
FlushStepSpin(t) ==
  LET p == flushing[t] IN
  /\ p # NoPool
  /\ lock[p] = t
  /\ bin_count[t][p] > keep(t)
  /\ UNCHANGED vars

FlushStep(t) ==
  LET p == flushing[t] IN
  /\ p # NoPool
  /\ lock[p] = t
  /\ bin_count[t][p] > keep(t)
  /\ \E x \in bin_head[t][p] :
       /\ bin_head' = [bin_head EXCEPT ![t][p] = @ \ {x}]
       /\ ReturnSlot(p, x)
  /\ bin_count' = [bin_count EXCEPT ![t][p] = @ - 1]
  /\ outstanding' = [outstanding EXCEPT ![p] = @ - 1]
  /\ UNCHANGED <<btm_tls, exiting, flushing, refillVars, lock, live>>

FlushUnlock(t) ==
  LET p == flushing[t] IN
  /\ p # NoPool
  /\ lock[p] = t
  /\ bin_count[t][p] <= keep(t)
  /\ lock' = [lock EXCEPT ![p] = NoThread]
  /\ flushing' = [flushing EXCEPT ![t] = NoPool]
  /\ UNCHANGED <<btm_tls, binVars, exiting, refillVars, poolVars, live>>

-----------------------------------------------------------------------------
(* btm_free *)

\* The usual path: push the slot on the bin of its home pool, read from the
\* chunk header without a lock; start a flush when the bin is over its cap.
FreeToBin(t, x) ==
  LET p == pool[SlotChunk(x)] IN
  /\ btm_tls' = [btm_tls EXCEPT ![t] = TRUE]        \* btm_tls_get
  /\ bin_head' = [bin_head EXCEPT ![t][p] = @ \cup {x}]
  /\ bin_count' = [bin_count EXCEPT ![t][p] = @ + 1]
  /\ flushing' = [flushing EXCEPT ![t] =
                    IF bin_count[t][p] + 1 > CacheMax THEN p ELSE NoPool]
  /\ UNCHANGED <<exiting, refillVars, lock, poolVars>>

\* btm_tls_get failed: return the slot to its slab directly.
btm_pool_free_one(t, x) ==
  LET p == pool[SlotChunk(x)] IN
  /\ ~btm_tls[t]
  /\ lock[p] = NoThread
  /\ ReturnSlot(p, x)
  /\ outstanding' = [outstanding EXCEPT ![p] = IF @ > 0 THEN @ - 1 ELSE @]
  /\ UNCHANGED <<btm_tls, binVars, exiting, flushing, refillVars, lock>>

btm_free(t, x) ==
  /\ Running(t)
  /\ live[x] # NoPool
  /\ live' = [live EXCEPT ![x] = NoPool]
  /\ FreeToBin(t, x) \/ btm_pool_free_one(t, x)

-----------------------------------------------------------------------------
(* btm_tls_destroy, run when a thread exits: flush every populated bin, then *)
(* unmap the cache.                                                          *)

ExitBegin(t) ==
  /\ Running(t)
  /\ btm_tls[t]
  /\ btm_tls' = [btm_tls EXCEPT ![t] = FALSE]
  /\ exiting' = exiting \cup {t}
  /\ UNCHANGED <<binVars, flushing, refillVars, lock, poolVars, live>>

ExitBin(t) ==
  /\ t \in exiting
  /\ flushing[t] = NoPool
  /\ \E p \in Pools :
       /\ bin_count[t][p] # 0
       /\ flushing' = [flushing EXCEPT ![t] = p]
  /\ UNCHANGED <<btm_tls, binVars, exiting, refillVars, lock, poolVars, live>>

\* munmap of the cache: whatever is still in a bin is gone with it.
ExitEnd(t) ==
  /\ t \in exiting
  /\ flushing[t] = NoPool
  /\ \A p \in Pools : bin_count[t][p] = 0
  /\ exiting' = exiting \ {t}
  /\ bin_head' = [bin_head EXCEPT ![t] = [p \in Pools |-> {}]]
  /\ UNCHANGED <<btm_tls, bin_count, flushing, refillVars, lock, poolVars, live>>

-----------------------------------------------------------------------------
Flush(t) == FlushLock(t) \/ FlushStep(t) \/ FlushUnlock(t)
Exit(t) == ExitBegin(t) \/ ExitBin(t) \/ ExitEnd(t)

Next ==
  \E t \in Threads :
    \/ \E p \in Pools : btm_malloc_at(t, p)
    \/ \E x \in Slots : btm_free(t, x)
    \/ RefillTake(t)
    \/ Flush(t)
    \/ Exit(t)

Spec == Init /\ [][Next]_vars

\* A thread that holds a pool lock is scheduled until it has released it.
Fairness ==
  \A t \in Threads :
    WF_vars(RefillTake(t)) /\ WF_vars(FlushStep(t)) /\ WF_vars(FlushUnlock(t))

FairSpec == Spec /\ Fairness

-----------------------------------------------------------------------------
(* Properties *)

TypeOK ==
  /\ btm_tls \in [Threads -> BOOLEAN]
  /\ bin_head \in [Threads -> [Pools -> SUBSET Slots]]
  /\ bin_count \in [Threads -> [Pools -> Nat]]
  /\ exiting \in SUBSET Threads
  /\ flushing \in [Threads -> Pools \cup {NoPool}]
  /\ refilling \in [Threads -> Pools \cup {NoPool}]
  /\ slab \in [Threads -> SUBSET Slabs]
  /\ lock \in [Pools -> Threads \cup {NoThread}]
  /\ partial \in [Pools -> SUBSET Slabs]
  /\ empty_warm \in [Pools -> SUBSET Slabs]
  /\ empty_cold \in [Pools -> SUBSET Slabs]
  /\ warm_count \in [Pools -> Nat]
  /\ chunks \in [Pools -> SUBSET Chunks]
  /\ active \in [Pools -> Chunks \cup {NoChunk}]
  /\ outstanding \in [Pools -> Nat]
  /\ pool \in [Chunks -> Pools \cup {NoPool}]
  /\ next_free_page \in [Chunks -> 0..SlabsPerChunk]
  /\ live_slabs \in [Chunks -> Nat]
  /\ free_head \in [Slabs -> SUBSET Index]
  /\ free_count \in [Slabs -> Nat]
  /\ in_partial \in [Slabs -> BOOLEAN]
  /\ decommitted \in [Slabs -> BOOLEAN]
  /\ store \in SUBSET Chunks
  /\ live \in [Slots -> Pools \cup {NoPool}]

\* A slot handed out by pool p and not yet back in its slab: in use, or in
\* some thread's bin for p.
Out(p, x) == live[x] = p \/ \E t \in Threads : x \in bin_head[t][p]

\* The slabs carved from the chunks a pool owns.
Carved(p) == {s \in Slabs : /\ chunk_of(s) \in chunks[p]
                            /\ s[2] <= next_free_page[chunk_of(s)]}

\* A slot is in at most one place: in use, in one bin of one thread, or on the
\* free list of its slab.  No interleaving of malloc, cross-thread free, flush,
\* reclaim and thread exit hands a slot to two owners.
SlotExclusive ==
  \A x \in Slots :
    /\ live[x] # NoPool =>
         /\ \A t \in Threads, p \in Pools : x \notin bin_head[t][p]
         /\ x[2] \notin free_head[btm_slab_of(x)]
    /\ \A t \in Threads, p \in Pools :
         x \in bin_head[t][p] =>
           /\ x[2] \notin free_head[btm_slab_of(x)]
           /\ \A u \in Threads, q \in Pools :
                x \in bin_head[u][q] => u = t /\ q = p

\* While a slot is out, its memory is really there: its slab is carved from a
\* chunk that its pool owns, was not decommitted and waits on no empty list,
\* so neither slab_decommit nor btm_chunk_dispose pulled the pages from under
\* it.  The chunk header, which btm_free reads without a lock, names the pool
\* the slot was allocated for, so the slot goes home.
OutIsBacked ==
  \A p \in Pools, x \in Slots :
    Out(p, x) =>
      LET s == btm_slab_of(x) IN
      /\ pool[chunk_of(s)] = p
      /\ s \in Carved(p)
      /\ chunk_of(s) \notin store
      /\ ~decommitted[s]
      /\ \A q \in Pools : s \notin empty_warm[q] \cup empty_cold[q]

\* The slab that a refill in progress has found.
InRefill(p) == UNION {slab[t] : t \in {u \in Threads : refilling[u] = p}}

\* The lists of a pool are what internal.h says of them: partial holds exactly
\* the carved slabs with free_count in (0, nslots), the empty lists exactly the
\* fully free ones; only the slab of a refill in progress is on partial while
\* it may still be full of free slots.  So a refill never misses a slot it could
\* hand out, and never picks a slab that has none.
ListsAreExact ==
  \A p \in Pools :
    /\ partial[p] =
         {s \in Carved(p) : free_count[s] \in 1..(NSlots - 1)} \cup InRefill(p)
    /\ empty_warm[p] \cup empty_cold[p] =
         {s \in Carved(p) : free_count[s] = NSlots} \ InRefill(p)
    /\ empty_warm[p] \cap empty_cold[p] = {}

\* Every counter the code keeps agrees with what it counts, the warm empties
\* stay within their budget, and a bin exceeds its cap only on its way into a
\* flush.
CountersAgree ==
  /\ \A p \in Pools :
       /\ outstanding[p] = Cardinality({x \in Slots : Out(p, x)})
       /\ warm_count[p] = Cardinality(empty_warm[p])
       /\ warm_count[p] <= KeepWarmEmpty
       /\ \A s \in Carved(p) : free_count[s] = Cardinality(free_head[s])
       /\ \A c \in chunks[p] :
            live_slabs[c] = Cardinality({i \in 1..next_free_page[c] :
                              <<c, i>> \notin empty_warm[p] \cup empty_cold[p]})
  /\ \A t \in Threads, p \in Pools :
       /\ bin_count[t][p] = Cardinality(bin_head[t][p])
       /\ bin_count[t][p] <= CacheMax + 1
       /\ bin_count[t][p] > CacheMax => flushing[t] = p

\* A pool with no slot out, and none being refilled, owns no chunk:
\* slab_became_free gives every chunk back with its last slot, whichever order
\* the slots come home in.
DrainedPoolOwnsNothing ==
  \A p \in Pools :
    (\A x \in Slots : ~Out(p, x)) /\ InRefill(p) = {} => chunks[p] = {}

\* The header fields that btm_free reads without a lock change only while no
\* slot of the chunk is in use or cached anywhere, so no thread can act on a
\* stale home pool.
HeaderStable ==
  [][\A c \in Chunks :
       pool'[c] # pool[c] =>
         \A p \in Pools, x \in Slots : SlotChunk(x) = c => ~Out(p, x)]_vars

\* A pool lock is eventually released: the critical sections of
\* btm_pool_refill and btm_pool_flush terminate whatever the other threads do
\* meanwhile.
LockReleased ==
  \A p \in Pools : lock[p] # NoThread ~> lock[p] = NoThread

\* The heap implements the abstract allocator.  In particular a chunk never
\* holds live objects of two pools, although chunks move between pools.
Abstract == INSTANCE Allocator WITH
              Blocks <- Slots, RegionOf <- [x \in Slots |-> SlotChunk(x)]

AllocatorSpec == Abstract!Spec
=============================================================================
