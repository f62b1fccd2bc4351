# A TLA+ model of btmalloc

btmalloc is a thread-caching memory allocator that keeps the objects of
different call sites apart ("partitions") and gives memory back to the system
in 2 MiB chunks. This directory holds TLA+ modules translated from its C
sources, the TLC configurations that check them on small instances, and proofs
that TLAPS checks for every size of the system.

    tlc -config heap.cfg MCHeap            # a run: module and cfg as in PROJECT.json
    tlapm HeapProofs.tla                   # a proof module

`PROJECT.json` maps every definition to the lines it stands for, names the
mutated definition that each property is known to reject, and lists the
hazards of the code with the properties that watch over them.

## The system

| Part | Source | What it does | Module |
| --- | --- | --- | --- |
| Slab pools | `partition.c` | One pool per (partition, size class). Carves chunks into slabs, slabs into slots; partial, warm-empty and cold-empty lists; gives chunks back. | `Heap` |
| Thread caches | `tcache.c` | Per-thread bins of free slots, refilled from and flushed to the pools in batches. | `Heap` |
| Hot paths | `btmalloc.c` | `btm_malloc_at`, `btm_free`: pop from and push on a bin without a lock. | `Heap` |
| Public calls | `btmalloc.c`, `preload.c` | calloc, realloc, aligned allocation, usable size. | `Calls` |
| Large objects | `large.c` | One mapping each; `mremap` on realloc. | `Large`, `Calls` |
| Chunk store | `background.c` | Warm pool of chunks, disposal queue, maintenance thread, io_uring. | `ChunkStore` |
| Registry | `chunk.c`, `internal.h` | Which object owns a pointer: radix tree by 2 MiB region, per-thread region cache with a generation. | `OwnerCache` |
| Size classes | `size_class.c`, `internal.h` | Tables, the lookup, the geometry of a chunk. | `SizeClass` |
| Call-site interning | `btmalloc.c` | Lock-free table from return address to partition. | `Intern` |
| Compaction | `partition.c`, `background.c` | Merges two sparse slabs into one physical run (mesh mode). | `Mesh` |
| Hardening | `internal.h`, `btmalloc.c` | Double-free canary, links in free slots. | `Mesh` |
| Start-up, fork, locks | `btmalloc.c`, `tcache.c`, `background.c` | `pthread_once`, first calls, start of the maintenance thread, child handler. | `Process` |
| Tiering, profile | `partition.c`, `btmalloc.c` | Advice to page out cold slabs; output. | not modelled |

A `malloc` finds its partition (Intern) and size class (SizeClass), pops a slot
from the thread's bin and, when that is empty, refills the bin from the pool
(Heap), which may obtain a chunk (ChunkStore). A `free` resolves the pointer
(OwnerCache), reads the pool from the chunk's header without a lock, and pushes
the slot on the bin of that pool; a bin that is too long is flushed, and a pool
whose chunk has no live slab left disposes of it. Objects above 16 KiB go to Large.
The components meet at three interfaces: Heap sees the chunk store as the set
of chunks that no pool has, which is what ChunkSupply, implemented by
ChunkStore, promises, and Heap is proved to ask no more than ChunkSupply
allows; Calls sees small objects as slots of their class, which is
what Allocator, implemented by Heap, promises; and Process runs the paths of all
of them through their locks.

## Modules

**Allocator** is what the heap promises its callers: a block handed out is not
in use, and its 2 MiB region has live blocks of one pool only.
**Heap** implements it. Its state is that of the code: per thread the bins and
their counts, per pool the lock, the three lists, `warm_count`, `outstanding`
and `active`, per chunk `pool`, `next_free_page`, `live_slabs`, per slab the
free list and `free_count`. Intrusive lists are sets from which a pop takes any
member, with the code's counters beside them, so that a slot linked twice or
lost shows up as a counter that disagrees. A slab is named by its chunk and
number; one unit of `next_free_page` is one slab. `MallocHit` and the free to a
bin are single steps because a bin belongs to its thread. `RefillLock` and
`RefillTake` are `btm_pool_refill`: the slab is found (recycled warm or cold,
or carved, possibly from a new chunk) and then emptied into the bin, both under
the lock. A flush takes the lock, returns one slot per step, each with
everything the code does with it, to the disposal of the chunk (`ReturnSlot`),
and unlocks.

**ChunkSupply** is what `background.c` promises the pools; **ChunkStore**
implements it. One step is one critical section of `bg_lock`, or one call made
without it. `bg_async` is a plain int: while the creating thread is about to
set it, a read may give either value. io_uring requests are carried out by
the kernel in any order after submission. Resident pages are kept for each
chunk, since that is what decommitting is about. The ring may fail to be set up.

**OwnerCache** has one step per access to shared memory: load of the
generation, cache line, registry, clear, bump, unmap. Addresses are reused at
once. Programs are correct: an object is freed once, by one thread, while
nobody else uses it; that is the contract of `free`.

**Intern** interleaves the unlocked loads with the claim under `intern_lock`,
and the stores of id and return address. **SizeClass** has the real tables and
constants but for the width of `size_t`, the constant `SizeT`. It compares the
lookup with a search of the table and carves a chunk for every class. `MCRoute` puts
the two together: how a request is routed to its pool.

**Large** computes sizes in a `size_t` that wraps, with pages of 4 and regions
of 8 units, and lets `mmap` and `mremap` choose any place that is free. A
request whose mapping length itself wraps, to 0 or past the alignment that is
added to it, is not followed; it is the same missing check that `large_wrap` shows.
**Calls** extends it with small objects and has one action per public call. For
every pointer the program holds it keeps the size asked for, how many leading
bytes the program relies on and how many are as it left them; a copy past the
end of an object makes them garbage. A call that returns NULL changes
nothing and has no step.

**Mesh** has the contents of every slot of one pool in mesh mode: released
memory, a free-list link, a link with a canary, or an object. Addresses and
physical runs are apart: `maps[s]` is the run that slab `s`'s addresses show.
`btm_compact` asks for a quiescent heap, so one thread with one bin is enough.
The partial list and the candidates are sets, and so any pairing
can happen that some order of the lists gives; `MaxCand` is the size of the
candidate array (64 in the code). A mapping that fails in `btm_mesh_remap` leaves the donor where it is,
retired all the same.

**Process** has what a thread still has to do as a sequence of steps: take a
lock, release it, call a function. A function is replaced by one of the paths
through its code, as far as locks go. `pthread_create` and
`pthread_setspecific` may allocate, which runs `malloc` inside them. After
`Fork` the model follows the child: one thread, the locks others held taken
for ever unless a handler initialises them again. Mesh mode does not support
fork, so the two exclude one another. After a failed initialisation `malloc`
would use tables that are not there: such a thread has no further step.

`MC*` modules hold only what TLC needs: symmetry sets and constants.

## Runs

| Run | Instance | Shows |
| --- | --- | --- |
| `heap` | 2 threads, 2 pools, 1 chunk of 3 slabs of 2 slots, bins of 2, fair | one owner per slot (`SlotExclusive`), slots out are in committed slabs of their pool (`OutIsBacked`), lists and counters exact (`ListsAreExact`, `CountersAgree`), `btm_free`'s unlocked read is never stale (`HeaderStable`), chunks come back (`DrainedPoolOwnsNothing`), `AllocatorSpec`, `LockReleased` |
| `store` | 2 threads, 2 chunks, low = high = 1, 4 pages, ring of 1, fair | `ChunkInOnePlace`, `RegistryMatchesMappings`, `WarmPoolBounded`, `SyncChunksAreClean`, `HeldPagesKept`, `SupplySpec`, `DisposedComesBack` |
| `route` | 2 threads, 4 colliding sites, 3 slots, 2 partitions, fair; the real size tables, all requests to 16 KiB + 64 | `EntriesUnique`, `PartitionStable`, `FirstSitesApart`, `LookupReturns`; `SmallestFit`, `CarvingRight` |
| `owner_cache` | 2 threads, 2 regions, 1 cache line each, 2 removals | `ResolvedRight`, `RegistryIsMapped` |
| `calls` | 2 classes, 2 large objects, 5 regions, 1 foreign page, moves to region boundaries | no leak or double use (`HeldExactly`), room and alignment as asked (`RequestMet`), `ContentsKept`, `OwnerFound`, `RegistryClean` |
| `mesh` | 3 slabs of 3 slots, bin of 2, 2 candidates, one compaction at any time | `ObjectsKept`, `NoSharedCell`, `LinksKept`, `NoFalseAlarm`, `DoubleFreeSeen` |
| `process` | 2 threads and the maintenance thread, one call each and one more for a thread that forks, fair | `LocksNest`, `TablesBeforeUse`, `OneMaintenanceThread`, `ReentryShallow`, `OrphansKnown`, `CallsReturn` |
| `store_unclean`, `store_interrupt`, `large_moved`, `large_wrap`, `mesh_again` | | violated: see Findings |

*Why the bounds are enough.* In `heap` a slab can be full, partial and empty,
two bins can share it, and the chunk can go from one pool to the other while the
first thread still flushes; three slabs with a warm budget of one give a warm, a
cold and a live slab at once, and the purge of both lists on disposal; a bin of
two slots overflows, is flushed to half, and can hold slots of two slabs. A pool
with two chunks is not in the run; the proofs cover it. In `store` two chunks and marks
of one let the warm pool be empty, full and above the high mark; a ring of one
forces the submission in the middle of the list. The numeric part of
`WarmPoolBounded`, high + low, cannot be passed with two chunks; there the
run shows that `warm_count` is exact, and the proof shows the bound. One cache
line makes all regions collide, two generations make lines stale twice. Three
slots for four sites fill the table. Two classes and two large objects are what
a reallocation between any two kinds of object needs, with one object
in the way; counts of 10 make products wrap. Three slabs of three slots allow a
donor, a recipient and a bystander, with cached and live slots in each. One
call per thread lets every pair of calls overlap; the second call of a thread
differs from the first by its cache, which the re-entrant `malloc` and the
child of a fork have. The proofs make
the bounds irrelevant to the safety properties of all modules. In `route` the
tables are the real ones, and `SizeT` is 2^30, as TLC's integers have 32 bits. Symmetry (of threads, of
slot indexes) is used in safety runs only.

*Deadlock* is checked everywhere except in `process`, where a behaviour ends
when the calls are used up.

*Fairness.* Heap: a thread that holds a pool lock is scheduled (weak fairness
of the steps under the lock); nothing is assumed of who gets a lock, or that
anyone calls. ChunkStore: the maintenance thread, a thread inside a call, the
store to `bg_async` and the kernel make progress; no call, no spurious wakeup
and no thread creation is assumed. Intern: a thread inside the lookup is
scheduled. Process: a thread inside a call is scheduled; nobody is made to call
or to fork. A preemptive scheduler gives all of these.

## Findings

- `store_unclean`: the io_uring path advises `kData` bytes from page 1 instead
  of from `kDataOff`, so the last `BTM_DESC_PAGES` pages of a recycled chunk keep
  their memory (`background.c:208`). Without the ring chunks are clean
  (`SyncChunksAreClean`).
- `store_interrupt`: when `io_uring_wait_cqe` fails, a chunk is recycled
  with its request still in flight, and the request later releases pages of a
  chunk in use (`background.c:214`). `store` takes a wait that does not fail
  (`WaitFails = FALSE`), and so does the theorem about `HeldPagesKept`; the
  other theorems about the store do not.
- `large_moved`: `mremap` may move an object to any page, so that two objects
  share a region of the registry (`large.c:86`). `calls` takes moves to region
  boundaries (`MovesAligned = TRUE`), under which the rest is shown and proved.
- `large_wrap`: `hdr + size` wraps for sizes close to `SIZE_MAX`
  (`large.c:30`). `calls` asks for sizes that do not wrap there.
- `mesh_again`: a second `btm_compact` may take the recipient of the first as a
  donor (`partition.c:353`). Its run is then released although the first donor's
  addresses still show it, and the first donor's objects are lost. `mesh`
  compacts once, under which everything is kept.

Smaller things the models made visible, which no run is devoted to:

- `btmalloc.c:146` expects callers to retry a failed initialisation, but
  `pthread_once` runs it once; `TablesBeforeUse` has this as its exception.
- The child of a fork keeps `registry_lock` and `intern_lock` as they were; when
  another thread held one, the child's next use of it does not return.
  `OrphansKnown` says it is these two only, and `CallsReturn` excepts them.
- A recipient that compaction has filled up stays on the partial list; the next
  refill takes no slot from it, and that allocation returns NULL
  (`partition.c:326`).
- `read_nparts_env` does not end for values of `BTM_PARTITIONS` above 2^31
  (`btmalloc.c:107`).

## Proofs

All theorems hold for any number of threads, pools, chunks and so on that
satisfies the assumption named in the component's module.

### Heap

`HeapAssumption`: a slab has at least two slots and a bin limit is at least 2,
which `ClassFitsHeap`, a part of `CarvingRight`, shows of the real tables. That
slots are atoms, which share no byte and have one slab, is `AlwaysSlotsApart`.

| Theorem (`HeapProofs`) | Statement |
| --- | --- |
| `HeapInvariant` | `Spec => []IInv` |
| `HeapTypeCorrect`, `NoSlotHandedOutTwice`, `NoPagePulledFromUnderASlot`, `EverySlabOnItsList`, `EveryCounterIsRight`, `EveryChunkComesBack` | the invariants of the `heap` run |
| `HeaderNeverStale` | the action property `HeaderStable` |
| `HeapImplementsAllocator` | `Spec => AllocatorSpec` |
| `ChunksNeverLost` | a chunk that is not in the store is on the list of the pool its header names |
| `HeapIsAStoreClient` | `Spec => ClientSpec`: ChunkSupply, as the heap sees it |
| `CriticalSectionsBounded` | the action property `HolderAdvances` |

None of the invariants is inductive alone. `IInv` adds: a chunk on a pool's list
names that pool and is not in the store (`Owned`), which keeps pools apart; a slot of
a carved slab is on the free list or out, never both (`OutCarved`, `NoneLost`);
lists, flags and `live_slabs` are functions of the free counts, except for the
one slab a refill is working on (`Lists`, `Flags`, `LiveSlabs`, `RefillInv`);
bins are disjoint and bounded (`BinsDisjoint`, `BinsCounted`). The central
step is the disposal: `live_slabs = 0` together with `LiveSlabs` says that all
slabs of the chunk are on empty lists, hence all slots on free lists, hence, by
`OutCarved`, none is out. The proof has one lemma per action, over three state
functions (slots out, slabs carved, slabs in a refill), so that an action need only
say how it changes these. `HeapInductive` has the invariant, the short actions
and refill (the search for a slab, the move into the bin), `HeapProofs` flush,
direct free, disposal and the theorems.

The last three theorems rest on `IInv`. `ChunkMove`: a step moves at most one
chunk, out of the store (`CarveFresh`) or, one that is on the pool's list, back
into it (`DisposeChunk`). With `pool` read as "nobody" for the chunks in the
store (`HeldBy`), these are the two steps of ChunkSupply; and ChunkStore's
`StoreImplementsSupply` is the same specification seen from the other side.
`HolderAdvances` is the safety half of `LockReleased`: while a thread has a
pool's lock, each step of its own releases it or shortens the bin, and no other
thread's step touches what it works with. `HolderInside`, which it needs,
says that a holder is inside a refill or a flush of that pool.

### Chunk store

`StoreAssumption`: the set of chunks is finite, `Bg` is no application thread, and
the marks and page numbers are natural numbers. `ChunkStoreProofs` proves
`StoreInvariant`; every invariant of the `store` run
(`StoreChunkInOnePlace`, `StoreRegistryMatchesMappings`, `StoreWarmPoolBounded`,
`StoreSyncChunksAreClean`); that types are kept, that no header page is ever
released and that the maintenance thread does not sleep on a disposal
(`StoreTypes`, `StoreHeaderStaysResident`, `StoreNoDisposalMissed`); the refinement `StoreImplementsSupply` and the action property
`StoreHeldPagesKept`, the last for `~WaitFails`.

`IInv` says of each program counter what its thread has in hand (`PcInv` for the
application's threads, `BgInv` for the maintenance thread), that the places a
chunk can be in are disjoint (`PlaceInv`) and make up what is mapped
(`MappedInv`), which chunks are registered while one is being mapped or
unmapped (`RegInv`), and which pages may be resident on the way to the warm
pool (`CleanInv`). `WarmInv` carries the stale deficit: the room that was
computed under the lock bounds what may still be pushed. `RingInv` ties
requests in flight to the batch that submitted them, so that a chunk that has
left the batch has none, unless a wait failed. There is one lemma per action,
and one per branch where an action has several.

### Interning

`InternAssumption`: fewer partitions than table slots, and any hash.
`RouteProofs` proves `InternInvariant`, `InternTypes`, `InternEntriesUnique`,
`InternPartitionStable`, `InternFirstSitesApart` and `InternLookupBounded`.

The argument is about probe distances. `PathInv`: a lookup has passed only
slots that are taken by other sites. `ChainInv`: all slots from an entry's
bucket to the entry are taken. A second entry for a site would lie at another
distance from the same bucket; the nearer one is on the path of whoever claims
the farther one, against `PathInv`. Slots are never emptied, so once a
lookup has come full circle the table is full without the site and the hash is
its answer for ever; `GivenInv` records which of the two answers a site has
got. `InternFirstSitesApart` also counts: ids are distinct and below
`intern_next`, so that with no more ids than partitions the table, which is
larger, cannot be full. `InternLookupBounded` is the safety half of
`LookupReturns`: `Left`, at most three steps for each slot of the table, gets
smaller with every step of a lookup, no step of another thread changes it, and
whoever has `intern_lock` is at the store that releases it.

### Size classes

`SizeTAssumption`: `SizeT` is larger than the sizes of interest; it need not be
a power of two.

| Theorem (`RouteProofs`) | Statement |
| --- | --- |
| `EverySizeRouted` | for every value of `size_t`: the smallest class that holds it, or -1 |
| `AlwaysSmallestFit`, `AlwaysCarvingRight` | the two invariants of the `route` run |
| `AlwaysSlotsApart` | every byte of a slot resolves to its slab, and no two slots share a byte |
| `CarvedInSteps` | `Carve`, one step here, has the result of repeated `btm_slab_new` |

The tables are literals, and what is needed of them is their closed form:
`btm_sc_to_size[c]` is 16 times `EndOf(c)` (`SizeForm`), the runs of the lookup
table are the differences of `EndOf` (`RunForm`), and `EndOf` increases
(`EndMono`). `LutEnd` is a recursive function. On a finite domain its
equation has a solution that can be written down, which gives the equation
itself (`LutEq`), and twelve unfoldings at a time give `LutEnd[c] = EndOf(c)`
(`LutEnds`). The class at a place of the lookup table is then the number of
classes that end before it (`LutForm`), and the class of a size the first
that is large enough. The wrapping `size - 1` sends 0 to the largest `size_t`,
which is refused with all others above 16 KiB (`OthersRefused`). The geometry
rests on one fact of division: the runs that start at multiples of the
run length are apart, and a page lies in the one that it is rounded down to
(`RunsApart`, `OwnPage`). `ChunkInv` says that the chunk of class `sc` has the
page owners that `Carve` gave it.

### Registry

`OwnerCacheProofs` proves `OwnerCacheInvariant`, `CacheNeverStale`
(`ResolvedRight`) and `RegistryNeverDangles` (`RegistryIsMapped`) under
`CacheAssumption`. The key conjunct, `CacheInv`: a line of the current
generation names what is mapped at its region, and no thread that has
bumped the generation is about to unmap it. A line may be written with an old
generation, never with one newer than the registry it was read from, because
the generation is loaded first.

### Compaction

`MeshAssumption`: a slab has finitely many slots, at least two, and the limits are natural
numbers. `MeshProofs` proves `MeshInvariant`, and from it, for any number of
compactions, `MeshedSlotsApart` (`NoSharedCell`) and `CanaryNoFalseAlarm`
(`NoFalseAlarm`); and `FirstCompactionKeepsObjects`,
`FirstCompactionKeepsLinks` and `FirstCompactionKeepsCanaries`, which say that
`ObjectsKept`, `LinksKept` and `DoubleFreeSeen` hold while at most one
`btm_compact` has begun: beyond that they are not true (`mesh_again`).

`NoSharedCell` is not inductive: a slab that is empty today is handed out
tomorrow. `Apart` says it of all slots in use, cached, or free in any slab that
is not retired, empty ones included. It needs `Lists`: only the addresses of a
retired slab show another slab's run, and a retired slab is on no list. Two
slabs are merged only if no index is in use in both (`Disjoint`), which
is what keeps `Apart`. `Fresh` is the fact that the second compaction breaks:
no candidate's run is shown by another slab's addresses, so that releasing a
donor's run takes nothing away. `DoubleFreeSeen` counts: only the slots that a
refill brings lack their canary, and these are at most `want - 1`.

### Process

`ProcessAssumption`: the maintenance thread is no application thread, and the
two values for a lock that no thread holds are no threads. `ProcessProofs` proves
`ProcessInvariant` and, from it, every safety property of the `process` run:
`LocksTakenInOrder` (`LocksNest`), `PoolsAfterTables` (`TablesBeforeUse`),
`MaintenanceThreadUnique`, `ReentryBounded` (`ReentryShallow`) and
`ForkOrphansKnown` (`OrphansKnown`), for any number of threads and calls; and
`NoDeadlock`: threads at the locks and at `pthread_once` do not wait in a circle,
and a blocked thread waits for one that is inside a call itself, unless it wants one
of the two locks that a fork may leave behind.

The invariants speak of what a thread has left to do, which a step changes at
its front by putting a path in the place of a call. Every step has a level:
the rank of its lock, or the least rank of a lock that the called
function can ask for. `Fine(path, n)`: the path has no step below level n, every
lock in it is released in it, and between the two there are only steps
of a higher level. `Nested(todo, H)` is the same of what is left to a thread
that holds the locks H: their releases lie ahead with only higher steps before
them. Paths are built from calls, sections and concatenations, which keep
`Fine` (`FineCall`, `FineSec`, `FineConcat`), and a `Fine` path of the level of
a call may replace it (`NestedExpand`); so one lemma for each path of the
code shows that its level is the one claimed. The other conjuncts are about the
order of first-call work: an allocation made inside it comes only once the
thread has its cache (`CacheInv`), a refill and the making of a cache come after
`pthread_once` (`TablesInv`), one thread at most builds the tables (`InitInv`)
or starts the maintenance thread (`SpawnInv`), and a thread with
first-call work left is inside one allocation at most (`ShallowInv`).
`NoDeadlock` follows from the order of the locks and `RunnerInv`: while
`btm_do_init` is under way some thread is at it, and that thread waits for
nobody. So a circle has threads at locks only; each wants a lock of
a higher rank than the one before, and after three there is no rank left.

### Large objects and calls

`LargeAssumption`: the address space is a whole number of regions, a region a
whole number of pages, and addresses are values of `size_t`. `PowersOfTwo`: of
the default alignment, the page, the region and the alignments asked for that
pass `is_pow2`, the smaller divides the larger. `CallsAssumption`: classes have
positive sizes. `CallsProofs` is about the specification `CallsSpec`.

| Theorem (`CallsProofs`) | Statement | Assumes |
| --- | --- | --- |
| `LargeInvariant`, `AlwaysOwnerFound`, `AlwaysRegistryClean` | `LInv`, `OwnerFound`, `RegistryClean` | `MovesAligned` |
| `CallsInvariant`, `AlwaysHeldExactly`, `AlwaysRequestMet`, `AlwaysContentsKept` | `CInv`, `HeldExactly`, `RequestMet`, `ContentsKept` | `MovesAligned`, `NoWrap` |

The two hypotheses are the two findings turned round: `large_moved` shows
`OwnerFound` violated without `MovesAligned`, and `large_wrap` shows
`RequestFits`, a part of `RequestMet`, violated without `NoWrap`. `NoWrap` says that every size
asked for, plus header, alignment and page, is within `size_t`; the `calls`
instance satisfies both.

`LInv`: every mapping starts at a region boundary, has whole pages, lies in the
address space and is apart from the others (`Placed`), and each region's entry is
the base of the one mapping that reaches it (`Entered`). Mappings at region
boundaries that share no byte share no region (`RegionsApart`), so that entering
or removing one leaves the entries of the others alone. `AllocFacts` is the
arithmetic of the surplus mapping: the aligned part lies inside it.
`FInv` (`Fit`): the user offset is at least the header and less than a header and
an alignment, so that it does not wrap with the request, and base and offset are
multiples of the alignment. `HInv`: an entry for every object, with what is relied
upon within what was asked and what is intact, and both within the
room of the object. The last is what reallocation within a class needs, which
copies nothing. Each call gives up an object, adds one, or both (`DropSmall`,
`DropLarge`, `AddSmall`, `AddLarge`).

A `Zenon` or `SMT` in a leaf chooses the prover that is faster there, `SMTT(30)` or
`ZenonT(40)` allows it more seconds.

*Only model-checked*: liveness (`LockReleased`, `DisposedComesBack`,
`LookupReturns`, `CallsReturn`), which needs fairness and `ENABLED` and is out of
the prover's reach. `CriticalSectionsBounded`, `InternLookupBounded` and
`NoDeadlock` are what three of them rest on and can be said without fairness.

## Not modelled

- *Cold-data tiering*: `btm_pageout_cold` advises the kernel which pages to
  keep in memory. Objects fault back by themselves, and no other part
  reads the epoch and the flag it keeps. Its locking is part of Process.
- *Reading the environment*, and with it the sizes of the tables.
- *The heap profile*: reads counters without a lock and formats them.
- *Memfd offsets*: a bump pointer and a stack under a lock of their own; the lock
  is in Process, the runs are in Mesh.
- *What a critical section that a fork cut in two leaves behind* in the child's
  lists: it depends on the order of plain stores, which the C source does not fix.
- *The flat registry engine and the one without a cache*: build-time variants
  with fewer steps than the radix engine with its cache.
- *Failure to map a registry leaf*, after which the object is taken for foreign,
  as the comment there accepts; and a foreign mapping in the last region of a
  large object, which resolves to that object.
- *The encoding of safe linking*: an exclusive or with a key, its own inverse.
