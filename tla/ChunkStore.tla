----------------------------- MODULE ChunkStore -----------------------------
(***************************************************************************)
(* The backing store of background.c: the global warm-chunk pool, the      *)
(* disposal queue and the maintenance thread, together with the threads    *)
(* that obtain and dispose chunks under their pools' locks.                *)
(*                                                                         *)
(* Everything between pthread_mutex_lock(&bg_lock) and the unlock is one   *)
(* step; what is done without the lock is a step of its own, so that two   *)
(* threads and the maintenance thread interleave wherever the code lets    *)
(* them.  The warm stack and the two queues are sets: a pop takes any      *)
(* member.  An address is a chunk: once munmap has released it, any later  *)
(* mmap may return it again.  A thread calls with the lock of its pool     *)
(* held, so that no two calls in progress are for the same pool: the pool  *)
(* that a chunk is obtained for is named by the thread.                    *)
(***************************************************************************)
EXTENDS Integers, FiniteSets

CONSTANTS
  Threads,          \* threads that obtain and dispose chunks
  Bg,               \* the maintenance thread
  Chunks,           \* 2 MiB-aligned addresses
  WARM_LOW,         \* BTM_WARM_LOW
  WARM_HIGH,        \* BTM_WARM_HIGH
  NPages,           \* BTM_PAGES_PER_CHUNK
  DescPages,        \* BTM_DESC_PAGES
  QDepth,           \* BTM_URING_DEPTH
  WaitFails,        \* io_uring_wait_cqe may return an error, such as -EINTR
  NoChunk, NoPool

ASSUME StoreAssumption ==
  /\ Bg \notin Threads
  /\ IsFiniteSet(Chunks)
  /\ NoChunk \notin Chunks /\ NoPool \notin Threads
  /\ WARM_LOW \in Nat /\ WARM_HIGH \in Nat
  /\ NPages \in Nat /\ DescPages \in Nat
  /\ 1 + DescPages < NPages
  /\ WaitFails \in BOOLEAN
  /\ QDepth \in Nat \ {0}

Actors == Threads \cup {Bg}

Pages == 0..(NPages - 1)
DATA_START_PAGE == 1 + DescPages
kData == NPages - DATA_START_PAGE               \* in pages
DataPages == DATA_START_PAGE..(NPages - 1)

VARIABLES
  \* under bg_lock
  warm,             \* warm_head
  warm_count,
  dispose,          \* dispose_head
  \* the address space
  mapped,           \* addresses that are mapped
  registry,         \* addresses the owner registry resolves
  resident,         \* pages of each mapping that hold physical memory
  pool,             \* the pool field of each chunk that belongs to one
  \* per actor
  pc,
  hand,             \* the chunk the actor is working on
  low,              \* btm_chunk_obtain's local of that name
  \* the maintenance thread
  bg_async,         \* "no", "racing" while a plain read may give 0 or 1, "yes"
  bg_ring_ok,       \* io_uring_queue_init succeeded
  disp, trim, deficit,
  todo, pending,    \* decommit_batch's position in the list and its `pending'
  inflight,         \* madvise requests the kernel has not carried out
  cqes              \* completions not yet seen

lockVars == <<warm, warm_count, dispose>>
spaceVars == <<mapped, registry, resident>>
ringVars == <<todo, pending, inflight, cqes>>
flags == <<bg_async, bg_ring_ok>>
bgVars == <<disp, trim, deficit, ringVars>>
vars == <<lockVars, spaceVars, pool, pc, hand, low, flags, bgVars>>

Init ==
  /\ warm = {} /\ warm_count = 0 /\ dispose = {}
  /\ mapped = {} /\ registry = {}
  /\ resident = [c \in Chunks |-> {}]
  /\ pool = [c \in Chunks |-> NoPool]
  /\ pc = [a \in Actors |-> IF a = Bg THEN "none" ELSE "idle"]
  /\ hand = [a \in Actors |-> NoChunk]
  /\ low = [t \in Threads |-> FALSE]
  /\ bg_async = "no" /\ bg_ring_ok = FALSE
  /\ disp = {} /\ trim = {} /\ deficit = 0
  /\ todo = {} /\ pending = 0 /\ inflight = {} /\ cqes = 0

-----------------------------------------------------------------------------
(* Helpers *)

held == {c \in Chunks : pool[c] # NoPool}

\* What a read of the plain int bg_async may yield.
AsyncReads == CASE bg_async = "no" -> {FALSE}
                [] bg_async = "racing" -> BOOLEAN
                [] bg_async = "yes" -> {TRUE}

\* pthread_cond_signal(&bg_cv) wakes the maintenance thread if it waits.
Woken(f) == IF f[Bg] = "wait" THEN [f EXCEPT ![Bg] = "top"] ELSE f

MinOf(a, b) == IF a <= b THEN a ELSE b

\* Mutant: the descriptor pages are taken for data, and as many of the data
\* pages at the end are left.
chunk_decommitMutant(P) == P \ (1..kData)

\* chunk_decommit: the data pages go back to the OS.
chunk_decommit(P) == P \ DataPages

\* The pages that an io_uring request of decommit_batch names: kData bytes from
\* page 1.
RingPages == 1..kData

\* mmap: the actor gets a free address and writes memfd_off into the header.
mmap(a, c) ==
  /\ c \in Chunks \ mapped
  /\ mapped' = mapped \cup {c}
  /\ resident' = [resident EXCEPT ![c] = {0}]
  /\ hand' = [hand EXCEPT ![a] = c]

munmap(c) ==
  /\ mapped' = mapped \ {c}
  /\ resident' = [resident EXCEPT ![c] = {}]

btm_registry_insert(c) == registry' = registry \cup {c}
btm_registry_remove(c) == registry' = registry \ {c}

-----------------------------------------------------------------------------
(* btm_chunk_obtain *)

\* Mutant: warm_head is not advanced, so that the next caller finds the same
\* chunk.
ObtainPopStays(t) ==
  /\ pc[t] = "idle"
  /\ \/ \E c \in warm :
          /\ hand' = [hand EXCEPT ![t] = c]
          /\ pc' = [pc EXCEPT ![t] = "signal"]
     \/ /\ warm = {}
        /\ pc' = [pc EXCEPT ![t] = "map"]
        /\ UNCHANGED hand
  /\ low' = [low EXCEPT ![t] = warm_count < WARM_LOW]
  /\ UNCHANGED <<lockVars, spaceVars, pool, flags, bgVars>>

ObtainPop(t) ==
  /\ pc[t] = "idle"
  /\ \/ \E c \in warm :
          /\ warm' = warm \ {c}
          /\ warm_count' = warm_count - 1
          /\ hand' = [hand EXCEPT ![t] = c]
          /\ pc' = [pc EXCEPT ![t] = "signal"]
     \/ /\ warm = {}
        /\ pc' = [pc EXCEPT ![t] = "map"]
        /\ UNCHANGED <<warm, warm_count, hand>>
  /\ low' = [low EXCEPT ![t] = warm_count' < WARM_LOW]
  /\ UNCHANGED <<dispose, spaceVars, pool, flags, bgVars>>

\* The synchronous fallback; NULL when mmap fails.
ObtainMap(t) ==
  /\ pc[t] = "map"
  /\ \/ /\ \E c \in Chunks : mmap(t, c)
        /\ pc' = [pc EXCEPT ![t] = "insert"]
     \/ /\ pc' = [pc EXCEPT ![t] = "idle"]
        /\ UNCHANGED <<mapped, resident, hand>>
  /\ UNCHANGED <<lockVars, registry, pool, low, flags, bgVars>>

ObtainInsert(t) ==
  /\ pc[t] = "insert"
  /\ btm_registry_insert(hand[t])
  /\ pc' = [pc EXCEPT ![t] = "signal"]
  /\ UNCHANGED <<lockVars, mapped, resident, pool, hand, low, flags, bgVars>>

\* Ask for a refill if the pool is low, reset the header and return.
ObtainReturn(t) ==
  /\ pc[t] = "signal"
  /\ \E async \in AsyncReads :
       LET f == [pc EXCEPT ![t] = "idle"] IN
       pc' = IF low[t] /\ async THEN Woken(f) ELSE f
  /\ pool' = [pool EXCEPT ![hand[t]] = t]
  /\ hand' = [hand EXCEPT ![t] = NoChunk]
  /\ UNCHANGED <<lockVars, spaceVars, low, flags, bgVars>>

\* The pool that holds a chunk touches all of its pages.
Touch(c) ==
  /\ c \in held
  /\ resident' = [resident EXCEPT ![c] = Pages]
  /\ UNCHANGED <<lockVars, mapped, registry, pool, pc, hand, low, flags, bgVars>>

-----------------------------------------------------------------------------
(* btm_chunk_dispose *)

\* Mutant: the chunk goes on the queue and the caller keeps it for itself too.
DisposeMutant(t) ==
  /\ pc[t] = "idle"
  /\ \E c \in held :
       /\ TRUE \in AsyncReads
       /\ dispose' = dispose \cup {c}
       /\ pc' = Woken(pc)
  /\ UNCHANGED <<warm, warm_count, spaceVars, pool, hand, low, flags, bgVars>>

DisposeAsync(t, c) ==
  /\ TRUE \in AsyncReads
  /\ dispose' = dispose \cup {c}
  /\ pc' = Woken(pc)
  /\ UNCHANGED <<hand, resident>>

DisposeSync(t, c) ==
  /\ FALSE \in AsyncReads
  /\ resident' = [resident EXCEPT ![c] = chunk_decommit(@)]
  /\ hand' = [hand EXCEPT ![t] = c]
  /\ pc' = [pc EXCEPT ![t] = "recycle"]
  /\ UNCHANGED dispose

Dispose(t) ==
  /\ pc[t] = "idle"
  /\ \E c \in held :
       /\ pool' = [pool EXCEPT ![c] = NoPool]
       /\ DisposeAsync(t, c) \/ DisposeSync(t, c)
  /\ UNCHANGED <<warm, warm_count, mapped, registry, low, flags, bgVars>>

\* Recycle the chunk, or set out to give it back when the pool is full.
DisposeRecycle(t) ==
  /\ pc[t] = "recycle"
  /\ IF warm_count < WARM_HIGH
     THEN /\ warm' = warm \cup {hand[t]}
          /\ warm_count' = warm_count + 1
          /\ hand' = [hand EXCEPT ![t] = NoChunk]
          /\ pc' = [pc EXCEPT ![t] = "idle"]
     ELSE /\ pc' = [pc EXCEPT ![t] = "remove"]
          /\ UNCHANGED <<warm, warm_count, hand>>
  /\ UNCHANGED <<dispose, spaceVars, pool, low, flags, bgVars>>

DisposeRemove(t) ==
  /\ pc[t] = "remove"
  /\ btm_registry_remove(hand[t])
  /\ pc' = [pc EXCEPT ![t] = "unmap"]
  /\ UNCHANGED <<lockVars, mapped, resident, pool, hand, low, flags, bgVars>>

DisposeUnmap(t) ==
  /\ pc[t] = "unmap"
  /\ munmap(hand[t])
  /\ hand' = [hand EXCEPT ![t] = NoChunk]
  /\ pc' = [pc EXCEPT ![t] = "idle"]
  /\ UNCHANGED <<lockVars, registry, pool, low, flags, bgVars>>

-----------------------------------------------------------------------------
(* btm_bg_ensure_started: the thread, which first tries to set up a ring,  *)
(* may run before bg_async is set.  With BTM_NO_ASYNC, or when            *)
(* pthread_create fails, it never starts.                                  *)

BgCreate ==
  /\ pc[Bg] = "none"
  /\ pc' = [pc EXCEPT ![Bg] = "top"]
  /\ bg_async' = "racing"
  /\ bg_ring_ok' \in BOOLEAN
  /\ UNCHANGED <<lockVars, spaceVars, pool, hand, low, bgVars>>

BgAsync ==
  /\ bg_async = "racing"
  /\ bg_async' = "yes"
  /\ UNCHANGED <<bg_ring_ok, lockVars, spaceVars, pool, pc, hand, low, bgVars>>

-----------------------------------------------------------------------------
(* bg_main *)

\* Mutant: the thread waits without looking at the queue again.
BgTopMutant ==
  /\ pc[Bg] = "top"
  /\ IF warm_count >= WARM_LOW
     THEN /\ pc' = [pc EXCEPT ![Bg] = "wait"]
          /\ UNCHANGED <<dispose, disp>>
     ELSE /\ pc' = [pc EXCEPT ![Bg] = "decommit"]
          /\ disp' = dispose
          /\ dispose' = {}
  /\ UNCHANGED <<warm, warm_count, spaceVars, pool, hand, low, flags, trim, deficit, ringVars>>

\* Wait for work, or take the whole disposal queue.
BgTop ==
  /\ pc[Bg] = "top"
  /\ IF dispose = {} /\ warm_count >= WARM_LOW
     THEN /\ pc' = [pc EXCEPT ![Bg] = "wait"]
          /\ UNCHANGED <<dispose, disp>>
     ELSE /\ pc' = [pc EXCEPT ![Bg] = "decommit"]
          /\ disp' = dispose
          /\ dispose' = {}
  /\ UNCHANGED <<warm, warm_count, spaceVars, pool, hand, low, flags, trim, deficit, ringVars>>

\* pthread_cond_wait may return without a signal.
BgSpurious ==
  /\ pc[Bg] = "wait"
  /\ pc' = [pc EXCEPT ![Bg] = "top"]
  /\ UNCHANGED <<lockVars, spaceVars, pool, hand, low, flags, bgVars>>

\* decommit_batch without the ring.
BgDecommit ==
  /\ pc[Bg] = "decommit"
  /\ ~bg_ring_ok
  /\ resident' = [c \in Chunks |->
                    IF c \in disp THEN chunk_decommit(resident[c]) ELSE resident[c]]
  /\ pc' = [pc EXCEPT ![Bg] = "return"]
  /\ UNCHANGED <<lockVars, mapped, registry, pool, hand, low, flags, bgVars>>

\* decommit_batch with the ring: queue requests until the list or the ring is
\* exhausted and submit them.
BgSubmit ==
  /\ \/ pc[Bg] = "decommit" /\ bg_ring_ok
     \/ pc[Bg] = "submit"
  /\ LET rest == IF pc[Bg] = "decommit" THEN disp ELSE todo
         done == IF pc[Bg] = "decommit" THEN 0 ELSE pending
     IN \E S \in SUBSET rest :
          /\ Cardinality(S) = MinOf(Cardinality(rest), QDepth)
          /\ todo' = rest \ S
          /\ pending' = done + Cardinality(S)
          /\ inflight' = inflight \cup S
  /\ pc' = [pc EXCEPT ![Bg] = "reap"]
  /\ UNCHANGED <<lockVars, spaceVars, pool, hand, low, flags, disp, trim, deficit, cqes>>

\* The kernel carries out one request.
KernelMadvise(c) ==
  /\ c \in inflight
  /\ inflight' = inflight \ {c}
  /\ resident' = [resident EXCEPT ![c] = @ \ RingPages]
  /\ cqes' = cqes + 1
  /\ UNCHANGED <<lockVars, mapped, registry, pool, pc, hand, low, flags, disp, trim,
                 deficit, todo, pending>>

BgReap ==
  /\ pc[Bg] = "reap"
  /\ pending > 0 /\ cqes > 0
  /\ pending' = pending - 1
  /\ cqes' = cqes - 1
  /\ UNCHANGED <<lockVars, spaceVars, pool, pc, hand, low, flags, disp, trim, deficit,
                 todo, inflight>>

\* Mutant: the completions are not waited for.
BgReapedMutant ==
  /\ pc[Bg] = "reap"
  /\ pc' = [pc EXCEPT ![Bg] = IF todo = {} THEN "return" ELSE "submit"]
  /\ UNCHANGED <<lockVars, spaceVars, pool, hand, low, flags, bgVars>>

\* The loop over completions ends: all are seen, or the wait fails.
BgReaped ==
  /\ pc[Bg] = "reap"
  /\ pending = 0 \/ (WaitFails /\ cqes = 0)
  /\ pc' = [pc EXCEPT ![Bg] = IF todo = {} THEN "return" ELSE "submit"]
  /\ UNCHANGED <<lockVars, spaceVars, pool, hand, low, flags, bgVars>>

\* The cleaned chunks fill the warm pool up to its limit; the rest is trimmed.
BgReturn ==
  /\ pc[Bg] = "return"
  /\ \E W \in SUBSET disp :
       /\ Cardinality(W) = IF warm_count < WARM_HIGH
                           THEN MinOf(Cardinality(disp), WARM_HIGH - warm_count)
                           ELSE 0
       /\ warm' = warm \cup W
       /\ warm_count' = warm_count + Cardinality(W)
       /\ trim' = disp \ W
  /\ disp' = {}
  /\ deficit' = WARM_LOW - warm_count'
  /\ pc' = [pc EXCEPT ![Bg] = "trim"]
  /\ UNCHANGED <<dispose, spaceVars, pool, hand, low, flags, ringVars>>

\* Mutant: the chunk is unmapped before it is taken out of the registry.
BgTrimRemoveMutant ==
  /\ pc[Bg] = "trim"
  /\ \E c \in trim :
       /\ munmap(c)
       /\ hand' = [hand EXCEPT ![Bg] = c]
  /\ pc' = [pc EXCEPT ![Bg] = "unmap"]
  /\ UNCHANGED <<lockVars, registry, pool, low, flags, bgVars>>

BgTrimRemove ==
  /\ pc[Bg] = "trim"
  /\ \E c \in trim :
       /\ btm_registry_remove(c)
       /\ trim' = trim \ {c}
       /\ hand' = [hand EXCEPT ![Bg] = c]
  /\ pc' = [pc EXCEPT ![Bg] = "unmap"]
  /\ UNCHANGED <<lockVars, mapped, resident, pool, low, flags, disp, deficit, ringVars>>

BgTrimUnmap ==
  /\ pc[Bg] = "unmap"
  /\ munmap(hand[Bg])
  /\ hand' = [hand EXCEPT ![Bg] = NoChunk]
  /\ pc' = [pc EXCEPT ![Bg] = "trim"]
  /\ UNCHANGED <<lockVars, registry, pool, low, flags, bgVars>>

BgTrimDone ==
  /\ pc[Bg] = "trim"
  /\ trim = {}
  /\ pc' = [pc EXCEPT ![Bg] = "premap"]
  /\ UNCHANGED <<lockVars, spaceVars, pool, hand, low, flags, bgVars>>

\* Map the next chunk ahead of demand, or go round: nothing is left to map, or
\* mmap failed.
BgPremap ==
  /\ pc[Bg] = "premap"
  /\ \/ /\ deficit > 0
        /\ \E c \in Chunks : mmap(Bg, c)
        /\ pc' = [pc EXCEPT ![Bg] = "insert"]
     \/ /\ pc' = [pc EXCEPT ![Bg] = "top"]
        /\ UNCHANGED <<mapped, resident, hand>>
  /\ UNCHANGED <<lockVars, registry, pool, low, flags, bgVars>>

BgInsert ==
  /\ pc[Bg] = "insert"
  /\ btm_registry_insert(hand[Bg])
  /\ pc' = [pc EXCEPT ![Bg] = "push"]
  /\ UNCHANGED <<lockVars, mapped, resident, pool, hand, low, flags, bgVars>>

\* Mutant: the pushed chunk is not counted.
BgPushMutant ==
  /\ pc[Bg] = "push"
  /\ warm' = warm \cup {hand[Bg]}
  /\ hand' = [hand EXCEPT ![Bg] = NoChunk]
  /\ deficit' = deficit - 1
  /\ pc' = [pc EXCEPT ![Bg] = "premap"]
  /\ UNCHANGED <<warm_count, dispose, spaceVars, pool, low, flags, disp, trim, ringVars>>

BgPush ==
  /\ pc[Bg] = "push"
  /\ warm' = warm \cup {hand[Bg]}
  /\ warm_count' = warm_count + 1
  /\ hand' = [hand EXCEPT ![Bg] = NoChunk]
  /\ deficit' = deficit - 1
  /\ pc' = [pc EXCEPT ![Bg] = "premap"]
  /\ UNCHANGED <<dispose, spaceVars, pool, low, flags, disp, trim, ringVars>>

-----------------------------------------------------------------------------
ThreadStep(t) ==
  \/ ObtainMap(t) \/ ObtainInsert(t) \/ ObtainReturn(t)
  \/ DisposeRecycle(t) \/ DisposeRemove(t) \/ DisposeUnmap(t)

BgStep ==
  \/ BgTop \/ BgDecommit \/ BgSubmit \/ BgReap \/ BgReaped \/ BgReturn
  \/ BgTrimRemove \/ BgTrimUnmap \/ BgTrimDone \/ BgPremap \/ BgInsert \/ BgPush

Kernel == \E c \in Chunks : KernelMadvise(c)

Next ==
  \/ \E t \in Threads : ObtainPop(t) \/ Dispose(t) \/ ThreadStep(t)
  \/ \E c \in Chunks : Touch(c)
  \/ BgCreate \/ BgAsync \/ BgSpurious \/ BgStep \/ Kernel

Spec == Init /\ [][Next]_vars

\* A call in progress and the maintenance thread, unless it waits, are
\* scheduled, and the kernel carries out the requests submitted to it.  No
\* application thread has to call again, no spurious wakeup has to happen, and
\* the thread need not be created; once it is, the store of bg_async becomes
\* visible.
Fairness ==
  /\ WF_vars(BgStep)
  /\ WF_vars(BgAsync)
  /\ WF_vars(Kernel)
  /\ \A t \in Threads : WF_vars(ThreadStep(t))

FairSpec == Spec /\ Fairness

-----------------------------------------------------------------------------
(* Properties *)

InHand == {hand[a] : a \in Actors} \ {NoChunk}

Positions == {"idle", "map", "insert", "signal", "recycle", "remove", "unmap", "none", "top",
              "wait", "decommit", "submit", "reap", "return", "trim", "premap", "push"}

TypeOK ==
  /\ warm \in SUBSET Chunks /\ dispose \in SUBSET Chunks
  /\ warm_count \in Nat
  /\ mapped \in SUBSET Chunks /\ registry \in SUBSET Chunks
  /\ resident \in [Chunks -> SUBSET Pages]
  /\ pool \in [Chunks -> Threads \cup {NoPool}]
  /\ pc \in [Actors -> Positions]
  /\ hand \in [Actors -> Chunks \cup {NoChunk}]
  /\ low \in [Threads -> BOOLEAN]
  /\ bg_async \in {"no", "racing", "yes"} /\ bg_ring_ok \in BOOLEAN
  /\ disp \in SUBSET Chunks /\ trim \in SUBSET Chunks
  /\ deficit \in Int
  /\ todo \in SUBSET Chunks /\ inflight \in SUBSET Chunks
  /\ pending \in Nat /\ cqes \in Nat

\* Every mapped chunk is in exactly one place: warm, queued for disposal, with
\* the maintenance thread, held by a pool, or in the hands of one thread.  None
\* is handed out twice and none is lost.
ChunkInOnePlace ==
  /\ warm \cap (dispose \cup disp \cup trim \cup held \cup InHand) = {}
  /\ dispose \cap (disp \cup trim \cup held \cup InHand) = {}
  /\ disp \cap (trim \cup held \cup InHand) = {}
  /\ trim \cap (held \cup InHand) = {}
  /\ held \cap InHand = {}
  /\ \A a, b \in Actors : hand[a] = hand[b] /\ hand[a] # NoChunk => a = b
  /\ warm \cup dispose \cup disp \cup trim \cup held \cup InHand = mapped

\* Every chunk that a pool holds or could be given is known to the registry,
\* so that btm_free recognises its slots; and the registry never names an
\* address that is not mapped, so that btm_free may read the header it finds.
RegistryMatchesMappings ==
  /\ (warm \cup dispose \cup disp \cup held) \subseteq registry
  /\ registry \subseteq mapped

\* warm_count counts the warm pool, which never grows past the high mark by
\* more than one round of pre-mapping, although the deficit that drives it was
\* computed before the lock was released.
WarmPoolBounded ==
  /\ warm_count = Cardinality(warm)
  /\ warm_count <= WARM_HIGH + WARM_LOW

\* Page 0 of a mapped chunk, which holds its header, the link of the list it is
\* on and its memfd offset, is never released.
HeaderStaysResident == \A c \in mapped : 0 \in resident[c]

\* A warm chunk holds no physical memory in its data pages: "only their
\* physical pages are released" (background.c:9).
WarmChunksAreClean == \A c \in warm : resident[c] \cap DataPages = {}

\* As long as pages are released by chunk_decommit only, that is, until the
\* maintenance thread has a ring, every warm chunk is clean.
SyncChunksAreClean == bg_ring_ok \/ WarmChunksAreClean

\* The maintenance thread does not sleep on a disposed chunk.
NoDisposalMissed == pc[Bg] = "wait" => dispose = {}

\* No page of a chunk is released while a pool holds it: whoever releases the
\* pages of a chunk is through with it before it can be obtained again.
HeldPagesKept ==
  [][\A c \in held \cap held' : resident[c] \subseteq resident'[c]]_vars

\* A disposed chunk comes back: the maintenance thread recycles it or returns
\* it to the OS.
DisposedComesBack ==
  \A c \in Chunks : c \in dispose ~> c \notin dispose \cup disp \cup trim

\* Seen from the pools, the store hands out chunks that nobody holds.
Supply == INSTANCE ChunkSupply WITH Pools <- Threads

SupplySpec == Supply!Spec
=============================================================================
