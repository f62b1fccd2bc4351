-------------------------- MODULE ChunkStoreProofs --------------------------
(***************************************************************************)
(* Proofs about ChunkStore, for any number of threads, any finite number   *)
(* of chunks, any warm marks and any ring depth.                           *)
(***************************************************************************)
EXTENDS ChunkStore, FiniteSetTheorems, TLAPS

ThreadAt == {"idle", "map", "insert", "signal", "recycle", "remove", "unmap"}
BgAt == {"none", "top", "wait", "decommit", "submit", "reap", "return", "trim", "unmap", "premap",
         "insert", "push"}
Holding == {"insert", "signal", "recycle", "remove", "unmap", "push"}

\* Where each actor may be, and that it has a chunk in hand exactly while it
\* works on one.
PcInv ==
  /\ \A t \in Threads : pc[t] \in ThreadAt
  /\ pc[Bg] \in BgAt
  /\ \A a \in Actors : hand[a] # NoChunk <=> pc[a] \in Holding

\* The maintenance thread's lists are empty when it does not work on them.
BgInv ==
  /\ disp # {} => pc[Bg] \in {"decommit", "submit", "reap", "return"}
  /\ trim # {} => pc[Bg] \in {"trim", "unmap"}
  /\ pc[Bg] = "none" => ~bg_ring_ok
  /\ pc[Bg] \in {"submit", "reap"} => bg_ring_ok
  /\ NoDisposalMissed

\* ChunkInOnePlace, chunk by chunk.
PlaceInv ==
  /\ \A c \in Chunks :
       /\ c \in warm => c \notin dispose /\ c \notin disp /\ c \notin trim /\ pool[c] = NoPool
       /\ c \in dispose => c \notin disp /\ c \notin trim /\ pool[c] = NoPool
       /\ c \in disp => c \notin trim /\ pool[c] = NoPool
       /\ c \in trim => pool[c] = NoPool
  /\ \A a \in Actors : hand[a] # NoChunk =>
       /\ hand[a] \notin warm /\ hand[a] \notin dispose
       /\ hand[a] \notin disp /\ hand[a] \notin trim /\ pool[hand[a]] = NoPool
       /\ \A b \in Actors : hand[b] = hand[a] => b = a

\* Nothing is lost: a chunk is mapped exactly if it is in one of the places.
MappedInv ==
  /\ \A c \in Chunks :
       c \in warm \/ c \in dispose \/ c \in disp \/ c \in trim \/ pool[c] # NoPool => c \in mapped
  /\ \A a \in Actors : hand[a] # NoChunk => hand[a] \in mapped
  /\ \A c \in mapped :
       \/ c \in warm \/ c \in dispose \/ c \in disp \/ c \in trim \/ pool[c] # NoPool
       \/ \E a \in Actors : hand[a] = c

\* A chunk in hand is unknown to the registry only between mmap and the insert,
\* and between the removal and munmap.
RegInv ==
  /\ registry \subseteq mapped
  /\ \A c \in Chunks :
       c \in warm \/ c \in dispose \/ c \in disp \/ c \in trim \/ pool[c] # NoPool => c \in registry
  /\ \A a \in Actors : pc[a] \in {"signal", "recycle", "remove", "push"} => hand[a] \in registry
  /\ \A a \in Actors : pc[a] \in {"insert", "unmap"} => hand[a] \notin registry

\* The deficit was computed before bg_lock was released, but is at most the low
\* mark, and what was recycled since stopped at the high mark.
WarmInv ==
  /\ warm_count = Cardinality(warm)
  /\ warm_count <= WARM_HIGH + WARM_LOW
  /\ deficit <= WARM_LOW
  /\ deficit > 0 => warm_count + deficit <= WARM_HIGH + WARM_LOW
  /\ pc[Bg] \in {"insert", "push"} => deficit > 0

Clean(c) == resident[c] \cap DataPages = {}

\* Without a ring, what is warm or on its way there is clean.
CleanInv ==
  bg_ring_ok \/
    /\ \A c \in warm : Clean(c)
    /\ pc[Bg] = "return" => \A c \in disp : Clean(c)
    /\ \A a \in Actors : pc[a] = "recycle" => Clean(hand[a])
    /\ pc[Bg] \in {"insert", "push"} => Clean(hand[Bg])

\* If io_uring_wait_cqe does not fail, every request belongs to a chunk on the
\* list and is accounted for by `pending'.
RingInv ==
  WaitFails \/
    /\ pc[Bg] # "reap" => inflight = {} /\ cqes = 0
    /\ pc[Bg] = "submit" => pending = 0
    /\ pc[Bg] = "reap" => pending = cqes + Cardinality(inflight)
    /\ inflight \subseteq disp
    /\ pc[Bg] \in {"submit", "reap"} => todo \subseteq disp

IInv ==
  /\ TypeOK /\ PcInv /\ BgInv /\ PlaceInv /\ MappedInv /\ RegInv /\ WarmInv
  /\ HeaderStaysResident /\ CleanInv /\ RingInv
-----------------------------------------------------------------------------
\* A warm or a disposed chunk is one of finitely many, so that taking one away
\* or adding one changes their number by one.
LEMMA Counts ==
  ASSUME NEW S \in SUBSET Chunks
  PROVE  /\ IsFiniteSet(S) /\ Cardinality(S) \in Nat
         /\ \A c \in S : Cardinality(S \ {c}) = Cardinality(S) - 1
         /\ \A c \in S : Cardinality(S) > 0
         /\ Cardinality(S) = 0 => S = {}
         /\ \A c \in Chunks \ S : Cardinality(S \cup {c}) = Cardinality(S) + 1
         /\ \A W \in SUBSET Chunks : W \cap S = {} =>
              Cardinality(S \cup W) = Cardinality(S) + Cardinality(W)
<1>1. IsFiniteSet(S) /\ Cardinality(S) \in Nat
  BY Zenon, StoreAssumption, FS_Subset, FS_CardinalityType
<1>2. \A c \in S : Cardinality(S \ {c}) = Cardinality(S) - 1
  BY Zenon, <1>1, FS_RemoveElement
<1>3. Cardinality(S) = 0 => S = {}
  BY Zenon, <1>1, FS_EmptySet
<1>6. \A c \in S : Cardinality(S) > 0
  BY <1>1, <1>3
<1>4. \A c \in Chunks \ S : Cardinality(S \cup {c}) = Cardinality(S) + 1
  BY Zenon, <1>1, FS_AddElement
<1>5. ASSUME NEW W \in SUBSET Chunks, W \cap S = {}
      PROVE  Cardinality(S \cup W) = Cardinality(S) + Cardinality(W)
  <2>1. IsFiniteSet(W) /\ Cardinality(W) \in Nat
    BY Zenon, StoreAssumption, FS_Subset, FS_CardinalityType
  <2>2. Cardinality(S \cup W) = Cardinality(S) + Cardinality(W) - Cardinality(S \cap W)
    BY Zenon, <1>1, <2>1, FS_Union
  <2>3. S \cap W = {}
    BY Zenon, <1>5
  <2>4. Cardinality(S \cap W) = 0
    BY Zenon, <2>3, FS_EmptySet
  <2> QED
    BY <1>1, <2>1, <2>2, <2>4
<1> QED
  BY Zenon, <1>1, <1>2, <1>3, <1>4, <1>5, <1>6

\* The header page is a page, and neither chunk_decommit nor a request to the
\* ring names it.
LEMMA PageFacts ==
  /\ 0 \in Pages /\ 0 \notin DataPages /\ 0 \notin RingPages
BY StoreAssumption DEF Pages, DataPages, RingPages, DATA_START_PAGE, kData

\* A signal wakes the maintenance thread if it waits and moves nobody else.
LEMMA WokenFacts ==
  ASSUME NEW f \in [Actors -> Positions]
  PROVE  /\ Woken(f) \in [Actors -> Positions]
         /\ \A a \in Actors : a # Bg => Woken(f)[a] = f[a]
         /\ Woken(f)[Bg] # "wait"
         /\ Woken(f)[Bg] = f[Bg] \/ (f[Bg] = "wait" /\ Woken(f)[Bg] = "top")
BY DEF Woken, Actors, Positions

\* Initially nothing is mapped and nobody works.
LEMMA InitInv == Init => IInv
<1> SUFFICES ASSUME Init PROVE IInv
  BY Zenon
<1>0. /\ pc \in [Actors -> Positions] /\ \A t \in Threads : pc[t] = "idle"
      /\ pc[Bg] = "none" /\ Threads \subseteq Actors
  BY StoreAssumption DEF Init, Actors, Positions
<1>1. TypeOK
  <2>1. 0 \in Nat /\ 0 \in Int
    OBVIOUS
  <2>2. /\ low \in [Threads -> BOOLEAN] /\ bg_ring_ok \in BOOLEAN
        /\ bg_async \in {"no", "racing", "yes"}
        /\ resident \in [Chunks -> SUBSET Pages]
        /\ pool \in [Chunks -> Threads \cup {NoPool}]
        /\ hand \in [Actors -> Chunks \cup {NoChunk}]
    BY Zenon DEF Init
  <2> QED
    BY Zenon, <1>0, <2>1, <2>2 DEF Init, TypeOK
<1>2. PcInv
  BY <1>0 DEF Init, PcInv, Actors, Holding, ThreadAt, BgAt
<1>3. BgInv /\ PlaceInv /\ MappedInv
  BY DEF Init, BgInv, NoDisposalMissed, PlaceInv, MappedInv, Actors
<1>4. RegInv
  BY StoreAssumption DEF Init, RegInv, Actors
<1>5. Cardinality({}) = 0
  BY Zenon, FS_EmptySet
<1>6. WarmInv
  BY <1>5, StoreAssumption DEF Init, WarmInv, Actors
<1>7. HeaderStaysResident /\ CleanInv
  BY StoreAssumption DEF Init, HeaderStaysResident, CleanInv, Actors
<1>8. RingInv
  BY StoreAssumption DEF Init, RingInv, Actors
<1> QED
  BY Zenon, <1>1, <1>2, <1>3, <1>4, <1>6, <1>7, <1>8 DEF IInv

\* The address becomes known before the chunk is handed out.
LEMMA ObtainInsertInv ==
  ASSUME IInv, NEW t \in Threads, ObtainInsert(t)
  PROVE  IInv'
<1> USE DEF IInv
<1>0. /\ pc[t] = "insert"
      /\ registry' = registry \cup {hand[t]}
      /\ pc' = [pc EXCEPT ![t] = "signal"]
      /\ UNCHANGED <<warm, warm_count, dispose, mapped, resident, pool, hand, low, bg_async,
                      bg_ring_ok, disp, trim, deficit, todo, pending, inflight, cqes>>
  BY Zenon DEF ObtainInsert, btm_registry_insert, lockVars, spaceVars, flags, bgVars, ringVars
<1>1. /\ "signal" \in Positions
      /\ "signal" \in ThreadAt
      /\ Threads \subseteq Actors /\ t # Bg /\ t \in Actors /\ Bg \in Actors /\ pc'[Bg] = pc[Bg]
      /\ "signal" \in Holding
      /\ "insert" \in Holding
      /\ \A a \in Actors : a # t => pc'[a] = pc[a]
      /\ pc'[t] = "signal"
  BY <1>0, StoreAssumption DEF TypeOK, Actors, Positions, ThreadAt, BgAt, Holding
<1>2. /\ hand[t] \in Chunks /\ hand[t] # NoChunk /\ hand[t] \in mapped
      /\ \A a \in Actors : hand[a] = hand[t] => a = t
  <2>1. hand[t] \in Chunks /\ hand[t] # NoChunk
    BY Zenon, <1>0, <1>1, StoreAssumption DEF TypeOK, PcInv
  <2> QED
    BY Zenon, <1>0, <1>1, <2>1 DEF PlaceInv, MappedInv
<1>3. TypeOK'
  BY Zenon, <1>0, <1>1, <1>2 DEF TypeOK
<1>4. PcInv'
  BY <1>0, <1>1, <1>2 DEF PcInv, TypeOK
<1>5. RegInv'
  BY Zenon, <1>0, <1>1, <1>2 DEF RegInv, TypeOK
<1>6. CleanInv'
  BY Zenon, <1>0, <1>1, <1>2 DEF CleanInv, Clean, TypeOK
<1>7. BgInv' /\ PlaceInv' /\ MappedInv'
  BY Zenon, <1>0, <1>1, <1>2 DEF BgInv, NoDisposalMissed, PlaceInv, MappedInv
<1>8. WarmInv' /\ HeaderStaysResident' /\ RingInv'
  BY Zenon, <1>0, <1>1, <1>2 DEF WarmInv, HeaderStaysResident, RingInv
<1> QED
  BY Zenon, <1>3, <1>4, <1>5, <1>6, <1>7, <1>8

\* Only a chunk that a pool holds is written to.
LEMMA TouchInv ==
  ASSUME IInv, NEW c \in Chunks, Touch(c)
  PROVE  IInv'
<1> USE DEF IInv
<1>0. /\ pool[c] # NoPool
      /\ resident' = [resident EXCEPT ![c] = Pages]
      /\ UNCHANGED <<warm, warm_count, dispose, mapped, registry, pool, pc, hand, low, bg_async,
                      bg_ring_ok, disp, trim, deficit, todo, pending, inflight, cqes>>
  BY Zenon DEF Touch, held, lockVars, spaceVars, flags, bgVars, ringVars
<1>1. TypeOK'
  BY Zenon, <1>0 DEF TypeOK
<1>2. HeaderStaysResident'
  BY Zenon, <1>0, PageFacts DEF HeaderStaysResident, TypeOK
<1>3. CleanInv'
  <2>1. /\ c \notin warm /\ c \notin disp
        /\ \A a \in Actors : hand[a] # c
    BY Zenon, <1>0, StoreAssumption DEF PlaceInv
  <2>2. \A d \in Chunks : d # c => (Clean(d)' <=> Clean(d))
    BY Zenon, <1>0 DEF Clean, TypeOK
  <2>3. /\ Bg \in Actors /\ warm \subseteq Chunks /\ disp \subseteq Chunks
        /\ \A a \in Actors : pc[a] \in Holding => hand[a] \in Chunks
        /\ "recycle" \in Holding /\ "insert" \in Holding /\ "push" \in Holding
    BY Zenon, StoreAssumption DEF Actors, TypeOK, PcInv, Holding
  <2> QED
    BY Zenon, <1>0, <2>1, <2>2, <2>3 DEF CleanInv
<1>4. PcInv' /\ BgInv' /\ PlaceInv'
  BY Zenon, <1>0 DEF PcInv, BgInv, NoDisposalMissed, PlaceInv
<1>5. MappedInv' /\ RegInv' /\ WarmInv' /\ RingInv'
  BY Zenon, <1>0 DEF MappedInv, RegInv, WarmInv, RingInv
<1> QED
  BY Zenon, <1>1, <1>2, <1>3, <1>4, <1>5

\* The chunk given back is taken out of the registry first.
LEMMA DisposeRemoveInv ==
  ASSUME IInv, NEW t \in Threads, DisposeRemove(t)
  PROVE  IInv'
<1> USE DEF IInv
<1>0. /\ pc[t] = "remove"
      /\ registry' = registry \ {hand[t]}
      /\ pc' = [pc EXCEPT ![t] = "unmap"]
      /\ UNCHANGED <<warm, warm_count, dispose, mapped, resident, pool, hand, low, bg_async,
                      bg_ring_ok, disp, trim, deficit, todo, pending, inflight, cqes>>
  BY Zenon DEF DisposeRemove, btm_registry_remove, lockVars, spaceVars, flags, bgVars, ringVars
<1>1. /\ "unmap" \in Positions
      /\ "unmap" \in ThreadAt
      /\ Threads \subseteq Actors /\ t # Bg /\ t \in Actors /\ Bg \in Actors /\ pc'[Bg] = pc[Bg]
      /\ "unmap" \in Holding
      /\ "remove" \in Holding
      /\ \A a \in Actors : a # t => pc'[a] = pc[a]
      /\ pc'[t] = "unmap"
  BY <1>0, StoreAssumption DEF TypeOK, Actors, Positions, ThreadAt, BgAt, Holding
<1>2. /\ hand[t] \in Chunks /\ hand[t] # NoChunk /\ hand[t] \in mapped
      /\ \A a \in Actors : hand[a] = hand[t] => a = t
  <2>1. hand[t] \in Chunks /\ hand[t] # NoChunk
    BY Zenon, <1>0, <1>1, StoreAssumption DEF TypeOK, PcInv
  <2> QED
    BY Zenon, <1>0, <1>1, <2>1 DEF PlaceInv, MappedInv
<1>3. TypeOK'
  BY Zenon, <1>0, <1>1, <1>2 DEF TypeOK
<1>4. PcInv'
  BY <1>0, <1>1, <1>2 DEF PcInv, TypeOK
<1>5. RegInv'
  BY <1>0, <1>1, <1>2 DEF RegInv, TypeOK, PlaceInv
<1>6. CleanInv'
  BY Zenon, <1>0, <1>1, <1>2 DEF CleanInv, Clean, TypeOK
<1>7. BgInv' /\ PlaceInv' /\ MappedInv'
  BY Zenon, <1>0, <1>1, <1>2 DEF BgInv, NoDisposalMissed, PlaceInv, MappedInv
<1>8. WarmInv' /\ HeaderStaysResident' /\ RingInv'
  BY Zenon, <1>0, <1>1, <1>2 DEF WarmInv, HeaderStaysResident, RingInv
<1> QED
  BY Zenon, <1>3, <1>4, <1>5, <1>6, <1>7, <1>8

\* munmap takes a chunk that only this thread has.
LEMMA DisposeUnmapInv ==
  ASSUME IInv, NEW t \in Threads, DisposeUnmap(t)
  PROVE  IInv'
<1> USE DEF IInv
<1>0. /\ pc[t] = "unmap"
      /\ mapped' = mapped \ {hand[t]}
      /\ resident' = [resident EXCEPT ![hand[t]] = {}]
      /\ hand' = [hand EXCEPT ![t] = NoChunk]
      /\ pc' = [pc EXCEPT ![t] = "idle"]
      /\ UNCHANGED <<warm, warm_count, dispose, registry, pool, low, bg_async, bg_ring_ok, disp,
                      trim, deficit, todo, pending, inflight, cqes>>
  BY Zenon DEF DisposeUnmap, munmap, lockVars, spaceVars, flags, bgVars, ringVars
<1>1. /\ "idle" \in Positions
      /\ "idle" \in ThreadAt
      /\ Threads \subseteq Actors /\ t # Bg /\ t \in Actors /\ Bg \in Actors /\ pc'[Bg] = pc[Bg]
      /\ "idle" \notin Holding
      /\ "unmap" \in Holding
      /\ \A a \in Actors : a # t => pc'[a] = pc[a]
      /\ pc'[t] = "idle"
  BY <1>0, StoreAssumption DEF TypeOK, Actors, Positions, ThreadAt, BgAt, Holding
<1>2. /\ hand[t] \in Chunks /\ hand[t] # NoChunk /\ hand[t] \in mapped
      /\ \A a \in Actors : hand[a] = hand[t] => a = t
  <2>1. hand[t] \in Chunks /\ hand[t] # NoChunk
    BY Zenon, <1>0, <1>1, StoreAssumption DEF TypeOK, PcInv
  <2> QED
    BY Zenon, <1>0, <1>1, <2>1 DEF PlaceInv, MappedInv
<1>3. TypeOK'
  BY Zenon, <1>0, <1>1, <1>2 DEF TypeOK
<1>4. PcInv'
  BY <1>0, <1>1, <1>2 DEF PcInv, TypeOK
<1>5. PlaceInv'
  BY Zenon, <1>0, <1>1, <1>2 DEF PlaceInv, TypeOK
<1>6. MappedInv'
  BY <1>0, <1>1, <1>2 DEF MappedInv, TypeOK, PlaceInv
<1>7. RegInv'
  BY <1>0, <1>1, <1>2 DEF RegInv, TypeOK, PlaceInv
<1>8. HeaderStaysResident'
  BY Zenon, <1>0, <1>1, <1>2 DEF HeaderStaysResident, TypeOK
<1>9. CleanInv'
  BY <1>0, <1>1, <1>2 DEF CleanInv, Clean, TypeOK
<1>10. BgInv' /\ WarmInv' /\ RingInv'
  BY Zenon, <1>0, <1>1, <1>2 DEF BgInv, NoDisposalMissed, WarmInv, RingInv
<1> QED
  BY Zenon, <1>3, <1>4, <1>5, <1>6, <1>7, <1>8, <1>9, <1>10

\* The maintenance thread starts, with a ring or without one.
LEMMA BgCreateInv ==
  ASSUME IInv, BgCreate
  PROVE  IInv'
<1> USE DEF IInv
<1>0. /\ pc[Bg] = "none"
      /\ bg_async' = "racing"
      /\ bg_ring_ok' \in BOOLEAN
      /\ pc' = [pc EXCEPT ![Bg] = "top"]
      /\ UNCHANGED <<warm, warm_count, dispose, mapped, registry, resident, pool, hand, low, disp,
                      trim, deficit, todo, pending, inflight, cqes>>
  BY Zenon DEF BgCreate, lockVars, spaceVars, flags, bgVars, ringVars
<1>1. /\ "top" \in Positions
      /\ "top" \in BgAt
      /\ Threads \subseteq Actors /\ Bg \in Actors /\ Bg \notin Threads
      /\ "top" \notin Holding
      /\ "none" \notin Holding
      /\ \A a \in Actors : a # Bg => pc'[a] = pc[a]
      /\ pc'[Bg] = "top"
  BY <1>0, StoreAssumption DEF TypeOK, Actors, Positions, ThreadAt, BgAt, Holding
<1>2. TypeOK'
  BY Zenon, <1>0, <1>1 DEF TypeOK
<1>3. PcInv'
  BY <1>0, <1>1 DEF PcInv, TypeOK
<1>4. BgInv'
  BY Zenon, <1>0, <1>1 DEF BgInv, NoDisposalMissed, TypeOK
<1>5. RegInv'
  BY Zenon, <1>0, <1>1 DEF RegInv, TypeOK
<1>6. WarmInv'
  BY Zenon, <1>0, <1>1 DEF WarmInv, TypeOK
<1>7. CleanInv'
  BY Zenon, <1>0, <1>1 DEF CleanInv, Clean, TypeOK, BgInv
<1>8. RingInv'
  BY Zenon, <1>0, <1>1 DEF RingInv, TypeOK
<1>9. PlaceInv' /\ MappedInv' /\ HeaderStaysResident'
  BY Zenon, <1>0, <1>1 DEF PlaceInv, MappedInv, HeaderStaysResident
<1> QED
  BY Zenon, <1>2, <1>3, <1>4, <1>5, <1>6, <1>7, <1>8, <1>9

\* The store of bg_async becomes visible.
LEMMA BgAsyncInv ==
  ASSUME IInv, BgAsync
  PROVE  IInv'
<1> USE DEF IInv
<1>0. /\ bg_async' = "yes"
      /\ UNCHANGED <<warm, warm_count, dispose, mapped, registry, resident, pool, pc, hand, low,
                      bg_ring_ok, disp, trim, deficit, todo, pending, inflight, cqes>>
  BY Zenon DEF BgAsync, lockVars, spaceVars, flags, bgVars, ringVars
<1>1. TypeOK'
  BY Zenon, <1>0 DEF TypeOK
<1>2. PcInv' /\ BgInv' /\ PlaceInv'
  BY Zenon, <1>0 DEF PcInv, BgInv, NoDisposalMissed, PlaceInv
<1>3. MappedInv' /\ RegInv' /\ WarmInv' /\ HeaderStaysResident' /\ CleanInv' /\ RingInv'
  BY Zenon, <1>0 DEF MappedInv, RegInv, WarmInv, HeaderStaysResident, CleanInv, Clean, RingInv
<1> QED
  BY Zenon, <1>1, <1>2, <1>3

\* The maintenance thread may wake for no reason.
LEMMA BgSpuriousInv ==
  ASSUME IInv, BgSpurious
  PROVE  IInv'
<1> USE DEF IInv
<1>0. /\ pc[Bg] = "wait"
      /\ pc' = [pc EXCEPT ![Bg] = "top"]
      /\ UNCHANGED <<warm, warm_count, dispose, mapped, registry, resident, pool, hand, low,
                      bg_async, bg_ring_ok, disp, trim, deficit, todo, pending, inflight, cqes>>
  BY Zenon DEF BgSpurious, lockVars, spaceVars, flags, bgVars, ringVars
<1>1. /\ "top" \in Positions
      /\ "top" \in BgAt
      /\ Threads \subseteq Actors /\ Bg \in Actors /\ Bg \notin Threads
      /\ "top" \notin Holding
      /\ "wait" \notin Holding
      /\ \A a \in Actors : a # Bg => pc'[a] = pc[a]
      /\ pc'[Bg] = "top"
  BY <1>0, StoreAssumption DEF TypeOK, Actors, Positions, ThreadAt, BgAt, Holding
<1>2. TypeOK'
  BY Zenon, <1>0, <1>1 DEF TypeOK
<1>3. PcInv'
  BY <1>0, <1>1 DEF PcInv, TypeOK
<1>4. BgInv'
  BY Zenon, <1>0, <1>1 DEF BgInv, NoDisposalMissed, TypeOK
<1>5. RegInv'
  BY Zenon, <1>0, <1>1 DEF RegInv, TypeOK
<1>6. WarmInv'
  BY Zenon, <1>0, <1>1 DEF WarmInv, TypeOK
<1>7. CleanInv'
  BY Zenon, <1>0, <1>1 DEF CleanInv, Clean, TypeOK
<1>8. RingInv'
  BY Zenon, <1>0, <1>1 DEF RingInv, TypeOK
<1>9. PlaceInv' /\ MappedInv' /\ HeaderStaysResident'
  BY Zenon, <1>0, <1>1 DEF PlaceInv, MappedInv, HeaderStaysResident
<1> QED
  BY Zenon, <1>2, <1>3, <1>4, <1>5, <1>6, <1>7, <1>8, <1>9

\* The maintenance thread waits only when nothing is queued; otherwise it takes
\* the queue as its own list.
LEMMA BgWaitInv ==
  ASSUME IInv, BgTop,
         dispose = {} /\ warm_count >= WARM_LOW
  PROVE  IInv'
<1> USE DEF IInv
<1>0. /\ pc[Bg] = "top"
      /\ pc' = [pc EXCEPT ![Bg] = "wait"]
      /\ UNCHANGED <<warm, warm_count, dispose, mapped, registry, resident, pool, hand, low,
                      bg_async, bg_ring_ok, disp, trim, deficit, todo, pending, inflight, cqes>>
  BY Zenon DEF BgTop, lockVars, spaceVars, flags, bgVars, ringVars
<1>1. /\ "wait" \in Positions
      /\ "wait" \in BgAt
      /\ Threads \subseteq Actors /\ Bg \in Actors /\ Bg \notin Threads
      /\ "wait" \notin Holding
      /\ "top" \notin Holding
      /\ \A a \in Actors : a # Bg => pc'[a] = pc[a]
      /\ pc'[Bg] = "wait"
  BY <1>0, StoreAssumption DEF TypeOK, Actors, Positions, ThreadAt, BgAt, Holding
<1>2. TypeOK'
  BY Zenon, <1>0, <1>1 DEF TypeOK
<1>3. PcInv'
  BY Zenon, <1>0, <1>1 DEF PcInv, TypeOK
<1>4. BgInv'
  BY Zenon, <1>0, <1>1 DEF BgInv, NoDisposalMissed, TypeOK
<1>5. RegInv'
  BY Zenon, <1>0, <1>1 DEF RegInv, TypeOK
<1>6. WarmInv'
  BY Zenon, <1>0, <1>1 DEF WarmInv, TypeOK
<1>7. CleanInv'
  BY Zenon, <1>0, <1>1 DEF CleanInv, Clean, TypeOK
<1>8. RingInv'
  BY Zenon, <1>0, <1>1 DEF RingInv, TypeOK
<1>9. PlaceInv' /\ MappedInv' /\ HeaderStaysResident'
  BY Zenon, <1>0, <1>1 DEF PlaceInv, MappedInv, HeaderStaysResident
<1> QED
  BY Zenon, <1>2, <1>3, <1>4, <1>5, <1>6, <1>7, <1>8, <1>9

\* It takes the queue as its own list.
LEMMA BgTakeInv ==
  ASSUME IInv, BgTop,
         ~(dispose = {} /\ warm_count >= WARM_LOW)
  PROVE  IInv'
<1> USE DEF IInv
<1>0. /\ pc[Bg] = "top"
      /\ disp' = dispose
      /\ dispose' = {}
      /\ pc' = [pc EXCEPT ![Bg] = "decommit"]
      /\ UNCHANGED <<warm, warm_count, mapped, registry, resident, pool, hand, low, bg_async,
                      bg_ring_ok, trim, deficit, todo, pending, inflight, cqes>>
  BY Zenon DEF BgTop, lockVars, spaceVars, flags, bgVars, ringVars
<1>1. /\ "decommit" \in Positions
      /\ "decommit" \in BgAt
      /\ Threads \subseteq Actors /\ Bg \in Actors /\ Bg \notin Threads
      /\ "decommit" \notin Holding
      /\ "top" \notin Holding
      /\ \A a \in Actors : a # Bg => pc'[a] = pc[a]
      /\ pc'[Bg] = "decommit"
  BY <1>0, StoreAssumption DEF TypeOK, Actors, Positions, ThreadAt, BgAt, Holding
<1>2. disp = {}
  BY Zenon, <1>0 DEF BgInv
<1>3. TypeOK'
  BY Zenon, <1>0, <1>1, <1>2 DEF TypeOK
<1>4. PcInv'
  BY Zenon, <1>0, <1>1, <1>2 DEF PcInv, TypeOK
<1>5. BgInv'
  BY Zenon, <1>0, <1>1, <1>2 DEF BgInv, NoDisposalMissed, TypeOK
<1>6. PlaceInv'
  BY Zenon, <1>0, <1>1, <1>2 DEF PlaceInv, TypeOK
<1>7. MappedInv'
  BY Zenon, <1>0, <1>1, <1>2 DEF MappedInv, TypeOK
<1>8. RegInv'
  BY Zenon, <1>0, <1>1, <1>2 DEF RegInv, TypeOK
<1>9. WarmInv'
  BY Zenon, <1>0, <1>1, <1>2 DEF WarmInv, TypeOK
<1>10. CleanInv'
  BY Zenon, <1>0, <1>1, <1>2 DEF CleanInv, Clean, TypeOK
<1>11. RingInv'
  BY Zenon, <1>0, <1>1, <1>2 DEF RingInv, TypeOK
<1>12. HeaderStaysResident'
  BY Zenon, <1>0, <1>1, <1>2 DEF HeaderStaysResident
<1> QED
  BY Zenon, <1>3, <1>4, <1>5, <1>6, <1>7, <1>8, <1>9, <1>10, <1>11, <1>12

\* A wait on the ring ends with every request accounted for, or fails.
LEMMA BgReapedAgainInv ==
  ASSUME IInv, BgReaped,
         todo # {}
  PROVE  IInv'
<1> USE DEF IInv
<1>0. /\ pc[Bg] = "reap"
      /\ pending = 0 \/ WaitFails
      /\ pc' = [pc EXCEPT ![Bg] = "submit"]
      /\ UNCHANGED <<warm, warm_count, dispose, mapped, registry, resident, pool, hand, low,
                      bg_async, bg_ring_ok, disp, trim, deficit, todo, pending, inflight, cqes>>
  BY Zenon DEF BgReaped, lockVars, spaceVars, flags, bgVars, ringVars
<1>1. /\ "submit" \in Positions
      /\ "submit" \in BgAt
      /\ Threads \subseteq Actors /\ Bg \in Actors /\ Bg \notin Threads
      /\ "submit" \notin Holding
      /\ "reap" \notin Holding
      /\ \A a \in Actors : a # Bg => pc'[a] = pc[a]
      /\ pc'[Bg] = "submit"
  BY <1>0, StoreAssumption DEF TypeOK, Actors, Positions, ThreadAt, BgAt, Holding
<1>2. bg_ring_ok
  BY Zenon, <1>0 DEF BgInv
<1>3. TypeOK'
  BY Zenon, <1>0, <1>1, <1>2 DEF TypeOK
<1>4. PcInv'
  BY Zenon, <1>0, <1>1, <1>2 DEF PcInv, TypeOK
<1>5. BgInv'
  BY Zenon, <1>0, <1>1, <1>2 DEF BgInv, NoDisposalMissed, TypeOK
<1>6. RegInv'
  BY Zenon, <1>0, <1>1, <1>2 DEF RegInv, TypeOK
<1>7. WarmInv'
  BY Zenon, <1>0, <1>1, <1>2 DEF WarmInv, TypeOK
<1>8. CleanInv'
  BY Zenon, <1>0, <1>1, <1>2 DEF CleanInv, Clean, TypeOK
<1>9. RingInv'
  <2>1. cqes \in Nat /\ Cardinality(inflight) \in Nat /\ (Cardinality(inflight) = 0 => inflight = {})
    BY Zenon, Counts DEF TypeOK
  <2>2. pending = 0 /\ pending = cqes + Cardinality(inflight) => cqes = 0 /\ Cardinality(inflight) = 0
    BY <2>1
  <2> QED
    BY Zenon, <1>0, <1>1, <2>1, <2>2 DEF RingInv
<1>10. PlaceInv' /\ MappedInv' /\ HeaderStaysResident'
  BY <1>0, <1>1, <1>2 DEF PlaceInv, MappedInv, HeaderStaysResident
<1> QED
  BY Zenon, <1>3, <1>4, <1>5, <1>6, <1>7, <1>8, <1>9, <1>10

\* The same, at the end of the list.
LEMMA BgReapedDoneInv ==
  ASSUME IInv, BgReaped,
         todo = {}
  PROVE  IInv'
<1> USE DEF IInv
<1>0. /\ pc[Bg] = "reap"
      /\ pending = 0 \/ WaitFails
      /\ pc' = [pc EXCEPT ![Bg] = "return"]
      /\ UNCHANGED <<warm, warm_count, dispose, mapped, registry, resident, pool, hand, low,
                      bg_async, bg_ring_ok, disp, trim, deficit, todo, pending, inflight, cqes>>
  BY Zenon DEF BgReaped, lockVars, spaceVars, flags, bgVars, ringVars
<1>1. /\ "return" \in Positions
      /\ "return" \in BgAt
      /\ Threads \subseteq Actors /\ Bg \in Actors /\ Bg \notin Threads
      /\ "return" \notin Holding
      /\ "reap" \notin Holding
      /\ \A a \in Actors : a # Bg => pc'[a] = pc[a]
      /\ pc'[Bg] = "return"
  BY <1>0, StoreAssumption DEF TypeOK, Actors, Positions, ThreadAt, BgAt, Holding
<1>2. bg_ring_ok
  BY Zenon, <1>0 DEF BgInv
<1>3. TypeOK'
  BY Zenon, <1>0, <1>1, <1>2 DEF TypeOK
<1>4. PcInv'
  BY Zenon, <1>0, <1>1, <1>2 DEF PcInv, TypeOK
<1>5. BgInv'
  BY Zenon, <1>0, <1>1, <1>2 DEF BgInv, NoDisposalMissed, TypeOK
<1>6. RegInv'
  BY Zenon, <1>0, <1>1, <1>2 DEF RegInv, TypeOK
<1>7. WarmInv'
  BY Zenon, <1>0, <1>1, <1>2 DEF WarmInv, TypeOK
<1>8. CleanInv'
  BY Zenon, <1>0, <1>1, <1>2 DEF CleanInv, Clean, TypeOK
<1>9. RingInv'
  <2>1. cqes \in Nat /\ Cardinality(inflight) \in Nat /\ (Cardinality(inflight) = 0 => inflight = {})
    BY Zenon, Counts DEF TypeOK
  <2>2. pending = 0 /\ pending = cqes + Cardinality(inflight) => cqes = 0 /\ Cardinality(inflight) = 0
    BY <2>1
  <2> QED
    BY Zenon, <1>0, <1>1, <2>1, <2>2 DEF RingInv
<1>10. PlaceInv' /\ MappedInv' /\ HeaderStaysResident'
  BY Zenon, <1>0, <1>1, <1>2 DEF PlaceInv, MappedInv, HeaderStaysResident
<1> QED
  BY Zenon, <1>3, <1>4, <1>5, <1>6, <1>7, <1>8, <1>9, <1>10

\* One completion is seen.
LEMMA BgReapInv ==
  ASSUME IInv, BgReap
  PROVE  IInv'
<1> USE DEF IInv
<1>0. /\ pc[Bg] = "reap"
      /\ pending > 0 /\ cqes > 0
      /\ pending' = pending - 1
      /\ cqes' = cqes - 1
      /\ UNCHANGED <<warm, warm_count, dispose, mapped, registry, resident, pool, pc, hand, low,
                      bg_async, bg_ring_ok, disp, trim, deficit, todo, inflight>>
  BY Zenon DEF BgReap, lockVars, spaceVars, flags, bgVars, ringVars
<1>1. TypeOK'
  BY <1>0 DEF TypeOK
<1>2. RingInv'
  <2>1. cqes \in Nat /\ pending \in Nat /\ Cardinality(inflight) \in Nat
    BY Zenon, Counts DEF TypeOK
  <2>2. pending = cqes + Cardinality(inflight) => pending' = cqes' + Cardinality(inflight')
    BY <1>0, <2>1
  <2> QED
    BY Zenon, <1>0, <2>2 DEF RingInv
<1>3. PcInv' /\ BgInv' /\ PlaceInv'
  BY Zenon, <1>0 DEF PcInv, BgInv, NoDisposalMissed, PlaceInv
<1>4. MappedInv' /\ RegInv' /\ WarmInv' /\ HeaderStaysResident' /\ CleanInv'
  BY Zenon, <1>0 DEF MappedInv, RegInv, WarmInv, HeaderStaysResident, CleanInv, Clean
<1> QED
  BY Zenon, <1>1, <1>2, <1>3, <1>4

\* Nothing is left to trim.
LEMMA BgTrimDoneInv ==
  ASSUME IInv, BgTrimDone
  PROVE  IInv'
<1> USE DEF IInv
<1>0. /\ pc[Bg] = "trim"
      /\ trim = {}
      /\ pc' = [pc EXCEPT ![Bg] = "premap"]
      /\ UNCHANGED <<warm, warm_count, dispose, mapped, registry, resident, pool, hand, low,
                      bg_async, bg_ring_ok, disp, trim, deficit, todo, pending, inflight, cqes>>
  BY Zenon DEF BgTrimDone, lockVars, spaceVars, flags, bgVars, ringVars
<1>1. /\ "premap" \in Positions
      /\ "premap" \in BgAt
      /\ Threads \subseteq Actors /\ Bg \in Actors /\ Bg \notin Threads
      /\ "premap" \notin Holding
      /\ "trim" \notin Holding
      /\ \A a \in Actors : a # Bg => pc'[a] = pc[a]
      /\ pc'[Bg] = "premap"
  BY <1>0, StoreAssumption DEF TypeOK, Actors, Positions, ThreadAt, BgAt, Holding
<1>2. TypeOK'
  BY Zenon, <1>0, <1>1 DEF TypeOK
<1>3. PcInv'
  BY Zenon, <1>0, <1>1 DEF PcInv, TypeOK
<1>4. BgInv'
  BY Zenon, <1>0, <1>1 DEF BgInv, NoDisposalMissed, TypeOK
<1>5. RegInv'
  BY Zenon, <1>0, <1>1 DEF RegInv, TypeOK
<1>6. WarmInv'
  BY Zenon, <1>0, <1>1 DEF WarmInv, TypeOK
<1>7. CleanInv'
  BY Zenon, <1>0, <1>1 DEF CleanInv, Clean, TypeOK
<1>8. RingInv'
  BY Zenon, <1>0, <1>1 DEF RingInv, TypeOK
<1>9. PlaceInv' /\ MappedInv' /\ HeaderStaysResident'
  BY Zenon, <1>0, <1>1 DEF PlaceInv, MappedInv, HeaderStaysResident
<1> QED
  BY Zenon, <1>2, <1>3, <1>4, <1>5, <1>6, <1>7, <1>8, <1>9

\* A trimmed chunk is taken out of the registry first.
LEMMA BgTrimRemoveInv ==
  ASSUME IInv, NEW c \in trim, BgTrimRemove,
         btm_registry_remove(c),
         trim' = trim \ {c},
         hand' = [hand EXCEPT ![Bg] = c]
  PROVE  IInv'
<1> USE DEF IInv
<1>0. /\ pc[Bg] = "trim"
      /\ c \in Chunks /\ c \in trim
      /\ registry' = registry \ {c}
      /\ trim' = trim \ {c}
      /\ hand' = [hand EXCEPT ![Bg] = c]
      /\ pc' = [pc EXCEPT ![Bg] = "unmap"]
      /\ UNCHANGED <<warm, warm_count, dispose, mapped, resident, pool, low, bg_async, bg_ring_ok,
                      disp, deficit, todo, pending, inflight, cqes>>
  BY Zenon DEF BgTrimRemove, btm_registry_remove, lockVars, spaceVars, flags, bgVars, ringVars, TypeOK
<1>1. /\ "unmap" \in Positions
      /\ "unmap" \in BgAt
      /\ Threads \subseteq Actors /\ Bg \in Actors /\ Bg \notin Threads
      /\ "unmap" \in Holding
      /\ "trim" \notin Holding
      /\ \A a \in Actors : a # Bg => pc'[a] = pc[a]
      /\ pc'[Bg] = "unmap"
  BY <1>0, StoreAssumption DEF TypeOK, Actors, Positions, ThreadAt, BgAt, Holding
<1>2. /\ c # NoChunk /\ hand[Bg] = NoChunk /\ c \in mapped
      /\ \A a \in Actors : hand[a] # c
  <2>1. hand[Bg] = NoChunk
    BY Zenon, <1>0, <1>1 DEF PcInv
  <2>2. c # NoChunk /\ c \in mapped
    BY Zenon, <1>0, StoreAssumption DEF MappedInv
  <2>3. \A a \in Actors : hand[a] # c
    BY Zenon, <1>0, <2>2 DEF PlaceInv
  <2> QED
    BY Zenon, <2>1, <2>2, <2>3
<1>3. TypeOK'
  BY Zenon, <1>0, <1>1, <1>2 DEF TypeOK
<1>4. PcInv'
  BY Zenon, <1>0, <1>1, <1>2 DEF PcInv, TypeOK
<1>5. BgInv'
  BY Zenon, <1>0, <1>1, <1>2 DEF BgInv, NoDisposalMissed, TypeOK
<1>6. PlaceInv'
  BY <1>0, <1>1, <1>2 DEF PlaceInv, TypeOK
<1>7. MappedInv'
  <2>1. \A a \in Actors : a # Bg => hand'[a] = hand[a]
    BY Zenon, <1>0 DEF TypeOK
  <2>2. hand'[Bg] = c
    BY Zenon, <1>0, <1>1 DEF TypeOK
  <2>3. \A d \in mapped : hand[Bg] # d
    BY Zenon, <1>2, StoreAssumption DEF TypeOK
  <2>4. \A d \in mapped : (\E a \in Actors : hand[a] = d) => \E a \in Actors : hand'[a] = d
    BY Zenon, <2>1, <2>3
  <2> QED
    BY Zenon, <1>0, <1>1, <1>2, <2>1, <2>2, <2>4 DEF MappedInv
<1>8. RegInv'
  BY <1>0, <1>1, <1>2 DEF RegInv, TypeOK, PlaceInv
<1>9. WarmInv'
  BY Zenon, <1>0, <1>1, <1>2 DEF WarmInv, TypeOK
<1>10. CleanInv'
  BY <1>0, <1>1, <1>2 DEF CleanInv, Clean, TypeOK
<1>11. RingInv'
  BY Zenon, <1>0, <1>1, <1>2 DEF RingInv, TypeOK
<1>12. HeaderStaysResident'
  BY Zenon, <1>0, <1>1, <1>2 DEF HeaderStaysResident
<1> QED
  BY Zenon, <1>3, <1>4, <1>5, <1>6, <1>7, <1>8, <1>9, <1>10, <1>11, <1>12

\* munmap takes a chunk that only the maintenance thread has.
LEMMA BgTrimUnmapInv ==
  ASSUME IInv, BgTrimUnmap
  PROVE  IInv'
<1> USE DEF IInv
<1>0. /\ pc[Bg] = "unmap"
      /\ mapped' = mapped \ {hand[Bg]}
      /\ resident' = [resident EXCEPT ![hand[Bg]] = {}]
      /\ hand' = [hand EXCEPT ![Bg] = NoChunk]
      /\ pc' = [pc EXCEPT ![Bg] = "trim"]
      /\ UNCHANGED <<warm, warm_count, dispose, registry, pool, low, bg_async, bg_ring_ok, disp,
                      trim, deficit, todo, pending, inflight, cqes>>
  BY Zenon DEF BgTrimUnmap, munmap, lockVars, spaceVars, flags, bgVars, ringVars
<1>1. /\ "trim" \in Positions
      /\ "trim" \in BgAt
      /\ Threads \subseteq Actors /\ Bg \in Actors /\ Bg \notin Threads
      /\ "trim" \notin Holding
      /\ "unmap" \in Holding
      /\ \A a \in Actors : a # Bg => pc'[a] = pc[a]
      /\ pc'[Bg] = "trim"
  BY <1>0, StoreAssumption DEF TypeOK, Actors, Positions, ThreadAt, BgAt, Holding
<1>2. /\ hand[Bg] \in Chunks /\ hand[Bg] # NoChunk /\ hand[Bg] \in mapped
      /\ \A a \in Actors : hand[a] = hand[Bg] => a = Bg
  <2>1. hand[Bg] \in Chunks /\ hand[Bg] # NoChunk
    BY Zenon, <1>0, <1>1, StoreAssumption DEF TypeOK, PcInv
  <2> QED
    BY Zenon, <1>0, <1>1, <2>1 DEF PlaceInv, MappedInv
<1>3. TypeOK'
  BY Zenon, <1>0, <1>1, <1>2 DEF TypeOK
<1>4. PcInv'
  BY Zenon, <1>0, <1>1, <1>2 DEF PcInv, TypeOK
<1>5. BgInv'
  BY Zenon, <1>0, <1>1, <1>2 DEF BgInv, NoDisposalMissed, TypeOK
<1>6. PlaceInv'
  BY Zenon, <1>0, <1>1, <1>2 DEF PlaceInv, TypeOK
<1>7. MappedInv'
  BY <1>0, <1>1, <1>2 DEF MappedInv, TypeOK, PlaceInv
<1>8. RegInv'
  BY <1>0, <1>1, <1>2 DEF RegInv, TypeOK, PlaceInv
<1>9. WarmInv'
  BY Zenon, <1>0, <1>1, <1>2 DEF WarmInv, TypeOK
<1>10. HeaderStaysResident'
  BY Zenon, <1>0, <1>1, <1>2 DEF HeaderStaysResident, TypeOK
<1>11. CleanInv'
  BY <1>0, <1>1, <1>2 DEF CleanInv, Clean, TypeOK
<1>12. RingInv'
  BY Zenon, <1>0, <1>1, <1>2 DEF RingInv, TypeOK
<1> QED
  BY Zenon, <1>3, <1>4, <1>5, <1>6, <1>7, <1>8, <1>9, <1>10, <1>11, <1>12

\* The address becomes known before the chunk is pushed.
LEMMA BgInsertInv ==
  ASSUME IInv, BgInsert
  PROVE  IInv'
<1> USE DEF IInv
<1>0. /\ pc[Bg] = "insert"
      /\ registry' = registry \cup {hand[Bg]}
      /\ pc' = [pc EXCEPT ![Bg] = "push"]
      /\ UNCHANGED <<warm, warm_count, dispose, mapped, resident, pool, hand, low, bg_async,
                      bg_ring_ok, disp, trim, deficit, todo, pending, inflight, cqes>>
  BY Zenon DEF BgInsert, btm_registry_insert, lockVars, spaceVars, flags, bgVars, ringVars
<1>1. /\ "push" \in Positions
      /\ "push" \in BgAt
      /\ Threads \subseteq Actors /\ Bg \in Actors /\ Bg \notin Threads
      /\ "push" \in Holding
      /\ "insert" \in Holding
      /\ \A a \in Actors : a # Bg => pc'[a] = pc[a]
      /\ pc'[Bg] = "push"
  BY <1>0, StoreAssumption DEF TypeOK, Actors, Positions, ThreadAt, BgAt, Holding
<1>2. /\ hand[Bg] \in Chunks /\ hand[Bg] # NoChunk /\ hand[Bg] \in mapped
      /\ \A a \in Actors : hand[a] = hand[Bg] => a = Bg
  <2>1. hand[Bg] \in Chunks /\ hand[Bg] # NoChunk
    BY Zenon, <1>0, <1>1, StoreAssumption DEF TypeOK, PcInv
  <2> QED
    BY Zenon, <1>0, <1>1, <2>1 DEF PlaceInv, MappedInv
<1>3. TypeOK'
  BY Zenon, <1>0, <1>1, <1>2 DEF TypeOK
<1>4. PcInv'
  BY Zenon, <1>0, <1>1, <1>2 DEF PcInv, TypeOK
<1>5. BgInv'
  BY Zenon, <1>0, <1>1, <1>2 DEF BgInv, NoDisposalMissed, TypeOK
<1>6. RegInv'
  BY Zenon, <1>0, <1>1, <1>2 DEF RegInv, TypeOK
<1>7. WarmInv'
  BY Zenon, <1>0, <1>1, <1>2 DEF WarmInv, TypeOK
<1>8. CleanInv'
  BY Zenon, <1>0, <1>1, <1>2 DEF CleanInv, Clean, TypeOK
<1>9. RingInv'
  BY Zenon, <1>0, <1>1, <1>2 DEF RingInv, TypeOK
<1>10. PlaceInv' /\ MappedInv' /\ HeaderStaysResident'
  BY Zenon, <1>0, <1>1, <1>2 DEF PlaceInv, MappedInv, HeaderStaysResident
<1> QED
  BY Zenon, <1>3, <1>4, <1>5, <1>6, <1>7, <1>8, <1>9, <1>10

\* A freshly mapped chunk is in no other place and not in the registry.
LEMMA ObtainMapInv ==
  ASSUME IInv, NEW t \in Threads, NEW c \in Chunks, ObtainMap(t),
         mmap(t, c),
         pc' = [pc EXCEPT ![t] = "insert"]
  PROVE  IInv'
<1> USE DEF IInv
<1>0. /\ pc[t] = "map"
      /\ c \in Chunks \ mapped
      /\ mapped' = mapped \cup {c}
      /\ resident' = [resident EXCEPT ![c] = {0}]
      /\ hand' = [hand EXCEPT ![t] = c]
      /\ pc' = [pc EXCEPT ![t] = "insert"]
      /\ UNCHANGED <<warm, warm_count, dispose, registry, pool, low, bg_async, bg_ring_ok, disp,
                      trim, deficit, todo, pending, inflight, cqes>>
  BY Zenon DEF ObtainMap, mmap, lockVars, spaceVars, flags, bgVars, ringVars
<1>1. /\ "insert" \in Positions
      /\ "insert" \in ThreadAt
      /\ Threads \subseteq Actors /\ t # Bg /\ t \in Actors /\ Bg \in Actors /\ pc'[Bg] = pc[Bg]
      /\ "insert" \in Holding
      /\ "map" \notin Holding
      /\ \A a \in Actors : a # t => pc'[a] = pc[a]
      /\ pc'[t] = "insert"
  BY <1>0, StoreAssumption DEF TypeOK, Actors, Positions, ThreadAt, BgAt, Holding
<1>2. /\ c # NoChunk /\ hand[t] = NoChunk /\ c \notin mapped
      /\ c \notin warm /\ c \notin dispose /\ c \notin disp /\ c \notin trim /\ pool[c] = NoPool
      /\ \A a \in Actors : hand[a] # c
      /\ hand'[t] = c /\ \A a \in Actors : a # t => hand'[a] = hand[a]
  <2>1. c # NoChunk /\ hand[t] = NoChunk
    BY Zenon, <1>0, <1>1, StoreAssumption DEF PcInv
  <2>2. /\ c \notin warm /\ c \notin dispose /\ c \notin disp /\ c \notin trim /\ pool[c] = NoPool
        /\ \A a \in Actors : hand[a] # c
    BY Zenon, <1>0, <2>1 DEF MappedInv
  <2>3. hand'[t] = c /\ \A a \in Actors : a # t => hand'[a] = hand[a]
    BY Zenon, <1>0, <1>1 DEF TypeOK
  <2> QED
    BY Zenon, <1>0, <2>1, <2>2, <2>3
<1>3. TypeOK'
  BY <1>0, <1>1, <1>2, PageFacts DEF TypeOK
<1>4. PcInv'
  BY Zenon, <1>0, <1>1, <1>2 DEF PcInv, TypeOK
<1>5. PlaceInv'
  BY <1>0, <1>1, <1>2 DEF PlaceInv, TypeOK
<1>6. MappedInv'
  <2>1. \A a \in Actors : a # t => hand'[a] = hand[a]
    BY Zenon, <1>2
  <2>2. \A d \in mapped : (\E a \in Actors : hand[a] = d) => \E a \in Actors : hand'[a] = d
    <3>1. NoChunk \notin mapped
      BY Zenon, StoreAssumption DEF TypeOK
    <3> QED
      BY Zenon, <1>1, <1>2, <3>1
  <2>3. \A d \in Chunks :
          d \in warm' \/ d \in dispose' \/ d \in disp' \/ d \in trim' \/ pool'[d] # NoPool => d \in mapped'
    BY Zenon, <1>0, <1>2 DEF MappedInv
  <2>4. \A a \in Actors : hand'[a] # NoChunk => hand'[a] \in mapped'
    BY <1>0, <1>1, <1>2, <2>1 DEF MappedInv
  <2>5. \A d \in mapped' :
          \/ d \in warm' \/ d \in dispose' \/ d \in disp' \/ d \in trim' \/ pool'[d] # NoPool
          \/ \E a \in Actors : hand'[a] = d
    BY Zenon, <1>0, <1>1, <1>2, <2>2 DEF MappedInv
  <2> QED
    BY Zenon, <2>3, <2>4, <2>5 DEF MappedInv
<1>7. RegInv'
  BY <1>0, <1>1, <1>2 DEF RegInv, TypeOK
<1>8. HeaderStaysResident'
  BY <1>0, <1>1, <1>2, PageFacts DEF HeaderStaysResident, TypeOK
<1>9. CleanInv'
  BY <1>0, <1>1, <1>2 DEF CleanInv, Clean, TypeOK
<1>10. BgInv' /\ WarmInv' /\ RingInv'
  BY Zenon, <1>0, <1>1, <1>2 DEF BgInv, NoDisposalMissed, WarmInv, RingInv
<1> QED
  BY Zenon, <1>3, <1>4, <1>5, <1>6, <1>7, <1>8, <1>9, <1>10

\* mmap fails.
LEMMA ObtainNullInv ==
  ASSUME IInv, NEW t \in Threads, ObtainMap(t),
         pc' = [pc EXCEPT ![t] = "idle"],
         UNCHANGED <<mapped, resident, hand>>
  PROVE  IInv'
<1> USE DEF IInv
<1>0. /\ pc[t] = "map"
      /\ pc' = [pc EXCEPT ![t] = "idle"]
      /\ UNCHANGED <<warm, warm_count, dispose, mapped, registry, resident, pool, hand, low,
                      bg_async, bg_ring_ok, disp, trim, deficit, todo, pending, inflight, cqes>>
  BY Zenon DEF ObtainMap, lockVars, spaceVars, flags, bgVars, ringVars
<1>1. /\ "idle" \in Positions
      /\ "idle" \in ThreadAt
      /\ Threads \subseteq Actors /\ t # Bg /\ t \in Actors /\ Bg \in Actors /\ pc'[Bg] = pc[Bg]
      /\ "idle" \notin Holding
      /\ "map" \notin Holding
      /\ \A a \in Actors : a # t => pc'[a] = pc[a]
      /\ pc'[t] = "idle"
  BY <1>0, StoreAssumption DEF TypeOK, Actors, Positions, ThreadAt, BgAt, Holding
<1>2. TypeOK'
  BY Zenon, <1>0, <1>1 DEF TypeOK
<1>3. PcInv'
  BY Zenon, <1>0, <1>1 DEF PcInv, TypeOK
<1>4. RegInv'
  BY Zenon, <1>0, <1>1 DEF RegInv, TypeOK
<1>5. CleanInv'
  BY Zenon, <1>0, <1>1 DEF CleanInv, Clean, TypeOK
<1>6. BgInv' /\ PlaceInv' /\ MappedInv'
  BY <1>0, <1>1 DEF BgInv, NoDisposalMissed, PlaceInv, MappedInv
<1>7. WarmInv' /\ HeaderStaysResident' /\ RingInv'
  BY Zenon, <1>0, <1>1 DEF WarmInv, HeaderStaysResident, RingInv
<1> QED
  BY Zenon, <1>2, <1>3, <1>4, <1>5, <1>6, <1>7

\* A chunk mapped ahead of demand is in no other place either.
LEMMA BgPremapInv ==
  ASSUME IInv, NEW c \in Chunks, BgPremap,
         deficit > 0,
         mmap(Bg, c),
         pc' = [pc EXCEPT ![Bg] = "insert"]
  PROVE  IInv'
<1> USE DEF IInv
<1>0. /\ pc[Bg] = "premap"
      /\ deficit > 0
      /\ c \in Chunks \ mapped
      /\ mapped' = mapped \cup {c}
      /\ resident' = [resident EXCEPT ![c] = {0}]
      /\ hand' = [hand EXCEPT ![Bg] = c]
      /\ pc' = [pc EXCEPT ![Bg] = "insert"]
      /\ UNCHANGED <<warm, warm_count, dispose, registry, pool, low, bg_async, bg_ring_ok, disp,
                      trim, deficit, todo, pending, inflight, cqes>>
  BY Zenon DEF BgPremap, mmap, lockVars, spaceVars, flags, bgVars, ringVars
<1>1. /\ "insert" \in Positions
      /\ "insert" \in BgAt
      /\ Threads \subseteq Actors /\ Bg \in Actors /\ Bg \notin Threads
      /\ "insert" \in Holding
      /\ "premap" \notin Holding
      /\ \A a \in Actors : a # Bg => pc'[a] = pc[a]
      /\ pc'[Bg] = "insert"
  BY <1>0, StoreAssumption DEF TypeOK, Actors, Positions, ThreadAt, BgAt, Holding
<1>2. /\ c # NoChunk /\ hand[Bg] = NoChunk /\ c \notin mapped
      /\ c \notin warm /\ c \notin dispose /\ c \notin disp /\ c \notin trim /\ pool[c] = NoPool
      /\ \A a \in Actors : hand[a] # c
      /\ hand'[Bg] = c /\ \A a \in Actors : a # Bg => hand'[a] = hand[a]
  <2>1. c # NoChunk /\ hand[Bg] = NoChunk
    BY Zenon, <1>0, <1>1, StoreAssumption DEF PcInv
  <2>2. /\ c \notin warm /\ c \notin dispose /\ c \notin disp /\ c \notin trim /\ pool[c] = NoPool
        /\ \A a \in Actors : hand[a] # c
    BY Zenon, <1>0, <2>1 DEF MappedInv
  <2>3. hand'[Bg] = c /\ \A a \in Actors : a # Bg => hand'[a] = hand[a]
    BY Zenon, <1>0, <1>1 DEF TypeOK
  <2> QED
    BY Zenon, <1>0, <2>1, <2>2, <2>3
<1>3. TypeOK'
  BY <1>0, <1>1, <1>2, PageFacts DEF TypeOK
<1>4. PcInv'
  BY Zenon, <1>0, <1>1, <1>2 DEF PcInv, TypeOK
<1>5. BgInv'
  BY Zenon, <1>0, <1>1, <1>2 DEF BgInv, NoDisposalMissed, TypeOK
<1>6. PlaceInv'
  BY <1>0, <1>1, <1>2 DEF PlaceInv, TypeOK
<1>7. MappedInv'
  <2>1. \A a \in Actors : a # Bg => hand'[a] = hand[a]
    BY Zenon, <1>2
  <2>2. \A d \in mapped : (\E a \in Actors : hand[a] = d) => \E a \in Actors : hand'[a] = d
    <3>1. NoChunk \notin mapped
      BY Zenon, StoreAssumption DEF TypeOK
    <3> QED
      BY Zenon, <1>1, <1>2, <3>1
  <2>3. \A d \in Chunks :
          d \in warm' \/ d \in dispose' \/ d \in disp' \/ d \in trim' \/ pool'[d] # NoPool => d \in mapped'
    BY Zenon, <1>0, <1>2 DEF MappedInv
  <2>4. \A a \in Actors : hand'[a] # NoChunk => hand'[a] \in mapped'
    BY <1>0, <1>1, <1>2, <2>1 DEF MappedInv
  <2>5. \A d \in mapped' :
          \/ d \in warm' \/ d \in dispose' \/ d \in disp' \/ d \in trim' \/ pool'[d] # NoPool
          \/ \E a \in Actors : hand'[a] = d
    BY Zenon, <1>0, <1>1, <1>2, <2>2 DEF MappedInv
  <2> QED
    BY Zenon, <2>3, <2>4, <2>5 DEF MappedInv
<1>8. RegInv'
  BY <1>0, <1>1, <1>2 DEF RegInv, TypeOK
<1>9. WarmInv'
  BY Zenon, <1>0, <1>1, <1>2 DEF WarmInv, TypeOK
<1>10. HeaderStaysResident'
  BY <1>0, <1>1, <1>2, PageFacts DEF HeaderStaysResident, TypeOK
<1>11. CleanInv'
  BY <1>0, <1>1, <1>2, PageFacts DEF CleanInv, Clean, TypeOK
<1>12. RingInv'
  BY Zenon, <1>0, <1>1, <1>2 DEF RingInv, TypeOK
<1> QED
  BY Zenon, <1>3, <1>4, <1>5, <1>6, <1>7, <1>8, <1>9, <1>10, <1>11, <1>12

\* Nothing is left to map, or mmap fails.
LEMMA BgPremapDoneInv ==
  ASSUME IInv, BgPremap,
         pc' = [pc EXCEPT ![Bg] = "top"],
         UNCHANGED <<mapped, resident, hand>>
  PROVE  IInv'
<1> USE DEF IInv
<1>0. /\ pc[Bg] = "premap"
      /\ pc' = [pc EXCEPT ![Bg] = "top"]
      /\ UNCHANGED <<warm, warm_count, dispose, mapped, registry, resident, pool, hand, low,
                      bg_async, bg_ring_ok, disp, trim, deficit, todo, pending, inflight, cqes>>
  BY Zenon DEF BgPremap, lockVars, spaceVars, flags, bgVars, ringVars
<1>1. /\ "top" \in Positions
      /\ "top" \in BgAt
      /\ Threads \subseteq Actors /\ Bg \in Actors /\ Bg \notin Threads
      /\ "top" \notin Holding
      /\ "premap" \notin Holding
      /\ \A a \in Actors : a # Bg => pc'[a] = pc[a]
      /\ pc'[Bg] = "top"
  BY <1>0, StoreAssumption DEF TypeOK, Actors, Positions, ThreadAt, BgAt, Holding
<1>2. TypeOK'
  BY Zenon, <1>0, <1>1 DEF TypeOK
<1>3. PcInv'
  BY Zenon, <1>0, <1>1 DEF PcInv, TypeOK
<1>4. BgInv'
  BY Zenon, <1>0, <1>1 DEF BgInv, NoDisposalMissed, TypeOK
<1>5. RegInv'
  BY Zenon, <1>0, <1>1 DEF RegInv, TypeOK
<1>6. WarmInv'
  BY Zenon, <1>0, <1>1 DEF WarmInv, TypeOK
<1>7. CleanInv'
  BY Zenon, <1>0, <1>1 DEF CleanInv, Clean, TypeOK
<1>8. RingInv'
  BY Zenon, <1>0, <1>1 DEF RingInv, TypeOK
<1>9. PlaceInv' /\ MappedInv' /\ HeaderStaysResident'
  BY <1>0, <1>1 DEF PlaceInv, MappedInv, HeaderStaysResident
<1> QED
  BY Zenon, <1>2, <1>3, <1>4, <1>5, <1>6, <1>7, <1>8, <1>9

\* A warm chunk goes into the hands of one thread, and is counted out.
LEMMA ObtainPopInv ==
  ASSUME IInv, NEW t \in Threads, NEW c \in warm, ObtainPop(t),
         warm' = warm \ {c},
         warm_count' = warm_count - 1,
         hand' = [hand EXCEPT ![t] = c],
         pc' = [pc EXCEPT ![t] = "signal"]
  PROVE  IInv'
<1> USE DEF IInv
<1>0. /\ pc[t] = "idle"
      /\ c \in Chunks /\ c \in warm
      /\ warm' = warm \ {c}
      /\ warm_count' = warm_count - 1
      /\ hand' = [hand EXCEPT ![t] = c]
      /\ low' = [low EXCEPT ![t] = warm_count' < WARM_LOW]
      /\ pc' = [pc EXCEPT ![t] = "signal"]
      /\ UNCHANGED <<dispose, mapped, registry, resident, pool, bg_async, bg_ring_ok, disp, trim,
                      deficit, todo, pending, inflight, cqes>>
  BY Zenon DEF ObtainPop, lockVars, spaceVars, flags, bgVars, ringVars, TypeOK
<1>1. /\ "signal" \in Positions
      /\ "signal" \in ThreadAt
      /\ Threads \subseteq Actors /\ t # Bg /\ t \in Actors /\ Bg \in Actors /\ pc'[Bg] = pc[Bg]
      /\ "signal" \in Holding
      /\ "idle" \notin Holding
      /\ \A a \in Actors : a # t => pc'[a] = pc[a]
      /\ pc'[t] = "signal"
  BY <1>0, StoreAssumption DEF TypeOK, Actors, Positions, ThreadAt, BgAt, Holding
<1>2. /\ c # NoChunk /\ hand[t] = NoChunk /\ c \in mapped /\ c \in registry
      /\ hand'[t] = c /\ \A a \in Actors : a # t => hand'[a] = hand[a]
  <2>1. c # NoChunk /\ hand[t] = NoChunk
    BY Zenon, <1>0, <1>1, StoreAssumption DEF PcInv
  <2>2. c \in mapped /\ c \in registry
    BY Zenon, <1>0 DEF MappedInv, RegInv
  <2>3. hand'[t] = c /\ \A a \in Actors : a # t => hand'[a] = hand[a]
    BY Zenon, <1>0, <1>1 DEF TypeOK
  <2> QED
    BY Zenon, <2>1, <2>2, <2>3
<1>3. warm_count \in Nat /\ warm_count' \in Nat /\ Cardinality(warm') = warm_count'
  <2>1. /\ Cardinality(warm) \in Nat /\ Cardinality(warm) > 0
        /\ Cardinality(warm \ {c}) = Cardinality(warm) - 1
    BY Zenon, <1>0, Counts DEF TypeOK
  <2> QED
    BY <1>0, <2>1 DEF WarmInv
<1>4. TypeOK'
  BY <1>0, <1>1, <1>2, <1>3 DEF TypeOK
<1>5. PcInv'
  BY <1>0, <1>1, <1>2, <1>3 DEF PcInv, TypeOK
<1>6. PlaceInv'
  BY <1>0, <1>1, <1>2, <1>3 DEF PlaceInv, TypeOK
<1>7. MappedInv'
  <2>1. \A a \in Actors : a # t => hand'[a] = hand[a]
    BY Zenon, <1>2
  <2>2. \A d \in mapped : (\E a \in Actors : hand[a] = d) => \E a \in Actors : hand'[a] = d
    <3>1. NoChunk \notin mapped
      BY Zenon, StoreAssumption DEF TypeOK
    <3> QED
      BY Zenon, <1>1, <1>2, <3>1
  <2>3. \A d \in Chunks :
          d \in warm' \/ d \in dispose' \/ d \in disp' \/ d \in trim' \/ pool'[d] # NoPool => d \in mapped'
    BY Zenon, <1>0, <1>2 DEF MappedInv
  <2>4. \A a \in Actors : hand'[a] # NoChunk => hand'[a] \in mapped'
    BY <1>0, <1>1, <1>2, <2>1 DEF MappedInv
  <2>5. \A d \in mapped' :
          \/ d \in warm' \/ d \in dispose' \/ d \in disp' \/ d \in trim' \/ pool'[d] # NoPool
          \/ \E a \in Actors : hand'[a] = d
    BY Zenon, <1>0, <1>1, <1>2, <2>2 DEF MappedInv
  <2> QED
    BY Zenon, <2>3, <2>4, <2>5 DEF MappedInv
<1>8. RegInv'
  BY Zenon, <1>0, <1>1, <1>2, <1>3 DEF RegInv, TypeOK, PlaceInv
<1>9. WarmInv'
  <2>1. warm_count \in Nat /\ warm_count' = warm_count - 1 /\ deficit \in Int
    BY Zenon, <1>0, <1>3 DEF TypeOK
  <2>2. /\ warm_count <= WARM_HIGH + WARM_LOW => warm_count' <= WARM_HIGH + WARM_LOW
        /\ warm_count + deficit <= WARM_HIGH + WARM_LOW => warm_count' + deficit <= WARM_HIGH + WARM_LOW
    BY <2>1, StoreAssumption
  <2> QED
    BY Zenon, <1>0, <1>1, <1>3, <2>2 DEF WarmInv
<1>10. CleanInv'
  BY <1>0, <1>1, <1>2, <1>3 DEF CleanInv, Clean, TypeOK
<1>11. BgInv' /\ HeaderStaysResident' /\ RingInv'
  BY Zenon, <1>0, <1>1, <1>2, <1>3 DEF BgInv, NoDisposalMissed, HeaderStaysResident, RingInv
<1> QED
  BY Zenon, <1>4, <1>5, <1>6, <1>7, <1>8, <1>9, <1>10, <1>11

\* With no warm chunk, one has to be mapped.
LEMMA ObtainEmptyInv ==
  ASSUME IInv, NEW t \in Threads, ObtainPop(t),
         warm = {},
         pc' = [pc EXCEPT ![t] = "map"],
         UNCHANGED <<warm, warm_count, hand>>
  PROVE  IInv'
<1> USE DEF IInv
<1>0. /\ pc[t] = "idle"
      /\ low' = [low EXCEPT ![t] = warm_count < WARM_LOW]
      /\ pc' = [pc EXCEPT ![t] = "map"]
      /\ UNCHANGED <<warm, warm_count, dispose, mapped, registry, resident, pool, hand, bg_async,
                      bg_ring_ok, disp, trim, deficit, todo, pending, inflight, cqes>>
  BY Zenon DEF ObtainPop, lockVars, spaceVars, flags, bgVars, ringVars
<1>1. /\ "map" \in Positions
      /\ "map" \in ThreadAt
      /\ Threads \subseteq Actors /\ t # Bg /\ t \in Actors /\ Bg \in Actors /\ pc'[Bg] = pc[Bg]
      /\ "map" \notin Holding
      /\ "idle" \notin Holding
      /\ \A a \in Actors : a # t => pc'[a] = pc[a]
      /\ pc'[t] = "map"
  BY <1>0, StoreAssumption DEF TypeOK, Actors, Positions, ThreadAt, BgAt, Holding
<1>2. TypeOK'
  BY <1>0, <1>1 DEF TypeOK
<1>3. PcInv'
  BY Zenon, <1>0, <1>1 DEF PcInv, TypeOK
<1>4. RegInv'
  BY Zenon, <1>0, <1>1 DEF RegInv, TypeOK
<1>5. CleanInv'
  BY Zenon, <1>0, <1>1 DEF CleanInv, Clean, TypeOK
<1>6. BgInv' /\ PlaceInv' /\ MappedInv'
  BY <1>0, <1>1 DEF BgInv, NoDisposalMissed, PlaceInv, MappedInv
<1>7. WarmInv' /\ HeaderStaysResident' /\ RingInv'
  BY Zenon, <1>0, <1>1 DEF WarmInv, HeaderStaysResident, RingInv
<1> QED
  BY Zenon, <1>2, <1>3, <1>4, <1>5, <1>6, <1>7

\* A decommitted chunk is recycled while the warm pool is below its high mark.
LEMMA DisposeRecycleInv ==
  ASSUME IInv, NEW t \in Threads, DisposeRecycle(t),
         warm_count < WARM_HIGH
  PROVE  IInv'
<1> USE DEF IInv
<1>0. /\ pc[t] = "recycle"
      /\ warm_count < WARM_HIGH
      /\ warm' = warm \cup {hand[t]}
      /\ warm_count' = warm_count + 1
      /\ hand' = [hand EXCEPT ![t] = NoChunk]
      /\ pc' = [pc EXCEPT ![t] = "idle"]
      /\ UNCHANGED <<dispose, mapped, registry, resident, pool, low, bg_async, bg_ring_ok, disp,
                      trim, deficit, todo, pending, inflight, cqes>>
  BY Zenon DEF DisposeRecycle, lockVars, spaceVars, flags, bgVars, ringVars
<1>1. /\ "idle" \in Positions
      /\ "idle" \in ThreadAt
      /\ Threads \subseteq Actors /\ t # Bg /\ t \in Actors /\ Bg \in Actors /\ pc'[Bg] = pc[Bg]
      /\ "idle" \notin Holding
      /\ "recycle" \in Holding
      /\ \A a \in Actors : a # t => pc'[a] = pc[a]
      /\ pc'[t] = "idle"
  BY <1>0, StoreAssumption DEF TypeOK, Actors, Positions, ThreadAt, BgAt, Holding
<1>2. /\ hand[t] \in Chunks /\ hand[t] # NoChunk /\ hand[t] \in mapped
      /\ \A a \in Actors : hand[a] = hand[t] => a = t
  <2>1. hand[t] \in Chunks /\ hand[t] # NoChunk
    BY Zenon, <1>0, <1>1, StoreAssumption DEF TypeOK, PcInv
  <2> QED
    BY Zenon, <1>0, <1>1, <2>1 DEF PlaceInv, MappedInv
<1>3. warm_count' \in Nat /\ Cardinality(warm') = warm_count'
  <2>1. hand[t] \notin warm
    BY Zenon, <1>1, <1>2 DEF PlaceInv
  <2>2. Cardinality(warm) \in Nat /\ Cardinality(warm') = Cardinality(warm) + 1
    BY Zenon, <1>0, <1>2, <2>1, Counts DEF TypeOK
  <2> QED
    BY <1>0, <2>2 DEF WarmInv
<1>4. TypeOK'
  BY Zenon, <1>0, <1>1, <1>2, <1>3 DEF TypeOK
<1>5. PcInv'
  BY Zenon, <1>0, <1>1, <1>2, <1>3 DEF PcInv, TypeOK
<1>6. PlaceInv'
  BY <1>0, <1>1, <1>2, <1>3 DEF PlaceInv, TypeOK
<1>7. MappedInv'
  <2>1. hand'[t] = NoChunk /\ \A a \in Actors : a # t => hand'[a] = hand[a]
    BY Zenon, <1>0, <1>1 DEF TypeOK
  <2>2. \A d \in mapped : (\E a \in Actors : hand[a] = d) => d \in warm' \/ \E a \in Actors : hand'[a] = d
    BY Zenon, <1>0, <2>1
  <2>3. \A d \in Chunks :
          d \in warm' \/ d \in dispose' \/ d \in disp' \/ d \in trim' \/ pool'[d] # NoPool => d \in mapped'
    BY Zenon, <1>0, <1>2 DEF MappedInv
  <2>4. \A a \in Actors : hand'[a] # NoChunk => hand'[a] \in mapped'
    BY <1>0, <1>1, <1>2, <2>1 DEF MappedInv
  <2>5. \A d \in mapped' :
          \/ d \in warm' \/ d \in dispose' \/ d \in disp' \/ d \in trim' \/ pool'[d] # NoPool
          \/ \E a \in Actors : hand'[a] = d
    BY Zenon, <1>0, <1>1, <1>2, <2>2 DEF MappedInv
  <2> QED
    BY Zenon, <2>3, <2>4, <2>5 DEF MappedInv
<1>8. RegInv'
  BY Zenon, <1>0, <1>1, <1>2, <1>3 DEF RegInv, TypeOK
<1>9. WarmInv'
  BY <1>0, <1>1, <1>2, <1>3, StoreAssumption DEF WarmInv, TypeOK
<1>10. CleanInv'
  BY Zenon, <1>0, <1>1, <1>2, <1>3 DEF CleanInv, Clean, TypeOK
<1>11. BgInv' /\ HeaderStaysResident' /\ RingInv'
  BY Zenon, <1>0, <1>1, <1>2, <1>3 DEF BgInv, NoDisposalMissed, HeaderStaysResident, RingInv
<1> QED
  BY Zenon, <1>4, <1>5, <1>6, <1>7, <1>8, <1>9, <1>10, <1>11

\* Otherwise it is given back.
LEMMA DisposeFullInv ==
  ASSUME IInv, NEW t \in Threads, DisposeRecycle(t),
         ~(warm_count < WARM_HIGH)
  PROVE  IInv'
<1> USE DEF IInv
<1>0. /\ pc[t] = "recycle"
      /\ pc' = [pc EXCEPT ![t] = "remove"]
      /\ UNCHANGED <<warm, warm_count, dispose, mapped, registry, resident, pool, hand, low,
                      bg_async, bg_ring_ok, disp, trim, deficit, todo, pending, inflight, cqes>>
  BY Zenon DEF DisposeRecycle, lockVars, spaceVars, flags, bgVars, ringVars
<1>1. /\ "remove" \in Positions
      /\ "remove" \in ThreadAt
      /\ Threads \subseteq Actors /\ t # Bg /\ t \in Actors /\ Bg \in Actors /\ pc'[Bg] = pc[Bg]
      /\ "remove" \in Holding
      /\ "recycle" \in Holding
      /\ \A a \in Actors : a # t => pc'[a] = pc[a]
      /\ pc'[t] = "remove"
  BY <1>0, StoreAssumption DEF TypeOK, Actors, Positions, ThreadAt, BgAt, Holding
<1>2. /\ hand[t] \in Chunks /\ hand[t] # NoChunk /\ hand[t] \in mapped
      /\ \A a \in Actors : hand[a] = hand[t] => a = t
  <2>1. hand[t] \in Chunks /\ hand[t] # NoChunk
    BY Zenon, <1>0, <1>1, StoreAssumption DEF TypeOK, PcInv
  <2> QED
    BY Zenon, <1>0, <1>1, <2>1 DEF PlaceInv, MappedInv
<1>3. TypeOK'
  BY Zenon, <1>0, <1>1, <1>2 DEF TypeOK
<1>4. PcInv'
  BY Zenon, <1>0, <1>1, <1>2 DEF PcInv, TypeOK
<1>5. RegInv'
  BY Zenon, <1>0, <1>1, <1>2 DEF RegInv, TypeOK
<1>6. CleanInv'
  BY Zenon, <1>0, <1>1, <1>2 DEF CleanInv, Clean, TypeOK
<1>7. BgInv' /\ PlaceInv' /\ MappedInv'
  BY Zenon, <1>0, <1>1, <1>2 DEF BgInv, NoDisposalMissed, PlaceInv, MappedInv
<1>8. WarmInv' /\ HeaderStaysResident' /\ RingInv'
  BY Zenon, <1>0, <1>1, <1>2 DEF WarmInv, HeaderStaysResident, RingInv
<1> QED
  BY Zenon, <1>3, <1>4, <1>5, <1>6, <1>7, <1>8

\* A chunk mapped ahead of demand is pushed: the deficit was positive.
LEMMA BgPushInv ==
  ASSUME IInv, BgPush
  PROVE  IInv'
<1> USE DEF IInv
<1>0. /\ pc[Bg] = "push"
      /\ warm' = warm \cup {hand[Bg]}
      /\ warm_count' = warm_count + 1
      /\ hand' = [hand EXCEPT ![Bg] = NoChunk]
      /\ deficit' = deficit - 1
      /\ pc' = [pc EXCEPT ![Bg] = "premap"]
      /\ UNCHANGED <<dispose, mapped, registry, resident, pool, low, bg_async, bg_ring_ok, disp,
                      trim, todo, pending, inflight, cqes>>
  BY Zenon DEF BgPush, lockVars, spaceVars, flags, bgVars, ringVars
<1>1. /\ "premap" \in Positions
      /\ "premap" \in BgAt
      /\ Threads \subseteq Actors /\ Bg \in Actors /\ Bg \notin Threads
      /\ "premap" \notin Holding
      /\ "push" \in Holding
      /\ \A a \in Actors : a # Bg => pc'[a] = pc[a]
      /\ pc'[Bg] = "premap"
  BY <1>0, StoreAssumption DEF TypeOK, Actors, Positions, ThreadAt, BgAt, Holding
<1>2. /\ hand[Bg] \in Chunks /\ hand[Bg] # NoChunk /\ hand[Bg] \in mapped
      /\ \A a \in Actors : hand[a] = hand[Bg] => a = Bg
  <2>1. hand[Bg] \in Chunks /\ hand[Bg] # NoChunk
    BY Zenon, <1>0, <1>1, StoreAssumption DEF TypeOK, PcInv
  <2> QED
    BY Zenon, <1>0, <1>1, <2>1 DEF PlaceInv, MappedInv
<1>3. warm_count' \in Nat /\ Cardinality(warm') = warm_count'
  <2>1. hand[Bg] \notin warm
    BY Zenon, <1>1, <1>2 DEF PlaceInv
  <2>2. Cardinality(warm) \in Nat /\ Cardinality(warm') = Cardinality(warm) + 1
    BY Zenon, <1>0, <1>2, <2>1, Counts DEF TypeOK
  <2> QED
    BY <1>0, <2>2 DEF WarmInv
<1>4. TypeOK'
  BY <1>0, <1>1, <1>2, <1>3 DEF TypeOK
<1>5. PcInv'
  BY Zenon, <1>0, <1>1, <1>2, <1>3 DEF PcInv, TypeOK
<1>6. BgInv'
  BY Zenon, <1>0, <1>1, <1>2, <1>3 DEF BgInv, NoDisposalMissed, TypeOK
<1>7. PlaceInv'
  BY <1>0, <1>1, <1>2, <1>3 DEF PlaceInv, TypeOK
<1>8. MappedInv'
  <2>1. hand'[Bg] = NoChunk /\ \A a \in Actors : a # Bg => hand'[a] = hand[a]
    BY Zenon, <1>0, <1>1 DEF TypeOK
  <2>2. \A d \in mapped : (\E a \in Actors : hand[a] = d) => d \in warm' \/ \E a \in Actors : hand'[a] = d
    BY Zenon, <1>0, <2>1
  <2>3. \A d \in Chunks :
          d \in warm' \/ d \in dispose' \/ d \in disp' \/ d \in trim' \/ pool'[d] # NoPool => d \in mapped'
    BY Zenon, <1>0, <1>2 DEF MappedInv
  <2>4. \A a \in Actors : hand'[a] # NoChunk => hand'[a] \in mapped'
    BY <1>0, <1>1, <1>2, <2>1 DEF MappedInv
  <2>5. \A d \in mapped' :
          \/ d \in warm' \/ d \in dispose' \/ d \in disp' \/ d \in trim' \/ pool'[d] # NoPool
          \/ \E a \in Actors : hand'[a] = d
    BY Zenon, <1>0, <1>1, <1>2, <2>2 DEF MappedInv
  <2> QED
    BY Zenon, <2>3, <2>4, <2>5 DEF MappedInv
<1>9. RegInv'
  BY Zenon, <1>0, <1>1, <1>2, <1>3 DEF RegInv, TypeOK
<1>10. WarmInv'
  BY <1>0, <1>1, <1>2, <1>3, StoreAssumption DEF WarmInv, TypeOK
<1>11. CleanInv'
  BY Zenon, <1>0, <1>1, <1>2, <1>3 DEF CleanInv, Clean, TypeOK
<1>12. RingInv'
  BY Zenon, <1>0, <1>1, <1>2, <1>3 DEF RingInv, TypeOK
<1>13. HeaderStaysResident'
  BY Zenon, <1>0, <1>1, <1>2, <1>3 DEF HeaderStaysResident
<1> QED
  BY Zenon, <1>4, <1>5, <1>6, <1>7, <1>8, <1>9, <1>10, <1>11, <1>12, <1>13

\* The chunk in hand becomes the pool's, and the maintenance thread is perhaps
\* woken.
LEMMA ObtainReturnInv ==
  ASSUME IInv, NEW t \in Threads, ObtainReturn(t)
  PROVE  IInv'
<1> USE DEF IInv
<1>0. /\ pc[t] = "signal"
      /\ pool' = [pool EXCEPT ![hand[t]] = t]
      /\ hand' = [hand EXCEPT ![t] = NoChunk]
      /\ pc' \in [Actors -> Positions]
      /\ Threads \subseteq Actors /\ t # Bg /\ t \in Actors /\ Bg \in Actors /\ Bg \notin Threads
      /\ \A a \in Actors : a # t /\ a # Bg => pc'[a] = pc[a]
      /\ pc'[Bg] = pc[Bg] \/ (pc[Bg] = "wait" /\ pc'[Bg] = "top")
      /\ pc'[t] = "idle"
      /\ UNCHANGED <<warm, warm_count, dispose, mapped, registry, resident, low, bg_async,
                      bg_ring_ok, disp, trim, deficit, todo, pending, inflight, cqes>>
  <2> DEFINE f == [pc EXCEPT ![t] = "idle"]
  <2>1. /\ Threads \subseteq Actors /\ t # Bg /\ t \in Actors /\ Bg \in Actors /\ Bg \notin Threads
        /\ "idle" \in Positions
    BY StoreAssumption DEF Actors, Positions
  <2>2. f \in [Actors -> Positions] /\ f[t] = "idle" /\ \A a \in Actors : a # t => f[a] = pc[a]
    BY Zenon, <2>1 DEF TypeOK
  <2>3. pc' = Woken(f) \/ pc' = f
    BY Zenon DEF ObtainReturn
  <2> HIDE DEF f
  <2>4. /\ pc' \in [Actors -> Positions] /\ \A a \in Actors : a # Bg => pc'[a] = f[a]
        /\ pc'[Bg] = f[Bg] \/ (f[Bg] = "wait" /\ pc'[Bg] = "top")
    BY Zenon, <2>2, <2>3, WokenFacts
  <2> QED
    BY Zenon, <2>1, <2>2, <2>4 DEF ObtainReturn, lockVars, spaceVars, flags, bgVars, ringVars
<1>1. "idle" \in ThreadAt /\ "idle" \notin Holding /\ "top" \notin Holding /\ "wait" \notin Holding
      /\ "top" \in BgAt /\ "signal" \in Holding
  BY DEF ThreadAt, Holding, BgAt
<1>2. /\ hand[t] \in Chunks /\ hand[t] # NoChunk /\ hand[t] \in mapped
      /\ \A a \in Actors : hand[a] = hand[t] => a = t
  <2>1. hand[t] \in Chunks /\ hand[t] # NoChunk
    BY Zenon, <1>0, <1>1, StoreAssumption DEF TypeOK, PcInv
  <2> QED
    BY Zenon, <1>0, <1>1, <2>1 DEF PlaceInv, MappedInv
<1>3. hand'[t] = NoChunk /\ \A a \in Actors : a # t => hand'[a] = hand[a]
  BY Zenon, <1>0 DEF TypeOK
<1>4. /\ pool'[hand[t]] = t /\ t # NoPool
      /\ \A d \in Chunks : d # hand[t] => pool'[d] = pool[d]
  BY Zenon, <1>0, <1>2, StoreAssumption DEF TypeOK
<1>5. TypeOK'
  BY Zenon, <1>0, <1>1, <1>2, <1>3, <1>4 DEF TypeOK
<1>6. PcInv'
  BY <1>0, <1>1, <1>2, <1>3, <1>4 DEF PcInv, TypeOK
<1>7. BgInv'
  BY Zenon, <1>0, <1>1, <1>2, <1>3, <1>4 DEF BgInv, NoDisposalMissed, TypeOK
<1>8. PlaceInv'
  BY <1>0, <1>1, <1>2, <1>3, <1>4 DEF PlaceInv, TypeOK
<1>9. MappedInv'
  BY <1>0, <1>1, <1>2, <1>3, <1>4 DEF MappedInv, TypeOK
<1>10. RegInv'
  BY <1>0, <1>1, <1>2, <1>3, <1>4 DEF RegInv, TypeOK
<1>11. WarmInv'
  BY Zenon, <1>0, <1>1, <1>2, <1>3, <1>4 DEF WarmInv, TypeOK
<1>12. CleanInv'
  BY <1>0, <1>1, <1>2, <1>3, <1>4 DEF CleanInv, Clean, TypeOK
<1>13. RingInv'
  BY Zenon, <1>0, <1>1, <1>2, <1>3, <1>4 DEF RingInv, TypeOK
<1>14. HeaderStaysResident'
  BY Zenon, <1>0, <1>1, <1>2, <1>3, <1>4 DEF HeaderStaysResident
<1> QED
  BY Zenon, <1>5, <1>6, <1>7, <1>8, <1>9, <1>10, <1>11, <1>12, <1>13, <1>14

\* The chunk goes on the queue, and the maintenance thread does not wait.
LEMMA DisposeAsyncInv ==
  ASSUME IInv, NEW t \in Threads, NEW c \in held, Dispose(t),
         pool' = [pool EXCEPT ![c] = NoPool],
         DisposeAsync(t, c)
  PROVE  IInv'
<1> USE DEF IInv
<1>0. /\ pc[t] = "idle"
      /\ pool[c] # NoPool
      /\ pool' = [pool EXCEPT ![c] = NoPool]
      /\ dispose' = dispose \cup {c}
      /\ pc' \in [Actors -> Positions]
      /\ Threads \subseteq Actors /\ t # Bg /\ t \in Actors /\ Bg \in Actors /\ Bg \notin Threads
      /\ \A a \in Actors : a # Bg => pc'[a] = pc[a]
      /\ pc'[Bg] = pc[Bg] \/ (pc[Bg] = "wait" /\ pc'[Bg] = "top")
      /\ pc'[Bg] # "wait"
      /\ UNCHANGED <<warm, warm_count, mapped, registry, resident, hand, low, bg_async, bg_ring_ok,
                      disp, trim, deficit, todo, pending, inflight, cqes>>
  <2>1. Threads \subseteq Actors /\ t # Bg /\ t \in Actors /\ Bg \in Actors /\ Bg \notin Threads
    BY StoreAssumption DEF Actors
  <2>2. pc \in [Actors -> Positions] /\ pc' = Woken(pc)
    BY Zenon DEF TypeOK, DisposeAsync
  <2>3. /\ pc' \in [Actors -> Positions] /\ \A a \in Actors : a # Bg => pc'[a] = pc[a]
        /\ pc'[Bg] = pc[Bg] \/ (pc[Bg] = "wait" /\ pc'[Bg] = "top")
        /\ pc'[Bg] # "wait"
    BY Zenon, <2>2, WokenFacts
  <2> QED
    BY Zenon, <2>1, <2>3 DEF Dispose, DisposeAsync, held, lockVars, spaceVars, flags, bgVars, ringVars
<1>1. "idle" \in ThreadAt /\ "idle" \notin Holding /\ "top" \notin Holding /\ "wait" \notin Holding
      /\ "top" \in BgAt /\ "signal" \in Holding
  BY DEF ThreadAt, Holding, BgAt
<1>2. c \in Chunks /\ c \in mapped /\ c \in registry
  BY Zenon, <1>0 DEF held, MappedInv, RegInv
<1>3. pool'[c] = NoPool /\ \A d \in Chunks : d # c => pool'[d] = pool[d]
  BY Zenon, <1>0, <1>2 DEF TypeOK
<1>4. TypeOK'
  BY <1>0, <1>1, <1>2, <1>3 DEF TypeOK
<1>5. PcInv'
  BY <1>0, <1>1, <1>2, <1>3 DEF PcInv, TypeOK
<1>6. BgInv'
  BY Zenon, <1>0, <1>1, <1>2, <1>3 DEF BgInv, NoDisposalMissed, TypeOK
<1>7. PlaceInv'
  BY <1>0, <1>1, <1>2, <1>3 DEF PlaceInv, TypeOK
<1>8. MappedInv'
  BY <1>0, <1>1, <1>2, <1>3 DEF MappedInv, TypeOK
<1>9. RegInv'
  BY Zenon, <1>0, <1>1, <1>2, <1>3 DEF RegInv, TypeOK
<1>10. WarmInv'
  BY Zenon, <1>0, <1>1, <1>2, <1>3 DEF WarmInv, TypeOK
<1>11. CleanInv'
  BY Zenon, <1>0, <1>1, <1>2, <1>3 DEF CleanInv, Clean, TypeOK
<1>12. RingInv'
  BY Zenon, <1>0, <1>1, <1>2, <1>3 DEF RingInv, TypeOK
<1>13. HeaderStaysResident'
  BY Zenon, <1>0, <1>1, <1>2, <1>3 DEF HeaderStaysResident
<1> QED
  BY Zenon, <1>4, <1>5, <1>6, <1>7, <1>8, <1>9, <1>10, <1>11, <1>12, <1>13

\* The chunk is decommitted by the thread that disposes it.
LEMMA DisposeSyncInv ==
  ASSUME IInv, NEW t \in Threads, NEW c \in held, Dispose(t),
         pool' = [pool EXCEPT ![c] = NoPool],
         DisposeSync(t, c)
  PROVE  IInv'
<1> USE DEF IInv
<1>0. /\ pc[t] = "idle"
      /\ pool[c] # NoPool
      /\ pool' = [pool EXCEPT ![c] = NoPool]
      /\ resident' = [resident EXCEPT ![c] = resident[c] \ DataPages]
      /\ hand' = [hand EXCEPT ![t] = c]
      /\ pc' = [pc EXCEPT ![t] = "recycle"]
      /\ UNCHANGED <<warm, warm_count, dispose, mapped, registry, low, bg_async, bg_ring_ok, disp,
                      trim, deficit, todo, pending, inflight, cqes>>
  BY Zenon DEF Dispose, DisposeSync, chunk_decommit, held, lockVars, spaceVars, flags, bgVars, ringVars
<1>1. /\ "recycle" \in Positions
      /\ "recycle" \in ThreadAt
      /\ Threads \subseteq Actors /\ t # Bg /\ t \in Actors /\ Bg \in Actors /\ pc'[Bg] = pc[Bg]
      /\ "recycle" \in Holding
      /\ "idle" \notin Holding
      /\ \A a \in Actors : a # t => pc'[a] = pc[a]
      /\ pc'[t] = "recycle"
  BY <1>0, StoreAssumption DEF TypeOK, Actors, Positions, ThreadAt, BgAt, Holding
<1>2. c \in Chunks /\ c # NoChunk /\ hand[t] = NoChunk /\ c \in mapped /\ c \in registry
  BY Zenon, <1>0, <1>1, StoreAssumption DEF held, PcInv, MappedInv, RegInv
<1>3. /\ pool'[c] = NoPool /\ \A d \in Chunks : d # c => pool'[d] = pool[d]
      /\ hand'[t] = c /\ \A a \in Actors : a # t => hand'[a] = hand[a]
  BY Zenon, <1>0, <1>1, <1>2 DEF TypeOK
<1>4. /\ \A d \in Chunks : Clean(d) => Clean(d)'
      /\ Clean(c)'
  BY Zenon, <1>0, <1>2 DEF TypeOK, Clean
<1>5. TypeOK'
  BY <1>0, <1>1, <1>2, <1>3, <1>4 DEF TypeOK
<1>6. PcInv'
  BY Zenon, <1>0, <1>1, <1>2, <1>3, <1>4 DEF PcInv, TypeOK
<1>7. PlaceInv'
  BY <1>0, <1>1, <1>2, <1>3, <1>4 DEF PlaceInv, TypeOK
<1>8. MappedInv'
  <2>1. NoChunk \notin mapped
    BY Zenon, StoreAssumption DEF TypeOK
  <2>2. \A d \in mapped : (\E a \in Actors : hand[a] = d) => \E a \in Actors : hand'[a] = d
    BY Zenon, <1>2, <1>3, <2>1
  <2>3. \A d \in mapped : d # c => d \in Chunks /\ pool'[d] = pool[d]
    BY Zenon, <1>3 DEF TypeOK
  <2>4. \A d \in Chunks :
          d \in warm \/ d \in dispose \/ d \in disp \/ d \in trim \/ pool'[d] # NoPool => d \in mapped
    BY Zenon, <1>2, <1>3 DEF MappedInv
  <2>5. \A a \in Actors : hand'[a] # NoChunk => hand'[a] \in mapped
    BY <1>2, <1>3 DEF MappedInv
  <2>6. \A d \in mapped :
          \/ d \in warm \/ d \in dispose \/ d \in disp \/ d \in trim \/ pool'[d] # NoPool
          \/ \E a \in Actors : hand'[a] = d
    BY Zenon, <1>1, <1>3, <2>2, <2>3 DEF MappedInv
  <2> QED
    BY Zenon, <1>0, <2>4, <2>5, <2>6 DEF MappedInv
<1>9. RegInv'
  BY <1>0, <1>1, <1>2, <1>3, <1>4 DEF RegInv, TypeOK
<1>10. HeaderStaysResident'
  BY Zenon, <1>0, <1>1, <1>2, <1>3, <1>4, PageFacts DEF HeaderStaysResident, TypeOK
<1>11. CleanInv'
  BY <1>0, <1>1, <1>2, <1>3, <1>4 DEF CleanInv, Clean, TypeOK
<1>12. BgInv' /\ WarmInv' /\ RingInv'
  BY Zenon, <1>0, <1>1, <1>2, <1>3, <1>4 DEF BgInv, NoDisposalMissed, WarmInv, RingInv
<1> QED
  BY Zenon, <1>5, <1>6, <1>7, <1>8, <1>9, <1>10, <1>11, <1>12

\* Without the ring, the whole list is decommitted before anything is done with it.
LEMMA BgDecommitInv ==
  ASSUME IInv, BgDecommit
  PROVE  IInv'
<1> USE DEF IInv
<1>0. /\ pc[Bg] = "decommit"
      /\ ~bg_ring_ok
      /\ resident' = [c \in Chunks |-> IF c \in disp THEN resident[c] \ DataPages ELSE resident[c]]
      /\ pc' = [pc EXCEPT ![Bg] = "return"]
      /\ UNCHANGED <<warm, warm_count, dispose, mapped, registry, pool, hand, low, bg_async,
                      bg_ring_ok, disp, trim, deficit, todo, pending, inflight, cqes>>
  BY Zenon DEF BgDecommit, chunk_decommit, lockVars, spaceVars, flags, bgVars, ringVars
<1>1. /\ "return" \in Positions
      /\ "return" \in BgAt
      /\ Threads \subseteq Actors /\ Bg \in Actors /\ Bg \notin Threads
      /\ "return" \notin Holding
      /\ "decommit" \notin Holding
      /\ \A a \in Actors : a # Bg => pc'[a] = pc[a]
      /\ pc'[Bg] = "return"
  BY <1>0, StoreAssumption DEF TypeOK, Actors, Positions, ThreadAt, BgAt, Holding
<1>2. /\ \A d \in Chunks : Clean(d) => Clean(d)'
      /\ \A d \in disp : Clean(d)'
  <2>1. /\ \A d \in Chunks : d \in disp => resident'[d] = resident[d] \ DataPages
        /\ \A d \in Chunks : d \notin disp => resident'[d] = resident[d]
    BY Zenon, <1>0
  <2> QED
    BY Zenon, <2>1 DEF Clean, TypeOK
<1>3. /\ resident' \in [Chunks -> SUBSET Pages]
      /\ \A d \in Chunks : 0 \in resident[d] => 0 \in resident'[d]
  BY Zenon, <1>0, PageFacts DEF TypeOK
<1>4. TypeOK'
  BY Zenon, <1>0, <1>1, <1>2, <1>3 DEF TypeOK
<1>5. PcInv'
  BY Zenon, <1>0, <1>1, <1>2, <1>3 DEF PcInv, TypeOK
<1>6. BgInv'
  BY Zenon, <1>0, <1>1, <1>2, <1>3 DEF BgInv, NoDisposalMissed, TypeOK
<1>7. RegInv'
  BY Zenon, <1>0, <1>1, <1>2, <1>3 DEF RegInv, TypeOK
<1>8. WarmInv'
  BY Zenon, <1>0, <1>1, <1>2, <1>3 DEF WarmInv, TypeOK
<1>9. HeaderStaysResident'
  BY Zenon, <1>0, <1>1, <1>2, <1>3 DEF HeaderStaysResident, TypeOK
<1>10. CleanInv'
  <2>1. /\ warm \subseteq Chunks
        /\ \A a \in Actors : pc[a] = "recycle" => hand[a] \in Chunks
    BY StoreAssumption DEF TypeOK, PcInv, Holding
  <2> QED
    BY Zenon, <1>0, <1>1, <1>2, <2>1 DEF CleanInv
<1>11. RingInv'
  BY Zenon, <1>0, <1>1, <1>2, <1>3 DEF RingInv, TypeOK
<1>12. PlaceInv' /\ MappedInv'
  BY Zenon, <1>0, <1>1, <1>2, <1>3 DEF PlaceInv, MappedInv
<1> QED
  BY Zenon, <1>4, <1>5, <1>6, <1>7, <1>8, <1>9, <1>10, <1>11, <1>12

\* Requests for the next chunks of the list go to the kernel, after the last ones
\* were all accounted for.
LEMMA BgSubmitInv ==
  ASSUME IInv, NEW S \in SUBSET Chunks, NEW rest \in SUBSET Chunks, NEW done \in Nat, BgSubmit,
         S \subseteq rest,
         pc[Bg] = "decommit" => rest = disp /\ done = 0,
         pc[Bg] = "submit" => rest = todo /\ done = pending,
         todo' = rest \ S,
         pending' = done + Cardinality(S),
         inflight' = inflight \cup S
  PROVE  IInv'
<1> USE DEF IInv
<1>0. /\ pc[Bg] # "reap" /\ bg_ring_ok
      /\ pc[Bg] = "decommit" \/ pc[Bg] = "submit"
      /\ S \in SUBSET Chunks /\ rest \in SUBSET Chunks /\ done \in Nat
      /\ S \subseteq rest
      /\ todo' = rest \ S
      /\ pending' = done + Cardinality(S)
      /\ inflight' = inflight \cup S
      /\ pc' = [pc EXCEPT ![Bg] = "reap"]
      /\ UNCHANGED <<warm, warm_count, dispose, mapped, registry, resident, pool, hand, low,
                      bg_async, bg_ring_ok, disp, trim, deficit, cqes>>
  BY Zenon DEF BgSubmit, BgInv, lockVars, spaceVars, flags, bgVars, ringVars
<1>1. /\ "reap" \in Positions
      /\ "reap" \in BgAt
      /\ Threads \subseteq Actors /\ Bg \in Actors /\ Bg \notin Threads
      /\ "reap" \notin Holding
      /\ "decommit" \notin Holding
      /\ \A a \in Actors : a # Bg => pc'[a] = pc[a]
      /\ pc'[Bg] = "reap"
  BY <1>0, StoreAssumption DEF TypeOK, Actors, Positions, ThreadAt, BgAt, Holding
<1>2. Cardinality(S) \in Nat /\ pending' \in Nat
  <2>1. Cardinality(S) \in Nat
    BY Zenon, Counts
  <2> QED
    BY <1>0, <2>1
<1>3. pc[Bg] \notin Holding
  BY <1>0 DEF Holding
<1>4. TypeOK'
  BY Zenon, <1>0, <1>1, <1>2, <1>3 DEF TypeOK
<1>5. PcInv'
  BY Zenon, <1>0, <1>1, <1>2, <1>3 DEF PcInv, TypeOK
<1>6. BgInv'
  BY Zenon, <1>0, <1>1, <1>2, <1>3 DEF BgInv, NoDisposalMissed, TypeOK
<1>7. RegInv'
  BY Zenon, <1>0, <1>1, <1>2, <1>3 DEF RegInv, TypeOK
<1>8. WarmInv'
  BY Zenon, <1>0, <1>1, <1>2, <1>3 DEF WarmInv, TypeOK
<1>9. CleanInv'
  BY Zenon, <1>0, <1>1, <1>2, <1>3 DEF CleanInv, Clean, TypeOK
<1>10. RingInv'
  <2>1. WaitFails \/ (inflight = {} /\ cqes = 0 /\ done = 0 /\ rest \subseteq disp)
    BY Zenon, <1>0 DEF RingInv
  <2>2. 0 + Cardinality(S) = Cardinality(S)
    BY <1>2
  <2>3. WaitFails \/ (/\ pending' = cqes' + Cardinality(inflight')
                       /\ inflight' \subseteq disp' /\ todo' \subseteq disp')
    <3>1. inflight = {} => inflight' = S
      BY Zenon, <1>0
    <3> QED
      BY Zenon, <1>0, <2>1, <2>2, <3>1
  <2> QED
    BY Zenon, <1>0, <1>1, <2>3 DEF RingInv
<1>11. PlaceInv' /\ MappedInv' /\ HeaderStaysResident'
  BY Zenon, <1>0, <1>1, <1>2, <1>3 DEF PlaceInv, MappedInv, HeaderStaysResident
<1> QED
  BY Zenon, <1>4, <1>5, <1>6, <1>7, <1>8, <1>9, <1>10, <1>11

\* The kernel releases pages other than the header and reports it.
LEMMA KernelMadviseInv ==
  ASSUME IInv, NEW c \in Chunks, KernelMadvise(c)
  PROVE  IInv'
<1> USE DEF IInv
<1>0. /\ c \in inflight
      /\ inflight' = inflight \ {c}
      /\ resident' = [resident EXCEPT ![c] = resident[c] \ RingPages]
      /\ cqes' = cqes + 1
      /\ UNCHANGED <<warm, warm_count, dispose, mapped, registry, pool, pc, hand, low, bg_async,
                      bg_ring_ok, disp, trim, deficit, todo, pending>>
  BY Zenon DEF KernelMadvise, lockVars, spaceVars, flags, bgVars, ringVars
<1>1. cqes' \in Nat
  BY <1>0 DEF TypeOK
<1>2. \A d \in Chunks : Clean(d) => Clean(d)'
  BY Zenon, <1>0 DEF TypeOK, Clean
<1>3. TypeOK'
  BY Zenon, <1>0, <1>1, <1>2 DEF TypeOK
<1>4. HeaderStaysResident'
  BY Zenon, <1>0, <1>1, <1>2, PageFacts DEF HeaderStaysResident, TypeOK
<1>5. CleanInv'
  <2>1. /\ warm \subseteq Chunks /\ disp \subseteq Chunks /\ Bg \in Actors
        /\ \A a \in Actors : pc[a] \in Holding => hand[a] \in Chunks
        /\ "recycle" \in Holding /\ "insert" \in Holding /\ "push" \in Holding
    BY Zenon, StoreAssumption DEF Actors, TypeOK, PcInv, Holding
  <2> QED
    BY Zenon, <1>0, <1>2, <2>1 DEF CleanInv
<1>6. RingInv'
  <2>1. /\ Cardinality(inflight) \in Nat /\ cqes \in Nat
        /\ Cardinality(inflight \ {c}) = Cardinality(inflight) - 1
    BY Zenon, <1>0, Counts DEF TypeOK
  <2>2. cqes' + Cardinality(inflight') = cqes + Cardinality(inflight)
    BY <1>0, <2>1
  <2> QED
    BY Zenon, <1>0, <2>2 DEF RingInv
<1>7. PcInv' /\ BgInv' /\ PlaceInv'
  BY Zenon, <1>0, <1>1, <1>2 DEF PcInv, BgInv, NoDisposalMissed, PlaceInv
<1>8. MappedInv' /\ RegInv' /\ WarmInv'
  BY Zenon, <1>0, <1>1, <1>2 DEF MappedInv, RegInv, WarmInv
<1> QED
  BY Zenon, <1>3, <1>4, <1>5, <1>6, <1>7, <1>8

\* What fits of the cleaned chunks becomes warm, the rest is to be trimmed.
LEMMA BgReturnInv ==
  ASSUME IInv, NEW W \in SUBSET disp, BgReturn,
         Cardinality(W) = IF warm_count < WARM_HIGH
                          THEN MinOf(Cardinality(disp), WARM_HIGH - warm_count)
                          ELSE 0,
         warm' = warm \cup W,
         warm_count' = warm_count + Cardinality(W),
         trim' = disp \ W
  PROVE  IInv'
<1> USE DEF IInv
<1>0. /\ pc[Bg] = "return"
      /\ warm' = warm \cup W
      /\ warm_count' = warm_count + Cardinality(W)
      /\ trim' = disp \ W
      /\ disp' = {}
      /\ deficit' = WARM_LOW - warm_count'
      /\ pc' = [pc EXCEPT ![Bg] = "trim"]
      /\ UNCHANGED <<dispose, mapped, registry, resident, pool, hand, low, bg_async, bg_ring_ok,
                      todo, pending, inflight, cqes>>
  BY Zenon DEF BgReturn, lockVars, spaceVars, flags, bgVars, ringVars
<1>1. /\ "trim" \in Positions
      /\ "trim" \in BgAt
      /\ Threads \subseteq Actors /\ Bg \in Actors /\ Bg \notin Threads
      /\ "trim" \notin Holding
      /\ "return" \notin Holding
      /\ \A a \in Actors : a # Bg => pc'[a] = pc[a]
      /\ pc'[Bg] = "trim"
  BY <1>0, StoreAssumption DEF TypeOK, Actors, Positions, ThreadAt, BgAt, Holding
<1>2. W \subseteq Chunks /\ W \cap warm = {} /\ trim = {}
  BY Zenon, <1>0 DEF TypeOK, PlaceInv, BgInv
<1>3. /\ warm_count' \in Nat /\ Cardinality(warm') = warm_count'
      /\ warm_count' <= WARM_HIGH \/ warm_count' = warm_count
      /\ warm_count \in Nat /\ deficit' \in Int
  <2>1. /\ Cardinality(W) \in Nat /\ Cardinality(warm) \in Nat /\ Cardinality(disp) \in Nat
        /\ Cardinality(warm \cup W) = Cardinality(warm) + Cardinality(W)
    BY Zenon, <1>2, Counts DEF TypeOK
  <2>2. warm_count \in Nat /\ warm_count = Cardinality(warm)
    BY Zenon, <2>1 DEF WarmInv
  <2> QED
    BY <1>0, <2>1, <2>2, StoreAssumption DEF MinOf
<1>4. TypeOK'
  BY Zenon, <1>0, <1>1, <1>2, <1>3 DEF TypeOK
<1>5. PcInv'
  BY Zenon, <1>0, <1>1, <1>2, <1>3 DEF PcInv, TypeOK
<1>6. BgInv'
  BY Zenon, <1>0, <1>1, <1>2, <1>3 DEF BgInv, NoDisposalMissed, TypeOK
<1>7. PlaceInv'
  BY Zenon, <1>0, <1>1, <1>2, <1>3 DEF PlaceInv, TypeOK
<1>8. MappedInv'
  BY Zenon, <1>0, <1>1, <1>2, <1>3 DEF MappedInv, TypeOK
<1>9. RegInv'
  BY Zenon, <1>0, <1>1, <1>2, <1>3 DEF RegInv, TypeOK
<1>10. WarmInv'
  <2>1. /\ warm_count <= WARM_HIGH + WARM_LOW => warm_count' <= WARM_HIGH + WARM_LOW
        /\ deficit' <= WARM_LOW
        /\ warm_count' + deficit' <= WARM_HIGH + WARM_LOW
    BY <1>0, <1>3, StoreAssumption
  <2> QED
    BY Zenon, <1>0, <1>1, <1>3, <2>1 DEF WarmInv
<1>11. CleanInv'
  BY Zenon, <1>0, <1>1, <1>2, <1>3 DEF CleanInv, Clean, TypeOK
<1>12. RingInv'
  BY Zenon, <1>0, <1>1, <1>2, <1>3 DEF RingInv, TypeOK
<1>13. HeaderStaysResident'
  BY Zenon, <1>0, <1>1, <1>2, <1>3 DEF HeaderStaysResident
<1> QED
  BY Zenon, <1>4, <1>5, <1>6, <1>7, <1>8, <1>9, <1>10, <1>11, <1>12, <1>13

\* A step that changes nothing preserves the invariant.
LEMMA StutterInv ==
  ASSUME IInv, UNCHANGED vars
  PROVE  IInv'
<1> USE DEF IInv
<1>0. UNCHANGED <<warm, warm_count, dispose, mapped, registry, resident, pool, pc, hand, low, bg_async,
                  bg_ring_ok, disp, trim, deficit, todo, pending, inflight, cqes>>
  BY Zenon DEF vars, lockVars, spaceVars, flags, bgVars, ringVars
<1>1. TypeOK' /\ PcInv' /\ BgInv'
  BY Zenon, <1>0 DEF TypeOK, PcInv, BgInv, NoDisposalMissed
<1>2. PlaceInv' /\ MappedInv'
  BY Zenon, <1>0 DEF PlaceInv, MappedInv
<1>3. RegInv' /\ WarmInv' /\ HeaderStaysResident'
  BY Zenon, <1>0 DEF RegInv, WarmInv, HeaderStaysResident
<1>4. CleanInv' /\ RingInv'
  BY Zenon, <1>0 DEF CleanInv, Clean, RingInv
<1> QED
  BY Zenon, <1>1, <1>2, <1>3, <1>4

\* Every step of a thread inside btm_chunk_obtain or btm_chunk_dispose preserves
\* the invariant.
LEMMA ThreadStepInv ==
  ASSUME IInv, NEW t \in Threads, ObtainPop(t) \/ Dispose(t) \/ ThreadStep(t)
  PROVE  IInv'
<1>1. CASE ObtainPop(t)
  BY Zenon, <1>1, ObtainPopInv, ObtainEmptyInv DEF ObtainPop
<1>2. CASE Dispose(t)
  BY Zenon, <1>2, DisposeAsyncInv, DisposeSyncInv DEF Dispose
<1>3. CASE ObtainMap(t)
  BY Zenon, <1>3, ObtainMapInv, ObtainNullInv DEF ObtainMap
<1>4. CASE DisposeRecycle(t)
  BY Zenon, <1>4, DisposeRecycleInv, DisposeFullInv
<1>5. CASE ObtainInsert(t) \/ ObtainReturn(t) \/ DisposeRemove(t) \/ DisposeUnmap(t)
  BY Zenon, <1>5, ObtainInsertInv, ObtainReturnInv, DisposeRemoveInv, DisposeUnmapInv
<1> QED
  BY Zenon, <1>1, <1>2, <1>3, <1>4, <1>5 DEF ThreadStep

\* Every step of bg_main preserves the invariant.
LEMMA BgStepInv ==
  ASSUME IInv, BgStep
  PROVE  IInv'
<1>1. CASE BgTop
  BY Zenon, <1>1, BgWaitInv, BgTakeInv DEF BgTop
<1>2. CASE BgSubmit
  <2>0. disp \in SUBSET Chunks /\ todo \in SUBSET Chunks /\ pending \in Nat /\ 0 \in Nat
    BY DEF IInv, TypeOK
  <2>1. CASE pc[Bg] = "decommit"
    <3>1. PICK S \in SUBSET disp : /\ todo' = disp \ S /\ pending' = 0 + Cardinality(S)
                                   /\ inflight' = inflight \cup S
      BY Zenon, <1>2, <2>1 DEF BgSubmit
    <3>2. S \in SUBSET Chunks /\ "decommit" # "submit"
      BY Zenon, <2>0
    <3> QED
      BY Zenon, <1>2, <2>0, <2>1, <3>1, <3>2, BgSubmitInv
  <2>2. CASE pc[Bg] = "submit"
    <3>1. PICK S \in SUBSET todo : /\ todo' = todo \ S /\ pending' = pending + Cardinality(S)
                                   /\ inflight' = inflight \cup S
      BY Zenon, <1>2, <2>2 DEF BgSubmit
    <3>2. S \in SUBSET Chunks /\ "decommit" # "submit"
      BY Zenon, <2>0
    <3> QED
      BY Zenon, <1>2, <2>0, <2>2, <3>1, <3>2, BgSubmitInv
  <2> QED
    BY Zenon, <1>2, <2>1, <2>2 DEF BgSubmit
<1>3. CASE BgReaped
  BY Zenon, <1>3, BgReapedAgainInv, BgReapedDoneInv
<1>4. CASE BgReturn
  BY Zenon, <1>4, BgReturnInv DEF BgReturn
<1>5. CASE BgTrimRemove
  BY Zenon, <1>5, BgTrimRemoveInv DEF BgTrimRemove
<1>6. CASE BgPremap
  BY Zenon, <1>6, BgPremapInv, BgPremapDoneInv DEF BgPremap
<1>7. CASE BgDecommit \/ BgReap \/ BgTrimUnmap \/ BgTrimDone \/ BgInsert \/ BgPush
  BY Zenon, <1>7, BgDecommitInv, BgReapInv, BgTrimUnmapInv, BgTrimDoneInv, BgInsertInv, BgPushInv
<1> QED
  BY Zenon, <1>1, <1>2, <1>3, <1>4, <1>5, <1>6, <1>7 DEF BgStep

\* Every step preserves the invariant.
LEMMA StepInv == IInv /\ [Next]_vars => IInv'
<1> SUFFICES ASSUME IInv, [Next]_vars PROVE IInv'
  BY Zenon
<1> QED
  BY Zenon, ThreadStepInv, TouchInv, BgCreateInv, BgAsyncInv, BgSpuriousInv, BgStepInv,
     KernelMadviseInv, StutterInv DEF Next, Kernel

-----------------------------------------------------------------------------
\* The invariant of background.c.
THEOREM StoreInvariant == Spec => []IInv
BY InitInv, StepInv, PTL DEF Spec

\* No step of background.c leaves its state space.
THEOREM StoreTypes == Spec => []TypeOK
<1>1. IInv => TypeOK
  BY Zenon DEF IInv
<1> QED
  BY <1>1, StoreInvariant, PTL

\* btm_chunk_obtain, btm_chunk_dispose and bg_main neither lose a chunk nor hand
\* one to two owners.
THEOREM StoreChunkInOnePlace == Spec => []ChunkInOnePlace
<1>1. IInv => ChunkInOnePlace
  <2> SUFFICES ASSUME IInv PROVE ChunkInOnePlace
    BY Zenon
  <2>0. /\ warm \subseteq Chunks /\ dispose \subseteq Chunks /\ disp \subseteq Chunks
        /\ trim \subseteq Chunks /\ mapped \subseteq Chunks
        /\ \A a \in Actors : hand[a] \in Chunks \/ hand[a] = NoChunk
        /\ NoChunk \notin Chunks
    BY Zenon, StoreAssumption DEF IInv, TypeOK
  <2>1. ASSUME NEW c \in InHand
        PROVE  c \notin warm /\ c \notin dispose /\ c \notin disp /\ c \notin trim /\ c \notin held
    <3>1. PICK a \in Actors : hand[a] = c /\ c # NoChunk
      BY Zenon DEF InHand
    <3> QED
      BY Zenon, <3>1 DEF IInv, PlaceInv, held
  <2>2. \A c \in warm : c \notin dispose /\ c \notin disp /\ c \notin trim /\ c \notin held
    BY Zenon, <2>0 DEF IInv, PlaceInv, held
  <2>3. \A c \in dispose : c \notin disp /\ c \notin trim /\ c \notin held
    BY Zenon, <2>0 DEF IInv, PlaceInv, held
  <2>4. \A c \in disp : c \notin trim /\ c \notin held
    BY Zenon, <2>0 DEF IInv, PlaceInv, held
  <2>5. \A c \in trim : c \notin held
    BY Zenon, <2>0 DEF IInv, PlaceInv, held
  <2>6. \A a, b \in Actors : hand[a] = hand[b] /\ hand[a] # NoChunk => a = b
    BY Zenon DEF IInv, PlaceInv
  <2>7. ASSUME NEW c \in warm \cup dispose \cup disp \cup trim \cup held \cup InHand
        PROVE  c \in mapped
    BY Zenon, <2>0, <2>7 DEF IInv, MappedInv, held, InHand
  <2>8. ASSUME NEW c \in mapped
        PROVE  c \in warm \cup dispose \cup disp \cup trim \cup held \cup InHand
    BY Zenon, <2>0, <2>8 DEF IInv, MappedInv, held, InHand
  <2>9. warm \cup dispose \cup disp \cup trim \cup held \cup InHand = mapped
    BY Zenon, <2>7, <2>8
  <2> HIDE DEF InHand, held
  <2> QED
    BY <2>1, <2>2, <2>3, <2>4, <2>5, <2>6, <2>9 DEF ChunkInOnePlace
<1> QED
  BY <1>1, StoreInvariant, PTL

\* btm_registry_insert and btm_registry_remove are ordered with mmap and munmap
\* so that the registry knows every chunk in use and nothing unmapped.
THEOREM StoreRegistryMatchesMappings == Spec => []RegistryMatchesMappings
<1>1. IInv => RegistryMatchesMappings
  BY Zenon DEF IInv, TypeOK, RegInv, RegistryMatchesMappings, held
<1> QED
  BY <1>1, StoreInvariant, PTL

\* The warm pool never exceeds the two marks together, whatever the marks and
\* however many threads dispose chunks while bg_main maps ahead.
THEOREM StoreWarmPoolBounded == Spec => []WarmPoolBounded
<1>1. IInv => WarmPoolBounded
  BY Zenon DEF IInv, WarmInv, WarmPoolBounded
<1> QED
  BY <1>1, StoreInvariant, PTL

\* Neither chunk_decommit nor decommit_batch releases the header page of a
\* mapped chunk.
THEOREM StoreHeaderStaysResident == Spec => []HeaderStaysResident
<1>1. IInv => HeaderStaysResident
  BY Zenon DEF IInv
<1> QED
  BY <1>1, StoreInvariant, PTL

\* Until bg_main has a ring, every warm chunk has been decommitted.
THEOREM StoreSyncChunksAreClean == Spec => []SyncChunksAreClean
<1>1. IInv => SyncChunksAreClean
  BY Zenon DEF IInv, CleanInv, Clean, SyncChunksAreClean, WarmChunksAreClean
<1> QED
  BY <1>1, StoreInvariant, PTL

\* bg_main never waits on bg_cv with a chunk on the disposal queue.
THEOREM StoreNoDisposalMissed == Spec => []NoDisposalMissed
<1>1. IInv => NoDisposalMissed
  BY Zenon DEF IInv, BgInv
<1> QED
  BY <1>1, StoreInvariant, PTL

\* What a step of background.c does to the pools: btm_chunk_obtain gives one a
\* chunk that none has, btm_chunk_dispose takes one's chunk, nothing else
\* changes anything.
LEMMA SupplyStep ==
  ASSUME IInv, [Next]_vars
  PROVE  [Supply!Next]_pool
<1>1. ASSUME NEW t \in Threads, ObtainReturn(t) PROVE Supply!Next
  <2>1. hand[t] \in Chunks /\ pool[hand[t]] = NoPool
    <3>1. t \in Actors /\ pc[t] \in Holding
      BY <1>1 DEF ObtainReturn, Actors, Holding
    <3> QED
      BY Zenon, <3>1 DEF IInv, TypeOK, PcInv, PlaceInv
  <2> QED
    BY Zenon, <1>1, <2>1 DEF ObtainReturn, Supply!Next, Supply!Obtain
<1>2. ASSUME NEW t \in Threads, Dispose(t) PROVE Supply!Next
  BY Zenon, <1>2 DEF Dispose, held, Supply!Next, Supply!Dispose
<1>3. ASSUME NEW t \in Threads,
             ObtainPop(t) \/ ObtainMap(t) \/ ObtainInsert(t) \/ DisposeRecycle(t) \/ DisposeRemove(t)
               \/ DisposeUnmap(t)
      PROVE  UNCHANGED pool
  BY Zenon, <1>3 DEF ObtainPop, ObtainMap, ObtainInsert, DisposeRecycle, DisposeRemove, DisposeUnmap
<1>4. BgStep => UNCHANGED pool
  BY Zenon DEF BgStep, BgTop, BgDecommit, BgSubmit, BgReap, BgReaped, BgReturn, BgTrimRemove,
     BgTrimUnmap, BgTrimDone, BgPremap, BgInsert, BgPush
<1>5. BgCreate \/ BgAsync \/ BgSpurious \/ Kernel \/ (\E c \in Chunks : Touch(c)) => UNCHANGED pool
  BY Zenon DEF BgCreate, BgAsync, BgSpurious, Kernel, KernelMadvise, Touch
<1>6. UNCHANGED vars => UNCHANGED pool
  BY Zenon DEF vars
<1> QED
  BY Zenon, <1>1, <1>2, <1>3, <1>4, <1>5, <1>6 DEF Next, ThreadStep

\* background.c implements ChunkSupply.
THEOREM StoreImplementsSupply == Spec => SupplySpec
<1>1. Init => Supply!Init
  BY Zenon DEF Init, Supply!Init
<1>2. IInv /\ [Next]_vars => [Supply!Next]_pool
  BY Zenon, SupplyStep
<1> QED
  BY <1>1, <1>2, StoreInvariant, PTL DEF Spec, SupplySpec, Supply!Spec

\* What a step does to the pages of a chunk that a pool holds before and after
\* it, if io_uring_wait_cqe does not fail: nothing is released.
LEMMA HeldStep ==
  ASSUME IInv, ~WaitFails, [Next]_vars, NEW c \in Chunks, pool[c] # NoPool, pool'[c] # NoPool
  PROVE  resident[c] \subseteq resident'[c]
<1>0. /\ resident \in [Chunks -> SUBSET Pages] /\ c \in mapped
      /\ c \notin disp /\ c \notin inflight /\ \A a \in Actors : hand[a] # c
      /\ \A t \in Threads : t \in Actors /\ hand[t] # c
      /\ hand[Bg] # c
  <2>1. \A a \in Actors : hand[a] # c
    BY Zenon, StoreAssumption DEF IInv, PlaceInv
  <2>2. resident \in [Chunks -> SUBSET Pages] /\ c \in mapped /\ c \notin disp
    BY Zenon DEF IInv, TypeOK, PlaceInv, MappedInv
  <2>3. c \notin inflight
    BY Zenon, <2>2 DEF IInv, RingInv
  <2> QED
    BY Zenon, <2>1, <2>2, <2>3 DEF Actors
<1>1. ASSUME NEW t \in Threads, ObtainMap(t) \/ DisposeUnmap(t) PROVE resident[c] \subseteq resident'[c]
  BY Zenon, <1>0, <1>1 DEF ObtainMap, DisposeUnmap, mmap, munmap
<1>2. ASSUME NEW t \in Threads, Dispose(t) PROVE resident[c] \subseteq resident'[c]
  <2>1. PICK d \in held : /\ pool' = [pool EXCEPT ![d] = NoPool]
                          /\ DisposeAsync(t, d) \/ DisposeSync(t, d)
    BY Zenon, <1>2 DEF Dispose
  <2>2. d # c
    BY Zenon, <2>1 DEF IInv, TypeOK
  <2> QED
    BY Zenon, <1>0, <2>1, <2>2 DEF DisposeAsync, DisposeSync
<1>3. ASSUME NEW t \in Threads,
             ObtainPop(t) \/ ObtainInsert(t) \/ ObtainReturn(t) \/ DisposeRecycle(t) \/ DisposeRemove(t)
      PROVE  UNCHANGED resident
  BY Zenon, <1>3 DEF ObtainPop, ObtainInsert, ObtainReturn, DisposeRecycle, DisposeRemove, spaceVars
<1>4. ASSUME NEW d \in Chunks, Touch(d) \/ KernelMadvise(d) PROVE resident[c] \subseteq resident'[c]
  BY Zenon, <1>0, <1>4 DEF Touch, KernelMadvise
<1>5. BgDecommit \/ BgTrimUnmap \/ BgPremap => resident[c] \subseteq resident'[c]
  BY Zenon, <1>0 DEF BgDecommit, BgTrimUnmap, BgPremap, mmap, munmap
<1>6. BgTop \/ BgSubmit \/ BgReap \/ BgReaped \/ BgReturn \/ BgTrimRemove \/ BgTrimDone \/ BgInsert
        \/ BgPush => UNCHANGED resident
  BY Zenon DEF BgTop, BgSubmit, BgReap, BgReaped, BgReturn, BgTrimRemove, BgTrimDone, BgInsert, BgPush,
     spaceVars
<1>7. BgCreate \/ BgAsync \/ BgSpurious \/ UNCHANGED vars => UNCHANGED resident
  BY Zenon DEF BgCreate, BgAsync, BgSpurious, vars, spaceVars
<1> QED
  BY Zenon, <1>1, <1>2, <1>3, <1>4, <1>5, <1>6, <1>7 DEF Next, ThreadStep, BgStep, Kernel

\* If io_uring_wait_cqe does not fail, decommit_batch and btm_chunk_dispose are
\* through with a chunk before a pool can hold it again.
THEOREM StoreHeldPagesKept == ASSUME ~WaitFails PROVE Spec => HeldPagesKept
<1>1. IInv /\ [Next]_vars => [\A c \in held \cap held' : resident[c] \subseteq resident'[c]]_vars
  <2> SUFFICES ASSUME IInv, [Next]_vars, NEW c \in held \cap held'
               PROVE  resident[c] \subseteq resident'[c]
    BY Zenon
  <2>1. c \in Chunks /\ pool[c] # NoPool /\ pool'[c] # NoPool
    BY Zenon DEF held
  <2> QED
    BY Zenon, <2>1, HeldStep
<1> QED
  BY <1>1, StoreInvariant, PTL DEF Spec, HeldPagesKept
=============================================================================
