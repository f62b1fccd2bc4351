-------------------------------- MODULE Mesh --------------------------------
(***************************************************************************)
(* What the slots of one pool hold, in mesh mode with BTM_HARDEN=1: the    *)
(* compaction of partition.c (btm_compact, mesh_pair), the remapping and   *)
(* page release of background.c, and the free-list links and double-free   *)
(* canaries that internal.h and btmalloc.c keep in free slots.             *)
(*                                                                         *)
(* A slab is named by its page run.  Its addresses show the memfd run      *)
(* maps[s], at first its own.  btm_compact requires a quiescent heap, so   *)
(* one thread suffices; its bin keeps slots that the pool counts as used.  *)
(* The slab lists, the free lists and the bin are sets popped in any       *)
(* order, and compaction pairs its candidates in any order: the code's     *)
(* order is one of them.                                                   *)
(***************************************************************************)
EXTENDS Naturals, FiniteSets

CONSTANTS
  NSlabs,           \* page runs the pool can carve
  Index,            \* slot indexes of a slab
  CacheMax,         \* btm_cache_max
  KeepWarmEmpty,    \* BTM_KEEP_WARM_EMPTY
  MaxCand,          \* length of the candidate array of btm_compact
  MaxCompact,       \* bound on the number of btm_compact calls
  MaxUnwritten      \* bound on the objects in use and not yet written to

ASSUME MeshAssumption ==
  /\ NSlabs \in Nat /\ CacheMax \in Nat \ {0, 1}
  /\ KeepWarmEmpty \in Nat /\ MaxCand \in Nat /\ MaxCompact \in Nat /\ MaxUnwritten \in Nat
  /\ IsFiniteSet(Index) /\ Cardinality(Index) >= 2

Slabs == 1..NSlabs
Slots == Slabs \X Index

\* What a slot's memory holds: released pages, a link only, the program's
\* bytes of object x, or a link and the canary of address x.
Zero == <<"zero">>
Link == <<"link">>
Obj(x) == <<"obj", x>>
Canary(x) == <<"canary", x>>           \* btm_df_canary

VARIABLES
  partial, empty_warm, empty_cold,
  carved,           \* runs carved from the chunk so far
  free_head,        \* the free slots of each slab
  retired,
  maps,             \* the memfd run a slab's addresses show
  mem,              \* the contents of the memfd
  bin, live,
  filled,           \* the live objects the program has written to
  flushing,         \* inside btm_pool_flush
  cand,             \* inside btm_compact: candidates not yet paired
  compacts          \* btm_compact calls so far

vars == <<partial, empty_warm, empty_cold, carved, free_head, retired, maps,
          mem, bin, live, filled, flushing, cand, compacts>>

Init ==
  /\ partial = {} /\ empty_warm = {} /\ empty_cold = {} /\ carved = 0
  /\ free_head = [s \in Slabs |-> {}]
  /\ retired = {}
  /\ maps = [s \in Slabs |-> s]
  /\ mem = [s \in Slabs |-> [k \in Index |-> Zero]]
  /\ bin = {} /\ live = {} /\ filled = {}
  /\ flushing = FALSE /\ cand = {} /\ compacts = 0

emptyVars   == <<empty_warm, empty_cold, carved>>
objVars     == <<live, filled>>
compactVars == <<retired, maps, cand, compacts>>

Idle == ~flushing /\ cand = {}

\* The choices of n elements of S, or of all of S when it has fewer.
UpTo(n, S) ==
  {R \in SUBSET S : Cardinality(R) = IF n < Cardinality(S) THEN n ELSE Cardinality(S)}

-----------------------------------------------------------------------------
(* Slot memory *)

Loc(x) == <<maps[x[1]], x[2]>>
Read(x) == mem[maps[x[1]]][x[2]]
Written(m, x, v) == [m EXCEPT ![maps[x[1]]][x[2]] = v]

\* The link is word 0, the canary word 1: linking a slot keeps its canary.
btm_fl_set(v) == IF v[1] = "canary" THEN v ELSE Link

Released == [k \in Index |-> Zero]        \* a punched run reads as zeros

Formatted(m, s) == [m EXCEPT ![maps[s]] = [k \in Index |-> btm_fl_set(@[k])]]

\* Mutant: the canary is left in place when a slot is handed out.
HandOutMutant(v) == v

\* Malloc clears the canary word of the slot it returns.
HandOut(v) == Link

\* The program has the slot x; it writes to it now or leaves it as it is.
Give(x, m) ==
  /\ live' = live \cup {x}
  /\ \/ mem' = Written(m, x, Obj(x)) /\ filled' = filled \cup {x}
     \/ /\ Cardinality(live \ filled) < MaxUnwritten
        /\ mem' = Written(m, x, HandOut(m[maps[x[1]]][x[2]]))
        /\ UNCHANGED filled

-----------------------------------------------------------------------------
(* btm_malloc_at *)

MallocHit ==
  /\ Idle
  /\ \E x \in bin : bin' = bin \ {x} /\ Give(x, mem)
  /\ UNCHANGED <<partial, emptyVars, free_head, flushing, compactVars>>

want == CacheMax \div 2

\* btm_pool_refill from the slab s of the partial list plist, with free lists
\* fl and memory m.  With no slot to take, NULL is returned.
Take(s, plist, fl, m) ==
  \E R \in UpTo(want, fl[s]) :
    /\ free_head' = [fl EXCEPT ![s] = @ \ R]
    /\ partial' = IF R = fl[s] THEN plist \ {s} ELSE plist
    /\ IF R = {} THEN mem' = m /\ UNCHANGED <<bin, objVars>>
       ELSE \E k \in R : bin' = {s} \X (R \ {k}) /\ Give(<<s, k>>, m)

RefillPartial ==
  /\ Idle /\ bin = {}
  /\ \E s \in partial : Take(s, partial, free_head, mem)
  /\ UNCHANGED <<emptyVars, flushing, compactVars>>

\* btm_slab_new: a warm empty slab, a cold one, or a newly carved one.
SlabNew(s) ==
  \/ s \in empty_warm /\ empty_warm' = empty_warm \ {s} /\ UNCHANGED <<empty_cold, carved>>
  \/ /\ empty_warm = {} /\ s \in empty_cold
     /\ empty_cold' = empty_cold \ {s}
     /\ UNCHANGED <<empty_warm, carved>>
  \/ /\ empty_warm = {} /\ empty_cold = {} /\ s = carved + 1
     /\ carved' = s
     /\ UNCHANGED <<empty_warm, empty_cold>>

RefillNew ==
  /\ Idle /\ bin = {} /\ partial = {}
  /\ \E s \in Slabs :
       /\ SlabNew(s)
       /\ Take(s, {s}, [free_head EXCEPT ![s] = Index], Formatted(mem, s))
  /\ UNCHANGED <<flushing, compactVars>>

-----------------------------------------------------------------------------
(* btm_free *)

\* Mutant: the canary is stamped in word 0, and the link overwrites it.
StampMutant(x) == Link

Stamp(x) == Canary(x)

\* Into the bin, with the canary of its own address.
FreeToBin(x) ==
  /\ Idle /\ x \in live
  /\ Read(x) # Canary(x)                    \* otherwise btm_double_free aborts
  /\ live' = live \ {x} /\ filled' = filled \ {x}
  /\ bin' = bin \cup {x}
  /\ mem' = Written(mem, x, Stamp(x))
  /\ flushing' = (Cardinality(bin') > CacheMax)
  /\ UNCHANGED <<partial, emptyVars, free_head, compactVars>>

\* slab_became_free, with memory m.  A retired slab counts as live, so the
\* chunk of a meshed slab is never disposed of.
BecameFree(s, m) ==
  /\ partial' = partial \ {s}
  /\ \/ /\ empty_warm \cup empty_cold \cup {s} = 1..carved
        /\ empty_warm' = {} /\ empty_cold' = {} /\ carved' = 0
        /\ mem' = [r \in Slabs |-> Released]               \* btm_chunk_dispose
     \/ /\ empty_warm \cup empty_cold \cup {s} # 1..carved
        /\ IF Cardinality(empty_warm) < KeepWarmEmpty
           THEN /\ empty_warm' = empty_warm \cup {s}
                /\ mem' = m
                /\ UNCHANGED empty_cold
           ELSE /\ empty_cold' = empty_cold \cup {s}
                /\ mem' = [m EXCEPT ![s] = Released]       \* slab_decommit
                /\ UNCHANGED empty_warm
        /\ UNCHANGED carved

\* Mutant: a retired slab is reused like any other.
InertMutant(s) == FALSE

\* A meshed slab: its frees are tracked, it is never reallocated or reclaimed.
Inert(s) == s \in retired

\* A slot goes back to its slab: the loop body of btm_pool_flush.
ReturnSlot(x) ==
  LET s == x[1]
      m == Written(mem, x, btm_fl_set(Read(x)))
  IN
  /\ free_head' = [free_head EXCEPT ![s] = @ \cup {x[2]}]
  /\ \/ ~Inert(s) /\ free_head'[s] = Index /\ BecameFree(s, m)
     \/ /\ Inert(s) \/ free_head'[s] # Index
        /\ partial' = IF Inert(s) THEN partial ELSE partial \cup {s}
        /\ mem' = m
        /\ UNCHANGED emptyVars

FlushStep ==
  /\ flushing
  /\ \E x \in bin : bin' = bin \ {x} /\ ReturnSlot(x)
  /\ flushing' = (Cardinality(bin') > CacheMax \div 2)
  /\ UNCHANGED <<objVars, compactVars>>

-----------------------------------------------------------------------------
(* btm_compact *)

Occ(s) == Index \ free_head[s]                              \* build_occ

Sparse(s) == /\ s \notin retired /\ Occ(s) # {}
             /\ Cardinality(Occ(s)) * 2 <= Cardinality(Index)

\* Gather sparse slabs of the partial list, as many as the array holds.
CompactStart ==
  /\ Idle /\ compacts < MaxCompact
  /\ compacts' = compacts + 1
  /\ cand' \in UpTo(MaxCand, {s \in partial : Sparse(s)})
  /\ UNCHANGED <<partial, emptyVars, free_head, retired, maps, mem, bin, objVars, flushing>>

\* Mutant: the slots that the donor's objects moved to stay on the free list.
RebuiltMutant(R, D) == free_head[R]

\* The recipient's free list keeps what is free in both slabs.
Rebuilt(R, D) == free_head[R] \ Occ(D)

\* The donor's used slots, cached ones included, copied into the recipient.
Merged(R, D) == [k \in Index |->
  IF k \in Occ(D) THEN Read(<<D, k>>)
  ELSE IF k \in Rebuilt(R, D) THEN btm_fl_set(Read(<<R, k>>)) ELSE Read(<<R, k>>)]

\* btm_mesh_remap: the donor's addresses show the recipient's run, and the
\* donor's own run is released.  When mmap fails nothing is remapped.
Remap(R, D) ==
  \/ /\ maps' = [maps EXCEPT ![D] = R]
     /\ mem' = [mem EXCEPT ![maps[R]] = Merged(R, D), ![D] = Released]
  \/ /\ mem' = [mem EXCEPT ![maps[R]] = Merged(R, D)]
     /\ UNCHANGED maps

mesh_pair(R, D) ==
  /\ free_head' = [free_head EXCEPT ![R] = Rebuilt(R, D)]
  /\ Remap(R, D)
  /\ partial' = partial \ {D}
  /\ retired' = retired \cup {D}

\* Mutant: only the first bitmap is looked at.
DisjointMutant(R, D) == Occ(R) # {}

Disjoint(R, D) == Occ(R) \cap Occ(D) = {}

\* One candidate of the greedy loop: it becomes the recipient of another
\* candidate with disjoint occupancy, if there is one.  A candidate passed
\* over found no partner, and so is nobody's partner later.
CompactStep ==
  \E R \in cand :
    /\ LET donors == {D \in cand \ {R} : Disjoint(R, D)} IN
       \/ /\ donors = {} /\ cand' = cand \ {R}
          /\ UNCHANGED <<partial, free_head, retired, maps, mem>>
       \/ \E D \in donors : mesh_pair(R, D) /\ cand' = cand \ {R, D}
    /\ UNCHANGED <<emptyVars, bin, objVars, flushing, compacts>>

Next ==
  \/ MallocHit \/ RefillPartial \/ RefillNew
  \/ \E x \in Slots : FreeToBin(x)
  \/ FlushStep \/ CompactStart \/ CompactStep

Spec == Init /\ [][Next]_vars

-----------------------------------------------------------------------------
(* Properties *)

\* The bytes of every object the program has written are there to be read at
\* the object's address, through frees, reuse, page release and compaction.
ObjectsKept == \A x \in filled : Read(x) = Obj(x)

\* Free slots that can be handed out: in the bin, or on the free list of a
\* carved slab that is neither retired nor empty.
Available == bin \cup {x \in Slots :
  /\ x[1] \in 1..carved \ (retired \cup empty_warm \cup empty_cold)
  /\ x[2] \in free_head[x[1]]}

\* No two of the slots in use or available share memory, though two slabs'
\* addresses may show one run.
NoSharedCell ==
  LET U == live \cup Available IN
  \A x, y \in U : Loc(x) = Loc(y) => x = y

\* The link of every slot that can be handed out is intact: releasing a run
\* or copying objects over it never cuts a free list that is in use.
LinksKept == \A x \in Available : Read(x)[1] \in {"link", "canary"}

\* BTM_HARDEN=1 never aborts a correct program: a slot in use does not carry
\* the canary of its own address.
NoFalseAlarm == \A x \in live : Read(x) # Canary(x)

\* A second free of a slot still in the bin is noticed: every slot that
\* btm_free put there carries its canary, wherever compaction has moved it.
\* The slots a refill adds to an empty bin, want - 1 of them, carry none.
DoubleFreeSeen ==
  Cardinality({x \in bin : Read(x) # Canary(x)}) <= want - 1

====
