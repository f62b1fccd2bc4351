----------------------------- MODULE MeshProofs -----------------------------
(***************************************************************************)
(* Proofs about Mesh, for any number of slabs and slots.                   *)
(*                                                                         *)
(* Lists says where a slab and a slot may be, and that only a retired      *)
(* slab's addresses show another slab's run.  Apart is NoSharedCell over a *)
(* larger set, the free slots of empty slabs included, which makes it      *)
(* inductive.  Fresh says that the first btm_compact call never takes a    *)
(* slab as a donor whose run another slab's addresses show: what a second  *)
(* call may do, and the reason why the contents are kept while             *)
(* compacts <= 1.                                                          *)
(***************************************************************************)
EXTENDS Mesh, FiniteSetTheorems, TLAPS

Carved == 1..carved
Empty == empty_warm \cup empty_cold
Out == live \cup bin

Cells == {Zero, Link} \cup {Obj(x) : x \in Slots} \cup {Canary(x) : x \in Slots}
Memory == [Slabs -> [Index -> Cells]]

\* The types of the pool, the memory and the program's objects.
TypeOK ==
  /\ partial \subseteq Slabs /\ empty_warm \subseteq Slabs /\ empty_cold \subseteq Slabs
  /\ carved \in 0..NSlabs
  /\ free_head \in [Slabs -> SUBSET Index]
  /\ retired \subseteq Slabs
  /\ maps \in [Slabs -> Slabs]
  /\ mem \in Memory
  /\ bin \subseteq Slots /\ live \subseteq Slots /\ filled \subseteq live
  /\ flushing \in BOOLEAN /\ cand \subseteq Slabs /\ compacts \in Nat

Lists ==
  /\ live \cap bin = {}
  /\ \A x \in Out : x[1] \in Carved /\ x[2] \notin free_head[x[1]]
  /\ \A s \in Carved : maps[s] \in Carved
  /\ \A s \in Slabs : s \notin retired => maps[s] = s
  /\ retired \subseteq Carved
  /\ \A s \in Empty : s \in Carved /\ s \notin retired /\ free_head[s] = Index
  /\ empty_warm \cap empty_cold = {}
  /\ partial \subseteq Carved
  /\ \A s \in partial : s \notin retired /\ s \notin Empty
  /\ cand \subseteq partial /\ (flushing => cand = {})

\* The slots in use, in the bin, or free in a slab that can be used again, for
\* free lists fl and car carved slabs.
UsableIn(fl, car) ==
  Out \cup {x \in Slots : x[1] \in 1..car /\ x[1] \notin retired /\ x[2] \in fl[x[1]]}
Usable == UsableIn(free_head, carved)

Apart == \A x, y \in Usable : Loc(x) = Loc(y) => x = y

Fresh ==
  /\ compacts = 0 => retired = {} /\ cand = {}
  /\ compacts <= 1 => \A s \in cand : \A e \in Slabs : maps[e] = s => e = s

Base == TypeOK /\ Lists /\ Apart /\ Fresh

Contents == ObjectsKept /\ LinksKept /\ DoubleFreeSeen

Inv == Base /\ NoFalseAlarm /\ (compacts <= 1 => Contents)

-----------------------------------------------------------------------------
(* Slots and their memory *)

\* What Mesh's operators need of the cell values: the kinds differ, and
\* linking a slot (btm_fl_set) leaves a link or the canary that was there.
LEMMA CellFacts ==
  /\ Zero \in Cells /\ Link \in Cells
  /\ \A x \in Slots : /\ Obj(x) \in Cells /\ Canary(x) \in Cells
                      /\ Obj(x) # Canary(x) /\ Link # Canary(x) /\ Zero # Canary(x)
                      /\ Obj(x) # Link /\ Canary(x)[1] = "canary"
  /\ Link[1] = "link"
  /\ \A v \in Cells : /\ btm_fl_set(v) \in Cells
                      /\ btm_fl_set(v)[1] \in {"link", "canary"}
                      /\ btm_fl_set(v) \in {v, Link}
BY Zenon DEF Cells, Zero, Link, Obj, Canary, btm_fl_set

\* A slot is a pair of a slab and an index.
LEMMA SlotPair ==
  /\ \A x \in Slots : x[1] \in Slabs /\ x[2] \in Index /\ x = <<x[1], x[2]>>
  /\ \A s \in Slabs, k \in Index : <<s, k>> \in Slots
BY DEF Slots

\* Writing a slot changes its cell and no other.
LEMMA WrittenAt ==
  ASSUME maps \in [Slabs -> Slabs], NEW m \in Memory, NEW x \in Slots, NEW v \in Cells
  PROVE  /\ Written(m, x, v) \in Memory
         /\ Written(m, x, v)[maps[x[1]]][x[2]] = v
         /\ \A y \in Slots : Loc(y) # Loc(x) =>
              Written(m, x, v)[maps[y[1]]][y[2]] = m[maps[y[1]]][y[2]]
BY Zenon, SlotPair DEF Written, Memory, Loc

\* What the program gets from btm_malloc_at: the slot, written or cleared.
LEMMA GiveFacts ==
  ASSUME TypeOK, NEW m \in Memory, NEW x \in Slots, Give(x, m)
  PROVE  /\ live' = live \cup {x}
         /\ \E v \in {Obj(x), Link} :
              /\ mem' = Written(m, x, v)
              /\ filled' = IF v = Obj(x) THEN filled \cup {x} ELSE filled
BY Zenon, CellFacts DEF Give, HandOut

\* The runs that slots in use or in the bin show are not the run of a slab
\* that is not carved, or carved and wholly free.
LEMMA FullApart ==
  ASSUME Base, NEW s \in Slabs, s \notin retired, s \in Carved => free_head[s] = Index
  PROVE  \A x \in Out : maps[x[1]] # s
<1> SUFFICES ASSUME NEW x \in Out, maps[x[1]] = s PROVE FALSE
  BY Zenon
<1>1. x \in Slots /\ x[1] \in Carved /\ x[2] \notin free_head[x[1]] /\ maps[x[1]] \in Carved
  BY Zenon DEF Base, TypeOK, Lists, Out
<1>2. s \in Carved /\ free_head[s] = Index /\ maps[s] = s
  BY Zenon, <1>1 DEF Base, Lists
<1>3. <<s, x[2]>> \in Usable /\ x \in Usable
  BY Zenon, <1>1, <1>2, SlotPair DEF Usable, UsableIn, Carved, Base, Lists
<1>4. Loc(<<s, x[2]>>) = Loc(x)
  BY Zenon, <1>1, <1>2 DEF Loc
<1>5. x = <<s, x[2]>>
  BY Zenon, <1>3, <1>4 DEF Base, Apart
<1> QED BY Zenon, <1>1, <1>2, <1>5, SlotPair

\* What btm_pool_refill does when it takes the slots R of the slab s.
Taken(s, pl, fl, m, R) ==
  /\ R \in UpTo(want, fl[s])
  /\ free_head' = [fl EXCEPT ![s] = @ \ R]
  /\ partial' = IF R = fl[s] THEN pl \ {s} ELSE pl
  /\ \/ R = {} /\ mem' = m /\ UNCHANGED <<bin, live, filled>>
     \/ \E k \in R : \E v \in {Obj(<<s, k>>), Link} :
          /\ bin' = {s} \X (R \ {k})
          /\ live' = live \cup {<<s, k>>}
          /\ mem' = Written(m, <<s, k>>, v)
          /\ filled' = IF v = Obj(<<s, k>>) THEN filled \cup {<<s, k>>} ELSE filled

\* btm_pool_refill moves slots from the free list of the slab s to the program
\* and the bin, up to want of them, and writes to the one it hands out.
LEMMA TakeFacts ==
  ASSUME TypeOK, NEW s \in Slabs, NEW fl \in [Slabs -> SUBSET Index], NEW m \in Memory,
         NEW pl \in SUBSET Slabs, Take(s, pl, fl, m)
  PROVE  \E R \in SUBSET fl[s] : Taken(s, pl, fl, m, R)
<1>1. PICK R \in UpTo(want, fl[s]) :
         /\ free_head' = [fl EXCEPT ![s] = @ \ R]
         /\ partial' = IF R = fl[s] THEN pl \ {s} ELSE pl
         /\ IF R = {} THEN mem' = m /\ UNCHANGED <<bin, objVars>>
            ELSE \E k \in R : bin' = {s} \X (R \ {k}) /\ Give(<<s, k>>, m)
  BY Zenon DEF Take
<1>2. R \in SUBSET fl[s]
  BY Zenon DEF UpTo
<1>3. CASE R = {}
  BY Zenon, <1>1, <1>2, <1>3 DEF objVars, Taken
<1>4. CASE R # {}
  <2>1. PICK k \in R : bin' = {s} \X (R \ {k}) /\ Give(<<s, k>>, m)
    BY Zenon, <1>1, <1>4
  <2>2. <<s, k>> \in Slots
    BY Zenon, <1>2, SlotPair
  <2>3. PICK v \in {Obj(<<s, k>>), Link} :
           /\ live' = live \cup {<<s, k>>}
           /\ mem' = Written(m, <<s, k>>, v)
           /\ filled' = IF v = Obj(<<s, k>>) THEN filled \cup {<<s, k>>} ELSE filled
    BY Zenon, <2>1, <2>2, GiveFacts
  <2> QED BY Zenon, <1>1, <1>2, <2>1, <2>3 DEF Taken
<1> QED BY Zenon, <1>3, <1>4

-----------------------------------------------------------------------------
(* Base is inductive: one lemma per action *)

\* btm_malloc_at from the bin keeps Base: the slot stays out of its slab.
LEMMA MallocHitBase ==
  ASSUME Base, MallocHit
  PROVE  Base'
<1>1. PICK x \in bin : bin' = bin \ {x} /\ Give(x, mem)
  BY Zenon DEF MallocHit
<1>2. x \in Slots /\ mem \in Memory /\ maps \in [Slabs -> Slabs] /\ TypeOK
  BY Zenon DEF Base, TypeOK
<1>3. PICK v \in {Obj(x), Link} :
         /\ live' = live \cup {x}
         /\ mem' = Written(mem, x, v)
         /\ filled' = IF v = Obj(x) THEN filled \cup {x} ELSE filled
  BY Zenon, <1>1, <1>2, GiveFacts
<1>4. UNCHANGED <<partial, empty_warm, empty_cold, carved, free_head, flushing, retired,
                  maps, cand, compacts>>
  BY Zenon DEF MallocHit, emptyVars, compactVars
<1>5. mem' \in Memory
  BY Zenon, <1>2, <1>3, WrittenAt, CellFacts
<1>6. Out' = Out /\ live' \cap bin' = {}
  BY Zenon, <1>1, <1>3 DEF Out, Base, Lists
<1>7. TypeOK'
  BY Zenon, <1>1, <1>2, <1>3, <1>4, <1>5 DEF TypeOK
<1>8. Lists'
  BY Zenon, <1>4, <1>6 DEF Base, Lists, Empty, Carved
<1>9. Apart'
  BY Zenon, <1>4, <1>6 DEF Base, Apart, Usable, UsableIn, Loc
<1>10. Fresh'
  BY Zenon, <1>4 DEF Base, Fresh
<1> QED BY Zenon, <1>7, <1>8, <1>9, <1>10 DEF Base

\* btm_free into the bin keeps Base.
LEMMA FreeToBinBase ==
  ASSUME Base, NEW x \in Slots, FreeToBin(x)
  PROVE  Base'
<1>1. /\ x \in live /\ live' = live \ {x} /\ filled' = filled \ {x} /\ bin' = bin \cup {x}
      /\ mem' = Written(mem, x, Canary(x)) /\ flushing' \in BOOLEAN /\ cand = {}
  BY DEF FreeToBin, Stamp, Idle
<1>2. UNCHANGED <<partial, empty_warm, empty_cold, carved, free_head, retired, maps, cand, compacts>>
  BY Zenon DEF FreeToBin, emptyVars, compactVars
<1>3. mem' \in Memory
  BY Zenon, <1>1, WrittenAt, CellFacts DEF Base, TypeOK
<1>4. Out' = Out /\ live' \cap bin' = {}
  BY Zenon, <1>1 DEF Out, Base, Lists
<1>5. TypeOK'
  BY Zenon, <1>1, <1>2, <1>3 DEF Base, TypeOK
<1>6. Lists'
  BY Zenon, <1>1, <1>2, <1>4 DEF Base, Lists, Empty, Carved
<1>7. Apart'
  BY Zenon, <1>2, <1>4 DEF Base, Apart, Usable, UsableIn, Loc
<1>8. Fresh'
  BY Zenon, <1>2 DEF Base, Fresh
<1> QED BY Zenon, <1>5, <1>6, <1>7, <1>8 DEF Base

\* Where the slots are after btm_pool_refill took some from the slab s.
LEMMA TakeLists ==
  ASSUME TypeOK, bin = {}, NEW s \in Slabs, NEW fl \in [Slabs -> SUBSET Index],
         NEW m \in Memory, NEW pl \in SUBSET Slabs, NEW car \in 0..NSlabs,
         s \in 1..car, s \notin retired,
         \A x \in live : x[1] \in 1..car /\ x[2] \notin fl[x[1]],
         Take(s, pl, fl, m), retired' = retired, maps' = maps, carved' = car
  PROVE  /\ free_head' \in [Slabs -> SUBSET Index] /\ mem' \in Memory
         /\ bin' \subseteq Slots /\ live' \subseteq Slots /\ filled' \subseteq live'
         /\ live' \cap bin' = {}
         /\ \A x \in Out' : x[1] \in 1..car /\ x[2] \notin free_head'[x[1]]
         /\ Usable' = UsableIn(fl, car)
         /\ \A t \in Slabs : t # s => free_head'[t] = fl[t]
         /\ partial' \subseteq pl
<1>1. PICK R \in SUBSET fl[s] : Taken(s, pl, fl, m, R)
  BY Zenon, TakeFacts
<1>2. free_head' \in [Slabs -> SUBSET Index] /\ partial' \subseteq pl
  BY Zenon, <1>1 DEF Taken
<1>3. \A t \in Slabs : free_head'[t] = IF t = s THEN fl[s] \ R ELSE fl[t]
  BY Zenon, <1>1 DEF Taken
<1>4. CASE R = {} /\ mem' = m /\ UNCHANGED <<bin, live, filled>>
  <2>1. free_head' = fl
    BY Zenon, <1>1, <1>4 DEF Taken
  <2> QED BY Zenon, <1>2, <1>3, <1>4, <2>1 DEF TypeOK, Out, Usable, UsableIn
<1>5. ASSUME NEW k \in R, NEW v \in {Obj(<<s, k>>), Link},
             bin' = {s} \X (R \ {k}), live' = live \cup {<<s, k>>},
             mem' = Written(m, <<s, k>>, v),
             filled' = IF v = Obj(<<s, k>>) THEN filled \cup {<<s, k>>} ELSE filled
      PROVE  /\ mem' \in Memory
             /\ bin' \subseteq Slots /\ live' \subseteq Slots /\ filled' \subseteq live'
             /\ live' \cap bin' = {}
             /\ \A x \in Out' : x[1] \in 1..car /\ x[2] \notin free_head'[x[1]]
             /\ Usable' = UsableIn(fl, car)
  <2>1. <<s, k>> \in Slots /\ v \in Cells
    BY Zenon, SlotPair, CellFacts
  <2>2. mem' \in Memory
    BY Zenon, <1>5, <2>1, WrittenAt DEF TypeOK
  <2>3. bin' \subseteq Slots /\ live' \subseteq Slots /\ filled' \subseteq live'
    BY Zenon, <1>5, <2>1, SlotPair DEF TypeOK, Slots
  <2>4. \A x \in bin' : x[1] = s /\ x[2] \in R /\ x[2] # k
    BY Zenon, <1>5
  <2>5. live' \cap bin' = {}
    BY <1>5, <2>4
  <2>6. \A x \in Out' : x[1] \in 1..car /\ x[2] \notin free_head'[x[1]]
    BY <1>3, <1>5, <2>4, SlotPair DEF Out, TypeOK
  <2>7. \A x \in Slots : x \in Out' <=> x \in live \/ (x[1] = s /\ x[2] \in R)
    BY <1>5, SlotPair DEF Out
  <2>8. \A x \in Slots : x \in Usable' <=> x \in UsableIn(fl, car)
    BY Zenon, <1>3, <2>7, SlotPair DEF Usable, UsableIn, Out
  <2>9. Usable' \subseteq Slots /\ UsableIn(fl, car) \subseteq Slots
    BY Zenon, <2>3 DEF Usable, UsableIn, Out, TypeOK
  <2> QED BY Zenon, <2>2, <2>3, <2>5, <2>6, <2>8, <2>9
<1> QED BY Zenon, <1>1, <1>2, <1>3, <1>4, <1>5 DEF Taken

\* btm_pool_refill from a partial slab keeps Base.
LEMMA RefillPartialBase ==
  ASSUME Base, RefillPartial
  PROVE  Base'
<1>1. PICK s \in partial : Take(s, partial, free_head, mem)
  BY Zenon DEF RefillPartial
<1>2. /\ bin = {} /\ cand = {}
      /\ UNCHANGED <<empty_warm, empty_cold, carved, flushing, retired, maps, cand, compacts>>
  BY Zenon DEF RefillPartial, Idle, emptyVars, compactVars
<1>3. TypeOK /\ Lists
  BY Zenon DEF Base
<1>4. /\ s \in Slabs /\ s \in 1..carved /\ s \notin retired /\ carved \in 0..NSlabs
      /\ free_head \in [Slabs -> SUBSET Index] /\ mem \in Memory /\ partial \in SUBSET Slabs
      /\ \A x \in live : x[1] \in 1..carved /\ x[2] \notin free_head[x[1]]
  BY Zenon, <1>1, <1>3 DEF TypeOK, Lists, Carved, Out
<1>5. /\ free_head' \in [Slabs -> SUBSET Index] /\ mem' \in Memory
      /\ bin' \subseteq Slots /\ live' \subseteq Slots /\ filled' \subseteq live'
      /\ live' \cap bin' = {}
      /\ \A x \in Out' : x[1] \in 1..carved /\ x[2] \notin free_head'[x[1]]
      /\ Usable' = Usable
      /\ \A t \in Slabs : t # s => free_head'[t] = free_head[t]
      /\ partial' \subseteq partial
  BY <1>1, <1>2, <1>3, <1>4, TakeLists DEF Usable
<1>6. TypeOK'
  BY Zenon, <1>2, <1>3, <1>4, <1>5 DEF TypeOK
<1>7. Lists'
  <2>1. \A t \in Empty' : t \in Carved' /\ t \notin retired' /\ free_head'[t] = Index
    BY <1>1, <1>2, <1>3, <1>5 DEF Lists, Empty, Carved, TypeOK
  <2> QED BY Zenon, <1>2, <1>3, <1>5, <2>1 DEF Lists, Empty, Carved
<1>8. Apart'
  BY Zenon, <1>2, <1>5 DEF Base, Apart, Loc
<1>9. Fresh'
  BY Zenon, <1>2 DEF Base, Fresh
<1> QED BY Zenon, <1>6, <1>7, <1>8, <1>9 DEF Base

\* The slab that btm_slab_new returns is carved, not retired, on no list, and
\* was wholly free or not carved before.
LEMMA SlabNewFacts ==
  ASSUME Base, NEW s \in Slabs, SlabNew(s)
  PROVE  /\ carved' \in 0..NSlabs /\ s \in 1..carved' /\ Carved \subseteq 1..carved'
         /\ s \notin retired /\ maps[s] = s
         /\ s \in Carved => free_head[s] = Index
         /\ Empty' = Empty \ {s} /\ empty_warm' \cap empty_cold' = {}
         /\ empty_warm' \subseteq Slabs /\ empty_cold' \subseteq Slabs
         /\ \A t \in 1..carved' : t = s \/ t \in Carved
<1>1. NSlabs \in Nat /\ carved \in 0..NSlabs /\ Slabs = 1..NSlabs
  BY Zenon, MeshAssumption DEF Base, TypeOK, Slabs
<1>2. Lists /\ empty_warm \subseteq Slabs /\ empty_cold \subseteq Slabs
  BY Zenon DEF Base, TypeOK
<1>3. CASE s \in empty_warm /\ empty_warm' = empty_warm \ {s} /\ UNCHANGED <<empty_cold, carved>>
  BY <1>1, <1>2, <1>3 DEF Lists, Empty, Carved
<1>4. CASE /\ empty_warm = {} /\ s \in empty_cold
           /\ empty_cold' = empty_cold \ {s}
           /\ UNCHANGED <<empty_warm, carved>>
  BY Zenon, <1>1, <1>2, <1>4 DEF Lists, Empty, Carved
<1>5. CASE /\ empty_warm = {} /\ empty_cold = {} /\ s = carved + 1
           /\ carved' = s
           /\ UNCHANGED <<empty_warm, empty_cold>>
  <2>1. s \notin Carved /\ s \notin retired
    BY <1>1, <1>2, <1>5 DEF Lists, Carved
  <2> QED BY <1>1, <1>2, <1>5, <2>1 DEF Lists, Empty, Carved
<1> QED BY Zenon, <1>3, <1>4, <1>5 DEF SlabNew

\* slab_format rewrites the links of the slab's own run, and no other.
LEMMA FormattedAt ==
  ASSUME NEW m \in Memory, NEW s \in Slabs, maps \in [Slabs -> Slabs], maps[s] = s
  PROVE  /\ Formatted(m, s) \in Memory
         /\ \A t \in Slabs : t # s => Formatted(m, s)[t] = m[t]
         /\ \A k \in Index : Formatted(m, s)[s][k] = btm_fl_set(m[s][k])
BY Zenon, CellFacts DEF Formatted, Memory

\* btm_pool_refill from a slab that btm_slab_new returns keeps Base.
LEMMA RefillNewBase ==
  ASSUME Base, RefillNew
  PROVE  Base'
<1> DEFINE fl(s) == [free_head EXCEPT ![s] = Index]
<1>1. PICK s \in Slabs : SlabNew(s) /\ Take(s, {s}, fl(s), Formatted(mem, s))
  BY Zenon DEF RefillNew
<1>2. /\ bin = {} /\ partial = {} /\ cand = {}
      /\ UNCHANGED <<flushing, retired, maps, cand, compacts>>
  BY Zenon DEF RefillNew, Idle, compactVars
<1>3. TypeOK /\ Lists /\ Apart /\ Fresh
  BY Zenon DEF Base
<1>4. /\ carved' \in 0..NSlabs /\ s \in 1..carved' /\ Carved \subseteq 1..carved'
      /\ s \notin retired /\ maps[s] = s
      /\ s \in Carved => free_head[s] = Index
      /\ Empty' = Empty \ {s} /\ empty_warm' \cap empty_cold' = {}
      /\ empty_warm' \subseteq Slabs /\ empty_cold' \subseteq Slabs
      /\ \A t \in 1..carved' : t = s \/ t \in Carved
  BY Zenon, <1>1, SlabNewFacts
<1>5. /\ fl(s) \in [Slabs -> SUBSET Index] /\ Formatted(mem, s) \in Memory
      /\ fl(s)[s] = Index /\ \A t \in Slabs : t # s => fl(s)[t] = free_head[t]
  BY Zenon, <1>3, <1>4, FormattedAt DEF TypeOK
<1>6. \A x \in Out : maps[x[1]] # s
  BY Zenon, <1>4, FullApart
<1>7. \A x \in live : x[1] \in 1..carved' /\ x[2] \notin fl(s)[x[1]]
  <2> SUFFICES ASSUME NEW x \in live PROVE x[1] \in 1..carved' /\ x[2] \notin fl(s)[x[1]]
    BY Zenon
  <2>1. x \in Slots /\ x[1] \in Carved /\ x[2] \notin free_head[x[1]]
    BY Zenon, <1>3 DEF Lists, Out, TypeOK
  <2>2. x[1] # s
    BY Zenon, <1>4, <1>6 DEF Out
  <2> QED BY Zenon, <1>4, <1>5, <2>1, <2>2, SlotPair
<1>8. /\ free_head' \in [Slabs -> SUBSET Index] /\ mem' \in Memory
      /\ bin' \subseteq Slots /\ live' \subseteq Slots /\ filled' \subseteq live'
      /\ live' \cap bin' = {}
      /\ \A x \in Out' : x[1] \in 1..carved' /\ x[2] \notin free_head'[x[1]]
      /\ Usable' = UsableIn(fl(s), carved')
      /\ \A t \in Slabs : t # s => free_head'[t] = fl(s)[t]
      /\ partial' \subseteq {s}
  <2>1. {s} \in SUBSET Slabs
    BY Zenon
  <2> HIDE DEF fl
  <2> QED BY <1>1, <1>2, <1>3, <1>4, <1>5, <1>7, <2>1, TakeLists
<1> HIDE DEF fl
<1>9. TypeOK'
  BY Zenon, <1>2, <1>3, <1>4, <1>8 DEF TypeOK
<1>10. Lists'
  <2>1. \A t \in Empty' : t \in Carved' /\ t \notin retired' /\ free_head'[t] = Index
    BY Zenon, <1>2, <1>3, <1>4, <1>5, <1>8 DEF Lists, Empty, Carved, TypeOK
  <2>2. partial' \subseteq Carved' /\ \A t \in partial' : t \notin retired' /\ t \notin Empty'
    BY Zenon, <1>2, <1>4, <1>8 DEF Carved
  <2>3. \A t \in Carved' : maps'[t] \in Carved'
    BY Zenon, <1>2, <1>3, <1>4 DEF Lists, Carved
  <2>4. retired' \subseteq Carved' /\ \A t \in Slabs : t \notin retired' => maps'[t] = t
    BY Zenon, <1>2, <1>3, <1>4 DEF Lists, Carved
  <2> QED BY Zenon, <1>2, <1>4, <1>8, <2>1, <2>2, <2>3, <2>4 DEF Lists, Carved
<1>11. Apart'
  <2> SUFFICES ASSUME NEW x \in Usable', NEW y \in Usable', Loc(x) = Loc(y) PROVE x = y
    BY Zenon, <1>2 DEF Apart, Loc
  <2>1. \A z \in Usable' : z \in Slots /\ (z[1] # s => z \in Usable)
    <3>1. \A z \in UsableIn(fl(s), carved') : z \in Slots /\ (z[1] # s => z \in Usable)
      BY Zenon, <1>3, <1>4, <1>5, SlotPair DEF Usable, UsableIn, Out, TypeOK, Carved
    <3> QED BY Zenon, <1>8, <3>1
  <2>2. \A z \in Usable' : z[1] = s <=> maps[z[1]] = s
    BY Zenon, <1>3, <1>4, <1>6, <1>8, SlotPair DEF Lists, UsableIn
  <2>3. maps[x[1]] = maps[y[1]] /\ x[2] = y[2]
    BY Zenon DEF Loc
  <2>4. CASE x[1] = s
    BY Zenon, <2>1, <2>2, <2>3, <2>4, SlotPair
  <2>5. CASE x[1] # s
    BY Zenon, <1>3, <2>1, <2>2, <2>3, <2>5 DEF Apart
  <2> QED BY Zenon, <2>4, <2>5
<1>12. Fresh'
  BY Zenon, <1>2, <1>3 DEF Fresh
<1> QED BY Zenon, <1>9, <1>10, <1>11, <1>12 DEF Base

\* The free lists and the slots that are out after the flush of the slot x.
LEMMA FlushFacts ==
  ASSUME Base, flushing, NEW x \in bin, bin' = bin \ {x}, ReturnSlot(x), FlushStep
  PROVE  /\ x \in Slots /\ x[1] \in Carved /\ x[1] \notin Empty /\ cand = {}
         /\ free_head' \in [Slabs -> SUBSET Index]
         /\ \A t \in Slabs : t # x[1] => free_head'[t] = free_head[t]
         /\ free_head'[x[1]] = free_head[x[1]] \cup {x[2]}
         /\ UNCHANGED <<live, filled, retired, maps, cand, compacts>>
         /\ flushing' \in BOOLEAN
         /\ Out' = Out \ {x} /\ live' \cap bin' = {}
         /\ \A y \in Out' : y[1] \in Carved /\ y[2] \notin free_head'[y[1]]
         /\ Written(mem, x, btm_fl_set(Read(x))) \in Memory
<1>1. /\ x \in Slots /\ x \in Out /\ x \notin live /\ TypeOK /\ Lists
  BY Zenon DEF Base, TypeOK, Lists, Out
<1>2. x[1] \in Carved /\ x[2] \notin free_head[x[1]] /\ cand = {} /\ x[1] \notin Empty
  BY ZenonT(40), <1>1, SlotPair DEF Lists
<1>3. /\ free_head' = [free_head EXCEPT ![x[1]] = @ \cup {x[2]}]
      /\ UNCHANGED <<live, filled, retired, maps, cand, compacts>>
      /\ flushing' \in BOOLEAN
  BY DEF ReturnSlot, FlushStep, objVars, compactVars
<1>4. /\ free_head' \in [Slabs -> SUBSET Index]
      /\ \A t \in Slabs : t # x[1] => free_head'[t] = free_head[t]
      /\ free_head'[x[1]] = free_head[x[1]] \cup {x[2]}
  BY Zenon, <1>1, <1>3, SlotPair DEF TypeOK
<1>5. Out' = Out \ {x} /\ live' \cap bin' = {}
  BY ZenonT(40), <1>1, <1>3 DEF Out, Lists
<1>6. \A y \in Out' : y[1] \in Carved /\ y[2] \notin free_head'[y[1]]
  <2> SUFFICES ASSUME NEW y \in Out, y # x PROVE y[1] \in Carved /\ y[2] \notin free_head'[y[1]]
    BY Zenon, <1>5
  <2>1. y \in Slots /\ y[1] \in Carved /\ y[2] \notin free_head[y[1]]
    BY Zenon, <1>1 DEF Lists, TypeOK, Out
  <2> QED BY <1>1, <1>4, <2>1, SlotPair
<1>7. Written(mem, x, btm_fl_set(Read(x))) \in Memory
  <2>1. Read(x) \in Cells
    BY <1>1, SlotPair DEF Read, TypeOK, Memory
  <2> QED BY Zenon, <1>1, <2>1, WrittenAt, CellFacts DEF TypeOK
<1> QED BY Zenon, <1>1, <1>2, <1>3, <1>4, <1>5, <1>6, <1>7

\* slab_became_free, when the chunk is disposed of: no slot is out of its slab.
LEMMA DisposeFacts ==
  ASSUME Base, flushing, NEW x \in bin, bin' = bin \ {x}, ReturnSlot(x), FlushStep,
         x[1] \notin retired, free_head'[x[1]] = Index, Empty \cup {x[1]} = Carved
  PROVE  Out' = {} /\ retired = {} /\ partial \subseteq {x[1]}
<1>1. /\ x \in Slots /\ x[1] \in Carved /\ Out' = Out \ {x}
      /\ free_head'[x[1]] = free_head[x[1]] \cup {x[2]}
      /\ \A y \in Out' : y[1] \in Carved /\ y[2] \notin free_head'[y[1]]
      /\ \A t \in Slabs : t # x[1] => free_head'[t] = free_head[t]
  BY Zenon, FlushFacts
<1>2. Lists /\ Out \subseteq Slots
  BY Zenon DEF Base, TypeOK, Out
<1>3. Out' = {}
  <2> SUFFICES ASSUME NEW y \in Out' PROVE FALSE
    BY Zenon
  <2>1. y \in Slots /\ y[1] \in Slabs /\ y[2] \in Index
    BY Zenon, <1>1, <1>2, SlotPair
  <2>2. free_head'[y[1]] = Index
    BY Zenon, <1>1, <1>2, <2>1 DEF Lists
  <2> QED BY Zenon, <1>1, <2>1, <2>2
<1> QED BY <1>2, <1>3 DEF Lists

\* btm_pool_flush, one slot, keeps Base.
LEMMA FlushStepBase ==
  ASSUME Base, FlushStep
  PROVE  Base'
<1>1. PICK x \in bin : bin' = bin \ {x} /\ ReturnSlot(x)
  BY Zenon DEF FlushStep
<1>2. flushing
  BY Zenon DEF FlushStep
<1> DEFINE s == x[1]
           m == Written(mem, x, btm_fl_set(Read(x)))
<1>3. /\ x \in Slots /\ s \in Carved /\ s \notin Empty /\ cand = {}
      /\ free_head' \in [Slabs -> SUBSET Index]
      /\ \A t \in Slabs : t # s => free_head'[t] = free_head[t]
      /\ free_head'[s] = free_head[s] \cup {x[2]}
      /\ UNCHANGED <<live, filled, retired, maps, cand, compacts>>
      /\ flushing' \in BOOLEAN
      /\ Out' = Out \ {x} /\ live' \cap bin' = {}
      /\ \A y \in Out' : y[1] \in Carved /\ y[2] \notin free_head'[y[1]]
      /\ m \in Memory
  BY Zenon, <1>1, <1>2, FlushFacts
<1>4. TypeOK /\ Lists /\ Apart /\ Fresh /\ s \in Slabs
  BY Zenon, <1>3, SlotPair DEF Base
<1>5. Fresh'
  BY Zenon, <1>3, <1>4 DEF Fresh
<1>6. live' \subseteq Slots /\ bin' \subseteq Slots /\ filled' \subseteq live' /\ retired' \subseteq Slabs
      /\ maps' \in [Slabs -> Slabs] /\ cand' \subseteq Slabs /\ compacts' \in Nat
  BY Zenon, <1>1, <1>3, <1>4 DEF TypeOK
<1>7. carved' = carved => Usable' \subseteq Usable
  BY <1>1, <1>3, <1>4, SlotPair DEF Usable, UsableIn, Carved, Out
<1>9. CASE /\ s \notin retired /\ free_head'[s] = Index /\ Empty \cup {s} = Carved
           /\ partial' = partial \ {s}
           /\ empty_warm' = {} /\ empty_cold' = {} /\ carved' = 0
           /\ mem' = [r \in Slabs |-> Released]
  <2>1. Out' = {} /\ retired = {} /\ partial' = {}
    BY Zenon, <1>1, <1>2, <1>9, DisposeFacts DEF FlushStep
  <2>2. mem' \in Memory
    BY Zenon, <1>9, CellFacts DEF Memory, Released
  <2>3. TypeOK'
    BY <1>3, <1>6, <1>9, <2>1, <2>2, MeshAssumption DEF TypeOK
  <2>4. Lists'
    <3>1. Carved' = {} /\ Empty' = {} /\ empty_warm' \cap empty_cold' = {}
      BY <1>9 DEF Carved, Empty
    <3> QED BY Zenon, <1>3, <1>4, <2>1, <3>1 DEF Lists
  <2>5. Usable' = {}
    BY <1>9, <2>1 DEF Usable, UsableIn
  <2> QED BY Zenon, <1>5, <2>3, <2>4, <2>5 DEF Base, Apart
<1>10. ASSUME carved' = carved, Apart', mem' \in Memory,
              empty_warm' \subseteq Slabs, empty_cold' \subseteq Slabs,
              empty_warm' \cap empty_cold' = {}, partial' \subseteq Carved,
              \A t \in partial' : t \notin retired /\ t \notin Empty',
              \A t \in Empty' : t \in Carved /\ t \notin retired /\ free_head'[t] = Index
       PROVE  Base'
  <2>1. partial' \subseteq Slabs
    BY <1>4, <1>10, MeshAssumption DEF Carved, TypeOK, Slabs
  <2>2. TypeOK'
    BY Zenon, <1>3, <1>4, <1>6, <1>10, <2>1 DEF TypeOK
  <2>3. Lists'
    BY Zenon, <1>3, <1>4, <1>10 DEF Lists, Carved
  <2> QED BY Zenon, <1>5, <1>10, <2>2, <2>3 DEF Base
<1>11. carved' = carved => Apart'
  BY Zenon, <1>3, <1>4, <1>7 DEF Apart, Loc
<1>12. CASE /\ s \notin retired /\ free_head'[s] = Index /\ carved' = carved
            /\ partial' = partial \ {s}
            /\ \/ /\ empty_warm' = empty_warm \cup {s} /\ mem' = m /\ UNCHANGED empty_cold
               \/ /\ empty_cold' = empty_cold \cup {s} /\ mem' = [m EXCEPT ![s] = Released]
                  /\ UNCHANGED empty_warm
  <2>1. mem' \in Memory
    BY <1>3, <1>4, <1>12, CellFacts DEF Memory, Released
  <2>2. /\ empty_warm' \subseteq Slabs /\ empty_cold' \subseteq Slabs
        /\ empty_warm' \cap empty_cold' = {} /\ Empty' = Empty \cup {s}
    BY <1>3, <1>4, <1>12 DEF Empty, Lists, TypeOK
  <2>3. partial' \subseteq Carved /\ \A t \in partial' : t \notin retired /\ t \notin Empty'
    BY Zenon, <1>4, <1>12, <2>2 DEF Lists
  <2>4. \A t \in Empty' : t \in Carved /\ t \notin retired /\ free_head'[t] = Index
    BY <1>3, <1>4, <1>12, <2>2 DEF Lists, Empty, TypeOK
  <2> HIDE DEF m
  <2> QED BY Zenon, <1>10, <1>11, <1>12, <2>1, <2>2, <2>3, <2>4
<1>13. CASE /\ UNCHANGED <<empty_warm, empty_cold, carved>> /\ mem' = m
            /\ partial' = IF s \in retired THEN partial ELSE partial \cup {s}
  <2>1. empty_warm \subseteq Slabs /\ empty_cold \subseteq Slabs
    BY Zenon, <1>4 DEF TypeOK
  <2>2. partial' \subseteq Carved /\ \A t \in partial' : t \notin retired /\ t \notin Empty'
    BY <1>3, <1>4, <1>13 DEF Lists, Empty
  <2>3. \A t \in Empty' : t \in Carved /\ t \notin retired /\ free_head'[t] = Index
    BY Zenon, <1>3, <1>4, <1>13 DEF Lists, Empty, TypeOK
  <2> HIDE DEF m
  <2> QED BY Zenon, <1>3, <1>4, <1>10, <1>11, <1>13, <2>1, <2>2, <2>3 DEF Lists
<1> QED BY Zenon, <1>1, <1>9, <1>12, <1>13 DEF ReturnSlot, BecameFree, Inert, Empty, Carved, emptyVars

\* btm_compact's gathering of candidates keeps Base.
LEMMA CompactStartBase ==
  ASSUME Base, CompactStart
  PROVE  Base'
<1>1. /\ ~flushing /\ compacts' = compacts + 1 /\ cand' \subseteq partial
      /\ UNCHANGED <<partial, empty_warm, empty_cold, carved, free_head, retired, maps, mem,
                     bin, live, filled, flushing>>
  BY Zenon DEF CompactStart, Idle, UpTo, emptyVars, objVars
<1>2. TypeOK /\ Lists /\ Apart /\ Fresh
  BY Zenon DEF Base
<1>3. TypeOK'
  BY <1>1, <1>2 DEF TypeOK
<1>4. Lists'
  BY Zenon, <1>1, <1>2 DEF Lists, Empty, Carved, Out
<1>5. Apart'
  BY <1>1, <1>2 DEF Apart, Usable, UsableIn, Out, Loc
<1>6. Fresh'
  <2>1. compacts \in Nat
    BY Zenon, <1>2 DEF TypeOK
  <2>2. compacts' <= 1 => compacts = 0
    BY <1>1, <2>1
  <2>3. compacts = 0 => \A e \in Slabs : maps[e] = e
    BY Zenon, <1>2 DEF Fresh, Lists
  <2>4. compacts' # 0
    BY <1>1, <2>1
  <2> QED BY Zenon, <1>1, <2>2, <2>3, <2>4 DEF Fresh
<1> QED BY Zenon, <1>3, <1>4, <1>5, <1>6 DEF Base

\* mesh_pair: what becomes of the lists, and of the run that each slab shows.
LEMMA PairFacts ==
  ASSUME Base, NEW R \in cand, NEW D \in cand \ {R}, Disjoint(R, D), mesh_pair(R, D)
  PROVE  /\ R \in Carved /\ D \in Carved /\ R \in Slabs /\ D \in Slabs
         /\ R \notin retired /\ D \notin retired /\ R \notin Empty /\ D \notin Empty
         /\ maps[R] = R /\ maps[D] = D
         /\ partial' = partial \ {D} /\ retired' = retired \cup {D}
         /\ free_head' = [free_head EXCEPT ![R] = @ \ Occ(D)]
         /\ \A k \in Index : k \in Occ(D) => k \in free_head[R]
         /\ Merged(R, D) \in [Index -> Cells]
         /\ \/ /\ maps' = [maps EXCEPT ![D] = R]
               /\ mem' = [mem EXCEPT ![R] = Merged(R, D), ![D] = Released]
            \/ /\ maps' = maps
               /\ mem' = [mem EXCEPT ![R] = Merged(R, D)]
<1>1. TypeOK /\ Lists
  BY Zenon DEF Base
<1>2. /\ R \in Carved /\ D \in Carved /\ R \in Slabs /\ D \in Slabs
      /\ R \notin retired /\ D \notin retired /\ R \notin Empty /\ D \notin Empty
      /\ maps[R] = R /\ maps[D] = D
  BY Zenon, <1>1 DEF TypeOK, Lists
<1>3. /\ partial' = partial \ {D} /\ retired' = retired \cup {D}
      /\ free_head' = [free_head EXCEPT ![R] = @ \ Occ(D)]
  BY Zenon, <1>1 DEF mesh_pair, Rebuilt, TypeOK
<1>4. \A k \in Index : k \in Occ(D) => k \in free_head[R]
  BY Zenon DEF Disjoint, Occ
<1>5. Merged(R, D) \in [Index -> Cells]
  <2>1. \A k \in Index : Read(<<D, k>>) \in Cells /\ Read(<<R, k>>) \in Cells
    BY <1>1, <1>2 DEF Read, TypeOK, Memory
  <2>2. \A k \in Index : btm_fl_set(Read(<<R, k>>)) \in Cells
    BY Zenon, <2>1, CellFacts
  <2> QED BY Zenon, <2>1, <2>2 DEF Merged
<1>6. \/ /\ maps' = [maps EXCEPT ![D] = R]
         /\ mem' = [mem EXCEPT ![R] = Merged(R, D), ![D] = Released]
      \/ /\ maps' = maps
         /\ mem' = [mem EXCEPT ![R] = Merged(R, D)]
  BY Zenon, <1>2 DEF mesh_pair, Remap
<1> QED BY Zenon, <1>2, <1>3, <1>4, <1>5, <1>6

\* btm_compact, one candidate, keeps Base.
LEMMA CompactStepBase ==
  ASSUME Base, CompactStep
  PROVE  Base'
<1>1. PICK R \in cand :
        /\ \/ /\ cand' = cand \ {R}
              /\ UNCHANGED <<partial, free_head, retired, maps, mem>>
           \/ \E D \in cand \ {R} : /\ Disjoint(R, D) /\ mesh_pair(R, D)
                                    /\ cand' = cand \ {R, D}
        /\ UNCHANGED <<empty_warm, empty_cold, carved, bin, live, filled, flushing, compacts>>
  BY Zenon DEF CompactStep, emptyVars, objVars
<1>2. TypeOK /\ Lists /\ Apart /\ Fresh
  BY Zenon DEF Base
<1>3. CASE cand' = cand \ {R} /\ UNCHANGED <<partial, free_head, retired, maps, mem>>
  <2>1. TypeOK'
    BY Zenon, <1>1, <1>2, <1>3 DEF TypeOK
  <2>2. Lists'
    BY Zenon, <1>1, <1>2, <1>3 DEF Lists, Empty, Carved, Out
  <2>3. Apart'
    BY <1>1, <1>2, <1>3 DEF Apart, Usable, UsableIn, Out, Loc
  <2>4. Fresh'
    BY Zenon, <1>1, <1>2, <1>3 DEF Fresh
  <2> QED BY Zenon, <2>1, <2>2, <2>3, <2>4 DEF Base
<1>4. ASSUME NEW D \in cand \ {R}, Disjoint(R, D), mesh_pair(R, D), cand' = cand \ {R, D}
      PROVE  Base'
  <2>1. /\ R \in Carved /\ D \in Carved /\ R \in Slabs /\ D \in Slabs
        /\ R \notin retired /\ D \notin retired /\ R \notin Empty /\ D \notin Empty
        /\ maps[R] = R /\ maps[D] = D
        /\ partial' = partial \ {D} /\ retired' = retired \cup {D}
        /\ free_head' = [free_head EXCEPT ![R] = @ \ Occ(D)]
        /\ \A k \in Index : k \in Occ(D) => k \in free_head[R]
        /\ Merged(R, D) \in [Index -> Cells]
        /\ \/ /\ maps' = [maps EXCEPT ![D] = R]
              /\ mem' = [mem EXCEPT ![R] = Merged(R, D), ![D] = Released]
           \/ /\ maps' = maps
              /\ mem' = [mem EXCEPT ![R] = Merged(R, D)]
    BY Zenon, <1>4, PairFacts
  <2>2. mem' \in Memory
    BY <1>2, <2>1, CellFacts DEF TypeOK, Memory, Released
  <2>3. free_head' \in [Slabs -> SUBSET Index] /\ maps' \in [Slabs -> Slabs]
    BY Zenon, <1>2, <2>1 DEF TypeOK
  <2>4. \A t \in Slabs : t # D => maps'[t] = maps[t]
    BY Zenon, <1>2, <2>1 DEF TypeOK
  <2>5. \A t \in Slabs : free_head'[t] = IF t = R THEN free_head[R] \ Occ(D) ELSE free_head[t]
    BY Zenon, <1>2, <2>1 DEF TypeOK
  <2>6. maps'[D] \in {R, D}
    BY Zenon, <1>2, <2>1 DEF TypeOK
  <2>7. TypeOK'
    BY Zenon, <1>1, <1>2, <1>4, <2>1, <2>2, <2>3 DEF TypeOK
  <2>8. Out' = Out /\ Carved' = Carved /\ Empty' = Empty /\ Carved \subseteq Slabs
    BY <1>1, <1>2, MeshAssumption DEF Out, Carved, Empty, TypeOK, Slabs
  <2>9. Lists'
    <3>1. \A x \in Out' : x[1] \in Carved' /\ x[2] \notin free_head'[x[1]]
      BY Zenon, <1>2, <2>5, <2>8 DEF Lists
    <3>2. \A t \in Carved' : maps'[t] \in Carved'
      BY Zenon, <1>2, <2>1, <2>4, <2>6, <2>8 DEF Lists
    <3>3. \A t \in Slabs : t \notin retired' => maps'[t] = t
      BY Zenon, <1>2, <2>1, <2>4 DEF Lists
    <3>4. \A t \in Empty' : t \in Carved' /\ t \notin retired' /\ free_head'[t] = Index
      BY Zenon, <1>2, <2>1, <2>5, <2>8 DEF Lists
    <3> QED BY Zenon, <1>1, <1>2, <1>4, <2>1, <2>8, <3>1, <3>2, <3>3, <3>4 DEF Lists
  <2>10. Usable' \subseteq Usable
    BY <1>1, <2>1, <2>5, <2>8, SlotPair DEF Usable, UsableIn
  <2>11. \A x \in Usable' : x \in Slots /\ (x[1] = D => x[2] \in Occ(D))
    BY Zenon, <1>2, <2>1, <2>8, SlotPair DEF Usable, UsableIn, Lists, Occ, TypeOK, Out
  <2>12. \A y \in Usable' : y[1] = R => y[2] \notin Occ(D)
    BY Zenon, <1>2, <2>1, <2>5, <2>8, SlotPair DEF Usable, UsableIn, Lists, Occ, Out, TypeOK
  <2>13. ASSUME NEW x \in Usable', NEW y \in Usable', x[1] = D, y[1] # D,
                maps'[x[1]] = maps'[y[1]], x[2] = y[2]
         PROVE  FALSE
    <3>1. x[2] \in Occ(D) /\ x[2] \in Index /\ x \in Usable /\ y \in Usable
          /\ x \in Slots /\ y \in Slots /\ y[1] \in Slabs
      BY Zenon, <2>10, <2>11, <2>13, SlotPair
    <3>2. CASE maps'[D] = D
      <4>1. Loc(x) = Loc(y)
        BY Zenon, <2>1, <2>4, <2>13, <3>1, <3>2 DEF Loc
      <4> QED BY Zenon, <1>2, <2>13, <3>1, <4>1 DEF Apart
    <3>3. CASE maps'[D] = R
      <4>1. <<R, x[2]>> \in Usable
        BY Zenon, <2>1, <3>1, SlotPair DEF Usable, UsableIn, Carved
      <4>2. Loc(<<R, x[2]>>) = Loc(y)
        BY Zenon, <2>1, <2>4, <2>13, <3>1, <3>3 DEF Loc
      <4>3. y[1] = R
        BY <1>2, <3>1, <4>1, <4>2 DEF Apart
      <4> QED BY Zenon, <2>12, <2>13, <3>1, <4>3
    <3> QED BY Zenon, <2>6, <3>2, <3>3
  <2>14. Apart'
    <3> SUFFICES ASSUME NEW x \in Usable', NEW y \in Usable',
                        maps'[x[1]] = maps'[y[1]], x[2] = y[2]
                 PROVE  x = y
      BY Zenon DEF Apart, Loc
    <3>1. x \in Slots /\ y \in Slots /\ x \in Usable /\ y \in Usable
      BY Zenon, <2>10, <2>11
    <3>2. CASE x[1] = D /\ y[1] = D
      BY Zenon, <3>1, <3>2, SlotPair
    <3>3. CASE x[1] # D /\ y[1] # D
      <4>1. Loc(x) = Loc(y)
        BY Zenon, <2>4, <3>1, <3>3, SlotPair DEF Loc
      <4> QED BY Zenon, <1>2, <3>1, <4>1 DEF Apart
    <3> QED BY Zenon, <2>13, <3>2, <3>3
  <2>15. Fresh'
    BY Zenon, <1>1, <1>2, <1>4, <2>1, <2>4, <2>6 DEF Fresh
  <2> QED BY Zenon, <2>7, <2>9, <2>14, <2>15 DEF Base
<1> QED BY Zenon, <1>1, <1>3, <1>4

-----------------------------------------------------------------------------
(* The contents of memory: one lemma per action *)

\* The slots of the bin that btm_free did not stamp.
Unstamped == {x \in bin : Read(x) # Canary(x)}

\* Fewer unstamped slots cannot exceed what a refill brings.
LEMMA FewUnstamped ==
  ASSUME TypeOK, DoubleFreeSeen, NEW T, T \subseteq Unstamped
  PROVE  Cardinality(T) <= want - 1
<1>1. IsFiniteSet(Slabs) /\ IsFiniteSet(Index)
  BY MeshAssumption, FS_Interval DEF Slabs
<1>2. IsFiniteSet(Slots)
  BY Zenon, <1>1, FS_Product DEF Slots
<1>3. IsFiniteSet(Unstamped)
  BY Zenon, <1>2, FS_Subset DEF TypeOK, Unstamped
<1>4. Cardinality(T) <= Cardinality(Unstamped) /\ Cardinality(T) \in Nat
  BY Zenon, <1>3, FS_Subset, FS_CardinalityType
<1>5. Cardinality(Unstamped) \in Nat /\ Cardinality(Unstamped) <= want - 1
  BY Zenon, <1>3, FS_CardinalityType DEF DoubleFreeSeen, Unstamped
<1>6. want \in Nat
  BY MeshAssumption DEF want
<1> QED BY <1>4, <1>5, <1>6

\* A bin with nothing in it, or nothing unstamped, passes.
LEMMA NoneUnstamped == Cardinality({}) <= want - 1
<1>1. want \in Nat /\ want >= 1
  BY MeshAssumption DEF want
<1> QED BY <1>1, FS_EmptySet

\* A write to a usable slot leaves every other usable slot as it was.
LEMMA OneSlotWritten ==
  ASSUME Base, NEW x \in Usable, NEW v \in Cells, mem' = Written(mem, x, v), maps' = maps
  PROVE  /\ Read(x)' = v
         /\ \A y \in Usable : y # x => Read(y)' = Read(y)
<1>1. Usable \subseteq Slots /\ maps \in [Slabs -> Slabs] /\ mem \in Memory
  BY Zenon DEF Base, TypeOK, Usable, UsableIn, Out
<1>2. /\ Written(mem, x, v)[maps[x[1]]][x[2]] = v
      /\ \A y \in Slots : Loc(y) # Loc(x) =>
              Written(mem, x, v)[maps[y[1]]][y[2]] = mem[maps[y[1]]][y[2]]
  BY <1>1, WrittenAt
<1>3. \A y \in Usable : y # x => Loc(y) # Loc(x)
  BY Zenon DEF Base, Apart
<1> QED BY Zenon, <1>1, <1>2, <1>3 DEF Read

\* What can be handed out is usable.
LEMMA AvailableUsable ==
  ASSUME Base
  PROVE  Available \subseteq Usable /\ Out \subseteq Usable
BY Zenon DEF Available, Usable, UsableIn, Out

\* btm_malloc_at from the bin keeps the contents of memory.
LEMMA MallocHitContents ==
  ASSUME Inv, MallocHit
  PROVE  NoFalseAlarm' /\ (compacts' <= 1 => Contents')
<1>1. PICK x \in bin : bin' = bin \ {x} /\ Give(x, mem)
  BY Zenon DEF MallocHit
<1>2. /\ x \in Slots /\ mem \in Memory /\ TypeOK /\ x \in Out /\ x \in Usable /\ x \notin live
      /\ filled \subseteq live /\ Lists /\ Base
  BY Zenon DEF Inv, Base, TypeOK, Out, Usable, UsableIn, Lists
<1>3. PICK v \in {Obj(x), Link} :
         /\ live' = live \cup {x}
         /\ mem' = Written(mem, x, v)
         /\ filled' = IF v = Obj(x) THEN filled \cup {x} ELSE filled
  BY Zenon, <1>1, <1>2, GiveFacts
<1>4. UNCHANGED <<empty_warm, empty_cold, carved, free_head, retired, maps, compacts>>
  BY Zenon DEF MallocHit, emptyVars, compactVars
<1>5. Read(x)' = v /\ \A y \in Usable : y # x => Read(y)' = Read(y)
  BY Zenon, <1>2, <1>3, <1>4, OneSlotWritten, CellFacts
<1>6. Available \subseteq Usable /\ Out \subseteq Usable
  BY Zenon, <1>2, AvailableUsable
<1>7. NoFalseAlarm'
  BY Zenon, <1>2, <1>3, <1>5, <1>6, CellFacts DEF Inv, NoFalseAlarm, Out, Canary
<1>8. ASSUME Contents PROVE Contents'
  <2>1. ObjectsKept'
    BY Zenon, <1>2, <1>3, <1>5, <1>6, <1>8 DEF Contents, ObjectsKept, Out, Obj
  <2>2. Available' \subseteq Available /\ x \notin Available'
    BY Zenon, <1>1, <1>2, <1>4 DEF Available, Lists
  <2>3. LinksKept'
    BY Zenon, <1>5, <1>6, <1>8, <2>2 DEF Contents, LinksKept
  <2>4. Unstamped' \subseteq Unstamped
    BY Zenon, <1>1, <1>5, <1>6 DEF Unstamped, Out, Canary
  <2>5. DoubleFreeSeen'
    BY Zenon, <1>2, <1>8, <2>4, FewUnstamped DEF Contents, DoubleFreeSeen, Unstamped, want
  <2> QED BY Zenon, <2>1, <2>3, <2>5 DEF Contents
<1> QED BY Zenon, <1>4, <1>7, <1>8 DEF Inv

\* btm_free into the bin keeps the contents of memory.
LEMMA FreeToBinContents ==
  ASSUME Inv, NEW x \in Slots, FreeToBin(x)
  PROVE  NoFalseAlarm' /\ (compacts' <= 1 => Contents')
<1>1. /\ x \in live /\ live' = live \ {x} /\ filled' = filled \ {x} /\ bin' = bin \cup {x}
      /\ mem' = Written(mem, x, Canary(x))
  BY Zenon DEF FreeToBin, Stamp
<1>2. UNCHANGED <<empty_warm, empty_cold, carved, free_head, retired, maps, compacts>>
  BY Zenon DEF FreeToBin, emptyVars, compactVars
<1>3. x \in Usable /\ filled \subseteq live /\ Base /\ TypeOK
  BY Zenon, <1>1 DEF Inv, Base, TypeOK, Out, Usable, UsableIn
<1>4. Read(x)' = Canary(x) /\ \A y \in Usable : y # x => Read(y)' = Read(y)
  BY Zenon, <1>1, <1>2, <1>3, OneSlotWritten, CellFacts
<1>5. Available \subseteq Usable /\ Out \subseteq Usable
  BY Zenon, <1>3, AvailableUsable
<1>6. NoFalseAlarm'
  BY Zenon, <1>1, <1>4, <1>5 DEF Inv, NoFalseAlarm, Out, Canary
<1>7. ASSUME Contents PROVE Contents'
  <2>1. ObjectsKept'
    BY Zenon, <1>1, <1>3, <1>4, <1>5, <1>7 DEF Contents, ObjectsKept, Out, Obj
  <2>2. Available' \subseteq Available \cup {x}
    BY Zenon, <1>1, <1>2 DEF Available
  <2>3. LinksKept'
    BY Zenon, <1>4, <1>5, <1>7, <2>2, CellFacts DEF Contents, LinksKept
  <2>4. Unstamped' \subseteq Unstamped
    BY Zenon, <1>1, <1>4, <1>5 DEF Unstamped, Out, Canary
  <2>5. DoubleFreeSeen'
    BY Zenon, <1>3, <1>7, <2>4, FewUnstamped DEF Contents, DoubleFreeSeen, Unstamped, want
  <2> QED BY Zenon, <2>1, <2>3, <2>5 DEF Contents
<1> QED BY Zenon, <1>2, <1>6, <1>7 DEF Inv

\* The slots that a refill adds to the empty bin are want - 1 at most.
LEMMA RefillFew ==
  ASSUME NEW s, NEW F \in SUBSET Index, NEW R \in UpTo(want, F), NEW k \in R,
         NEW T, T \subseteq {s} \X (R \ {k})
  PROVE  Cardinality(T) <= want - 1
<1>1. IsFiniteSet(F) /\ IsFiniteSet(R) /\ R \subseteq F
  BY Zenon, MeshAssumption, FS_Subset DEF UpTo
<1>2. want \in Nat /\ Cardinality(F) \in Nat /\ Cardinality(R) \in Nat
  BY <1>1, MeshAssumption, FS_CardinalityType DEF want
<1>3. Cardinality(R) <= want
  BY <1>2 DEF UpTo
<1>4. IsFiniteSet(R \ {k}) /\ Cardinality(R \ {k}) = Cardinality(R) - 1
  BY Zenon, <1>1, FS_RemoveElement
<1>5. IsFiniteSet({s}) /\ Cardinality({s}) = 1
  BY Zenon, FS_Singleton
<1>6. /\ IsFiniteSet({s} \X (R \ {k}))
      /\ Cardinality({s} \X (R \ {k})) = Cardinality({s}) * Cardinality(R \ {k})
  BY Zenon, <1>4, <1>5, FS_Product
<1>7. Cardinality({s} \X (R \ {k})) = Cardinality(R) - 1
  BY <1>2, <1>4, <1>5, <1>6
<1>8. Cardinality(T) <= Cardinality({s} \X (R \ {k})) /\ Cardinality(T) \in Nat
  BY Zenon, <1>6, FS_Subset, FS_CardinalityType
<1> QED BY <1>2, <1>3, <1>7, <1>8

\* btm_pool_refill from the slab s, with free lists fl and memory m in which
\* the objects are as they were and the slab's links are good, keeps the
\* contents of memory.
LEMMA TakeContents ==
  ASSUME Inv, bin = {}, NEW s \in Slabs, NEW fl \in [Slabs -> SUBSET Index], NEW m \in Memory,
         NEW pl \in SUBSET Slabs, NEW car \in 0..NSlabs,
         s \in 1..car, s \notin retired, s \notin Empty', maps[s] = s,
         Take(s, pl, fl, m), retired' = retired, maps' = maps, carved' = car,
         Apart', Usable' = UsableIn(fl, car),
         \A x \in live : m[maps[x[1]]][x[2]] = Read(x) /\ x[2] \notin fl[x[1]],
         Contents => \A x \in Slots :
           x[1] \in 1..car \ (retired \cup Empty') /\ x[2] \in fl[x[1]]
             => m[x[1]][x[2]][1] \in {"link", "canary"}
  PROVE  NoFalseAlarm' /\ (Contents => Contents')
<1>1. TypeOK /\ Lists /\ Base /\ filled \subseteq live
  BY Zenon DEF Inv, Base, TypeOK
<1>2. PICK R \in SUBSET fl[s] : Taken(s, pl, fl, m, R)
  BY Zenon, <1>1, TakeFacts
<1>3. \A t \in Slabs : free_head'[t] = IF t = s THEN fl[s] \ R ELSE fl[t]
  BY Zenon, <1>2 DEF Taken
<1>4. CASE R = {} /\ mem' = m /\ UNCHANGED <<bin, live, filled>>
  <2>1. \A x \in live : Read(x)' = Read(x)
    BY Zenon, <1>4 DEF Read
  <2>2. NoFalseAlarm'
    BY Zenon, <1>4, <2>1 DEF Inv, NoFalseAlarm, Canary
  <2>3. ASSUME Contents PROVE Contents'
    <3>1. ObjectsKept'
      BY Zenon, <1>1, <1>4, <2>1, <2>3 DEF Contents, ObjectsKept, Obj
    <3>2. LinksKept'
      <4> SUFFICES ASSUME NEW y \in Available' PROVE Read(y)'[1] \in {"link", "canary"}
        BY Zenon DEF LinksKept
      <4>1. y \in Slots /\ y[1] \in 1..car \ (retired \cup Empty') /\ y[2] \in fl[y[1]]
        BY Zenon, <1>3, <1>4, SlotPair DEF Available, Empty
      <4>2. maps[y[1]] = y[1]
        BY Zenon, <1>1, <4>1, SlotPair DEF Lists
      <4> QED BY Zenon, <1>4, <2>3, <4>1, <4>2 DEF Read
    <3>3. DoubleFreeSeen'
      <4>1. Unstamped' = {}
        BY Zenon, <1>4 DEF Unstamped
      <4> QED BY Zenon, <4>1, NoneUnstamped DEF DoubleFreeSeen, Unstamped, want
    <3> QED BY Zenon, <3>1, <3>2, <3>3 DEF Contents
  <2> QED BY Zenon, <2>2, <2>3
<1>5. ASSUME NEW k \in R, NEW v \in {Obj(<<s, k>>), Link},
             bin' = {s} \X (R \ {k}), live' = live \cup {<<s, k>>},
             mem' = Written(m, <<s, k>>, v),
             filled' = IF v = Obj(<<s, k>>) THEN filled \cup {<<s, k>>} ELSE filled
      PROVE  NoFalseAlarm' /\ (Contents => Contents')
  <2> DEFINE z == <<s, k>>
  <2>1. z \in Slots /\ v \in Cells /\ k \in fl[s] /\ k \in Index
    BY Zenon, SlotPair, CellFacts
  <2>2. z \in Usable' /\ z \notin live
    BY Zenon, <2>1 DEF UsableIn
  <2>3. \A y \in live : y \in Usable' /\ y # z /\ y \in Slots
    BY Zenon, <1>1, <2>2 DEF UsableIn, Out, TypeOK
  <2>4. /\ Written(m, z, v)[maps[z[1]]][z[2]] = v
        /\ \A y \in Slots : Loc(y) # Loc(z) =>
              Written(m, z, v)[maps[y[1]]][y[2]] = m[maps[y[1]]][y[2]]
    BY SMTT(30), <1>1, <2>1, WrittenAt DEF TypeOK
  <2>5. \A y \in Usable' : y \in Slots /\ y # z => Loc(y) # Loc(z)
    BY Zenon, <2>2 DEF Apart, Loc
  <2>6. Read(z)' = v
    BY Zenon, <1>5, <2>4 DEF Read
  <2>7. \A y \in Usable' : y \in Slots /\ y # z => Read(y)' = m[maps[y[1]]][y[2]]
    BY Zenon, <1>5, <2>4, <2>5 DEF Read
  <2>8. \A y \in live : Read(y)' = Read(y)
    BY Zenon, <2>3, <2>7
  <2>9. NoFalseAlarm'
    BY Zenon, <1>5, <2>1, <2>6, <2>8, CellFacts DEF Inv, NoFalseAlarm, Canary
  <2>10. ASSUME Contents PROVE Contents'
    <3>1. ObjectsKept'
      BY Zenon, <1>1, <1>5, <2>6, <2>8, <2>10 DEF Contents, ObjectsKept, Obj
    <3>2. LinksKept'
      <4> SUFFICES ASSUME NEW y \in Available' PROVE Read(y)'[1] \in {"link", "canary"}
        BY Zenon DEF LinksKept
      <4>1. /\ y \in Slots /\ y[1] \in 1..car /\ y[1] \notin retired /\ y[2] \in fl[y[1]] /\ y # z
        BY <1>3, <1>5, SlotPair DEF Available
      <4>2. y[1] \notin Empty' \/ y[1] = s
        BY Zenon, <1>5 DEF Available, Empty
      <4>3. maps[y[1]] = y[1] /\ y \in Usable'
        BY Zenon, <1>1, <4>1, SlotPair DEF Lists, UsableIn
      <4>4. Read(y)' = m[y[1]][y[2]]
        BY Zenon, <2>7, <4>1, <4>3
      <4> QED BY Zenon, <2>10, <4>1, <4>2, <4>4
    <3>3. DoubleFreeSeen'
      <4>1. Unstamped' \subseteq {s} \X (R \ {k}) /\ R \in UpTo(want, fl[s])
        BY Zenon, <1>2, <1>5 DEF Unstamped, Taken
      <4> QED BY Zenon, <4>1, RefillFew DEF DoubleFreeSeen, Unstamped, want
    <3> QED BY Zenon, <3>1, <3>2, <3>3 DEF Contents
  <2> QED BY Zenon, <2>9, <2>10
<1> QED BY Zenon, <1>2, <1>4, <1>5 DEF Taken

\* btm_pool_refill from a partial slab keeps the contents of memory.
LEMMA RefillPartialContents ==
  ASSUME Inv, RefillPartial, Base'
  PROVE  NoFalseAlarm' /\ (compacts' <= 1 => Contents')
<1>1. PICK s \in partial : Take(s, partial, free_head, mem)
  BY Zenon DEF RefillPartial
<1>2. bin = {} /\ UNCHANGED <<empty_warm, empty_cold, carved, retired, maps, compacts>>
  BY Zenon DEF RefillPartial, emptyVars, compactVars
<1>3. TypeOK /\ Lists
  BY Zenon DEF Inv, Base
<1>4. /\ s \in Slabs /\ s \in 1..carved /\ s \notin retired /\ carved \in 0..NSlabs
      /\ s \notin Empty' /\ maps[s] = s
      /\ free_head \in [Slabs -> SUBSET Index] /\ mem \in Memory /\ partial \in SUBSET Slabs
      /\ \A x \in live : x[1] \in 1..carved /\ x[2] \notin free_head[x[1]]
  BY Zenon, <1>1, <1>2, <1>3 DEF TypeOK, Lists, Carved, Out, Empty
<1>5. Usable' = Usable
  BY <1>1, <1>2, <1>3, <1>4, TakeLists DEF Usable
<1>6. \A x \in live : mem[maps[x[1]]][x[2]] = Read(x) /\ x[2] \notin free_head[x[1]]
  BY Zenon, <1>4 DEF Read
<1>7. ASSUME Contents,
             NEW x \in Slots, x[1] \in 1..carved \ (retired \cup Empty'), x[2] \in free_head[x[1]]
      PROVE  mem[x[1]][x[2]][1] \in {"link", "canary"}
  <2>1. x \in Available /\ maps[x[1]] = x[1]
    BY Zenon, <1>2, <1>3, <1>7, SlotPair DEF Available, Empty, Lists
  <2> QED BY Zenon, <1>7, <2>1 DEF Contents, LinksKept, Read
<1>8. NoFalseAlarm' /\ (Contents => Contents')
  BY Zenon, <1>1, <1>2, <1>4, <1>5, <1>6, <1>7, TakeContents DEF Usable, Base
<1> QED BY Zenon, <1>2, <1>8 DEF Inv

\* btm_pool_refill from a slab that btm_slab_new returns, formatted, keeps the
\* contents of memory.
LEMMA RefillNewContents ==
  ASSUME Inv, RefillNew, Base'
  PROVE  NoFalseAlarm' /\ (compacts' <= 1 => Contents')
<1> DEFINE fl(s) == [free_head EXCEPT ![s] = Index]
<1>1. PICK s \in Slabs : SlabNew(s) /\ Take(s, {s}, fl(s), Formatted(mem, s))
  BY Zenon DEF RefillNew
<1>2. bin = {} /\ UNCHANGED <<retired, maps, compacts>>
  BY Zenon DEF RefillNew, compactVars
<1>3. Base /\ TypeOK /\ Lists /\ mem \in Memory /\ maps \in [Slabs -> Slabs]
  BY Zenon DEF Inv, Base, TypeOK
<1>4. /\ carved' \in 0..NSlabs /\ s \in 1..carved' /\ Carved \subseteq 1..carved'
      /\ s \notin retired /\ maps[s] = s
      /\ s \in Carved => free_head[s] = Index
      /\ Empty' = Empty \ {s}
      /\ \A t \in 1..carved' : t = s \/ t \in Carved
  BY Zenon, <1>1, <1>3, SlabNewFacts
<1>5. /\ fl(s) \in [Slabs -> SUBSET Index]
      /\ fl(s)[s] = Index /\ \A t \in Slabs : t # s => fl(s)[t] = free_head[t]
  BY Zenon, <1>3, <1>4 DEF TypeOK
<1>6. /\ Formatted(mem, s) \in Memory
      /\ \A t \in Slabs : t # s => Formatted(mem, s)[t] = mem[t]
      /\ \A k \in Index : Formatted(mem, s)[s][k] = btm_fl_set(mem[s][k])
  BY Zenon, <1>3, <1>4, FormattedAt
<1>7. \A x \in Out : maps[x[1]] # s
  BY Zenon, <1>3, <1>4, FullApart
<1>8. \A x \in live : /\ x[1] \in 1..carved' /\ x[2] \notin fl(s)[x[1]]
                      /\ Formatted(mem, s)[maps[x[1]]][x[2]] = Read(x)
  <2> SUFFICES ASSUME NEW x \in live
               PROVE  /\ x[1] \in 1..carved' /\ x[2] \notin fl(s)[x[1]]
                      /\ Formatted(mem, s)[maps[x[1]]][x[2]] = Read(x)
    BY Zenon
  <2>1. x \in Slots /\ x[1] \in Carved /\ x[2] \notin free_head[x[1]] /\ x \in Out
    BY Zenon, <1>3 DEF Lists, Out, TypeOK
  <2>2. x[1] # s /\ maps[x[1]] # s /\ x[1] \in Slabs /\ maps[x[1]] \in Slabs
    BY Zenon, <1>3, <1>4, <1>7, <2>1, SlotPair
  <2> QED BY Zenon, <1>4, <1>5, <1>6, <2>1, <2>2 DEF Read
<1>9. ASSUME Contents,
             NEW x \in Slots, x[1] \in 1..carved' \ (retired \cup Empty'), x[2] \in fl(s)[x[1]]
      PROVE  Formatted(mem, s)[x[1]][x[2]][1] \in {"link", "canary"}
  <2>1. x[1] \in Slabs /\ x[2] \in Index
    BY Zenon, SlotPair
  <2>2. CASE x[1] = s
    <3>1. mem[s][x[2]] \in Cells
      BY Zenon, <1>3, <2>1 DEF Memory
    <3> QED BY Zenon, <1>6, <2>1, <2>2, <3>1, CellFacts
  <2>3. CASE x[1] # s
    <3>1. x \in Available /\ maps[x[1]] = x[1]
      BY Zenon, <1>3, <1>4, <1>5, <1>9, <2>1, <2>3 DEF Available, Empty, Lists, Carved
    <3> QED BY Zenon, <1>6, <1>9, <2>1, <2>3, <3>1 DEF Contents, LinksKept, Read
  <2> QED BY Zenon, <2>2, <2>3
<1> HIDE DEF fl
<1>10. Usable' = UsableIn(fl(s), carved')
  <2>1. {s} \in SUBSET Slabs
    BY Zenon
  <2> QED BY <1>1, <1>2, <1>3, <1>4, <1>5, <1>6, <1>8, <2>1, TakeLists
<1>11. NoFalseAlarm' /\ (Contents => Contents')
  <2>1. {s} \in SUBSET Slabs /\ s \notin Empty' /\ Apart'
    BY Zenon, <1>4 DEF Base
  <2> QED BY SMTT(30), <1>1, <1>2, <1>4, <1>5, <1>6, <1>8, <1>9, <1>10, <2>1, TakeContents
<1> QED BY Zenon, <1>2, <1>11 DEF Inv

\* btm_compact's gathering of candidates touches no memory.
LEMMA CompactStartContents ==
  ASSUME Inv, CompactStart
  PROVE  NoFalseAlarm' /\ (compacts' <= 1 => Contents')
<1>1. /\ compacts' = compacts + 1 /\ compacts \in Nat
      /\ UNCHANGED <<empty_warm, empty_cold, carved, free_head, retired, maps, mem,
                     bin, live, filled>>
  BY Zenon DEF CompactStart, emptyVars, objVars, Inv, Base, TypeOK
<1>2. NoFalseAlarm'
  BY Zenon, <1>1 DEF Inv, NoFalseAlarm, Read, Canary
<1>3. Contents => Contents'
  BY Zenon, <1>1 DEF Contents, ObjectsKept, LinksKept, DoubleFreeSeen, Available, Read, Canary, Obj, want
<1> QED BY <1>1, <1>2, <1>3 DEF Inv

\* btm_pool_flush, one slot: no other slot that is out or can be handed out
\* loses its contents when a wholly free slab is decommitted.
LEMMA FlushStepContents ==
  ASSUME Inv, FlushStep, Base'
  PROVE  NoFalseAlarm' /\ (compacts' <= 1 => Contents')
<1>1. PICK x \in bin : bin' = bin \ {x} /\ ReturnSlot(x)
  BY Zenon DEF FlushStep
<1>2. flushing /\ Base /\ TypeOK /\ Lists /\ Apart /\ filled \subseteq live
  BY Zenon DEF FlushStep, Inv, Base, TypeOK
<1> DEFINE s == x[1]
           w == btm_fl_set(Read(x))
           m == Written(mem, x, w)
<1>3. /\ x \in Slots /\ s \in Carved /\ s \notin Empty
      /\ \A t \in Slabs : t # s => free_head'[t] = free_head[t]
      /\ free_head'[s] = free_head[s] \cup {x[2]}
      /\ UNCHANGED <<live, filled, retired, maps, compacts>>
      /\ Out' = Out \ {x}
      /\ \A y \in Out' : y[1] \in Carved /\ y[2] \notin free_head'[y[1]]
      /\ m \in Memory
  BY Zenon, <1>1, <1>2, FlushFacts
<1>4. s \in Slabs /\ x[2] \in Index /\ x = <<s, x[2]>>
  BY Zenon, <1>3, SlotPair
<1>5. Read(x) \in Cells
  BY Zenon, <1>2, <1>4 DEF Read, TypeOK, Memory
<1>6. w \in Cells /\ w[1] \in {"link", "canary"}
  BY Zenon, <1>5, CellFacts
<1>7. x \in Usable /\ Usable \subseteq Slots /\ Out \subseteq Usable /\ Available \subseteq Usable
  BY Zenon, <1>2, AvailableUsable DEF Usable, UsableIn, Out, TypeOK
<1>8. /\ m[maps[x[1]]][x[2]] = w
      /\ \A y \in Usable : y # x => m[maps[y[1]]][y[2]] = Read(y)
  <2>1. \A y \in Usable : y # x => Loc(y) # Loc(x)
    BY Zenon, <1>2, <1>7 DEF Apart
  <2>2. /\ m[maps[x[1]]][x[2]] = w
        /\ \A y \in Slots : Loc(y) # Loc(x) => m[maps[y[1]]][y[2]] = mem[maps[y[1]]][y[2]]
    BY <1>2, <1>3, <1>6, WrittenAt DEF TypeOK
  <2> QED BY Zenon, <1>7, <2>1, <2>2 DEF Read
<1>9. ASSUME s \notin retired, free_head'[s] = Index
      PROVE  \A y \in Out' : maps[y[1]] # s
  <2> SUFFICES ASSUME NEW y \in Out', maps[y[1]] = s PROVE FALSE
    BY Zenon
  <2>1. y \in Out /\ y # x /\ y \in Usable /\ y[2] \in Index /\ maps[s] = s
    BY Zenon, <1>2, <1>3, <1>4, <1>7, <1>9, SlotPair DEF Lists
  <2>2. <<s, y[2]>> \in Usable
    BY Zenon, <1>3, <1>4, <1>7, <1>9, <2>1, SlotPair DEF Usable, UsableIn, Carved
  <2>3. Loc(<<s, y[2]>>) = Loc(y)
    BY Zenon, <2>1 DEF Loc
  <2>4. y[1] = s
    BY <1>2, <2>1, <2>2, <2>3 DEF Apart
  <2> QED BY Zenon, <1>3, <1>9, <2>1, <2>4
<1> HIDE DEF w, m
<1>10. ASSUME \A y \in Out' : Read(y)' = Read(y),
              \A y \in Available' : y = x \/ y \in Available,
              \A y \in Available' : IF y = x THEN Read(y)' = w ELSE Read(y)' = Read(y)
       PROVE  NoFalseAlarm' /\ (compacts' <= 1 => Contents')
  <2>1. NoFalseAlarm'
    BY Zenon, <1>3, <1>10 DEF Inv, NoFalseAlarm, Out, Canary
  <2>2. ASSUME Contents PROVE Contents'
    <3>1. ObjectsKept'
      BY Zenon, <1>2, <1>3, <1>10, <2>2 DEF Contents, ObjectsKept, Out, Obj
    <3>2. LinksKept'
      BY Zenon, <1>6, <1>10, <2>2 DEF Contents, LinksKept
    <3>3. Unstamped' \subseteq Unstamped
      BY Zenon, <1>1, <1>10 DEF Unstamped, Out, Canary
    <3>4. DoubleFreeSeen'
      BY Zenon, <1>2, <2>2, <3>3, FewUnstamped DEF Contents, DoubleFreeSeen, Unstamped, want
    <3> QED BY Zenon, <3>1, <3>2, <3>4 DEF Contents
  <2> QED BY Zenon, <1>3, <2>1, <2>2 DEF Inv
<1>11. CASE /\ s \notin retired /\ free_head'[s] = Index /\ Empty \cup {s} = Carved
            /\ carved' = 0
  <2>1. Out' = {}
    BY Zenon, <1>1, <1>2, <1>11, DisposeFacts DEF FlushStep
  <2>2. Available' = {}
    BY <1>11, <2>1 DEF Available, Out
  <2> QED BY Zenon, <1>10, <2>1, <2>2
<1>12. CASE /\ s \notin retired /\ free_head'[s] = Index /\ carved' = carved
            /\ Empty' = Empty \cup {s}
            /\ mem' = m \/ mem' = [m EXCEPT ![s] = Released]
  <2>1. \A y \in Slots : maps[y[1]] # s => Read(y)' = m[maps[y[1]]][y[2]]
    BY <1>2, <1>3, <1>12, SlotPair DEF Read, TypeOK, Memory
  <2>2. \A y \in Out' : Read(y)' = Read(y)
    BY Zenon, <1>3, <1>7, <1>8, <1>9, <1>12, <2>1
  <2>3. \A y \in Available' : y \in Available /\ y # x /\ (y \in Out' \/ maps[y[1]] # s)
    BY <1>1, <1>2, <1>3, <1>12, SlotPair DEF Available, Empty, Out, Lists
  <2>4. \A y \in Available' : Read(y)' = Read(y)
    BY Zenon, <1>7, <1>8, <2>1, <2>2, <2>3
  <2> QED BY Zenon, <1>10, <2>2, <2>3, <2>4
<1>13. CASE UNCHANGED <<empty_warm, empty_cold, carved>> /\ mem' = m
  <2>1. \A y \in Slots : Read(y)' = m[maps[y[1]]][y[2]]
    BY Zenon, <1>3, <1>13 DEF Read
  <2>2. \A y \in Out' : Read(y)' = Read(y)
    BY Zenon, <1>3, <1>7, <1>8, <2>1
  <2>3. \A y \in Available' : y = x \/ y \in Available
    BY <1>1, <1>3, <1>4, <1>13, SlotPair DEF Available
  <2>4. \A y \in Available' : IF y = x THEN Read(y)' = w ELSE Read(y)' = Read(y)
    BY Zenon, <1>3, <1>7, <1>8, <2>1, <2>3
  <2> QED BY Zenon, <1>10, <2>2, <2>3, <2>4
<1>14. \/ /\ s \notin retired /\ free_head'[s] = Index /\ Empty \cup {s} = Carved
          /\ carved' = 0
       \/ /\ s \notin retired /\ free_head'[s] = Index /\ carved' = carved
          /\ Empty' = Empty \cup {s}
          /\ mem' = m \/ mem' = [m EXCEPT ![s] = Released]
       \/ UNCHANGED <<empty_warm, empty_cold, carved>> /\ mem' = m
  BY Zenon, <1>1 DEF ReturnSlot, BecameFree, Inert, Empty, Carved, emptyVars, m, w
<1> QED BY Zenon, <1>11, <1>12, <1>13, <1>14

\* mesh_pair: every slot that is out reads as before, at its new place, unless
\* its run was the donor's and not its own slab's.
LEMMA PairReads ==
  ASSUME Base, NEW R \in cand, NEW D \in cand \ {R}, Disjoint(R, D), mesh_pair(R, D),
         NEW y \in Out
  PROVE  \/ Read(y)' = Read(y)
         \/ Read(y)' = Zero /\ maps[y[1]] = D /\ y[1] # D
<1>1. /\ R \in Carved /\ R \in Slabs /\ D \in Slabs /\ R \notin retired
      /\ maps[R] = R /\ maps[D] = D
      /\ \A k \in Index : k \in Occ(D) => k \in free_head[R]
      /\ Merged(R, D) \in [Index -> Cells]
      /\ \/ /\ maps' = [maps EXCEPT ![D] = R]
            /\ mem' = [mem EXCEPT ![R] = Merged(R, D), ![D] = Released]
         \/ /\ maps' = maps
            /\ mem' = [mem EXCEPT ![R] = Merged(R, D)]
  BY Zenon, PairFacts
<1>2. TypeOK /\ Lists /\ Apart /\ y \in Slots
  BY Zenon DEF Base, TypeOK, Out
<1> DEFINE t == y[1]
           k == y[2]
<1>3. t \in Slabs /\ k \in Index /\ y = <<t, k>> /\ k \notin free_head[t] /\ maps[t] \in Slabs
  BY Zenon, <1>2, SlotPair DEF Lists, TypeOK
<1>4. CASE t = D
  <2>1. Merged(R, D)[k] = Read(y)
    BY Zenon, <1>3, <1>4 DEF Merged, Occ
  <2>2. CASE maps' = [maps EXCEPT ![D] = R]
             /\ mem' = [mem EXCEPT ![R] = Merged(R, D), ![D] = Released]
    BY Zenon, <1>1, <1>2, <1>3, <1>4, <2>1, <2>2 DEF Read, TypeOK, Memory
  <2>3. CASE maps' = maps /\ mem' = [mem EXCEPT ![R] = Merged(R, D)]
    BY Zenon, <1>1, <1>2, <1>3, <1>4, <2>3 DEF Read, TypeOK, Memory
  <2> QED BY Zenon, <1>1, <2>2, <2>3
<1>5. CASE t # D /\ maps[t] = R
  <2>1. k \notin free_head[R]
    <3> SUFFICES ASSUME k \in free_head[R] PROVE FALSE
      BY Zenon
    <3>1. <<R, k>> \in Usable /\ y \in Usable
      BY Zenon, <1>1, <1>3, SlotPair DEF Usable, UsableIn, Carved
    <3>2. Loc(<<R, k>>) = Loc(y)
      BY Zenon, <1>1, <1>5 DEF Loc
    <3>3. t = R
      BY <1>2, <3>1, <3>2 DEF Apart
    <3> QED BY Zenon, <1>3, <3>3
  <2>2. Merged(R, D)[k] = Read(y)
    BY Zenon, <1>1, <1>3, <1>5, <2>1 DEF Merged, Rebuilt, Read
  <2>3. maps'[t] = R /\ mem'[R] = Merged(R, D)
    BY <1>1, <1>2, <1>3, <1>5 DEF TypeOK, Memory
  <2> QED BY Zenon, <2>2, <2>3 DEF Read
<1>6. CASE t # D /\ maps[t] = D
  BY <1>1, <1>2, <1>3, <1>6 DEF Read, TypeOK, Memory, Released
<1>7. CASE t # D /\ maps[t] # R /\ maps[t] # D
  BY <1>1, <1>2, <1>3, <1>7 DEF Read, TypeOK, Memory
<1> QED BY Zenon, <1>4, <1>5, <1>6, <1>7

\* btm_compact, one candidate: no false alarm, and while it is the first call
\* no contents are lost.
LEMMA CompactStepContents ==
  ASSUME Inv, CompactStep
  PROVE  NoFalseAlarm' /\ (compacts' <= 1 => Contents')
<1>1. PICK R \in cand :
        /\ \/ UNCHANGED <<free_head, retired, maps, mem>>
           \/ \E D \in cand \ {R} : Disjoint(R, D) /\ mesh_pair(R, D)
        /\ UNCHANGED <<empty_warm, empty_cold, carved, bin, live, filled, compacts>>
  BY Zenon DEF CompactStep, emptyVars, objVars
<1>2. Base /\ TypeOK /\ Lists /\ Fresh /\ filled \subseteq live
  BY Zenon DEF Inv, Base, TypeOK
<1>3. CASE UNCHANGED <<free_head, retired, maps, mem>>
  <2>1. NoFalseAlarm'
    BY Zenon, <1>1, <1>3 DEF Inv, NoFalseAlarm, Read, Canary
  <2>2. Contents => Contents'
    BY Zenon, <1>1, <1>3 DEF Contents, ObjectsKept, LinksKept, DoubleFreeSeen, Available, Read, Canary, Obj, want
  <2> QED BY Zenon, <1>1, <2>1, <2>2 DEF Inv
<1>4. ASSUME NEW D \in cand \ {R}, Disjoint(R, D), mesh_pair(R, D)
      PROVE  NoFalseAlarm' /\ (compacts' <= 1 => Contents')
  <2>1. \A y \in Out : \/ Read(y)' = Read(y)
                       \/ Read(y)' = Zero /\ maps[y[1]] = D /\ y[1] # D
    BY Zenon, <1>2, <1>4, PairReads
  <2>2. NoFalseAlarm'
    BY Zenon, <1>1, <1>2, <2>1, CellFacts DEF Inv, NoFalseAlarm, Out, TypeOK, Canary
  <2>3. ASSUME compacts <= 1 PROVE Contents'
    <3>1. Contents
      BY Zenon, <2>3 DEF Inv
    <3>2. \A y \in Out : Read(y)' = Read(y)
      BY Zenon, <1>2, <2>1, <2>3, SlotPair DEF Fresh, Out, TypeOK
    <3>3. ObjectsKept'
      BY Zenon, <1>1, <1>2, <3>1, <3>2 DEF Contents, ObjectsKept, Out, Obj
    <3>4. LinksKept'
      <4> SUFFICES ASSUME NEW y \in Available' PROVE Read(y)'[1] \in {"link", "canary"}
        BY Zenon DEF LinksKept
      <4>1. CASE y \in bin
        BY Zenon, <3>1, <3>2, <4>1 DEF Contents, LinksKept, Available, Out
      <4>2. CASE y \notin bin
        <5>1. /\ R \in Slabs /\ D \in Slabs /\ R \notin retired
              /\ maps[R] = R /\ retired' = retired \cup {D}
              /\ free_head' = [free_head EXCEPT ![R] = @ \ Occ(D)]
              /\ Merged(R, D) \in [Index -> Cells]
              /\ \/ /\ maps' = [maps EXCEPT ![D] = R]
                    /\ mem' = [mem EXCEPT ![R] = Merged(R, D), ![D] = Released]
                 \/ /\ maps' = maps
                    /\ mem' = [mem EXCEPT ![R] = Merged(R, D)]
          BY Zenon, <1>2, <1>4, PairFacts
        <5>2. /\ y \in Slots /\ y[1] \in Slabs /\ y[2] \in Index /\ y = <<y[1], y[2]>>
              /\ y[1] \in 1..carved \ (retired \cup empty_warm \cup empty_cold)
              /\ y[1] # D /\ y[2] \in free_head'[y[1]]
          BY Zenon, <1>1, <4>2, <5>1, SlotPair DEF Available
        <5>3. y \in Available /\ (y[1] = R => y[2] \notin Occ(D))
          BY Zenon, <1>2, <5>1, <5>2 DEF Available, TypeOK
        <5>4. maps[y[1]] = y[1] /\ maps'[y[1]] = y[1]
          BY <1>2, <5>1, <5>2 DEF Lists, TypeOK
        <5>5. CASE y[1] = R
          <6>1. Read(y)' = Merged(R, D)[y[2]]
            BY Zenon, <1>2, <5>1, <5>2, <5>4, <5>5 DEF Read, TypeOK, Memory
          <6>2. Merged(R, D)[y[2]] = btm_fl_set(Read(y))
            BY Zenon, <1>2, <5>1, <5>2, <5>3, <5>5 DEF Merged, Rebuilt, TypeOK
          <6>3. Read(y) \in Cells
            BY <1>2, <5>2, <5>4 DEF Read, TypeOK, Memory
          <6> QED BY Zenon, <6>1, <6>2, <6>3, CellFacts
        <5>6. CASE y[1] # R
          <6>1. Read(y)' = Read(y)
            BY Zenon, <1>2, <5>1, <5>2, <5>4, <5>6 DEF Read, TypeOK, Memory
          <6> QED BY Zenon, <3>1, <5>3, <6>1 DEF Contents, LinksKept
        <5> QED BY Zenon, <5>5, <5>6
      <4> QED BY Zenon, <4>1, <4>2
    <3>5. Unstamped' \subseteq Unstamped
      BY Zenon, <1>1, <3>2 DEF Unstamped, Out, Canary
    <3>6. DoubleFreeSeen'
      BY Zenon, <1>2, <3>1, <3>5, FewUnstamped DEF Contents, DoubleFreeSeen, Unstamped, want
    <3> QED BY Zenon, <3>3, <3>4, <3>6 DEF Contents
  <2> QED BY Zenon, <1>1, <2>2, <2>3
<1> QED BY Zenon, <1>1, <1>3, <1>4

-----------------------------------------------------------------------------
(* Theorems *)

\* The empty pool satisfies the invariant.
LEMMA InitInv == Init => Inv
<1> SUFFICES ASSUME Init PROVE Inv
  BY Zenon
<1>1. NSlabs \in Nat
  BY Zenon, MeshAssumption
<1>2. mem \in Memory
  BY Zenon, CellFacts DEF Init, Memory
<1>3. TypeOK
  <2>1. free_head \in [Slabs -> SUBSET Index] /\ maps \in [Slabs -> Slabs]
    <3>1. free_head = [s \in Slabs |-> {}] /\ maps = [s \in Slabs |-> s]
      BY Zenon DEF Init
    <3> QED BY Zenon, <3>1
  <2>2. carved \in 0..NSlabs /\ compacts \in Nat
    <3>1. carved = 0 /\ compacts = 0
      BY Zenon DEF Init
    <3> QED BY <1>1, <3>1
  <2>3. flushing \in BOOLEAN
    BY Zenon DEF Init
  <2>4. /\ partial = {} /\ empty_warm = {} /\ empty_cold = {} /\ retired = {}
        /\ bin = {} /\ live = {} /\ filled = {} /\ cand = {}
    BY Zenon DEF Init
  <2> QED BY Zenon, <1>2, <2>1, <2>2, <2>3, <2>4 DEF TypeOK
<1>4. Carved = {} /\ Empty = {} /\ Out = {} /\ Available = {} /\ Unstamped = {}
  BY DEF Init, Carved, Empty, Out, Available, Unstamped
<1>5. Lists
  BY Zenon, <1>4 DEF Init, Lists
<1>6. Usable = {}
  BY <1>4 DEF Init, Usable, UsableIn
<1>7. Apart /\ Fresh
  BY Zenon, <1>6 DEF Init, Apart, Fresh
<1>8. DoubleFreeSeen
  BY Zenon, <1>4, NoneUnstamped DEF DoubleFreeSeen, Unstamped
<1>9. ObjectsKept /\ LinksKept /\ NoFalseAlarm
  BY Zenon, <1>4 DEF Init, ObjectsKept, LinksKept, NoFalseAlarm
<1> QED BY Zenon, <1>3, <1>5, <1>7, <1>8, <1>9 DEF Inv, Base, Contents

\* Every step of the program, the allocator or the compaction keeps it.
LEMMA NextInv == Inv /\ [Next]_vars => Inv'
<1> SUFFICES ASSUME Inv, [Next]_vars PROVE Inv'
  BY Zenon
<1>1. Base
  BY Zenon DEF Inv
<1>2. CASE MallocHit
  BY Zenon, <1>1, <1>2, MallocHitBase, MallocHitContents DEF Inv
<1>3. CASE RefillPartial
  BY Zenon, <1>1, <1>3, RefillPartialBase, RefillPartialContents DEF Inv
<1>4. CASE RefillNew
  BY Zenon, <1>1, <1>4, RefillNewBase, RefillNewContents DEF Inv
<1>5. ASSUME NEW x \in Slots, FreeToBin(x) PROVE Inv'
  BY SMTT(30), <1>1, <1>5, FreeToBinBase, FreeToBinContents DEF Inv
<1>6. CASE FlushStep
  BY Zenon, <1>1, <1>6, FlushStepBase, FlushStepContents DEF Inv
<1>7. CASE CompactStart
  BY Zenon, <1>1, <1>7, CompactStartBase, CompactStartContents DEF Inv
<1>8. CASE CompactStep
  BY Zenon, <1>1, <1>8, CompactStepBase, CompactStepContents DEF Inv
<1>9. CASE UNCHANGED vars
  <2>1. Base'
    BY <1>1, <1>9 DEF vars, Base, TypeOK, Lists, Apart, Fresh, Empty, Carved, Out, Usable,
                      UsableIn, Loc
  <2>2. NoFalseAlarm' /\ (Contents => Contents')
    BY Zenon, <1>9 DEF vars, Inv, NoFalseAlarm, Contents, ObjectsKept, LinksKept, DoubleFreeSeen,
                Available, Read, Canary, Obj, want
  <2> QED BY Zenon, <1>9, <2>1, <2>2 DEF Inv, vars
<1> QED BY Zenon, <1>2, <1>3, <1>4, <1>5, <1>6, <1>7, <1>8, <1>9 DEF Next

\* The inductive invariant holds throughout, for any number of compactions.
THEOREM MeshInvariant == Spec => []Inv
BY InitInv, NextInv, PTL DEF Spec

\* Whatever is meshed, and however often, no two of the slots in use or
\* available share memory.
THEOREM MeshedSlotsApart == Spec => []NoSharedCell
<1>1. Inv => NoSharedCell
  <2> SUFFICES ASSUME Inv PROVE NoSharedCell
    BY Zenon
  <2>1. live \cup Available \subseteq Usable
    BY Zenon, AvailableUsable DEF Inv, Out
  <2> QED BY Zenon, <2>1 DEF Inv, Base, Apart, NoSharedCell
<1> QED BY <1>1, MeshInvariant, PTL

\* BTM_HARDEN=1 never aborts a correct program, however often the heap is
\* compacted: no slot in use carries the canary of its own address.
THEOREM CanaryNoFalseAlarm == Spec => []NoFalseAlarm
<1>1. Inv => NoFalseAlarm
  BY Zenon DEF Inv
<1> QED BY <1>1, MeshInvariant, PTL

\* Up to and including the first btm_compact call, every object the program
\* has written reads at its address what was written.
THEOREM FirstCompactionKeepsObjects == Spec => [](compacts <= 1 => ObjectsKept)
<1>1. Inv => (compacts <= 1 => ObjectsKept)
  BY Zenon DEF Inv, Contents
<1> QED BY <1>1, MeshInvariant, PTL

\* Up to and including the first btm_compact call, the link of every slot that
\* can be handed out is intact.
THEOREM FirstCompactionKeepsLinks == Spec => [](compacts <= 1 => LinksKept)
<1>1. Inv => (compacts <= 1 => LinksKept)
  BY Zenon DEF Inv, Contents
<1> QED BY <1>1, MeshInvariant, PTL

\* Up to and including the first btm_compact call, all slots of the bin but
\* the want - 1 a refill brings carry their canary.
THEOREM FirstCompactionKeepsCanaries == Spec => [](compacts <= 1 => DoubleFreeSeen)
<1>1. Inv => (compacts <= 1 => DoubleFreeSeen)
  BY Zenon DEF Inv, Contents
<1> QED BY <1>1, MeshInvariant, PTL

=============================================================================
