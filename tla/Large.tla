------------------------------- MODULE Large --------------------------------
(***************************************************************************)
(* Large objects (large.c): each its own mapping, at a 2 MiB-aligned base, *)
(* with its header in front, entered in the registry region by region.     *)
(* Sizes and addresses are numbers of a small unit and size_t arithmetic   *)
(* wraps at SizeT.  The program also has mappings of its own.              *)
(***************************************************************************)
EXTENDS Integers, FiniteSets

CONSTANTS
  SizeT,            \* 2^w, for w the bits of size_t
  ALIGNMENT,        \* BTM_ALIGNMENT
  Header,           \* sizeof(btm_large_hdr_t)
  PAGE_SIZE,        \* BTM_PAGE_SIZE
  CHUNK_SIZE,       \* BTM_CHUNK_SIZE
  SpaceEnd,         \* end of the address space
  Sizes,            \* sizes asked for
  Alignments,       \* alignments asked for
  MaxObjects,       \* bound on the objects
  MaxForeign,       \* bound on the program's own pages
  MovesAligned,     \* mremap moves a mapping to a CHUNK_SIZE boundary only
  None

ASSUME LargeAssumption ==
  /\ {SizeT, ALIGNMENT, Header, PAGE_SIZE, CHUNK_SIZE, SpaceEnd} \subseteq Nat \ {0}
  /\ Sizes \subseteq 0..(SizeT - 1)
  /\ SpaceEnd <= SizeT /\ SpaceEnd % CHUNK_SIZE = 0 /\ CHUNK_SIZE % PAGE_SIZE = 0
  /\ None \notin Nat

Regions == 0..(SpaceEnd \div CHUNK_SIZE - 1)
PageStarts == {a \in 0..(SpaceEnd - 1) : a % PAGE_SIZE = 0}

VARIABLES
  objs,             \* objects, by header: base, map_len, user_off, req_size
  registry,         \* the base entered for each region
  foreign           \* pages of the program's own mappings

vars == <<objs, registry, foreign>>

Init == objs = {} /\ registry = [r \in Regions |-> None] /\ foreign = {}

-----------------------------------------------------------------------------
\* size_t arithmetic
Wrap(n) == n % SizeT
round_up(v, a) == LET w == Wrap(v + a - 1) IN w - (w % a)

Span(a, len) == {p \in PageStarts : p >= a /\ p < a + len}

MappedPages == foreign \cup UNION {Span(o.base, o.map_len) : o \in objs}

\* The kernel can place len bytes at a.
Free(a, len) ==
  /\ len > 0 /\ a + len <= SpaceEnd
  /\ Span(a, len) \cap MappedPages = {}

RegionsOf(base, len) == {r \in Regions : r >= base \div CHUNK_SIZE /\ r <= (base + len - 1) \div CHUNK_SIZE}

\* Mutant: only the first region is entered.
btm_registry_insertMutant(reg, base, len) ==
  [r \in Regions |-> IF r = base \div CHUNK_SIZE THEN base ELSE reg[r]]

btm_registry_insert(reg, base, len) ==
  [r \in Regions |-> IF r \in RegionsOf(base, len) THEN base ELSE reg[r]]

\* Mutant: the region of the last byte is left out.
btm_registry_removeMutant(reg, base, len) ==
  [r \in Regions |-> IF r \in RegionsOf(base, len - PAGE_SIZE) THEN None ELSE reg[r]]

btm_registry_remove(reg, base, len) ==
  [r \in Regions |-> IF r \in RegionsOf(base, len) THEN None ELSE reg[r]]

\* The length of a mapping that starts with off bytes in front of size.
MapLen(off, size) == round_up(Wrap(off + size), PAGE_SIZE)

MaxOf(a, b) == IF a >= b THEN a ELSE b

BaseAlign(alignment) == MaxOf(alignment, CHUNK_SIZE)

\* btm_large_alloc: map a surplus, cut it down to the aligned part, and enter it.
btm_large_alloc(size, alignment) ==
  LET a == MaxOf(alignment, ALIGNMENT)
      hdr == round_up(Header, a)
      total == MapLen(hdr, size)
      balign == BaseAlign(a)
      wanted == Wrap(total + balign)
  IN /\ size # 0
     /\ total \in 1..wanted     \* a length that wraps here is not followed
     /\ Cardinality(objs) < MaxObjects
     /\ \E raw \in PageStarts :
          /\ Free(raw, wanted)
          /\ LET base == round_up(raw, balign) IN
             /\ objs' = objs \cup {[base |-> base, map_len |-> total, user_off |-> hdr,
                                     req_size |-> size, align |-> a]}
             /\ registry' = btm_registry_insert(registry, base, total)
     /\ UNCHANGED foreign

btm_large_free(o) ==
  /\ registry' = btm_registry_remove(registry, o.base, o.map_len)
  /\ objs' = objs \ {o}
  /\ UNCHANGED foreign

\* mremap(MREMAP_MAYMOVE): shrink in place, grow in place or move.
MremapBases(o, len) ==
  IF len <= o.map_len THEN {o.base}
  ELSE {a \in PageStarts :
          \/ a = o.base /\ Free(o.base + o.map_len, len - o.map_len)
          \/ Free(a, len) /\ (MovesAligned => a % CHUNK_SIZE = 0)}

\* btm_large_realloc, when the length in pages changes and mremap succeeds.  When
\* the length is the same the header is updated; when mremap fails, the entries
\* are removed and restored.  An alignment beyond the default is not kept.
Remap(o, newsz) ==
  LET new_total == MapLen(o.user_off, newsz) IN
  /\ new_total \notin {0, o.map_len}      \* mremap refuses a length of 0
  /\ \E nb \in MremapBases(o, new_total) :
       /\ objs' = (objs \ {o}) \cup
                    {[base |-> nb, map_len |-> new_total, user_off |-> o.user_off,
                      req_size |-> newsz, align |-> ALIGNMENT]}
       /\ registry' = btm_registry_insert(btm_registry_remove(registry, o.base, o.map_len),
                                          nb, new_total)

SameLength(o, newsz) ==
  /\ MapLen(o.user_off, newsz) = o.map_len
  /\ objs' = (objs \ {o}) \cup {[o EXCEPT !.req_size = newsz]}
  /\ UNCHANGED registry

RemapFails(o, newsz) ==
  /\ MapLen(o.user_off, newsz) # o.map_len
  /\ registry' = btm_registry_insert(btm_registry_remove(registry, o.base, o.map_len),
                                     o.base, o.map_len)
  /\ UNCHANGED objs

btm_large_realloc(o, newsz) ==
  /\ newsz # 0
  /\ Remap(o, newsz) \/ SameLength(o, newsz) \/ RemapFails(o, newsz)
  /\ UNCHANGED foreign

\* The program maps and unmaps a page of its own.
ForeignMap(p) ==
  /\ Free(p, PAGE_SIZE) /\ Cardinality(foreign) < MaxForeign
  /\ foreign' = foreign \cup {p}
  /\ UNCHANGED <<objs, registry>>

ForeignUnmap(p) ==
  /\ foreign' = foreign \ {p}
  /\ UNCHANGED <<objs, registry>>

Next ==
  \/ \E size \in Sizes, alignment \in Alignments : btm_large_alloc(size, alignment)
  \/ \E o \in objs : btm_large_free(o) \/ \E newsz \in Sizes : btm_large_realloc(o, newsz)
  \/ \E p \in PageStarts : ForeignMap(p)
  \/ \E p \in foreign : ForeignUnmap(p)

Spec == Init /\ [][Next]_vars

-----------------------------------------------------------------------------
(* Properties *)

\* The mapping of an object holds its header and all the bytes asked for, after
\* any sequence of reallocations.
RequestFits == \A o \in objs : o.user_off >= Header /\ o.user_off + o.req_size <= o.map_len

\* The user pointer of a new object is aligned as demanded, also beyond 2 MiB.
PointerAligned == \A o \in objs : (o.base + o.user_off) % o.align = 0

\* The registry "resolves any interior pointer back to the object's header"
\* (large.c:5), for every object at once.
OwnerFound ==
  \A o \in objs : \A p \in Span(o.base, o.map_len) : registry[p \div CHUNK_SIZE] = o.base

\* Nothing is left in the registry for a region that no object reaches.
RegistryClean ==
  \A r \in Regions : registry[r] # None =>
    \E o \in objs : o.base = registry[r] /\ r \in RegionsOf(o.base, o.map_len)
=============================================================================
