------------------------------- MODULE Calls --------------------------------
(***************************************************************************)
(* The public calls of btmalloc.c and preload.c as the program sees them,  *)
(* over large objects (module Large) and small ones, which are the slots   *)
(* of size classes here; module Heap has what is behind them.  A pointer   *)
(* is <<address>> of a large object, <<class, number>> of a small one.     *)
(***************************************************************************)
EXTENDS Large

CONSTANTS
  sc_to_size,       \* btm_sc_to_size: the sizes of the classes 1..n
  NSmall,           \* slots there are of each class
  Counts            \* element counts asked for by calloc and reallocarray

ASSUME CallsAssumption ==
  /\ \A c \in DOMAIN sc_to_size : sc_to_size[c] \in Nat \ {0}
  /\ NSmall \in Nat /\ Counts \subseteq Nat

VARIABLES
  taken,            \* the small slots that are allocated
  held              \* for each pointer the program holds: the size it asked
                    \* for, the leading bytes it relies on, and the leading
                    \* bytes that are as it left them

smallVars == <<taken, held>>
allVars == <<vars, smallVars>>

CallsInit == Init /\ taken = {} /\ held = <<>>

-----------------------------------------------------------------------------
Classes == DOMAIN sc_to_size
SMALL_MAX_SIZE == sc_to_size[Cardinality(Classes)]
MinOf(a, b) == IF a <= b THEN a ELSE b

\* btm_size_to_sc for a size that is small.
FitsIn(size, c) ==
  /\ size # 0 /\ size <= sc_to_size[c]
  /\ \A d \in Classes : size <= sc_to_size[d] => c <= d

Ptr(o) == <<o.base + o.user_off>>
IsSmall(p) == p \in taken

\* btm_resolve_owner of a large pointer: the object whose base is registered.
Owner(p) == {o \in objs : o.base = registry[p[1] \div CHUNK_SIZE]}

\* btm_large_usable_size
Usable(o, p) == o.map_len - (p[1] - o.base)

btm_malloc_usable_size(p) ==
  IF IsSmall(p) THEN sc_to_size[p[1]]
  ELSE LET o == CHOOSE x \in Owner(p) : TRUE IN Usable(o, p)

\* The program fills what it was given.
New(size) == [asked |-> size, relied |-> size, data |-> size]

Without(p) == [q \in DOMAIN held \ {p} |-> held[q]]
With(h, p, entry) == [q \in DOMAIN h \cup {p} |-> IF q = p THEN entry ELSE h[q]]

\* p, with `old' usable bytes, is given up for np with `cap': `copied' bytes
\* are taken along, and a copy beyond the end of either object is garbage.
Moved(p, old, np, cap, asked, copied) ==
  With(Without(p), np,
       [asked |-> asked,
        relied |-> MinOf(held[p].relied, asked),
        data |-> IF copied <= MinOf(old, cap) THEN MinOf(held[p].data, copied) ELSE 0])

-----------------------------------------------------------------------------
(* Allocation.  A call that returns NULL changes nothing. *)

SmallAlloc(c, n) == <<c, n>> \notin taken /\ n \in 1..NSmall

AllocSmall(size, asked) ==
  /\ \E c \in Classes, n \in 1..NSmall :
       /\ FitsIn(size, c) /\ SmallAlloc(c, n)
       /\ taken' = taken \cup {<<c, n>>}
       /\ held' = With(held, <<c, n>>, New(asked))
  /\ UNCHANGED vars

AllocLarge(size, alignment, asked) ==
  /\ btm_large_alloc(size, alignment)
  /\ \E o \in objs' \ objs : held' = With(held, Ptr(o), New(asked))
  /\ UNCHANGED taken

btm_malloc(size) ==
  \/ AllocSmall(size, size)
  \/ size > SMALL_MAX_SIZE /\ AllocLarge(size, ALIGNMENT, size)

\* Mutant: the product is not checked.
OverflowsMutant(n, size) == FALSE

\* __builtin_mul_overflow, which also gives the product modulo its width.
Overflows(n, size) == n * size >= SizeT

\* calloc: zero bytes or an overflow give NULL, a large request skips memset.
btm_calloc(n, size) ==
  /\ ~Overflows(n, size)
  /\ \/ AllocSmall(Wrap(n * size), n * size)
     \/ /\ Wrap(n * size) > SMALL_MAX_SIZE
        /\ AllocLarge(Wrap(n * size), ALIGNMENT, n * size)

is_pow2(x) == \E e \in 0..x : x = 2^e

\* The alignments that large objects are made with, and the units they are
\* compared with: powers of two, so that the smaller divides the larger.
Units == {ALIGNMENT, PAGE_SIZE, CHUNK_SIZE} \cup {a \in Alignments : is_pow2(a)}

ASSUME PowersOfTwo ==
  /\ Units \subseteq 1..(SizeT - 1) /\ ALIGNMENT <= CHUNK_SIZE
  /\ \A a, b \in Units : a <= b => b % a = 0

\* posix_memalign (strict = FALSE) and aligned_alloc, memalign (strict).  All
\* sizes are in units of which sizeof(void *) is at most one.
btm_aligned(alignment, size, strict) ==
  /\ is_pow2(alignment) /\ size # 0
  /\ strict => size % alignment = 0
  /\ IF alignment <= ALIGNMENT THEN btm_malloc(size)
     ELSE AllocLarge(size, alignment, size)

\* valloc and pvalloc round the size up to pages, modulo the width of size_t.
valloc(size) == btm_aligned(PAGE_SIZE, round_up(size, PAGE_SIZE), TRUE)

-----------------------------------------------------------------------------
(* btm_free.  A pointer with no owner is ignored. *)

FreeSmall(p) == /\ IsSmall(p)
                /\ taken' = taken \ {p}
                /\ UNCHANGED vars

FreeLarge(p) == /\ ~IsSmall(p)
                /\ \E o \in Owner(p) : btm_large_free(o)
                /\ UNCHANGED taken

btm_free(p) ==
  /\ FreeSmall(p) \/ FreeLarge(p)
  /\ held' = Without(p)

-----------------------------------------------------------------------------
(* btm_realloc_at, for a pointer that is not NULL.  When the new object     *)
(* cannot be had the call returns NULL and nothing changes.                 *)

\* Mutant: the comparison is turned round.
CopiedMutant(old, size) == MaxOf(old, size)

Copied(old, size) == MinOf(old, size)

\* Mutant: btm_free of the old object is forgotten.
GivenUpMutant(p) == taken

\* The old slot is freed once its bytes are copied.
GivenUp(p) == taken \ {p}

SameClass(p, size, asked) ==
  /\ IsSmall(p) /\ FitsIn(size, p[1])
  /\ held' = Moved(p, sc_to_size[p[1]], p, sc_to_size[p[1]], asked, held[p].data)
  /\ UNCHANGED <<vars, taken>>

\* Into a slot of a class, from another class or from a large object.
ToSmall(p, size, asked) ==
  LET old == btm_malloc_usable_size(p) IN
  /\ \E c \in Classes, n \in 1..NSmall :
       /\ FitsIn(size, c) /\ SmallAlloc(c, n) /\ (IsSmall(p) => c # p[1])
       /\ taken' = GivenUp(p) \cup {<<c, n>>}
       /\ held' = Moved(p, old, <<c, n>>, sc_to_size[c], asked, Copied(old, size))
  /\ \/ IsSmall(p) /\ UNCHANGED vars
     \/ ~IsSmall(p) /\ \E o \in Owner(p) : btm_large_free(o)

SmallToLarge(p, size, asked) ==
  LET old == sc_to_size[p[1]] IN
  /\ IsSmall(p) /\ size > SMALL_MAX_SIZE
  /\ btm_large_alloc(size, ALIGNMENT)
  /\ \E o \in objs' \ objs :
       held' = Moved(p, old, Ptr(o), Usable(o, Ptr(o)), asked, Copied(old, size))
  /\ taken' = GivenUp(p)

\* btm_large_realloc: mremap takes the bytes along; when it fails, p stays.
LargeToLarge(p, size, asked) ==
  /\ ~IsSmall(p) /\ size > SMALL_MAX_SIZE
  /\ \E o \in Owner(p) :
       /\ btm_large_realloc(o, size)
       /\ IF objs' = objs THEN UNCHANGED held
          ELSE \E q \in objs' \ objs :
                 held' = Moved(p, Usable(o, p), Ptr(q), Usable(q, Ptr(q)), asked,
                               MinOf(Usable(o, p), Usable(q, Ptr(q))))
  /\ UNCHANGED taken

btm_realloc(p, size, asked) ==
  \/ size = 0 /\ btm_free(p)
  \/ SameClass(p, size, asked) \/ ToSmall(p, size, asked)
  \/ SmallToLarge(p, size, asked) \/ LargeToLarge(p, size, asked)

btm_reallocarray(p, n, size) ==
  ~Overflows(n, size) /\ btm_realloc(p, Wrap(n * size), n * size)

CallsNext ==
  \/ \E size \in Sizes :
       \/ btm_malloc(size) \/ valloc(size)
       \/ \E n \in Counts : btm_calloc(n, size)
       \/ \E alignment \in Alignments, strict \in BOOLEAN : btm_aligned(alignment, size, strict)
  \/ \E p \in DOMAIN held :
       \/ btm_free(p)
       \/ \E n \in Counts, size \in Sizes : btm_reallocarray(p, n, size)
  \/ \E page \in PageStarts : ForeignMap(page) /\ UNCHANGED smallVars
  \/ \E page \in foreign : ForeignUnmap(page) /\ UNCHANGED smallVars

CallsSpec == CallsInit /\ [][CallsNext]_allVars

-----------------------------------------------------------------------------
(* Properties *)

\* The program holds exactly what is allocated: no call, successful or not,
\* leaks an object, frees one that stays in use or returns one twice ("On
\* failure, returns NULL and leaves `ptr` valid and unchanged", btmalloc.h:59).
HeldExactly ==
  /\ DOMAIN held = taken \cup {Ptr(o) : o \in objs}
  /\ \A o, q \in objs : Ptr(o) = Ptr(q) => o = q

\* Every object has room for what was asked for, counts multiplied out:
\* btm_malloc_usable_size "may exceed the size that was requested"
\* (btmalloc.h:80) and never falls short of it; a large object lies between its
\* header and the end of its mapping, aligned as was asked.
RequestMet ==
  /\ \A p \in DOMAIN held : btm_malloc_usable_size(p) >= held[p].asked
  /\ RequestFits /\ PointerAligned

\* The bytes common to all the sizes an object has had survive every
\* reallocation, between classes, to and from a mapping, and moved by mremap.
ContentsKept == \A p \in DOMAIN held : held[p].data >= held[p].relied
=============================================================================
