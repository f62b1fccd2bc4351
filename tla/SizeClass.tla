----------------------------- MODULE SizeClass ------------------------------
(***************************************************************************)
(* Size classes with their real tables (size_class.c), and the carving of  *)
(* a chunk into the slabs of one class, in pages and bytes.  Heap takes    *)
(* slabs, slots and the map from a slot to its slab as given; here they    *)
(* are computed.  The state is one chunk, which is carved up for one class *)
(* after the other.                                                        *)
(***************************************************************************)
EXTENDS Integers, FiniteSets, Sequences

CONSTANT SizeT      \* 2^w for a size_t of w bits

PAGE_SIZE == 4096
PAGES_PER_CHUNK == 512
SMALL_MAX_SIZE == 16384
NUM_SIZE_CLASSES == 36
SizeofSlab == 48
DESC_PAGES == (PAGES_PER_CHUNK * SizeofSlab + PAGE_SIZE - 1) \div PAGE_SIZE
DATA_START_PAGE == 1 + DESC_PAGES
PAGE_NONE == 65535

ASSUME SizeTAssumption == SizeT \in Nat /\ SizeT > SMALL_MAX_SIZE + 64

Classes == 0..(NUM_SIZE_CLASSES - 1)
NoClass == -1

VARIABLES
  sc,               \* the class of the pool that has the chunk
  page_owner        \* the first page of the slab that a page of it belongs to

chunkVars == <<sc, page_owner>>

ChunkInit == sc = NoClass /\ page_owner = <<>>

\* A C array from its initialiser.
Table(seq) == [c \in 0..(Len(seq) - 1) |-> seq[c + 1]]

\* n copies of v.
Times(n, v) == [j \in 1..n |-> v]

btm_sc_to_size == Table(<<
  16, 32, 48, 64, 80, 96, 112, 128, 160, 192, 224, 256, 320, 384, 448, 512,
  640, 768, 896, 1024, 1280, 1536, 1792, 2048, 2560, 3072, 3584, 4096,
  5120, 6144, 7168, 8192, 10240, 12288, 14336, 16384>>)

btm_sc_run_pages == Table(
  Times(12, 1) \o Times(4, 2) \o Times(4, 4) \o Times(4, 8) \o Times(4, 16)
    \o Times(4, 24) \o Times(4, 32))

btm_cache_max_tbl == Table(
  <<256, 256, 256, 256, 204, 170, 146, 128, 102, 85, 73, 64, 51, 42, 36, 32,
    25, 21, 18, 16, 12, 10, 9>> \o Times(13, 8))

\* How often each class stands in btm_sc_lut, where the classes stand in order.
LutRuns == Table(
  Times(8, 1) \o Times(4, 2) \o Times(4, 4) \o Times(4, 8) \o Times(4, 16)
    \o Times(4, 32) \o Times(4, 64) \o Times(4, 128))

\* The index behind the last entry of class c.
LutEnd[c \in Classes] == LutRuns[c] + (IF c = 0 THEN 0 ELSE LutEnd[c - 1])

btm_sc_lut == [j \in 0..(SMALL_MAX_SIZE \div 16 - 1) |->
                 Cardinality({c \in Classes : LutEnd[c] <= j})]

\* Mutant: the size itself is shifted, not size - 1.
btm_size_to_scMutant(n) ==
  IF (n - 1) % SizeT >= SMALL_MAX_SIZE THEN -1 ELSE btm_sc_lut[(n \div 16) % 1024]

\* size - 1 wraps for 0, which the one comparison then catches.
btm_size_to_sc(n) ==
  IF (n - 1) % SizeT >= SMALL_MAX_SIZE THEN -1 ELSE btm_sc_lut[(n - 1) \div 16]

-----------------------------------------------------------------------------
(* btm_slab_new carves runs of pages from a chunk that chunk_init_header has *)
(* reset, until the next run would not end in it.                            *)

Pages == 0..(PAGES_PER_CHUNK - 1)

HasRoom(next, run) == next + run <= PAGES_PER_CHUNK

\* Mutant: the last page of the run is not entered.
RunMutant(first, run) == first..(first + run - 2)

\* The pages whose page_owner entry a carve sets.
Run(first, run) == first..(first + run - 1)

\* first_page of every slab of a chunk that is carved up: the bump pointer
\* starts at the data pages and advances by whole runs.
FirstPages(run) ==
  {f \in Pages : /\ f >= DATA_START_PAGE /\ (f - DATA_START_PAGE) % run = 0
                 /\ HasRoom(f, run)}

\* The header as chunk_init_header leaves it, with the entries of these slabs.
PageOwner(run) ==
  [p \in Pages |->
     LET f == p - ((p - DATA_START_PAGE) % run)
     IN IF f \in FirstPages(run) /\ p \in Run(f, run) THEN f ELSE PAGE_NONE]

\* slab_format
nslots(c) == (btm_sc_run_pages[c] * PAGE_SIZE) \div btm_sc_to_size[c]

\* btm_slab_data, and the address of slot j, relative to the chunk.
btm_slab_data(first) == first * PAGE_SIZE
SlotAt(c, first, j) == btm_slab_data(first) + j * btm_sc_to_size[c]

\* btm_slab_of, for an address relative to the chunk.
btm_slab_of(owner, ptr) == owner[ptr \div PAGE_SIZE]

\* A pool of class c obtains the chunk and carves all of it up.
Carve(c) ==
  /\ sc = NoClass
  /\ sc' = c
  /\ page_owner' = PageOwner(btm_sc_run_pages[c])

\* Its last slab has become free and it is disposed of.
GiveBack == sc # NoClass /\ sc' = NoClass /\ page_owner' = <<>>

ChunkNext == GiveBack \/ \E c \in Classes : Carve(c)

ChunkSpec == ChunkInit /\ [][ChunkNext]_chunkVars

-----------------------------------------------------------------------------
(* Properties *)

\* btm_size_to_sc gives the "smallest size class fitting size, or -1 if 0 or
\* > SMALL_MAX" (internal.h:237): the requests that are routed to the pool are
\* those for which a search of the table of sizes ends at its class.
SmallestFit ==
  sc # NoClass =>
    \A size \in 0..(SMALL_MAX_SIZE + 64) :
      btm_size_to_sc(size) = sc <=>
        /\ size # 0 /\ size <= btm_sc_to_size[sc]
        /\ \A c \in Classes : size <= btm_sc_to_size[c] => btm_sc_to_size[sc] <= btm_sc_to_size[c]

\* The first and the last byte of every slot of every slab resolve to that
\* slab, as btm_pool_flush and btm_pool_free_one need; slots are 16-byte aligned.
EveryByteResolves ==
  \A f \in FirstPages(btm_sc_run_pages[sc]), j \in 0..(nslots(sc) - 1) :
    /\ SlotAt(sc, f, j) % 16 = 0
    /\ btm_slab_of(page_owner, SlotAt(sc, f, j)) = f
    /\ btm_slab_of(page_owner, SlotAt(sc, f, j) + btm_sc_to_size[sc] - 1) = f

\* Slabs stay inside the chunk, clear of the header and the descriptors, and
\* their descriptors inside the descriptor array.
SlabsInsideChunk ==
  \A f \in FirstPages(btm_sc_run_pages[sc]) :
    /\ f >= DATA_START_PAGE /\ f + btm_sc_run_pages[sc] <= PAGES_PER_CHUNK
    /\ PAGE_SIZE + (f + 1) * SizeofSlab <= DATA_START_PAGE * PAGE_SIZE

\* What module Heap assumes of every class: a slab has at least two slots, so
\* that no free empties a full slab, and a bin holds at least two; and the cap
\* is "clamp(16384 / size, 8, 256)" (size_class.c:105).
ClassFitsHeap ==
  LET quot == 16384 \div btm_sc_to_size[sc] IN
  /\ nslots(sc) >= 2
  /\ btm_cache_max_tbl[sc] = IF quot < 8 THEN 8 ELSE IF quot > 256 THEN 256 ELSE quot
  /\ btm_cache_max_tbl[sc] >= 2

\* A chunk can be carved up for every class: its slabs lie inside it, every
\* byte of a slot resolves to its slab, and the class is as Heap takes it.
CarvingRight ==
  sc # NoClass => SlabsInsideChunk /\ EveryByteResolves /\ ClassFitsHeap
=============================================================================
