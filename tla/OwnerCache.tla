----------------------------- MODULE OwnerCache -----------------------------
(***************************************************************************)
(* Resolving a pointer to its owner without a lock: btm_resolve_owner with *)
(* the per-thread region cache (internal.h), the radix registry and its    *)
(* generation counter (chunk.c), and the operations that enter and remove  *)
(* 2 MiB regions: mapping a chunk or a large object, freeing a large       *)
(* object, trimming a chunk.                                               *)
(*                                                                         *)
(* An object is what occupies regions: a chunk (one region), a large       *)
(* object (one or more) or a foreign mapping.  It stands for the owner     *)
(* word as well: base for a chunk, base | 1 for a large object.  The       *)
(* program is correct: it frees what it owns, once, while no other thread  *)
(* is working with it.                                                     *)
(***************************************************************************)
EXTENDS Integers, FiniteSets

CONSTANTS
  Threads,
  NRegions,         \* 2 MiB regions of the address space
  MaxLen,           \* bound on the regions of an object
  RCACHE,           \* BTM_RCACHE
  MaxGen,           \* bound on btm_registry_gen
  None

ASSUME CacheAssumption ==
  /\ NRegions \in Nat \ {0} /\ MaxLen \in Nat /\ RCACHE \in Nat \ {0} /\ MaxGen \in Nat
  /\ IsFiniteSet(Threads)
  /\ None \notin [base : Nat, len : Nat, kind : {"chunk", "large", "foreign"}]

Regions == 0..(NRegions - 1)

Objects ==
  {o \in [base : Regions, len : 1..MaxLen, kind : {"chunk", "large", "foreign"}] :
     /\ o.base + o.len <= NRegions
     /\ o.kind = "chunk" => o.len = 1}

Reg(o) == o.base..(o.base + o.len - 1)

VARIABLES
  space,        \* the object mapped over each region
  live,         \* objects the program may name in a call
  registry,     \* the leaves of radix_l1
  gen,          \* btm_registry_gen
  rcache,       \* each thread's region cache
  pc, op,       \* each thread's position and operation
  obj, region,  \* the object it works on, and the region of the pointer
  g, got        \* the local gen, and the owner found

threadVars == <<pc, op, obj, region, g, got>>
vars == <<space, live, registry, gen, rcache, threadVars>>

Lines == 0..(RCACHE - 1)
Line(r) == r % RCACHE

Entries == [region : Regions, owner : Objects \cup {None}, gen : Nat]

Init ==
  /\ space = [r \in Regions |-> None]
  /\ live = {}
  /\ registry = [r \in Regions |-> None]
  /\ gen = 0
  /\ rcache = [t \in Threads |-> [l \in Lines |-> [region |-> 0, owner |-> None, gen |-> 0]]]
  /\ pc = [t \in Threads |-> "idle"]
  /\ op = [t \in Threads |-> "none"]
  /\ obj = [t \in Threads |-> None]
  /\ region = [t \in Threads |-> 0]
  /\ g = [t \in Threads |-> 0]
  /\ got = [t \in Threads |-> None]

-----------------------------------------------------------------------------
(* Mapping *)

\* mmap: the kernel gives the regions of o, which nothing occupies.
Map(t, o) ==
  /\ pc[t] = "idle"
  /\ \A r \in Reg(o) : space[r] = None
  /\ space' = [r \in Regions |-> IF r \in Reg(o) THEN o ELSE space[r]]
  /\ obj' = [obj EXCEPT ![t] = o]
  /\ pc' = [pc EXCEPT ![t] = IF o.kind = "foreign" THEN "mapped" ELSE "insert"]
  /\ UNCHANGED <<live, registry, gen, rcache, op, region, g, got>>

\* btm_registry_insert.  Nobody else has a pointer into o yet.
Insert(t) ==
  /\ pc[t] = "insert"
  /\ registry' = [r \in Regions |-> IF r \in Reg(obj[t]) THEN obj[t] ELSE registry[r]]
  /\ pc' = [pc EXCEPT ![t] = "mapped"]
  /\ UNCHANGED <<space, live, gen, rcache, op, obj, region, g, got>>

\* The program has the object.
Mapped(t) ==
  /\ pc[t] = "mapped"
  /\ live' = live \cup {obj[t]}
  /\ obj' = [obj EXCEPT ![t] = None]
  /\ pc' = [pc EXCEPT ![t] = "idle"]
  /\ UNCHANGED <<space, registry, gen, rcache, op, region, g, got>>

-----------------------------------------------------------------------------
(* btm_resolve_owner, in btm_free, btm_realloc and btm_malloc_usable_size *)

InUse == {obj[t] : t \in Threads}

\* Threads on their way to bumping the generation.
Removing == {t \in Threads : pc[t] # "idle" /\ op[t] = "remove"}

\* A call on a pointer into region r of o.  "use": the call leaves the object
\* where it is (a slot of a chunk, a foreign pointer, a size query).  "remove":
\* the object goes.  A call that frees a large object resolves it; a chunk that
\* is trimmed is known to the caller.
Call(t, o, r, what) ==
  /\ pc[t] = "idle"
  /\ o \in live
  /\ \/ what = "use" /\ UNCHANGED live
     \/ /\ what = "remove" /\ o.kind # "foreign"
        /\ o \notin InUse
        /\ gen + Cardinality(Removing) < MaxGen
        /\ live' = live \ {o}
  /\ op' = [op EXCEPT ![t] = what]
  /\ obj' = [obj EXCEPT ![t] = o]
  /\ region' = [region EXCEPT ![t] = r]
  /\ pc' = [pc EXCEPT ![t] = IF what = "remove" /\ o.kind = "chunk" THEN "clear" ELSE "cache"]
  /\ UNCHANGED <<space, registry, gen, rcache, g, got>>

\* Mutant: the generation is not compared.
CacheMutant(t) ==
  LET e == rcache[t][Line(region[t])] IN
  /\ pc[t] = "cache"
  /\ g' = [g EXCEPT ![t] = gen]
  /\ IF e.region = region[t] /\ e.owner # None
     THEN /\ got' = [got EXCEPT ![t] = e.owner]
          /\ pc' = [pc EXCEPT ![t] = "got"]
     ELSE /\ pc' = [pc EXCEPT ![t] = "lookup"]
          /\ UNCHANGED got
  /\ UNCHANGED <<space, live, registry, gen, rcache, op, obj, region>>

\* Load the generation and try the cache line.
Cache(t) ==
  LET e == rcache[t][Line(region[t])] IN
  /\ pc[t] = "cache"
  /\ g' = [g EXCEPT ![t] = gen]
  /\ IF e.region = region[t] /\ e.gen = gen /\ e.owner # None
     THEN /\ got' = [got EXCEPT ![t] = e.owner]
          /\ pc' = [pc EXCEPT ![t] = "got"]
     ELSE /\ pc' = [pc EXCEPT ![t] = "lookup"]
          /\ UNCHANGED got
  /\ UNCHANGED <<space, live, registry, gen, rcache, op, obj, region>>

btm_registry_lookup(r) == registry[r]

\* A miss asks the registry and keeps what it found.
Lookup(t) ==
  LET owner == btm_registry_lookup(region[t]) IN
  /\ pc[t] = "lookup"
  /\ got' = [got EXCEPT ![t] = owner]
  /\ rcache' = IF owner # None
               THEN [rcache EXCEPT ![t][Line(region[t])] =
                       [region |-> region[t], owner |-> owner, gen |-> g[t]]]
               ELSE rcache
  /\ pc' = [pc EXCEPT ![t] = "got"]
  /\ UNCHANGED <<space, live, registry, gen, op, obj, region, g>>

\* A use is over, and so is the free of what is not ours; btm_large_free goes on.
Got(t) ==
  /\ pc[t] = "got"
  /\ IF op[t] = "remove" /\ got[t] # None
     THEN /\ pc' = [pc EXCEPT ![t] = "clear"]
          /\ obj' = [obj EXCEPT ![t] = got[t]]
     ELSE /\ pc' = [pc EXCEPT ![t] = "idle"]
          /\ obj' = [obj EXCEPT ![t] = None]
  /\ UNCHANGED <<space, live, registry, gen, rcache, op, region, g, got>>

-----------------------------------------------------------------------------
(* btm_registry_remove and munmap *)

\* Mutant: the last region is left out.
ClearMutant(t) ==
  /\ pc[t] = "clear"
  /\ registry' = [r \in Regions |->
                    IF r \in Reg(obj[t]) /\ r + 1 \in Reg(obj[t]) THEN None ELSE registry[r]]
  /\ pc' = [pc EXCEPT ![t] = "bump"]
  /\ UNCHANGED <<space, live, gen, rcache, op, obj, region, g, got>>

Clear(t) ==
  /\ pc[t] = "clear"
  /\ registry' = [r \in Regions |-> IF r \in Reg(obj[t]) THEN None ELSE registry[r]]
  /\ pc' = [pc EXCEPT ![t] = "bump"]
  /\ UNCHANGED <<space, live, gen, rcache, op, obj, region, g, got>>

Bump(t) ==
  /\ pc[t] = "bump"
  /\ gen' = gen + 1
  /\ pc' = [pc EXCEPT ![t] = "unmap"]
  /\ UNCHANGED <<space, live, registry, rcache, op, obj, region, g, got>>

Unmap(t) ==
  /\ pc[t] = "unmap"
  /\ space' = [r \in Regions |-> IF r \in Reg(obj[t]) THEN None ELSE space[r]]
  /\ obj' = [obj EXCEPT ![t] = None]
  /\ pc' = [pc EXCEPT ![t] = "idle"]
  /\ UNCHANGED <<live, registry, gen, rcache, op, region, g, got>>

\* The program unmaps a foreign object of its own.
ForeignUnmap(o) ==
  /\ o \in live /\ o.kind = "foreign" /\ o \notin InUse
  /\ live' = live \ {o}
  /\ space' = [r \in Regions |-> IF r \in Reg(o) THEN None ELSE space[r]]
  /\ UNCHANGED <<registry, gen, rcache, threadVars>>

Step(t) ==
  \/ Insert(t) \/ Mapped(t) \/ Cache(t) \/ Lookup(t) \/ Got(t)
  \/ Clear(t) \/ Bump(t) \/ Unmap(t)

Next ==
  \/ \E t \in Threads :
       \/ Step(t)
       \/ \E o \in Objects :
            \/ Map(t, o)
            \/ \E r \in Reg(o), what \in {"use", "remove"} : Call(t, o, r, what)
  \/ \E o \in Objects : ForeignUnmap(o)

Spec == Init /\ [][Next]_vars

-----------------------------------------------------------------------------
(* Properties *)

TypeOK ==
  /\ space \in [Regions -> Objects \cup {None}]
  /\ live \in SUBSET Objects
  /\ registry \in [Regions -> Objects \cup {None}]
  /\ gen \in Nat
  /\ rcache \in [Threads -> [Lines -> Entries]]
  /\ pc \in [Threads -> {"idle", "insert", "mapped", "cache", "lookup", "got",
                          "clear", "bump", "unmap"}]
  /\ op \in [Threads -> {"none", "use", "remove"}]
  /\ obj \in [Threads -> Objects \cup {None}]
  /\ region \in [Threads -> Regions]
  /\ g \in [Threads -> Nat]
  /\ got \in [Threads -> Objects \cup {None}]

\* Whatever a thread's region cache holds from earlier objects at the same
\* address, a call on one of our pointers finds the object's owner, and a call
\* on a foreign pointer finds none: "foreign frees are ignored" (internal.h:39).
ResolvedRight ==
  \A t \in Threads : pc[t] = "got" =>
    got[t] = IF obj[t].kind = "foreign" THEN None ELSE obj[t]

\* A registry entry never outlives the mapping of its object, so that the
\* header btm_free reads behind an owner word is there.
RegistryIsMapped ==
  \A r \in Regions : registry[r] # None => space[r] = registry[r]
=============================================================================
