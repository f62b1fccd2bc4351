-------------------------- MODULE OwnerCacheProofs --------------------------
(***************************************************************************)
(* Proofs about OwnerCache, for any number of threads, regions and cache   *)
(* lines.                                                                  *)
(***************************************************************************)
EXTENDS OwnerCache, TLAPS

\* An object's regions, wherever it is on its way, are mapped to it.
Occupies(o) == \A r \in Reg(o) : space[r] = o

\* Objects of ours are entered in the registry, foreign ones are not.
Entered(o) == \A r \in Reg(o) : registry[r] = IF o.kind = "foreign" THEN None ELSE o

\* Live objects are mapped and entered.
LiveInv == \A o \in live : Occupies(o) /\ Entered(o)

\* What each position of a thread says about the object it works on.
ThreadInv ==
  \A t \in Threads :
    /\ pc[t] = "idle" => obj[t] = None
    /\ pc[t] # "idle" => obj[t] \in Objects /\ Occupies(obj[t])
    /\ pc[t] \in {"insert", "bump", "unmap"} =>
         obj[t].kind # "foreign" /\ \A r \in Reg(obj[t]) : registry[r] = None
    /\ pc[t] \in {"mapped", "cache", "lookup", "got", "clear"} => Entered(obj[t])
    /\ pc[t] \in {"cache", "lookup", "got"} => region[t] \in Reg(obj[t])
    /\ pc[t] \in {"cache", "lookup", "got"} /\ op[t] = "use" => obj[t] \in live
    /\ pc[t] \in {"cache", "lookup", "got"} => op[t] \in {"use", "remove"}
    /\ pc[t] = "clear" => obj[t].kind # "foreign"
    /\ pc[t] \in {"cache", "lookup", "got"} /\ op[t] = "remove" => obj[t].kind # "foreign"
    /\ g[t] <= gen

\* A thread that maps or removes an object has it for itself.
Exclusive(t) == pc[t] # "idle" /\ ~(pc[t] \in {"cache", "lookup", "got"} /\ op[t] = "use")

ExclusiveInv ==
  \A t \in Threads : Exclusive(t) =>
    /\ obj[t] \notin live
    /\ \A u \in Threads : u # t => obj[u] # obj[t]

\* A cache line of the current generation is right: its region is mapped to its
\* owner, and no thread is past bumping the generation on the way to unmap it.
CacheInv ==
  \A t \in Threads : \A l \in Lines :
    LET e == rcache[t][l] IN
    /\ e.gen <= gen
    /\ e.owner # None /\ e.gen = gen =>
         /\ space[e.region] = e.owner
         /\ \A u \in Threads : pc[u] = "unmap" => e.region \notin Reg(obj[u])

\* No foreign object is in the registry or in a cache.
OursOnly ==
  /\ \A r \in Regions : registry[r] # None => registry[r].kind # "foreign"
  /\ \A t \in Threads : \A l \in Lines :
       rcache[t][l].owner # None => rcache[t][l].owner.kind # "foreign"

IInv ==
  /\ TypeOK /\ LiveInv /\ ThreadInv /\ ExclusiveInv /\ CacheInv /\ OursOnly
  /\ RegistryIsMapped /\ ResolvedRight

-----------------------------------------------------------------------------
\* An object covers its base and only regions of the address space, and None is
\* no object.
LEMMA ObjectShape ==
  ASSUME NEW o \in Objects
  PROVE  /\ o.base \in Reg(o) /\ Reg(o) \subseteq Regions
         /\ o.kind \in {"chunk", "large", "foreign"}
         /\ o # None
<1>1. /\ o.base \in Regions /\ o.len \in 1..MaxLen /\ o.base + o.len <= NRegions
      /\ o.kind \in {"chunk", "large", "foreign"}
  BY Zenon DEF Objects
<1>2. o.base \in Reg(o) /\ Reg(o) \subseteq Regions
  BY <1>1, CacheAssumption DEF Reg, Regions
<1>3. o \in [base : Nat, len : Nat, kind : {"chunk", "large", "foreign"}]
  BY CacheAssumption DEF Objects, Regions
<1> QED
  BY Zenon, <1>1, <1>2, <1>3, CacheAssumption

\* The cache line of a region exists.
LEMMA LineShape ==
  ASSUME NEW r \in Regions
  PROVE  Line(r) \in Lines
BY CacheAssumption DEF Line, Lines, Regions

\* The invariant holds initially: nothing is mapped, and no cache line is used.
LEMMA InitInv == Init => IInv
<1> SUFFICES ASSUME Init PROVE IInv
  BY Zenon
<1>1. TypeOK
  <2>1. 0 \in Regions
    BY CacheAssumption DEF Regions
  <2> QED
    BY Zenon, <2>1 DEF Init, TypeOK, Entries
<1>2. LiveInv /\ ThreadInv /\ ExclusiveInv /\ CacheInv /\ OursOnly
  BY DEF Init, LiveInv, ThreadInv, ExclusiveInv, Exclusive, CacheInv, OursOnly
<1>3. RegistryIsMapped /\ ResolvedRight
  BY Zenon DEF Init, RegistryIsMapped, ResolvedRight
<1> QED
  BY Zenon, <1>1, <1>2, <1>3 DEF IInv

\* Two objects that are both mapped have no region in common.
LEMMA Apart ==
  ASSUME NEW o \in Objects, NEW q \in Objects, Occupies(o), Occupies(q), o # q
  PROVE  \A r \in Reg(o) : r \notin Reg(q)
BY Zenon DEF Occupies

\* mmap gives regions that nothing occupies, so that no line and no entry knows
\* them.
LEMMA MapInv ==
  ASSUME IInv, NEW t \in Threads, NEW o \in Objects, Map(t, o)
  PROVE  IInv'
<1> USE DEF IInv
<1>0. o.base \in Reg(o) /\ Reg(o) \subseteq Regions /\ o # None
  BY Zenon, ObjectShape
<1>1. TypeOK'
  BY Zenon, <1>0 DEF TypeOK, Map
<1>2. \A r \in Reg(o) : registry[r] = None
  BY Zenon, <1>0 DEF Map, RegistryIsMapped, TypeOK
<1>3. \A q \in Objects : Occupies(q) => q # o /\ Occupies(q)'
  BY Zenon, <1>0, ObjectShape DEF Map, Occupies, TypeOK
<1>4. Occupies(o)'
  BY Zenon, <1>0 DEF Map, Occupies
<1>5. LiveInv'
  BY Zenon, <1>3 DEF LiveInv, TypeOK, Map, Entered
<1>6. ThreadInv'
  BY <1>2, <1>3, <1>4 DEF ThreadInv, TypeOK, Map, Entered
<1>7. ExclusiveInv'
  <2>1. o \notin live /\ \A u \in Threads : obj[u] # o
    BY Zenon, <1>0, <1>3 DEF LiveInv, ThreadInv, TypeOK
  <2> QED
    BY Zenon, <2>1 DEF ExclusiveInv, Exclusive, Map, TypeOK
<1>8. CacheInv'
  BY <1>0 DEF CacheInv, Map, TypeOK, Entries
<1>9. OursOnly' /\ RegistryIsMapped' /\ ResolvedRight'
  BY Zenon, <1>0, <1>2 DEF OursOnly, RegistryIsMapped, ResolvedRight, Map, TypeOK
<1> QED
  BY Zenon, <1>1, <1>5, <1>6, <1>7, <1>8, <1>9

\* The entries made are those of an object that only this thread knows.
LEMMA InsertInv ==
  ASSUME IInv, NEW t \in Threads, Insert(t)
  PROVE  IInv'
<1> USE DEF IInv
<1>0. PICK o \in Objects : o = obj[t]
  BY Zenon DEF ThreadInv, Insert
<1>1. /\ o.base \in Reg(o) /\ Reg(o) \subseteq Regions /\ o # None
      /\ Occupies(o) /\ o.kind # "foreign" /\ o \notin live
      /\ \A u \in Threads : u # t => obj[u] # o
  BY Zenon, <1>0, ObjectShape DEF ThreadInv, ExclusiveInv, Exclusive, Insert
<1>2. TypeOK'
  BY Zenon, <1>0 DEF TypeOK, Insert
<1>3. \A q \in Objects : Occupies(q) /\ q # o => \A r \in Reg(q) : registry'[r] = registry[r]
  BY Zenon, <1>0, <1>1, Apart, ObjectShape DEF Insert, TypeOK
<1>4. \A q \in Objects : Occupies(q) => Occupies(q)'
  BY Zenon DEF Insert, Occupies
<1>5. LiveInv'
  BY Zenon, <1>1, <1>3, <1>4 DEF LiveInv, TypeOK, Insert, Entered
<1>6. ThreadInv'
  <2>1. Entered(o)'
    BY Zenon, <1>0, <1>1 DEF Insert, Entered
  <2> SUFFICES ASSUME NEW u \in Threads PROVE ThreadInv!(u)'
    BY Zenon DEF ThreadInv
  <2>2. CASE u = t
    BY Zenon, <2>1, <2>2, <1>0, <1>1, <1>4 DEF ThreadInv, TypeOK, Insert
  <2>3. CASE u # t
    <3>1. /\ pc'[u] = pc[u] /\ obj'[u] = obj[u] /\ op'[u] = op[u] /\ region'[u] = region[u]
          /\ g'[u] = g[u] /\ gen' = gen /\ live' = live
      BY Zenon, <2>3 DEF Insert, TypeOK
    <3>2. pc[u] # "idle" =>
            /\ obj[u] \in Objects /\ Occupies(obj[u])
            /\ \A r \in Reg(obj[u]) : registry'[r] = registry[r]
      BY Zenon, <2>3, <1>1, <1>3 DEF ThreadInv
    <3>3. pc[u] # "idle" => Occupies(obj[u])' /\ (Entered(obj[u]) => Entered(obj[u])')
      BY Zenon, <3>1, <3>2 DEF Entered, Occupies, Insert
    <3> QED
      BY Zenon, <3>1, <3>2, <3>3 DEF ThreadInv
  <2> QED
    BY Zenon, <2>2, <2>3
<1>7. ExclusiveInv'
  BY Zenon DEF ExclusiveInv, Exclusive, Insert, TypeOK
<1>8. CacheInv'
  BY Zenon DEF CacheInv, Insert, TypeOK
<1>9. OursOnly' /\ RegistryIsMapped' /\ ResolvedRight'
  BY Zenon, <1>0, <1>1 DEF OursOnly, RegistryIsMapped, ResolvedRight, Insert, TypeOK, Occupies
<1> QED
  BY Zenon, <1>2, <1>5, <1>6, <1>7, <1>8, <1>9

\* Handing the object to the program changes nothing it rests on.
LEMMA MappedInv ==
  ASSUME IInv, NEW t \in Threads, Mapped(t)
  PROVE  IInv'
<1> USE DEF IInv
<1>0. PICK o \in Objects : o = obj[t]
  BY Zenon DEF ThreadInv, Mapped
<1>1. /\ Occupies(o) /\ Entered(o)
      /\ \A u \in Threads : u # t => obj[u] # o
  BY Zenon, <1>0 DEF ThreadInv, ExclusiveInv, Exclusive, Mapped
<1>2. \A q \in Objects : (Occupies(q) => Occupies(q)') /\ (Entered(q) => Entered(q)')
  BY Zenon DEF Mapped, Occupies, Entered
<1>3. TypeOK'
  BY Zenon, <1>0 DEF TypeOK, Mapped
<1>4. LiveInv'
  BY Zenon, <1>0, <1>1, <1>2 DEF LiveInv, TypeOK, Mapped
<1>5. ThreadInv'
  BY Zenon, <1>2 DEF ThreadInv, TypeOK, Mapped
<1>6. ExclusiveInv'
  BY <1>0, <1>1, ObjectShape DEF ExclusiveInv, Exclusive, Mapped, TypeOK, ThreadInv
<1>7. CacheInv' /\ OursOnly' /\ RegistryIsMapped' /\ ResolvedRight'
  BY ZenonT(40) DEF CacheInv, OursOnly, RegistryIsMapped, ResolvedRight, Mapped, TypeOK
<1> QED
  BY Zenon, <1>3, <1>4, <1>5, <1>6, <1>7

\* A call may name a live object; a call that removes it takes it out of reach.
LEMMA CallInv ==
  ASSUME IInv, NEW t \in Threads, NEW o \in Objects, NEW r \in Reg(o),
         NEW what \in {"use", "remove"}, Call(t, o, r, what)
  PROVE  IInv'
<1> USE DEF IInv
<1>0. /\ o.base \in Reg(o) /\ Reg(o) \subseteq Regions /\ o # None
      /\ o \in live /\ Occupies(o) /\ Entered(o)
      /\ live' \subseteq live
  BY Zenon, ObjectShape DEF LiveInv, Call
<1>1. TypeOK'
  BY Zenon, <1>0 DEF TypeOK, Call
<1>2. \A q \in Objects : (Occupies(q) => Occupies(q)') /\ (Entered(q) => Entered(q)')
  BY Zenon DEF Call, Occupies, Entered
<1>3. LiveInv'
  BY Zenon, <1>0, <1>2 DEF LiveInv, TypeOK
<1>4. what = "remove" => o.kind # "foreign" /\ \A u \in Threads : obj[u] # o
  BY Zenon DEF Call, InUse
<1>5. what = "use" => live' = live
  BY Zenon DEF Call
<1>6. \A u \in Threads : u # t /\ obj[u] \in live => obj[u] \in live'
  BY Zenon, <1>4, <1>5 DEF Call
<1>7. ThreadInv'
  <2> SUFFICES ASSUME NEW u \in Threads PROVE ThreadInv!(u)'
    BY Zenon DEF ThreadInv
  <2>1. CASE u = t
    BY Zenon, <2>1, <1>0, <1>2, <1>4, <1>5 DEF ThreadInv, TypeOK, Call
  <2>2. CASE u # t
    BY Zenon, <2>2, <1>2, <1>6 DEF ThreadInv, TypeOK, Call
  <2> QED
    BY Zenon, <2>1, <2>2
<1>8. ExclusiveInv'
  <2> SUFFICES ASSUME NEW u \in Threads, Exclusive(u)' PROVE ExclusiveInv!(u)!2'
    BY Zenon DEF ExclusiveInv
  <2>1. CASE u = t
    <3>1. what = "remove"
      BY Zenon, <2>1 DEF Exclusive, Call, TypeOK
    <3>2. o \notin live'
      BY Zenon, <3>1 DEF Call
    <3> QED
      BY Zenon, <2>1, <3>1, <3>2, <1>4 DEF Call, TypeOK
  <2>2. CASE u # t
    <3>1. Exclusive(u)
      BY Zenon, <2>2 DEF Exclusive, Call, TypeOK
    <3> QED
      BY Zenon, <2>2, <3>1, <1>0 DEF ExclusiveInv, Call, TypeOK
  <2> QED
    BY Zenon, <2>1, <2>2
<1>9. CacheInv' /\ OursOnly' /\ RegistryIsMapped' /\ ResolvedRight'
  BY DEF CacheInv, OursOnly, RegistryIsMapped, ResolvedRight, Call, TypeOK
<1> QED
  BY Zenon, <1>1, <1>3, <1>7, <1>8, <1>9

\* A line that is believed is of the current generation, hence right.
LEMMA CacheStepInv ==
  ASSUME IInv, NEW t \in Threads, Cache(t)
  PROVE  IInv'
<1> USE DEF IInv
<1>0. PICK o \in Objects : o = obj[t]
  BY Zenon DEF ThreadInv, Cache
<1>1. region[t] \in Reg(o) /\ Occupies(o) /\ region[t] \in Regions
  BY Zenon, <1>0 DEF ThreadInv, Cache, TypeOK
<1>2. Line(region[t]) \in Lines
  BY Zenon, <1>1, LineShape
<1>3. rcache[t][Line(region[t])] \in Entries
  BY Zenon, <1>2 DEF TypeOK
<1>4. TypeOK'
  BY Zenon, <1>3 DEF TypeOK, Cache, Entries
<1>5. \A q \in Objects : (Occupies(q) => Occupies(q)') /\ (Entered(q) => Entered(q)')
  BY Zenon DEF Cache, Occupies, Entered
<1>6. LiveInv'
  BY Zenon, <1>5 DEF LiveInv, TypeOK, Cache
<1>7. pc' = [pc EXCEPT ![t] = "got"] \/ pc' = [pc EXCEPT ![t] = "lookup"]
  BY Zenon DEF Cache
<1>8. ThreadInv'
  BY <1>5, <1>7 DEF ThreadInv, TypeOK, Cache
<1>9. ExclusiveInv'
  BY Zenon, <1>7 DEF ExclusiveInv, Exclusive, TypeOK, Cache
<1>10. CacheInv' /\ OursOnly' /\ RegistryIsMapped'
  BY <1>7 DEF CacheInv, OursOnly, RegistryIsMapped, Cache, TypeOK
<1>11. ResolvedRight'
  <2>1. pc'[t] = "got" => got'[t] = o /\ o.kind # "foreign"
    BY <1>0, <1>1, <1>2 DEF Cache, CacheInv, OursOnly, Occupies, TypeOK
  <2> QED
    BY Zenon, <2>1, <1>0, <1>7 DEF ResolvedRight, Cache, TypeOK
<1> QED
  BY Zenon, <1>4, <1>6, <1>8, <1>9, <1>10, <1>11

\* A miss finds the owner in the registry, and what it puts in the cache is right
\* when the generation it loaded is still the current one.
LEMMA LookupInv ==
  ASSUME IInv, NEW t \in Threads, Lookup(t)
  PROVE  IInv'
<1> USE DEF IInv
<1>0. PICK o \in Objects : o = obj[t]
  BY Zenon DEF ThreadInv, Lookup
<1>1. /\ region[t] \in Reg(o) /\ Occupies(o) /\ Entered(o) /\ region[t] \in Regions
      /\ g[t] <= gen /\ g[t] \in Nat
  BY Zenon, <1>0 DEF ThreadInv, Lookup, TypeOK
<1>2. Line(region[t]) \in Lines
  BY Zenon, <1>1, LineShape
<1>3. registry[region[t]] = IF o.kind = "foreign" THEN None ELSE o
  BY Zenon, <1>1 DEF Entered
<1> DEFINE new == [region |-> region[t], owner |-> o, gen |-> g[t]]
<1>4. new \in Entries
  BY Zenon, <1>1 DEF Entries
<1>5. \/ rcache' = rcache
      \/ /\ rcache' = [rcache EXCEPT ![t][Line(region[t])] = new]
         /\ o.kind # "foreign"
  BY Zenon, <1>3 DEF Lookup, btm_registry_lookup
<1> HIDE DEF new
<1>6. /\ pc' = [pc EXCEPT ![t] = "got"]
      /\ got' = [got EXCEPT ![t] = IF o.kind = "foreign" THEN None ELSE o]
      /\ UNCHANGED <<space, live, registry, gen, op, obj, region, g>>
  BY Zenon, <1>3 DEF Lookup, btm_registry_lookup
<1>7. rcache' \in [Threads -> [Lines -> Entries]]
  <2> DEFINE row == [rcache[t] EXCEPT ![Line(region[t])] = new]
  <2>1. rcache \in [Threads -> [Lines -> Entries]]
    BY Zenon DEF TypeOK
  <2>2. row \in [Lines -> Entries]
    BY Zenon, <2>1, <1>2, <1>4
  <2>3. rcache' = rcache \/ rcache' = [rcache EXCEPT ![t] = row]
    BY Zenon, <1>5
  <2> QED
    BY Zenon, <2>1, <2>2, <2>3
<1>8. TypeOK'
  BY Zenon, <1>6, <1>7 DEF TypeOK
<1>9. \A q \in Objects : (Occupies(q) => Occupies(q)') /\ (Entered(q) => Entered(q)')
  BY Zenon, <1>6 DEF Occupies, Entered
<1>10. LiveInv'
  BY Zenon, <1>6, <1>9 DEF LiveInv, TypeOK
<1>11. ThreadInv'
  <2> SUFFICES ASSUME NEW u \in Threads PROVE ThreadInv!(u)'
    BY DEF ThreadInv
  <2>1. \/ pc'[u] = pc[u]
        \/ u = t /\ pc[u] = "lookup" /\ pc'[u] = "got"
    BY Zenon, <1>6 DEF Lookup, TypeOK
  <2> QED
    BY Zenon, <2>1, <1>6, <1>9 DEF ThreadInv
<1>12. ExclusiveInv' /\ RegistryIsMapped'
  BY <1>6 DEF ExclusiveInv, Exclusive, RegistryIsMapped, TypeOK, Lookup
<1>13. ResolvedRight'
  BY Zenon, <1>0, <1>6 DEF ResolvedRight, TypeOK
<1>14. \A u \in Threads : \A l \in Lines :
         \/ rcache'[u][l] = rcache[u][l]
         \/ rcache'[u][l] = new /\ o.kind # "foreign"
  BY <1>2, <1>5 DEF TypeOK
<1>15. /\ new.gen <= gen /\ new.owner = o /\ space[new.region] = o
       /\ o.kind # "foreign" => registry[new.region] # None
  BY Zenon, <1>1, <1>3, ObjectShape DEF new, Occupies
<1>16. \A u \in Threads : o.kind # "foreign" /\ pc'[u] = "unmap" => new.region \notin Reg(obj[u])
  <2> SUFFICES ASSUME NEW u \in Threads, o.kind # "foreign", pc'[u] = "unmap"
               PROVE  new.region \notin Reg(obj[u])
    BY Zenon
  <2>1. pc[u] = "unmap"
    BY Zenon, <1>6 DEF TypeOK
  <2> QED
    BY Zenon, <2>1, <1>15 DEF ThreadInv
<1>17. \A u \in Threads : pc'[u] = "unmap" => pc[u] = "unmap"
  BY Zenon, <1>6 DEF TypeOK
<1>18. CacheInv'
  <2> SUFFICES ASSUME NEW u \in Threads, NEW l \in Lines
               PROVE  CacheInv!(u)!(l)'
    BY Zenon DEF CacheInv
  <2>1. CASE rcache'[u][l] = rcache[u][l]
    BY Zenon, <2>1, <1>6, <1>17 DEF CacheInv
  <2>2. CASE rcache'[u][l] = new /\ o.kind # "foreign"
    BY Zenon, <2>2, <1>6, <1>15, <1>16
  <2> QED
    BY Zenon, <2>1, <2>2, <1>14
<1>19. OursOnly'
  BY Zenon, <1>6, <1>14, <1>15 DEF OursOnly
<1> QED
  BY Zenon, <1>8, <1>10, <1>11, <1>12, <1>13, <1>18, <1>19

\* btm_free goes on with the object it was called for.
LEMMA GotInv ==
  ASSUME IInv, NEW t \in Threads, Got(t)
  PROVE  IInv'
<1> USE DEF IInv
<1>0. PICK o \in Objects : o = obj[t]
  BY Zenon DEF ThreadInv, Got
<1>1. \/ /\ op[t] = "remove" /\ o.kind # "foreign"
         /\ pc' = [pc EXCEPT ![t] = "clear"] /\ obj' = obj
      \/ /\ op[t] = "use"
         /\ pc' = [pc EXCEPT ![t] = "idle"]
         /\ obj' = [obj EXCEPT ![t] = None]
  <2>1. op[t] \in {"use", "remove"}
    BY Zenon DEF ThreadInv, Got
  <2>2. CASE op[t] = "remove"
    <3>1. o.kind # "foreign" /\ got[t] = o /\ o # None
      BY Zenon, <2>2, <1>0, ObjectShape DEF ThreadInv, ResolvedRight, Got
    <3>2. [obj EXCEPT ![t] = o] = obj
      BY Zenon, <1>0 DEF TypeOK
    <3> QED
      BY Zenon, <2>2, <3>1, <3>2 DEF Got
  <2>3. CASE op[t] = "use"
    BY Zenon, <2>3 DEF Got
  <2> QED
    BY Zenon, <2>1, <2>2, <2>3
<1>2. UNCHANGED <<space, live, registry, gen, rcache, op, region, g, got>>
  BY Zenon DEF Got
<1>3. TypeOK'
  BY Zenon, <1>1, <1>2 DEF TypeOK
<1>4. \A q \in Objects : (Occupies(q) => Occupies(q)') /\ (Entered(q) => Entered(q)')
  BY Zenon, <1>2 DEF Occupies, Entered
<1>5. LiveInv' /\ OursOnly' /\ RegistryIsMapped'
  BY Zenon, <1>2, <1>4 DEF LiveInv, OursOnly, RegistryIsMapped, TypeOK
<1>6. ThreadInv'
  <2> SUFFICES ASSUME NEW u \in Threads PROVE ThreadInv!(u)'
    BY DEF ThreadInv
  <2>1. CASE u = t
    BY Zenon, <2>1, <1>0, <1>1, <1>2, <1>4 DEF ThreadInv, TypeOK, Got
  <2>2. CASE u # t
    <3>1. pc'[u] = pc[u] /\ obj'[u] = obj[u]
      BY Zenon, <2>2, <1>1 DEF TypeOK
    <3> QED
      BY Zenon, <3>1, <1>2, <1>4 DEF ThreadInv
  <2> QED
    BY <2>1, <2>2
<1>7. \A u \in Threads : Exclusive(u)' => Exclusive(u) /\ obj'[u] = obj[u]
  BY Zenon, <1>1, <1>2 DEF Exclusive, TypeOK, Got
<1>8. \A u \in Threads : obj'[u] = obj[u] \/ obj'[u] = None
  BY Zenon, <1>1 DEF TypeOK
<1>9. \A u \in Threads : Exclusive(u) => obj[u] \in Objects
  BY Zenon DEF Exclusive, ThreadInv
<1>10. ExclusiveInv'
  BY Zenon, <1>2, <1>7, <1>8, <1>9, ObjectShape DEF ExclusiveInv
<1>11. \A u \in Threads : pc'[u] = "unmap" => pc[u] = "unmap" /\ obj'[u] = obj[u]
  BY Zenon, <1>1 DEF TypeOK, Got
<1>12. CacheInv'
  BY Zenon, <1>2, <1>11 DEF CacheInv
<1>13. ResolvedRight'
  BY Zenon, <1>1, <1>2 DEF ResolvedRight, TypeOK
<1> QED
  BY Zenon, <1>3, <1>5, <1>6, <1>10, <1>12, <1>13

\* btm_registry_remove empties the entries of an object that only this thread
\* knows.
LEMMA ClearInv ==
  ASSUME IInv, NEW t \in Threads, Clear(t)
  PROVE  IInv'
<1> USE DEF IInv
<1>0. PICK o \in Objects : o = obj[t]
  BY Zenon DEF ThreadInv, Clear
<1>1. /\ Reg(o) \subseteq Regions
      /\ Occupies(o) /\ o.kind # "foreign" /\ o \notin live
      /\ \A u \in Threads : u # t => obj[u] # o
  BY Zenon, <1>0, ObjectShape DEF ThreadInv, ExclusiveInv, Exclusive, Clear
<1>2. TypeOK'
  BY Zenon, <1>0 DEF TypeOK, Clear
<1>3. \A q \in Objects : Occupies(q) /\ q # o => \A r \in Reg(q) : registry'[r] = registry[r]
  BY Zenon, <1>0, <1>1, Apart, ObjectShape DEF Clear, TypeOK
<1>4. \A q \in Objects : Occupies(q) => Occupies(q)'
  BY Zenon DEF Clear, Occupies
<1>5. LiveInv'
  BY Zenon, <1>1, <1>3, <1>4 DEF LiveInv, TypeOK, Clear, Entered
<1>6. ThreadInv'
  <2>1. \A r \in Reg(o) : registry'[r] = None
    BY Zenon, <1>0, <1>1 DEF Clear
  <2> SUFFICES ASSUME NEW u \in Threads PROVE ThreadInv!(u)'
    BY DEF ThreadInv
  <2>2. CASE u = t
    BY Zenon, <2>1, <2>2, <1>0, <1>1, <1>4 DEF ThreadInv, TypeOK, Clear
  <2>3. CASE u # t
    <3>1. /\ pc'[u] = pc[u] /\ obj'[u] = obj[u] /\ op'[u] = op[u] /\ region'[u] = region[u]
          /\ g'[u] = g[u] /\ gen' = gen /\ live' = live
      BY Zenon, <2>3 DEF Clear, TypeOK
    <3>2. pc[u] # "idle" =>
            /\ obj[u] \in Objects /\ Occupies(obj[u])
            /\ \A r \in Reg(obj[u]) : registry'[r] = registry[r]
      BY Zenon, <2>3, <1>1, <1>3 DEF ThreadInv
    <3>3. pc[u] # "idle" => Occupies(obj[u])' /\ (Entered(obj[u]) => Entered(obj[u])')
      BY Zenon, <3>1, <3>2 DEF Entered, Occupies, Clear
    <3> QED
      BY <3>1, <3>2, <3>3 DEF ThreadInv
  <2> QED
    BY <2>2, <2>3
<1>7. ExclusiveInv'
  BY Zenon DEF ExclusiveInv, Exclusive, Clear, TypeOK
<1>8. CacheInv'
  BY Zenon DEF CacheInv, Clear, TypeOK
<1>9. OursOnly' /\ RegistryIsMapped' /\ ResolvedRight'
  BY Zenon DEF OursOnly, RegistryIsMapped, ResolvedRight, Clear, TypeOK
<1> QED
  BY <1>2, <1>5, <1>6, <1>7, <1>8, <1>9

\* Bumping the generation makes every line of every thread old.
LEMMA BumpInv ==
  ASSUME IInv, NEW t \in Threads, Bump(t)
  PROVE  IInv'
<1> USE DEF IInv
<1>1. TypeOK'
  BY DEF TypeOK, Bump
<1>2. \A q \in Objects : (Occupies(q) => Occupies(q)') /\ (Entered(q) => Entered(q)')
  BY Zenon DEF Bump, Occupies, Entered
<1>3. LiveInv'
  BY Zenon, <1>2 DEF LiveInv, TypeOK, Bump
<1>4. ThreadInv'
  <2> SUFFICES ASSUME NEW u \in Threads PROVE ThreadInv!(u)'
    BY Zenon DEF ThreadInv
  <2>1. g'[u] <= gen'
    BY DEF ThreadInv, TypeOK, Bump
  <2>2. \/ pc'[u] = pc[u]
        \/ u = t /\ pc[u] = "bump" /\ pc'[u] = "unmap"
    BY Zenon DEF Bump, TypeOK
  <2> QED
    BY Zenon, <2>1, <2>2, <1>2 DEF ThreadInv, Bump
<1>5. ExclusiveInv' /\ OursOnly' /\ RegistryIsMapped' /\ ResolvedRight'
  BY Zenon DEF ExclusiveInv, Exclusive, OursOnly, RegistryIsMapped, ResolvedRight, Bump, TypeOK
<1>6. \A u \in Threads : \A l \in Lines :
        rcache'[u][l].gen <= gen' /\ rcache'[u][l].gen # gen'
  BY DEF CacheInv, Bump, TypeOK, Entries
<1>7. CacheInv'
  BY Zenon, <1>6 DEF CacheInv
<1> QED
  BY Zenon, <1>1, <1>3, <1>4, <1>5, <1>7

\* What the unmapping of regions that only object o occupies, that have no entry
\* and are in no line of the current generation, leaves intact.
LEMMA Unmapped ==
  ASSUME IInv, NEW o \in Objects, Occupies(o),
         space' = [r \in Regions |-> IF r \in Reg(o) THEN None ELSE space[r]],
         registry' = registry, gen' = gen, rcache' = rcache,
         \A r \in Reg(o) : registry[r] = None,
         \A u \in Threads : \A l \in Lines :
           rcache[u][l].owner # None /\ rcache[u][l].gen = gen => rcache[u][l].region \notin Reg(o),
         \A u \in Threads : pc'[u] = "unmap" => pc[u] = "unmap" /\ obj'[u] = obj[u]
  PROVE  /\ \A q \in Objects : q # o /\ Occupies(q) => Occupies(q)'
         /\ CacheInv' /\ RegistryIsMapped'
<1>1. \A q \in Objects : q # o /\ Occupies(q) => Occupies(q)'
  BY Zenon, Apart, ObjectShape DEF Occupies
<1>2. \A u \in Threads : \A l \in Lines : rcache[u][l].region \in Regions
  BY DEF IInv, TypeOK, Entries
<1>3. CacheInv'
  BY Zenon, <1>2 DEF IInv, CacheInv
<1>4. RegistryIsMapped'
  BY Zenon DEF IInv, RegistryIsMapped
<1> QED
  BY Zenon, <1>1, <1>3, <1>4

\* munmap comes after the entries are gone and the lines are old.
LEMMA UnmapInv ==
  ASSUME IInv, NEW t \in Threads, Unmap(t)
  PROVE  IInv'
<1> USE DEF IInv
<1>0. PICK o \in Objects : o = obj[t]
  BY Zenon DEF ThreadInv, Unmap
<1>1. /\ Occupies(o) /\ o \notin live
      /\ \A r \in Reg(o) : registry[r] = None
      /\ \A u \in Threads : u # t => obj[u] # o
  BY Zenon, <1>0 DEF ThreadInv, ExclusiveInv, Exclusive, Unmap
<1>2. TypeOK'
  BY Zenon, <1>0 DEF TypeOK, Unmap
<1>3. \A u \in Threads : \A l \in Lines :
        rcache[u][l].owner # None /\ rcache[u][l].gen = gen => rcache[u][l].region \notin Reg(o)
  BY Zenon, <1>0 DEF CacheInv, Unmap
<1>4. \A u \in Threads : pc'[u] = "unmap" => pc[u] = "unmap" /\ obj'[u] = obj[u]
  BY Zenon DEF Unmap, TypeOK
<1>5. /\ \A q \in Objects : q # o /\ Occupies(q) => Occupies(q)'
      /\ CacheInv' /\ RegistryIsMapped'
  BY Zenon, <1>0, <1>1, <1>3, <1>4, Unmapped DEF Unmap
<1>6. LiveInv'
  BY Zenon, <1>1, <1>5 DEF LiveInv, TypeOK, Unmap, Entered
<1>7. ThreadInv'
  <2> SUFFICES ASSUME NEW u \in Threads PROVE ThreadInv!(u)'
    BY DEF ThreadInv
  <2>1. CASE u = t
    BY Zenon, <2>1 DEF ThreadInv, Unmap, TypeOK
  <2>2. CASE u # t
    <3>1. /\ pc'[u] = pc[u] /\ obj'[u] = obj[u]
          /\ UNCHANGED <<op, region, g, gen, live, registry>>
      BY Zenon, <2>2 DEF Unmap, TypeOK
    <3>2. pc[u] # "idle" => Occupies(obj[u])' /\ (Entered(obj[u]) => Entered(obj[u])')
      BY Zenon, <2>2, <3>1, <1>1, <1>5 DEF ThreadInv, Entered
    <3> QED
      BY Zenon, <3>1, <3>2 DEF ThreadInv
  <2> QED
    BY <2>1, <2>2
<1>8. ExclusiveInv'
  <2>1. \A u \in Threads : Exclusive(u)' => u # t /\ Exclusive(u) /\ obj[u] \in Objects
    BY Zenon DEF Exclusive, ThreadInv, Unmap, TypeOK
  <2> QED
    BY Zenon, <2>1, ObjectShape DEF ExclusiveInv, Unmap, TypeOK
<1>9. OursOnly' /\ ResolvedRight'
  BY Zenon DEF OursOnly, ResolvedRight, Unmap, TypeOK
<1> QED
  BY Zenon, <1>2, <1>5, <1>6, <1>7, <1>8, <1>9

\* A foreign object was never in the registry nor in a line.
LEMMA ForeignUnmapInv ==
  ASSUME IInv, NEW o \in Objects, ForeignUnmap(o)
  PROVE  IInv'
<1> USE DEF IInv
<1>1. /\ Occupies(o) /\ \A r \in Reg(o) : registry[r] = None
      /\ \A u \in Threads : obj[u] # o
      /\ live' = live \ {o}
  BY Zenon DEF LiveInv, Entered, ForeignUnmap, InUse
<1>2. UNCHANGED <<registry, gen, rcache, pc, op, obj, region, g, got>>
  BY Zenon DEF ForeignUnmap, threadVars
<1>3. TypeOK'
  BY Zenon, <1>1, <1>2 DEF TypeOK, ForeignUnmap
<1>4. \A u \in Threads : \A l \in Lines :
        rcache[u][l].owner # None /\ rcache[u][l].gen = gen => rcache[u][l].region \notin Reg(o)
  BY <1>1 DEF CacheInv, OursOnly, Occupies, ForeignUnmap
<1>5. /\ \A q \in Objects : q # o /\ Occupies(q) => Occupies(q)'
      /\ CacheInv' /\ RegistryIsMapped'
  BY Zenon, <1>1, <1>2, <1>4, Unmapped DEF ForeignUnmap
<1>6. LiveInv'
  BY Zenon, <1>1, <1>2, <1>5 DEF LiveInv, TypeOK, Entered
<1>7. ThreadInv'
  <2> SUFFICES ASSUME NEW u \in Threads PROVE ThreadInv!(u)'
    BY Zenon DEF ThreadInv
  <2>1. pc[u] # "idle" => Occupies(obj[u])' /\ (Entered(obj[u]) => Entered(obj[u])')
    BY Zenon, <1>1, <1>2, <1>5 DEF ThreadInv, Entered
  <2>2. obj[u] \in live => obj[u] \in live'
    BY Zenon, <1>1
  <2> QED
    BY Zenon, <2>1, <2>2, <1>2 DEF ThreadInv
<1>8. ExclusiveInv' /\ OursOnly' /\ ResolvedRight'
  BY Zenon, <1>1, <1>2 DEF ExclusiveInv, Exclusive, OursOnly, ResolvedRight
<1> QED
  BY Zenon, <1>3, <1>5, <1>6, <1>7, <1>8

-----------------------------------------------------------------------------
(* Theorems *)

\* Every step of mapping, looking up and unmapping preserves the invariant.
LEMMA NextInv == IInv /\ [Next]_vars => IInv'
<1> SUFFICES ASSUME IInv, [Next]_vars PROVE IInv'
  BY Zenon
<1>1. ASSUME NEW t \in Threads, Step(t) PROVE IInv'
  BY Zenon, <1>1, InsertInv, MappedInv, CacheStepInv, LookupInv, GotInv, ClearInv, BumpInv, UnmapInv
     DEF Step
<1>2. ASSUME NEW t \in Threads, NEW o \in Objects,
             \/ Map(t, o)
             \/ \E r \in Reg(o), what \in {"use", "remove"} : Call(t, o, r, what)
      PROVE  IInv'
  BY Zenon, <1>2, MapInv, CallInv
<1>3. ASSUME NEW o \in Objects, ForeignUnmap(o) PROVE IInv'
  BY Zenon, <1>3, ForeignUnmapInv
<1>4. CASE UNCHANGED vars
  BY <1>4 DEF vars, threadVars, IInv, TypeOK, LiveInv, ThreadInv, ExclusiveInv, Exclusive,
     CacheInv, OursOnly, RegistryIsMapped, ResolvedRight, Occupies, Entered
<1> QED
  BY Zenon, <1>1, <1>2, <1>3, <1>4 DEF Next

\* The inductive invariant of the region cache holds throughout.
THEOREM OwnerCacheInvariant == Spec => []IInv
<1>1. Init => IInv
  BY Zenon, InitInv
<1> QED
  BY <1>1, NextInv, PTL DEF Spec

\* Every call resolves its pointer to the right owner, for any number of threads,
\* regions and cache lines: btm_resolve_owner never believes a stale line.
THEOREM CacheNeverStale == Spec => []ResolvedRight
  BY OwnerCacheInvariant, PTL DEF IInv

\* No registry entry outlives its mapping, for any number of threads, regions and
\* cache lines: btm_registry_remove always comes before munmap.
THEOREM RegistryNeverDangles == Spec => []RegistryIsMapped
  BY OwnerCacheInvariant, PTL DEF IInv
=============================================================================
