---------------------------- MODULE RouteProofs -----------------------------
(***************************************************************************)
(* Proofs about the two halves of routing a request: Intern, for any       *)
(* number of threads and call sites, any table size and any hash, and      *)
(* SizeClass, with the real tables and any width of size_t.                *)
(***************************************************************************)
EXTENDS Intern, SizeClass, FiniteSetTheorems, TLAPS

-----------------------------------------------------------------------------
(* Interning *)

\* How many turns of the probe loop bring a lookup of k to slot s.
Off(k, s) == IF s >= bucket[k] THEN s - bucket[k] ELSE s - bucket[k] + Cap

\* The lock is held by the one thread that is publishing, whose slot is still
\* empty and whose id no entry has.
LockInv ==
  /\ \A t \in Threads : pc[t] = "publish" =>
       /\ intern_lock = t
       /\ tbl_ra[i[t]] = Null
       /\ \A s \in Used : tbl_id[s] # tbl_id[i[t]]
  /\ \A t \in Threads : pc[t] = "publish" => tbl_id[i[t]] < intern_next
  /\ \A s \in Used : tbl_id[s] < intern_next

\* A lookup under way has passed only slots taken by other sites.
PathInv ==
  \A t \in Threads : pc[t] # "idle" =>
    /\ key[t] \in Sites
    /\ Off(key[t], i[t]) = probe[t]
    /\ \A s \in Slots : Off(key[t], s) < probe[t] => tbl_ra[s] \notin {Null, key[t]}

\* All slots between the bucket of an entry and the entry are taken.
ChainInv ==
  \A s \in Used : \A r \in Slots :
    Off(tbl_ra[s], r) < Off(tbl_ra[s], s) => tbl_ra[r] # Null

\* A site was given the partition of its entry, or that of its hash when the
\* table was full without it.
Rightly(k, p) ==
  \/ \E s \in Slots : tbl_ra[s] = k /\ p = PartOf(tbl_id[s])
  \/ p = PartOf(bucket[k]) /\ \A s \in Slots : tbl_ra[s] \notin {Null, k}

GivenInv ==
  /\ \A k \in Sites : \A p \in given[k] : Rightly(k, p)
  /\ \A t \in Threads : tls_ra[t] # Null => tls_part[t] \in given[tls_ra[t]]

IInv == TypeOK /\ LockInv /\ PathInv /\ ChainInv /\ GivenInv /\ EntriesUnique

-----------------------------------------------------------------------------
\* A partition number is in range, and the first ids are their own partition.
LEMMA PartOfShape ==
  ASSUME NEW n \in Nat
  PROVE  PartOf(n) \in Parts /\ (n < NParts => PartOf(n) = n)
BY InternAssumption DEF PartOf, Parts

\* The probe loop visits every slot once.
LEMMA OffShape ==
  ASSUME NEW k \in Sites
  PROVE  /\ \A s \in Slots : Off(k, s) \in Slots
         /\ \A s, r \in Slots : Off(k, s) = Off(k, r) => s = r
         /\ bucket[k] \in Slots /\ Off(k, bucket[k]) = 0
         /\ \A s \in Slots : LET n == IF s + 1 = Cap THEN 0 ELSE s + 1 IN
              /\ n \in Slots
              /\ Off(k, s) + 1 < Cap => Off(k, n) = Off(k, s) + 1
<1> DEFINE b == bucket[k]
<1>1. b \in Slots
  BY Zenon, InternAssumption DEF Slots
<1> HIDE DEF b
<1> QED
  BY <1>1, InternAssumption DEF Slots, Off, b

\* Initially the table is empty and nothing was given.
LEMMA InitInv == Init => IInv
<1> SUFFICES ASSUME Init PROVE IInv
  BY Zenon
<1>1. 0 \in Slots /\ 0 \in Parts
  BY InternAssumption DEF Slots, Parts
<1>2. TypeOK
  BY <1>1 DEF Init, TypeOK
<1>3. Used = {}
  BY Zenon DEF Init, Used
<1>4. LockInv /\ PathInv /\ ChainInv /\ EntriesUnique
  BY Zenon, <1>3 DEF Init, LockInv, PathInv, ChainInv, EntriesUnique
<1>5. GivenInv
  BY Zenon DEF Init, GivenInv
<1> QED
  BY Zenon, <1>2, <1>4, <1>5 DEF IInv

\* A lookup that ends with a partition its site may be given leaves all else.
LEMMA DoneInv ==
  ASSUME IInv, NEW t \in Threads, pc[t] \in {"load", "claim"},
         NEW part \in Parts, Rightly(key[t], part),
         Done(t, part), UNCHANGED <<tblVars, intern_lock>>
  PROVE  IInv'
<1> USE DEF IInv
<1>0. /\ key[t] \in Sites /\ key[t] # Null /\ "idle" # "publish"
      /\ UNCHANGED <<tbl_ra, tbl_id, intern_next, intern_lock, key, i, probe>>
  BY Zenon, InternAssumption DEF PathInv, tblVars, Done
<1>1. TypeOK'
  BY Zenon, <1>0 DEF TypeOK, Done
<1>2. Used' = Used
  BY Zenon, <1>0 DEF Used
<1>3. LockInv'
  BY Zenon, <1>0, <1>2 DEF LockInv, Done, TypeOK
<1>4. PathInv'
  BY Zenon, <1>0 DEF PathInv, Done, TypeOK
<1>5. ChainInv' /\ EntriesUnique'
  BY Zenon, <1>0, <1>2 DEF ChainInv, EntriesUnique
<1>6. \A k, p : Rightly(k, p)' <=> Rightly(k, p)
  BY Zenon, <1>0 DEF Rightly
<1>7. GivenInv'
  BY Zenon, <1>0, <1>6 DEF GivenInv, Done, TypeOK
<1> QED
  BY Zenon, <1>1, <1>3, <1>4, <1>5, <1>7

\* Past a slot that another site has, the lookup goes on, or has seen them all.
LEMMA AdvanceInv ==
  ASSUME IInv, NEW t \in Threads, pc[t] \in {"load", "claim"},
         tbl_ra[i[t]] \notin {Null, key[t]},
         Advance(t), UNCHANGED <<tblVars, intern_lock>>
  PROVE  IInv'
<1> USE DEF IInv
<1> DEFINE k == key[t]
<1>0. /\ k \in Sites /\ i[t] \in Slots /\ probe[t] \in Slots
      /\ Off(k, i[t]) = probe[t]
      /\ \A s \in Slots : Off(k, s) < probe[t] => tbl_ra[s] \notin {Null, k}
  BY Zenon DEF PathInv, TypeOK
<1>1. \A s \in Slots : Off(k, s) < probe[t] + 1 => tbl_ra[s] \notin {Null, k}
  <2> TAKE s \in Slots
  <2>1. Off(k, s) \in Slots /\ (Off(k, s) = Off(k, i[t]) => s = i[t])
    BY Zenon, <1>0, OffShape
  <2>2. Off(k, s) < probe[t] + 1 => Off(k, s) < probe[t] \/ Off(k, s) = Off(k, i[t])
    BY <2>1, <1>0 DEF Slots
  <2> QED
    BY Zenon, <2>1, <2>2, <1>0
<1>2. CASE probe[t] + 1 < Cap
  <2> DEFINE n == IF i[t] + 1 = Cap THEN 0 ELSE i[t] + 1
  <2>0. /\ UNCHANGED <<tbl_ra, tbl_id, intern_next, intern_lock, key, tls_ra, tls_part, given>>
        /\ probe' = [probe EXCEPT ![t] = probe[t] + 1]
        /\ i' = [i EXCEPT ![t] = n]
        /\ pc' = [pc EXCEPT ![t] = "load"] /\ "load" # "publish"
    BY Zenon, <1>2 DEF Advance, tblVars, tlsVars
  <2>1. n \in Slots /\ Off(k, n) = probe[t] + 1
    <3>1. n \in Slots /\ (Off(k, i[t]) + 1 < Cap => Off(k, n) = Off(k, i[t]) + 1)
      BY Zenon, <1>0, OffShape
    <3> QED
      BY Zenon, <3>1, <1>0, <1>2
  <2>2. probe[t] + 1 \in Slots
    BY <1>0, <1>2, InternAssumption DEF Slots
  <2> HIDE DEF n
  <2>3. TypeOK'
    BY Zenon, <2>0, <2>1, <2>2 DEF TypeOK
  <2>4. Used' = Used
    BY Zenon, <2>0 DEF Used
  <2>5. LockInv'
    BY Zenon, <2>0, <2>4 DEF LockInv, TypeOK
  <2>6. PathInv'
    BY Zenon, <2>0, <2>1, <1>0, <1>1 DEF PathInv, TypeOK
  <2>7. ChainInv' /\ EntriesUnique'
    BY Zenon, <2>0, <2>4 DEF ChainInv, EntriesUnique
  <2>8. \A l, p : Rightly(l, p)' <=> Rightly(l, p)
    BY Zenon, <2>0 DEF Rightly
  <2>9. GivenInv'
    BY Zenon, <2>0, <2>8 DEF GivenInv
  <2> QED
    BY Zenon, <2>3, <2>5, <2>6, <2>7, <2>9
<1>3. CASE ~(probe[t] + 1 < Cap)
  <2>1. \A s \in Slots : Off(k, s) < probe[t] + 1
    <3> TAKE s \in Slots
    <3>1. Off(k, s) \in Slots
      BY Zenon, <1>0, OffShape
    <3> QED
      BY <3>1, <1>3, <1>0, InternAssumption DEF Slots
  <2>2. Rightly(k, PartOf(bucket[k]))
    BY Zenon, <2>1, <1>1 DEF Rightly
  <2>3. bucket[k] \in Nat
    BY <1>0, OffShape DEF Slots
  <2>4. PartOf(bucket[k]) \in Parts
    BY Zenon, <2>3, PartOfShape
  <2>5. Done(t, PartOf(bucket[k]))
    BY Zenon, <1>3 DEF Advance
  <2> QED
    BY Zenon, <2>2, <2>4, <2>5, DoneInv
<1> QED
  BY Zenon, <1>2, <1>3

\* A step that changes nothing preserves the invariant.
LEMMA StutterInv ==
  ASSUME IInv, UNCHANGED vars
  PROVE  IInv'
<1> USE DEF IInv
<1>1. UNCHANGED <<tbl_ra, tbl_id, intern_next, intern_lock, pc, key, i, probe, tls_ra, tls_part, given>>
  BY Zenon DEF vars, tblVars, callVars, tlsVars
<1>2. TypeOK' /\ Used' = Used
  BY Zenon, <1>1 DEF TypeOK, Used
<1>3. LockInv' /\ EntriesUnique'
  BY Zenon, <1>1, <1>2 DEF LockInv, EntriesUnique
<1>4. PathInv' /\ ChainInv'
  BY Zenon, <1>1, <1>2 DEF PathInv, ChainInv
<1>5. \A l, p : Rightly(l, p)' <=> Rightly(l, p)
  BY Zenon, <1>1 DEF Rightly
<1>6. GivenInv'
  BY Zenon, <1>1, <1>5 DEF GivenInv
<1> QED
  BY Zenon, <1>2, <1>3, <1>4, <1>6

\* The thread's own cache holds a partition that its site was given.
LEMMA HitInv ==
  ASSUME IInv, NEW t \in Threads, NEW k \in Sites, Hit(t, k)
  PROVE  IInv'
<1> USE DEF IInv
<1>0. tls_part[t] \in given[k] /\ k # Null
  BY Zenon, InternAssumption DEF GivenInv, Hit
<1>1. given' = given
  BY <1>0 DEF Hit, TypeOK
<1>2. UNCHANGED vars
  BY Zenon, <1>1 DEF Hit, vars, tblVars, callVars, tlsVars
<1> QED
  BY Zenon, <1>2, StutterInv

\* A lookup starts at its bucket, with nothing passed.
LEMMA MissInv ==
  ASSUME IInv, NEW t \in Threads, NEW k \in Sites, pc[t] = "idle", Miss(t, k)
  PROVE  IInv'
<1> USE DEF IInv
<1>0. /\ UNCHANGED <<tbl_ra, tbl_id, intern_next, intern_lock, tls_ra, tls_part, given>>
      /\ "load" # "publish" /\ "load" # "idle" /\ 0 \in Slots
      /\ bucket[k] \in Slots /\ Off(k, bucket[k]) = 0
  <2>1. 0 \in Slots
    BY InternAssumption DEF Slots
  <2> QED
    BY Zenon, <2>1, OffShape DEF Miss, tblVars, tlsVars
<1>1. TypeOK'
  BY Zenon, <1>0 DEF TypeOK, Miss
<1>2. Used' = Used
  BY Zenon, <1>0 DEF Used
<1>3. LockInv'
  BY Zenon, <1>0, <1>2 DEF LockInv, Miss, TypeOK
<1>4. \A s \in Slots : ~(Off(k, s) < 0)
  <2> TAKE s \in Slots
  <2>1. Off(k, s) \in Slots
    BY Zenon, OffShape
  <2> QED
    BY <2>1 DEF Slots
<1>5. PathInv'
  BY Zenon, <1>0, <1>4 DEF PathInv, Miss, TypeOK
<1>6. ChainInv' /\ EntriesUnique'
  BY Zenon, <1>0, <1>2 DEF ChainInv, EntriesUnique
<1>7. \A l, p : Rightly(l, p)' <=> Rightly(l, p)
  BY Zenon, <1>0 DEF Rightly
<1>8. GivenInv'
  BY Zenon, <1>0, <1>7 DEF GivenInv
<1> QED
  BY Zenon, <1>1, <1>3, <1>5, <1>6, <1>8

\* A lock-free read ends the lookup, sends it on, or finds the slot empty.
LEMMA LoadInv ==
  ASSUME IInv, NEW t \in Threads, Load(t)
  PROVE  IInv'
<1> USE DEF IInv
<1>0. /\ pc[t] = "load" /\ i[t] \in Slots /\ tbl_id[i[t]] \in Nat
      /\ UNCHANGED <<tblVars, intern_lock>>
  BY Zenon DEF Load, TypeOK
<1>1. CASE tbl_ra[i[t]] = key[t]
  <2>1. Rightly(key[t], PartOf(tbl_id[i[t]])) /\ PartOf(tbl_id[i[t]]) \in Parts
    BY Zenon, <1>0, <1>1, PartOfShape DEF Rightly
  <2>2. Done(t, PartOf(tbl_id[i[t]]))
    BY <1>1, InternAssumption DEF Load, PathInv
  <2> QED
    BY Zenon, <2>1, <2>2, <1>0, DoneInv
<1>2. CASE tbl_ra[i[t]] = Null
  <2>1. key[t] \in Sites /\ key[t] # Null
    BY Zenon, <1>0, InternAssumption DEF PathInv
  <2>2. /\ UNCHANGED <<tbl_ra, tbl_id, intern_next, intern_lock, key, i, probe, tls_ra, tls_part, given>>
        /\ pc' = [pc EXCEPT ![t] = "claim"]
    BY <1>2, <2>1 DEF Load, tblVars, tlsVars
  <2>3. "claim" # "publish" /\ "load" # "idle"
    BY Zenon
  <2>4. TypeOK'
    BY Zenon, <2>2 DEF TypeOK
  <2>5. Used' = Used
    BY Zenon, <2>2 DEF Used
  <2>6. LockInv'
    BY Zenon, <2>2, <2>3, <2>5 DEF LockInv, TypeOK
  <2>7. PathInv'
    BY Zenon, <1>0, <2>2, <2>3 DEF PathInv, TypeOK
  <2>8. ChainInv' /\ EntriesUnique'
    BY Zenon, <2>2, <2>5 DEF ChainInv, EntriesUnique
  <2>9. \A l, p : Rightly(l, p)' <=> Rightly(l, p)
    BY Zenon, <2>2 DEF Rightly
  <2>10. GivenInv'
    BY Zenon, <2>2, <2>9 DEF GivenInv
  <2> QED
    BY Zenon, <2>4, <2>6, <2>7, <2>8, <2>10
<1>3. CASE tbl_ra[i[t]] \notin {Null, key[t]}
  <2>1. Advance(t)
    BY <1>3 DEF Load
  <2> QED
    BY Zenon, <2>1, <1>0, <1>3, AdvanceInv
<1> QED
  BY Zenon, <1>1, <1>2, <1>3

\* Under the lock, the slot is still empty and gets an id that no entry has;
\* or it was taken meanwhile, and the lookup ends or goes on.
LEMMA ClaimInv ==
  ASSUME IInv, NEW t \in Threads, Claim(t)
  PROVE  IInv'
<1> USE DEF IInv
<1>0. /\ pc[t] = "claim" /\ i[t] \in Slots /\ tbl_id[i[t]] \in Nat
      /\ intern_lock = NoThread /\ NoThread \notin Threads
  BY Zenon, InternAssumption DEF Claim, TypeOK
<1>1. CASE /\ tbl_ra[i[t]] = Null
           /\ intern_lock' = t
           /\ intern_next' = intern_next + 1
           /\ tbl_id' = [tbl_id EXCEPT ![i[t]] = intern_next]
           /\ pc' = [pc EXCEPT ![t] = "publish"]
           /\ UNCHANGED <<tbl_ra, key, i, probe, tlsVars>>
  <2>0. /\ intern_next \in Nat /\ intern_next + 1 \in Nat
        /\ \A n \in Nat : n < intern_next => n < intern_next + 1 /\ n # intern_next
        /\ intern_next < intern_next + 1
        /\ UNCHANGED <<tls_ra, tls_part, given>>
    BY <1>1 DEF TypeOK, tlsVars
  <2>1. TypeOK'
    BY Zenon, <1>0, <1>1, <2>0 DEF TypeOK
  <2>2. Used' = Used /\ \A s \in Used : s \in Slots /\ s # i[t] /\ tbl_id'[s] = tbl_id[s]
    BY Zenon, <1>1 DEF Used, TypeOK
  <2>3. \A u \in Threads : pc[u] # "publish"
    BY Zenon, <1>0 DEF LockInv
  <2>4. \A u \in Threads : pc'[u] = "publish" => u = t
    BY Zenon, <1>1, <2>3 DEF TypeOK
  <2>5. tbl_id'[i'[t]] = intern_next /\ i'[t] = i[t]
    BY Zenon, <1>0, <1>1 DEF TypeOK
  <2>6. LockInv'
    BY Zenon, <1>1, <2>0, <2>2, <2>4, <2>5 DEF LockInv, TypeOK
  <2>7. PathInv'
    <3>1. \A u \in Threads : pc'[u] # "idle" => pc[u] # "idle"
      BY Zenon, <1>0, <1>1 DEF TypeOK
    <3> QED
      BY Zenon, <1>1, <3>1 DEF PathInv
  <2>8. ChainInv' /\ EntriesUnique'
    <3>1. ChainInv'
      BY Zenon, <1>1, <2>2 DEF ChainInv
    <3>2. EntriesUnique'
      BY <1>1, <2>2 DEF EntriesUnique
    <3> QED
      BY Zenon, <3>1, <3>2
  <2>9. \A k \in Sites : \A p \in given[k] : Rightly(k, p)'
    <3> TAKE k \in Sites
    <3> TAKE p \in given[k]
    <3>1. \A s \in Slots : tbl_ra[s] = k => tbl_id'[s] = tbl_id[s]
      BY Zenon, <2>2, InternAssumption DEF Used
    <3>2. Rightly(k, p) /\ ~(\A s \in Slots : tbl_ra[s] \notin {Null, k})
      BY Zenon, <1>0, <1>1 DEF GivenInv
    <3>3. PICK s \in Slots : tbl_ra[s] = k /\ p = PartOf(tbl_id[s])
      BY Zenon, <3>2 DEF Rightly
    <3>4. tbl_ra'[s] = k /\ p = PartOf(tbl_id'[s])
      BY Zenon, <1>1, <3>1, <3>3
    <3> QED
      BY Zenon, <3>4 DEF Rightly
  <2>10. GivenInv'
    BY Zenon, <2>0, <2>9 DEF GivenInv
  <2> QED
    BY Zenon, <2>1, <2>6, <2>7, <2>8, <2>10
<1>2. CASE /\ tbl_ra[i[t]] = key[t]
           /\ Done(t, PartOf(tbl_id[i[t]]))
           /\ UNCHANGED <<tblVars, intern_lock>>
  <2>1. Rightly(key[t], PartOf(tbl_id[i[t]])) /\ PartOf(tbl_id[i[t]]) \in Parts
    BY Zenon, <1>0, <1>2, PartOfShape DEF Rightly
  <2> QED
    BY Zenon, <2>1, <1>0, <1>2, DoneInv
<1>3. CASE /\ tbl_ra[i[t]] \notin {Null, key[t]}
           /\ Advance(t)
           /\ UNCHANGED <<tblVars, intern_lock>>
  BY Zenon, <1>0, <1>3, AdvanceInv
<1> QED
  BY Zenon, <1>1, <1>2, <1>3 DEF Claim

\* The slot that is published is the first empty one on its site's path, and
\* the site has no entry before it or, the path being broken there, behind it.
LEMMA PublishInv ==
  ASSUME IInv, NEW t \in Threads, Publish(t)
  PROVE  IInv'
<1> USE DEF IInv
<1> DEFINE k == key[t]
           j == i[t]
<1>0. /\ pc[t] = "publish" /\ intern_lock = t /\ NoThread \notin Threads
      /\ k \in Sites /\ k # Null /\ j \in Slots /\ tbl_ra[j] = Null
      /\ tbl_id[j] \in Nat /\ tbl_id[j] < intern_next
      /\ Off(k, j) = probe[t]
      /\ \A s \in Slots : Off(k, s) < probe[t] => tbl_ra[s] \notin {Null, k}
      /\ \A s \in Used : tbl_id[s] # tbl_id[j]
  BY Zenon, InternAssumption DEF Publish, LockInv, PathInv, TypeOK
<1>1. /\ tbl_ra' = [tbl_ra EXCEPT ![j] = k]
      /\ intern_lock' = NoThread
      /\ tls_ra' = [tls_ra EXCEPT ![t] = k]
      /\ tls_part' = [tls_part EXCEPT ![t] = PartOf(tbl_id[j])]
      /\ given' = [given EXCEPT ![k] = @ \cup {PartOf(tbl_id[j])}]
      /\ pc' = [pc EXCEPT ![t] = "idle"] /\ "idle" # "publish"
      /\ UNCHANGED <<tbl_id, intern_next, key, i, probe>>
  BY Zenon DEF Publish, Done
<1>2. PartOf(tbl_id[j]) \in Parts
  BY Zenon, <1>0, PartOfShape
<1>3. TypeOK'
  BY Zenon, <1>0, <1>1, <1>2 DEF TypeOK
<1>4. Used' = Used \cup {j} /\ j \notin Used
  BY Zenon, <1>0, <1>1 DEF Used, TypeOK
<1>5. \A s \in Used : s \in Slots /\ tbl_ra[s] \in Sites /\ tbl_ra'[s] = tbl_ra[s]
  BY Zenon, <1>1, <1>4 DEF Used, TypeOK
<1>6. \A s \in Used : tbl_ra[s] # k
  <2> SUFFICES ASSUME NEW s \in Used, tbl_ra[s] = k PROVE FALSE
    BY Zenon
  <2>1. s \in Slots /\ ~(Off(k, s) < Off(k, j)) /\ ~(Off(k, j) < Off(k, s))
    BY Zenon, <1>0, <1>5 DEF ChainInv
  <2>2. Off(k, s) \in Slots /\ Off(k, j) \in Slots /\ (Off(k, s) = Off(k, j) => s = j)
    BY ZenonT(40), <1>0, <2>1, OffShape
  <2>3. Off(k, s) = Off(k, j)
    BY <2>1, <2>2 DEF Slots
  <2> QED
    BY Zenon, <2>2, <2>3, <1>4
<1>7. LockInv'
  BY Zenon, <1>0, <1>1, <1>4, <1>5 DEF LockInv, TypeOK
<1>8. \A u \in Threads : u # t /\ pc[u] # "idle" => \A s \in Slots :
        Off(key[u], s) < probe[u] => s # j /\ tbl_ra'[s] = tbl_ra[s]
  BY Zenon, <1>0, <1>1 DEF PathInv, TypeOK
<1>9. PathInv'
  <2>1. \A u \in Threads : pc'[u] # "idle" => u # t /\ pc[u] # "idle"
    BY Zenon, <1>1 DEF TypeOK
  <2> QED
    BY Zenon, <1>1, <1>8, <2>1 DEF PathInv
<1>10. ChainInv'
  <2>1. \A r \in Slots : tbl_ra[r] # Null => tbl_ra'[r] # Null
    BY Zenon, <1>0, <1>1 DEF TypeOK
  <2>2. tbl_ra'[j] = k /\ \A r \in Slots : Off(k, r) < Off(k, j) => tbl_ra[r] # Null
    BY Zenon, <1>0, <1>1 DEF TypeOK
  <2>3. \A s \in Used : \A r \in Slots : Off(tbl_ra'[s], r) < Off(tbl_ra'[s], s) => tbl_ra'[r] # Null
    BY Zenon, <1>5, <2>1 DEF ChainInv
  <2> QED
    BY Zenon, <1>4, <2>1, <2>2, <2>3 DEF ChainInv
<1>11. EntriesUnique'
  <2>1. tbl_ra'[j] = k
    BY Zenon, <1>0, <1>1 DEF TypeOK
  <2>2. \A s \in Used : tbl_ra'[s] # tbl_ra'[j] /\ tbl_id'[s] # tbl_id'[j]
    BY Zenon, <1>0, <1>1, <1>5, <1>6, <2>1
  <2>3. \A s, r \in Used : tbl_ra'[s] = tbl_ra'[r] \/ tbl_id'[s] = tbl_id'[r] => s = r
    BY Zenon, <1>1, <1>5 DEF EntriesUnique
  <2> QED
    BY ZenonT(40), <1>4, <2>2, <2>3 DEF EntriesUnique
<1>12. \A l \in Sites : \A p \in given[l] : Rightly(l, p)'
  <2> TAKE l \in Sites
  <2> TAKE p \in given[l]
  <2>1. Rightly(l, p) /\ ~(\A s \in Slots : tbl_ra[s] \notin {Null, l})
    BY Zenon, <1>0 DEF GivenInv
  <2>2. PICK s \in Slots : tbl_ra[s] = l /\ p = PartOf(tbl_id[s])
    BY Zenon, <2>1 DEF Rightly
  <2>3. tbl_ra'[s] = l /\ p = PartOf(tbl_id'[s])
    BY Zenon, <1>0, <1>1, <2>2, InternAssumption DEF TypeOK
  <2> QED
    BY Zenon, <2>3 DEF Rightly
<1>13. Rightly(k, PartOf(tbl_id[j]))'
  BY Zenon, <1>0, <1>1 DEF Rightly, TypeOK
<1>14. GivenInv'
  BY ZenonT(40), <1>0, <1>1, <1>12, <1>13 DEF GivenInv, TypeOK
<1> QED
  BY Zenon, <1>3, <1>7, <1>9, <1>10, <1>11, <1>14

\* Every step of the lookups preserves the invariant.
LEMMA StepInv == IInv /\ [Next]_vars => IInv'
<1> SUFFICES ASSUME IInv, [Next]_vars PROVE IInv'
  BY Zenon
<1>1. CASE Next
  BY Zenon, <1>1, HitInv, MissInv, LoadInv, ClaimInv, PublishInv
     DEF Next, btm_intern_slow, btm_partition_of
<1>2. CASE UNCHANGED vars
  BY Zenon, <1>2, StutterInv
<1> QED
  BY Zenon, <1>1, <1>2

-----------------------------------------------------------------------------
\* The invariant of btm_partition_of and btm_intern_slow.
THEOREM InternInvariant == Spec => []IInv
BY InitInv, StepInv, PTL DEF Spec

\* The index of the probe loop stays inside the table and every partition inside
\* the btm_nparts ones.
THEOREM InternTypes == Spec => []TypeOK
<1>1. IInv => TypeOK
  BY Zenon DEF IInv
<1> QED
  BY <1>1, InternInvariant, PTL

\* btm_intern_slow never enters a call site twice and never gives an id twice.
THEOREM InternEntriesUnique == Spec => []EntriesUnique
<1>1. IInv => EntriesUnique
  BY Zenon DEF IInv
<1> QED
  BY <1>1, InternInvariant, PTL

\* btm_partition_of gives a call site the same partition for ever: that of its
\* one entry or, when the table filled up without it, that of its hash.
THEOREM InternPartitionStable == Spec => []PartitionStable
<1>1. IInv => PartitionStable
  <2> SUFFICES ASSUME IInv, NEW k \in Sites, NEW p \in given[k], NEW q \in given[k]
               PROVE  p = q
    BY Zenon DEF PartitionStable
  <2>1. Rightly(k, p) /\ Rightly(k, q) /\ k # Null
    BY Zenon, InternAssumption DEF IInv, GivenInv
  <2>2. \A s, r \in Slots : tbl_ra[s] = k /\ tbl_ra[r] = k => s = r
    BY Zenon, <2>1 DEF IInv, EntriesUnique, Used
  <2>3. CASE \E s \in Slots : tbl_ra[s] = k
    <3>1. PICK s \in Slots : tbl_ra[s] = k
      BY Zenon, <2>3
    <3>2. p = PartOf(tbl_id[s])
      BY Zenon, <2>1, <2>2, <3>1 DEF Rightly
    <3>3. q = PartOf(tbl_id[s])
      BY Zenon, <2>1, <2>2, <3>1 DEF Rightly
    <3> QED
      BY Zenon, <3>2, <3>3
  <2>4. CASE ~\E s \in Slots : tbl_ra[s] = k
    BY Zenon, <2>1, <2>4 DEF Rightly
  <2> QED
    BY Zenon, <2>3, <2>4
<1> QED
  BY <1>1, InternInvariant, PTL

\* As long as no more ids than partitions were given out, the table has room and
\* distinct call sites have distinct partitions.
THEOREM InternFirstSitesApart == Spec => []FirstSitesApart
<1>1. IInv => FirstSitesApart
  <2> SUFFICES ASSUME IInv, intern_next <= NParts, NEW k \in Sites, NEW l \in Sites, k # l,
                      NEW p \in given[k], p \in given[l]
               PROVE  FALSE
    BY Zenon DEF FirstSitesApart
  <2>0. TypeOK /\ LockInv /\ EntriesUnique /\ Rightly(k, p) /\ Rightly(l, p)
        /\ Null \notin Sites
    BY Zenon, InternAssumption DEF IInv, GivenInv
  <2>1. \A s \in Used : s \in Slots /\ tbl_id[s] \in 0..(NParts - 1)
    <3> TAKE s \in Used
    <3>1. s \in Slots /\ tbl_id[s] \in Nat /\ tbl_id[s] < intern_next
      BY Zenon, <2>0 DEF LockInv, TypeOK, Used
    <3> QED
      BY <3>1, <2>0, InternAssumption DEF TypeOK
  <2>2. \E s \in Slots : tbl_ra[s] = Null
    <3> SUFFICES ASSUME \A s \in Slots : tbl_ra[s] # Null PROVE FALSE
      BY Zenon
    <3>1. Slots = Used
      BY Zenon DEF Used
    <3>2. tbl_id \in [Slots -> 0..(NParts - 1)]
      BY <2>0, <2>1, <3>1 DEF TypeOK
    <3>3. /\ IsFiniteSet(Slots) /\ Cardinality(Slots) = Cap
          /\ IsFiniteSet(0..(NParts - 1)) /\ Cardinality(0..(NParts - 1)) = NParts
      <4>1. Cap - 1 \in Int /\ NParts - 1 \in Int /\ 0 \in Int
        BY InternAssumption
      <4>2. /\ IsFiniteSet(0..(Cap - 1))
            /\ Cardinality(0..(Cap - 1)) = IF 0 > Cap - 1 THEN 0 ELSE Cap - 1 - 0 + 1
        BY Zenon, <4>1, FS_Interval
      <4>3. /\ IsFiniteSet(0..(NParts - 1))
            /\ Cardinality(0..(NParts - 1)) = IF 0 > NParts - 1 THEN 0 ELSE NParts - 1 - 0 + 1
        BY Zenon, <4>1, FS_Interval
      <4> QED
        BY <4>2, <4>3, InternAssumption DEF Slots
    <3>4. Cardinality(0..(NParts - 1)) < Cardinality(Slots)
      BY Zenon, <3>3, InternAssumption
    <3>5. \E s, r \in Slots : s # r /\ tbl_id[s] = tbl_id[r]
      BY Zenon, <3>2, <3>3, <3>4, FS_PigeonHole
    <3> QED
      BY Zenon, <3>1, <3>5, <2>0 DEF EntriesUnique
  <2>3. PICK s \in Slots, r \in Slots : /\ tbl_ra[s] = k /\ tbl_ra[r] = l
                                        /\ PartOf(tbl_id[s]) = PartOf(tbl_id[r])
    BY Zenon, <2>0, <2>2 DEF Rightly
  <2>4. s \in Used /\ r \in Used
    BY Zenon, <2>0, <2>3 DEF Used
  <2>5. /\ tbl_id[s] \in Nat /\ tbl_id[r] \in Nat
        /\ tbl_id[s] < NParts /\ tbl_id[r] < NParts
    BY <2>1, <2>4, InternAssumption
  <2>6. tbl_id[s] = tbl_id[r]
    BY Zenon, <2>3, <2>5, PartOfShape
  <2> QED
    BY Zenon, <2>0, <2>3, <2>4, <2>6 DEF EntriesUnique
<1> QED
  BY <1>1, InternInvariant, PTL

-----------------------------------------------------------------------------
(* A lookup ends *)

\* A thread's call of btm_intern_slow.
CallOf(t) == <<pc[t], key[t], i[t], probe[t]>>

Stage(l) == CASE l = "publish" -> 2 [] l = "claim" -> 1 [] OTHER -> 0

\* The steps that a lookup has left, at most: three for every turn of its loop.
Left(t) == 3 * (Cap - probe[t]) - Stage(pc[t])

\* Every step of a lookup ends it or brings its end nearer, and no step of
\* another thread sets it back.
LookupAdvances ==
  [][\A t \in Threads : pc[t] # "idle" =>
       /\ Left(t) \in 1..(3 * Cap)
       /\ \/ pc'[t] = "idle"
          \/ Left(t)' < Left(t)
          \/ CallOf(t)' = CallOf(t)]_vars

\* The lock that a lookup may wait for is held by a thread at the store that
\* releases it.
HolderPublishes == \A t \in Threads : intern_lock = t => pc[t] = "publish"

\* The arithmetic of Left.
LEMMA LeftShape ==
  ASSUME NEW n \in Slots, NEW m \in Slots,
         NEW l \in {"load", "claim", "publish"}, NEW k \in {"load", "claim", "publish"}
  PROVE  /\ 3 * (Cap - n) - Stage(l) \in 1..(3 * Cap)
         /\ m = n + 1 => 3 * (Cap - m) - Stage(k) < 3 * (Cap - n) - Stage(l) \/ Stage(l) = 2
         /\ Stage(k) = Stage(l) + 1 => 3 * (Cap - n) - Stage(k) < 3 * (Cap - n) - Stage(l)
<1>1. Stage(l) \in 0..2 /\ Stage(k) \in 0..2
  BY DEF Stage
<1>2. Cap \in Nat /\ n \in 0..(Cap - 1) /\ m \in 0..(Cap - 1)
  BY InternAssumption DEF Slots
<1> QED
  BY <1>1, <1>2

\* A turn of the loop or its end.
LEMMA AdvanceLeft ==
  ASSUME IInv, IInv', NEW t \in Threads, pc[t] \in {"load", "claim"}, Advance(t)
  PROVE  pc'[t] = "idle" \/ Left(t)' < Left(t)
<1>1. probe[t] \in Slots /\ probe'[t] \in Slots /\ pc \in [Threads -> {"idle", "load", "claim", "publish"}]
  BY Zenon DEF IInv, TypeOK
<1>2. CASE probe[t] + 1 < Cap
  <2>1. probe'[t] = probe[t] + 1 /\ pc'[t] = "load"
    BY Zenon, <1>1, <1>2 DEF Advance, IInv, TypeOK
  <2>2. Stage(pc[t]) # 2 /\ pc[t] \in {"load", "claim", "publish"} /\ "load" \in {"load", "claim", "publish"}
    BY DEF Stage
  <2>3. 3 * (Cap - probe'[t]) - Stage("load") < 3 * (Cap - probe[t]) - Stage(pc[t])
    BY Zenon, <1>1, <2>1, <2>2, LeftShape
  <2> QED
    BY Zenon, <2>1, <2>3 DEF Left
<1>3. CASE ~(probe[t] + 1 < Cap)
  BY Zenon, <1>1, <1>3 DEF Advance, Done
<1> QED
  BY Zenon, <1>2, <1>3

\* The step from one stage of a turn to the next.
LEMMA StageLeft ==
  ASSUME IInv, NEW t \in Threads, probe' = probe,
         \/ pc[t] = "load" /\ pc' = [pc EXCEPT ![t] = "claim"]
         \/ pc[t] = "claim" /\ pc' = [pc EXCEPT ![t] = "publish"]
  PROVE  Left(t)' < Left(t)
<1>1. probe[t] \in Slots /\ probe'[t] = probe[t] /\ pc \in [Threads -> {"idle", "load", "claim", "publish"}]
  BY Zenon DEF IInv, TypeOK
<1>2. PICK l \in {"load", "claim", "publish"}, k \in {"load", "claim", "publish"} :
        pc[t] = l /\ pc'[t] = k /\ ((l = "load" /\ k = "claim") \/ (l = "claim" /\ k = "publish"))
  BY Zenon, <1>1
<1>3. Stage(k) = Stage(l) + 1
  BY <1>2 DEF Stage
<1>4. 3 * (Cap - probe[t]) - Stage(k) < 3 * (Cap - probe[t]) - Stage(l)
  BY Zenon, <1>1, <1>3, LeftShape
<1> QED
  BY Zenon, <1>1, <1>2, <1>4 DEF Left

\* A thread's own step.
LEMMA OwnStepLeft ==
  ASSUME IInv, IInv', NEW t \in Threads, btm_intern_slow(t)
  PROVE  pc'[t] = "idle" \/ Left(t)' < Left(t)
<1>0. pc \in [Threads -> {"idle", "load", "claim", "publish"}]
  BY Zenon DEF IInv, TypeOK
<1>1. CASE Load(t)
  <2>1. pc[t] \in {"load", "claim"}
    BY Zenon, <1>1 DEF Load
  <2>2. \/ \E part : Done(t, part)
        \/ pc[t] = "load" /\ pc' = [pc EXCEPT ![t] = "claim"] /\ probe' = probe
        \/ Advance(t)
    BY Zenon, <1>1 DEF Load
  <2> QED
    BY Zenon, <1>0, <2>1, <2>2, AdvanceLeft, StageLeft DEF Done
<1>2. CASE Claim(t)
  <2>1. pc[t] \in {"load", "claim"}
    BY Zenon, <1>2 DEF Claim
  <2>2. \/ \E part : Done(t, part)
        \/ pc[t] = "claim" /\ pc' = [pc EXCEPT ![t] = "publish"] /\ probe' = probe
        \/ Advance(t)
    BY Zenon, <1>2 DEF Claim
  <2> QED
    BY Zenon, <1>0, <2>1, <2>2, AdvanceLeft, StageLeft DEF Done
<1>3. CASE Publish(t)
  BY Zenon, <1>0, <1>3 DEF Publish, Done
<1> QED
  BY Zenon, <1>1, <1>2, <1>3 DEF btm_intern_slow

\* A step of one thread leaves the calls of the others alone.
LEMMA CallsApart ==
  ASSUME IInv, NEW u \in Threads, NEW t \in Threads, t # u,
         btm_intern_slow(u) \/ \E k \in Sites : btm_partition_of(u, k)
  PROVE  CallOf(t)' = CallOf(t)
<1>1. /\ pc \in [Threads -> {"idle", "load", "claim", "publish"}]
      /\ key \in [Threads -> Sites \cup {Null}]
      /\ i \in [Threads -> Slots] /\ probe \in [Threads -> Slots]
  BY Zenon DEF IInv, TypeOK
<1>2. CASE btm_intern_slow(u)
  <2>1. \/ \E part : Done(u, part)
        \/ Advance(u)
        \/ \E l : pc' = [pc EXCEPT ![u] = l] /\ UNCHANGED <<key, i, probe>>
    BY Zenon, <1>2 DEF btm_intern_slow, Load, Claim, Publish
  <2>2. CASE Advance(u)
    BY Zenon, <1>1, <2>2 DEF Advance, Done, CallOf
  <2> QED
    BY Zenon, <1>1, <2>1, <2>2 DEF Done, CallOf
<1>3. CASE \E k \in Sites : btm_partition_of(u, k)
  BY Zenon, <1>1, <1>3 DEF btm_partition_of, Hit, Miss, callVars, CallOf
<1> QED
  BY Zenon, <1>2, <1>3

\* intern_lock is taken on the way to the store and released with it.
LEMMA HolderPublishesInv ==
  /\ Init => HolderPublishes
  /\ IInv /\ HolderPublishes /\ [Next]_vars => HolderPublishes'
<1>1. Init => HolderPublishes
  BY Zenon, InternAssumption DEF Init, HolderPublishes
<1>2. ASSUME IInv, HolderPublishes, [Next]_vars, NEW t \in Threads, intern_lock' = t
      PROVE  pc'[t] = "publish"
  <2>0. pc \in [Threads -> {"idle", "load", "claim", "publish"}] /\ NoThread \notin Threads
    BY Zenon, <1>2, InternAssumption DEF IInv, TypeOK
  <2>1. CASE UNCHANGED vars
    BY Zenon, <1>2, <2>1 DEF HolderPublishes, vars, callVars
  <2>2. ASSUME NEW u \in Threads, btm_intern_slow(u) \/ \E k \in Sites : btm_partition_of(u, k)
        PROVE  pc'[t] = "publish"
    <3>1. CASE intern_lock = t
      <4>1. pc[t] = "publish"
        BY Zenon, <1>2, <3>1 DEF HolderPublishes
      <4>2. CASE u = t
        <5>1. Publish(t)
          BY <2>2, <4>1, <4>2 DEF btm_intern_slow, Load, Claim, btm_partition_of
        <5> QED
          BY Zenon, <1>2, <2>0, <5>1 DEF Publish
      <4>3. CASE u # t
        <5>1. CallOf(t)' = CallOf(t)
          BY Zenon, <1>2, <2>2, <4>3, CallsApart
        <5> QED
          BY Zenon, <4>1, <5>1 DEF CallOf
      <4> QED
        BY Zenon, <4>2, <4>3
    <3>2. CASE intern_lock # t
      <4>1. Claim(u) /\ intern_lock' = u /\ pc' = [pc EXCEPT ![u] = "publish"]
        BY Zenon, <1>2, <2>0, <2>2, <3>2
          DEF btm_intern_slow, Load, Claim, Publish, btm_partition_of, Hit, Miss
      <4> QED
        BY Zenon, <1>2, <2>0, <4>1
    <3> QED
      BY Zenon, <3>1, <3>2
  <2> QED
    BY Zenon, <1>2, <2>1, <2>2 DEF Next
<1> QED
  BY Zenon, <1>1, <1>2 DEF HolderPublishes

\* btm_intern_slow ends: a lookup takes at most three steps of its own for every
\* slot of the table, whatever the other threads insert meanwhile, and the lock
\* it may wait for is about to be released.  This is what LookupReturns rests on,
\* without its fairness.
THEOREM InternLookupBounded == Spec => LookupAdvances /\ []HolderPublishes
<1> DEFINE Advances == \A t \in Threads : pc[t] # "idle" =>
             /\ Left(t) \in 1..(3 * Cap)
             /\ \/ pc'[t] = "idle"
                \/ Left(t)' < Left(t)
                \/ CallOf(t)' = CallOf(t)
<1>1. IInv /\ IInv' /\ [Next]_vars => [Advances]_vars
  <2> SUFFICES ASSUME IInv, IInv', Next, NEW t \in Threads, pc[t] # "idle"
               PROVE  /\ Left(t) \in 1..(3 * Cap)
                      /\ \/ pc'[t] = "idle"
                         \/ Left(t)' < Left(t)
                         \/ CallOf(t)' = CallOf(t)
    BY Zenon
  <2>1. Left(t) \in 1..(3 * Cap)
    <3>1. probe[t] \in Slots /\ pc[t] \in {"load", "claim", "publish"}
      BY Zenon DEF IInv, TypeOK
    <3> QED
      BY Zenon, <3>1, LeftShape DEF Left
  <2>2. PICK u \in Threads : btm_intern_slow(u) \/ \E k \in Sites : btm_partition_of(u, k)
    BY Zenon DEF Next
  <2>3. CASE u = t
    BY Zenon, <2>1, <2>2, <2>3, OwnStepLeft DEF btm_partition_of
  <2>4. CASE u # t
    BY Zenon, <2>1, <2>2, <2>4, CallsApart
  <2> QED
    BY Zenon, <2>3, <2>4
<1> QED
  BY <1>1, HolderPublishesInv, InternInvariant, PTL DEF Spec, LookupAdvances

-----------------------------------------------------------------------------
(* Size classes and the carving of a chunk *)

\* The table index at which the entries of class c end, in closed form.
EndOf(c) ==
  IF c < 8 THEN c + 1
  ELSE IF c < 12 THEN 8 + 2 * (c - 7)
  ELSE IF c < 16 THEN 16 + 4 * (c - 11)
  ELSE IF c < 20 THEN 32 + 8 * (c - 15)
  ELSE IF c < 24 THEN 64 + 16 * (c - 19)
  ELSE IF c < 28 THEN 128 + 32 * (c - 23)
  ELSE IF c < 32 THEN 256 + 64 * (c - 27)
  ELSE 512 + 128 * (c - 31)

\* The class whose entries include table index j, in closed form.
ClassAt(j) ==
  IF j < 8 THEN j
  ELSE IF j < 16 THEN 8 + (j - 8) \div 2
  ELSE IF j < 32 THEN 12 + (j - 16) \div 4
  ELSE IF j < 64 THEN 16 + (j - 32) \div 8
  ELSE IF j < 128 THEN 20 + (j - 64) \div 16
  ELSE IF j < 256 THEN 24 + (j - 128) \div 32
  ELSE IF j < 512 THEN 28 + (j - 256) \div 64
  ELSE 32 + (j - 512) \div 128

\* The indexes of btm_sc_lut.
Granules == 0..1023

\* The run lengths that occur in btm_sc_run_pages.
RunLengths == {1, 2, 4, 8, 16, 24, 32}

\* Slot j of the slab that starts at page f, in a chunk of class c.
SlotOf(c, f, j) == f \in FirstPages(btm_sc_run_pages[c]) /\ j \in 0..(nslots(c) - 1)

\* The bytes of that slot, relative to the chunk.
Bytes(c, f, j) == SlotAt(c, f, j)..(SlotAt(c, f, j) + btm_sc_to_size[c] - 1)

\* The order of slots in a chunk.
Before(f, j, g, k) == f < g \/ (f = g /\ j < k)

\* What module Heap takes for granted when a slot is an atom: every byte of a
\* slot, also one in its middle, resolves to its slab (btm_slab_of), and two slots
\* of a chunk share no byte (slab_format, btm_slab_new).
SlotsApart ==
  sc # NoClass =>
    \A f, j : SlotOf(sc, f, j) =>
      /\ \A n \in Bytes(sc, f, j) : btm_slab_of(page_owner, n) = f
      /\ \A g, k : SlotOf(sc, g, k) /\ <<f, j>> # <<g, k>> =>
           Bytes(sc, f, j) \cap Bytes(sc, g, k) = {}

\* page_owner when btm_slab_new has carved every run in front of page next.
CarvedUpTo(run, next) ==
  [p \in Pages |-> IF p < next THEN PageOwner(run)[p] ELSE PAGE_NONE]

\* The classes are 0 to 35.
LEMMA ClassRange == Classes = 0..35
  BY DEF Classes, NUM_SIZE_CLASSES

\* btm_sc_to_size in closed form: 16 bytes for each granule.
LEMMA SizeForm == \A c \in Classes : btm_sc_to_size[c] = 16 * EndOf(c)
  BY ClassRange DEF btm_sc_to_size, Table, EndOf

\* The number of entries of a class in btm_sc_lut, in closed form.
LEMMA RunForm == \A c \in Classes : LutRuns[c] = EndOf(c) - (IF c = 0 THEN 0 ELSE EndOf(c - 1))
  BY ClassRange, SMTT(30) DEF LutRuns, Table, Times, EndOf

\* btm_sc_run_pages holds run lengths, and two slots of the class fit in one.
LEMMA RunPages == \A c \in Classes :
   /\ btm_sc_run_pages[c] \in RunLengths
   /\ 32 * EndOf(c) <= btm_sc_run_pages[c] * PAGE_SIZE
 BY ClassRange, SMTT(60) DEF btm_sc_run_pages, Table, Times, EndOf, RunLengths, PAGE_SIZE

\* btm_cache_max_tbl is the clamped quotient that its comment states.
LEMMA CapOf == \A c \in Classes :
  LET quot == 16384 \div (16 * EndOf(c)) IN
  btm_cache_max_tbl[c] = IF quot < 8 THEN 8 ELSE IF quot > 256 THEN 256 ELSE quot
 BY ClassRange, SMTT(60) DEF btm_cache_max_tbl, Table, Times, EndOf

\* The closed form is a table index.
LEMMA EndInt ==
  ASSUME NEW c \in Classes
  PROVE  EndOf(c) \in Int /\ 1 <= EndOf(c) /\ EndOf(c) <= 1024
<1>1. c \in Int /\ 0 <= c /\ c <= 35
  BY ClassRange
<1> QED
  BY <1>1 DEF EndOf

\* The classes' entries stand in order in btm_sc_lut.
LEMMA EndMono == \A c, d \in Classes : c < d => EndOf(c) < EndOf(d)
 BY ClassRange DEF EndOf

\* The entries of class c end where those of the class before it end, plus its own.
LEMMA RunOf ==
  ASSUME NEW c \in Classes, NEW e, e = IF c = 0 THEN 0 ELSE EndOf(c - 1)
  PROVE  LutRuns[c] + e = EndOf(c)
<1>1. c = 0 \/ c - 1 \in Classes
  BY ClassRange
<1>2. EndOf(c) \in Int /\ e \in Int
  BY <1>1, EndInt
<1>3. LutRuns[c] = EndOf(c) - e
  BY RunForm, Zenon
<1> QED
  BY <1>2, <1>3

\* The equation that defines LutEnd has a solution, so that LutEnd meets it.
LEMMA LutEq == 
   \A c \in Classes : LutEnd[c] = LutRuns[c] + (IF c = 0 THEN 0 ELSE LutEnd[c - 1])
<1> DEFINE g == [c \in Classes |-> EndOf(c)]
<1>1. ASSUME NEW c \in Classes
      PROVE  EndOf(c) = LutRuns[c] + (IF c = 0 THEN 0 ELSE g[c - 1])
  <2>1. c = 0 \/ c - 1 \in Classes
    BY ClassRange
  <2>2. (IF c = 0 THEN 0 ELSE g[c - 1]) = IF c = 0 THEN 0 ELSE EndOf(c - 1)
    BY <2>1, Zenon
  <2> HIDE DEF g
  <2> QED
    BY <2>2, RunOf, Zenon
<1>2. g = [c \in Classes |-> LutRuns[c] + (IF c = 0 THEN 0 ELSE g[c - 1])]
  BY <1>1, Zenon
<1>3. LutEnd = [c \in Classes |-> LutRuns[c] + (IF c = 0 THEN 0 ELSE LutEnd[c - 1])]
  BY <1>2, Zenon DEF LutEnd
<1> QED
  BY <1>3, Zenon

\* LutEnd agrees with the closed form at 0, and at c if it does at c - 1.
LEMMA LutStep ==
  /\ LutEnd[0] = EndOf(0)
  /\ \A c \in Classes : c # 0 /\ LutEnd[c - 1] = EndOf(c - 1) => LutEnd[c] = EndOf(c)
<1>1. LutEnd[0] = LutRuns[0] + (IF 0 = 0 THEN 0 ELSE LutEnd[0 - 1])
  BY LutEq, ClassRange
<1>2. 0 \in Classes
  BY ClassRange
<1>3. LutEnd[0] = EndOf(0)
  BY <1>1, <1>2, RunOf, Zenon
<1>4. ASSUME NEW c \in Classes, c # 0, LutEnd[c - 1] = EndOf(c - 1) PROVE LutEnd[c] = EndOf(c)
  BY <1>4, LutEq, RunOf, Zenon
<1> QED
  BY <1>3, <1>4

\* So it agrees with it at every class.
LEMMA LutEnds == \A c \in Classes : LutEnd[c] = EndOf(c)
<1>1. \A c \in 0..11 : LutEnd[c] = EndOf(c)
  BY LutStep, ClassRange
<1>2. \A c \in 11..23 : LutEnd[c] = EndOf(c)
  BY <1>1, LutStep, ClassRange
<1>3. \A c \in 23..35 : LutEnd[c] = EndOf(c)
  BY <1>2, LutStep, ClassRange
<1> QED
  BY <1>1, <1>2, <1>3, ClassRange

\* The two closed forms belong together: class c ends at or before index j exactly
\* if it is below the class at j.
LEMMA AtEnd == \A j \in Granules :
   /\ ClassAt(j) \in Classes
   /\ \A c \in Classes : EndOf(c) <= j <=> c < ClassAt(j)
  BY ClassRange, SMTT(60) DEF EndOf, ClassAt, Granules

\* The same for LutEnd.
LEMMA LutAt ==
  ASSUME NEW j \in Granules, NEW k, k = ClassAt(j)
  PROVE  k \in Classes /\ \A c \in Classes : LutEnd[c] <= j <=> c < k
  BY LutEnds, AtEnd, Zenon

\* There are k classes below class k.
LEMMA ClassesBelow ==
  ASSUME NEW k \in Classes
  PROVE  Cardinality({c \in Classes : c < k}) = k
<1>1. {c \in Classes : c < k} = 0..(k - 1)
  BY ClassRange
<1>2. Cardinality(0..(k - 1)) = IF 0 > k - 1 THEN 0 ELSE (k - 1) - 0 + 1
  <2>1. 0 \in Int /\ k - 1 \in Int
    BY ClassRange
  <2> QED
    BY <2>1, FS_Interval, Zenon
<1>3. (IF 0 > k - 1 THEN 0 ELSE (k - 1) - 0 + 1) = k
  BY ClassRange
<1> QED
  BY <1>1, <1>2, <1>3, Zenon

\* btm_sc_lut in closed form.
LEMMA LutForm == ASSUME NEW j \in Granules PROVE btm_sc_lut[j] = ClassAt(j)
<1>1. PICK k : k = ClassAt(j)
  BY Zenon
<1>2. k \in Classes /\ \A c \in Classes : LutEnd[c] <= j <=> c < k
  BY <1>1, LutAt, Zenon
<1>3. {c \in Classes : LutEnd[c] <= j} = {c \in Classes : c < k}
  BY <1>2, Zenon
<1>4. 0..(SMALL_MAX_SIZE \div 16 - 1) = Granules
  BY DEF SMALL_MAX_SIZE, Granules
<1>5. btm_sc_lut[j] = Cardinality({c \in Classes : LutEnd[c] <= j})
  BY <1>4, Zenon DEF btm_sc_lut
<1>6. Cardinality({c \in Classes : c < k}) = k
  BY <1>2, ClassesBelow, Zenon
<1> QED
  BY <1>1, <1>3, <1>5, <1>6, Zenon

\* Class c holds the size and no smaller class does.
FitsBest(size, c) ==
  /\ size # 0 /\ size <= btm_sc_to_size[c]
  /\ \A d \in Classes : size <= btm_sc_to_size[d] => btm_sc_to_size[c] <= btm_sc_to_size[d]

\* A size of 1 to SMALL_MAX_SIZE is looked up in btm_sc_lut by its granule.
LEMMA SmallRouted ==
  ASSUME NEW size \in Int, size >= 1, size <= SMALL_MAX_SIZE
  PROVE  \E j \in Granules : /\ btm_size_to_sc(size) = ClassAt(j)
                             /\ 16 * j < size /\ size <= 16 * j + 16
<1>1. PICK m \in Int : m = size - 1
  OBVIOUS
<1>2. m >= 0 /\ m < 16384 /\ m % SizeT = m
  BY <1>1, SizeTAssumption, Z3 DEF SMALL_MAX_SIZE
<1>3. PICK j : j = m \div 16
  OBVIOUS
<1>4. j \in Int /\ 16 * j <= m /\ m < 16 * j + 16
  BY <1>2, <1>3
<1>5. j \in Granules
  BY <1>2, <1>4 DEF Granules
<1>6. btm_size_to_sc(size) = btm_sc_lut[j]
  BY <1>1, <1>2, <1>3 DEF btm_size_to_sc, SMALL_MAX_SIZE
<1>7. btm_sc_lut[j] = ClassAt(j)
  BY <1>5, LutForm, Zenon
<1> QED
  BY <1>1, <1>4, <1>5, <1>6, <1>7

\* btm_size_to_sc refuses every other size, 0 included: size - 1 wraps.
LEMMA OthersRefused ==
  ASSUME NEW size \in 0..(SizeT - 1), ~(size >= 1 /\ size <= SMALL_MAX_SIZE)
  PROVE  btm_size_to_sc(size) = -1
<1>1. (size - 1) % SizeT >= SMALL_MAX_SIZE
  BY SizeTAssumption, Z3 DEF SMALL_MAX_SIZE
<1> QED
  BY <1>1 DEF btm_size_to_sc, SMALL_MAX_SIZE

\* A smaller class has smaller slots.
LEMMA SizeOrder ==
  ASSUME NEW d \in Classes, NEW e \in Classes
  PROVE  btm_sc_to_size[d] <= btm_sc_to_size[e] <=> d <= e
<1>1. PICK x \in Int : x = EndOf(d) /\ btm_sc_to_size[d] = 16 * x
  BY SizeForm, EndInt
<1>2. PICK y \in Int : y = EndOf(e) /\ btm_sc_to_size[e] = 16 * y
  BY SizeForm, EndInt
<1>3. (d < e => x < y) /\ (e < d => y < x) /\ d \in Int /\ e \in Int
  BY <1>1, <1>2, EndMono, ClassRange
<1>4. d = e => x = y
  BY <1>1, <1>2
<1> QED
  BY <1>1, <1>2, <1>3, <1>4

\* A size fits in a class exactly if the class is not below the one at its granule.
LEMMA FitsFrom ==
  ASSUME NEW size \in Int, NEW j \in Granules, 16 * j < size, size <= 16 * j + 16,
         NEW d \in Classes
  PROVE  size <= btm_sc_to_size[d] <=> ClassAt(j) <= d
<1>1. PICK x \in Int : x = EndOf(d) /\ btm_sc_to_size[d] = 16 * x
  BY SizeForm, EndInt
<1>2. PICK k : k = ClassAt(j)
  BY Zenon
<1>9. k \in Int
  <2>1. k \in Classes
    BY <1>2, AtEnd, Zenon
  <2> QED
    BY <2>1, ClassRange
<1>3. x <= j <=> d < k
  BY <1>1, <1>2, AtEnd, Zenon
<1>4. d \in Int
  BY ClassRange
<1>5. size <= 16 * x <=> ~(x <= j)
  BY <1>1 DEF Granules
<1>6. ~(d < k) <=> k <= d
  BY <1>4, <1>9
<1> QED
  BY <1>1, <1>2, <1>3, <1>5, <1>6, Zenon

\* btm_size_to_sc gives the best fit and nothing else, for every size_t.
LEMMA BestFit ==
  ASSUME NEW size \in 0..(SizeT - 1), NEW c \in Classes
  PROVE  btm_size_to_sc(size) = c <=> FitsBest(size, c)
<1>0. size \in Int /\ size >= 0
  BY SizeTAssumption
<1>1. CASE size >= 1 /\ size <= SMALL_MAX_SIZE
  <2>1. PICK j \in Granules : /\ btm_size_to_sc(size) = ClassAt(j)
                            /\ 16 * j < size /\ size <= 16 * j + 16
    BY <1>0, <1>1, SmallRouted
  <2>2. PICK k : k = ClassAt(j)
    BY Zenon
  <2>3. k \in Classes
    BY <2>2, AtEnd, Zenon
  <2>4. \A d \in Classes : size <= btm_sc_to_size[d] <=> k <= d
    BY <1>0, <2>1, <2>2, FitsFrom, Zenon
  <2>5. FitsBest(size, c) <=> k <= c /\ \A d \in Classes : k <= d => c <= d
    BY <2>4, <1>1, <1>0, SizeOrder DEF FitsBest
  <2>6. (k <= c /\ \A d \in Classes : k <= d => c <= d) <=> k = c
    BY <2>3, ClassRange
  <2> QED
    BY <2>1, <2>2, <2>5, <2>6, Zenon
<1>2. CASE ~(size >= 1 /\ size <= SMALL_MAX_SIZE)
  <2>1. btm_size_to_sc(size) # c
    <3>1. btm_size_to_sc(size) = -1
      BY <1>2, OthersRefused
    <3> QED
      BY <3>1, ClassRange
  <2>2. ~FitsBest(size, c)
    <3>1. PICK x \in Int : 1 <= x /\ x <= 1024 /\ btm_sc_to_size[c] = 16 * x
      BY SizeForm, EndInt, SMTT(30)
    <3>2. size = 0 \/ ~(size <= btm_sc_to_size[c])
      BY <3>1, <1>2, <1>0 DEF SMALL_MAX_SIZE
    <3> QED
      BY <3>2, Zenon DEF FitsBest
  <2> QED
    BY <2>1, <2>2, Zenon
<1> QED
  BY <1>1, <1>2

\* For every value of a size_t: the smallest class that holds it, for sizes from 1
\* to SMALL_MAX_SIZE, and -1 for the others (btm_size_to_sc).
THEOREM EverySizeRouted ==
  \A size \in 0..(SizeT - 1) :
    /\ \A c \in Classes : btm_size_to_sc(size) = c <=> FitsBest(size, c)
    /\ IF size >= 1 /\ size <= SMALL_MAX_SIZE
       THEN btm_size_to_sc(size) \in Classes ELSE btm_size_to_sc(size) = -1
<1> SUFFICES ASSUME NEW size \in 0..(SizeT - 1)
             PROVE  IF size >= 1 /\ size <= SMALL_MAX_SIZE
                    THEN btm_size_to_sc(size) \in Classes ELSE btm_size_to_sc(size) = -1
  BY BestFit, Zenon
<1>1. CASE size >= 1 /\ size <= SMALL_MAX_SIZE
  <2>1. size \in Int
    BY SizeTAssumption
  <2>2. PICK j \in Granules : btm_size_to_sc(size) = ClassAt(j)
    BY <1>1, <2>1, SmallRouted, Zenon
  <2> QED
    BY <1>1, <2>2, AtEnd, Zenon
<1>2. CASE ~(size >= 1 /\ size <= SMALL_MAX_SIZE)
  BY <1>2, OthersRefused, Zenon
<1> QED
  BY <1>1, <1>2, Zenon

\* page_owner is what a chunk of class sc is carved into.
ChunkInv ==
  /\ sc \in Classes \cup {NoClass}
  /\ sc # NoClass => page_owner = PageOwner(btm_sc_run_pages[sc])

\* ChunkInv holds in every reachable state of the chunk.
LEMMA ChunkInductive == ChunkSpec => []ChunkInv
<1>1. ChunkInit => ChunkInv
  BY Zenon DEF ChunkInit, ChunkInv
<1>2. ChunkInv /\ [ChunkNext]_chunkVars => ChunkInv'
  <2> SUFFICES ASSUME ChunkInv, [ChunkNext]_chunkVars PROVE ChunkInv'
    OBVIOUS
  <2>1. CASE GiveBack
    BY <2>1, Zenon DEF GiveBack, ChunkInv
  <2>2. ASSUME NEW c \in Classes, Carve(c) PROVE ChunkInv'
    BY <2>2, Zenon DEF Carve, ChunkInv
  <2>3. CASE UNCHANGED chunkVars
    BY <2>3, Zenon DEF chunkVars, ChunkInv
  <2> QED
    BY <2>1, <2>2, <2>3, Zenon DEF ChunkNext
<1> QED
  BY <1>1, <1>2, PTL DEF ChunkSpec

\* The sizes that SmallestFit names are size_t values.
LEMMA SizeRange == \A n \in 0..(SMALL_MAX_SIZE + 64) : n \in 0..(SizeT - 1)
<1>1. SMALL_MAX_SIZE \in Int /\ SizeT \in Int /\ SMALL_MAX_SIZE + 64 < SizeT
  BY SizeTAssumption DEF SMALL_MAX_SIZE
<1> QED
  BY <1>1

\* btm_size_to_sc sends exactly those requests to a pool whose smallest fitting
\* class is the pool's (btm_size_to_sc, size_class.c's tables).
THEOREM AlwaysSmallestFit == ChunkSpec => []SmallestFit
<1>1. ChunkInv => SmallestFit
  <2> SUFFICES ASSUME sc \in Classes, NEW size \in 0..(SMALL_MAX_SIZE + 64)
               PROVE  btm_size_to_sc(size) = sc <=> FitsBest(size, sc)
    BY Zenon DEF ChunkInv, SmallestFit, FitsBest
  <2>1. size \in 0..(SizeT - 1)
    BY SizeRange, Zenon
  <2> QED
    BY <2>1, BestFit, Zenon
<1> QED
  BY <1>1, ChunkInductive, PTL

\* Where the slabs of a chunk start.
LEMMA FirstFacts ==
  ASSUME NEW run \in RunLengths, NEW f \in FirstPages(run)
  PROVE  f \in Int /\ f >= 7 /\ f + run <= 512 /\ (f - 7) % run = 0 /\ DATA_START_PAGE = 7
<1>0. DATA_START_PAGE = 7
  BY DEF DATA_START_PAGE, DESC_PAGES, PAGES_PER_CHUNK, SizeofSlab, PAGE_SIZE
<1> QED
  BY <1>0 DEF FirstPages, HasRoom, Pages, PAGES_PER_CHUNK, RunLengths

\* The runs of two slabs do not overlap.
LEMMA RunsApart ==
  ASSUME NEW run \in RunLengths, NEW f \in FirstPages(run), NEW g \in FirstPages(run), f < g
  PROVE  f + run <= g
<1>1. PICK x \in Int, y \in Int : x = f - 7 /\ y = g - 7
  BY FirstFacts
<1>2. x >= 0 /\ y >= 0 /\ x % run = 0 /\ y % run = 0 /\ x < y
  BY <1>1, FirstFacts
<1>3. x + run <= y
  BY <1>2 DEF RunLengths
<1> QED
  BY <1>1, <1>3, FirstFacts DEF RunLengths

\* page_owner gives the first page for every page of a slab's run.
LEMMA OwnPage ==
  ASSUME NEW run \in RunLengths, NEW f \in FirstPages(run),
         NEW p \in Int, f <= p, p < f + run
  PROVE  PageOwner(run)[p] = f
<1>1. f \in Int /\ f >= 7 /\ f + run <= 512 /\ (f - 7) % run = 0 /\ DATA_START_PAGE = 7
  BY FirstFacts
<1>2. PICK x \in Int, d \in Int : x = f - 7 /\ d = p - f
  BY <1>1
<1>3. x >= 0 /\ x % run = 0 /\ d >= 0 /\ d < run /\ p - 7 = x + d
  BY <1>1, <1>2 DEF RunLengths
<1>4. (x + d) % run = d
  BY <1>3 DEF RunLengths
<1>5. p - ((p - DATA_START_PAGE) % run) = f
  BY <1>1, <1>2, <1>3, <1>4
<1>6. p \in Pages /\ p \in Run(f, run)
  BY <1>1 DEF Pages, PAGES_PER_CHUNK, Run, RunLengths
<1> QED
  BY <1>5, <1>6, Zenon DEF PageOwner

\* Slot j < nslots ends inside the run of w bytes.
LEMMA SlotInRun ==
  ASSUME NEW w \in Int, NEW z \in Int, z > 0, w > 0, NEW j \in Int, j >= 0, j < w \div z
  PROVE  j * z >= 0 /\ j * z + z <= w
<1>1. PICK q : q = w \div z
  OBVIOUS
<1>2. q \in Int /\ q * z <= w
  BY <1>1, Z3
<1>3. (j + 1) * z <= q * z
  BY <1>1, <1>2, Z3
<1>4. (j + 1) * z = j * z + z
  BY Z3
<1>5. j * z >= 0 /\ j * z \in Int
  BY Z3
<1> QED
  BY <1>2, <1>3, <1>4, <1>5

\* A run with room for two slots has nslots >= 2.
LEMMA TwoSlots ==
  ASSUME NEW w \in Int, NEW z \in Int, z > 0, 2 * z <= w
  PROVE  w \div z \in Int /\ w \div z >= 2
<1>1. PICK q \in Int : q = w \div z
  OBVIOUS
<1>2. w < q * z + z
  BY <1>1, Z3
<1>3. q <= 1 => q * z <= z
  BY Z3
<1> QED
  BY <1>1, <1>2, <1>3

\* The page of a byte of the run that starts at page f.
LEMMA PageAt ==
  ASSUME NEW f \in Int, f >= 0, NEW run \in Int, NEW b \in Int, b >= 0, b < run * PAGE_SIZE,
         NEW p, p = (f * PAGE_SIZE + b) \div PAGE_SIZE
  PROVE  p \in Int /\ f <= p /\ p < f + run
<1>1. PICK y \in Int : y = f * PAGE_SIZE + b
  BY DEF PAGE_SIZE
<1>2. p \in Int /\ PAGE_SIZE * p <= y /\ y < PAGE_SIZE * p + PAGE_SIZE
  BY <1>1 DEF PAGE_SIZE
<1> QED
  BY <1>1, <1>2 DEF PAGE_SIZE

\* What the tables say of a class.
LEMMA ClassFacts ==
  ASSUME NEW c \in Classes
  PROVE  \E run \in RunLengths, z \in Int :
           /\ run = btm_sc_run_pages[c] /\ z = btm_sc_to_size[c] /\ z > 0 /\ z % 16 = 0
           /\ 2 * z <= run * PAGE_SIZE /\ nslots(c) = (run * PAGE_SIZE) \div z
<1>1. PICK run \in RunLengths : run = btm_sc_run_pages[c]
  BY RunPages, Zenon
<1>2. PICK e \in Int : 1 <= e /\ e = EndOf(c) /\ btm_sc_to_size[c] = 16 * e
  BY SizeForm, EndInt, SMTT(30)
<1>3. PICK z \in Int : z = 16 * e /\ z > 0 /\ z = btm_sc_to_size[c] /\ z % 16 = 0
  BY <1>2 DEF PAGE_SIZE
<1>4. 2 * z <= run * PAGE_SIZE
  BY RunPages, <1>1, <1>2, <1>3 DEF PAGE_SIZE
<1>5. nslots(c) = (run * PAGE_SIZE) \div z
  BY <1>1, <1>3 DEF nslots, PAGE_SIZE
<1> QED
  BY <1>1, <1>3, <1>4, <1>5, ZenonT(40)

\* The place of a slot in its run, and its alignment.
LEMMA SlotFacts ==
  ASSUME NEW c \in Classes, NEW f, NEW j, SlotOf(c, f, j),
         NEW run, run = btm_sc_run_pages[c], NEW z, z = btm_sc_to_size[c]
  PROVE  /\ run \in RunLengths /\ f \in Int /\ f >= 7 /\ z \in Int /\ z > 0 /\ j \in Int
         /\ j * z \in Int /\ j * z >= 0 /\ j * z + z <= run * PAGE_SIZE
         /\ SlotAt(c, f, j) = f * PAGE_SIZE + j * z
         /\ SlotAt(c, f, j) \in Int /\ SlotAt(c, f, j) % 16 = 0
<1>1. run \in RunLengths /\ z \in Int /\ z > 0 /\ z % 16 = 0
      /\ 2 * z <= run * PAGE_SIZE /\ nslots(c) = (run * PAGE_SIZE) \div z
  BY ClassFacts, Zenon
<1>2. f \in FirstPages(run)
  BY Zenon DEF SlotOf
<1>3. f \in Int /\ f >= 7
  BY <1>1, <1>2, FirstFacts DEF PAGE_SIZE
<1>4. PICK q \in Int : q = (run * PAGE_SIZE) \div z
  BY <1>1, TwoSlots DEF RunLengths, PAGE_SIZE
<1>5. j \in Int /\ j >= 0 /\ j < q
  BY <1>1, <1>4 DEF SlotOf, PAGE_SIZE
<1>6. j * z >= 0 /\ j * z + z <= run * PAGE_SIZE
  BY <1>1, <1>4, <1>5, SlotInRun DEF RunLengths, PAGE_SIZE
<1>7. PICK b \in Int : b = j * z
  BY <1>1, <1>5 DEF PAGE_SIZE
<1>8. SlotAt(c, f, j) = f * PAGE_SIZE + b
  BY <1>7 DEF SlotAt, btm_slab_data, PAGE_SIZE
<1>9. b % 16 = 0
  <2>1. PICK e \in Int : z = 16 * e
    BY <1>1 DEF PAGE_SIZE
  <2>2. b = 16 * (j * e) /\ j * e \in Int
    BY <1>5, <1>7, <2>1, Z3 DEF PAGE_SIZE
  <2> QED
    BY <2>2 DEF PAGE_SIZE
<1>10. SlotAt(c, f, j) \in Int /\ SlotAt(c, f, j) % 16 = 0
  BY <1>3, <1>7, <1>8, <1>9 DEF PAGE_SIZE
<1> QED
  BY <1>1, <1>3, <1>5, <1>6, <1>7, <1>8, <1>10 DEF PAGE_SIZE

\* Every byte of a slot resolves to the slot's slab.
LEMMA ByteFacts ==
  ASSUME NEW c \in Classes, NEW f, NEW j, SlotOf(c, f, j), NEW n \in Bytes(c, f, j)
  PROVE  btm_slab_of(PageOwner(btm_sc_run_pages[c]), n) = f
<1>1. PICK run : run = btm_sc_run_pages[c]
  BY Zenon
<1>2. PICK z : z = btm_sc_to_size[c]
  BY Zenon
<1>0. PICK b : b = j * z
  BY Zenon
<1>3. run \in RunLengths /\ f \in Int /\ f >= 7 /\ z \in Int /\ z > 0
  BY <1>1, <1>2, SlotFacts, Zenon
<1>4. b \in Int /\ b >= 0 /\ b + z <= run * PAGE_SIZE /\ SlotAt(c, f, j) = f * PAGE_SIZE + b
  <2>1. /\ j * z \in Int /\ j * z >= 0 /\ j * z + z <= run * PAGE_SIZE
        /\ SlotAt(c, f, j) = f * PAGE_SIZE + j * z
    BY <1>1, <1>2, SlotFacts, ZenonT(40)
  <2> QED
    BY <1>0, <2>1
<1>5. PICK m \in Int : n = f * PAGE_SIZE + m /\ m >= b /\ m < b + z
  <2>1. n \in Int /\ n >= f * PAGE_SIZE + b /\ n <= f * PAGE_SIZE + b + z - 1
    BY <1>2, <1>3, <1>4 DEF Bytes, PAGE_SIZE
  <2>2. n - f * PAGE_SIZE \in Int /\ n = f * PAGE_SIZE + (n - f * PAGE_SIZE)
    BY <1>3, <2>1 DEF PAGE_SIZE
  <2> QED
    BY <1>3, <1>4, <2>1, <2>2 DEF PAGE_SIZE
<1>6. PICK p : p = (f * PAGE_SIZE + m) \div PAGE_SIZE
  BY DEF PAGE_SIZE
<1>7. p \in Int /\ f <= p /\ p < f + run
  BY <1>3, <1>4, <1>5, <1>6, PageAt DEF RunLengths, PAGE_SIZE
<1>8. f \in FirstPages(run)
  BY <1>1, Zenon DEF SlotOf
<1>9. PageOwner(run)[p] = f
  BY <1>3, <1>7, <1>8, OwnPage, Zenon
<1> QED
  BY <1>1, <1>5, <1>6, <1>9 DEF btm_slab_of, PAGE_SIZE

\* A slot ends before the next one starts.
LEMMA ApartFacts ==
  ASSUME NEW c \in Classes, NEW f, NEW j, SlotOf(c, f, j), NEW g, NEW k, SlotOf(c, g, k),
         Before(f, j, g, k)
  PROVE  SlotAt(c, f, j) + btm_sc_to_size[c] <= SlotAt(c, g, k)
<1>1. PICK run : run = btm_sc_run_pages[c]
  BY Zenon
<1>2. PICK z : z = btm_sc_to_size[c]
  BY Zenon
<1>0. PICK b, d : b = j * z /\ d = k * z
  BY Zenon
<1>3. run \in RunLengths /\ f \in Int /\ z \in Int /\ z > 0 /\ j \in Int
  BY <1>1, <1>2, SlotFacts, Zenon
<1>4. /\ b \in Int /\ b = j * z /\ b >= 0 /\ b + z <= run * PAGE_SIZE
      /\ SlotAt(c, f, j) = f * PAGE_SIZE + b
  <2>1. /\ j * z \in Int /\ j * z >= 0 /\ j * z + z <= run * PAGE_SIZE
        /\ SlotAt(c, f, j) = f * PAGE_SIZE + j * z
    BY <1>1, <1>2, SlotFacts, ZenonT(40)
  <2> QED
    BY <1>0, <2>1
<1>5. g \in Int /\ k \in Int
  BY <1>1, <1>2, SlotFacts, Zenon
<1>6. d \in Int /\ d = k * z /\ d >= 0 /\ SlotAt(c, g, k) = g * PAGE_SIZE + d
  <2>1. /\ k * z \in Int /\ k * z >= 0 /\ SlotAt(c, g, k) = g * PAGE_SIZE + k * z
    BY <1>1, <1>2, SlotFacts, ZenonT(40)
  <2> QED
    BY <1>0, <2>1
<1>7. CASE f < g
  <2>1. f \in FirstPages(run) /\ g \in FirstPages(run)
    BY <1>1, Zenon DEF SlotOf
  <2>2. f + run <= g
    BY <1>3, <1>5, <1>7, <2>1, RunsApart DEF PAGE_SIZE
  <2> QED
    BY <1>2, <1>3, <1>4, <1>5, <1>6, <2>2 DEF RunLengths, PAGE_SIZE
<1>8. CASE f = g /\ j < k
  <2>1. b + z <= d
    <3>1. (j + 1) * z <= k * z
      BY <1>3, <1>5, <1>8, Z3 DEF PAGE_SIZE
    <3>2. (j + 1) * z = j * z + z
      BY <1>3, Z3 DEF PAGE_SIZE
    <3> QED
      BY <1>4, <1>6, <3>1, <3>2 DEF PAGE_SIZE
  <2> QED
    BY <1>2, <1>3, <1>4, <1>5, <1>6, <1>8, <2>1 DEF PAGE_SIZE
<1> QED
  BY <1>7, <1>8 DEF Before

\* A chunk carved up by btm_slab_new is sound for every class of the real tables:
\* slabs inside it, slots aligned and resolved to their slab, caps as stated.
THEOREM AlwaysCarvingRight == ChunkSpec => []CarvingRight
<1>1. ChunkInv => CarvingRight
  <2> SUFFICES ASSUME sc \in Classes, page_owner = PageOwner(btm_sc_run_pages[sc])
               PROVE  SlabsInsideChunk /\ EveryByteResolves /\ ClassFitsHeap
    BY Zenon DEF ChunkInv, CarvingRight
  <2>1. SlabsInsideChunk
    <3> SUFFICES ASSUME NEW run, run = btm_sc_run_pages[sc], NEW f \in FirstPages(run)
                 PROVE  /\ f >= DATA_START_PAGE /\ f + run <= PAGES_PER_CHUNK
                        /\ PAGE_SIZE + (f + 1) * SizeofSlab <= DATA_START_PAGE * PAGE_SIZE
      BY Zenon DEF SlabsInsideChunk
    <3>1. run \in RunLengths
      BY ClassFacts, Zenon
    <3> QED
      BY <3>1, FirstFacts DEF PAGES_PER_CHUNK, PAGE_SIZE, SizeofSlab, RunLengths
  <2>2. EveryByteResolves
    <3> SUFFICES ASSUME NEW f, NEW j, SlotOf(sc, f, j)
                 PROVE  /\ SlotAt(sc, f, j) % 16 = 0
                        /\ btm_slab_of(page_owner, SlotAt(sc, f, j)) = f
                        /\ btm_slab_of(page_owner, SlotAt(sc, f, j) + btm_sc_to_size[sc] - 1) = f
      BY Zenon DEF EveryByteResolves, SlotOf
    <3>1. SlotAt(sc, f, j) % 16 = 0
      BY SlotFacts, Zenon
    <3>2. /\ SlotAt(sc, f, j) \in Bytes(sc, f, j)
          /\ SlotAt(sc, f, j) + btm_sc_to_size[sc] - 1 \in Bytes(sc, f, j)
      <4>1. PICK z : z = btm_sc_to_size[sc]
        BY Zenon
      <4>2. z \in Int /\ z > 0 /\ SlotAt(sc, f, j) \in Int
        BY <4>1, SlotFacts, Zenon
      <4> QED
        BY <4>1, <4>2 DEF Bytes
    <3> QED
      BY <3>1, <3>2, ByteFacts, Zenon
  <2>3. ClassFitsHeap
    <3>1. PICK run \in RunLengths, z \in Int :
            /\ z = btm_sc_to_size[sc] /\ z > 0
            /\ 2 * z <= run * PAGE_SIZE /\ nslots(sc) = (run * PAGE_SIZE) \div z
      BY ClassFacts, Zenon
    <3>2. nslots(sc) >= 2
      BY <3>1, TwoSlots DEF RunLengths, PAGE_SIZE
    <3>3. btm_cache_max_tbl[sc] = LET quot == 16384 \div btm_sc_to_size[sc] IN
            IF quot < 8 THEN 8 ELSE IF quot > 256 THEN 256 ELSE quot
      BY SizeForm, CapOf DEF PAGE_SIZE
    <3> QED
      BY <3>1, <3>2, <3>3 DEF ClassFitsHeap, PAGE_SIZE
  <2> QED
    BY <2>1, <2>2, <2>3 DEF PAGE_SIZE
<1> QED
  BY <1>1, ChunkInductive, PTL

\* No byte of a chunk belongs to two slots, and each resolves to its slab.
THEOREM AlwaysSlotsApart == ChunkSpec => []SlotsApart
<1>1. ChunkInv => SlotsApart
  <2> SUFFICES ASSUME sc \in Classes, page_owner = PageOwner(btm_sc_run_pages[sc]),
                      NEW f, NEW j, SlotOf(sc, f, j)
               PROVE  /\ \A n \in Bytes(sc, f, j) : btm_slab_of(page_owner, n) = f
                      /\ \A g, k : SlotOf(sc, g, k) /\ <<f, j>> # <<g, k>> =>
                           Bytes(sc, f, j) \cap Bytes(sc, g, k) = {}
    BY Zenon DEF ChunkInv, SlotsApart
  <2>1. \A n \in Bytes(sc, f, j) : btm_slab_of(page_owner, n) = f
    BY ByteFacts, Zenon
  <2>2. ASSUME NEW g, NEW k, SlotOf(sc, g, k), <<f, j>> # <<g, k>>
        PROVE  Bytes(sc, f, j) \cap Bytes(sc, g, k) = {}
    <3>1. PICK x \in Int : x = SlotAt(sc, f, j)
      BY SlotFacts, Zenon
    <3>2. PICK y \in Int : y = SlotAt(sc, g, k)
      BY <2>2, SlotFacts, Zenon
    <3>3. PICK z \in Int : z = btm_sc_to_size[sc]
      BY SlotFacts, Zenon
    <3>4. f \in Int /\ j \in Int /\ g \in Int /\ k \in Int
      BY <2>2, SlotFacts, Zenon
    <3>5. Before(f, j, g, k) \/ Before(g, k, f, j)
      BY <2>2, <3>4 DEF Before
    <3>6. x + z <= y \/ y + z <= x
      BY <2>2, <3>1, <3>2, <3>3, <3>5, ApartFacts, Zenon
    <3> QED
      BY <3>1, <3>2, <3>3, <3>6 DEF Bytes, PAGE_SIZE
  <2> QED
    BY <2>1, <2>2, Zenon
<1> QED
  BY <1>1, ChunkInductive, PTL

\* The pages in front of the data pages, and those behind the last run that fits,
\* belong to no slab.
LEMMA NoOwner ==
  ASSUME NEW run \in RunLengths, NEW p \in Pages,
         p < DATA_START_PAGE \/
         \E next \in Nat : /\ next >= DATA_START_PAGE /\ (next - DATA_START_PAGE) % run = 0
                           /\ ~HasRoom(next, run) /\ next <= p
  PROVE  PageOwner(run)[p] = PAGE_NONE
<1>0. DATA_START_PAGE = 7 /\ p \in Int
  BY DEF DATA_START_PAGE, DESC_PAGES, PAGES_PER_CHUNK, SizeofSlab, PAGE_SIZE, Pages
<1>1. PICK r \in Int, f \in Int : r = (p - 7) % run /\ f = p - r /\ r >= 0 /\ r < run
  BY <1>0 DEF RunLengths
<1>2. f \notin FirstPages(run)
  <2>1. CASE p < 7
    BY <1>0, <1>1, <2>1 DEF FirstPages
  <2>2. CASE ~(p < 7)
    <3>1. PICK next \in Nat : next >= 7 /\ (next - 7) % run = 0 /\ next + run > 512 /\ next <= p
      BY <1>0, <2>2 DEF HasRoom, PAGES_PER_CHUNK, RunLengths
    <3>2. PICK x \in Int, y \in Int : x = next - 7 /\ y = p - 7
      BY <1>0
    <3>3. x >= 0 /\ x <= y /\ x % run = 0 /\ r = y % run
      BY <1>0, <1>1, <3>1, <3>2
    <3>4. x <= y - r
      BY <3>3 DEF RunLengths
    <3>5. f + run > 512
      BY <1>0, <1>1, <3>1, <3>2, <3>4 DEF RunLengths
    <3> QED
      BY <1>1, <3>5 DEF FirstPages, HasRoom, PAGES_PER_CHUNK, RunLengths
  <2> QED
    BY <2>1, <2>2
<1>3. f = p - ((p - DATA_START_PAGE) % run)
  BY <1>0, <1>1
<1> QED
  BY <1>2, <1>3, Zenon DEF PageOwner

\* Carve stands for a sequence of calls of btm_slab_new: the header starts without
\* owners, each call enters its run, and when the next run has no room the entries
\* are those that Carve gives.
THEOREM CarvedInSteps ==
  ASSUME NEW run \in RunLengths
  PROVE  /\ CarvedUpTo(run, DATA_START_PAGE) = [p \in Pages |-> PAGE_NONE]
         /\ \A next \in FirstPages(run) :
              CarvedUpTo(run, next + run) =
                [p \in Pages |-> IF p \in Run(next, run) THEN next ELSE CarvedUpTo(run, next)[p]]
         /\ \A next \in Nat :
              /\ next >= DATA_START_PAGE /\ (next - DATA_START_PAGE) % run = 0
              /\ ~HasRoom(next, run)
              => CarvedUpTo(run, next) = PageOwner(run)
<1>1. CarvedUpTo(run, DATA_START_PAGE) = [p \in Pages |-> PAGE_NONE]
  BY NoOwner, Zenon DEF CarvedUpTo
<1>2. ASSUME NEW next \in FirstPages(run)
      PROVE  CarvedUpTo(run, next + run) =
               [p \in Pages |-> IF p \in Run(next, run) THEN next ELSE CarvedUpTo(run, next)[p]]
  <2>1. ASSUME NEW p \in Pages
        PROVE  (IF p < next + run THEN PageOwner(run)[p] ELSE PAGE_NONE) =
                 IF p \in Run(next, run) THEN next ELSE CarvedUpTo(run, next)[p]
    <3>1. p \in Int /\ next \in Int /\ run \in Int /\ run > 0
      BY FirstFacts DEF Pages, PAGES_PER_CHUNK, RunLengths
    <3>2. p \in Run(next, run) <=> next <= p /\ p < next + run
      BY <3>1 DEF Run
    <3>3. p \in Run(next, run) => PageOwner(run)[p] = next
      BY <3>1, <3>2, OwnPage, Zenon
    <3>4. p < next => p < next + run
      BY <3>1
    <3>5. p < next \/ next <= p
      BY <3>1
    <3>6. CarvedUpTo(run, next)[p] = IF p < next THEN PageOwner(run)[p] ELSE PAGE_NONE
      BY Zenon DEF CarvedUpTo
    <3>7. p < next => ~(next <= p)
      BY <3>1
    <3> QED
      BY <3>2, <3>3, <3>4, <3>5, <3>6, <3>7, Zenon
  <2> QED
    BY <2>1, Zenon DEF CarvedUpTo
<1>3. ASSUME NEW next \in Nat, next >= DATA_START_PAGE, (next - DATA_START_PAGE) % run = 0,
             ~HasRoom(next, run)
      PROVE  CarvedUpTo(run, next) = PageOwner(run)
  <2>1. ASSUME NEW p \in Pages
        PROVE  (IF p < next THEN PageOwner(run)[p] ELSE PAGE_NONE) = PageOwner(run)[p]
    <3>1. p < next \/ next <= p
      BY DEF Pages, PAGES_PER_CHUNK
    <3>2. next <= p => PageOwner(run)[p] = PAGE_NONE
      BY <1>3, NoOwner, Zenon
    <3> QED
      BY <3>1, <3>2, Zenon
  <2>2. PageOwner(run) = [p \in Pages |-> PageOwner(run)[p]]
    BY Zenon DEF PageOwner
  <2> QED
    BY <2>1, <2>2, Zenon DEF CarvedUpTo
<1> QED
  BY <1>1, <1>2, <1>3, Zenon
=============================================================================
