------------------------------- MODULE Intern -------------------------------
(***************************************************************************)
(* Call-site interning (BTM_PARTITION_MODE=intern): btm_partition_of and   *)
(* btm_intern_slow of btmalloc.c.  Threads look a return address up in an  *)
(* insert-only open-addressing table that is read without a lock; an empty *)
(* slot is claimed under intern_lock.                                      *)
(***************************************************************************)
EXTENDS Integers, FiniteSets

CONSTANTS
  Threads,
  Sites,        \* return addresses; none is NULL
  Null,         \* the return address of an empty slot or cache
  Cap,          \* intern_cap
  NParts,       \* btm_nparts
  bucket,       \* bucket[ra]: the hash of ra, reduced to the table
  NoThread

ASSUME InternAssumption ==
  /\ Null \notin Sites /\ NoThread \notin Threads
  /\ NParts \in Nat \ {0} /\ Cap \in Nat /\ NParts < Cap
  /\ bucket \in [Sites -> 0..(Cap - 1)]

Slots == 0..(Cap - 1)
Parts == 0..(NParts - 1)

VARIABLES
  tbl_ra, tbl_id,       \* intern_tbl
  intern_next,
  intern_lock,
  pc, key, i, probe,    \* each thread's call of btm_intern_slow
  tls_ra, tls_part,     \* btm_tls_intern_ra, btm_tls_intern_part
  given                 \* every partition a site was ever given, by any thread

tblVars == <<tbl_ra, tbl_id, intern_next>>
callVars == <<pc, key, i, probe>>
tlsVars == <<tls_ra, tls_part, given>>
vars == <<tblVars, intern_lock, callVars, tlsVars>>

Init ==
  /\ tbl_ra = [s \in Slots |-> Null]
  /\ tbl_id = [s \in Slots |-> 0]
  /\ intern_next = 0
  /\ intern_lock = NoThread
  /\ pc = [t \in Threads |-> "idle"]
  /\ key = [t \in Threads |-> Null]
  /\ i = [t \in Threads |-> 0]
  /\ probe = [t \in Threads |-> 0]
  /\ tls_ra = [t \in Threads |-> Null]
  /\ tls_part = [t \in Threads |-> 0]
  /\ given = [k \in Sites |-> {}]

-----------------------------------------------------------------------------
\* id & (btm_nparts - 1), for a power of two.
PartOf(id) == id % NParts

\* The label `done': remember the answer and return it.
Done(t, part) ==
  /\ tls_ra' = [tls_ra EXCEPT ![t] = key[t]]
  /\ tls_part' = [tls_part EXCEPT ![t] = part]
  /\ given' = [given EXCEPT ![key[t]] = @ \cup {part}]
  /\ pc' = [pc EXCEPT ![t] = "idle"]
  /\ UNCHANGED <<key, i, probe>>

\* Mutant: the loop looks for an empty slot and does not count its turns.
AdvanceForever(t) ==
  /\ i' = [i EXCEPT ![t] = IF @ + 1 = Cap THEN 0 ELSE @ + 1]
  /\ pc' = [pc EXCEPT ![t] = "load"]
  /\ UNCHANGED <<key, probe, tlsVars>>

\* The next turn of the probe loop, or the hash when it has come full circle.
Advance(t) ==
  IF probe[t] + 1 < Cap
  THEN /\ probe' = [probe EXCEPT ![t] = @ + 1]
       /\ i' = [i EXCEPT ![t] = IF @ + 1 = Cap THEN 0 ELSE @ + 1]
       /\ pc' = [pc EXCEPT ![t] = "load"]
       /\ UNCHANGED <<key, tlsVars>>
  ELSE Done(t, PartOf(bucket[key[t]]))

\* btm_partition_of: the one-entry cache, or the slow path.
Hit(t, k) ==
  /\ tls_ra[t] = k
  /\ given' = [given EXCEPT ![k] = @ \cup {tls_part[t]}]
  /\ UNCHANGED <<tbl_ra, tbl_id, intern_next, intern_lock, callVars, tls_ra, tls_part>>

Miss(t, k) ==
  /\ tls_ra[t] # k
  /\ pc' = [pc EXCEPT ![t] = "load"]
  /\ key' = [key EXCEPT ![t] = k]
  /\ i' = [i EXCEPT ![t] = bucket[k]]
  /\ probe' = [probe EXCEPT ![t] = 0]
  /\ UNCHANGED <<tblVars, intern_lock, tlsVars>>

btm_partition_of(t, k) == pc[t] = "idle" /\ (Hit(t, k) \/ Miss(t, k))

\* Mutant: the read looks for an empty slot only.
LoadMutant(t) ==
  /\ pc[t] = "load"
  /\ IF tbl_ra[i[t]] = Null
     THEN /\ pc' = [pc EXCEPT ![t] = "claim"]
          /\ UNCHANGED <<key, i, probe, tlsVars>>
     ELSE Advance(t)
  /\ UNCHANGED <<tblVars, intern_lock>>

\* The lock-free read of a slot.
Load(t) ==
  /\ pc[t] = "load"
  /\ CASE tbl_ra[i[t]] = key[t] -> Done(t, PartOf(tbl_id[i[t]]))
       [] tbl_ra[i[t]] = Null ->
            /\ pc' = [pc EXCEPT ![t] = "claim"]
            /\ UNCHANGED <<key, i, probe, tlsVars>>
       [] OTHER -> Advance(t)
  /\ UNCHANGED <<tblVars, intern_lock>>

\* Mutant: the slot is not read again under the lock.
ClaimMutant(t) ==
  /\ pc[t] = "claim"
  /\ intern_lock = NoThread
  /\ intern_lock' = t
  /\ intern_next' = intern_next + 1
  /\ tbl_id' = [tbl_id EXCEPT ![i[t]] = intern_next]
  /\ pc' = [pc EXCEPT ![t] = "publish"]
  /\ UNCHANGED <<tbl_ra, key, i, probe, tlsVars>>

\* Mutant: a slot that another site took meanwhile is taken for ours.
ClaimTakenMutant(t) ==
  /\ pc[t] = "claim"
  /\ intern_lock = NoThread
  /\ \/ /\ tbl_ra[i[t]] = Null
        /\ intern_lock' = t
        /\ intern_next' = intern_next + 1
        /\ tbl_id' = [tbl_id EXCEPT ![i[t]] = intern_next]
        /\ pc' = [pc EXCEPT ![t] = "publish"]
        /\ UNCHANGED <<tbl_ra, key, i, probe, tlsVars>>
     \/ /\ tbl_ra[i[t]] # Null
        /\ Done(t, PartOf(tbl_id[i[t]]))
        /\ UNCHANGED <<tblVars, intern_lock>>

\* Under the lock, the slot is read again: still empty, it gets the next id;
\* taken meanwhile, it is ours or another site's.
Claim(t) ==
  /\ pc[t] = "claim"
  /\ intern_lock = NoThread
  /\ \/ /\ tbl_ra[i[t]] = Null
        /\ intern_lock' = t
        /\ intern_next' = intern_next + 1
        /\ tbl_id' = [tbl_id EXCEPT ![i[t]] = intern_next]
        /\ pc' = [pc EXCEPT ![t] = "publish"]
        /\ UNCHANGED <<tbl_ra, key, i, probe, tlsVars>>
     \/ /\ tbl_ra[i[t]] = key[t]
        /\ Done(t, PartOf(tbl_id[i[t]]))
        /\ UNCHANGED <<tblVars, intern_lock>>
     \/ /\ tbl_ra[i[t]] \notin {Null, key[t]}
        /\ Advance(t)
        /\ UNCHANGED <<tblVars, intern_lock>>

\* The release store of the return address makes the entry visible.
Publish(t) ==
  /\ pc[t] = "publish"
  /\ tbl_ra' = [tbl_ra EXCEPT ![i[t]] = key[t]]
  /\ intern_lock' = NoThread
  /\ Done(t, PartOf(tbl_id[i[t]]))
  /\ UNCHANGED <<tbl_id, intern_next>>

btm_intern_slow(t) == Load(t) \/ Claim(t) \/ Publish(t)

Next == \E t \in Threads : btm_intern_slow(t) \/ \E k \in Sites : btm_partition_of(t, k)

Spec == Init /\ [][Next]_vars

\* A thread inside the call is scheduled.  No fairness of intern_lock is needed:
\* it is held across steps once for each entry, and then never again.
Fairness == \A t \in Threads : WF_vars(btm_intern_slow(t))

FairSpec == Spec /\ Fairness

-----------------------------------------------------------------------------
(* Properties *)

TypeOK ==
  /\ tbl_ra \in [Slots -> Sites \cup {Null}]
  /\ tbl_id \in [Slots -> Nat]
  /\ intern_next \in Nat
  /\ intern_lock \in Threads \cup {NoThread}
  /\ pc \in [Threads -> {"idle", "load", "claim", "publish"}]
  /\ key \in [Threads -> Sites \cup {Null}]
  /\ i \in [Threads -> Slots]
  /\ probe \in [Threads -> Slots]
  /\ tls_ra \in [Threads -> Sites \cup {Null}]
  /\ tls_part \in [Threads -> Parts]
  /\ given \in [Sites -> SUBSET Parts]

Used == {s \in Slots : tbl_ra[s] # Null}

\* No call site has two entries in the table, and no two entries have the same
\* id, however the lookups and the claims of btm_intern_slow interleave.
EntriesUnique ==
  \A s, r \in Used :
    tbl_ra[s] = tbl_ra[r] \/ tbl_id[s] = tbl_id[r] => s = r

\* A call site is given the same partition by every thread and for ever, also
\* when the table is full: "a stable unique partition per distinct call site"
\* (internal.h:376).
PartitionStable ==
  \A k \in Sites : \A p, q \in given[k] : p = q

\* "Distinct call sites therefore get distinct partitions until nparts is
\* exhausted" (btmalloc.c:45).
FirstSitesApart ==
  intern_next <= NParts =>
    \A k, l \in Sites : k # l => given[k] \cap given[l] = {}

\* Every lookup returns: the probe loop ends and the lock is passed on.
LookupReturns == \A t \in Threads : pc[t] # "idle" ~> pc[t] = "idle"
=============================================================================
