--------------------------- MODULE ProcessProofs ----------------------------
(***************************************************************************)
(* Proofs about Process, for any number of threads and calls.              *)
(*                                                                         *)
(* The lock order rests on a property of the sequence q of steps a thread  *)
(* still has to do.  Every step has a level: the rank of the lock it takes *)
(* or releases, or the least rank of a lock that the called function can   *)
(* ask for.  Nested(q, H), for a thread that holds the locks H, says that  *)
(* between a lock and its unlock there are only steps of a higher level,   *)
(* and that every lock of H has its unlock ahead in this sense.  Replacing *)
(* a call by a path that is itself well nested (Fine) keeps it.            *)
(***************************************************************************)
EXTENDS Process, Integers, TLAPS

Funs == {"malloc", "partition_of", "refill", "flush", "obtain", "map_fresh", "bg_signal",
         "dispose", "unmap", "once", "build", "publish", "tls", "start", "create", "spawn"}

LockStep(l) == <<"lock", l>>
UnlockStep(l) == <<"unlock", l>>
CallStep(f) == <<f>>

Steps == {LockStep(l) : l \in Locks} \cup {UnlockStep(l) : l \in Locks} \cup {CallStep(f) : f \in Funs}

\* The least rank of a lock that f can ask for, in the calls that are made.
Low(f) == CASE f \in {"tls", "start"} -> 0
            [] f \in {"malloc", "refill", "flush", "create"} -> 1
            [] f \in {"once", "build", "publish", "spawn"} -> 3
            [] OTHER -> 2

Level(e) == IF e[1] \in {"lock", "unlock"} THEN Rank(e[2]) ELSE Low(e[1])

\* Between the positions i and j of q there are only steps of a level above l's.
Inside(q, l, i, j) == \A k \in (i + 1)..(j - 1) : Level(q[k]) > Rank(l)

Closed(q) ==
  \A i \in 1..Len(q), l \in Locks : q[i] = LockStep(l) =>
    \E j \in (i + 1)..Len(q) : q[j] = UnlockStep(l) /\ Inside(q, l, i, j)

\* A well-nested path of steps of level n or more.
Fine(s, n) ==
  /\ s \in Seq(Steps)
  /\ \A i \in 1..Len(s) : Level(s[i]) >= n
  /\ Closed(s)
  /\ \A j \in 1..Len(s), l \in Locks : s[j] = UnlockStep(l) =>
       \E i \in 1..(j - 1) : s[i] = LockStep(l) /\ Inside(s, l, i, j)

\* What is left of such a path, for a thread that holds the locks H.
Nested(q, H) ==
  /\ q \in Seq(Steps)
  /\ Closed(q)
  /\ \A j \in 1..Len(q), l \in Locks : q[j] = UnlockStep(l) =>
       \/ \E i \in 1..(j - 1) : q[i] = LockStep(l) /\ Inside(q, l, i, j)
       \/ l \in H /\ Inside(q, l, 0, j)
  /\ \A l \in H : l \in Locks /\ \E j \in 1..Len(q) : q[j] = UnlockStep(l) /\ Inside(q, l, 0, j)

-----------------------------------------------------------------------------
(* Sequences *)

\* The length and the positions of a sequence.
LEMMA SeqLen ==
  ASSUME NEW S, NEW s \in Seq(S)
  PROVE  Len(s) \in Nat /\ DOMAIN s = 1..Len(s) /\ s \in [1..Len(s) -> S]
OBVIOUS

\* What is at a position of a sequence.
LEMMA SeqElement ==
  ASSUME NEW S, NEW s \in Seq(S), NEW i \in 1..Len(s)
  PROVE  s[i] \in S
OBVIOUS

\* The empty sequence is the one of length 0.
LEMMA SeqEmpty ==
  ASSUME NEW S
  PROVE  <<>> \in Seq(S) /\ Len(<<>>) = 0 /\ \A s \in Seq(S) : s # <<>> => Len(s) \in Nat \ {0}
OBVIOUS

\* The first step of a thread and what is left after it.
LEMMA SeqHeadTail ==
  ASSUME NEW S, NEW s \in Seq(S), s # <<>>
  PROVE  /\ Head(s) \in S /\ Tail(s) \in Seq(S) /\ Len(Tail(s)) = Len(s) - 1
         /\ \A i \in 1..Len(Tail(s)) : Tail(s)[i] = s[i + 1]
OBVIOUS

\* One sequence after another.
LEMMA SeqConcat ==
  ASSUME NEW S, NEW s \in Seq(S), NEW t \in Seq(S)
  PROVE  /\ s \o t \in Seq(S) /\ Len(s \o t) = Len(s) + Len(t)
         /\ \A i \in 1..(Len(s) + Len(t)) :
              (s \o t)[i] = IF i <= Len(s) THEN s[i] ELSE t[i - Len(s)]
OBVIOUS

-----------------------------------------------------------------------------
(* Steps and levels *)

\* Ranks and levels are numbers, and the kinds of steps differ.
LEMMA StepFacts ==
  /\ \A l \in Locks : Rank(l) \in {0, 1, 2}
  /\ \A l \in Locks : LockStep(l) \in Steps /\ UnlockStep(l) \in Steps
  /\ \A f \in Funs : CallStep(f) \in Steps
  /\ \A l, k \in Locks : /\ LockStep(l) # UnlockStep(k)
                         /\ LockStep(l) = LockStep(k) => l = k
                         /\ UnlockStep(l) = UnlockStep(k) => l = k
  /\ \A l \in Locks, f \in Funs : CallStep(f) # LockStep(l) /\ CallStep(f) # UnlockStep(l)
  /\ \A f, g \in Funs : CallStep(f) = CallStep(g) => f = g
BY Zenon DEF Rank, LockStep, UnlockStep, CallStep, Steps, Locks, Funs

\* A lock's steps have its rank as their level; a call has its function's.
LEMMA LevelFacts ==
  /\ \A l \in Locks : Level(LockStep(l)) = Rank(l) /\ Level(UnlockStep(l)) = Rank(l)
  /\ \A f \in Funs : Level(CallStep(f)) = Low(f) /\ Low(f) \in {0, 1, 2, 3}
  /\ \A e \in Steps : Level(e) \in {0, 1, 2, 3}
<1>1. \A l \in Locks : Level(LockStep(l)) = Rank(l) /\ Level(UnlockStep(l)) = Rank(l)
  BY Zenon DEF Level, LockStep, UnlockStep
<1>2. \A f \in Funs : Level(CallStep(f)) = Low(f)
  BY Zenon DEF Level, CallStep, Funs
<1>3. \A f \in Funs : Low(f) \in {0, 1, 2, 3}
  BY Zenon DEF Low
<1>4. \A l \in Locks : Rank(l) \in {0, 1, 2, 3}
  BY Zenon DEF Rank
<1> QED BY Zenon, <1>1, <1>2, <1>3, <1>4 DEF Steps

\* The positions of the sequence in which the path s replaces the head of q.
LEMMA Spliced ==
  ASSUME NEW q \in Seq(Steps), q # <<>>, NEW s \in Seq(Steps)
  PROVE  /\ s \o Tail(q) \in Seq(Steps)
         /\ Len(q) \in Nat \ {0} /\ Len(s) \in Nat
         /\ Len(s \o Tail(q)) = Len(s) + Len(q) - 1
         /\ \A i \in 1..Len(s) : (s \o Tail(q))[i] = s[i]
         /\ \A i \in (Len(s) + 1)..(Len(s) + Len(q) - 1) : (s \o Tail(q))[i] = q[i - Len(s) + 1]
         /\ \A i \in 2..Len(q) : (s \o Tail(q))[Len(s) + i - 1] = q[i]
<1>1. Tail(q) \in Seq(Steps) /\ Len(Tail(q)) = Len(q) - 1 /\ Len(q) \in Nat \ {0} /\ Len(s) \in Nat
  BY Zenon, SeqHeadTail, SeqEmpty, SeqLen
<1>2. \A i \in 1..Len(Tail(q)) : Tail(q)[i] = q[i + 1]
  BY Zenon, SeqHeadTail
<1>3. /\ s \o Tail(q) \in Seq(Steps) /\ Len(s \o Tail(q)) = Len(s) + Len(Tail(q))
      /\ \A i \in 1..(Len(s) + Len(Tail(q))) :
           (s \o Tail(q))[i] = IF i <= Len(s) THEN s[i] ELSE Tail(q)[i - Len(s)]
  BY Zenon, <1>1, SeqConcat
<1>4. \A i \in 1..Len(s) : (s \o Tail(q))[i] = s[i]
  BY <1>1, <1>3
<1>5. ASSUME NEW i \in (Len(s) + 1)..(Len(s) + Len(q) - 1)
      PROVE  (s \o Tail(q))[i] = q[i - Len(s) + 1]
  <2>1. i - Len(s) \in 1..Len(Tail(q)) /\ i \in 1..(Len(s) + Len(Tail(q))) /\ ~(i <= Len(s))
    BY <1>1
  <2> QED BY Zenon, <1>2, <1>3, <2>1
<1>6. ASSUME NEW i \in 2..Len(q)
      PROVE  (s \o Tail(q))[Len(s) + i - 1] = q[i]
  <2>1. Len(s) + i - 1 \in (Len(s) + 1)..(Len(s) + Len(q) - 1) /\ (Len(s) + i - 1) - Len(s) + 1 = i
    BY <1>1
  <2> QED BY Zenon, <1>5, <2>1
<1> QED BY Zenon, <1>1, <1>3, <1>4, <1>5, <1>6

\* A nesting is kept when the steps between two positions are moved together.
LEMMA InsideMoved ==
  ASSUME NEW q, NEW w, NEW l, NEW i \in Int, NEW j \in Int, NEW d \in Int,
         \A k \in (i + 1)..(j - 1) : w[k + d] = q[k],
         Inside(q, l, i, j)
  PROVE  Inside(w, l, i + d, j + d)
<1> SUFFICES ASSUME NEW k \in (i + d + 1)..(j + d - 1) PROVE Level(w[k]) > Rank(l)
  BY DEF Inside
<1>1. k - d \in (i + 1)..(j - 1) /\ (k - d) + d = k
  OBVIOUS
<1>2. w[k] = q[k - d]
  BY Zenon, <1>1
<1> QED BY Zenon, <1>1, <1>2 DEF Inside

-----------------------------------------------------------------------------
(* Well-nested paths *)

\* The path that does nothing.
LEMMA FineEmpty ==
  ASSUME NEW n \in Nat
  PROVE  Fine(<<>>, n)
<1>1. <<>> \in Seq(Steps) /\ Len(<<>>) = 0
  BY Zenon, SeqEmpty
<1> QED BY <1>1 DEF Fine, Closed

\* A single call.
LEMMA FineCall ==
  ASSUME NEW f \in Funs, NEW n \in Nat, n <= Low(f)
  PROVE  Fine(Call(f), n)
<1>1. Call(f) = <<CallStep(f)>>
  BY Zenon DEF Call, CallStep
<1>2. Call(f) \in Seq(Steps) /\ Len(Call(f)) = 1 /\ Call(f)[1] = CallStep(f)
  BY <1>1, StepFacts
<1>3. \A i \in 1..Len(Call(f)) : i = 1 /\ Call(f)[i] = CallStep(f)
  BY <1>2
<1>4. \A i \in 1..Len(Call(f)), l \in Locks :
         Call(f)[i] # LockStep(l) /\ Call(f)[i] # UnlockStep(l)
  BY Zenon, <1>3, StepFacts
<1>5. \A i \in 1..Len(Call(f)) : Level(Call(f)[i]) >= n
  BY Zenon, <1>3, LevelFacts
<1> QED BY Zenon, <1>2, <1>4, <1>5 DEF Fine, Closed

\* One path after another.
LEMMA FineConcat ==
  ASSUME NEW n \in Nat, NEW s, NEW t, Fine(s, n), Fine(t, n)
  PROVE  Fine(s \o t, n)
<1> DEFINE w == s \o t
           d == Len(s)
<1>1. s \in Seq(Steps) /\ t \in Seq(Steps) /\ d \in Nat /\ Len(t) \in Nat
  BY Zenon, SeqLen DEF Fine
<1>2. /\ w \in Seq(Steps) /\ Len(w) = d + Len(t)
      /\ \A i \in 1..(d + Len(t)) : w[i] = IF i <= d THEN s[i] ELSE t[i - d]
  BY Zenon, <1>1, SeqConcat
<1>3. \A i \in 1..d : w[i] = s[i]
  BY <1>1, <1>2
<1>4. \A i \in (d + 1)..(d + Len(t)) : i - d \in 1..Len(t) /\ w[i] = t[i - d]
  BY <1>1, <1>2
<1>5. \A i \in 1..Len(t) : i + d \in 1..Len(w) /\ w[i + d] = t[i]
  BY <1>1, <1>2
<1> HIDE DEF w, d
<1>6. \A i \in 1..Len(w) : Level(w[i]) >= n
  <2> SUFFICES ASSUME NEW i \in 1..Len(w) PROVE Level(w[i]) >= n
    BY Zenon
  <2>1. CASE i <= d
    <3>1. i \in 1..Len(s)
      BY <1>1, <1>2, <2>1 DEF d
    <3> QED BY Zenon, <1>3, <3>1 DEF Fine, d
  <2>2. CASE ~(i <= d)
    <3>1. i \in (d + 1)..(d + Len(t))
      BY <1>1, <1>2, <2>2
    <3> QED BY Zenon, <1>4, <3>1 DEF Fine
  <2> QED BY Zenon, <2>1, <2>2
<1>7. Closed(w)
  <2> SUFFICES ASSUME NEW i \in 1..Len(w), NEW l \in Locks, w[i] = LockStep(l)
               PROVE  \E j \in (i + 1)..Len(w) : w[j] = UnlockStep(l) /\ Inside(w, l, i, j)
    BY Zenon DEF Closed
  <2>1. CASE i <= d
    <3>1. i \in 1..Len(s) /\ s[i] = LockStep(l)
      BY <1>1, <1>2, <1>3, <2>1 DEF d
    <3>2. PICK j \in (i + 1)..Len(s) : s[j] = UnlockStep(l) /\ Inside(s, l, i, j)
      BY Zenon, <3>1 DEF Fine, Closed
    <3>3. j \in (i + 1)..Len(w) /\ w[j] = UnlockStep(l)
      BY <1>1, <1>2, <1>3, <3>2 DEF d
    <3>4. Inside(w, l, i, j)
      BY SMTT(30), <1>1, <1>3, <3>1, <3>2 DEF Inside, d
    <3> QED BY Zenon, <3>3, <3>4
  <2>2. CASE ~(i <= d)
    <3>1. i \in (d + 1)..(d + Len(t))
      BY <1>1, <1>2, <2>2
    <3>2. i - d \in 1..Len(t) /\ t[i - d] = LockStep(l)
      BY Zenon, <1>4, <3>1
    <3>3. PICK j \in (i - d + 1)..Len(t) : t[j] = UnlockStep(l) /\ Inside(t, l, i - d, j)
      BY Zenon, <3>2 DEF Fine, Closed
    <3>4. j + d \in (i + 1)..Len(w) /\ w[j + d] = UnlockStep(l)
      BY <1>1, <1>2, <1>5, <3>1, <3>3
    <3>5. ASSUME NEW k \in (i - d + 1)..(j - 1) PROVE w[k + d] = t[k]
      <4>1. k \in 1..Len(t)
        BY <1>1, <3>1, <3>3
      <4> QED BY Zenon, <1>5, <4>1
    <3>6. Inside(w, l, (i - d) + d, j + d)
      <4>1. i - d \in Int /\ j \in Int /\ d \in Int
        BY <1>1, <3>1, <3>3
      <4> QED BY Zenon, <3>3, <3>5, <4>1, InsideMoved
    <3>7. (i - d) + d = i
      BY <1>1, <3>1
    <3> QED BY Zenon, <3>4, <3>6, <3>7
  <2> QED BY Zenon, <2>1, <2>2
<1>8. ASSUME NEW j \in 1..Len(w), NEW l \in Locks, w[j] = UnlockStep(l)
      PROVE  \E i \in 1..(j - 1) : w[i] = LockStep(l) /\ Inside(w, l, i, j)
  <2>1. CASE j <= d
    <3>1. j \in 1..Len(s) /\ s[j] = UnlockStep(l)
      BY <1>1, <1>2, <1>3, <1>8, <2>1 DEF d
    <3>2. PICK i \in 1..(j - 1) : s[i] = LockStep(l) /\ Inside(s, l, i, j)
      BY Zenon, <3>1 DEF Fine
    <3>3. w[i] = LockStep(l) /\ Inside(w, l, i, j)
      BY <1>1, <1>3, <3>1, <3>2 DEF Inside, d
    <3> QED BY Zenon, <3>3
  <2>2. CASE ~(j <= d)
    <3>1. j \in (d + 1)..(d + Len(t))
      BY <1>1, <1>2, <2>2
    <3>2. j - d \in 1..Len(t) /\ t[j - d] = UnlockStep(l)
      BY Zenon, <1>4, <1>8, <3>1
    <3>3. PICK i \in 1..(j - d - 1) : t[i] = LockStep(l) /\ Inside(t, l, i, j - d)
      BY Zenon, <3>2 DEF Fine
    <3>4. i + d \in 1..(j - 1) /\ w[i + d] = LockStep(l)
      BY SMTT(30), <1>1, <1>5, <3>1, <3>3
    <3>5. ASSUME NEW k \in (i + 1)..(j - d - 1) PROVE w[k + d] = t[k]
      <4>1. k \in 1..Len(t)
        BY <1>1, <3>1, <3>3
      <4> QED BY Zenon, <1>5, <4>1
    <3>6. Inside(w, l, i + d, (j - d) + d)
      <4>1. j - d \in Int /\ i \in Int /\ d \in Int
        BY <1>1, <3>1, <3>3
      <4> QED BY Zenon, <3>3, <3>5, <4>1, InsideMoved
    <3>7. (j - d) + d = j
      BY <1>1, <3>1
    <3> QED BY Zenon, <3>4, <3>6, <3>7
  <2> QED BY Zenon, <2>1, <2>2
<1> QED BY Zenon, <1>2, <1>6, <1>7, <1>8 DEF Fine, w

\* A section: a path of a higher level with the lock held.
LEMMA FineSec ==
  ASSUME NEW n \in Nat, NEW l \in Locks, n <= Rank(l), NEW b, Fine(b, Rank(l) + 1)
  PROVE  Fine(Sec(l, b), n)
<1> DEFINE w == Sec(l, b)
           d == Len(b)
<1>1. b \in Seq(Steps) /\ d \in Nat /\ Rank(l) \in Nat
  BY SeqLen, StepFacts DEF Fine
<1>2. <<LockStep(l)>> \in Seq(Steps) /\ Len(<<LockStep(l)>>) = 1 /\ <<LockStep(l)>>[1] = LockStep(l)
  BY StepFacts
<1>3. <<UnlockStep(l)>> \in Seq(Steps) /\ Len(<<UnlockStep(l)>>) = 1 /\ <<UnlockStep(l)>>[1] = UnlockStep(l)
  BY StepFacts
<1>4. w = (<<LockStep(l)>> \o b) \o <<UnlockStep(l)>>
  BY Zenon DEF Sec, LockStep, UnlockStep
<1> DEFINE v == <<LockStep(l)>> \o b
<1>5. /\ v \in Seq(Steps) /\ Len(v) = 1 + d
      /\ \A i \in 1..(1 + d) : v[i] = IF i <= 1 THEN <<LockStep(l)>>[i] ELSE b[i - 1]
  BY Zenon, <1>1, <1>2, SeqConcat
<1> HIDE DEF v
<1>6. /\ w \in Seq(Steps) /\ Len(w) = d + 2
      /\ \A i \in 1..(d + 2) : w[i] = IF i <= d + 1 THEN v[i] ELSE <<UnlockStep(l)>>[i - (d + 1)]
  <2>1. /\ w \in Seq(Steps) /\ Len(w) = Len(v) + Len(<<UnlockStep(l)>>)
        /\ \A i \in 1..(Len(v) + Len(<<UnlockStep(l)>>)) :
             w[i] = IF i <= Len(v) THEN v[i] ELSE <<UnlockStep(l)>>[i - Len(v)]
    BY <1>3, <1>4, <1>5, SeqConcat DEF v
  <2>2. Len(v) + Len(<<UnlockStep(l)>>) = d + 2 /\ Len(v) = d + 1
    BY <1>1, <1>3, <1>5
  <2> QED BY Zenon, <2>1, <2>2
<1>7. w[1] = LockStep(l)
  BY <1>1, <1>2, <1>5, <1>6
<1>8. w[d + 2] = UnlockStep(l)
  <2>1. d + 2 \in 1..(d + 2) /\ ~(d + 2 <= d + 1) /\ (d + 2) - (d + 1) = 1
    BY <1>1
  <2> QED BY Zenon, <1>3, <1>6, <2>1
<1>9. \A i \in 1..d : i + 1 \in 1..Len(w) /\ w[i + 1] = b[i]
  <2> SUFFICES ASSUME NEW i \in 1..d PROVE i + 1 \in 1..Len(w) /\ w[i + 1] = b[i]
    BY Zenon
  <2>1. /\ i + 1 \in 1..(d + 2) /\ i + 1 <= d + 1 /\ i + 1 \in 1..(1 + d) /\ ~(i + 1 <= 1)
        /\ (i + 1) - 1 = i
    BY <1>1
  <2> QED BY Zenon, <1>5, <1>6, <2>1
<1>10. \A i \in 1..Len(w) : i = 1 \/ i = d + 2 \/ i - 1 \in 1..d
  BY <1>1, <1>6
<1>11. \A i \in 2..(d + 1) : w[i] = b[i - 1] /\ i - 1 \in 1..d
  <2> SUFFICES ASSUME NEW i \in 2..(d + 1) PROVE w[i] = b[i - 1] /\ i - 1 \in 1..d
    BY Zenon
  <2>1. i - 1 \in 1..d /\ (i - 1) + 1 = i
    BY <1>1
  <2> QED BY Zenon, <1>9, <2>1
<1> HIDE DEF w, d
<1>12. \A i \in 1..d : b[i] \in Steps /\ Level(b[i]) > Rank(l) /\ Level(b[i]) >= n
  <2> SUFFICES ASSUME NEW i \in 1..d PROVE b[i] \in Steps /\ Level(b[i]) > Rank(l) /\ Level(b[i]) >= n
    BY Zenon
  <2>1. Level(b[i]) >= Rank(l) + 1 /\ b[i] \in Steps
    BY Zenon, <1>1, SeqElement DEF Fine, d
  <2>2. Level(b[i]) \in Nat
    BY <2>1, LevelFacts
  <2> QED BY <1>1, <2>1, <2>2
<1>13. \A i \in 1..Len(w) : Level(w[i]) >= n
  <2> SUFFICES ASSUME NEW i \in 1..Len(w) PROVE Level(w[i]) >= n
    BY Zenon
  <2>1. CASE i = 1 \/ i = d + 2
    BY Zenon, <1>7, <1>8, <2>1, LevelFacts
  <2>2. CASE i - 1 \in 1..d
    <3>1. (i - 1) + 1 = i
      OBVIOUS
    <3> QED BY Zenon, <1>9, <1>12, <2>2, <3>1
  <2> QED BY Zenon, <1>10, <2>1, <2>2
<1>14. Inside(w, l, 1, d + 2)
  BY <1>1, <1>11, <1>12 DEF Inside
<1>15. ASSUME NEW i \in 1..Len(w), NEW k \in Locks, w[i] = LockStep(k)
       PROVE  \E j \in (i + 1)..Len(w) : w[j] = UnlockStep(k) /\ Inside(w, k, i, j)
  <2>1. CASE i = 1
    <3>1. k = l /\ d + 2 \in (i + 1)..Len(w)
      BY <1>1, <1>6, <1>7, <1>15, <2>1, StepFacts
    <3> QED BY Zenon, <1>8, <1>14, <2>1, <3>1
  <2>2. CASE i = d + 2
    BY Zenon, <1>8, <1>15, <2>2, StepFacts
  <2>3. CASE i - 1 \in 1..d
    <3>1. i - 1 \in 1..Len(b) /\ b[i - 1] = LockStep(k) /\ (i - 1) + 1 = i
      BY <1>9, <1>15, <2>3 DEF d
    <3>2. PICK j \in (i - 1 + 1)..Len(b) : b[j] = UnlockStep(k) /\ Inside(b, k, i - 1, j)
      BY Zenon, <3>1 DEF Fine, Closed
    <3>3. j \in 1..d /\ j + 1 \in (i + 1)..Len(w)
      BY <1>1, <1>6, <3>1, <3>2 DEF d
    <3>4. \A m \in (i - 1 + 1)..(j - 1) : w[m + 1] = b[m]
      <4> SUFFICES ASSUME NEW m \in (i - 1 + 1)..(j - 1) PROVE w[m + 1] = b[m]
        BY Zenon
      <4>1. m \in 1..d
        BY <1>1, <3>1, <3>3
      <4> QED BY Zenon, <1>9, <4>1
    <3>5. Inside(w, k, (i - 1) + 1, j + 1)
      <4>1. i - 1 \in Int /\ j \in Int /\ 1 \in Int
        BY <3>1, <3>3
      <4> QED BY Zenon, <3>2, <3>4, <4>1, InsideMoved
    <3> QED BY Zenon, <1>9, <3>1, <3>2, <3>3, <3>5
  <2> QED BY Zenon, <1>10, <2>1, <2>2, <2>3
<1>16. ASSUME NEW j \in 1..Len(w), NEW k \in Locks, w[j] = UnlockStep(k)
       PROVE  \E i \in 1..(j - 1) : w[i] = LockStep(k) /\ Inside(w, k, i, j)
  <2>1. CASE j = 1
    BY Zenon, <1>7, <1>16, <2>1, StepFacts
  <2>2. CASE j = d + 2
    <3>1. k = l /\ 1 \in 1..(j - 1)
      BY <1>1, <1>8, <1>16, <2>2, StepFacts
    <3> QED BY Zenon, <1>7, <1>14, <2>2, <3>1
  <2>3. CASE j - 1 \in 1..d
    <3>1. j - 1 \in 1..Len(b) /\ b[j - 1] = UnlockStep(k) /\ (j - 1) + 1 = j
      BY <1>9, <1>16, <2>3 DEF d
    <3>2. PICK i \in 1..(j - 1 - 1) : b[i] = LockStep(k) /\ Inside(b, k, i, j - 1)
      BY Zenon, <3>1 DEF Fine
    <3>3. i \in 1..d /\ i + 1 \in 1..(j - 1)
      BY <1>1, <3>1, <3>2 DEF d
    <3>4. \A m \in (i + 1)..(j - 1 - 1) : w[m + 1] = b[m]
      BY <1>1, <1>9, <3>1, <3>3 DEF d
    <3>5. Inside(w, k, i + 1, (j - 1) + 1)
      <4>1. j - 1 \in Int /\ i \in Int /\ 1 \in Int
        BY <3>1, <3>3
      <4> QED BY Zenon, <3>2, <3>4, <4>1, InsideMoved
    <3> QED BY Zenon, <1>9, <3>1, <3>2, <3>3, <3>5
  <2> QED BY Zenon, <1>10, <2>1, <2>2, <2>3
<1> QED BY Zenon, <1>6, <1>13, <1>15, <1>16 DEF Fine, Closed, w

-----------------------------------------------------------------------------
(* What is left of a path *)

\* A thread that starts a call holds nothing.
LEMMA NestedStart ==
  ASSUME NEW s, NEW n \in Nat, Fine(s, n)
  PROVE  Nested(s, {})
BY Zenon DEF Fine, Nested

\* A thread that has nothing to do holds nothing, and the other way round.
LEMMA NestedEmpty ==
  /\ Nested(<<>>, {})
  /\ \A H : Nested(<<>>, H) => H = {}
<1>1. <<>> \in Seq(Steps) /\ Len(<<>>) = 0 /\ 1..Len(<<>>) = {}
  BY SeqEmpty
<1>2. Nested(<<>>, {})
  BY Zenon, <1>1 DEF Nested, Closed
<1>3. \A H : Nested(<<>>, H) => H = {}
  BY Zenon, <1>1 DEF Nested
<1> QED BY Zenon, <1>2, <1>3

\* The path s in place of the head of q gives w, in which the other steps have
\* moved by d, and the nestings among them too.
Shift(q, s, w, d) ==
  /\ w \in Seq(Steps) /\ d \in Int /\ Len(q) \in Nat \ {0} /\ Len(w) = Len(q) + d
  /\ \A i \in 1..Len(s) : i \in 1..Len(w) /\ w[i] = s[i]
  /\ \A i \in 2..Len(q) : i + d \in (Len(s) + 1)..Len(w) /\ w[i + d] = q[i]
  /\ \A i \in 1..Len(w) : i \in 1..Len(s) \/ (i - d \in 2..Len(q) /\ w[i] = q[i - d])
  /\ \A i \in 1..Len(q), j \in 1..Len(q), k \in Locks :
       Inside(q, k, i, j) => Inside(w, k, i + d, j + d)
  /\ \A j \in 2..Len(q), k \in Locks :
       Inside(q, k, 0, j) => /\ Level(q[1]) > Rank(k)
                             /\ (\A i \in 1..Len(s) : Level(s[i]) > Rank(k)) =>
                                  Inside(w, k, 0, j + d)

\* The path s in place of the head of q: the other steps move together, and so
\* do the nestings among them.
LEMMA Moved ==
  ASSUME NEW q \in Seq(Steps), q # <<>>, NEW s \in Seq(Steps), NEW w, w = s \o Tail(q),
         NEW d, d = Len(s) - 1
  PROVE  Shift(q, s, w, d)
<1>1. /\ w \in Seq(Steps) /\ Len(q) \in Nat \ {0} /\ Len(s) \in Nat
      /\ Len(w) = Len(s) + Len(q) - 1
      /\ \A i \in 1..Len(s) : w[i] = s[i]
      /\ \A i \in 2..Len(q) : w[Len(s) + i - 1] = q[i]
  BY Spliced
<1>2. d \in Int /\ Len(w) = Len(q) + d
  BY <1>1
<1>3. \A i \in 1..Len(s) : i \in 1..Len(w) /\ w[i] = s[i]
  BY <1>1
<1>4. \A i \in 2..Len(q) : i + d \in (Len(s) + 1)..Len(w) /\ w[i + d] = q[i]
  <2> SUFFICES ASSUME NEW i \in 2..Len(q) PROVE i + d \in (Len(s) + 1)..Len(w) /\ w[i + d] = q[i]
    BY Zenon
  <2>1. i + d \in (Len(s) + 1)..Len(w) /\ i + d = Len(s) + i - 1
    BY <1>1
  <2> QED BY Zenon, <1>1, <2>1
<1>5. \A i \in 1..Len(w) : i \in 1..Len(s) \/ (i - d \in 2..Len(q) /\ w[i] = q[i - d])
  <2> SUFFICES ASSUME NEW i \in 1..Len(w), i \notin 1..Len(s)
               PROVE  i - d \in 2..Len(q) /\ w[i] = q[i - d]
    BY Zenon
  <2>1. i - d \in 2..Len(q) /\ (i - d) + d = i
    BY <1>1
  <2> QED BY Zenon, <1>4, <2>1
<1>6. ASSUME NEW i \in 1..Len(q), NEW j \in 1..Len(q), NEW k \in Locks, Inside(q, k, i, j)
      PROVE  Inside(w, k, i + d, j + d)
  <2>1. \A m \in (i + 1)..(j - 1) : w[m + d] = q[m]
    BY <1>1, <1>4
  <2>2. i \in Int /\ j \in Int
    OBVIOUS
  <2> QED BY Zenon, <1>2, <1>6, <2>1, <2>2, InsideMoved
<1>7. ASSUME NEW j \in 2..Len(q), NEW k \in Locks, Inside(q, k, 0, j)
      PROVE  /\ Level(q[1]) > Rank(k)
             /\ (\A i \in 1..Len(s) : Level(s[i]) > Rank(k)) => Inside(w, k, 0, j + d)
  <2>1. Level(q[1]) > Rank(k)
    BY <1>1, <1>7 DEF Inside
  <2>2. ASSUME \A i \in 1..Len(s) : Level(s[i]) > Rank(k),
               NEW m \in (0 + 1)..(j + d - 1)
        PROVE  Level(w[m]) > Rank(k)
    <3>1. CASE m \in 1..Len(s)
      BY Zenon, <1>1, <2>2, <3>1
    <3>2. CASE m \notin 1..Len(s)
      <4>1. m \in 1..Len(w) /\ m - d \in (0 + 1)..(j - 1)
        BY <1>1, <3>2
      <4>2. w[m] = q[m - d]
        BY Zenon, <1>5, <3>2, <4>1
      <4> QED BY Zenon, <1>7, <4>1, <4>2 DEF Inside
    <3> QED BY Zenon, <3>1, <3>2
  <2> QED BY <2>1, <2>2 DEF Inside
<1> QED BY Zenon, <1>1, <1>2, <1>3, <1>4, <1>5, <1>6, <1>7 DEF Shift

\* What stays nested when the path s replaces the head of q, whatever the head.
LEMMA ClosedMoved ==
  ASSUME NEW q \in Seq(Steps), q # <<>>, NEW s, NEW n \in Nat, Fine(s, n), Closed(q),
         NEW w, NEW d, Shift(q, s, w, d)
  PROVE  Closed(w)
<1>1. s \in Seq(Steps) /\ Len(s) \in Nat
  BY Zenon, SeqLen DEF Fine
<1>2. /\ w \in Seq(Steps) /\ d \in Int /\ Len(q) \in Nat \ {0} /\ Len(w) = Len(q) + d
      /\ \A i \in 1..Len(s) : i \in 1..Len(w) /\ w[i] = s[i]
      /\ \A i \in 2..Len(q) : i + d \in (Len(s) + 1)..Len(w) /\ w[i + d] = q[i]
      /\ \A i \in 1..Len(w) : i \in 1..Len(s) \/ (i - d \in 2..Len(q) /\ w[i] = q[i - d])
      /\ \A i \in 1..Len(q), j \in 1..Len(q), k \in Locks :
           Inside(q, k, i, j) => Inside(w, k, i + d, j + d)
  BY Zenon DEF Shift
<1> SUFFICES ASSUME NEW i \in 1..Len(w), NEW k \in Locks, w[i] = LockStep(k)
             PROVE  \E j \in (i + 1)..Len(w) : w[j] = UnlockStep(k) /\ Inside(w, k, i, j)
  BY Zenon DEF Closed
<1>3. CASE i \in 1..Len(s)
  <2>1. PICK j \in (i + 1)..Len(s) : s[j] = UnlockStep(k) /\ Inside(s, k, i, j)
    BY Zenon, <1>2, <1>3 DEF Fine, Closed
  <2>2. j \in 1..Len(s) /\ j \in (i + 1)..Len(w) /\ w[j] = UnlockStep(k)
    BY <1>1, <1>2, <1>3, <2>1
  <2>3. \A m \in (i + 1)..(j - 1) : w[m] = s[m]
    BY <1>1, <1>2, <1>3, <2>2
  <2> QED BY Zenon, <2>1, <2>2, <2>3 DEF Inside
<1>4. CASE i - d \in 2..Len(q) /\ w[i] = q[i - d]
  <2>1. PICK j \in (i - d + 1)..Len(q) : q[j] = UnlockStep(k) /\ Inside(q, k, i - d, j)
    <3>1. i - d \in 1..Len(q)
      BY <1>2, <1>4
    <3> QED BY Zenon, <1>4, <3>1 DEF Closed
  <2>2. /\ j \in 2..Len(q) /\ j \in 1..Len(q) /\ i - d \in 1..Len(q) /\ (i - d) + d = i
        /\ j + d \in (i + 1)..Len(w)
    BY <1>1, <1>2, <1>4, <2>1
  <2>3. Inside(w, k, (i - d) + d, j + d) /\ w[j + d] = UnlockStep(k)
    BY Zenon, <1>2, <2>1, <2>2
  <2> QED BY Zenon, <2>2, <2>3
<1> QED BY Zenon, <1>2, <1>3, <1>4

\* The unlocks of what is left: matched in s, or matched further on as before.
LEMMA UnlocksMoved ==
  ASSUME NEW q, NEW H, Nested(q, H), q # <<>>, NEW s, NEW n \in Nat, Fine(s, n),
         NEW w, NEW d, Shift(q, s, w, d),
         NEW j \in 1..Len(w), NEW k \in Locks, w[j] = UnlockStep(k)
  PROVE  \/ \E i \in 1..(j - 1) : w[i] = LockStep(k) /\ Inside(w, k, i, j)
         \/ /\ j - d \in 2..Len(q)
            /\ \/ q[1] = LockStep(k) /\ Inside(w, k, 1 + d, j)
               \/ k \in H /\ Inside(q, k, 0, j - d)
<1>1. q \in Seq(Steps) /\ s \in Seq(Steps) /\ Len(s) \in Nat
  BY Zenon, SeqLen DEF Fine, Nested
<1>2. /\ w \in Seq(Steps) /\ d \in Int /\ Len(q) \in Nat \ {0} /\ Len(w) = Len(q) + d
      /\ \A i \in 1..Len(s) : i \in 1..Len(w) /\ w[i] = s[i]
      /\ \A i \in 2..Len(q) : i + d \in (Len(s) + 1)..Len(w) /\ w[i + d] = q[i]
      /\ \A i \in 1..Len(w) : i \in 1..Len(s) \/ (i - d \in 2..Len(q) /\ w[i] = q[i - d])
      /\ \A i \in 1..Len(q), m \in 1..Len(q), l \in Locks :
           Inside(q, l, i, m) => Inside(w, l, i + d, m + d)
  BY Zenon DEF Shift
<1>3. CASE j \in 1..Len(s)
  <2>1. PICK i \in 1..(j - 1) : s[i] = LockStep(k) /\ Inside(s, k, i, j)
    BY Zenon, <1>2, <1>3 DEF Fine
  <2>2. i \in 1..Len(s) /\ w[i] = LockStep(k)
    BY <1>1, <1>2, <1>3, <2>1
  <2>3. \A m \in (i + 1)..(j - 1) : w[m] = s[m]
    BY <1>1, <1>2, <1>3, <2>2
  <2> QED BY Zenon, <2>1, <2>2, <2>3 DEF Inside
<1>4. CASE j - d \in 2..Len(q) /\ w[j] = q[j - d]
  <2>1. j - d \in 1..Len(q) /\ q[j - d] = UnlockStep(k) /\ (j - d) + d = j
    BY <1>2, <1>4
  <2>2. \/ \E i \in 1..(j - d - 1) : q[i] = LockStep(k) /\ Inside(q, k, i, j - d)
        \/ k \in H /\ Inside(q, k, 0, j - d)
    BY Zenon, <2>1 DEF Nested
  <2>3. ASSUME NEW i \in 1..(j - d - 1), q[i] = LockStep(k), Inside(q, k, i, j - d)
        PROVE  \/ \E m \in 1..(j - 1) : w[m] = LockStep(k) /\ Inside(w, k, m, j)
               \/ q[1] = LockStep(k) /\ Inside(w, k, 1 + d, j)
    <3>1. i \in 1..Len(q)
      BY <1>2, <1>4
    <3>2. Inside(w, k, i + d, (j - d) + d)
      BY Zenon, <1>2, <2>1, <2>3, <3>1
    <3>3. CASE i = 1
      BY Zenon, <2>1, <2>3, <3>2, <3>3
    <3>4. CASE i # 1
      <4>2. i \in 2..Len(q)
        BY <1>2, <3>1, <3>4
      <4>3. i + d \in (Len(s) + 1)..Len(w)
        BY Zenon, <1>2, <4>2
      <4>1. i \in 2..Len(q) /\ i + d \in 1..(j - 1)
        BY <1>1, <1>2, <4>2, <4>3
      <4> QED BY Zenon, <1>2, <2>1, <2>3, <3>2, <4>1
    <3> QED BY Zenon, <3>3, <3>4
  <2> QED BY Zenon, <1>4, <2>2, <2>3
<1> QED BY Zenon, <1>2, <1>3, <1>4

\* The unlocks of the locks held: they are ahead, above steps of a higher level.
LEMMA HeldMoved ==
  ASSUME NEW q, NEW H, Nested(q, H), q # <<>>, NEW s, NEW n \in Nat, Fine(s, n),
         NEW w, NEW d, Shift(q, s, w, d),
         NEW h \in H, q[1] # UnlockStep(h)
  PROVE  /\ h \in Locks /\ Level(q[1]) > Rank(h)
         /\ (\A i \in 1..Len(s) : Level(s[i]) > Rank(h)) =>
              \E j \in 1..Len(w) : w[j] = UnlockStep(h) /\ Inside(w, h, 0, j)
<1>1. q \in Seq(Steps) /\ s \in Seq(Steps) /\ Len(s) \in Nat /\ h \in Locks
  BY Zenon, SeqLen DEF Fine, Nested
<1>2. /\ d \in Int /\ Len(q) \in Nat \ {0} /\ Len(w) = Len(q) + d
      /\ \A i \in 2..Len(q) : i + d \in (Len(s) + 1)..Len(w) /\ w[i + d] = q[i]
      /\ \A j \in 2..Len(q), k \in Locks :
           Inside(q, k, 0, j) => /\ Level(q[1]) > Rank(k)
                                 /\ (\A i \in 1..Len(s) : Level(s[i]) > Rank(k)) =>
                                      Inside(w, k, 0, j + d)
  BY Zenon DEF Shift
<1>3. PICK j \in 1..Len(q) : q[j] = UnlockStep(h) /\ Inside(q, h, 0, j)
  BY Zenon DEF Nested
<1>4. j \in 2..Len(q) /\ j + d \in 1..Len(w)
  BY <1>1, <1>2, <1>3
<1> QED BY Zenon, <1>1, <1>2, <1>3, <1>4

\* Taking the lock at the head: it ranks above those held, and what is left is
\* nested for the locks held then.
LEMMA NestedLock ==
  ASSUME NEW q, NEW H, Nested(q, H), q # <<>>, NEW l \in Locks, q[1] = LockStep(l)
  PROVE  (\A h \in H : Rank(h) < Rank(l)) /\ Nested(<<>> \o Tail(q), H \cup {l})
<1>0. PICK e : e = <<>>
  BY Zenon
<1>1. PICK w : w = e \o Tail(q)
  BY Zenon
<1>2. PICK d : d = Len(e) - 1
  BY Zenon
<1>3. Fine(e, 0) /\ Len(e) = 0 /\ e \in Seq(Steps) /\ 0 \in Nat /\ 1..Len(e) = {}
  BY <1>0, FineEmpty, SeqEmpty
<1>4. q \in Seq(Steps) /\ Closed(q)
  BY Zenon DEF Nested
<1>5. d = -1
  BY <1>2, <1>3
<1>a. Shift(q, e, w, d)
  BY Zenon, <1>1, <1>2, <1>3, <1>4, Moved
<1>6. /\ w \in Seq(Steps) /\ Len(q) \in Nat \ {0} /\ Len(w) = Len(q) + d
      /\ \A i \in 2..Len(q) : i + d \in (Len(e) + 1)..Len(w) /\ w[i + d] = q[i]
      /\ \A i \in 1..Len(q), j \in 1..Len(q), k \in Locks :
           Inside(q, k, i, j) => Inside(w, k, i + d, j + d)
  BY Zenon, <1>a DEF Shift
<1>7. Closed(w)
  BY Zenon, <1>a, <1>3, <1>4, ClosedMoved
<1>8. ASSUME NEW h \in H
      PROVE  /\ h \in Locks /\ Rank(h) < Rank(l)
             /\ \E j \in 1..Len(w) : w[j] = UnlockStep(h) /\ Inside(w, h, 0, j)
  <2>1. h \in Locks
    BY Zenon DEF Nested
  <2>2. q[1] # UnlockStep(h)
    BY Zenon, <2>1, StepFacts
  <2>7. Fine(e, 0) /\ 0 \in Nat
    BY Zenon, <1>3
  <2>5. /\ Level(q[1]) > Rank(h)
        /\ (\A i \in 1..Len(e) : Level(e[i]) > Rank(h)) =>
             \E j \in 1..Len(w) : w[j] = UnlockStep(h) /\ Inside(w, h, 0, j)
    BY Zenon, <1>a, <2>2, <2>7, HeldMoved
  <2>6. \A i \in 1..Len(e) : Level(e[i]) > Rank(h)
    BY Zenon, <1>3
  <2>3. Level(q[1]) > Rank(h) /\ \E j \in 1..Len(w) : w[j] = UnlockStep(h) /\ Inside(w, h, 0, j)
    BY Zenon, <2>5, <2>6
  <2>4. Rank(h) < Rank(l)
    BY Zenon, <2>1, <2>3, LevelFacts, StepFacts
  <2> QED BY Zenon, <2>1, <2>3, <2>4
<1>9. \E j \in 1..Len(w) : w[j] = UnlockStep(l) /\ Inside(w, l, 0, j)
  <2>1. PICK j \in (1 + 1)..Len(q) : q[j] = UnlockStep(l) /\ Inside(q, l, 1, j)
    <3>1. 1 \in 1..Len(q)
      BY <1>6
    <3> QED BY Zenon, <1>4, <3>1 DEF Closed
  <2>2. /\ j \in 1..Len(q) /\ j \in 2..Len(q) /\ 1 \in 1..Len(q) /\ 1 + d = 0
        /\ j + d \in 1..Len(w)
    BY <1>5, <1>6
  <2>3. Inside(w, l, 1 + d, j + d) /\ w[j + d] = UnlockStep(l)
    BY Zenon, <1>6, <2>1, <2>2
  <2> QED BY Zenon, <2>2, <2>3
<1>10. ASSUME NEW j \in 1..Len(w), NEW k \in Locks, w[j] = UnlockStep(k)
       PROVE  \/ \E i \in 1..(j - 1) : w[i] = LockStep(k) /\ Inside(w, k, i, j)
              \/ k \in H \cup {l} /\ Inside(w, k, 0, j)
  <2>1. \/ \E i \in 1..(j - 1) : w[i] = LockStep(k) /\ Inside(w, k, i, j)
        \/ /\ j - d \in 2..Len(q)
           /\ \/ q[1] = LockStep(k) /\ Inside(w, k, 1 + d, j)
              \/ k \in H /\ Inside(q, k, 0, j - d)
    BY Zenon, <1>a, <1>3, <1>10, UnlocksMoved
  <2>2. CASE j - d \in 2..Len(q) /\ q[1] = LockStep(k) /\ Inside(w, k, 1 + d, j)
    <3>1. k = l
      BY Zenon, <2>2, StepFacts
    <3>2. 1 + d = 0
      BY <1>5
    <3> QED BY Zenon, <2>2, <3>1, <3>2
  <2>3. CASE j - d \in 2..Len(q) /\ k \in H /\ Inside(q, k, 0, j - d)
    <3>1. Inside(w, k, 0, (j - d) + d)
      BY Zenon, <1>a, <1>3, <2>3 DEF Shift
    <3>2. (j - d) + d = j
      BY <1>5
    <3> QED BY Zenon, <2>3, <3>1, <3>2
  <2> QED BY Zenon, <2>1, <2>2, <2>3
<1>11. Nested(w, H \cup {l})
  BY Zenon, <1>6, <1>7, <1>8, <1>9, <1>10 DEF Nested
<1> QED BY Zenon, <1>0, <1>1, <1>8, <1>11

\* Releasing the lock at the head: it is held, and what is left is nested for the
\* other locks.
LEMMA NestedUnlock ==
  ASSUME NEW q, NEW H, Nested(q, H), q # <<>>, NEW l \in Locks, q[1] = UnlockStep(l)
  PROVE  l \in H /\ Nested(<<>> \o Tail(q), H \ {l})
<1>0. PICK e : e = <<>>
  BY Zenon
<1>1. PICK w : w = e \o Tail(q)
  BY Zenon
<1>2. PICK d : d = Len(e) - 1
  BY Zenon
<1>3. Fine(e, 0) /\ Len(e) = 0 /\ e \in Seq(Steps) /\ 0 \in Nat /\ 1..Len(e) = {}
  BY <1>0, FineEmpty, SeqEmpty
<1>4. q \in Seq(Steps) /\ Closed(q)
  BY Zenon DEF Nested
<1>5. d = -1
  BY <1>2, <1>3
<1>a. Shift(q, e, w, d)
  BY Zenon, <1>1, <1>2, <1>3, <1>4, Moved
<1>6. w \in Seq(Steps) /\ Len(q) \in Nat \ {0} /\ Len(w) = Len(q) + d
  BY Zenon, <1>a DEF Shift
<1>7. Closed(w)
  BY Zenon, <1>a, <1>3, <1>4, ClosedMoved
<1>8. l \in H
  <2>1. 1 \in 1..Len(q) /\ 1..(1 - 1) = {}
    BY <1>6
  <2> QED BY Zenon, <2>1 DEF Nested
<1>9. ASSUME NEW h \in H \ {l}
      PROVE  /\ h \in Locks
             /\ \E j \in 1..Len(w) : w[j] = UnlockStep(h) /\ Inside(w, h, 0, j)
  <2>1. h \in Locks
    BY Zenon DEF Nested
  <2>2. q[1] # UnlockStep(h)
    BY Zenon, <2>1, StepFacts
  <2>3. (\A i \in 1..Len(e) : Level(e[i]) > Rank(h)) =>
           \E j \in 1..Len(w) : w[j] = UnlockStep(h) /\ Inside(w, h, 0, j)
    BY ZenonT(40), <1>a, <1>3, <2>2, HeldMoved
  <2>4. \A i \in 1..Len(e) : Level(e[i]) > Rank(h)
    BY Zenon, <1>3
  <2> QED BY Zenon, <2>1, <2>3, <2>4
<1>10. ASSUME NEW j \in 1..Len(w), NEW k \in Locks, w[j] = UnlockStep(k)
       PROVE  \/ \E i \in 1..(j - 1) : w[i] = LockStep(k) /\ Inside(w, k, i, j)
              \/ k \in H \ {l} /\ Inside(w, k, 0, j)
  <2>1. \/ \E i \in 1..(j - 1) : w[i] = LockStep(k) /\ Inside(w, k, i, j)
        \/ /\ j - d \in 2..Len(q)
           /\ \/ q[1] = LockStep(k) /\ Inside(w, k, 1 + d, j)
              \/ k \in H /\ Inside(q, k, 0, j - d)
    BY Zenon, <1>a, <1>3, <1>10, UnlocksMoved
  <2>2. q[1] # LockStep(k)
    BY Zenon, StepFacts
  <2>3. CASE j - d \in 2..Len(q) /\ k \in H /\ Inside(q, k, 0, j - d)
    <3>1. Inside(w, k, 0, (j - d) + d) /\ Level(q[1]) > Rank(k)
      BY Zenon, <1>a, <1>3, <2>3 DEF Shift
    <3>2. (j - d) + d = j
      BY <1>5
    <3>3. k # l
      BY <3>1, LevelFacts, StepFacts
    <3> QED BY Zenon, <2>3, <3>1, <3>2, <3>3
  <2> QED BY Zenon, <2>1, <2>2, <2>3
<1>11. Nested(w, H \ {l})
  BY Zenon, <1>6, <1>7, <1>9, <1>10 DEF Nested
<1> QED BY Zenon, <1>0, <1>1, <1>8, <1>11

\* A call at the head gives way to a path whose levels are no lower than its own.
LEMMA NestedExpand ==
  ASSUME NEW q, NEW H, Nested(q, H), q # <<>>, NEW f \in Funs, q[1] = CallStep(f),
         NEW s, Fine(s, Low(f))
  PROVE  Nested(s \o Tail(q), H)
<1>1. PICK w : w = s \o Tail(q)
  BY Zenon
<1>2. PICK d : d = Len(s) - 1
  BY Zenon
<1>3. Low(f) \in Nat /\ s \in Seq(Steps)
  BY LevelFacts DEF Fine
<1>4. q \in Seq(Steps) /\ Closed(q)
  BY Zenon DEF Nested
<1>5. Shift(q, s, w, d)
  BY Zenon, <1>1, <1>2, <1>3, <1>4, Moved
<1>6. w \in Seq(Steps)
  BY Zenon, <1>5 DEF Shift
<1>7. Closed(w)
  BY Zenon, <1>3, <1>4, <1>5, ClosedMoved
<1>8. \A k \in Locks : Level(q[1]) > Rank(k) => \A i \in 1..Len(s) : Level(s[i]) > Rank(k)
  <2> SUFFICES ASSUME NEW k \in Locks, Level(q[1]) > Rank(k), NEW i \in 1..Len(s)
               PROVE  Level(s[i]) > Rank(k)
    BY Zenon
  <2>1. Level(s[i]) >= Low(f) /\ Level(q[1]) = Low(f) /\ s[i] \in Steps
    BY Zenon, <1>3, LevelFacts, SeqElement DEF Fine
  <2> QED BY <1>3, <2>1, LevelFacts, StepFacts
<1>9. ASSUME NEW h \in H
      PROVE  /\ h \in Locks
             /\ \E j \in 1..Len(w) : w[j] = UnlockStep(h) /\ Inside(w, h, 0, j)
  <2>1. h \in Locks
    BY Zenon DEF Nested
  <2>2. q[1] # UnlockStep(h)
    BY Zenon, <2>1, StepFacts
  <2>3. /\ Level(q[1]) > Rank(h)
        /\ (\A i \in 1..Len(s) : Level(s[i]) > Rank(h)) =>
             \E j \in 1..Len(w) : w[j] = UnlockStep(h) /\ Inside(w, h, 0, j)
    BY Zenon, <1>3, <1>5, <2>2, HeldMoved
  <2> QED BY Zenon, <1>8, <2>1, <2>3
<1>10. ASSUME NEW j \in 1..Len(w), NEW k \in Locks, w[j] = UnlockStep(k)
       PROVE  \/ \E i \in 1..(j - 1) : w[i] = LockStep(k) /\ Inside(w, k, i, j)
              \/ k \in H /\ Inside(w, k, 0, j)
  <2>1. \/ \E i \in 1..(j - 1) : w[i] = LockStep(k) /\ Inside(w, k, i, j)
        \/ /\ j - d \in 2..Len(q)
           /\ \/ q[1] = LockStep(k) /\ Inside(w, k, 1 + d, j)
              \/ k \in H /\ Inside(q, k, 0, j - d)
    BY Zenon, <1>3, <1>5, <1>10, UnlocksMoved
  <2>2. q[1] # LockStep(k)
    BY Zenon, StepFacts
  <2>3. CASE j - d \in 2..Len(q) /\ k \in H /\ Inside(q, k, 0, j - d)
    <3>1. Inside(w, k, 0, (j - d) + d)
      BY Zenon, <1>5, <1>8, <2>3 DEF Shift
    <3>2. (j - d) + d = j
      BY <1>2, <1>3, SeqLen
    <3> QED BY Zenon, <2>3, <3>1, <3>2
  <2> QED BY Zenon, <2>1, <2>2, <2>3
<1>11. Nested(w, H)
  BY Zenon, <1>6, <1>7, <1>9, <1>10 DEF Nested
<1> QED BY Zenon, <1>1, <1>11

-----------------------------------------------------------------------------
(* The inductive invariant *)

\* Calls of F and uses of the locks L.
StepsOf(F, L) ==
  {LockStep(l) : l \in L} \cup {UnlockStep(l) : l \in L} \cup {CallStep(f) : f \in F}

\* The locks a path can use: the memfd's only where there is a memfd.
LocksInUse == IF btm_mesh_mode THEN Locks ELSE Locks \ {"memfd"}

Has(q, F) == \E i \in 1..Len(q) : q[i][1] \in F

\* A call of F comes after one of G.
Guarded(q, F, G) == \A i \in 1..Len(q) : q[i][1] \in F => \E m \in 1..(i - 1) : q[m][1] \in G

\* At most one thread has a call of F to make, and only one.
Solo(td, F) ==
  \A a, b \in Actors : \A i \in 1..Len(td[a]), j \in 1..Len(td[b]) :
    td[a][i][1] \in F /\ td[b][j][1] \in F => a = b /\ i = j

Allocs == {"malloc", "refill"}
FirstWork == {"tls", "start", "create"}

\* At most two allocations are under way, and one once first-call work is left.
Shallow(q) ==
  /\ \A i, x, y \in 1..Len(q) :
       q[i][1] \in FirstWork /\ i < x /\ i < y /\ q[x][1] \in Allocs /\ q[y][1] \in Allocs => x = y
  /\ \A x, y, z \in 1..Len(q) :
       q[x][1] \in Allocs /\ q[y][1] \in Allocs /\ q[z][1] \in Allocs => x = y \/ y = z \/ x = z

Held(a) == {l \in Locks : lock[l] = a}

Tables == btm_partitions \/ oom

TypeOK ==
  /\ btm_tls \subseteq Threads
  /\ spawned \in Nat
  /\ lock \in [Locks -> Actors \cup {Nobody, Gone}]
  /\ todo \in [Actors -> Seq(StepsOf(Funs, LocksInUse))]

LocksInv == \A a \in Actors : Nested(todo[a], Held(a))

\* A thread allocates from inside first-call work only once it has its cache.
CacheInv ==
  \A a \in Actors : a \in btm_tls \/ (~Has(todo[a], {"malloc"}) /\ Guarded(todo[a], {"start", "create"}, {"tls"}))

TablesInv ==
  /\ \A a \in Actors : Tables \/ Guarded(todo[a], {"refill", "tls"}, {"once", "build"})
  /\ btm_tls # {} => Tables
  /\ init_once = "done" => Tables
  /\ btm_ready => btm_partitions
  /\ btm_mesh_mode => btm_partitions

\* btm_do_init runs in one thread, and it runs once.
InitInv ==
  /\ Solo(todo, {"build", "publish"})
  /\ init_once = "new" => ~btm_partitions
  /\ \A a \in Actors : /\ Has(todo[a], {"build", "publish"}) => init_once = "running"
                       /\ Has(todo[a], {"build"}) => ~btm_partitions
                       /\ Has(todo[a], {"publish"}) => btm_partitions

SpawnInv ==
  /\ Solo(todo, {"spawn"})
  /\ \A a \in Actors : Has(todo[a], {"spawn"}) => bg_started /\ spawned = 0
  /\ spawned > 0 => bg_started
  /\ spawned <= 1

ShallowInv == \A a \in Actors : Shallow(todo[a])

Inv ==
  /\ TypeOK /\ LocksInv /\ CacheInv /\ TablesInv /\ InitInv /\ SpawnInv /\ ShallowInv
  /\ OrphansKnown

-----------------------------------------------------------------------------
(* Paths of given calls and locks *)

Path(s, n, F, L) == Fine(s, n) /\ s \in Seq(StepsOf(F, L))

\* The steps of some calls and locks are steps, known by their names.
LEMMA StepsOfFacts ==
  ASSUME NEW F \in SUBSET Funs, NEW L \in SUBSET Locks
  PROVE  /\ StepsOf(F, L) \subseteq Steps
         /\ StepsOf(F, L) \subseteq StepsOf(Funs, L)
         /\ StepsOf(F, L) \subseteq StepsOf(F, Locks)
         /\ \A e \in StepsOf(F, L) : e[1] \in F \cup {"lock", "unlock"}
         /\ \A e \in Steps : /\ \A f \in Funs : e[1] = f => e = CallStep(f)
                             /\ e[1] = "lock" => e[2] \in Locks /\ e = LockStep(e[2])
                             /\ e[1] = "unlock" => e[2] \in Locks /\ e = UnlockStep(e[2])
         /\ \A e \in StepsOf(F, L) : e[1] \in {"lock", "unlock"} => e[2] \in L
<1>1. StepsOf(F, L) \subseteq Steps /\ StepsOf(F, L) \subseteq StepsOf(Funs, L)
      /\ StepsOf(F, L) \subseteq StepsOf(F, Locks)
  BY Zenon DEF StepsOf, Steps
<1>2. /\ "lock" \notin Funs /\ "unlock" \notin Funs /\ "lock" # "unlock"
      /\ \A l : LockStep(l)[1] = "lock" /\ LockStep(l)[2] = l
      /\ \A l : UnlockStep(l)[1] = "unlock" /\ UnlockStep(l)[2] = l
      /\ \A f : CallStep(f)[1] = f
  BY DEF LockStep, UnlockStep, CallStep, Funs
<1>3. ASSUME NEW e \in StepsOf(F, L)
      PROVE  e[1] \in F \cup {"lock", "unlock"} /\ (e[1] \in {"lock", "unlock"} => e[2] \in L)
  <2>1. ASSUME NEW l \in L, e = LockStep(l) \/ e = UnlockStep(l)
        PROVE  e[1] \in {"lock", "unlock"} /\ e[2] \in L
    BY <1>2, <2>1
  <2>2. CASE \E f \in F : e = CallStep(f)
    BY ZenonT(40), <1>2, <2>2
  <2> QED BY Zenon, <1>3, <2>1, <2>2 DEF StepsOf
<1>4. ASSUME NEW e \in Steps
      PROVE  /\ \A f \in Funs : e[1] = f => e = CallStep(f)
             /\ e[1] = "lock" => e[2] \in Locks /\ e = LockStep(e[2])
             /\ e[1] = "unlock" => e[2] \in Locks /\ e = UnlockStep(e[2])
  <2>1. ASSUME NEW l \in Locks, e = LockStep(l)
        PROVE  e[1] = "lock" /\ e[2] = l
    BY Zenon, <1>2, <2>1
  <2>2. ASSUME NEW l \in Locks, e = UnlockStep(l)
        PROVE  e[1] = "unlock" /\ e[2] = l
    BY <2>2 DEF UnlockStep
  <2>3. CASE \E f \in Funs : e = CallStep(f)
    <3>1. PICK f \in Funs : e = CallStep(f)
      BY Zenon, <2>3
    <3>2. e[1] = f
      BY <1>2, <3>1
    <3> QED BY <1>2, <3>1, <3>2
  <2>4. CASE \E l \in Locks : e = LockStep(l)
    BY <1>2, <2>1, <2>4
  <2>5. CASE \E l \in Locks : e = UnlockStep(l)
    BY <1>2, <2>2, <2>5
  <2> QED BY Zenon, <1>4, <2>3, <2>4, <2>5 DEF Steps
<1> QED BY Zenon, <1>1, <1>3, <1>4

\* Fewer calls and locks make fewer paths.
LEMMA PathWider ==
  ASSUME NEW s, NEW n, NEW F, NEW L, Path(s, n, F, L),
         NEW G, F \subseteq G
  PROVE  Path(s, n, G, L)
<1>1. StepsOf(F, L) \subseteq StepsOf(G, L)
  BY Zenon DEF StepsOf
<1>2. s \in Seq(StepsOf(F, L)) /\ Fine(s, n)
  BY Zenon DEF Path
<1>3. s \in Seq(StepsOf(G, L))
  BY <1>1, <1>2
<1> QED BY Zenon, <1>2, <1>3 DEF Path

\* The empty path.
LEMMA PathEmpty ==
  ASSUME NEW n \in Nat, NEW F, NEW L
  PROVE  Path(<<>>, n, F, L)
BY Zenon, FineEmpty, SeqEmpty DEF Path

\* One call.
LEMMA PathCall ==
  ASSUME NEW n \in Nat, NEW F \in SUBSET Funs, NEW L, NEW f \in F, n <= Low(f)
  PROVE  Path(Call(f), n, F, L)
<1>1. Fine(Call(f), n)
  BY Zenon, FineCall
<1>2. Call(f) = <<CallStep(f)>> /\ CallStep(f) \in StepsOf(F, L)
  BY Zenon DEF Call, CallStep, StepsOf
<1> QED BY <1>1, <1>2 DEF Path

\* A path after another.
LEMMA PathConcat ==
  ASSUME NEW n \in Nat, NEW F, NEW L, NEW s, NEW t, Path(s, n, F, L), Path(t, n, F, L)
  PROVE  Path(s \o t, n, F, L)
<1>1. Fine(s, n) /\ Fine(t, n) /\ s \in Seq(StepsOf(F, L)) /\ t \in Seq(StepsOf(F, L))
  BY Zenon DEF Path
<1>2. Fine(s \o t, n)
  BY Zenon, <1>1, FineConcat
<1>3. s \o t \in Seq(StepsOf(F, L))
  BY Zenon, <1>1, SeqConcat
<1> QED BY Zenon, <1>2, <1>3 DEF Path

\* A path under a lock, whose steps rank above it.
LEMMA PathSec ==
  ASSUME NEW n \in Nat, NEW F, NEW L \in SUBSET Locks, NEW l \in L, n <= Rank(l),
         NEW b, Path(b, Rank(l) + 1, F, L)
  PROVE  Path(Sec(l, b), n, F, L)
<1>1. Fine(b, Rank(l) + 1) /\ b \in Seq(StepsOf(F, L)) /\ l \in Locks
  BY Zenon DEF Path
<1>2. Fine(Sec(l, b), n)
  BY Zenon, <1>1, FineSec
<1>3. <<LockStep(l)>> \in Seq(StepsOf(F, L)) /\ <<UnlockStep(l)>> \in Seq(StepsOf(F, L))
  BY DEF StepsOf
<1>4. <<LockStep(l)>> \o b \o <<UnlockStep(l)>> \in Seq(StepsOf(F, L))
  <2>1. <<LockStep(l)>> \o b \in Seq(StepsOf(F, L))
    BY Zenon, <1>1, <1>3, SeqConcat
  <2> QED BY Zenon, <1>3, <2>1, SeqConcat
<1>5. Sec(l, b) = <<LockStep(l)>> \o b \o <<UnlockStep(l)>>
  BY Zenon DEF Sec, LockStep, UnlockStep
<1> QED BY Zenon, <1>2, <1>4, <1>5 DEF Path

\* A lock taken and released.
LEMMA PathLeaf ==
  ASSUME NEW n \in Nat, NEW F, NEW L \in SUBSET Locks, NEW l \in L, n <= Rank(l)
  PROVE  Path(Leaf(l), n, F, L)
<1>1. Rank(l) + 1 \in Nat
  BY StepFacts
<1>2. Path(<<>>, Rank(l) + 1, F, L)
  BY Zenon, <1>1, PathEmpty
<1> QED BY Zenon, <1>2, PathSec DEF Leaf

\* What a path inside a call of the heap still calls: neither first-call work nor
\* an allocation.
Quiet == {"obtain", "map_fresh", "bg_signal", "dispose", "unmap"}

\* The ranks and levels the paths are made of.
LEMMA Ranks ==
  /\ Rank("bg_start") = 0 /\ Rank("pool") = 1
  /\ Rank("intern") = 2 /\ Rank("bg") = 2 /\ Rank("registry") = 2 /\ Rank("memfd") = 2
  /\ \A f \in Quiet \cup {"partition_of"} : Low(f) = 2
  /\ Low("malloc") = 1 /\ Low("refill") = 1 /\ Low("flush") = 1 /\ Low("create") = 1
  /\ Low("tls") = 0 /\ Low("start") = 0
  /\ Low("once") = 3 /\ Low("build") = 3 /\ Low("publish") = 3 /\ Low("spawn") = 3
BY Zenon DEF Rank, Low, Quiet

\* The memfd's lock is used only where there is a memfd.
LEMMA InUse ==
  /\ LocksInUse \in SUBSET Locks
  /\ {"bg_start", "pool", "intern", "bg", "registry"} \subseteq LocksInUse
  /\ \A n \in {0, 1, 2}, F \in SUBSET Funs : Path(memfd, n, F, LocksInUse)
<1>1. LocksInUse \in SUBSET Locks /\ {"bg_start", "pool", "intern", "bg", "registry"} \subseteq LocksInUse
  BY Zenon DEF LocksInUse, Locks
<1>2. ASSUME NEW n \in {0, 1, 2}, NEW F \in SUBSET Funs PROVE Path(memfd, n, F, LocksInUse)
  <2>1. CASE btm_mesh_mode
    <3>1. "memfd" \in LocksInUse /\ n \in Nat /\ n <= Rank("memfd") /\ memfd = Leaf("memfd")
      BY <2>1, Ranks DEF LocksInUse, Locks, memfd
    <3> QED BY Zenon, <1>1, <3>1, PathLeaf
  <2>2. CASE ~btm_mesh_mode
    BY Zenon, <2>2, PathEmpty DEF memfd
  <2> QED BY Zenon, <2>1, <2>2
<1> QED BY Zenon, <1>1, <1>2

\* Every path through a function of the heap is well nested above the locks that
\* the function is called under, and calls no more than such functions do.
LEMMA CalledPaths ==
  ASSUME NEW a, NEW f \in Called \ {"malloc"}, NEW s \in Paths(f, a)
  PROVE  Path(s, Low(f), Quiet, LocksInUse)
<1> DEFINE L == LocksInUse
<1>1. /\ L \in SUBSET Locks /\ Quiet \in SUBSET Funs
      /\ \A n \in {0, 1, 2} : Path(memfd, n, Quiet, L)
      /\ "pool" \in L /\ "intern" \in L /\ "bg" \in L /\ "registry" \in L
  BY Zenon, InUse DEF Quiet, Funs
<1> HIDE DEF L
<1>2. \A n \in {1, 2} : /\ Path(<<>>, n, Quiet, L)
                        /\ Path(Leaf("bg"), n, Quiet, L)
                        /\ Path(Leaf("registry"), n, Quiet, L)
                        /\ Path(Leaf("intern"), n, Quiet, L)
                        /\ \A g \in Quiet : Path(Call(g), n, Quiet, L)
  <2> SUFFICES ASSUME NEW n \in {1, 2}
               PROVE  /\ Path(<<>>, n, Quiet, L)
                      /\ Path(Leaf("bg"), n, Quiet, L)
                      /\ Path(Leaf("registry"), n, Quiet, L)
                      /\ Path(Leaf("intern"), n, Quiet, L)
                      /\ \A g \in Quiet : Path(Call(g), n, Quiet, L)
    BY Zenon
  <2>1. /\ n \in Nat /\ n <= Rank("bg") /\ n <= Rank("registry") /\ n <= Rank("intern")
        /\ \A g \in Quiet : n <= Low(g)
    BY Ranks
  <2> QED BY Zenon, <1>1, <2>1, PathEmpty, PathLeaf, PathCall
<1>3. Path(Leaf("pool"), 1, Quiet, L) /\ 1 \in Nat /\ 2 \in Nat
  BY <1>1, PathLeaf, Ranks
<1>4. ASSUME NEW b, Path(b, 2, Quiet, L) PROVE Path(Sec("pool", b), 1, Quiet, L)
  <2>1. 1 <= Rank("pool") /\ Rank("pool") + 1 = 2
    BY Ranks
  <2> QED BY Zenon, <1>1, <1>3, <1>4, <2>1, PathSec
<1>5. CASE f = "partition_of"
  <2>1. s \in {<<>>, Leaf("intern")}
    BY Zenon, <1>5 DEF Paths, InternPaths
  <2> QED BY Zenon, <1>2, <1>5, <2>1, Ranks DEF L, Quiet
<1>6. CASE f = "refill"
  <2>1. s \in {<<>>, Leaf("pool"), Sec("pool", Call("obtain"))}
    BY Zenon, <1>6 DEF Paths
  <2> QED BY Zenon, <1>2, <1>3, <1>4, <1>6, <2>1, Ranks DEF Quiet, L
<1>7. CASE f = "flush"
  <2>1. s \in {<<>>, Leaf("pool"), Sec("pool", Call("dispose"))}
    BY Zenon, <1>7 DEF Paths
  <2> QED BY Zenon, <1>2, <1>3, <1>4, <1>7, <2>1, Ranks DEF Quiet, L
<1>8. CASE f = "obtain"
  <2>1. PICK x \in {<<>>, Call("map_fresh")}, y \in {<<>>, Call("bg_signal")} : s = Leaf("bg") \o x \o y
    BY <1>8 DEF Paths, ObtainPaths
  <2>2. Path(Leaf("bg"), 2, Quiet, L) /\ Path(x, 2, Quiet, L) /\ Path(y, 2, Quiet, L)
    BY Zenon, <1>2 DEF Quiet
  <2>3. Path(Leaf("bg") \o x, 2, Quiet, L)
    BY Zenon, <1>3, <2>2, PathConcat
  <2>4. Path(s, 2, Quiet, L)
    BY Zenon, <1>3, <2>1, <2>2, <2>3, PathConcat
  <2> QED BY Zenon, <1>8, <2>4, Ranks DEF L, Quiet
<1>9. CASE f = "map_fresh"
  <2>1. s \in {memfd, memfd \o memfd, memfd \o Leaf("registry")}
    BY Zenon, <1>9 DEF Paths
  <2>2. Path(memfd, 2, Quiet, L) /\ Path(Leaf("registry"), 2, Quiet, L)
    BY Zenon, <1>1, <1>2
  <2>3. Path(s, 2, Quiet, L)
    BY Zenon, <1>3, <2>1, <2>2, PathConcat
  <2> QED BY Zenon, <1>9, <2>3, Ranks DEF L, Quiet
<1>10. CASE f = "bg_signal"
  <2>1. s \in {<<>>, Leaf("bg")}
    BY Zenon, <1>10 DEF Paths
  <2> QED BY Zenon, <1>2, <1>10, <2>1, Ranks DEF L, Quiet
<1>11. CASE f = "dispose"
  <2>1. s \in {Leaf("bg"), Leaf("bg") \o Call("unmap")}
    BY Zenon, <1>11 DEF Paths
  <2>2. Path(Leaf("bg"), 2, Quiet, L) /\ Path(Call("unmap"), 2, Quiet, L)
    BY Zenon, <1>2 DEF Quiet
  <2>3. Path(s, 2, Quiet, L)
    BY Zenon, <1>3, <2>1, <2>2, PathConcat
  <2> QED BY Zenon, <1>11, <2>3, Ranks DEF L, Quiet
<1>12. CASE f = "unmap"
  <2>1. s = Leaf("registry") \o memfd
    BY Zenon, <1>12 DEF Paths
  <2>2. Path(memfd, 2, Quiet, L) /\ Path(Leaf("registry"), 2, Quiet, L)
    BY Zenon, <1>1, <1>2
  <2>3. Path(s, 2, Quiet, L)
    BY Zenon, <1>3, <2>1, <2>2, PathConcat
  <2> QED BY Zenon, <1>12, <2>3, Ranks DEF L, Quiet
<1> QED BY Zenon, <1>5, <1>6, <1>7, <1>8, <1>9, <1>10, <1>11, <1>12 DEF Called

\* A path has no other calls than those it is made of.
LEMMA Lacks ==
  ASSUME NEW F \in SUBSET Funs, NEW L \in SUBSET Locks, NEW s \in Seq(StepsOf(F, L)),
         NEW G \in SUBSET Funs, F \cap G = {}
  PROVE  ~Has(s, G)
<1> SUFFICES ASSUME NEW i \in 1..Len(s), s[i][1] \in G PROVE FALSE
  BY Zenon DEF Has
<1>1. s[i] \in StepsOf(F, L)
  BY Zenon, SeqElement
<1>2. s[i][1] \in F \cup {"lock", "unlock"}
  BY Zenon, <1>1, StepsOfFacts
<1>3. "lock" \notin G /\ "unlock" \notin G
  BY Zenon DEF Funs
<1> QED BY Zenon, <1>2, <1>3

FirstCall == Call("once") \o Call("tls") \o Call("start") \o Refill

\* The steps of a path after another.
LEMMA Joined ==
  ASSUME NEW s \in Seq(Steps), NEW t \in Seq(Steps)
  PROVE  /\ s \o t \in Seq(Steps) /\ Len(s \o t) = Len(s) + Len(t)
         /\ \A i \in 1..Len(s) : (s \o t)[i] = s[i]
         /\ \A i \in 1..Len(t) : (s \o t)[Len(s) + i] = t[i]
<1>1. Len(s) \in Nat /\ Len(t) \in Nat
  BY Zenon, SeqLen
<1>2. /\ s \o t \in Seq(Steps) /\ Len(s \o t) = Len(s) + Len(t)
      /\ \A i \in 1..Len(s) + Len(t) : (s \o t)[i] = IF i <= Len(s) THEN s[i] ELSE t[i - Len(s)]
  BY Zenon, SeqConcat
<1> QED BY <1>1, <1>2

\* A call is one step.
LEMMA CallSteps ==
  ASSUME NEW f \in Funs
  PROVE  Call(f) \in Seq(Steps) /\ Len(Call(f)) = 1 /\ Call(f)[1] = <<f>>
<1>1. Call(f) = <<CallStep(f)>> /\ CallStep(f) = <<f>>
  BY Zenon DEF Call, CallStep
<1> QED BY <1>1, StepFacts

\* The paths of several calls, step by step.
LEMMA MallocSteps ==
  /\ Len(Refill) = 2 /\ Refill[1] = <<"partition_of">> /\ Refill[2] = <<"refill">>
  /\ Len(FirstCall) = 5
  /\ FirstCall[1] = <<"once">> /\ FirstCall[2] = <<"tls">> /\ FirstCall[3] = <<"start">>
  /\ FirstCall[4] = <<"partition_of">> /\ FirstCall[5] = <<"refill">>
<1>1. ASSUME NEW f \in Funs, NEW g \in Funs
      PROVE  LET w == Call(f) \o Call(g)
             IN  w \in Seq(Steps) /\ Len(w) = 2 /\ w[1] = <<f>> /\ w[2] = <<g>>
  <2>1. /\ Call(f) \in Seq(Steps) /\ Len(Call(f)) = 1 /\ Call(f)[1] = <<f>>
        /\ Call(g) \in Seq(Steps) /\ Len(Call(g)) = 1 /\ Call(g)[1] = <<g>>
    BY Zenon, CallSteps
  <2> QED BY <2>1, Joined
<1>2. {"once", "tls", "start", "partition_of", "refill"} \subseteq Funs
  BY Zenon DEF Funs
<1>3. Refill \in Seq(Steps) /\ Len(Refill) = 2 /\ Refill[1] = <<"partition_of">> /\ Refill[2] = <<"refill">>
  BY Zenon, <1>1, <1>2 DEF Refill
<1>4. PICK v : v = Call("once") \o Call("tls")
  BY Zenon
<1>5. v \in Seq(Steps) /\ Len(v) = 2 /\ v[1] = <<"once">> /\ v[2] = <<"tls">>
  BY Zenon, <1>1, <1>2, <1>4
<1>6. PICK u : u = v \o Call("start")
  BY Zenon
<1>7. u \in Seq(Steps) /\ Len(u) = 3 /\ u[1] = <<"once">> /\ u[2] = <<"tls">> /\ u[3] = <<"start">>
  <2>1. Call("start") \in Seq(Steps) /\ Len(Call("start")) = 1 /\ Call("start")[1] = <<"start">>
    BY Zenon, <1>2, CallSteps
  <2> QED BY <1>5, <1>6, <2>1, Joined
<1>8. FirstCall = u \o Refill
  BY Zenon, <1>4, <1>6 DEF FirstCall
<1>9. /\ Len(FirstCall) = Len(u) + Len(Refill)
      /\ \A i \in 1..Len(u) : FirstCall[i] = u[i]
      /\ \A i \in 1..Len(Refill) : FirstCall[Len(u) + i] = Refill[i]
  BY Zenon, <1>3, <1>7, <1>8, Joined
<1>10. Len(FirstCall) = 5 /\ FirstCall[1] = u[1] /\ FirstCall[2] = u[2] /\ FirstCall[3] = u[3]
  BY <1>3, <1>7, <1>9
<1>11. FirstCall[4] = Refill[1] /\ FirstCall[5] = Refill[2]
  <2>1. 1 \in 1..Len(Refill) /\ 2 \in 1..Len(Refill) /\ Len(u) + 1 = 4 /\ Len(u) + 2 = 5
    BY <1>3, <1>7
  <2> QED BY Zenon, <1>9, <2>1
<1> QED BY Zenon, <1>3, <1>7, <1>10, <1>11

\* The path of malloc that makes a cache, and the allocation proper: the order of
\* their calls is the one the invariant asks for.
LEMMA MallocPath ==
  /\ Path(Refill, 1, {"partition_of", "refill"}, LocksInUse)
  /\ Path(FirstCall, 0, {"once", "tls", "start", "partition_of", "refill"}, LocksInUse)
  /\ Shallow(Refill) /\ Shallow(FirstCall)
  /\ Guarded(FirstCall, {"start", "create"}, {"tls"})
  /\ Guarded(FirstCall, {"refill", "tls"}, {"once", "build"})
<1> DEFINE L == LocksInUse
           F == {"once", "tls", "start", "partition_of", "refill"}
           R == {"partition_of", "refill"}
<1>1. F \in SUBSET Funs /\ R \in SUBSET F /\ R \in SUBSET Funs /\ 0 \in Nat /\ 1 \in Nat
  BY Zenon DEF Funs
<1>2. "once" \in F /\ "tls" \in F /\ "start" \in F /\ "partition_of" \in R /\ "refill" \in R
  BY Zenon
<1>3. /\ 1 <= Low("partition_of") /\ 1 <= Low("refill") /\ 0 <= Low("partition_of")
      /\ 0 <= Low("refill") /\ 0 <= Low("once") /\ 0 <= Low("tls") /\ 0 <= Low("start")
  BY Ranks DEF Quiet
<1> HIDE DEF F, R, L
<1>4. Path(Refill, 1, R, L) /\ Path(Refill, 0, F, L)
  <2>1. /\ Path(Call("partition_of"), 1, R, L) /\ Path(Call("refill"), 1, R, L)
        /\ Path(Call("partition_of"), 0, F, L) /\ Path(Call("refill"), 0, F, L)
    BY Zenon, <1>1, <1>2, <1>3, PathCall
  <2> QED BY Zenon, <1>1, <2>1, PathConcat DEF Refill
<1>5. Path(FirstCall, 0, F, L)
  <2>1. Path(Call("once"), 0, F, L) /\ Path(Call("tls"), 0, F, L) /\ Path(Call("start"), 0, F, L)
    BY Zenon, <1>1, <1>2, <1>3, PathCall
  <2>2. Path(Call("once") \o Call("tls"), 0, F, L)
    BY Zenon, <1>1, <2>1, PathConcat
  <2>3. Path(Call("once") \o Call("tls") \o Call("start"), 0, F, L)
    BY Zenon, <1>1, <2>1, <2>2, PathConcat
  <2> QED BY Zenon, <1>1, <1>4, <2>3, PathConcat DEF FirstCall
<1>6. Shallow(Refill)
  BY MallocSteps DEF Shallow, Allocs, FirstWork
<1>7. \A i \in 1..Len(FirstCall) : FirstCall[i][1] \in Allocs => i = 5
  BY MallocSteps DEF Allocs
<1>8. Shallow(FirstCall)
  BY Zenon, <1>7 DEF Shallow
<1>9. Guarded(FirstCall, {"start", "create"}, {"tls"})
  BY MallocSteps DEF Guarded
<1>10. Guarded(FirstCall, {"refill", "tls"}, {"once", "build"})
  BY MallocSteps DEF Guarded
<1> QED BY Zenon, <1>4, <1>5, <1>6, <1>8, <1>9, <1>10 DEF F, R, L

\* How a call of the application begins.
LEMMA EntryPaths ==
  ASSUME NEW t, NEW f \in Entries, NEW s \in Paths(f, t)
  PROVE  \/ s = Refill /\ t \in btm_tls
         \/ s = FirstCall
         \/ f = "free" /\ Path(s, 0, {"tls", "flush"}, LocksInUse)
         \/ Path(s, 0, {"once"}, LocksInUse)
<1> DEFINE L == LocksInUse
           F == {"tls", "flush"}
           O == {"once"}
<1>1. /\ L \in SUBSET Locks /\ "pool" \in L /\ "registry" \in L /\ F \in SUBSET Funs
      /\ O \in SUBSET Funs /\ 0 \in Nat
  BY Zenon, InUse DEF Funs
<1>2. "tls" \in F /\ "flush" \in F /\ "once" \in O
  BY Zenon
<1>3. /\ 0 <= Low("flush") /\ 0 <= Low("tls") /\ 0 <= Low("once") /\ 0 <= Rank("pool")
      /\ 0 <= Rank("registry")
  BY Ranks
<1> HIDE DEF L, F, O
<1>4. /\ Path(Leaf("registry"), 0, F, L) /\ Path(Leaf("registry"), 0, O, L)
      /\ Path(Leaf("pool"), 0, O, L)
      /\ Path(Call("tls"), 0, F, L) /\ Path(Call("flush"), 0, F, L) /\ Path(Call("once"), 0, O, L)
      /\ Path(<<>>, 0, O, L)
  BY Zenon, <1>1, <1>2, <1>3, PathLeaf, PathCall, PathEmpty
<1>5. /\ Path(Call("tls") \o Call("flush"), 0, F, L)
      /\ Path(Call("once") \o Leaf("registry"), 0, O, L)
      /\ Path(Leaf("registry") \o Leaf("registry"), 0, O, L)
  BY Zenon, <1>1, <1>4, PathConcat
<1>6. CASE f = "malloc"
  <2>1. (s = Refill /\ t \in btm_tls) \/ s = FirstCall \/ s = Call("once")
    BY Zenon, <1>6 DEF Paths, MallocPaths, FirstCall
  <2> QED BY Zenon, <1>4, <2>1 DEF L, O
<1>7. CASE f = "free"
  <2>1. s \in {Call("tls") \o Call("flush"), Call("flush"), Leaf("registry")}
    BY Zenon, <1>7 DEF Paths
  <2> QED BY Zenon, <1>4, <1>5, <1>7, <2>1 DEF L, F
<1>8. CASE f = "large_alloc"
  <2>1. s \in {Call("once"), Call("once") \o Leaf("registry")}
    BY Zenon, <1>8 DEF Paths
  <2> QED BY Zenon, <1>4, <1>5, <2>1 DEF L, O
<1>9. CASE f = "large_realloc"
  <2>1. s \in {<<>>, Leaf("registry") \o Leaf("registry")}
    BY Zenon, <1>9 DEF Paths
  <2> QED BY Zenon, <1>4, <1>5, <2>1 DEF L, O
<1>10. CASE f = "sweep"
  <2>1. s \in {<<>>, Leaf("pool")}
    BY Zenon, <1>10 DEF Paths, SweepPaths
  <2> QED BY Zenon, <1>4, <2>1 DEF L, O
<1> QED BY Zenon, <1>6, <1>7, <1>8, <1>9, <1>10 DEF Entries

\* A round of the maintenance thread.
LEMMA RoundPath ==
  ASSUME NEW f, f = "bg_main", NEW s \in Paths(f, Bg)
  PROVE  Path(s, 0, Quiet, LocksInUse)
<1> DEFINE L == LocksInUse
<1>1. L \in SUBSET Locks /\ "bg" \in L /\ Quiet \in SUBSET Funs /\ 0 \in Nat
  BY Zenon, InUse DEF Quiet, Funs
<1>2. /\ 0 <= Low("unmap") /\ 0 <= Low("map_fresh") /\ 0 <= Rank("bg")
      /\ "unmap" \in Quiet /\ "map_fresh" \in Quiet
  BY Ranks DEF Quiet
<1> HIDE DEF L
<1>3. /\ Path(Leaf("bg"), 0, Quiet, L) /\ Path(<<>>, 0, Quiet, L)
      /\ Path(Call("unmap"), 0, Quiet, L) /\ Path(Call("map_fresh"), 0, Quiet, L)
  BY Zenon, <1>1, <1>2, PathLeaf, PathCall, PathEmpty
<1>4. Path(Round, 0, Quiet, L) /\ Path(Ahead, 0, Quiet, L)
  BY Zenon, <1>1, <1>3, PathConcat DEF Round, Ahead
<1>5. Path(Round \o Call("unmap"), 0, Quiet, L) /\ Path(Round \o Ahead, 0, Quiet, L)
  BY Zenon, <1>1, <1>3, <1>4, PathConcat
<1>6. Path(Round \o Call("unmap") \o Ahead, 0, Quiet, L)
  BY Zenon, <1>1, <1>4, <1>5, PathConcat
<1>7. s \in RoundPaths
  BY Zenon DEF Paths
<1> QED BY Zenon, <1>4, <1>5, <1>6, <1>7 DEF RoundPaths, L

-----------------------------------------------------------------------------
(* A path in place of the head: calls, guards and allocations *)

Place(q, s, w, d, i) ==
  \/ i \in 1..Len(s) /\ w[i] = s[i]
  \/ i > Len(s) /\ i - d \in 2..Len(q) /\ i - d \in 1..Len(q) /\ w[i] = q[i - d]

\* A position of the new sequence is one of the path or one of the old sequence.
LEMMA Places ==
  ASSUME NEW q, NEW s \in Seq(Steps), NEW w, NEW d, Shift(q, s, w, d), NEW i \in 1..Len(w)
  PROVE  /\ d \in Int /\ Len(s) \in Nat /\ Len(q) \in Nat \ {0} /\ i \in Int
         /\ Place(q, s, w, d, i)
<1>1. /\ d \in Int /\ Len(q) \in Nat \ {0} /\ Len(w) = Len(q) + d
      /\ \A k \in 1..Len(s) : k \in 1..Len(w) /\ w[k] = s[k]
      /\ \A k \in 1..Len(w) : k \in 1..Len(s) \/ (k - d \in 2..Len(q) /\ w[k] = q[k - d])
  BY Zenon DEF Shift
<1>2. Len(s) \in Nat
  BY Zenon, SeqLen
<1>3. i \in 1..Len(s) \/ (i - d \in 2..Len(q) /\ w[i] = q[i - d])
  BY Zenon, <1>1
<1>4. CASE i \in 1..Len(s)
  BY <1>1, <1>2, <1>4 DEF Place
<1>5. CASE i \notin 1..Len(s)
  <2>1. i > Len(s) /\ i \in Int
    BY <1>2, <1>5
  <2> QED BY <1>1, <1>2, <1>3, <1>5, <2>1 DEF Place
<1> QED BY Zenon, <1>4, <1>5

\* No call comes from anywhere else.
LEMMA HasMoved ==
  ASSUME NEW q, NEW s \in Seq(Steps), NEW w, NEW d, Shift(q, s, w, d), NEW F, Has(w, F)
  PROVE  Has(s, F) \/ Has(q, F)
<1>1. PICK i \in 1..Len(w) : w[i][1] \in F
  BY Zenon DEF Has
<1>2. Place(q, s, w, d, i)
  BY Zenon, Places
<1> QED BY Zenon, <1>1, <1>2 DEF Has, Place

\* The guards of the calls that are left stay, unless the head was one and the
\* path does not begin with one.
LEMMA GuardedMoved ==
  ASSUME NEW q, NEW s \in Seq(Steps), NEW w, NEW d, Shift(q, s, w, d), NEW F, NEW G,
         Guarded(q, F, G), ~Has(s, F),
         q[1][1] \in G => Len(s) > 0 /\ s[1][1] \in G
  PROVE  Guarded(w, F, G)
<1> SUFFICES ASSUME NEW i \in 1..Len(w), w[i][1] \in F PROVE \E m \in 1..(i - 1) : w[m][1] \in G
  BY Zenon DEF Guarded
<1>1. d \in Int /\ Len(s) \in Nat /\ Len(q) \in Nat \ {0} /\ i \in Int
  BY Zenon, Places
<1>a. Place(q, s, w, d, i)
  BY Zenon, Places
<1>2. i > Len(s) /\ i - d \in 2..Len(q) /\ i - d \in 1..Len(q) /\ w[i] = q[i - d]
  <2>1. \/ i \in 1..Len(s) /\ w[i] = s[i]
        \/ i > Len(s) /\ i - d \in 2..Len(q) /\ i - d \in 1..Len(q) /\ w[i] = q[i - d]
    BY Zenon, <1>a DEF Place
  <2>2. ~(i \in 1..Len(s) /\ w[i] = s[i])
    BY Zenon DEF Has
  <2> QED BY Zenon, <2>1, <2>2
<1>3. PICK m \in 1..(i - d - 1) : q[m][1] \in G
  BY Zenon, <1>2 DEF Guarded
<1>4. CASE m = 1
  <2>1. Len(s) > 0 /\ s[1][1] \in G
    BY Zenon, <1>3, <1>4
  <2>2. 1 \in 1..Len(s) /\ 1 \in 1..(i - 1)
    BY SMTT(30), <1>1, <1>2, <2>1
  <2>3. w[1] = s[1]
    BY Zenon, <2>2 DEF Shift
  <2> QED BY Zenon, <2>1, <2>2, <2>3
<1>5. CASE m # 1
  <2>1. m \in 2..Len(q)
    BY <1>1, <1>2, <1>5
  <2>2. m + d \in (Len(s) + 1)..Len(w) /\ w[m + d] = q[m]
    BY Zenon, <2>1 DEF Shift
  <2>3. m + d \in 1..(i - 1)
    BY <1>1, <2>1, <2>2
  <2> QED BY Zenon, <1>3, <2>2, <2>3
<1> QED BY Zenon, <1>4, <1>5

Single(s, F) == \A i, j \in 1..Len(s) : s[i][1] \in F /\ s[j][1] \in F => i = j

\* An allocation under way may become its next stage, and first-call work may
\* begin one.
LEMMA ShallowMoved ==
  ASSUME NEW q, NEW s \in Seq(Steps), NEW w, NEW d, Shift(q, s, w, d), Shallow(q),
         Single(s, Allocs),
         Has(s, Allocs) => q[1][1] \in Allocs \cup FirstWork,
         Has(s, FirstWork) => q[1][1] \in FirstWork /\ ~Has(s, Allocs)
  PROVE  Shallow(w)
<1>a. \A i \in 1..Len(w) : Place(q, s, w, d, i)
  BY Zenon, Places
<1>1. \A i \in 1..Len(w) :
         \/ i \in 1..Len(s) /\ w[i] = s[i]
         \/ i > Len(s) /\ i - d \in 2..Len(q) /\ i - d \in 1..Len(q) /\ w[i] = q[i - d]
  BY Zenon, <1>a DEF Place
<1>2. d \in Int /\ Len(s) \in Nat /\ Len(q) \in Nat \ {0} /\ 1 \in 1..Len(q)
  <2>1. d \in Int /\ Len(q) \in Nat \ {0}
    BY Zenon DEF Shift
  <2> QED BY <2>1, SeqLen
<1>3. ASSUME NEW i \in 1..Len(w), NEW x \in 1..Len(w), NEW y \in 1..Len(w),
             w[i][1] \in FirstWork, i < x, i < y, w[x][1] \in Allocs, w[y][1] \in Allocs
      PROVE  x = y
  <2>1. CASE i \in 1..Len(s) /\ w[i] = s[i]
    <3>1. q[1][1] \in FirstWork /\ ~Has(s, Allocs)
      BY Zenon, <1>3, <2>1 DEF Has
    <3>2. /\ x - d \in 2..Len(q) /\ x - d \in 1..Len(q) /\ w[x] = q[x - d]
          /\ y - d \in 2..Len(q) /\ y - d \in 1..Len(q) /\ w[y] = q[y - d]
      BY Zenon, <1>1, <1>3, <3>1 DEF Has
    <3>3. 1 < x - d /\ 1 < y - d
      BY <1>2, <3>2
    <3>4. x - d = y - d
      BY Zenon, <1>2, <1>3, <3>1, <3>2, <3>3 DEF Shallow
    <3> QED BY <1>2, <3>4
  <2>2. CASE i > Len(s) /\ i - d \in 2..Len(q) /\ i - d \in 1..Len(q) /\ w[i] = q[i - d]
    <3>1. x \notin 1..Len(s) /\ y \notin 1..Len(s)
      BY <1>2, <1>3, <2>2
    <3>2. /\ x - d \in 1..Len(q) /\ w[x] = q[x - d]
          /\ y - d \in 1..Len(q) /\ w[y] = q[y - d]
      BY Zenon, <1>1, <3>1
    <3>3. i - d < x - d /\ i - d < y - d
      BY <1>2, <1>3
    <3>4. x - d = y - d
      BY Zenon, <1>3, <2>2, <3>2, <3>3 DEF Shallow
    <3> QED BY <1>2, <3>4
  <2> QED BY Zenon, <1>1, <2>1, <2>2
<1>4. ASSUME NEW x \in 1..Len(w), NEW y \in 1..Len(w), w[x][1] \in Allocs, w[y][1] \in Allocs,
             x \in 1..Len(s) /\ w[x] = s[x]
      PROVE  \/ x = y
             \/ /\ y - d \in 2..Len(q) /\ y - d \in 1..Len(q) /\ w[y] = q[y - d]
                /\ q[1][1] \in Allocs \cup FirstWork
  BY Zenon, <1>1, <1>4 DEF Single, Has
<1>5. ASSUME NEW x \in 1..Len(w), NEW y \in 1..Len(w), NEW z \in 1..Len(w),
             w[x][1] \in Allocs, w[y][1] \in Allocs, w[z][1] \in Allocs,
             x \in 1..Len(s) /\ w[x] = s[x]
      PROVE  x = y \/ y = z \/ x = z
  <2> SUFFICES ASSUME x # y, x # z PROVE y = z
    BY Zenon
  <2>1. /\ y - d \in 2..Len(q) /\ y - d \in 1..Len(q) /\ w[y] = q[y - d]
        /\ z - d \in 2..Len(q) /\ z - d \in 1..Len(q) /\ w[z] = q[z - d]
        /\ q[1][1] \in Allocs \cup FirstWork
    BY Zenon, <1>4, <1>5
  <2>2. 1 < y - d /\ 1 < z - d /\ 1 # y - d /\ 1 # z - d
    BY <1>2, <2>1
  <2>3. y - d = z - d
    <3>1. CASE q[1][1] \in Allocs
      BY Zenon, <1>2, <1>5, <2>1, <2>2, <3>1 DEF Shallow
    <3>2. CASE q[1][1] \in FirstWork
      BY Zenon, <1>2, <1>5, <2>1, <2>2, <3>2 DEF Shallow
    <3> QED BY Zenon, <2>1, <3>1, <3>2
  <2> QED BY <1>2, <2>3
<1>6. ASSUME NEW x \in 1..Len(w), NEW y \in 1..Len(w), NEW z \in 1..Len(w),
             w[x][1] \in Allocs, w[y][1] \in Allocs, w[z][1] \in Allocs
      PROVE  x = y \/ y = z \/ x = z
  <2>1. CASE x \in 1..Len(s) /\ w[x] = s[x]
    BY Zenon, <1>5, <1>6, <2>1
  <2>2. CASE y \in 1..Len(s) /\ w[y] = s[y]
    BY Zenon, <1>5, <1>6, <2>2
  <2>3. CASE z \in 1..Len(s) /\ w[z] = s[z]
    BY Zenon, <1>5, <1>6, <2>3
  <2>4. CASE /\ x - d \in 1..Len(q) /\ w[x] = q[x - d]
             /\ y - d \in 1..Len(q) /\ w[y] = q[y - d]
             /\ z - d \in 1..Len(q) /\ w[z] = q[z - d]
    <3>1. x - d = y - d \/ y - d = z - d \/ x - d = z - d
      BY Zenon, <1>6, <2>4 DEF Shallow
    <3> QED BY <1>2, <3>1
  <2> QED BY Zenon, <1>1, <2>1, <2>2, <2>3, <2>4
<1> QED BY Zenon, <1>3, <1>6 DEF Shallow

-----------------------------------------------------------------------------
(* A step of one thread *)

\* The path s replaces the head of a's sequence, and the others keep theirs.
Moves(a, s, d) ==
  /\ s \in Seq(Steps)
  /\ todo[a] \in Seq(Steps) /\ todo[a] # <<>>
  /\ todo'[a] = s \o Tail(todo[a])
  /\ Shift(todo[a], s, todo'[a], d)
  /\ \A b \in Actors : b = a \/ todo'[b] = todo[b]

\* The head of a thread's sequence is what it is about to do.
LEMMA HeadFacts ==
  ASSUME TypeOK, NEW a \in Actors, NEW f, At(a, f)
  PROVE  /\ todo[a] \in Seq(Steps) /\ todo[a] # <<>> /\ todo[a][1] \in Steps
         /\ todo[a][1] \in StepsOf(Funs, LocksInUse)
         /\ todo[a][1][1] = f /\ Head(todo[a]) = todo[a][1]
         /\ 1 \in 1..Len(todo[a])
         /\ f \in Funs => todo[a][1] = CallStep(f)
<1>1. LocksInUse \in SUBSET Locks /\ Funs \in SUBSET Funs
  BY Zenon, InUse
<1>2. todo[a] \in Seq(StepsOf(Funs, LocksInUse)) /\ StepsOf(Funs, LocksInUse) \subseteq Steps
  BY Zenon, <1>1, StepsOfFacts DEF TypeOK
<1>3. todo[a] \in Seq(Steps) /\ todo[a] # <<>> /\ Head(todo[a])[1] = f
  BY <1>2 DEF At
<1>4. Head(todo[a]) = todo[a][1] /\ 1 \in 1..Len(todo[a])
  <2>1. Len(todo[a]) \in Nat /\ Len(todo[a]) # 0
    BY Zenon, <1>3, SeqLen, SeqEmpty
  <2> QED BY <1>3, <2>1, SeqHeadTail
<1>5. todo[a][1] \in StepsOf(Funs, LocksInUse)
  BY Zenon, <1>2, <1>4, SeqElement
<1>6. todo[a][1] \in Steps
  BY Zenon, <1>2, <1>5
<1>7. f \in Funs => todo[a][1] = CallStep(f)
  BY ZenonT(40), <1>1, <1>3, <1>4, <1>6, StepsOfFacts
<1> QED BY Zenon, <1>3, <1>4, <1>5, <1>6, <1>7

\* What Become does to the sequences.
LEMMA BecomeFacts ==
  ASSUME TypeOK, NEW a \in Actors, todo[a] # <<>>, NEW s, s \in Seq(StepsOf(Funs, LocksInUse)),
         Become(a, s)
  PROVE  /\ \E d : Moves(a, s, d)
         /\ todo' \in [Actors -> Seq(StepsOf(Funs, LocksInUse))]
<1> DEFINE S == StepsOf(Funs, LocksInUse)
<1>1. LocksInUse \in SUBSET Locks /\ Funs \in SUBSET Funs
  BY Zenon, InUse
<1>2. S \subseteq Steps
  BY Zenon, <1>1, StepsOfFacts
<1> HIDE DEF S
<1>3. todo \in [Actors -> Seq(S)] /\ s \in Seq(S)
  BY Zenon DEF TypeOK, S
<1>4. todo[a] \in Seq(Steps) /\ s \in Seq(Steps)
  BY <1>2, <1>3
<1>5. /\ todo'[a] = s \o Tail(todo[a])
      /\ \A b \in Actors : b = a \/ todo'[b] = todo[b]
      /\ todo' = [b \in Actors |-> IF b = a THEN s \o Tail(todo[a]) ELSE todo[b]]
  BY Zenon, <1>3 DEF Become
<1>6. s \o Tail(todo[a]) \in Seq(S)
  <2>1. todo[a] \in Seq(S)
    BY Zenon, <1>3
  <2>2. Tail(todo[a]) \in Seq(S)
    BY Zenon, <2>1, SeqHeadTail
  <2> QED BY Zenon, <1>3, <2>2, SeqConcat
<1>7. todo' \in [Actors -> Seq(S)]
  BY Zenon, <1>3, <1>5, <1>6
<1>8. PICK d : d = Len(s) - 1
  BY Zenon
<1>9. Shift(todo[a], s, todo'[a], d)
  BY Zenon, <1>4, <1>5, <1>8, Moved
<1>10. Moves(a, s, d)
  BY Zenon, <1>4, <1>5, <1>9 DEF Moves
<1> QED BY Zenon, <1>7, <1>10 DEF S

\* A thread gets calls only from the path that replaces its head.
LEMMA HasStep ==
  ASSUME NEW a \in Actors, NEW s, NEW d, Moves(a, s, d), NEW F, NEW b \in Actors, Has(todo'[b], F)
  PROVE  Has(todo[b], F) \/ (b = a /\ Has(s, F))
<1>1. CASE b = a
  <2>1. s \in Seq(Steps) /\ Shift(todo[a], s, todo'[a], d)
    BY Zenon DEF Moves
  <2> QED BY Zenon, <1>1, <2>1, HasMoved
<1>2. CASE b # a
  BY Zenon, <1>2 DEF Moves
<1> QED BY Zenon, <1>1, <1>2

\* The guards of a thread's calls stay.
LEMMA GuardedStep ==
  ASSUME NEW a \in Actors, NEW s, NEW d, Moves(a, s, d), NEW F, NEW G,
         ~Has(s, F), todo[a][1][1] \in G => Len(s) > 0 /\ s[1][1] \in G,
         NEW b \in Actors, Guarded(todo[b], F, G)
  PROVE  Guarded(todo'[b], F, G)
<1>1. CASE b = a
  <2>1. s \in Seq(Steps) /\ Shift(todo[a], s, todo'[a], d)
    BY Zenon DEF Moves
  <2> QED BY Zenon, <1>1, <2>1, GuardedMoved
<1>2. CASE b # a
  BY Zenon, <1>2 DEF Moves
<1> QED BY Zenon, <1>1, <1>2

\* So does the bound on nested allocations.
LEMMA ShallowStep ==
  ASSUME ShallowInv, NEW a \in Actors, NEW s, NEW d, Moves(a, s, d),
         Single(s, Allocs),
         Has(s, Allocs) => todo[a][1][1] \in Allocs \cup FirstWork,
         Has(s, FirstWork) => todo[a][1][1] \in FirstWork /\ ~Has(s, Allocs)
  PROVE  ShallowInv'
<1>1. Shallow(todo'[a])
  <2>1. s \in Seq(Steps) /\ Shift(todo[a], s, todo'[a], d) /\ Shallow(todo[a])
    BY Zenon DEF Moves, ShallowInv
  <2> QED BY Zenon, <2>1, ShallowMoved
<1>2. ASSUME NEW b \in Actors, b # a PROVE Shallow(todo'[b])
  BY Zenon, <1>2 DEF Moves, ShallowInv
<1> QED BY Zenon, <1>1, <1>2 DEF ShallowInv

\* A call that at most one thread has stays with that thread.
LEMMA SoloStep ==
  ASSUME NEW a \in Actors, NEW s, NEW d, Moves(a, s, d), NEW F, Solo(todo, F), Single(s, F),
         \/ ~Has(s, F)
         \/ todo[a][1][1] \in F
         \/ \A b \in Actors : ~Has(todo[b], F)
  PROVE  Solo(todo', F)
<1>1. /\ s \in Seq(Steps) /\ Shift(todo[a], s, todo'[a], d)
      /\ \A b \in Actors : b = a \/ todo'[b] = todo[b]
  BY Zenon DEF Moves
<1>2. d \in Int /\ Len(s) \in Nat /\ Len(todo[a]) \in Nat \ {0} /\ 1 \in 1..Len(todo[a])
  <2>1. d \in Int /\ Len(todo[a]) \in Nat \ {0}
    BY Zenon, <1>1 DEF Shift
  <2> QED BY <1>1, <2>1, SeqLen
<1>3. ASSUME NEW i \in 1..Len(todo'[a]) PROVE Place(todo[a], s, todo'[a], d, i)
  BY Zenon, <1>1, Places
\* Where a call of F comes from: the path, or a place other than the head.
<1>4. ASSUME NEW b \in Actors, NEW i \in 1..Len(todo'[b]), todo'[b][i][1] \in F
      PROVE  \/ b = a /\ i \in 1..Len(s) /\ s[i][1] \in F
             \/ b = a /\ i - d \in 2..Len(todo[a]) /\ i - d \in 1..Len(todo[a]) /\ todo[a][i - d][1] \in F
             \/ b # a /\ i \in 1..Len(todo[b]) /\ todo[b][i][1] \in F
  <2>1. CASE b = a
    BY Zenon, <1>3, <1>4, <2>1 DEF Place
  <2>2. CASE b # a
    BY Zenon, <1>1, <1>4, <2>2
  <2> QED BY Zenon, <2>1, <2>2
<1>5. ASSUME NEW b \in Actors, NEW c \in Actors, NEW i \in 1..Len(todo'[b]), NEW j \in 1..Len(todo'[c]),
             todo'[b][i][1] \in F, todo'[c][j][1] \in F,
             b = a /\ i \in 1..Len(s) /\ s[i][1] \in F
      PROVE  b = c /\ i = j
  <2>1. Has(s, F)
    BY Zenon, <1>5 DEF Has
  <2>2. CASE c = a /\ j \in 1..Len(s) /\ s[j][1] \in F
    BY Zenon, <1>5, <2>2 DEF Single
  <2>3. CASE c = a /\ j - d \in 2..Len(todo[a]) /\ j - d \in 1..Len(todo[a]) /\ todo[a][j - d][1] \in F
    <3>1. todo[a][1][1] \in F
      BY Zenon, <2>1, <2>3 DEF Has
    <3>2. 1 = j - d
      BY Zenon, <1>2, <2>3, <3>1 DEF Solo
    <3> QED BY <1>2, <2>3, <3>2
  <2>4. CASE c # a /\ j \in 1..Len(todo[c]) /\ todo[c][j][1] \in F
    <3>1. todo[a][1][1] \in F
      BY Zenon, <2>1, <2>4 DEF Has
    <3>2. a = c
      BY Zenon, <1>2, <2>4, <3>1 DEF Solo
    <3> QED BY Zenon, <2>4, <3>2
  <2> QED BY Zenon, <1>4, <1>5, <2>2, <2>3, <2>4
<1>6. ASSUME NEW b \in Actors, NEW c \in Actors, NEW i \in 1..Len(todo'[b]), NEW j \in 1..Len(todo'[c]),
             todo'[b][i][1] \in F, todo'[c][j][1] \in F
      PROVE  b = c /\ i = j
  <2>1. CASE b = a /\ i \in 1..Len(s) /\ s[i][1] \in F
    BY Zenon, <1>5, <1>6, <2>1
  <2>2. CASE c = a /\ j \in 1..Len(s) /\ s[j][1] \in F
    BY ZenonT(40), <1>5, <1>6, <2>2
  <2>3. CASE /\ b = a /\ i - d \in 1..Len(todo[a]) /\ todo[a][i - d][1] \in F
             /\ c = a /\ j - d \in 1..Len(todo[a]) /\ todo[a][j - d][1] \in F
    <3>1. i - d = j - d
      BY Zenon, <2>3 DEF Solo
    <3> QED BY <1>2, <2>3, <3>1
  <2>4. CASE /\ b = a /\ i - d \in 1..Len(todo[a]) /\ todo[a][i - d][1] \in F
             /\ c # a /\ j \in 1..Len(todo[c]) /\ todo[c][j][1] \in F
    BY Zenon, <2>4 DEF Solo
  <2>5. CASE /\ c = a /\ j - d \in 1..Len(todo[a]) /\ todo[a][j - d][1] \in F
             /\ b # a /\ i \in 1..Len(todo[b]) /\ todo[b][i][1] \in F
    BY Zenon, <2>5 DEF Solo
  <2>6. CASE /\ b # a /\ i \in 1..Len(todo[b]) /\ todo[b][i][1] \in F
             /\ c # a /\ j \in 1..Len(todo[c]) /\ todo[c][j][1] \in F
    BY Zenon, <2>6 DEF Solo
  <2> QED BY Zenon, <1>4, <1>6, <2>1, <2>2, <2>3, <2>4, <2>5, <2>6
<1> QED BY ZenonT(40), <1>6 DEF Solo

\* When the one thread that has a call of F makes it, none is left.
LEMMA SoloGone ==
  ASSUME NEW a \in Actors, NEW s, NEW d, Moves(a, s, d), NEW F, Solo(todo, F), ~Has(s, F),
         todo[a][1][1] \in F, NEW b \in Actors
  PROVE  ~Has(todo'[b], F)
<1> SUFFICES ASSUME NEW i \in 1..Len(todo'[b]), todo'[b][i][1] \in F PROVE FALSE
  BY Zenon DEF Has
<1>1. /\ s \in Seq(Steps) /\ Shift(todo[a], s, todo'[a], d)
      /\ b = a \/ todo'[b] = todo[b]
  BY Zenon DEF Moves
<1>2. d \in Int /\ 1 \in 1..Len(todo[a])
  <2>1. d \in Int /\ Len(todo[a]) \in Nat \ {0}
    BY Zenon, <1>1 DEF Shift
  <2> QED BY <2>1
<1>3. CASE b = a
  <2>1. Place(todo[a], s, todo'[a], d, i)
    BY Zenon, <1>1, <1>3, Places
  <2>2. i - d \in 2..Len(todo[a]) /\ i - d \in 1..Len(todo[a]) /\ todo[a][i - d][1] \in F
    BY Zenon, <1>3, <2>1 DEF Place, Has
  <2>3. i - d = 1
    BY Zenon, <1>2, <2>2 DEF Solo
  <2> QED BY <2>2, <2>3
<1>4. CASE b # a
  BY Zenon, <1>1, <1>2, <1>4 DEF Solo
<1> QED BY Zenon, <1>3, <1>4

\* A call gives way to a path while no lock changes hands.
LEMMA LocksStep ==
  ASSUME LocksInv, NEW a \in Actors, NEW s, NEW d, Moves(a, s, d), UNCHANGED lock,
         NEW f \in Funs, todo[a][1] = CallStep(f), Fine(s, Low(f))
  PROVE  LocksInv'
<1>1. Nested(todo[a], Held(a)) /\ todo[a] # <<>> /\ todo'[a] = s \o Tail(todo[a])
  BY Zenon DEF LocksInv, Moves
<1>2. Nested(todo'[a], Held(a))
  BY Zenon, <1>1, NestedExpand
<1>3. \A b : Held(b)' = Held(b)
  BY Zenon DEF Held
<1>4. ASSUME NEW b \in Actors PROVE Nested(todo[b]', Held(b)')
  <2>1. CASE b = a
    BY Zenon, <1>2, <1>3, <2>1
  <2>2. CASE b # a
    BY Zenon, <1>3, <2>2 DEF Moves, LocksInv
  <2> QED BY Zenon, <2>1, <2>2
<1> QED BY Zenon, <1>4 DEF LocksInv

\* A thread without a cache gets no allocation or first-call work but through
\* btm_tls_get.
LEMMA CacheStep ==
  ASSUME CacheInv, NEW a \in Actors, NEW s, NEW d, Moves(a, s, d), btm_tls \subseteq btm_tls',
         \/ a \in btm_tls'
         \/ ~Has(s, {"malloc"}) /\ ~Has(s, {"start", "create"}) /\ todo[a][1][1] # "tls"
  PROVE  CacheInv'
<1> SUFFICES ASSUME NEW b \in Actors, b \notin btm_tls'
             PROVE  ~Has(todo'[b], {"malloc"}) /\ Guarded(todo'[b], {"start", "create"}, {"tls"})
  BY Zenon DEF CacheInv
<1>1. ~Has(todo[b], {"malloc"}) /\ Guarded(todo[b], {"start", "create"}, {"tls"})
  BY Zenon DEF CacheInv
<1>2. CASE b # a
  BY Zenon, <1>1, <1>2 DEF Moves
<1>3. CASE b = a
  <2>1. ~Has(s, {"malloc"}) /\ ~Has(s, {"start", "create"}) /\ todo[a][1][1] \notin {"tls"}
    BY Zenon, <1>3
  <2>2. ~Has(todo'[b], {"malloc"})
    BY Zenon, <1>1, <2>1, HasStep
  <2>3. Guarded(todo'[b], {"start", "create"}, {"tls"})
    BY Zenon, <1>1, <2>1, GuardedStep
  <2> QED BY Zenon, <2>2, <2>3
<1> QED BY Zenon, <1>2, <1>3

GuardedByInit == \A a \in Actors : Tables \/ Guarded(todo[a], {"refill", "tls"}, {"once", "build"})

\* Without tables a thread gets no work on a pool but behind the initialisation.
LEMMA TablesStep ==
  ASSUME TablesInv, NEW a \in Actors, NEW s, NEW d, Moves(a, s, d), Tables => Tables',
         \/ Tables'
         \/ /\ ~Has(s, {"refill", "tls"})
            /\ todo[a][1][1] \in {"once", "build"} => Len(s) > 0 /\ s[1][1] \in {"once", "build"}
  PROVE  GuardedByInit'
<1> SUFFICES ASSUME NEW b \in Actors, ~Tables'
             PROVE  Guarded(todo'[b], {"refill", "tls"}, {"once", "build"})
  BY Zenon DEF GuardedByInit
<1>1. Guarded(todo[b], {"refill", "tls"}, {"once", "build"})
  BY Zenon DEF TablesInv
<1> QED BY Zenon, <1>1, GuardedStep

\* Initialisation is left as it was by the steps that are not part of it.
LEMMA InitStep ==
  ASSUME InitInv, NEW a \in Actors, NEW s, NEW d, Moves(a, s, d), UNCHANGED initVars,
         ~Has(s, {"build", "publish"})
  PROVE  InitInv'
<1>1. ~Has(s, {"build"}) /\ ~Has(s, {"publish"}) /\ Single(s, {"build", "publish"})
  BY Zenon DEF Has, Single
<1>2. Solo(todo', {"build", "publish"})
  BY Zenon, <1>1, SoloStep DEF InitInv
<1>3. ASSUME NEW b \in Actors
      PROVE  /\ Has(todo'[b], {"build", "publish"}) => Has(todo[b], {"build", "publish"})
             /\ Has(todo'[b], {"build"}) => Has(todo[b], {"build"})
             /\ Has(todo'[b], {"publish"}) => Has(todo[b], {"publish"})
  BY Zenon, <1>1, HasStep
<1>4. init_once' = init_once /\ btm_partitions' = btm_partitions
  BY Zenon DEF initVars
<1> QED BY Zenon, <1>2, <1>3, <1>4 DEF InitInv

\* So is the start of the maintenance thread.
LEMMA SpawnStep ==
  ASSUME SpawnInv, NEW a \in Actors, NEW s, NEW d, Moves(a, s, d), UNCHANGED spawned,
         bg_started => bg_started', ~Has(s, {"spawn"})
  PROVE  SpawnInv'
<1>1. Single(s, {"spawn"})
  BY Zenon DEF Has, Single
<1>2. Solo(todo', {"spawn"})
  BY Zenon, <1>1, SoloStep DEF SpawnInv
<1>3. ASSUME NEW b \in Actors PROVE Has(todo'[b], {"spawn"}) => Has(todo[b], {"spawn"})
  BY Zenon, HasStep
<1> QED BY Zenon, <1>2, <1>3 DEF SpawnInv

Rest == CacheInv /\ TablesInv /\ InitInv /\ SpawnInv /\ ShallowInv

\* A step that is no part of btm_do_init.
LEMMA CoreStep ==
  ASSUME Rest, NEW a \in Actors, NEW s, NEW d, Moves(a, s, d), UNCHANGED initVars,
         btm_tls \subseteq btm_tls', btm_tls' # {} => Tables,
         ~Has(s, {"build", "publish"}),
         \/ a \in btm_tls'
         \/ ~Has(s, {"malloc"}) /\ ~Has(s, {"start", "create"}) /\ todo[a][1][1] # "tls",
         \/ Tables
         \/ ~Has(s, {"refill", "tls"}) /\ todo[a][1][1] \notin {"once", "build"},
         Single(s, Allocs),
         Has(s, Allocs) => todo[a][1][1] \in Allocs \cup FirstWork,
         Has(s, FirstWork) => todo[a][1][1] \in FirstWork /\ ~Has(s, Allocs)
  PROVE  CacheInv' /\ TablesInv' /\ InitInv' /\ ShallowInv'
<1>1. /\ init_once' = init_once /\ btm_partitions' = btm_partitions /\ btm_ready' = btm_ready
      /\ btm_mesh_mode' = btm_mesh_mode /\ oom' = oom
  BY Zenon DEF initVars
<1>2. Tables' <=> Tables
  BY Zenon, <1>1 DEF Tables
<1>3. CacheInv'
  BY Zenon, CacheStep DEF Rest
<1>4. GuardedByInit'
  BY Zenon, <1>2, TablesStep DEF Rest
<1>5. TablesInv'
  BY Zenon, <1>1, <1>2, <1>4 DEF TablesInv, GuardedByInit, Rest
<1>6. InitInv'
  BY Zenon, InitStep DEF Rest
<1>7. ShallowInv'
  BY Zenon, ShallowStep DEF Rest
<1> QED BY Zenon, <1>3, <1>5, <1>6, <1>7

\* A step that is no part of btm_do_init and creates no thread.
LEMMA PlainStep ==
  ASSUME Rest, NEW a \in Actors, NEW s, NEW d, Moves(a, s, d),
         UNCHANGED initVars, UNCHANGED spawned, bg_started => bg_started',
         btm_tls \subseteq btm_tls', btm_tls' # {} => Tables,
         ~Has(s, {"build", "publish"}), ~Has(s, {"spawn"}),
         \/ a \in btm_tls'
         \/ ~Has(s, {"malloc"}) /\ ~Has(s, {"start", "create"}) /\ todo[a][1][1] # "tls",
         \/ Tables
         \/ ~Has(s, {"refill", "tls"}) /\ todo[a][1][1] \notin {"once", "build"},
         Single(s, Allocs),
         Has(s, Allocs) => todo[a][1][1] \in Allocs \cup FirstWork,
         Has(s, FirstWork) => todo[a][1][1] \in FirstWork /\ ~Has(s, Allocs)
  PROVE  Rest'
<1>1. CacheInv' /\ TablesInv' /\ InitInv' /\ ShallowInv'
  BY Zenon, CoreStep
<1>2. SpawnInv'
  BY Zenon, SpawnStep DEF Rest
<1> QED BY Zenon, <1>1, <1>2 DEF Rest

\* The empty path has no calls.
LEMMA EmptyFacts ==
  /\ \A F : ~Has(<<>>, F) /\ Single(<<>>, F)
  /\ \A F, L : <<>> \in Seq(StepsOf(F, L))
  /\ \A n \in Nat : Fine(<<>>, n)
<1>1. 1..Len(<<>>) = {}
  BY SeqEmpty
<1>2. \A F : ~Has(<<>>, F) /\ Single(<<>>, F)
  BY Zenon, <1>1 DEF Has, Single
<1> QED BY Zenon, <1>2, FineEmpty, SeqEmpty

\* One call is one call.
LEMMA CallFacts ==
  ASSUME NEW f \in Funs
  PROVE  /\ \A F : Single(Call(f), F) /\ (Has(Call(f), F) <=> f \in F)
         /\ \A L : Call(f) \in Seq(StepsOf(Funs, L))
         /\ Fine(Call(f), Low(f))
<1>1. Len(Call(f)) = 1 /\ Call(f)[1] = <<f>>
  BY Zenon, CallSteps
<1>2. \A F : Single(Call(f), F) /\ (Has(Call(f), F) <=> f \in F)
  BY <1>1 DEF Single, Has
<1>3. Low(f) \in Nat /\ Low(f) <= Low(f)
  BY LevelFacts
<1>4. Fine(Call(f), Low(f))
  BY Zenon, <1>3, FineCall
<1>5. Funs \in SUBSET Funs
  BY Zenon
<1>6. \A L : Path(Call(f), Low(f), Funs, L)
  BY Zenon, <1>3, <1>5, PathCall
<1> QED BY Zenon, <1>2, <1>4, <1>6 DEF Path

\* The types of the variables that a step of a thread leaves alone.
LEMMA TypeStep ==
  ASSUME TypeOK, UNCHANGED initVars, todo' \in [Actors -> Seq(StepsOf(Funs, LocksInUse))],
         btm_tls' \subseteq Threads, spawned' \in Nat, lock' \in [Locks -> Actors \cup {Nobody, Gone}]
  PROVE  TypeOK'
<1>1. LocksInUse' = LocksInUse
  BY Zenon DEF LocksInUse, initVars
<1> QED BY Zenon, <1>1 DEF TypeOK

\* No lock is orphaned by a step that leaves the locks alone.
LEMMA SameLocks ==
  ASSUME OrphansKnown, UNCHANGED lock
  PROVE  OrphansKnown'
BY Zenon DEF OrphansKnown

\* A call that gives way to a path, outside btm_do_init and pthread_create.
LEMMA PlainCall ==
  ASSUME Inv, NEW a \in Actors, NEW f \in Funs, At(a, f),
         NEW s, s \in Seq(StepsOf(Funs, LocksInUse)), Fine(s, Low(f)), Become(a, s),
         UNCHANGED initVars, UNCHANGED spawned, UNCHANGED lock, bg_started => bg_started',
         btm_tls \subseteq btm_tls', btm_tls' \subseteq Threads, btm_tls' # {} => Tables,
         ~Has(s, {"build", "publish"}), ~Has(s, {"spawn"}),
         a \in btm_tls' \/ (~Has(s, {"malloc"}) /\ ~Has(s, {"start", "create"}) /\ f # "tls"),
         Tables \/ (~Has(s, {"refill", "tls"}) /\ f \notin {"once", "build"}),
         Single(s, Allocs),
         Has(s, Allocs) => f \in Allocs \cup FirstWork,
         Has(s, FirstWork) => f \in FirstWork /\ ~Has(s, Allocs)
  PROVE  Inv'
<1>1. TypeOK /\ LocksInv /\ Rest /\ OrphansKnown
  BY Zenon DEF Inv, Rest
<1>2. todo[a] # <<>> /\ todo[a][1][1] = f /\ todo[a][1] = CallStep(f)
  BY Zenon, <1>1, HeadFacts
<1>3. PICK d : Moves(a, s, d)
  BY Zenon, <1>1, <1>2, BecomeFacts
<1>4. todo' \in [Actors -> Seq(StepsOf(Funs, LocksInUse))]
  BY Zenon, <1>1, <1>2, BecomeFacts
<1>5. Rest'
  BY Zenon, <1>1, <1>2, <1>3, PlainStep
<1>6. TypeOK'
  BY Zenon, <1>1, <1>4, TypeStep DEF TypeOK
<1>7. LocksInv'
  BY Zenon, <1>1, <1>2, <1>3, LocksStep
<1> QED BY Zenon, <1>1, <1>5, <1>6, <1>7, SameLocks DEF Inv, Rest

\* A call of malloc becomes the allocation proper: the thread has its cache.
LEMMA ExpandMalloc ==
  ASSUME Inv, NEW a \in Actors, At(a, "malloc"), NEW s \in Paths("malloc", a), Become(a, s),
         UNCHANGED <<initVars, btm_tls, bgVars, lock, calls, forked>>
  PROVE  Inv'
<1>1. TypeOK /\ CacheInv /\ TablesInv /\ "malloc" \in Funs
  BY Zenon DEF Inv, Funs
<1>2. todo[a][1][1] = "malloc" /\ 1 \in 1..Len(todo[a])
  BY Zenon, <1>1, HeadFacts
<1>3. a \in btm_tls
  <2>1. Has(todo[a], {"malloc"})
    BY Zenon, <1>2 DEF Has
  <2> QED BY Zenon, <1>1, <2>1 DEF CacheInv
<1>4. s = Refill
  BY Zenon, <1>3 DEF Paths, MallocPaths
<1>5. Path(s, 1, {"partition_of", "refill"}, LocksInUse) /\ {"partition_of", "refill"} \subseteq Funs
  BY Zenon, <1>4, MallocPath DEF Funs
<1>6. Fine(s, 1) /\ s \in Seq(StepsOf(Funs, LocksInUse))
  BY Zenon, <1>5, PathWider DEF Path
<1>7. Fine(s, Low("malloc"))
  BY Zenon, <1>6, Ranks
<1>8. /\ UNCHANGED initVars /\ btm_tls' = btm_tls /\ bg_started' = bg_started
      /\ spawned' = spawned /\ lock' = lock
  BY Zenon DEF bgVars
<1>9. /\ ~Has(s, {"build", "publish"}) /\ ~Has(s, {"spawn"}) /\ ~Has(s, FirstWork)
      /\ Single(s, Allocs) /\ "malloc" \in Allocs
  BY <1>4, MallocSteps DEF Has, Single, Allocs, FirstWork
<1>10. Tables /\ btm_tls \subseteq Threads
  BY Zenon, <1>1, <1>3 DEF TablesInv, TypeOK
<1> QED BY Zenon, <1>1, <1>3, <1>6, <1>7, <1>8, <1>9, <1>10, PlainCall

\* A path of F alone has none of the calls that need care.
LEMMA Careless ==
  ASSUME NEW s, NEW n, NEW F \in SUBSET Funs, Path(s, n, F, LocksInUse),
         F \cap {"build", "publish", "spawn", "malloc", "refill", "tls", "start", "create"} = {}
  PROVE  /\ ~Has(s, {"build", "publish"}) /\ ~Has(s, {"spawn"}) /\ ~Has(s, {"malloc"})
         /\ ~Has(s, {"start", "create"}) /\ ~Has(s, {"refill", "tls"})
         /\ ~Has(s, Allocs) /\ ~Has(s, FirstWork) /\ Single(s, Allocs) /\ ~Has(s, {"refill"})
         /\ ~Has(s, {"build"}) /\ ~Has(s, {"publish"}) /\ Single(s, {"build", "publish"}) /\ Single(s, {"spawn"})
<1>1. s \in Seq(StepsOf(F, LocksInUse)) /\ LocksInUse \in SUBSET Locks
  BY Zenon, InUse DEF Path
<1>2. ~Has(s, {"build", "publish", "spawn", "malloc", "refill", "tls", "start", "create"})
  <2>1. {"build", "publish", "spawn", "malloc", "refill", "tls", "start", "create"} \in SUBSET Funs
    BY Zenon DEF Funs
  <2> QED BY Zenon, <1>1, <2>1, Lacks
<1> QED BY Zenon, <1>2 DEF Has, Allocs, FirstWork, Single

\* The other functions of the heap.
LEMMA ExpandOther ==
  ASSUME Inv, NEW a \in Actors, NEW f \in Called \ {"malloc"}, At(a, f), NEW s \in Paths(f, a),
         Become(a, s), UNCHANGED <<initVars, btm_tls, bgVars, lock, calls, forked>>
  PROVE  Inv'
<1>1. f \in Funs /\ f # "tls" /\ f \notin {"once", "build"} /\ Quiet \in SUBSET Funs
  BY Zenon DEF Called, Funs, Quiet
<1>2. Path(s, Low(f), Quiet, LocksInUse)
  BY Zenon, CalledPaths
<1>3. Fine(s, Low(f)) /\ s \in Seq(StepsOf(Funs, LocksInUse))
  BY Zenon, <1>1, <1>2, PathWider DEF Path
<1>4. Quiet \cap {"build", "publish", "spawn", "malloc", "refill", "tls", "start", "create"} = {}
  BY Zenon DEF Quiet
<1>5. /\ ~Has(s, {"build", "publish"}) /\ ~Has(s, {"spawn"}) /\ ~Has(s, {"malloc"})
      /\ ~Has(s, {"start", "create"}) /\ ~Has(s, {"refill", "tls"})
      /\ ~Has(s, Allocs) /\ ~Has(s, FirstWork) /\ Single(s, Allocs)
  BY Zenon, <1>1, <1>2, <1>4, Careless
<1>6. /\ UNCHANGED initVars /\ btm_tls' = btm_tls /\ bg_started' = bg_started
      /\ spawned' = spawned /\ lock' = lock
  BY Zenon DEF bgVars
<1>7. btm_tls \subseteq Threads /\ (btm_tls # {} => Tables)
  BY Zenon DEF Inv, TypeOK, TablesInv
<1> QED BY Zenon, <1>1, <1>3, <1>5, <1>6, <1>7, PlainCall

\* Expand.
LEMMA ExpandInv ==
  ASSUME Inv, NEW a \in Actors, Expand(a)
  PROVE  Inv'
<1>1. PICK f \in Called : At(a, f) /\ \E s \in Paths(f, a) : Become(a, s)
  BY Zenon DEF Expand
<1>2. PICK s \in Paths(f, a) : Become(a, s)
  BY Zenon, <1>1
<1>3. UNCHANGED <<initVars, btm_tls, bgVars, lock, calls, forked>>
  BY Zenon DEF Expand
<1>4. CASE f = "malloc"
  BY Zenon, <1>1, <1>2, <1>3, <1>4, ExpandMalloc
<1>5. CASE f # "malloc"
  BY Zenon, <1>1, <1>2, <1>3, <1>5, ExpandOther
<1> QED BY Zenon, <1>4, <1>5

\* A lock or unlock step leaves the calls that are still to be made as they were.
LEMMA LockRest ==
  ASSUME Inv, NEW a \in Actors, NEW f \in {"lock", "unlock"}, At(a, f), Become(a, <<>>),
         UNCHANGED <<initVars, btm_tls, bgVars>>
  PROVE  /\ Rest' /\ todo' \in [Actors -> Seq(StepsOf(Funs, LocksInUse))]
         /\ todo'[a] = <<>> \o Tail(todo[a])
         /\ \A b \in Actors : b = a \/ todo'[b] = todo[b]
         /\ todo[a] # <<>> /\ todo[a][1][2] \in Locks /\ Head(todo[a]) = todo[a][1]
         /\ f = "lock" => todo[a][1] = LockStep(todo[a][1][2])
         /\ f = "unlock" => todo[a][1] = UnlockStep(todo[a][1][2])
<1>1. TypeOK /\ Rest
  BY Zenon DEF Inv, Rest
<1>2. /\ todo[a] # <<>> /\ todo[a][1][1] = f /\ Head(todo[a]) = todo[a][1] /\ todo[a][1] \in Steps
  BY Zenon, <1>1, HeadFacts
<1>3. /\ todo[a][1][2] \in Locks
      /\ f = "lock" => todo[a][1] = LockStep(todo[a][1][2])
      /\ f = "unlock" => todo[a][1] = UnlockStep(todo[a][1][2])
  BY Zenon, <1>2, StepsOfFacts, InUse
<1>4. PICK s : s = <<>>
  BY Zenon
<1>5. /\ s \in Seq(StepsOf(Funs, LocksInUse)) /\ Become(a, s)
      /\ \A F : ~Has(s, F) /\ Single(s, F)
  BY Zenon, <1>4, EmptyFacts
<1>6. PICK d : Moves(a, s, d)
  BY Zenon, <1>1, <1>2, <1>5, BecomeFacts
<1>7. todo' \in [Actors -> Seq(StepsOf(Funs, LocksInUse))]
  BY Zenon, <1>1, <1>2, <1>5, BecomeFacts
<1>8. UNCHANGED initVars /\ btm_tls' = btm_tls /\ bg_started' = bg_started /\ spawned' = spawned
  BY Zenon DEF bgVars
<1>9. f # "tls" /\ f \notin {"once", "build"}
  BY Zenon
<1>10. btm_tls # {} => Tables
  BY Zenon, <1>1 DEF Rest, TablesInv
<1>11. Rest'
  BY Zenon, <1>1, <1>2, <1>5, <1>6, <1>8, <1>9, <1>10, PlainStep
<1> QED BY Zenon, <1>2, <1>3, <1>4, <1>6, <1>7, <1>11 DEF Moves

\* The owners of locks are told from no owner and from an owner that is gone.
LEMMA Owners ==
  ASSUME NEW a \in Actors
  PROVE  a # Nobody /\ a # Gone
BY Zenon, ProcessAssumption DEF Actors

\* Taking a lock.
LEMMA LockInv ==
  ASSUME Inv, NEW a \in Actors, Lock(a)
  PROVE  Inv'
<1> DEFINE l == todo[a][1][2]
<1>1. TypeOK /\ LocksInv /\ OrphansKnown
  BY Zenon DEF Inv
<1>2. /\ At(a, "lock") /\ Become(a, <<>>) /\ UNCHANGED <<initVars, btm_tls, bgVars>>
  BY Zenon DEF Lock
<1>3. /\ Rest' /\ todo' \in [Actors -> Seq(StepsOf(Funs, LocksInUse))]
      /\ todo'[a] = <<>> \o Tail(todo[a])
      /\ \A b \in Actors : b = a \/ todo'[b] = todo[b]
      /\ todo[a] # <<>> /\ l \in Locks /\ Head(todo[a]) = todo[a][1]
      /\ todo[a][1] = LockStep(l)
  BY Zenon, <1>2, LockRest
<1>4. lock[l] = Nobody /\ lock' = [lock EXCEPT ![l] = a]
  BY Zenon, <1>3 DEF Lock
<1> HIDE DEF l
<1>5. lock \in [Locks -> Actors \cup {Nobody, Gone}]
  BY Zenon, <1>1 DEF TypeOK
<1>6. lock' \in [Locks -> Actors \cup {Nobody, Gone}]
  BY Zenon, <1>4, <1>5
<1>7. \A k \in Locks : lock'[k] = IF k = l THEN a ELSE lock[k]
  BY Zenon, <1>4, <1>5
<1>8. a # Nobody /\ a # Gone
  BY Zenon, Owners
<1>9. Held(a)' = Held(a) \cup {l}
  BY Zenon, <1>3, <1>7 DEF Held
<1>10. ASSUME NEW b \in Actors, b # a PROVE Held(b)' = Held(b)
  <2>1. b # Nobody
    BY Zenon, Owners
  <2> QED BY <1>3, <1>4, <1>7, <1>10, <2>1 DEF Held
<1>11. Nested(todo'[a], Held(a)')
  <2>1. Nested(todo[a], Held(a))
    BY Zenon, <1>1 DEF LocksInv
  <2>2. todo[a] # <<>> /\ l \in Locks /\ todo[a][1] = LockStep(l)
    BY Zenon, <1>3
  <2>3. Nested(<<>> \o Tail(todo[a]), Held(a) \cup {l})
    BY Zenon, <2>1, <2>2, NestedLock
  <2> QED BY Zenon, <1>3, <1>9, <2>3
<1>12. LocksInv'
  <2> SUFFICES ASSUME NEW b \in Actors PROVE Nested(todo'[b], Held(b)')
    BY Zenon DEF LocksInv
  <2>1. CASE b = a
    BY Zenon, <1>11, <2>1
  <2>2. CASE b # a
    BY Zenon, <1>1, <1>3, <1>10, <2>2 DEF LocksInv
  <2> QED BY Zenon, <2>1, <2>2
<1>13. OrphansKnown'
  BY Zenon, <1>1, <1>7, <1>8 DEF OrphansKnown
<1>14. TypeOK'
  <2>1. UNCHANGED initVars /\ btm_tls' = btm_tls /\ spawned' = spawned
    BY <1>2 DEF bgVars
  <2> QED BY Zenon, <1>1, <1>3, <1>6, <2>1, TypeStep DEF TypeOK
<1> QED BY Zenon, <1>3, <1>12, <1>13, <1>14 DEF Inv, Rest

\* Releasing one.
LEMMA UnlockInv ==
  ASSUME Inv, NEW a \in Actors, Unlock(a)
  PROVE  Inv'
<1> DEFINE l == todo[a][1][2]
<1>1. TypeOK /\ LocksInv /\ OrphansKnown
  BY Zenon DEF Inv
<1>2. /\ At(a, "unlock") /\ Become(a, <<>>) /\ UNCHANGED <<initVars, btm_tls, bgVars>>
  BY Zenon DEF Unlock
<1>3. /\ Rest' /\ todo' \in [Actors -> Seq(StepsOf(Funs, LocksInUse))]
      /\ todo'[a] = <<>> \o Tail(todo[a])
      /\ \A b \in Actors : b = a \/ todo'[b] = todo[b]
      /\ todo[a] # <<>> /\ l \in Locks /\ Head(todo[a]) = todo[a][1]
      /\ todo[a][1] = UnlockStep(l)
  BY Zenon, <1>2, LockRest
<1>4. lock' = [lock EXCEPT ![l] = Nobody]
  BY Zenon, <1>3 DEF Unlock
<1> HIDE DEF l
<1>5. lock \in [Locks -> Actors \cup {Nobody, Gone}]
  BY Zenon, <1>1 DEF TypeOK
<1>6. lock' \in [Locks -> Actors \cup {Nobody, Gone}]
  BY Zenon, <1>4, <1>5
<1>7. \A k \in Locks : lock'[k] = IF k = l THEN Nobody ELSE lock[k]
  BY Zenon, <1>4, <1>5
<1>8. l \in Held(a) /\ Nested(todo'[a], Held(a) \ {l})
  <2>1. Nested(todo[a], Held(a))
    BY Zenon, <1>1 DEF LocksInv
  <2>2. todo[a] # <<>> /\ l \in Locks /\ todo[a][1] = UnlockStep(l)
    BY Zenon, <1>3
  <2>3. l \in Held(a) /\ Nested(<<>> \o Tail(todo[a]), Held(a) \ {l})
    BY Zenon, <2>1, <2>2, NestedUnlock
  <2> QED BY Zenon, <1>3, <2>3
<1>9. lock[l] = a
  BY Zenon, <1>8 DEF Held
<1>10. ASSUME NEW b \in Actors PROVE Held(b)' = IF b = a THEN Held(a) \ {l} ELSE Held(b)
  <2>1. b # Nobody
    BY Zenon, Owners
  <2> QED BY <1>3, <1>7, <1>9, <2>1 DEF Held
<1>11. LocksInv'
  <2> SUFFICES ASSUME NEW b \in Actors PROVE Nested(todo'[b], Held(b)')
    BY Zenon DEF LocksInv
  <2>1. CASE b = a
    <3>1. Held(b)' = Held(a) \ {l}
      BY Zenon, <1>10, <2>1
    <3> QED BY Zenon, <1>8, <2>1, <3>1
  <2>2. CASE b # a
    <3>1. Held(b)' = Held(b)
      BY Zenon, <1>10, <2>2
    <3> QED BY Zenon, <1>1, <1>3, <2>2, <3>1 DEF LocksInv
  <2> QED BY Zenon, <2>1, <2>2
<1>12. OrphansKnown'
  <2>1. Nobody # Gone
    BY ProcessAssumption
  <2> QED BY Zenon, <1>1, <1>7, <2>1 DEF OrphansKnown
<1>13. TypeOK'
  <2>1. UNCHANGED initVars /\ btm_tls' = btm_tls /\ spawned' = spawned
    BY Zenon, <1>2 DEF bgVars
  <2> QED BY Zenon, <1>1, <1>3, <1>6, <2>1, TypeStep DEF TypeOK
<1> QED BY Zenon, <1>3, <1>11, <1>12, <1>13 DEF Inv, Rest

\* The empty path in place of a call.
LEMMA ReturnCall ==
  ASSUME Inv, NEW a \in Actors, NEW f \in Funs, At(a, f), Become(a, <<>>),
         UNCHANGED initVars, UNCHANGED spawned, UNCHANGED lock, bg_started => bg_started',
         btm_tls \subseteq btm_tls', btm_tls' \subseteq Threads, btm_tls' # {} => Tables,
         a \in btm_tls' \/ f # "tls", Tables \/ f \notin {"once", "build"}
  PROVE  Inv'
<1>1. PICK s : s = <<>>
  BY Zenon
<1>2. Low(f) \in Nat
  BY LevelFacts
<1>3. /\ s \in Seq(StepsOf(Funs, LocksInUse)) /\ Fine(s, Low(f)) /\ Become(a, s)
      /\ \A F : ~Has(s, F) /\ Single(s, F)
  BY Zenon, <1>1, <1>2, EmptyFacts
<1> QED BY Zenon, <1>3, PlainCall

\* A thread that is about to do first-call work or to refill a bin: the call that
\* guards it is behind it.
LEMMA Guards ==
  ASSUME Inv, NEW a \in Actors, NEW f, At(a, f)
  PROVE  /\ f \in {"start", "create"} => a \in btm_tls
         /\ f \in {"refill", "tls"} => Tables
         /\ f \in {"build", "publish"} => init_once = "running"
         /\ f = "build" => ~btm_partitions /\ Has(todo[a], {"build"})
         /\ f = "publish" => btm_partitions
         /\ f = "spawn" => bg_started /\ spawned = 0
<1>1. TypeOK /\ CacheInv /\ TablesInv /\ InitInv /\ SpawnInv
  BY Zenon DEF Inv
<1>2. todo[a][1][1] = f /\ 1 \in 1..Len(todo[a])
  BY Zenon, <1>1, HeadFacts
<1>3. 1..(1 - 1) = {}
  OBVIOUS
<1>4. f \in {"start", "create"} => ~Guarded(todo[a], {"start", "create"}, {"tls"})
  BY Zenon, <1>2, <1>3 DEF Guarded
<1>5. f \in {"refill", "tls"} => ~Guarded(todo[a], {"refill", "tls"}, {"once", "build"})
  BY Zenon, <1>2, <1>3 DEF Guarded
<1>6. /\ f \in {"build", "publish"} => Has(todo[a], {"build", "publish"})
      /\ f = "build" => Has(todo[a], {"build"})
      /\ f = "publish" => Has(todo[a], {"publish"})
      /\ f = "spawn" => Has(todo[a], {"spawn"})
  BY Zenon, <1>2 DEF Has
<1> QED BY Zenon, <1>1, <1>4, <1>5, <1>6 DEF CacheInv, TablesInv, InitInv, SpawnInv

\* btm_tls_get, with the allocation that pthread_setspecific may make.
LEMMA TlsInv ==
  ASSUME Inv, NEW t \in Threads, btm_tls_get(t)
  PROVE  Inv'
<1>1. /\ t \in Actors /\ "tls" \in Funs /\ "malloc" \in Funs /\ "tls" \in FirstWork
      /\ "malloc" \notin {"build", "publish"} /\ "malloc" \notin {"spawn"}
      /\ "malloc" \notin FirstWork
  BY Zenon DEF Actors, Funs, FirstWork
<1>2. At(t, "tls") /\ UNCHANGED <<initVars, bgVars, lock, calls, forked>>
  BY Zenon DEF btm_tls_get
<1>3. Tables /\ btm_tls \subseteq Threads
  BY Zenon, <1>1, <1>2, Guards DEF Inv, TypeOK
<1>4. UNCHANGED initVars /\ bg_started' = bg_started /\ spawned' = spawned /\ lock' = lock
  BY Zenon, <1>2 DEF bgVars
<1>5. /\ btm_tls' = btm_tls \cup {t}
      /\ Become(t, <<>>) \/ Become(t, Call("malloc"))
  BY Zenon DEF btm_tls_get, TlsSet
<1>6. btm_tls \subseteq btm_tls' /\ btm_tls' \subseteq Threads /\ t \in btm_tls'
  BY Zenon, <1>3, <1>5
<1>7. CASE Become(t, <<>>)
  BY Zenon, <1>1, <1>2, <1>3, <1>4, <1>6, <1>7, ReturnCall
<1>8. CASE Become(t, Call("malloc"))
  <2>1. PICK s : s = Call("malloc")
    BY Zenon
  <2>2. Fine(s, Low("tls"))
    <3>1. 0 \in Nat /\ 0 <= Low("malloc") /\ Low("tls") = 0
      BY Ranks
    <3> QED BY Zenon, <1>1, <2>1, <3>1, FineCall
  <2>3. /\ \A F : Single(s, F) /\ (Has(s, F) <=> "malloc" \in F)
        /\ s \in Seq(StepsOf(Funs, LocksInUse))
    BY Zenon, <1>1, <2>1, CallFacts
  <2> QED BY Zenon, <1>1, <1>2, <1>3, <1>4, <1>6, <1>8, <2>1, <2>2, <2>3, PlainCall
<1> QED BY Zenon, <1>5, <1>7, <1>8

\* btm_bg_ensure_started, up to its lock.
LEMMA StartInv ==
  ASSUME Inv, NEW t \in Threads, EnsureStarted(t)
  PROVE  Inv'
<1>1. t \in Actors /\ "start" \in Funs /\ {"create"} \in SUBSET Funs /\ "start" \in FirstWork
  BY Zenon DEF Actors, Funs, FirstWork
<1>2. At(t, "start") /\ UNCHANGED <<initVars, btm_tls, bgVars, lock, calls, forked>>
  BY Zenon DEF EnsureStarted
<1>3. t \in btm_tls /\ btm_tls \subseteq Threads
  BY Zenon, <1>1, <1>2, Guards DEF Inv, TypeOK
<1>4. Tables
  BY Zenon, <1>3 DEF Inv, TablesInv
<1>5. /\ UNCHANGED initVars /\ btm_tls' = btm_tls /\ bg_started' = bg_started
      /\ spawned' = spawned /\ lock' = lock
  BY Zenon, <1>2 DEF bgVars
<1>6. Become(t, <<>>) \/ Become(t, Sec("bg_start", Call("create")))
  BY Zenon DEF EnsureStarted
<1>7. CASE Become(t, <<>>)
  BY Zenon, <1>1, <1>2, <1>3, <1>4, <1>5, <1>7, ReturnCall
<1>8. CASE Become(t, Sec("bg_start", Call("create")))
  <2>1. PICK s : s = Sec("bg_start", Call("create"))
    BY Zenon
  <2>2. Path(s, 0, {"create"}, LocksInUse)
    <3>1. /\ LocksInUse \in SUBSET Locks /\ "bg_start" \in LocksInUse
          /\ 0 \in Nat /\ 0 <= Rank("bg_start") /\ Rank("bg_start") + 1 \in Nat
          /\ Rank("bg_start") + 1 <= Low("create")
      BY InUse, Ranks
    <3>2. Path(Call("create"), Rank("bg_start") + 1, {"create"}, LocksInUse)
      BY Zenon, <1>1, <3>1, PathCall
    <3> QED BY Zenon, <2>1, <3>1, <3>2, PathSec
  <2>3. /\ s \in Seq(StepsOf({"create"}, LocksInUse)) /\ s \in Seq(StepsOf(Funs, LocksInUse))
        /\ LocksInUse \in SUBSET Locks
    BY ZenonT(40), <1>1, <2>2, PathWider, InUse DEF Path
  <2>4. Fine(s, Low("start"))
    BY Zenon, <2>2, Ranks DEF Path
  <2>5. ~Has(s, {"build", "publish"}) /\ ~Has(s, {"spawn"}) /\ ~Has(s, Allocs) /\ Single(s, Allocs)
    <3>1. /\ {"build", "publish"} \in SUBSET Funs /\ {"spawn"} \in SUBSET Funs /\ Allocs \in SUBSET Funs
          /\ {"create"} \cap {"build", "publish"} = {} /\ {"create"} \cap {"spawn"} = {}
          /\ {"create"} \cap Allocs = {}
      BY Zenon DEF Funs, Allocs
    <3>2. ~Has(s, {"build", "publish"}) /\ ~Has(s, {"spawn"}) /\ ~Has(s, Allocs)
      BY Zenon, <1>1, <2>3, <3>1, Lacks
    <3> QED BY Zenon, <3>2 DEF Has, Single
  <2> QED BY Zenon, <1>1, <1>2, <1>3, <1>4, <1>5, <1>8, <2>1, <2>3, <2>4, <2>5, PlainCall
<1> QED BY Zenon, <1>6, <1>7, <1>8

\* Two calls, one after the other.
LEMMA PairSteps ==
  ASSUME NEW f \in Funs, NEW g \in Funs, NEW w, w = Call(f) \o Call(g)
  PROVE  w \in Seq(Steps) /\ Len(w) = 2 /\ w[1] = <<f>> /\ w[2] = <<g>>
<1>1. /\ Call(f) \in Seq(Steps) /\ Len(Call(f)) = 1 /\ Call(f)[1] = <<f>>
      /\ Call(g) \in Seq(Steps) /\ Len(Call(g)) = 1 /\ Call(g)[1] = <<g>>
  BY Zenon, CallSteps
<1>2. /\ w \in Seq(Steps) /\ Len(w) = Len(Call(f)) + Len(Call(g))
      /\ \A i \in 1..Len(Call(f)) : w[i] = Call(f)[i]
      /\ \A i \in 1..Len(Call(g)) : w[Len(Call(f)) + i] = Call(g)[i]
  BY Zenon, <1>1, Joined
<1> QED BY <1>1, <1>2

\* pthread_create, which allocates, in the one thread that found bg_started unset.
LEMMA CreateInv ==
  ASSUME Inv, NEW t \in Threads, Create(t)
  PROVE  Inv'
<1>1. /\ t \in Actors /\ "create" \in Funs /\ "malloc" \in Funs /\ "spawn" \in Funs
      /\ "create" \in FirstWork /\ "create" # "tls" /\ "create" \notin {"once", "build"}
      /\ "malloc" \notin {"build", "publish"} /\ "malloc" \notin {"spawn"}
      /\ "malloc" \notin FirstWork
  BY Zenon DEF Actors, Funs, FirstWork
<1>2. At(t, "create") /\ UNCHANGED <<initVars, btm_tls, bg_async, spawned, lock, calls, forked>>
  BY Zenon DEF Create
<1>3. t \in btm_tls /\ btm_tls \subseteq Threads
  BY Zenon, <1>1, <1>2, Guards DEF Inv, TypeOK
<1>4. Tables
  BY Zenon, <1>3 DEF Inv, TablesInv
<1>5. UNCHANGED initVars /\ btm_tls' = btm_tls /\ spawned' = spawned /\ lock' = lock
  BY Zenon, <1>2
<1>6. /\ bg_started => bg_started'
      /\ Become(t, <<>>) \/ Become(t, Call("malloc"))
           \/ (~bg_started /\ bg_started' /\ Become(t, Call("malloc") \o Call("spawn")))
  BY Zenon DEF Create, StillToStart
<1>7. CASE Become(t, <<>>)
  BY Zenon, <1>1, <1>2, <1>3, <1>4, <1>5, <1>6, <1>7, ReturnCall
<1>8. CASE Become(t, Call("malloc"))
  <2>1. PICK s : s = Call("malloc")
    BY Zenon
  <2>2. Fine(s, Low("create"))
    <3>1. 1 \in Nat /\ 1 <= Low("malloc") /\ Low("create") = 1
      BY Ranks
    <3> QED BY Zenon, <1>1, <2>1, <3>1, FineCall
  <2>3. /\ \A F : Single(s, F) /\ (Has(s, F) <=> "malloc" \in F)
        /\ s \in Seq(StepsOf(Funs, LocksInUse))
    BY Zenon, <1>1, <2>1, CallFacts
  <2> QED BY Zenon, <1>1, <1>2, <1>3, <1>4, <1>5, <1>6, <1>8, <2>1, <2>2, <2>3, PlainCall
<1>9. CASE ~bg_started /\ bg_started' /\ Become(t, Call("malloc") \o Call("spawn"))
  <2>1. PICK s : s = Call("malloc") \o Call("spawn")
    BY Zenon
  <2>2. TypeOK /\ LocksInv /\ Rest /\ OrphansKnown /\ SpawnInv
    BY Zenon DEF Inv, Rest
  <2>3. Path(s, 1, Funs, LocksInUse)
    <3>1. 1 \in Nat /\ 1 <= Low("malloc") /\ 1 <= Low("spawn") /\ Funs \in SUBSET Funs
      BY Ranks
    <3>2. Path(Call("malloc"), 1, Funs, LocksInUse) /\ Path(Call("spawn"), 1, Funs, LocksInUse)
      BY Zenon, <1>1, <3>1, PathCall
    <3> QED BY Zenon, <2>1, <3>1, <3>2, PathConcat
  <2>4. Fine(s, Low("create")) /\ s \in Seq(StepsOf(Funs, LocksInUse))
    BY Zenon, <2>3, Ranks DEF Path
  <2>5. Len(s) = 2 /\ s[1] = <<"malloc">> /\ s[2] = <<"spawn">>
    <3>1. s \in Seq(Steps) /\ Len(s) = 2 /\ s[1] = <<"malloc">> /\ s[2] = <<"spawn">>
      <4>1. PICK f \in Funs : f = "malloc"
        BY Zenon, <1>1
      <4>2. PICK g \in Funs : g = "spawn"
        BY Zenon, <1>1
      <4>3. s = Call(f) \o Call(g)
        BY Zenon, <2>1, <4>1, <4>2
      <4>4. s \in Seq(Steps) /\ Len(s) = 2 /\ s[1] = <<f>> /\ s[2] = <<g>>
        BY ZenonT(40), <4>3, PairSteps
      <4> QED BY Zenon, <4>1, <4>2, <4>4
    <3> QED BY Zenon, <3>1
  <2>6. /\ ~Has(s, {"build", "publish"}) /\ ~Has(s, FirstWork)
        /\ Single(s, Allocs) /\ Single(s, {"spawn"})
    BY <2>5 DEF Has, FirstWork, Single, Allocs
  <2>7. todo[t] # <<>> /\ todo[t][1][1] = "create" /\ todo[t][1] = CallStep("create")
    BY Zenon, <1>1, <1>2, <2>2, HeadFacts
  <2>8. PICK d : Moves(t, s, d)
    BY Zenon, <1>1, <1>9, <2>1, <2>2, <2>4, <2>7, BecomeFacts
  <2>9. todo' \in [Actors -> Seq(StepsOf(Funs, LocksInUse))]
    BY Zenon, <1>1, <1>9, <2>1, <2>2, <2>4, <2>7, BecomeFacts
  <2>10. CacheInv' /\ TablesInv' /\ InitInv' /\ ShallowInv'
    BY Zenon, <1>1, <1>3, <1>4, <1>5, <2>2, <2>6, <2>7, <2>8, CoreStep
  <2>11. SpawnInv'
    <3>1. \A b \in Actors : ~Has(todo[b], {"spawn"})
      BY Zenon, <1>9, <2>2 DEF SpawnInv
    <3>2. Solo(todo', {"spawn"})
      BY Zenon, <1>1, <2>2, <2>6, <2>8, <3>1, SoloStep DEF SpawnInv
    <3>3. spawned = 0
      BY <1>9, <2>2 DEF SpawnInv, TypeOK
    <3> QED BY <1>5, <1>9, <3>2, <3>3 DEF SpawnInv
  <2>12. TypeOK'
    BY Zenon, <1>5, <2>2, <2>9, TypeStep DEF TypeOK
  <2>13. LocksInv'
    BY Zenon, <1>1, <1>5, <2>2, <2>4, <2>7, <2>8, LocksStep
  <2> QED BY Zenon, <1>5, <2>2, <2>10, <2>11, <2>12, <2>13, SameLocks DEF Inv
<1> QED BY Zenon, <1>6, <1>7, <1>8, <1>9

\* The maintenance thread comes to life, once.
LEMMA SpawnInvStep ==
  ASSUME Inv, NEW t \in Threads, Spawn(t)
  PROVE  Inv'
<1>1. /\ t \in Actors /\ "spawn" \in Funs /\ "spawn" # "tls" /\ "spawn" \notin {"once", "build"}
  BY Zenon DEF Actors, Funs
<1>2. TypeOK /\ LocksInv /\ Rest /\ OrphansKnown /\ SpawnInv
  BY Zenon DEF Inv, Rest
<1>3. /\ At(t, "spawn") /\ Become(t, <<>>) /\ spawned' = spawned + 1
      /\ UNCHANGED initVars /\ btm_tls' = btm_tls /\ bg_started' = bg_started /\ lock' = lock
  BY Zenon DEF Spawn
<1>4. bg_started /\ spawned = 0
  BY Zenon, <1>1, <1>3, Guards
<1>5. PICK s : s = <<>>
  BY Zenon
<1>6. Low("spawn") \in Nat
  BY <1>1, LevelFacts
<1>7. /\ s \in Seq(StepsOf(Funs, LocksInUse)) /\ Fine(s, Low("spawn")) /\ Become(t, s)
      /\ \A F : ~Has(s, F) /\ Single(s, F)
  BY Zenon, <1>3, <1>5, <1>6, EmptyFacts
<1>8. todo[t] # <<>> /\ todo[t][1][1] = "spawn" /\ todo[t][1] = CallStep("spawn")
  BY Zenon, <1>1, <1>2, <1>3, HeadFacts
<1>9. PICK d : Moves(t, s, d)
  BY Zenon, <1>1, <1>2, <1>7, <1>8, BecomeFacts
<1>10. todo' \in [Actors -> Seq(StepsOf(Funs, LocksInUse))]
  BY Zenon, <1>1, <1>2, <1>7, <1>8, BecomeFacts
<1>11. btm_tls # {} => Tables
  BY Zenon, <1>2 DEF Rest, TablesInv
<1>12. CacheInv' /\ TablesInv' /\ InitInv' /\ ShallowInv'
  BY Zenon, <1>1, <1>2, <1>3, <1>7, <1>8, <1>9, <1>11, CoreStep
<1>13. SpawnInv'
  <2>1. \A b \in Actors : ~Has(todo'[b], {"spawn"})
    <3>1. todo[t][1][1] \in {"spawn"} /\ Solo(todo, {"spawn"})
      BY Zenon, <1>2, <1>8 DEF SpawnInv
    <3> QED BY Zenon, <1>1, <1>7, <1>9, <3>1, SoloGone
  <2>2. Solo(todo', {"spawn"})
    BY Zenon, <2>1 DEF Has, Solo
  <2>3. spawned' <= 1
    BY <1>3, <1>4
  <2> QED BY Zenon, <1>3, <1>4, <2>1, <2>2, <2>3 DEF SpawnInv
<1>14. TypeOK'
  <2>1. spawned' \in Nat
    BY <1>3, <1>4
  <2> QED BY Zenon, <1>2, <1>3, <1>10, <2>1, TypeStep DEF TypeOK
<1>15. LocksInv'
  BY Zenon, <1>1, <1>2, <1>3, <1>7, <1>8, <1>9, LocksStep
<1> QED BY Zenon, <1>2, <1>3, <1>12, <1>13, <1>14, <1>15, SameLocks DEF Inv

\* A step of btm_do_init or into it, apart from what it does to the state of the
\* initialisation.
LEMMA InitCall ==
  ASSUME Inv, NEW a \in Actors, NEW f \in {"once", "build", "publish"}, At(a, f),
         NEW s, s = <<>> \/ s = Call("build") \/ s = Call("publish"), Become(a, s),
         UNCHANGED <<btm_tls, bgVars, lock>>, Tables => Tables',
         Tables' \/ s = Call("build")
  PROVE  /\ CacheInv' /\ GuardedByInit' /\ SpawnInv' /\ ShallowInv' /\ LocksInv' /\ OrphansKnown'
         /\ todo' \in [Actors -> Seq(StepsOf(Funs, LocksInUse))]
         /\ todo[a][1][1] = f
         /\ \E d : Moves(a, s, d)
         /\ \A F : Single(s, F)
         /\ \A F : Has(s, F) => (s = Call("build") /\ "build" \in F) \/ (s = Call("publish") /\ "publish" \in F)
<1>1. f \in Funs /\ "build" \in Funs /\ "publish" \in Funs /\ f # "tls"
  BY Zenon DEF Funs
<1>2. TypeOK /\ LocksInv /\ Rest /\ OrphansKnown
  BY Zenon DEF Inv, Rest
<1>3. /\ \A F : Single(s, F)
      /\ \A F : Has(s, F) => (s = Call("build") /\ "build" \in F) \/ (s = Call("publish") /\ "publish" \in F)
      /\ s \in Seq(StepsOf(Funs, LocksInUse))
  <2>1. CASE s = <<>>
    BY Zenon, <2>1, EmptyFacts
  <2>2. CASE s = Call("build")
    BY Zenon, <1>1, <2>2, CallFacts
  <2>3. CASE s = Call("publish")
    BY Zenon, <1>1, <2>3, CallFacts
  <2> QED BY Zenon, <2>1, <2>2, <2>3
<1>4. Fine(s, Low(f))
  <2>1. Low(f) = 3 /\ 3 \in Nat /\ 3 <= Low("build") /\ 3 <= Low("publish")
    BY Ranks
  <2> QED BY Zenon, <1>1, <2>1, FineEmpty, FineCall
<1>5. todo[a] # <<>> /\ todo[a][1][1] = f /\ todo[a][1] = CallStep(f)
  BY Zenon, <1>1, <1>2, HeadFacts
<1>6. PICK d : Moves(a, s, d)
  BY Zenon, <1>2, <1>3, <1>5, BecomeFacts
<1>7. todo' \in [Actors -> Seq(StepsOf(Funs, LocksInUse))]
  BY Zenon, <1>2, <1>3, <1>5, BecomeFacts
<1>8. /\ ~Has(s, {"malloc"}) /\ ~Has(s, {"start", "create"}) /\ ~Has(s, {"refill", "tls"})
      /\ ~Has(s, {"spawn"}) /\ ~Has(s, Allocs) /\ ~Has(s, FirstWork)
  BY <1>3 DEF Allocs, FirstWork
<1>9. UNCHANGED lock /\ btm_tls' = btm_tls /\ spawned' = spawned /\ bg_started' = bg_started
  BY Zenon DEF bgVars
<1>10. CacheInv'
  BY Zenon, <1>1, <1>2, <1>5, <1>6, <1>8, <1>9, CacheStep DEF Rest
<1>11. GuardedByInit'
  <2>1. s = Call("build") => Len(s) > 0 /\ s[1][1] \in {"once", "build"}
    BY <1>1, CallSteps
  <2> QED BY Zenon, <1>2, <1>6, <1>8, <2>1, TablesStep DEF Rest
<1>12. SpawnInv' /\ ShallowInv'
  BY Zenon, <1>2, <1>3, <1>6, <1>8, <1>9, SpawnStep, ShallowStep DEF Rest
<1>13. LocksInv' /\ OrphansKnown'
  BY Zenon, <1>1, <1>2, <1>4, <1>5, <1>6, <1>9, LocksStep, SameLocks
<1> QED BY Zenon, <1>3, <1>5, <1>6, <1>7, <1>10, <1>11, <1>12, <1>13

\* pthread_once: it returns, or btm_do_init begins.
LEMMA OnceInv ==
  ASSUME Inv, NEW t \in Threads, btm_ensure_init(t)
  PROVE  Inv'
<1>1. t \in Actors /\ "once" \in Funs /\ "once" # "tls"
  BY Zenon DEF Actors, Funs
<1>2. /\ At(t, "once")
      /\ btm_partitions' = btm_partitions /\ btm_ready' = btm_ready /\ btm_mesh_mode' = btm_mesh_mode
      /\ oom' = oom /\ btm_tls' = btm_tls /\ UNCHANGED bgVars /\ lock' = lock
  BY Zenon DEF btm_ensure_init
<1>3. TypeOK /\ TablesInv /\ InitInv
  BY Zenon DEF Inv
<1>4. CASE OnceReturns /\ Become(t, <<>>) /\ UNCHANGED init_once
  <2>1. Tables
    BY Zenon, <1>3, <1>4 DEF OnceReturns, TablesInv, Tables
  <2>2. UNCHANGED initVars /\ spawned' = spawned /\ bg_started' = bg_started
    BY Zenon, <1>2, <1>4 DEF initVars, bgVars
  <2>3. btm_tls \subseteq Threads
    BY Zenon, <1>3 DEF TypeOK
  <2> QED BY Zenon, <1>1, <1>2, <1>4, <2>1, <2>2, <2>3, ReturnCall
<1>5. CASE /\ ~btm_ready /\ init_once = "new" /\ init_once' = "running" /\ Become(t, Call("build"))
  <2>1. Tables' <=> Tables
    BY Zenon, <1>2 DEF Tables
  <2>2. PICK s : s = Call("build")
    BY Zenon
  <2>3. /\ CacheInv' /\ GuardedByInit' /\ SpawnInv' /\ ShallowInv' /\ LocksInv' /\ OrphansKnown'
        /\ todo' \in [Actors -> Seq(StepsOf(Funs, LocksInUse))]
        /\ \E d : Moves(t, s, d)
        /\ \A F : Single(s, F)
        /\ \A F : Has(s, F) => (s = Call("build") /\ "build" \in F) \/ (s = Call("publish") /\ "publish" \in F)
    BY Zenon, <1>1, <1>2, <1>5, <2>1, <2>2, InitCall
  <2>4. PICK d : Moves(t, s, d)
    BY Zenon, <2>3
  <2>5. init_once # "running" /\ init_once # "done" /\ init_once' # "done" /\ init_once' # "new"
    BY Zenon, <1>5
  <2>6. \A b \in Actors : ~Has(todo[b], {"build", "publish"}) /\ ~Has(todo[b], {"publish"})
    <3>1. \A b \in Actors : ~Has(todo[b], {"build", "publish"})
      BY Zenon, <1>3, <2>5 DEF InitInv
    <3> QED BY Zenon, <3>1 DEF Has
  <2>7. Solo(todo', {"build", "publish"})
    BY Zenon, <1>1, <1>3, <2>3, <2>4, <2>6, SoloStep DEF InitInv
  <2>8. \A b \in Actors : ~Has(todo'[b], {"publish"})
    <3>1. ~Has(s, {"publish"})
      <4>1. Call("build") # Call("publish")
        BY CallSteps DEF Funs
      <4>2. "build" \notin {"publish"}
        BY Zenon
      <4> QED BY Zenon, <2>2, <2>3, <4>1, <4>2
    <3> QED BY Zenon, <1>1, <2>4, <2>6, <3>1, HasStep
  <2>9. InitInv'
    BY Zenon, <1>2, <1>3, <1>5, <2>5, <2>7, <2>8 DEF InitInv
  <2>10. TablesInv'
    BY Zenon, <1>2, <1>3, <2>1, <2>3, <2>5 DEF TablesInv, GuardedByInit
  <2>11. TypeOK'
    <3>1. LocksInUse' = LocksInUse /\ spawned' = spawned
      BY Zenon, <1>2 DEF LocksInUse, bgVars
    <3> QED BY Zenon, <1>2, <1>3, <2>3, <3>1 DEF TypeOK
  <2> QED BY Zenon, <2>3, <2>9, <2>10, <2>11 DEF Inv
<1> QED BY Zenon, <1>4, <1>5 DEF btm_ensure_init

\* btm_do_init maps the tables, or fails for good.
LEMMA BuildInv ==
  ASSUME Inv, NEW t \in Threads, Build(t)
  PROVE  Inv'
<1>1. t \in Actors
  BY Zenon DEF Actors
<1>2. /\ At(t, "build")
      /\ btm_ready' = btm_ready /\ btm_tls' = btm_tls /\ UNCHANGED bgVars /\ lock' = lock
  BY Zenon DEF Build
<1>3. TypeOK /\ TablesInv /\ InitInv
  BY Zenon DEF Inv
<1>4. init_once = "running" /\ ~btm_partitions
  BY Zenon, <1>1, <1>2, Guards
<1>5. ~btm_mesh_mode /\ ~btm_ready
  BY Zenon, <1>3, <1>4 DEF TablesInv
<1>6. Solo(todo, {"build", "publish"}) /\ Solo(todo, {"build"})
  BY Zenon, <1>3 DEF InitInv, Solo
<1>7. CASE /\ oom' = TRUE /\ init_once' = "done" /\ Become(t, <<>>)
           /\ UNCHANGED <<btm_partitions, btm_mesh_mode>>
  <2>1. Tables' /\ init_once' # "new" /\ btm_partitions' = btm_partitions /\ btm_mesh_mode' = btm_mesh_mode
    BY Zenon, <1>7 DEF Tables
  <2>2. PICK s : s = <<>>
    BY Zenon
  <2>3. /\ CacheInv' /\ GuardedByInit' /\ SpawnInv' /\ ShallowInv' /\ LocksInv' /\ OrphansKnown'
        /\ todo' \in [Actors -> Seq(StepsOf(Funs, LocksInUse))]
        /\ \E d : Moves(t, s, d) /\ todo[t][1][1] = "build"
    BY Zenon, <1>1, <1>2, <1>7, <2>1, <2>2, InitCall
  <2>4. PICK d : Moves(t, s, d)
    BY Zenon, <2>3
  <2>5. \A b \in Actors : ~Has(todo'[b], {"build", "publish"})
    <3>1. ~Has(s, {"build", "publish"}) /\ todo[t][1][1] \in {"build", "publish"}
      BY Zenon, <2>2, <2>3, EmptyFacts
    <3> QED BY Zenon, <1>1, <1>6, <2>4, <3>1, SoloGone
  <2>6. InitInv'
    BY Zenon, <2>1, <2>5 DEF InitInv, Has, Solo
  <2>7. TablesInv'
    BY Zenon, <1>2, <1>3, <2>1, <2>3 DEF TablesInv, GuardedByInit
  <2>8. TypeOK'
    <3>1. LocksInUse' = LocksInUse /\ spawned' = spawned
      BY Zenon, <1>2, <2>1 DEF LocksInUse, bgVars
    <3> QED BY Zenon, <1>2, <1>3, <2>3, <3>1 DEF TypeOK
  <2> QED BY Zenon, <2>3, <2>6, <2>7, <2>8 DEF Inv
<1>8. CASE /\ btm_partitions' = TRUE /\ btm_mesh_mode' \in BOOLEAN /\ Become(t, Call("publish"))
           /\ UNCHANGED <<oom, init_once>>
  <2>1. Tables' /\ init_once' = "running" /\ btm_partitions' /\ init_once' # "new" /\ init_once' # "done"
    BY Zenon, <1>4, <1>8 DEF Tables
  <2>2. PICK s : s = Call("publish")
    BY Zenon
  <2>3. /\ CacheInv' /\ GuardedByInit' /\ SpawnInv' /\ ShallowInv' /\ LocksInv' /\ OrphansKnown'
        /\ todo' \in [Actors -> Seq(StepsOf(Funs, LocksInUse))]
        /\ \E d : Moves(t, s, d) /\ todo[t][1][1] = "build"
        /\ \A F : Single(s, F)
        /\ \A F : Has(s, F) => (s = Call("build") /\ "build" \in F) \/ (s = Call("publish") /\ "publish" \in F)
    BY Zenon, <1>1, <1>2, <1>8, <2>1, <2>2, InitCall
  <2>4. PICK d : Moves(t, s, d)
    BY Zenon, <2>3
  <2>5. Solo(todo', {"build", "publish"})
    <3>1. todo[t][1][1] \in {"build", "publish"} /\ Single(s, {"build", "publish"})
      BY Zenon, <2>3
    <3> QED BY Zenon, <1>1, <1>6, <2>4, <3>1, SoloStep
  <2>6. \A b \in Actors : ~Has(todo'[b], {"build"})
    <3>1. Call("build") # Call("publish") /\ "publish" \notin {"build"}
      BY CallSteps DEF Funs
    <3>2. ~Has(s, {"build"}) /\ todo[t][1][1] \in {"build"}
      BY Zenon, <2>2, <2>3, <3>1
    <3> QED BY Zenon, <1>1, <1>6, <2>4, <3>2, SoloGone
  <2>7. InitInv'
    BY Zenon, <2>1, <2>5, <2>6 DEF InitInv
  <2>8. TablesInv'
    BY Zenon, <1>2, <1>3, <2>1, <2>3 DEF TablesInv, GuardedByInit
  <2>9. TypeOK'
    <3>1. LocksInUse \subseteq LocksInUse' /\ spawned' = spawned
      BY <1>2, <1>5 DEF LocksInUse, bgVars
    <3>2. StepsOf(Funs, LocksInUse) \subseteq StepsOf(Funs, LocksInUse')
      BY Zenon, <3>1 DEF StepsOf
    <3> DEFINE S == StepsOf(Funs, LocksInUse)
               T == StepsOf(Funs, LocksInUse')
    <3> HIDE DEF S, T
    <3>3. todo' \in [Actors -> Seq(S)] /\ S \subseteq T
      BY Zenon, <2>3, <3>2 DEF S, T
    <3>4. todo' \in [Actors -> Seq(T)]
      BY <3>3
    <3> QED BY Zenon, <1>2, <1>3, <3>1, <3>4 DEF TypeOK, T
  <2> QED BY Zenon, <2>3, <2>7, <2>8, <2>9 DEF Inv
<1> QED BY Zenon, <1>7, <1>8 DEF Build

\* btm_do_init sets btm_ready and returns.
LEMMA PublishInv ==
  ASSUME Inv, NEW t \in Threads, Publish(t)
  PROVE  Inv'
<1>1. t \in Actors
  BY Zenon DEF Actors
<1>2. /\ At(t, "publish") /\ Become(t, <<>>)
      /\ btm_ready' /\ init_once' = "done" /\ init_once' # "new"
      /\ btm_partitions' = btm_partitions /\ btm_mesh_mode' = btm_mesh_mode /\ oom' = oom
      /\ btm_tls' = btm_tls /\ UNCHANGED bgVars /\ lock' = lock
  BY Zenon DEF Publish
<1>3. TypeOK /\ TablesInv /\ InitInv
  BY Zenon DEF Inv
<1>4. btm_partitions
  BY Zenon, <1>1, <1>2, Guards
<1>5. Tables' /\ btm_partitions'
  BY Zenon, <1>2, <1>4 DEF Tables
<1>6. PICK s : s = <<>>
  BY Zenon
<1>7. /\ CacheInv' /\ GuardedByInit' /\ SpawnInv' /\ ShallowInv' /\ LocksInv' /\ OrphansKnown'
      /\ todo' \in [Actors -> Seq(StepsOf(Funs, LocksInUse))]
      /\ \E d : Moves(t, s, d) /\ todo[t][1][1] = "publish"
  BY Zenon, <1>1, <1>2, <1>5, <1>6, InitCall
<1>8. PICK d : Moves(t, s, d)
  BY Zenon, <1>7
<1>9. \A b \in Actors : ~Has(todo'[b], {"build", "publish"})
  <2>1. ~Has(s, {"build", "publish"}) /\ todo[t][1][1] \in {"build", "publish"}
    BY Zenon, <1>6, <1>7, EmptyFacts
  <2>2. Solo(todo, {"build", "publish"})
    BY Zenon, <1>3 DEF InitInv
  <2> QED BY Zenon, <1>1, <1>8, <2>1, <2>2, SoloGone
<1>10. InitInv'
  BY Zenon, <1>2, <1>9 DEF InitInv, Has, Solo
<1>11. TablesInv'
  BY Zenon, <1>2, <1>3, <1>5, <1>7 DEF TablesInv, GuardedByInit
<1>12. TypeOK'
  <2>1. LocksInUse' = LocksInUse /\ spawned' = spawned
    BY Zenon, <1>2 DEF LocksInUse, bgVars
  <2> QED BY Zenon, <1>2, <1>3, <1>7, <2>1 DEF TypeOK
<1> QED BY Zenon, <1>7, <1>10, <1>11, <1>12 DEF Inv

\* A call begins: an idle thread gets a path.
LEMMA BeginStep ==
  ASSUME Inv, NEW a \in Actors, todo[a] = <<>>, NEW s, todo' = [todo EXCEPT ![a] = s],
         NEW F \in SUBSET Funs, Path(s, 0, F, LocksInUse),
         UNCHANGED <<initVars, bgVars, lock>>,
         btm_tls' \subseteq btm_tls, btm_tls \ {a} \subseteq btm_tls',
         a \in btm_tls' \/ Guarded(s, {"start", "create"}, {"tls"}),
         Tables \/ Guarded(s, {"refill", "tls"}, {"once", "build"}),
         F \cap {"malloc", "build", "publish", "spawn"} = {}, Shallow(s)
  PROVE  Inv'
<1>1. TypeOK /\ LocksInv /\ Rest /\ OrphansKnown
  BY Zenon DEF Inv, Rest
<1>2. /\ init_once' = init_once /\ btm_partitions' = btm_partitions /\ btm_ready' = btm_ready
      /\ btm_mesh_mode' = btm_mesh_mode /\ oom' = oom
      /\ bg_started' = bg_started /\ spawned' = spawned /\ lock' = lock
  BY Zenon DEF initVars, bgVars
<1>3. Tables' <=> Tables
  BY Zenon, <1>2 DEF Tables
<1>4. s \in Seq(StepsOf(F, LocksInUse)) /\ s \in Seq(StepsOf(Funs, LocksInUse)) /\ Fine(s, 0)
  BY Zenon, PathWider DEF Path
<1>5. /\ ~Has(s, {"malloc", "build", "publish", "spawn"})
  <2>1. {"malloc", "build", "publish", "spawn"} \in SUBSET Funs /\ LocksInUse \in SUBSET Locks
    BY Zenon, InUse DEF Funs
  <2> QED BY Zenon, <1>4, <2>1, Lacks
<1>6. /\ ~Has(s, {"malloc"}) /\ ~Has(s, {"build", "publish"}) /\ ~Has(s, {"build"})
      /\ ~Has(s, {"publish"}) /\ ~Has(s, {"spawn"})
  BY Zenon, <1>5 DEF Has
<1>7. /\ todo' \in [Actors -> Seq(StepsOf(Funs, LocksInUse))]
      /\ todo'[a] = s /\ \A b \in Actors : b = a \/ todo'[b] = todo[b]
  BY Zenon, <1>1, <1>4 DEF TypeOK
<1>8. TypeOK'
  <2>1. LocksInUse' = LocksInUse
    BY Zenon, <1>2 DEF LocksInUse
  <2> QED BY Zenon, <1>1, <1>2, <1>7, <2>1 DEF TypeOK
<1>9. LocksInv'
  <2>1. Held(a) = {}
    BY Zenon, <1>1, NestedEmpty DEF LocksInv
  <2>2. 0 \in Nat
    BY Zenon
  <2>3. Nested(s, {})
    BY Zenon, <1>4, <2>2, NestedStart
  <2>4. \A b : Held(b)' = Held(b)
    BY Zenon, <1>2 DEF Held
  <2> SUFFICES ASSUME NEW b \in Actors PROVE Nested(todo'[b], Held(b)')
    BY Zenon DEF LocksInv
  <2>5. CASE b = a
    BY Zenon, <1>7, <2>1, <2>3, <2>4, <2>5
  <2>6. CASE b # a
    BY Zenon, <1>1, <1>7, <2>4, <2>6 DEF LocksInv
  <2> QED BY Zenon, <2>5, <2>6
<1>10. CacheInv'
  <2> SUFFICES ASSUME NEW b \in Actors, b \notin btm_tls'
               PROVE  ~Has(todo'[b], {"malloc"}) /\ Guarded(todo'[b], {"start", "create"}, {"tls"})
    BY Zenon DEF CacheInv
  <2>1. CASE b = a
    BY Zenon, <1>6, <1>7, <2>1
  <2>2. CASE b # a
    BY Zenon, <1>1, <1>7, <2>2 DEF CacheInv, Rest
  <2> QED BY Zenon, <2>1, <2>2
<1>11. TablesInv'
  <2>1. ASSUME NEW b \in Actors PROVE Tables' \/ Guarded(todo'[b], {"refill", "tls"}, {"once", "build"})
    <3>1. CASE b = a
      BY Zenon, <1>3, <1>7, <3>1
    <3>2. CASE b # a
      BY Zenon, <1>1, <1>3, <1>7, <3>2 DEF TablesInv, Rest
    <3> QED BY Zenon, <3>1, <3>2
  <2>2. btm_tls' # {} => Tables'
    BY Zenon, <1>1, <1>3 DEF TablesInv, Rest
  <2> QED BY Zenon, <1>1, <1>2, <1>3, <2>1, <2>2 DEF TablesInv, Rest
<1>12. ASSUME NEW G, ~Has(s, G), NEW b \in Actors
       PROVE  Has(todo'[b], G) => b # a /\ Has(todo[b], G)
  BY Zenon, <1>7, <1>12
<1>13. ASSUME NEW G, ~Has(s, G), Solo(todo, G) PROVE Solo(todo', G)
  <2>1. ASSUME NEW b \in Actors, NEW c \in Actors,
               NEW i \in 1..Len(todo'[b]), NEW j \in 1..Len(todo'[c]),
               todo'[b][i][1] \in G, todo'[c][j][1] \in G
        PROVE  b = c /\ i = j
    <3>1. b # a /\ c # a
      BY Zenon, <1>7, <1>13, <2>1 DEF Has
    <3>2. todo'[b] = todo[b] /\ todo'[c] = todo[c]
      BY Zenon, <1>7, <3>1
    <3>3. /\ i \in 1..Len(todo[b]) /\ j \in 1..Len(todo[c])
          /\ todo[b][i][1] \in G /\ todo[c][j][1] \in G
      BY Zenon, <2>1, <3>2
    <3> QED BY Zenon, <1>13, <3>3 DEF Solo
  <2> QED BY <2>1 DEF Solo
<1>14. InitInv'
  BY Zenon, <1>1, <1>2, <1>6, <1>12, <1>13 DEF InitInv, Rest
<1>15. SpawnInv'
  BY Zenon, <1>1, <1>2, <1>6, <1>12, <1>13 DEF SpawnInv, Rest
<1>16. ShallowInv'
  <2> SUFFICES ASSUME NEW b \in Actors PROVE Shallow(todo'[b])
    BY Zenon DEF ShallowInv
  <2>1. CASE b = a
    BY Zenon, <1>7, <2>1
  <2>2. CASE b # a
    BY Zenon, <1>1, <1>7, <2>2 DEF ShallowInv, Rest
  <2> QED BY Zenon, <2>1, <2>2
<1> QED BY Zenon, <1>1, <1>2, <1>8, <1>9, <1>10, <1>11, <1>14, <1>15, <1>16, SameLocks DEF Inv

\* A path without guarded calls and allocations begins as well as any.
LEMMA FreePath ==
  ASSUME NEW F \in SUBSET Funs, NEW s, Path(s, 0, F, LocksInUse), NEW G \in SUBSET Funs, F \cap G = {}
  PROVE  /\ {"start", "create"} \subseteq G => Guarded(s, {"start", "create"}, {"tls"})
         /\ {"refill", "tls"} \subseteq G => Guarded(s, {"refill", "tls"}, {"once", "build"})
         /\ Allocs \subseteq G => Shallow(s)
<1>1. ~Has(s, G)
  BY Zenon, InUse, Lacks DEF Path
<1>2. {"start", "create"} \subseteq G => Guarded(s, {"start", "create"}, {"tls"})
  BY Zenon, <1>1 DEF Has, Guarded
<1>3. {"refill", "tls"} \subseteq G => Guarded(s, {"refill", "tls"}, {"once", "build"})
  BY Zenon, <1>1 DEF Has, Guarded
<1>4. Allocs \subseteq G => Shallow(s)
  BY Zenon, <1>1 DEF Has, Shallow
<1> QED BY Zenon, <1>2, <1>3, <1>4

\* A call of the application, or a round of the maintenance thread.
LEMMA BeginInv ==
  ASSUME Inv, NEW a \in Actors, NEW f, Begin(a, f), f \in Entries \/ (a = Bg /\ f = "bg_main")
  PROVE  Inv'
<1>1. /\ todo[a] = <<>> /\ UNCHANGED <<initVars, bgVars, lock>> /\ btm_tls' = btm_tls
      /\ f = "free" => btm_ready
  BY Zenon DEF Begin
<1>2. PICK s \in Paths(f, a) : todo' = [todo EXCEPT ![a] = s]
  BY Zenon DEF Begin
<1>3. btm_tls' \subseteq btm_tls /\ btm_tls \ {a} \subseteq btm_tls'
  BY Zenon, <1>1
<1>4. (a \in btm_tls => Tables) /\ (f = "free" => Tables)
  BY Zenon, <1>1 DEF Inv, TablesInv, Tables
<1>5. CASE s = Refill /\ a \in btm_tls
  <2>1. {"partition_of", "refill"} \in SUBSET Funs
    BY Zenon DEF Funs
  <2>2. Path(s, 0, {"partition_of", "refill"}, LocksInUse)
    <3>1. /\ 0 \in Nat /\ 0 <= Low("partition_of") /\ 0 <= Low("refill")
          /\ "partition_of" \in {"partition_of", "refill"} /\ "refill" \in {"partition_of", "refill"}
      BY Ranks
    <3>2. /\ Path(Call("partition_of"), 0, {"partition_of", "refill"}, LocksInUse)
          /\ Path(Call("refill"), 0, {"partition_of", "refill"}, LocksInUse)
      BY Zenon, <2>1, <3>1, PathCall
    <3> QED BY Zenon, <1>5, <3>1, <3>2, PathConcat DEF Refill
  <2>3. Shallow(s)
    BY Zenon, <1>5, MallocPath
  <2>4. {"partition_of", "refill"} \cap {"malloc", "build", "publish", "spawn"} = {}
    BY Zenon
  <2> QED BY Zenon, <1>1, <1>2, <1>3, <1>4, <1>5, <2>1, <2>2, <2>3, <2>4, BeginStep
<1>6. CASE s = FirstCall
  <2> DEFINE F == {"once", "tls", "start", "partition_of", "refill"}
  <2>1. F \in SUBSET Funs /\ F \cap {"malloc", "build", "publish", "spawn"} = {}
    BY Zenon DEF Funs
  <2>2. /\ Path(s, 0, F, LocksInUse) /\ Shallow(s)
        /\ Guarded(s, {"start", "create"}, {"tls"})
        /\ Guarded(s, {"refill", "tls"}, {"once", "build"})
    BY Zenon, <1>6, MallocPath
  <2> HIDE DEF F
  <2> QED BY Zenon, <1>1, <1>2, <1>3, <2>1, <2>2, BeginStep
<1>7. ASSUME NEW F \in SUBSET Funs, Path(s, 0, F, LocksInUse),
             F \cap {"malloc", "build", "publish", "spawn", "refill", "start", "create"} = {},
             Tables \/ "tls" \notin F
      PROVE  Inv'
  <2>1. {"malloc", "build", "publish", "spawn", "refill", "start", "create"} \in SUBSET Funs
    BY Zenon DEF Funs
  <2>2. Guarded(s, {"start", "create"}, {"tls"}) /\ Shallow(s)
    <3>1. /\ {"start", "create"} \subseteq {"malloc", "build", "publish", "spawn", "refill", "start", "create"}
          /\ Allocs \subseteq {"malloc", "build", "publish", "spawn", "refill", "start", "create"}
      BY Zenon DEF Allocs
    <3> QED BY Zenon, <1>7, <2>1, <3>1, FreePath
  <2>3. Tables \/ Guarded(s, {"refill", "tls"}, {"once", "build"})
    <3>1. CASE "tls" \notin F
      <4>1. {"refill", "tls"} \in SUBSET Funs /\ F \cap {"refill", "tls"} = {}
        BY Zenon, <1>7, <3>1 DEF Funs
      <4> QED BY Zenon, <1>7, <4>1, FreePath
    <3> QED BY Zenon, <1>7, <3>1
  <2>4. F \cap {"malloc", "build", "publish", "spawn"} = {}
    BY Zenon, <1>7
  <2> QED BY Zenon, <1>1, <1>2, <1>3, <1>7, <2>2, <2>3, <2>4, BeginStep
<1>8. CASE f = "free" /\ Path(s, 0, {"tls", "flush"}, LocksInUse)
  <2>1. /\ {"tls", "flush"} \in SUBSET Funs
        /\ {"tls", "flush"} \cap {"malloc", "build", "publish", "spawn", "refill", "start", "create"} = {}
    BY Zenon DEF Funs
  <2> QED BY Zenon, <1>4, <1>7, <1>8, <2>1
<1>9. CASE Path(s, 0, {"once"}, LocksInUse)
  <2>1. /\ {"once"} \in SUBSET Funs /\ "tls" \notin {"once"}
        /\ {"once"} \cap {"malloc", "build", "publish", "spawn", "refill", "start", "create"} = {}
    BY Zenon DEF Funs
  <2> QED BY Zenon, <1>7, <1>9, <2>1
<1>10. CASE a = Bg /\ f = "bg_main"
  <2>1. /\ Quiet \in SUBSET Funs /\ "tls" \notin Quiet
        /\ Quiet \cap {"malloc", "build", "publish", "spawn", "refill", "start", "create"} = {}
    BY Zenon DEF Funs, Quiet
  <2>2. Path(s, 0, Quiet, LocksInUse)
    BY Zenon, <1>2, <1>10, RoundPath
  <2> QED BY Zenon, <1>7, <2>1, <2>2
<1>11. CASE f \in Entries
  BY Zenon, <1>2, <1>5, <1>6, <1>8, <1>9, <1>11, EntryPaths
<1> QED BY Zenon, <1>10, <1>11

\* A thread exits: it gives up its cache and flushes it.
LEMMA DestroyInv ==
  ASSUME Inv, NEW t \in Threads, btm_tls_destroy(t)
  PROVE  Inv'
<1> DEFINE G == {"malloc", "build", "publish", "spawn", "refill", "start", "create", "tls"}
<1>1. /\ t \in Actors /\ "flush" \in {"flush"} /\ {"flush"} \in SUBSET Funs /\ G \in SUBSET Funs
      /\ {"flush"} \cap G = {} /\ {"flush"} \cap {"malloc", "build", "publish", "spawn"} = {}
      /\ {"start", "create"} \subseteq G /\ {"refill", "tls"} \subseteq G /\ Allocs \subseteq G
      /\ 0 \in Nat /\ 0 <= Low("flush")
  BY Ranks DEF Actors, Funs, Allocs
<1>2. /\ todo[t] = <<>> /\ todo' = [todo EXCEPT ![t] = Call("flush")]
      /\ UNCHANGED <<initVars, bgVars, lock>> /\ btm_tls' = btm_tls \ {t}
  BY Zenon DEF btm_tls_destroy
<1>3. Path(Call("flush"), 0, {"flush"}, LocksInUse)
  BY Zenon, <1>1, PathCall
<1> HIDE DEF G
<1>4. /\ Guarded(Call("flush"), {"start", "create"}, {"tls"})
      /\ Guarded(Call("flush"), {"refill", "tls"}, {"once", "build"})
      /\ Shallow(Call("flush"))
  BY Zenon, <1>1, <1>3, FreePath
<1>5. btm_tls' \subseteq btm_tls /\ btm_tls \ {t} \subseteq btm_tls'
  BY Zenon, <1>2
<1> QED BY Zenon, <1>1, <1>2, <1>3, <1>4, <1>5, BeginStep

\* Threads with nothing to do have no calls to make.
LEMMA Idle ==
  /\ \A F : ~Has(<<>>, F)
  /\ \A F, G : Guarded(<<>>, F, G)
  /\ Shallow(<<>>)
  /\ \A td, F : (\A a \in Actors : td[a] = <<>>) => Solo(td, F)
<1>1. 1..Len(<<>>) = {}
  BY SeqEmpty
<1> QED BY Zenon, <1>1 DEF Has, Guarded, Shallow, Solo

\* The child of a fork: its one thread is outside the allocator, and the locks
\* that others held are as the handlers leave them.
LEMMA ForkInv ==
  ASSUME Inv, NEW t \in Threads, Fork(t)
  PROVE  Inv'
<1>1. TypeOK /\ LocksInv /\ Rest /\ OrphansKnown
  BY Zenon DEF Inv, Rest
<1>2. /\ init_once' = init_once /\ btm_partitions' = btm_partitions /\ btm_ready' = btm_ready
      /\ btm_mesh_mode' = btm_mesh_mode /\ oom' = oom
      /\ bg_started' = FALSE /\ spawned' = 0 /\ btm_ready /\ ~btm_mesh_mode
      /\ todo' = [a \in Actors |-> <<>>]
      /\ btm_tls' = btm_tls \cap {t}
      /\ lock' = [l \in Locks |-> IF l \in Reinitialised \/ lock[l] = Nobody THEN Nobody ELSE Gone]
  BY Zenon DEF Fork, initVars
<1>3. \A a \in Actors : todo'[a] = <<>>
  BY Zenon, <1>2
<1>4. TypeOK'
  <2>1. todo' \in [Actors -> Seq(StepsOf(Funs, LocksInUse'))]
    <3>1. <<>> \in Seq(StepsOf(Funs, LocksInUse'))
      BY Zenon, EmptyFacts
    <3> QED BY Zenon, <1>2, <3>1
  <2>2. lock' \in [Locks -> Actors \cup {Nobody, Gone}]
    BY Zenon, <1>2
  <2>3. btm_tls' \subseteq Threads /\ spawned' \in Nat
    BY Zenon, <1>1, <1>2 DEF TypeOK
  <2> QED BY Zenon, <2>1, <2>2, <2>3 DEF TypeOK
<1>5. LocksInv'
  <2> SUFFICES ASSUME NEW a \in Actors PROVE Nested(todo'[a], Held(a)')
    BY Zenon DEF LocksInv
  <2>1. a # Nobody /\ a # Gone
    BY Zenon, Owners
  <2>2. Held(a)' = {}
    BY Zenon, <1>2, <2>1 DEF Held
  <2> QED BY Zenon, <1>3, <2>2, NestedEmpty
<1>6. OrphansKnown'
  <2> SUFFICES ASSUME NEW l \in Locks, lock'[l] = Gone PROVE l \in {"registry", "intern"}
    BY Zenon DEF OrphansKnown
  <2>1. l \notin Reinitialised /\ lock[l] # Nobody
    BY Zenon, <1>2, ProcessAssumption
  <2>2. CASE lock[l] = Gone
    BY Zenon, <1>1, <2>2 DEF OrphansKnown
  <2>3. CASE lock[l] # Gone
    <3>1. PICK a \in Actors : lock[l] = a
      BY Zenon, <1>1, <2>1, <2>3 DEF TypeOK
    <3>2. l \in Held(a)
      BY Zenon, <3>1 DEF Held
    <3>3. PICK j \in 1..Len(todo[a]) : todo[a][j] = UnlockStep(l)
      BY Zenon, <1>1, <3>2 DEF LocksInv, Nested
    <3>4. todo[a][j] \in StepsOf(Funs, LocksInUse)
      <4>1. todo[a] \in Seq(StepsOf(Funs, LocksInUse))
        BY Zenon, <1>1 DEF TypeOK
      <4> QED BY Zenon, <4>1, SeqElement
    <3>5. UnlockStep(l)[1] \in {"lock", "unlock"} /\ UnlockStep(l)[2] = l
      BY Zenon DEF UnlockStep
    <3>6. l \in LocksInUse
      <4>1. Funs \in SUBSET Funs /\ LocksInUse \in SUBSET Locks
        BY Zenon, InUse
      <4>2. \A e \in StepsOf(Funs, LocksInUse) : e[1] \in {"lock", "unlock"} => e[2] \in LocksInUse
        BY Zenon, <4>1, StepsOfFacts
      <4> QED BY Zenon, <3>3, <3>4, <3>5, <4>2
    <3> QED BY Zenon, <1>2, <2>1, <3>6 DEF LocksInUse, Locks, Reinitialised
  <2> QED BY Zenon, <2>2, <2>3
<1>7. CacheInv' /\ InitInv' /\ ShallowInv'
  BY Zenon, <1>1, <1>2, <1>3, Idle DEF CacheInv, InitInv, ShallowInv, Rest
<1>8. SpawnInv'
  <2>1. spawned' <= 1 /\ ~(spawned' > 0)
    BY <1>2
  <2> QED BY Zenon, <1>3, <2>1, Idle DEF SpawnInv
<1>9. TablesInv'
  <2>1. Tables' /\ btm_partitions'
    BY Zenon, <1>1, <1>2 DEF Tables, TablesInv, Rest
  <2> QED BY Zenon, <2>1 DEF TablesInv
<1> QED BY Zenon, <1>4, <1>5, <1>6, <1>7, <1>8, <1>9 DEF Inv

-----------------------------------------------------------------------------
(* The theorems *)

\* The invariant holds when the process starts.
LEMMA InitHolds == Init => Inv
<1> SUFFICES ASSUME Init PROVE Inv
  BY Zenon
<1>1. /\ init_once = "new" /\ init_once # "done" /\ ~btm_partitions /\ ~btm_ready /\ ~btm_mesh_mode
      /\ btm_tls = {} /\ spawned = 0 /\ lock = [l \in Locks |-> Nobody]
      /\ todo = [a \in Actors |-> <<>>]
  BY Zenon DEF Init
<1>2. \A a \in Actors : todo[a] = <<>>
  BY Zenon, <1>1
<1>3. TypeOK
  <2>1. todo \in [Actors -> Seq(StepsOf(Funs, LocksInUse))]
    <3>1. <<>> \in Seq(StepsOf(Funs, LocksInUse))
      BY Zenon, EmptyFacts
    <3> QED BY Zenon, <1>1, <3>1
  <2> QED BY Zenon, <1>1, <2>1 DEF TypeOK
<1>4. LocksInv
  <2> SUFFICES ASSUME NEW a \in Actors PROVE Nested(todo[a], Held(a))
    BY Zenon DEF LocksInv
  <2>1. a # Nobody
    BY Zenon, Owners
  <2>2. Held(a) = {}
    BY Zenon, <1>1, <2>1 DEF Held
  <2> QED BY Zenon, <1>2, <2>2, NestedEmpty
<1>5. OrphansKnown
  BY Zenon, <1>1, ProcessAssumption DEF OrphansKnown
<1>6. CacheInv /\ InitInv /\ ShallowInv
  BY Zenon, <1>1, <1>2, Idle DEF CacheInv, InitInv, ShallowInv
<1>7. SpawnInv
  <2>1. spawned <= 1 /\ ~(spawned > 0)
    BY <1>1
  <2> QED BY Zenon, <1>2, <2>1, Idle DEF SpawnInv
<1>8. TablesInv
  BY Zenon, <1>1, <1>2, Idle DEF TablesInv
<1> QED BY Zenon, <1>3, <1>4, <1>5, <1>6, <1>7, <1>8 DEF Inv

\* Every step keeps it.
LEMMA NextHolds == Inv /\ [Next]_vars => Inv'
<1> SUFFICES ASSUME Inv, [Next]_vars PROVE Inv'
  BY Zenon
<1>1. ASSUME NEW a \in Actors, Step(a) PROVE Inv'
  BY Zenon, <1>1, ExpandInv, LockInv, UnlockInv DEF Step
<1>2. ASSUME NEW t \in Threads, First(t) PROVE Inv'
  BY Zenon, <1>2, OnceInv, BuildInv, PublishInv, TlsInv, StartInv, CreateInv, SpawnInvStep DEF First
<1>3. ASSUME NEW t \in Threads, btm_tls_destroy(t) PROVE Inv'
  BY Zenon, <1>3, DestroyInv
<1>4. ASSUME NEW t \in Threads, Fork(t) PROVE Inv'
  BY Zenon, <1>4, ForkInv
<1>5. ASSUME NEW t \in Threads, NEW f \in Entries, Begin(t, f) PROVE Inv'
  BY Zenon, <1>5, BeginInv DEF Actors
<1>6. CASE Begin(Bg, "bg_main")
  <2>1. PICK f : f = "bg_main"
    BY Zenon
  <2>2. Bg \in Actors
    BY Zenon DEF Actors
  <2> QED BY Zenon, <1>6, <2>1, <2>2, BeginInv
<1>7. CASE UNCHANGED vars
  <2>1. /\ init_once' = init_once /\ btm_partitions' = btm_partitions /\ btm_ready' = btm_ready
        /\ btm_mesh_mode' = btm_mesh_mode /\ oom' = oom /\ btm_tls' = btm_tls
        /\ bg_started' = bg_started /\ spawned' = spawned /\ lock' = lock /\ todo' = todo
    BY Zenon, <1>7 DEF vars, initVars, bgVars
  <2>2. LocksInUse' = LocksInUse /\ (Tables' <=> Tables) /\ \A a : Held(a)' = Held(a)
    BY Zenon, <2>1 DEF LocksInUse, Tables, Held
  <2>3. TypeOK' /\ LocksInv' /\ CacheInv' /\ TablesInv'
    BY Zenon, <2>1, <2>2 DEF Inv, TypeOK, LocksInv, CacheInv, TablesInv
  <2>4. InitInv' /\ SpawnInv' /\ ShallowInv' /\ OrphansKnown'
    BY Zenon, <2>1 DEF Inv, InitInv, SpawnInv, ShallowInv, OrphansKnown
  <2> QED BY Zenon, <2>3, <2>4 DEF Inv
<1> QED BY Zenon, <1>1, <1>2, <1>3, <1>4, <1>5, <1>6, <1>7 DEF Next

\* The inductive invariant holds in every run of the process, for any number of
\* threads and of calls.
THEOREM ProcessInvariant == Spec => []Inv
<1>1. Init => Inv
  BY Zenon, InitHolds
<1>2. Inv /\ [Next]_vars => Inv'
  BY Zenon, NextHolds
<1> QED BY <1>1, <1>2, PTL DEF Spec

\* btm_malloc_at, btm_free and the maintenance thread take locks in one order,
\* whatever pthread_setspecific and pthread_create allocate on the way.
THEOREM LocksTakenInOrder == Spec => []LocksNest
<1>1. Inv => LocksNest
  <2> SUFFICES ASSUME Inv, NEW a \in Actors, At(a, "lock"), NEW l \in Locks, lock[l] = a
               PROVE  Rank(l) < Rank(Head(todo[a])[2])
    BY Zenon DEF LocksNest
  <2>1. TypeOK /\ Nested(todo[a], Held(a)) /\ l \in Held(a)
    BY Zenon DEF Inv, LocksInv, Held
  <2>2. /\ todo[a] # <<>> /\ todo[a][1] \in Steps /\ todo[a][1][1] = "lock"
        /\ Head(todo[a]) = todo[a][1]
    BY Zenon, <2>1, HeadFacts
  <2>3. PICK k : k = todo[a][1][2]
    BY Zenon
  <2>4. k \in Locks /\ todo[a][1] = LockStep(k)
    BY Zenon, <2>2, <2>3, StepsOfFacts, InUse
  <2>5. \A h \in Held(a) : Rank(h) < Rank(k)
    BY Zenon, <2>1, <2>2, <2>4, NestedLock
  <2> QED BY Zenon, <2>1, <2>2, <2>3, <2>5
<1> QED BY <1>1, ProcessInvariant, PTL

\* No thread reaches a pool before btm_do_init mapped the tables or failed.
THEOREM PoolsAfterTables == Spec => []TablesBeforeUse
<1>1. Inv => TablesBeforeUse
  <2> SUFFICES ASSUME Inv, NEW t \in Threads, At(t, "refill") PROVE btm_partitions \/ oom
    BY Zenon DEF TablesBeforeUse
  <2>1. t \in Actors /\ "refill" \in {"refill", "tls"}
    BY DEF Actors
  <2> QED BY Zenon, <2>1, Guards DEF Tables
<1> QED BY <1>1, ProcessInvariant, PTL

\* btm_bg_ensure_started starts one maintenance thread in a process, however many
\* threads get there at once.
THEOREM MaintenanceThreadUnique == Spec => []OneMaintenanceThread
<1>1. Inv => OneMaintenanceThread
  BY Zenon DEF Inv, SpawnInv, OneMaintenanceThread
<1> QED BY <1>1, ProcessInvariant, PTL

\* An allocation that pthread_setspecific or pthread_create makes does not start
\* first-call work again: a thread is never inside more than two.
THEOREM ReentryBounded == Spec => []ReentryShallow
<1>1. Inv => ReentryShallow
  <2> SUFFICES ASSUME Inv, NEW t \in Threads, NEW i \in DOMAIN todo[t], NEW j \in DOMAIN todo[t],
                      NEW k \in DOMAIN todo[t], i < j, j < k,
                      \A n \in {i, j, k} : todo[t][n] \in {<<"malloc">>, <<"refill">>}
               PROVE  FALSE
    BY Zenon DEF ReentryShallow
  <2>1. t \in Actors
    BY Zenon DEF Actors
  <2>2. Shallow(todo[t]) /\ todo[t] \in Seq(StepsOf(Funs, LocksInUse))
    BY Zenon, <2>1 DEF Inv, ShallowInv, TypeOK
  <2>3. DOMAIN todo[t] = 1..Len(todo[t]) /\ Len(todo[t]) \in Nat
    BY Zenon, <2>2, SeqLen
  <2>4. \A n \in {i, j, k} : todo[t][n][1] \in Allocs
    BY DEF Allocs
  <2>5. i = j \/ j = k \/ i = k
    BY Zenon, <2>2, <2>3, <2>4 DEF Shallow
  <2> QED BY <2>3, <2>5
<1> QED BY <1>1, ProcessInvariant, PTL

\* In the child of a fork only the registry's and the interning table's locks can
\* be held by a thread that the child does not have.
THEOREM ForkOrphansKnown == Spec => []OrphansKnown
<1>1. Inv => OrphansKnown
  BY Zenon DEF Inv
<1> QED BY <1>1, ProcessInvariant, PTL

-----------------------------------------------------------------------------
(* Nobody waits in a circle *)

\* Thread a waits for thread b: for a lock that b holds, or for btm_do_init,
\* which b is running.
WaitsFor(a, b) ==
  \/ At(a, "lock") /\ lock[Head(todo[a])[2]] = b
  \/ /\ At(a, "once") /\ ~OnceReturns /\ init_once = "running"
     /\ At(b, "build") \/ At(b, "publish")

\* Thread a cannot take the step it is at because of another.
Blocked(a) ==
  \/ At(a, "lock") /\ lock[Head(todo[a])[2]] # Nobody
  \/ At(a, "once") /\ ~OnceReturns /\ init_once # "new"

\* No set of threads waits in a circle.  A blocked thread waits for a thread of
\* this process that is inside a call itself and has steps left, unless it wants
\* one of the locks that a fork left behind.
NoWaitCycle ==
  /\ \A W \in SUBSET Actors : W # {} => \E a \in W : \A b \in W : ~WaitsFor(a, b)
  /\ \A a \in Actors : Blocked(a) =>
       \/ \E b \in Actors : WaitsFor(a, b) /\ todo[b] # <<>>
       \/ /\ At(a, "lock") /\ Head(todo[a])[2] \in {"registry", "intern"}
          /\ lock[Head(todo[a])[2]] = Gone

\* While btm_do_init is under way some thread is running it.
RunnerInv ==
  /\ init_once \in {"new", "running", "done"}
  /\ init_once = "running" => ~btm_ready /\ \E t \in Threads : At(t, "build") \/ At(t, "publish")

\* A thread is at one step at a time.
LEMMA OneStep ==
  ASSUME NEW a, NEW f, NEW g, At(a, f), At(a, g)
  PROVE  f = g
  BY Zenon DEF At

\* A call that starts with f is at f.
LEMMA StartsAt ==
  ASSUME NEW S, NEW q \in Seq(S), NEW f
  PROVE  <<<<f>>>> \o q # <<>> /\ Head(<<<<f>>>> \o q) = <<f>>
OBVIOUS

\* After Become(a, Call(f)) thread a is at f.
LEMMA ThenAt ==
  ASSUME TypeOK, NEW a \in Actors, NEW f, Become(a, Call(f)), todo[a] # <<>>
  PROVE  At(a, f)'
<1>1. todo[a] \in Seq(StepsOf(Funs, LocksInUse))
  BY Zenon DEF TypeOK
<1>2. todo'[a] = <<<<f>>>> \o Tail(todo[a])
  BY Zenon DEF Become, TypeOK, Call
<1>3. Tail(todo[a]) \in Seq(StepsOf(Funs, LocksInUse))
  BY Zenon, <1>1, SeqHeadTail
<1>4. todo'[a] # <<>> /\ Head(todo'[a]) = <<f>>
  BY Zenon, <1>2, <1>3, StartsAt
<1>5. <<f>>[1] = f
  OBVIOUS
<1> QED
  BY Zenon, <1>4, <1>5 DEF At

\* Whoever runs btm_do_init goes on running it while other threads, or threads
\* that are elsewhere, take steps.
LEMMA RunnerKept ==
  ASSUME TypeOK, RunnerInv, NEW a \in Actors, \A b \in Actors : b = a \/ todo'[b] = todo[b],
         ~At(a, "build"), ~At(a, "publish"), init_once' = init_once, btm_ready' = btm_ready
  PROVE  RunnerInv'
<1> SUFFICES ASSUME init_once = "running"
             PROVE  ~btm_ready' /\ \E t \in Threads : At(t, "build")' \/ At(t, "publish")'
  BY Zenon DEF RunnerInv
<1>1. ~btm_ready
  BY Zenon DEF RunnerInv
<1>2. PICK t \in Threads : At(t, "build") \/ At(t, "publish")
  BY Zenon DEF RunnerInv
<1>3. t # a /\ t \in Actors
  BY Zenon, <1>2 DEF Actors
<1>4. todo'[t] = todo[t]
  BY Zenon, <1>3
<1> QED BY Zenon, <1>1, <1>2, <1>4 DEF At

\* A step of thread a at another step of its call.
LEMMA RunnerStep ==
  ASSUME TypeOK, RunnerInv, NEW a \in Actors, NEW s, Become(a, s), NEW f, At(a, f),
         f # "build", f # "publish", init_once' = init_once, btm_ready' = btm_ready
  PROVE  RunnerInv'
<1>1. \A b \in Actors : b = a \/ todo'[b] = todo[b]
  BY Zenon DEF Become, TypeOK
<1>2. ~At(a, "build") /\ ~At(a, "publish")
  BY Zenon, OneStep
<1> QED BY Zenon, <1>1, <1>2, RunnerKept

\* A call that a thread starts.
LEMMA RunnerBegin ==
  ASSUME TypeOK, RunnerInv, NEW a \in Actors, NEW s, todo' = [todo EXCEPT ![a] = s],
         todo[a] = <<>>, init_once' = init_once, btm_ready' = btm_ready
  PROVE  RunnerInv'
<1>1. \A b \in Actors : b = a \/ todo'[b] = todo[b]
  BY Zenon DEF TypeOK
<1>2. ~At(a, "build") /\ ~At(a, "publish")
  BY Zenon DEF At
<1> QED BY Zenon, <1>1, <1>2, RunnerKept

\* pthread_once and btm_do_init themselves.
LEMMA RunnerOnce ==
  ASSUME TypeOK, RunnerInv, NEW t \in Threads, btm_ensure_init(t) \/ Build(t) \/ Publish(t)
  PROVE  RunnerInv'
<1>1. t \in Actors
  BY Zenon DEF Actors
<1>2. CASE btm_ensure_init(t)
  <2>1. At(t, "once") /\ todo[t] # <<>> /\ btm_ready' = btm_ready
    BY Zenon, <1>2 DEF btm_ensure_init, At
  <2>2. CASE Become(t, <<>>) /\ init_once' = init_once
    <3>1. "once" # "build" /\ "once" # "publish"
      OBVIOUS
    <3> QED BY Zenon, <1>1, <2>1, <2>2, <3>1, RunnerStep
  <2>3. CASE ~btm_ready /\ init_once' = "running" /\ Become(t, Call("build"))
    BY Zenon, <1>1, <2>1, <2>3, ThenAt DEF RunnerInv
  <2> QED BY Zenon, <1>2, <2>2, <2>3 DEF btm_ensure_init
<1>3. CASE Build(t)
  <2>1. At(t, "build") /\ todo[t] # <<>> /\ btm_ready' = btm_ready
    BY Zenon, <1>3 DEF Build, At
  <2>2. CASE init_once' = "done"
    BY <2>2 DEF RunnerInv
  <2>3. CASE init_once' = init_once /\ Become(t, Call("publish"))
    BY Zenon, <1>1, <2>1, <2>3, ThenAt DEF RunnerInv
  <2> QED BY Zenon, <1>3, <2>2, <2>3 DEF Build
<1>4. CASE Publish(t)
  <2>1. init_once' = "done"
    BY Zenon, <1>4 DEF Publish
  <2> QED BY <2>1 DEF RunnerInv
<1> QED BY Zenon, <1>2, <1>3, <1>4

\* Initially btm_do_init has not run.
LEMMA RunnerHolds == Init => RunnerInv
  BY DEF Init, RunnerInv

\* No step, not even a fork, leaves btm_do_init under way with nobody running it.
LEMMA RunnerNext == TypeOK /\ RunnerInv /\ [Next]_vars => RunnerInv'
<1> SUFFICES ASSUME TypeOK, RunnerInv, [Next]_vars PROVE RunnerInv'
  BY Zenon
<1>1. ASSUME NEW a \in Actors, Step(a) PROVE RunnerInv'
  <2>1. init_once' = init_once /\ btm_ready' = btm_ready
    BY Zenon, <1>1 DEF Step, Expand, Lock, Unlock, initVars
  <2>2. PICK f \in Called \cup {"lock", "unlock"} : At(a, f) /\ \E s : Become(a, s)
    BY Zenon, <1>1 DEF Step, Expand, Lock, Unlock
  <2>3. f # "build" /\ f # "publish"
    BY DEF Called
  <2> QED BY Zenon, <2>1, <2>2, <2>3, RunnerStep
<1>2. ASSUME NEW t \in Threads, First(t) PROVE RunnerInv'
  <2>1. CASE btm_ensure_init(t) \/ Build(t) \/ Publish(t)
    BY Zenon, <2>1, RunnerOnce
  <2>2. CASE btm_tls_get(t) \/ EnsureStarted(t) \/ Create(t) \/ Spawn(t)
    <3>1. init_once' = init_once /\ btm_ready' = btm_ready /\ t \in Actors
      BY Zenon, <2>2 DEF btm_tls_get, EnsureStarted, Create, Spawn, initVars, Actors
    <3>2. PICK f \in {"tls", "start", "create", "spawn"} : At(t, f) /\ \E s : Become(t, s)
      BY Zenon, <2>2 DEF btm_tls_get, EnsureStarted, Create, Spawn
    <3>3. f # "build" /\ f # "publish"
      OBVIOUS
    <3> QED BY Zenon, <3>1, <3>2, <3>3, RunnerStep
  <2> QED BY Zenon, <1>2, <2>1, <2>2 DEF First
<1>3. ASSUME NEW t \in Threads, btm_tls_destroy(t) PROVE RunnerInv'
  <2>1. /\ init_once' = init_once /\ btm_ready' = btm_ready /\ t \in Actors /\ todo[t] = <<>>
        /\ todo' = [todo EXCEPT ![t] = Call("flush")]
    BY Zenon, <1>3 DEF btm_tls_destroy, initVars, Actors
  <2> QED BY Zenon, <2>1, RunnerBegin
<1>4. ASSUME NEW t \in Threads, Fork(t) PROVE RunnerInv'
  BY Zenon, <1>4 DEF Fork, RunnerInv, initVars
<1>5. ASSUME NEW a \in Actors, NEW f, Begin(a, f) PROVE RunnerInv'
  <2>1. /\ init_once' = init_once /\ btm_ready' = btm_ready /\ todo[a] = <<>>
        /\ \E s : todo' = [todo EXCEPT ![a] = s]
    BY Zenon, <1>5 DEF Begin, initVars
  <2> QED BY Zenon, <2>1, RunnerBegin
<1>6. CASE UNCHANGED vars
  BY Zenon, <1>6 DEF vars, initVars, RunnerInv, At
<1> QED BY Zenon, <1>1, <1>2, <1>3, <1>4, <1>5, <1>6 DEF Next, Actors

\* A thread that waits for a lock is at a lock of this build, and one that holds
\* a lock is inside a call.
LEMMA WaitFacts ==
  ASSUME Inv, NEW a \in Actors, At(a, "lock")
  PROVE  /\ Head(todo[a])[2] \in Locks
         /\ \A b \in Actors : lock[Head(todo[a])[2]] = b => todo[b] # <<>>
<1>1. TypeOK
  BY Zenon DEF Inv
<1>2. /\ todo[a][1] \in Steps /\ todo[a][1][1] = "lock" /\ Head(todo[a]) = todo[a][1]
  BY Zenon, <1>1, HeadFacts
<1>3. PICK k : k = Head(todo[a])[2]
  BY Zenon
<1>4. k \in Locks
  BY Zenon, <1>2, <1>3, StepsOfFacts, InUse
<1>5. ASSUME NEW b \in Actors, lock[k] = b PROVE todo[b] # <<>>
  <2>1. Nested(todo[b], Held(b)) /\ k \in Held(b)
    BY Zenon, <1>4, <1>5 DEF Inv, LocksInv, Held
  <2>2. \E j \in 1..Len(todo[b]) : TRUE
    BY Zenon, <2>1 DEF Nested
  <2> QED BY <2>2
<1> QED BY Zenon, <1>3, <1>4, <1>5

\* A thread that waits for the holder of a lock, which itself waits for a lock,
\* wants a lock of lower rank than the holder does.
LEMMA WaitRises ==
  ASSUME Inv, LocksNest, NEW a \in Actors, NEW b \in Actors, At(a, "lock"), At(b, "lock"),
         lock[Head(todo[a])[2]] = b
  PROVE  Rank(Head(todo[a])[2]) < Rank(Head(todo[b])[2])
  BY Zenon, WaitFacts DEF LocksNest

\* Four threads in a row cannot wait for locks: there are three ranks.
LEMMA RanksRunOut ==
  ASSUME NEW k, NEW l, NEW m, NEW n, Rank(k) < Rank(l), Rank(l) < Rank(m), Rank(m) < Rank(n)
  PROVE  FALSE
<1>1. \A x : Rank(x) \in {0, 1, 2}
  BY DEF Rank
<1>2. PICK a \in {0, 1, 2}, b \in {0, 1, 2}, c \in {0, 1, 2}, d \in {0, 1, 2} :
        a = Rank(k) /\ b = Rank(l) /\ c = Rank(m) /\ d = Rank(n)
  BY Zenon, <1>1
<1>3. a < b /\ b < c /\ c < d
  BY Zenon, <1>2
<1> QED BY <1>3

\* A member of a circle of waiting threads waits for a lock: the thread that runs
\* btm_do_init waits for nobody.
LEMMA CircleOfLocks ==
  ASSUME Inv, NEW W \in SUBSET Actors, \A a \in W : \E b \in W : WaitsFor(a, b)
  PROVE  \A a \in W : At(a, "lock") /\ \E b \in W : lock[Head(todo[a])[2]] = b
<1>1. /\ "lock" # "build" /\ "lock" # "publish"
      /\ "once" # "build" /\ "once" # "publish"
  OBVIOUS
<1>2. ASSUME NEW b \in W PROVE ~At(b, "build") /\ ~At(b, "publish")
  <2>1. At(b, "lock") \/ At(b, "once")
    BY Zenon DEF WaitsFor
  <2> QED BY Zenon, <1>1, <2>1, OneStep
<1> QED BY Zenon, <1>2 DEF WaitsFor

\* The locks' order and the single runner of btm_do_init leave no circle.
LEMMA NoCircle ==
  ASSUME Inv, LocksNest, NEW W \in SUBSET Actors, W # {}
  PROVE  \E a \in W : \A b \in W : ~WaitsFor(a, b)
<1> SUFFICES ASSUME \A a \in W : \E b \in W : WaitsFor(a, b) PROVE FALSE
  BY Zenon
<1>1. \A a \in W : At(a, "lock") /\ \E b \in W : lock[Head(todo[a])[2]] = b
  BY Zenon, CircleOfLocks
<1>2. PICK a \in W : TRUE
  BY Zenon
<1>3. PICK b \in W : lock[Head(todo[a])[2]] = b
  BY Zenon, <1>1
<1>4. PICK c \in W : lock[Head(todo[b])[2]] = c
  BY Zenon, <1>1
<1>5. PICK d \in W : lock[Head(todo[c])[2]] = d
  BY Zenon, <1>1
<1>6. a \in Actors /\ b \in Actors /\ c \in Actors /\ d \in Actors
  BY Zenon
<1>7. Rank(Head(todo[a])[2]) < Rank(Head(todo[b])[2])
  BY Zenon, <1>1, <1>3, <1>6, WaitRises
<1>8. Rank(Head(todo[b])[2]) < Rank(Head(todo[c])[2])
  BY Zenon, <1>1, <1>4, <1>6, WaitRises
<1>9. Rank(Head(todo[c])[2]) < Rank(Head(todo[d])[2])
  BY Zenon, <1>1, <1>5, <1>6, WaitRises
<1> QED BY Zenon, <1>7, <1>8, <1>9, RanksRunOut

\* A blocked thread waits for a thread that is inside a call, or for a lock that
\* the fork left behind.
LEMMA SomebodyWorks ==
  ASSUME Inv, RunnerInv, NEW a \in Actors, Blocked(a)
  PROVE  \/ \E b \in Actors : WaitsFor(a, b) /\ todo[b] # <<>>
         \/ /\ At(a, "lock") /\ Head(todo[a])[2] \in {"registry", "intern"}
            /\ lock[Head(todo[a])[2]] = Gone
<1>1. CASE At(a, "lock") /\ lock[Head(todo[a])[2]] # Nobody
  <2>1. PICK k : k = Head(todo[a])[2]
    BY Zenon
  <2>2. k \in Locks /\ \A b \in Actors : lock[k] = b => todo[b] # <<>>
    BY Zenon, <1>1, <2>1, WaitFacts
  <2>3. lock[k] \in Actors \/ lock[k] = Gone
    BY Zenon, <1>1, <2>1, <2>2 DEF Inv, TypeOK
  <2>4. CASE lock[k] \in Actors
    BY Zenon, <1>1, <2>1, <2>2, <2>4 DEF WaitsFor
  <2>5. CASE lock[k] = Gone
    BY Zenon, <1>1, <2>1, <2>2, <2>5 DEF Inv, OrphansKnown
  <2> QED BY Zenon, <2>3, <2>4, <2>5
<1>2. CASE At(a, "once") /\ ~OnceReturns /\ init_once # "new"
  <2>1. init_once = "running"
    BY Zenon, <1>2 DEF OnceReturns, RunnerInv
  <2>2. PICK t \in Threads : At(t, "build") \/ At(t, "publish")
    BY Zenon, <2>1 DEF RunnerInv
  <2>3. t \in Actors /\ todo[t] # <<>>
    BY Zenon, <2>2 DEF Actors, At
  <2> QED BY Zenon, <1>2, <2>1, <2>2, <2>3 DEF WaitsFor
<1> QED BY Zenon, <1>1, <1>2 DEF Blocked

\* The allocator does not deadlock: of any threads that are inside btm_malloc_at,
\* btm_free or the maintenance thread, at the locks or at pthread_once, one waits
\* for none of the others, and a blocked thread waits for one that is at work.
THEOREM NoDeadlock == Spec => []NoWaitCycle
<1>1. Inv /\ LocksNest /\ RunnerInv => NoWaitCycle
  BY Zenon, NoCircle, SomebodyWorks DEF NoWaitCycle
<1>2. Inv => TypeOK
  BY Zenon DEF Inv
<1> QED BY <1>1, <1>2, RunnerHolds, RunnerNext, ProcessInvariant, LocksTakenInOrder, PTL DEF Spec
=============================================================================
