---------------------------- MODULE CallsProofs -----------------------------
(***************************************************************************)
(* Proofs about Large and Calls, for any sizes, alignments, classes and    *)
(* counts, and an address space of any size.                               *)
(***************************************************************************)
EXTENDS Calls, TLAPS

-----------------------------------------------------------------------------
(* Arithmetic *)

\* x is a multiple of a.
Mult(x, a) == \E k \in Int : x = k * a

\* Quotient and remainder.
LEMMA DivMod ==
  ASSUME NEW x \in Int, NEW a \in Nat \ {0}
  PROVE  /\ x \div a \in Int /\ x % a \in Int
         /\ 0 <= x % a /\ x % a < a
         /\ x = (x \div a) * a + (x % a)
<1>1. a \in Nat /\ a > 0
  OBVIOUS
<1>2. x \div a \in Int /\ x % a \in Int /\ 0 <= x % a /\ x % a < a
  BY <1>1
<1>3. x = (x \div a) * a + (x % a)
  BY <1>1, Z3
<1> QED BY <1>2, <1>3

\* A number below a multiple has a smaller quotient.
LEMMA DivLess ==
  ASSUME NEW x \in Int, NEW a \in Nat \ {0}, NEW k \in Int, x < k * a
  PROVE  x \div a < k
<1>1. PICK q \in Int, r \in Int : q = x \div a /\ 0 <= r /\ x = q * a + r
  BY DivMod
<1>2. ASSUME q >= k PROVE FALSE
  <2>1. (q - k) * a >= 0
    BY <1>2
  <2>2. q * a = k * a + (q - k) * a
    OBVIOUS
  <2> QED BY <1>1, <2>1, <2>2
<1> QED BY <1>1, <1>2

\* A number that reaches a multiple has at least its quotient.
LEMMA DivAtLeast ==
  ASSUME NEW x \in Int, NEW a \in Nat \ {0}, NEW k \in Int, k * a <= x
  PROVE  k <= x \div a
<1>1. PICK q \in Int, r \in Int : q = x \div a /\ r < a /\ x = q * a + r
  BY DivMod
<1>2. ASSUME q < k PROVE FALSE
  <2>1. (k - q - 1) * a >= 0
    BY <1>2
  <2>2. k * a = q * a + a + (k - q - 1) * a
    OBVIOUS
  <2> QED BY <1>1, <2>1, <2>2
<1> QED BY <1>1, <1>2

\* Quotients are monotonic.
LEMMA DivMonotonic ==
  ASSUME NEW x \in Int, NEW y \in Int, NEW a \in Nat \ {0}, x <= y
  PROVE  x \div a <= y \div a
<1>1. PICK q \in Int, r \in Int : q = x \div a /\ 0 <= r /\ x = q * a + r
  BY DivMod
<1>2. q * a <= y
  BY <1>1
<1> QED BY <1>1, <1>2, DivAtLeast

\* The multiples of a are the numbers without a remainder.
LEMMA MultMod ==
  ASSUME NEW x \in Int, NEW a \in Nat \ {0}
  PROVE  Mult(x, a) <=> x % a = 0
<1>1. PICK q \in Int, r \in Int : q = x \div a /\ r = x % a /\ 0 <= r /\ r < a /\ x = q * a + r
  BY DivMod
<1>2. ASSUME Mult(x, a) PROVE r = 0
  <2>1. PICK k \in Int : x = k * a
    BY <1>2 DEF Mult
  <2>2. PICK m \in Int : m = k + 1
    OBVIOUS
  <2>3. x < m * a /\ k * a <= x
    <3>1. m * a = k * a + a
      BY <2>2
    <3> QED BY <2>1, <3>1
  <2>4. x \div a < m /\ k <= x \div a
    BY Zenon, <2>3, DivLess, DivAtLeast
  <2>5. q = k
    BY <1>1, <2>2, <2>4
  <2> QED BY <1>1, <2>1, <2>5
<1>3. ASSUME r = 0 PROVE Mult(x, a)
  <2>1. x = q * a
    BY <1>1, <1>3
  <2> QED BY Zenon, <2>1 DEF Mult
<1> QED BY <1>1, <1>2, <1>3

\* A multiple of a multiple.
LEMMA MultTransitive ==
  ASSUME NEW x \in Int, NEW a \in Int, NEW b \in Int, Mult(x, a), Mult(a, b)
  PROVE  Mult(x, b)
<1>1. PICK k \in Int, m \in Int : x = k * a /\ a = m * b
  BY Zenon DEF Mult
<1>2. x = (k * m) * b /\ k * m \in Int
  BY <1>1
<1> QED BY Zenon, <1>2 DEF Mult

\* The sum of two multiples.
LEMMA MultSum ==
  ASSUME NEW x \in Int, NEW y \in Int, NEW a \in Int, Mult(x, a), Mult(y, a)
  PROVE  Mult(x + y, a)
<1>1. PICK k \in Int, m \in Int : x = k * a /\ y = m * a
  BY Zenon DEF Mult
<1>2. x + y = (k + m) * a /\ k + m \in Int
  BY <1>1
<1> QED BY Zenon, <1>2 DEF Mult

\* size_t arithmetic: a result that is in range, and one that has wrapped once.
LEMMA WrapFacts ==
  ASSUME NEW x \in Nat
  PROVE  /\ Wrap(x) \in 0..(SizeT - 1)
         /\ x < SizeT => Wrap(x) = x
         /\ x >= SizeT /\ x < SizeT + SizeT => Wrap(x) = x - SizeT
<1>1. SizeT \in Nat \ {0}
  BY LargeAssumption
<1>2. PICK q \in Int, r \in Int : q = x \div SizeT /\ r = x % SizeT /\ 0 <= r /\ r < SizeT /\ x = q * SizeT + r
  BY <1>1, DivMod
<1>3. ASSUME x < SizeT PROVE r = x
  <2>1. x < 1 * SizeT /\ 0 * SizeT <= x
    BY <1>1, <1>3
  <2>2. q = 0
    BY <1>1, <1>2, <2>1, DivLess, DivAtLeast
  <2> QED BY <1>1, <1>2, <2>2
<1>4. ASSUME x >= SizeT, x < SizeT + SizeT PROVE r = x - SizeT
  <2>1. x < 2 * SizeT /\ 1 * SizeT <= x
    BY <1>1, <1>4
  <2>2. q = 1
    BY <1>1, <1>2, <2>1, DivLess, DivAtLeast
  <2> QED BY <1>1, <1>2, <2>2
<1> QED BY <1>1, <1>2, <1>3, <1>4 DEF Wrap

\* btm_round_up, with and without a sum that wraps.
LEMMA RoundUp ==
  ASSUME NEW v \in Nat, NEW a \in Nat \ {0}
  PROVE  /\ round_up(v, a) \in 0..(SizeT - 1) /\ Mult(round_up(v, a), a)
         /\ v + a - 1 < SizeT => v <= round_up(v, a) /\ round_up(v, a) < v + a
<1>0. SizeT \in Nat \ {0}
  BY LargeAssumption
<1>1. PICK w \in Nat : w = Wrap(v + a - 1) /\ w < SizeT /\ (v + a - 1 < SizeT => w = v + a - 1)
  BY <1>0, WrapFacts
<1>2. PICK q \in Int, r \in Int : q = w \div a /\ r = w % a /\ 0 <= r /\ r < a /\ w = q * a + r
  BY DivMod
<1>3. round_up(v, a) = w - r
  BY <1>1, <1>2 DEF round_up
<1>4. w - r = q * a
  BY <1>2
<1>5. q * a >= 0
  <2>1. 0 * a <= w
    BY <1>1
  <2>2. q >= 0
    BY <1>2, <2>1, DivAtLeast
  <2> QED BY <2>2
<1>6. Mult(round_up(v, a), a)
  BY Zenon, <1>3, <1>4 DEF Mult
<1>7. w - r \in 0..(SizeT - 1) /\ (v + a - 1 < SizeT => v <= w - r /\ w - r < v + a)
  <2>1. w - r >= 0
    BY <1>4, <1>5
  <2>2. r \in Int /\ 0 <= r /\ r < a
    BY Zenon, <1>2
  <2>3. w - r < SizeT
    BY <1>0, <1>1, <2>2
  <2>4. v + a - 1 < SizeT => v <= w - r /\ w - r < v + a
    BY <1>0, <1>1, <2>2
  <2> QED BY <1>0, <1>1, <2>1, <2>2, <2>3, <2>4
<1> QED BY Zenon, <1>3, <1>6, <1>7

-----------------------------------------------------------------------------
(* Mappings, pages and regions *)

\* n bytes at b and m bytes at c have no byte in common.
Off(b, n, c, m) == n = 0 \/ m = 0 \/ b + n <= c \/ c + m <= b

\* The constants are positive numbers, and the sizes of page, region and
\* address space fit each other.
LEMMA Constants ==
  /\ SizeT \in Nat \ {0} /\ ALIGNMENT \in Nat \ {0} /\ Header \in Nat \ {0}
  /\ PAGE_SIZE \in Nat \ {0} /\ CHUNK_SIZE \in Nat \ {0} /\ SpaceEnd \in Nat \ {0}
  /\ SpaceEnd <= SizeT
  /\ Mult(SpaceEnd, CHUNK_SIZE) /\ Mult(CHUNK_SIZE, PAGE_SIZE)
<1>1. /\ SizeT \in Nat \ {0} /\ ALIGNMENT \in Nat \ {0} /\ Header \in Nat \ {0}
      /\ PAGE_SIZE \in Nat \ {0} /\ CHUNK_SIZE \in Nat \ {0} /\ SpaceEnd \in Nat \ {0}
      /\ SpaceEnd <= SizeT /\ SpaceEnd % CHUNK_SIZE = 0 /\ CHUNK_SIZE % PAGE_SIZE = 0
  BY LargeAssumption
<1>2. SpaceEnd \in Int /\ CHUNK_SIZE \in Int
  BY <1>1
<1> QED BY Zenon, <1>1, <1>2, MultMod

\* Part of a mapping, two mappings one after the other, and the roles changed.
LEMMA OffFacts ==
  ASSUME NEW b \in Nat, NEW n \in Nat, NEW c \in Nat, NEW m \in Nat
  PROVE  /\ Off(b, n, c, m) => Off(c, m, b, n)
         /\ \A d, e \in Nat : Off(b, n, c, m) /\ b <= d /\ d + e <= b + n => Off(d, e, c, m)
         /\ \A k \in Nat : Off(b, n, c, m) /\ Off(b + n, k, c, m) => Off(b, n + k, c, m)
BY DEF Off

\* A mapping whose first byte is at a region boundary has its bytes in its
\* regions: btm_registry_insert enters all of them.
LEMMA ByteInRegion ==
  ASSUME NEW b \in Nat, NEW n \in Nat, b + n <= SpaceEnd, NEW x \in b..(b + n - 1)
  PROVE  x \div CHUNK_SIZE \in RegionsOf(b, n)
<1>1. CHUNK_SIZE \in Nat \ {0} /\ SpaceEnd \in Nat
  BY Constants
<1>2. PICK k \in Int : SpaceEnd = k * CHUNK_SIZE
  BY Zenon, Constants DEF Mult
<1>3. x \in Int /\ 0 <= x /\ x < SpaceEnd /\ b <= x /\ x <= b + n - 1 /\ b \in Int /\ b + n - 1 \in Int
  BY <1>1
<1>4. b \div CHUNK_SIZE <= x \div CHUNK_SIZE /\ x \div CHUNK_SIZE <= (b + n - 1) \div CHUNK_SIZE
  BY Zenon, <1>1, <1>3, DivMonotonic
<1>5. x \div CHUNK_SIZE < k
  BY Zenon, <1>1, <1>2, <1>3, DivLess
<1>6. k <= SpaceEnd \div CHUNK_SIZE
  <2>1. SpaceEnd \in Int /\ k * CHUNK_SIZE <= SpaceEnd
    BY <1>1, <1>2
  <2> QED BY Zenon, <1>1, <2>1, DivAtLeast
<1>7. 0 <= x \div CHUNK_SIZE
  <2>1. PICK z \in Int : z = 0
    OBVIOUS
  <2>2. z * CHUNK_SIZE <= x
    BY <1>1, <1>3, <2>1
  <2> QED BY Zenon, <1>1, <1>3, <2>1, <2>2, DivAtLeast
<1>8. x \div CHUNK_SIZE \in Int /\ SpaceEnd \div CHUNK_SIZE \in Int
  BY <1>1, <1>3, DivMod
<1>9. x \div CHUNK_SIZE \in Regions
  BY <1>5, <1>6, <1>7, <1>8 DEF Regions
<1> QED BY <1>4, <1>9 DEF RegionsOf

\* Mappings that start at region boundaries and have no byte in common have no
\* region in common either.
LEMMA RegionsApart ==
  ASSUME NEW b \in Nat, NEW n \in Nat, NEW c \in Nat, NEW m \in Nat,
         Mult(b, CHUNK_SIZE), Mult(c, CHUNK_SIZE), Off(b, n, c, m)
  PROVE  \A r \in RegionsOf(b, n) : r \notin RegionsOf(c, m)
<1>1. CHUNK_SIZE \in Nat \ {0}
  BY Constants
<1>2. ASSUME NEW d \in Nat, NEW e \in Nat, Mult(d, CHUNK_SIZE), e <= d
      PROVE  (e - 1) \div CHUNK_SIZE < d \div CHUNK_SIZE
  <2>1. PICK k \in Int : d = k * CHUNK_SIZE
    BY Zenon, <1>2 DEF Mult
  <2>2. e - 1 \in Int /\ d \in Int /\ e - 1 < k * CHUNK_SIZE /\ k * CHUNK_SIZE <= d
    BY <1>2, <2>1
  <2>3. (e - 1) \div CHUNK_SIZE < k /\ k <= d \div CHUNK_SIZE
    BY Zenon, <1>1, <2>2, DivLess, DivAtLeast
  <2>4. (e - 1) \div CHUNK_SIZE \in Int /\ d \div CHUNK_SIZE \in Int
    BY Zenon, <1>1, <2>2, DivMod
  <2> QED BY <2>3, <2>4
<1>3. ASSUME NEW r \in RegionsOf(b, n), r \in RegionsOf(c, m) PROVE FALSE
  <2>1. /\ r \in Int
        /\ r >= b \div CHUNK_SIZE /\ r <= (b + n - 1) \div CHUNK_SIZE
        /\ r >= c \div CHUNK_SIZE /\ r <= (c + m - 1) \div CHUNK_SIZE
    BY <1>3 DEF RegionsOf, Regions
  <2>2. /\ b \div CHUNK_SIZE \in Int /\ (b + n - 1) \div CHUNK_SIZE \in Int
        /\ c \div CHUNK_SIZE \in Int /\ (c + m - 1) \div CHUNK_SIZE \in Int
    BY <1>1, DivMod
  <2>3. ASSUME NEW e \in Nat, e <= b \/ e <= c, r <= (e - 1) \div CHUNK_SIZE PROVE FALSE
    <3>1. (e - 1) \div CHUNK_SIZE \in Int
      BY <1>1, DivMod
    <3>2. CASE e <= b
      <4>1. (e - 1) \div CHUNK_SIZE < b \div CHUNK_SIZE
        BY Zenon, <1>2, <3>2
      <4> QED BY <2>1, <2>2, <2>3, <3>1, <4>1
    <3>3. CASE e <= c
      <4>1. (e - 1) \div CHUNK_SIZE < c \div CHUNK_SIZE
        BY Zenon, <1>2, <3>3
      <4> QED BY <2>1, <2>2, <2>3, <3>1, <4>1
    <3> QED BY Zenon, <2>3, <3>2, <3>3
  <2>4. PICK e \in Nat, f \in Nat : e = b + n /\ f = c + m
    OBVIOUS
  <2>5. e <= b \/ e <= c \/ f <= c \/ f <= b
    BY <2>4 DEF Off
  <2>6. r <= (e - 1) \div CHUNK_SIZE /\ r <= (f - 1) \div CHUNK_SIZE
    <3>1. b + n - 1 = e - 1 /\ c + m - 1 = f - 1
      BY <2>4
    <3> QED BY Zenon, <2>1, <3>1
  <2> QED BY Zenon, <2>3, <2>5, <2>6
<1> QED BY Zenon, <1>3

-----------------------------------------------------------------------------
(* Large objects in the address space and in the registry *)

Objects == [base : Nat, map_len : Nat, user_off : Nat, req_size : Nat, align : Nat]

\* A mapping of whole pages at a region boundary, within the address space.
ObjOK(o) ==
  /\ Mult(o.base, CHUNK_SIZE) /\ Mult(o.map_len, PAGE_SIZE)
  /\ o.base + o.map_len <= SpaceEnd

Beside(o, q) == Off(o.base, o.map_len, q.base, q.map_len)

Placed(os) ==
  /\ os \subseteq Objects
  /\ \A o \in os : ObjOK(o)
  /\ \A o, q \in os : o # q => Beside(o, q)

Entered(os, reg) ==
  /\ reg \in [Regions -> Nat \cup {None}]
  /\ \A o \in os : \A r \in RegionsOf(o.base, o.map_len) : reg[r] = o.base
  /\ \A r \in Regions : reg[r] # None =>
       \E o \in os : o.base = reg[r] /\ r \in RegionsOf(o.base, o.map_len)

LInv == Placed(objs) /\ Entered(objs, registry)

\* Being beside one another is mutual.
LEMMA BesideMutual ==
  ASSUME NEW o \in Objects, NEW q \in Objects, Beside(o, q)
  PROVE  Beside(q, o)
<1>1. o.base \in Nat /\ o.map_len \in Nat /\ q.base \in Nat /\ q.map_len \in Nat
  BY DEF Objects
<1> QED BY Zenon, <1>1, OffFacts DEF Beside

\* Objects beside one another are in different regions.
LEMMA BesideRegions ==
  ASSUME NEW o \in Objects, NEW q \in Objects, ObjOK(o), ObjOK(q), Beside(o, q)
  PROVE  \A r \in RegionsOf(o.base, o.map_len) : r \notin RegionsOf(q.base, q.map_len)
<1>1. o.base \in Nat /\ o.map_len \in Nat /\ q.base \in Nat /\ q.map_len \in Nat
  BY DEF Objects
<1> QED BY Zenon, <1>1, RegionsApart DEF Beside, ObjOK

\* An object that leaves.
LEMMA PlacedLess ==
  ASSUME NEW os, Placed(os), NEW o
  PROVE  Placed(os \ {o})
BY Zenon DEF Placed

\* An object that is entered beside the others.
LEMMA PlacedMore ==
  ASSUME NEW os, Placed(os), NEW n \in Objects, ObjOK(n), \A o \in os : Beside(o, n)
  PROVE  Placed(os \cup {n})
<1>1. \A o \in os : Beside(n, o)
  BY Zenon, BesideMutual DEF Placed
<1> QED BY Zenon, <1>1 DEF Placed

\* btm_registry_insert of an object beside the others leaves their entries alone.
LEMMA EnteredMore ==
  ASSUME NEW os, NEW reg, Placed(os), Entered(os, reg),
         NEW n \in Objects, ObjOK(n), \A o \in os : Beside(o, n)
  PROVE  Entered(os \cup {n}, btm_registry_insert(reg, n.base, n.map_len))
<1> DEFINE w == btm_registry_insert(reg, n.base, n.map_len)
<1>1. n.base \in Nat
  BY DEF Objects
<1>2. /\ w \in [Regions -> Nat \cup {None}]
      /\ \A r \in Regions : w[r] = IF r \in RegionsOf(n.base, n.map_len) THEN n.base ELSE reg[r]
  BY Zenon, <1>1 DEF btm_registry_insert, Entered
<1>3. \A b, len : RegionsOf(b, len) \subseteq Regions
  BY Zenon DEF RegionsOf
<1> HIDE DEF w
<1>4. ASSUME NEW o \in os, NEW r \in RegionsOf(o.base, o.map_len)
      PROVE  w[r] = o.base
  <2>1. r \notin RegionsOf(n.base, n.map_len)
    BY Zenon, BesideRegions DEF Placed
  <2> QED BY Zenon, <1>2, <1>3, <2>1 DEF Entered
<1>5. \A r \in RegionsOf(n.base, n.map_len) : w[r] = n.base
  BY Zenon, <1>2, <1>3
<1>6. ASSUME NEW r \in Regions, w[r] # None
      PROVE  \E o \in os \cup {n} : o.base = w[r] /\ r \in RegionsOf(o.base, o.map_len)
  BY Zenon, <1>2, <1>6 DEF Entered
<1> QED BY Zenon, <1>2, <1>4, <1>5, <1>6 DEF Entered, w

\* btm_registry_remove of an object leaves the entries of the others alone.
LEMMA EnteredLess ==
  ASSUME NEW os, NEW reg, Placed(os), Entered(os, reg), NEW o \in os
  PROVE  Entered(os \ {o}, btm_registry_remove(reg, o.base, o.map_len))
<1> DEFINE w == btm_registry_remove(reg, o.base, o.map_len)
<1>1. /\ w \in [Regions -> Nat \cup {None}]
      /\ \A r \in Regions : w[r] = IF r \in RegionsOf(o.base, o.map_len) THEN None ELSE reg[r]
  BY Zenon DEF btm_registry_remove, Entered
<1>2. \A b, len : RegionsOf(b, len) \subseteq Regions
  BY Zenon DEF RegionsOf
<1> HIDE DEF w
<1>3. ASSUME NEW q \in os \ {o}, NEW r \in RegionsOf(q.base, q.map_len)
      PROVE  w[r] = q.base
  <2>1. r \notin RegionsOf(o.base, o.map_len)
    BY Zenon, BesideRegions DEF Placed
  <2> QED BY Zenon, <1>1, <1>2, <2>1 DEF Entered
<1>4. ASSUME NEW r \in Regions, w[r] # None
      PROVE  \E q \in os \ {o} : q.base = w[r] /\ r \in RegionsOf(q.base, q.map_len)
  BY Zenon, <1>1, <1>4 DEF Entered
<1> QED BY Zenon, <1>1, <1>3, <1>4 DEF Entered, w

\* Memory that the kernel finds free is beside every object.
LEMMA FreeBeside ==
  ASSUME Placed(objs), NEW a \in Nat, NEW len \in Nat, Mult(a, PAGE_SIZE), Free(a, len),
         NEW o \in objs
  PROVE  Off(a, len, o.base, o.map_len)
<1>1. o.base \in Nat /\ o.map_len \in Nat /\ ObjOK(o)
  BY DEF Placed, Objects
<1>2. PICK b \in Nat, n \in Nat : b = o.base /\ n = o.map_len
  BY Zenon, <1>1
<1>3. Mult(b, PAGE_SIZE)
  <2>1. b \in Int /\ CHUNK_SIZE \in Int /\ PAGE_SIZE \in Int
    BY Constants
  <2> QED BY Zenon, <1>1, <1>2, <2>1, Constants, MultTransitive DEF ObjOK
<1>4. ASSUME ~Off(a, len, b, n) PROVE FALSE
  <2>1. PICK x \in Nat : (x = a \/ x = b) /\ a <= x /\ b <= x /\ x < a + len /\ x < b + n
    BY <1>4 DEF Off
  <2>2. x \in Int /\ PAGE_SIZE \in Nat \ {0} /\ x < SpaceEnd
    BY <1>1, <1>2, <2>1, Constants DEF ObjOK
  <2>3. x % PAGE_SIZE = 0
    BY Zenon, <1>3, <2>1, <2>2, MultMod
  <2>4. x \in PageStarts
    BY <2>2, <2>1, <2>3, Constants DEF PageStarts
  <2>5. x \in Span(a, len) /\ x \in Span(b, n)
    BY <2>1, <2>4 DEF Span
  <2>6. x \in MappedPages
    BY Zenon, <1>2, <2>5 DEF MappedPages
  <2> QED BY Zenon, <2>5, <2>6 DEF Free
<1> QED BY Zenon, <1>2, <1>4

-----------------------------------------------------------------------------
(* What the operations on large objects do *)

\* The larger of two units is a unit, and a multiple of the smaller.
LEMMA UnitFacts ==
  ASSUME NEW a \in Units, NEW b \in Units
  PROVE  /\ a \in Nat \ {0} /\ a < SizeT
         /\ MaxOf(a, b) \in Units /\ MaxOf(a, b) >= a /\ MaxOf(a, b) >= b
         /\ Mult(MaxOf(a, b), a) /\ Mult(MaxOf(a, b), b)
<1>1. \A x \in Units : x \in Nat \ {0} /\ x < SizeT
  BY PowersOfTwo, Constants
<1>2. MaxOf(a, b) \in {a, b} /\ MaxOf(a, b) >= a /\ MaxOf(a, b) >= b
  BY <1>1 DEF MaxOf
<1>3. MaxOf(a, b) % a = 0 /\ MaxOf(a, b) % b = 0
  BY <1>1, <1>2, PowersOfTwo
<1>4. MaxOf(a, b) \in Int /\ a \in Nat \ {0} /\ b \in Nat \ {0}
  BY <1>1, <1>2
<1>5. Mult(MaxOf(a, b), a) /\ Mult(MaxOf(a, b), b)
  BY Zenon, <1>3, <1>4, MultMod
<1> QED BY Zenon, <1>1, <1>2, <1>5

\* The sizes of pages, regions and the default alignment are units.
LEMMA KnownUnits == ALIGNMENT \in Units /\ PAGE_SIZE \in Units /\ CHUNK_SIZE \in Units
BY Zenon DEF Units

\* A mapping has whole pages.
LEMMA MapLenFacts ==
  ASSUME NEW off \in Nat, NEW size \in Nat
  PROVE  MapLen(off, size) \in Nat /\ MapLen(off, size) < SizeT /\ Mult(MapLen(off, size), PAGE_SIZE)
<1>1. PICK v \in Nat : v = Wrap(off + size)
  BY WrapFacts, Constants
<1>2. round_up(v, PAGE_SIZE) \in 0..(SizeT - 1) /\ Mult(round_up(v, PAGE_SIZE), PAGE_SIZE)
  BY Zenon, Constants, RoundUp
<1>3. MapLen(off, size) = round_up(v, PAGE_SIZE)
  BY Zenon, <1>1 DEF MapLen
<1> QED BY <1>2, <1>3, Constants

\* n is the object that btm_large_alloc(size, alignment) makes.
Made(n, size, alignment) ==
  /\ n.align = MaxOf(alignment, ALIGNMENT)
  /\ n.user_off = round_up(Header, n.align)
  /\ n.map_len = MapLen(n.user_off, size) /\ n.map_len > 0
  /\ n.req_size = size
  /\ Mult(n.base, BaseAlign(n.align))

\* n comes beside the objects os.
Comes(n, os) == n \in Objects /\ ObjOK(n) /\ \A o \in os : Beside(o, n)

\* btm_large_alloc: the part that stays of the surplus mapping starts at a region
\* boundary and is as long as it has to be.
LEMMA AllocFacts ==
  ASSUME LInv, NEW size \in Nat, NEW alignment \in Units, btm_large_alloc(size, alignment)
  PROVE  \E n : /\ Comes(n, objs) /\ Made(n, size, alignment)
                /\ objs' = objs \cup {n}
                /\ registry' = btm_registry_insert(registry, n.base, n.map_len)
<1>1. PICK a \in Units : a = MaxOf(alignment, ALIGNMENT)
  BY Zenon, UnitFacts, KnownUnits
<1>2. a \in Nat \ {0}
  BY Zenon, UnitFacts
<1>3. PICK hdr \in Nat : hdr = round_up(Header, a)
  <2>1. Header \in Nat /\ SizeT \in Nat
    BY Constants
  <2>2. round_up(Header, a) \in 0..(SizeT - 1)
    BY Zenon, <1>2, <2>1, RoundUp
  <2> QED BY <2>1, <2>2
<1>4. PICK total \in Nat : total = MapLen(hdr, size) /\ total < SizeT /\ Mult(total, PAGE_SIZE)
  BY Zenon, MapLenFacts
<1>5. PICK balign \in Units : balign = BaseAlign(a) /\ Mult(balign, CHUNK_SIZE)
  BY Zenon, UnitFacts, KnownUnits DEF BaseAlign
<1>6. balign \in Nat \ {0} /\ balign < SizeT
  BY Zenon, UnitFacts
<1>7. PICK wanted : wanted = Wrap(total + balign)
  BY Zenon
<1>8. /\ total \in 1..wanted
      /\ \E raw \in PageStarts :
           /\ Free(raw, wanted)
           /\ objs' = objs \cup {[base |-> round_up(raw, balign), map_len |-> total, user_off |-> hdr,
                                  req_size |-> size, align |-> a]}
           /\ registry' = btm_registry_insert(registry, round_up(raw, balign), total)
  BY Zenon, <1>1, <1>3, <1>4, <1>5, <1>7 DEF btm_large_alloc
<1>9. PICK raw \in PageStarts :
        /\ Free(raw, wanted)
        /\ objs' = objs \cup {[base |-> round_up(raw, balign), map_len |-> total, user_off |-> hdr,
                               req_size |-> size, align |-> a]}
        /\ registry' = btm_registry_insert(registry, round_up(raw, balign), total)
  BY Zenon, <1>8
<1>10. total > 0 /\ wanted = total + balign /\ wanted \in Nat
  <2>1. PICK s \in Nat : s = total + balign /\ s < SizeT + SizeT
    BY <1>4, <1>6, Constants
  <2>2. s < SizeT => wanted = s
    BY Zenon, <1>7, <2>1, WrapFacts
  <2>3. s >= SizeT => wanted = s - SizeT
    BY Zenon, <1>7, <2>1, WrapFacts
  <2>4. s < SizeT \/ s >= SizeT
    BY <2>1, Constants
  <2> QED BY <1>4, <1>6, <1>8, <2>1, <2>2, <2>3, <2>4, Constants
<1>11. raw \in Nat /\ raw % PAGE_SIZE = 0 /\ raw + wanted <= SpaceEnd
  BY <1>9 DEF PageStarts, Free
<1>12. PICK base \in Nat : /\ base = round_up(raw, balign) /\ raw <= base /\ base < raw + balign
                           /\ Mult(base, balign)
  <2>1. raw + balign - 1 < SizeT
    BY <1>6, <1>10, <1>11, Constants
  <2>2. /\ round_up(raw, balign) \in 0..(SizeT - 1) /\ Mult(round_up(raw, balign), balign)
        /\ raw <= round_up(raw, balign) /\ round_up(raw, balign) < raw + balign
    BY Zenon, <1>6, <1>11, <2>1, RoundUp
  <2> QED BY <2>2, Constants
<1> DEFINE n == [base |-> base, map_len |-> total, user_off |-> hdr, req_size |-> size, align |-> a]
<1>13. n \in Objects
  BY <1>2 DEF Objects
<1>14. ObjOK(n)
  <2>1. base + total <= SpaceEnd
    BY <1>6, <1>10, <1>11, <1>12, Constants
  <2>2. base \in Int /\ balign \in Int /\ CHUNK_SIZE \in Int
    BY <1>6, Constants
  <2>3. Mult(base, CHUNK_SIZE)
    BY Zenon, <1>5, <1>12, <2>2, MultTransitive
  <2> QED BY Zenon, <1>4, <2>1, <2>3 DEF ObjOK
<1>15. ASSUME NEW o \in objs PROVE Beside(o, n)
  <2>1. o.base \in Nat /\ o.map_len \in Nat
    BY DEF LInv, Placed, Objects
  <2>2. Mult(raw, PAGE_SIZE)
    <3>1. raw \in Int /\ PAGE_SIZE \in Nat \ {0}
      BY <1>11, Constants
    <3> QED BY Zenon, <1>11, <3>1, MultMod
  <2>3. Off(raw, wanted, o.base, o.map_len)
    BY Zenon, <1>9, <1>10, <1>11, <2>2, FreeBeside DEF LInv
  <2>4. raw <= base /\ base + total <= raw + wanted
    BY <1>6, <1>10, <1>11, <1>12
  <2>5. Off(base, total, o.base, o.map_len)
    BY Zenon, <1>10, <1>11, <2>1, <2>3, <2>4, OffFacts
  <2>6. Off(o.base, o.map_len, base, total)
    BY Zenon, <2>1, <2>5, OffFacts
  <2> QED BY Zenon, <2>6 DEF Beside
<1>16. Made(n, size, alignment)
  BY Zenon, <1>1, <1>3, <1>4, <1>5, <1>10, <1>12 DEF Made
<1>17. objs' = objs \cup {n} /\ registry' = btm_registry_insert(registry, n.base, n.map_len)
  BY Zenon, <1>9, <1>12
<1> QED BY Zenon, <1>13, <1>14, <1>15, <1>16, <1>17 DEF Comes

\* n is what btm_large_realloc(o, newsz) makes of o.
Resized(n, o, newsz) ==
  /\ n.user_off = o.user_off /\ n.req_size = newsz
  /\ n.map_len = MapLen(o.user_off, newsz)
  /\ n.align = ALIGNMENT \/ (n.align = o.align /\ n.base = o.base)

\* btm_large_realloc by mremap: a mapping that is cut, grows in place or moves
\* stays beside the others.
LEMMA RemapFacts ==
  ASSUME LInv, MovesAligned, NEW o \in objs, NEW newsz \in Nat, Remap(o, newsz)
  PROVE  \E n : /\ Comes(n, objs \ {o}) /\ Resized(n, o, newsz)
                /\ objs' = (objs \ {o}) \cup {n}
                /\ registry' = btm_registry_insert(btm_registry_remove(registry, o.base, o.map_len),
                                                   n.base, n.map_len)
<1>1. o \in Objects /\ ObjOK(o) /\ Placed(objs)
  BY Zenon DEF LInv, Placed
<1>2. PICK b \in Nat, m \in Nat, u \in Nat : b = o.base /\ m = o.map_len /\ u = o.user_off
  BY <1>1 DEF Objects
<1>3. PICK len \in Nat : len = MapLen(u, newsz) /\ Mult(len, PAGE_SIZE)
  BY Zenon, MapLenFacts
<1>4. PICK nb \in MremapBases(o, len) :
        /\ objs' = (objs \ {o}) \cup {[base |-> nb, map_len |-> len, user_off |-> u,
                                       req_size |-> newsz, align |-> ALIGNMENT]}
        /\ registry' = btm_registry_insert(btm_registry_remove(registry, o.base, o.map_len), nb, len)
  BY Zenon, <1>2, <1>3 DEF Remap
<1>5. Mult(b, CHUNK_SIZE) /\ Mult(b, PAGE_SIZE) /\ Mult(m, PAGE_SIZE) /\ b + m <= SpaceEnd
  <2>1. b \in Int /\ CHUNK_SIZE \in Int /\ PAGE_SIZE \in Int
    BY Constants
  <2> QED BY Zenon, <1>1, <1>2, <2>1, Constants, MultTransitive DEF ObjOK
<1>6. ASSUME NEW q \in objs \ {o}
      PROVE  q.base \in Nat /\ q.map_len \in Nat /\ Off(b, m, q.base, q.map_len)
  BY Zenon, <1>1, <1>2, <1>6 DEF Placed, Beside, Objects
<1>7. /\ nb \in Nat /\ Mult(nb, CHUNK_SIZE) /\ nb + len <= SpaceEnd
      /\ \A q \in objs \ {o} : Off(nb, len, q.base, q.map_len)
  <2>1. CASE len <= m
    <3>1. nb = b
      BY Zenon, <1>2, <1>4, <2>1 DEF MremapBases
    <3>2. b <= b /\ b + len <= b + m /\ b + len <= SpaceEnd
      BY <1>5, <2>1, Constants
    <3>3. \A q \in objs \ {o} : Off(b, len, q.base, q.map_len)
      BY Zenon, <1>6, <3>2, OffFacts
    <3> QED BY Zenon, <1>5, <3>1, <3>2, <3>3
  <2>2. CASE ~(len <= m)
    <3>1. PICK k \in Nat : k = len - m /\ m + k = len
      BY <2>2
    <3>2. /\ nb \in PageStarts
          /\ (nb = b /\ Free(b + m, k)) \/ (Free(nb, len) /\ nb % CHUNK_SIZE = 0)
      BY Zenon, <1>2, <1>4, <2>2, <3>1 DEF MremapBases
    <3>3. nb \in Nat /\ nb \in Int /\ nb % PAGE_SIZE = 0
      BY <3>2 DEF PageStarts
    <3>4. CASE nb = b /\ Free(b + m, k)
      <4>1. PICK e \in Nat : e = b + m
        OBVIOUS
      <4>2. Mult(e, PAGE_SIZE)
        <5>1. b \in Int /\ m \in Int /\ PAGE_SIZE \in Int
          BY Constants
        <5> QED BY Zenon, <1>5, <4>1, <5>1, MultSum
      <4>3. e + k <= SpaceEnd
        BY Zenon, <3>4, <4>1 DEF Free
      <4>4. b + len <= SpaceEnd
        BY <3>1, <4>1, <4>3, Constants
      <4>5. ASSUME NEW q \in objs \ {o} PROVE Off(b, len, q.base, q.map_len)
        <5>1. Off(e, k, q.base, q.map_len)
          BY Zenon, <1>1, <3>4, <4>1, <4>2, <4>5, FreeBeside
        <5>2. Off(b + m, k, q.base, q.map_len)
          BY Zenon, <4>1, <5>1
        <5>3. Off(b, m + k, q.base, q.map_len)
          BY Zenon, <1>6, <5>2, OffFacts
        <5> QED BY Zenon, <3>1, <5>3
      <4> QED BY Zenon, <1>5, <3>4, <4>4, <4>5
    <3>5. CASE Free(nb, len) /\ nb % CHUNK_SIZE = 0
      <4>1. nb + len <= SpaceEnd
        BY Zenon, <3>5 DEF Free
      <4>2. Mult(nb, CHUNK_SIZE) /\ Mult(nb, PAGE_SIZE)
        BY Zenon, <3>3, <3>5, Constants, MultMod
      <4>3. \A q \in objs \ {o} : Off(nb, len, q.base, q.map_len)
        BY Zenon, <1>1, <3>3, <3>5, <4>2, FreeBeside
      <4> QED BY Zenon, <3>3, <4>1, <4>2, <4>3
    <3> QED BY Zenon, <3>2, <3>4, <3>5
  <2> QED BY Zenon, <2>1, <2>2
<1> DEFINE n == [base |-> nb, map_len |-> len, user_off |-> u, req_size |-> newsz, align |-> ALIGNMENT]
<1>8. n \in Objects /\ n.base = nb /\ n.map_len = len
  BY Zenon, <1>7, Constants DEF Objects
<1>9. ASSUME NEW q \in objs \ {o} PROVE Beside(q, n)
  <2>1. q \in Objects
    BY Zenon, <1>1, <1>9 DEF Placed
  <2>2. Beside(n, q)
    BY Zenon, <1>7, <1>8, <1>9 DEF Beside
  <2> QED BY Zenon, <1>8, <2>1, <2>2, BesideMutual
<1>10. Comes(n, objs \ {o})
  BY Zenon, <1>3, <1>7, <1>8, <1>9 DEF Comes, ObjOK
<1>11. Resized(n, o, newsz)
  BY Zenon, <1>2, <1>3 DEF Resized
<1> QED BY Zenon, <1>4, <1>8, <1>10, <1>11

\* btm_large_realloc within the pages of the object.
LEMMA SameLengthFacts ==
  ASSUME LInv, NEW o \in objs, NEW newsz \in Nat, SameLength(o, newsz)
  PROVE  \E n : /\ Comes(n, objs \ {o}) /\ Resized(n, o, newsz)
                /\ n.base = o.base /\ n.map_len = o.map_len
                /\ objs' = (objs \ {o}) \cup {n} /\ registry' = registry
<1> DEFINE n == [o EXCEPT !.req_size = newsz]
<1>1. o \in Objects /\ ObjOK(o) /\ \A q \in objs \ {o} : Beside(q, o)
  BY Zenon DEF LInv, Placed
<1>2. /\ n \in Objects /\ n.base = o.base /\ n.map_len = o.map_len /\ n.user_off = o.user_off
      /\ n.req_size = newsz /\ n.align = o.align
  BY <1>1 DEF Objects
<1>3. n.map_len = MapLen(o.user_off, newsz) /\ objs' = (objs \ {o}) \cup {n} /\ registry' = registry
  BY Zenon, <1>2 DEF SameLength
<1> HIDE DEF n
<1>4. Comes(n, objs \ {o})
  BY Zenon, <1>1, <1>2 DEF Comes, ObjOK, Beside
<1>5. Resized(n, o, newsz)
  BY Zenon, <1>2, <1>3 DEF Resized
<1> QED BY Zenon, <1>2, <1>3, <1>4, <1>5

-----------------------------------------------------------------------------
(* What every call does to the large objects *)

\* The sizes that btm_large_alloc and btm_large_realloc are called with: those
\* asked for, products that do not overflow and sizes rounded up to pages.
Products == {z \in 0..(SizeT - 1) : \E n \in Counts, size \in Sizes : z = n * size}
Requests == Sizes \cup Products \cup {round_up(size, PAGE_SIZE) : size \in Sizes}

LStep ==
  \/ UNCHANGED <<objs, registry>>
  \/ \E size \in Requests, alignment \in Units : btm_large_alloc(size, alignment)
  \/ \E o \in objs : btm_large_free(o)
  \/ \E o \in objs, newsz \in Requests : btm_large_realloc(o, newsz)

\* Requests are numbers, and a product that passes __builtin_mul_overflow is what
\* is asked for.
LEMMA RequestFacts ==
  /\ Requests \subseteq Nat
  /\ \A size \in Sizes : size \in Requests /\ round_up(size, PAGE_SIZE) \in Requests
  /\ \A n \in Counts, size \in Sizes :
       ~Overflows(n, size) => Wrap(n * size) = n * size /\ n * size \in Requests
<1>1. \A size \in Sizes : size \in Nat
  BY LargeAssumption, Constants
<1>2. \A n \in Counts, size \in Sizes : n * size \in Nat
  BY <1>1, CallsAssumption
<1>3. ASSUME NEW size \in Sizes PROVE round_up(size, PAGE_SIZE) \in Nat
  <2>1. round_up(size, PAGE_SIZE) \in 0..(SizeT - 1)
    BY Zenon, <1>1, Constants, RoundUp
  <2> QED BY <2>1, Constants
<1>4. ASSUME NEW n \in Counts, NEW size \in Sizes, ~Overflows(n, size)
      PROVE  Wrap(n * size) = n * size /\ n * size \in Requests
  <2>1. PICK z \in Nat : z = n * size
    BY Zenon, <1>2
  <2>2. z < SizeT /\ z \in 0..(SizeT - 1)
    BY <1>4, <2>1, Constants DEF Overflows
  <2>3. Wrap(z) = z
    BY Zenon, <2>2, WrapFacts
  <2>4. z \in Requests
    BY Zenon, <2>1, <2>2 DEF Requests, Products
  <2> QED BY Zenon, <2>1, <2>3, <2>4
<1>5. Requests \subseteq Nat
  <2>1. Products \subseteq Nat
    BY Constants DEF Products
  <2> QED BY Zenon, <1>1, <1>3, <2>1 DEF Requests
<1> QED BY Zenon, <1>4, <1>5 DEF Requests

\* The placement of the objects and their entries survive every operation.
LEMMA LargeKept ==
  ASSUME LInv, MovesAligned, LStep
  PROVE  LInv'
<1>1. CASE UNCHANGED <<objs, registry>>
  BY Zenon, <1>1 DEF LInv, Placed, Entered
<1>2. ASSUME NEW size \in Requests, NEW alignment \in Units, btm_large_alloc(size, alignment)
      PROVE  LInv'
  <2>1. PICK n : /\ Comes(n, objs) /\ objs' = objs \cup {n}
                 /\ registry' = btm_registry_insert(registry, n.base, n.map_len)
    BY Zenon, <1>2, RequestFacts, AllocFacts
  <2>2. Placed(objs')
    BY Zenon, <2>1, PlacedMore DEF LInv, Comes
  <2>3. Entered(objs', registry')
    BY Zenon, <2>1, EnteredMore DEF LInv, Comes
  <2> QED BY Zenon, <2>2, <2>3 DEF LInv, Placed, Entered
<1>3. ASSUME NEW o \in objs, btm_large_free(o) PROVE LInv'
  <2>1. Placed(objs')
    BY Zenon, <1>3, PlacedLess DEF LInv, btm_large_free
  <2>2. Entered(objs', registry')
    BY Zenon, <1>3, EnteredLess DEF LInv, btm_large_free
  <2> QED BY Zenon, <2>1, <2>2 DEF LInv, Placed, Entered
<1>4. ASSUME NEW o \in objs, NEW newsz \in Requests, btm_large_realloc(o, newsz) PROVE LInv'
  <2>1. Placed(objs \ {o}) /\ Entered(objs \ {o}, btm_registry_remove(registry, o.base, o.map_len))
    BY Zenon, <1>4, PlacedLess, EnteredLess DEF LInv
  <2>2. ASSUME NEW n, Comes(n, objs \ {o}), objs' = (objs \ {o}) \cup {n},
               registry' = btm_registry_insert(btm_registry_remove(registry, o.base, o.map_len),
                                               n.base, n.map_len)
        PROVE  LInv'
    <3>1. Placed(objs')
      BY Zenon, <2>1, <2>2, PlacedMore DEF Comes
    <3>2. Entered(objs', registry')
      BY Zenon, <2>1, <2>2, EnteredMore DEF Comes
    <3> QED BY Zenon, <3>1, <3>2 DEF LInv, Placed, Entered
  <2>3. CASE Remap(o, newsz)
    BY Zenon, <1>4, <2>2, <2>3, RequestFacts, RemapFacts
  <2>4. CASE SameLength(o, newsz)
    <3>1. PICK n : /\ Comes(n, objs \ {o}) /\ n.base = o.base /\ n.map_len = o.map_len
                   /\ objs' = (objs \ {o}) \cup {n} /\ registry' = registry
      BY Zenon, <1>4, <2>4, RequestFacts, SameLengthFacts
    <3>2. Placed(objs')
      BY Zenon, <2>1, <3>1, PlacedMore DEF Comes
    <3>3. Entered(objs', registry')
      BY ZenonT(40), <1>4, <3>1 DEF LInv, Entered
    <3> QED BY Zenon, <3>2, <3>3 DEF LInv, Placed, Entered
  <2>5. CASE RemapFails(o, newsz)
    <3>1. Comes(o, objs \ {o})
      BY Zenon, <1>4 DEF LInv, Placed, Comes
    <3>2. objs' = (objs \ {o}) \cup {o}
      BY Zenon, <1>4, <2>5 DEF RemapFails
    <3> QED BY Zenon, <2>2, <2>5, <3>1, <3>2 DEF RemapFails
  <2> QED BY Zenon, <1>4, <2>3, <2>4, <2>5 DEF btm_large_realloc
<1> QED BY Zenon, <1>1, <1>2, <1>3, <1>4 DEF LStep

\* A call allocates, frees or resizes at most one large object.
LEMMA CallsLarge ==
  ASSUME CallsNext
  PROVE  LStep
<1>1. \A p : Owner(p) \subseteq objs
  BY Zenon DEF Owner
<1>2. UNCHANGED vars => LStep
  BY Zenon DEF vars, LStep
<1>3. ASSUME NEW size \in Requests, NEW alignment \in Units, NEW asked,
             AllocSmall(size, asked) \/ AllocLarge(size, alignment, asked)
      PROVE  LStep
  BY Zenon, <1>2, <1>3 DEF AllocSmall, AllocLarge, LStep
<1>4. ASSUME NEW size \in Requests, btm_malloc(size) PROVE LStep
  BY Zenon, <1>3, <1>4, KnownUnits DEF btm_malloc
<1>5. ASSUME NEW size \in Requests, NEW alignment \in Alignments \cup {PAGE_SIZE}, NEW strict,
             btm_aligned(alignment, size, strict)
      PROVE  LStep
  <2>1. alignment \in Units
    BY Zenon, <1>5, KnownUnits DEF btm_aligned, Units
  <2> QED BY Zenon, <1>3, <1>4, <1>5, <2>1 DEF btm_aligned
<1>6. ASSUME NEW p, btm_free(p) PROVE LStep
  BY Zenon, <1>1, <1>2, <1>6 DEF btm_free, FreeSmall, FreeLarge, LStep
<1>7. ASSUME NEW p, NEW size \in Requests, NEW asked, btm_realloc(p, size, asked) PROVE LStep
  <2>1. CASE btm_free(p)
    BY Zenon, <1>6, <2>1
  <2>2. CASE SameClass(p, size, asked)
    BY Zenon, <1>2, <2>2 DEF SameClass
  <2>3. CASE ToSmall(p, size, asked)
    BY Zenon, <1>1, <1>2, <2>3 DEF ToSmall, LStep
  <2>4. CASE SmallToLarge(p, size, asked)
    BY Zenon, <2>4, KnownUnits DEF SmallToLarge, LStep
  <2>5. CASE LargeToLarge(p, size, asked)
    BY Zenon, <1>1, <2>5 DEF LargeToLarge, LStep
  <2> QED BY Zenon, <1>7, <2>1, <2>2, <2>3, <2>4, <2>5 DEF btm_realloc
<1>8. ASSUME NEW n \in Counts, NEW size \in Sizes, btm_calloc(n, size) PROVE LStep
  <2>1. Wrap(n * size) \in Requests
    BY Zenon, <1>8, RequestFacts DEF btm_calloc
  <2> QED BY Zenon, <1>3, <1>8, <2>1, KnownUnits DEF btm_calloc
<1>9. ASSUME NEW p, NEW n \in Counts, NEW size \in Sizes, btm_reallocarray(p, n, size) PROVE LStep
  <2>1. Wrap(n * size) \in Requests
    BY Zenon, <1>9, RequestFacts DEF btm_reallocarray
  <2> QED BY Zenon, <1>7, <1>9, <2>1 DEF btm_reallocarray
<1>10. ASSUME NEW size \in Sizes, valloc(size) PROVE LStep
  BY Zenon, <1>5, <1>10, RequestFacts DEF valloc
<1>11. ASSUME NEW page, ForeignMap(page) \/ ForeignUnmap(page) PROVE LStep
  BY Zenon, <1>11 DEF ForeignMap, ForeignUnmap, LStep
<1> QED BY Zenon, <1>4, <1>5, <1>6, <1>8, <1>9, <1>10, <1>11, RequestFacts DEF CallsNext

-----------------------------------------------------------------------------
(* The room that a large object has *)

\* No size that btm_large_alloc and btm_large_realloc compute exceeds size_t.
NoWrap == \A z \in Requests, a \in Units : z + Header + a + PAGE_SIZE <= SizeT

\* A large object: its header, the bytes asked for, aligned.
Fit(o) ==
  /\ o.user_off >= Header /\ \E a \in Units : o.user_off < Header + a
  /\ o.req_size # 0 /\ o.user_off + o.req_size <= o.map_len
  /\ o.align # 0 /\ Mult(o.base, o.align) /\ Mult(o.user_off, o.align)
  /\ Mult(o.user_off, ALIGNMENT)

FInv == \A o \in objs : Fit(o)

\* The program's view: what an entry says of an object with room bytes.
Good(e, room) ==
  /\ e \in [asked : Nat, relied : Nat, data : Nat]
  /\ e.relied <= e.asked /\ e.relied <= e.data
  /\ e.asked <= room /\ e.data <= room

Room(o) == o.map_len - o.user_off

Pointers(os) == {Ptr(o) : o \in os}

HInv(tk, os, h) ==
  /\ tk \subseteq Classes \X (1..NSmall)
  /\ DOMAIN h = tk \cup Pointers(os)
  /\ \A p \in tk : Good(h[p], sc_to_size[p[1]])
  /\ \A o \in os : Good(h[Ptr(o)], Room(o))

CInv == LInv /\ FInv /\ HInv(taken, objs, held)

\* Every page of an object leads to its header.
LEMMA Found ==
  ASSUME LInv
  PROVE  OwnerFound /\ RegistryClean
<1>1. ASSUME NEW o \in objs, NEW p \in Span(o.base, o.map_len)
      PROVE  registry[p \div CHUNK_SIZE] = o.base
  <2>1. o.base \in Nat /\ o.map_len \in Nat /\ o.base + o.map_len <= SpaceEnd
    BY DEF LInv, Placed, Objects, ObjOK
  <2>2. p \in o.base..(o.base + o.map_len - 1)
    BY <1>1, <2>1, Constants DEF Span, PageStarts
  <2>3. p \div CHUNK_SIZE \in RegionsOf(o.base, o.map_len)
    BY Zenon, <2>1, <2>2, ByteInRegion
  <2> QED BY Zenon, <1>1, <2>3 DEF LInv, Entered
<1> QED BY Zenon, <1>1 DEF OwnerFound, RegistryClean, LInv, Entered

\* The pages that are mapped are enough for what stands in front and the request.
LEMMA RoomFacts ==
  ASSUME NoWrap, NEW z \in Requests, NEW a \in Units, NEW off \in Nat, off < Header + a
  PROVE  off + z <= MapLen(off, z)
<1>1. z \in Nat /\ a \in Nat
  BY Zenon, RequestFacts, UnitFacts
<1>2. z + Header + a + PAGE_SIZE <= SizeT
  BY Zenon DEF NoWrap
<1>3. PICK v \in Nat : v = off + z /\ v < SizeT /\ v + PAGE_SIZE - 1 < SizeT
  BY <1>1, <1>2, Constants
<1>4. Wrap(v) = v
  BY Zenon, <1>3, WrapFacts
<1>5. v <= round_up(v, PAGE_SIZE)
  BY Zenon, <1>3, Constants, RoundUp
<1> QED BY Zenon, <1>3, <1>4, <1>5 DEF MapLen

\* btm_large_alloc makes an object that fits.
LEMMA MadeFits ==
  ASSUME NoWrap, NEW size \in Requests, size # 0, NEW alignment \in Units,
         NEW n \in Objects, Made(n, size, alignment)
  PROVE  Fit(n)
<1>1. PICK a \in Units : a = n.align /\ a \in Nat \ {0} /\ Mult(a, ALIGNMENT)
  BY Zenon, UnitFacts, KnownUnits DEF Made
<1>2. PICK u \in Nat : u = n.user_off /\ u = round_up(Header, a)
  BY Zenon, <1>1 DEF Made, Objects
<1>3. Mult(u, a) /\ Header <= u /\ u < Header + a
  <2>1. Header + a - 1 < SizeT
    <3>1. size \in Nat /\ size + Header + a + PAGE_SIZE <= SizeT
      BY Zenon, RequestFacts DEF NoWrap
    <3> QED BY <1>1, <3>1, Constants
  <2>2. Header \in Nat
    BY Constants
  <2> QED BY Zenon, <1>1, <1>2, <2>1, <2>2, RoundUp
<1>4. u + size <= n.map_len
  BY Zenon, <1>2, <1>3, RoomFacts DEF Made
<1>5. a \in Int /\ u \in Int /\ ALIGNMENT \in Int /\ n.base \in Int
  BY <1>1, Constants DEF Objects
<1>6. Mult(u, ALIGNMENT)
  BY Zenon, <1>1, <1>3, <1>5, MultTransitive
<1>7. Mult(n.base, a)
  <2>1. Mult(BaseAlign(a), a) /\ BaseAlign(a) \in Units
    BY Zenon, KnownUnits, UnitFacts DEF BaseAlign
  <2>2. BaseAlign(a) \in Nat
    BY Zenon, <2>1, UnitFacts
  <2>3. BaseAlign(a) \in Int
    BY <2>2
  <2>4. Mult(n.base, BaseAlign(a))
    BY Zenon, <1>1 DEF Made
  <2> QED BY Zenon, <1>5, <2>1, <2>3, <2>4, MultTransitive
<1>8. Header <= u => u >= Header
  BY <1>5, Constants
<1>9. n.req_size # 0 /\ u + n.req_size <= n.map_len
  BY Zenon, <1>4 DEF Made
<1>10. a # 0
  BY Zenon, <1>1
<1> QED BY Zenon, <1>1, <1>2, <1>3, <1>6, <1>7, <1>8, <1>9, <1>10 DEF Fit

\* btm_large_realloc makes an object that fits of one that did.
LEMMA ResizedFits ==
  ASSUME NoWrap, NEW newsz \in Requests, newsz # 0, NEW o \in Objects, Fit(o),
         NEW n \in Objects, ObjOK(n), Resized(n, o, newsz)
  PROVE  Fit(n)
<1>1. PICK u \in Nat : u = o.user_off /\ u = n.user_off
  BY Zenon DEF Resized, Objects
<1>2. PICK a \in Units : u < Header + a
  BY Zenon, <1>1 DEF Fit
<1>3. u + newsz <= n.map_len
  BY Zenon, <1>1, <1>2, RoomFacts DEF Resized
<1>4. n.align # 0 /\ Mult(n.base, n.align) /\ Mult(u, n.align)
  <2>1. CASE n.align = ALIGNMENT
    <3>1. Mult(CHUNK_SIZE, ALIGNMENT)
      <4>1. CHUNK_SIZE % ALIGNMENT = 0
        BY Zenon, PowersOfTwo, KnownUnits
      <4>2. CHUNK_SIZE \in Int /\ ALIGNMENT \in Nat \ {0}
        BY Constants
      <4> QED BY Zenon, <4>1, <4>2, MultMod
    <3>2. n.base \in Int /\ CHUNK_SIZE \in Int /\ ALIGNMENT \in Int /\ ALIGNMENT # 0
      BY Constants DEF Objects
    <3>3. Mult(n.base, ALIGNMENT)
      BY Zenon, <3>1, <3>2, MultTransitive DEF ObjOK
    <3> QED BY Zenon, <1>1, <2>1, <3>2, <3>3 DEF Fit
  <2>2. CASE n.align = o.align /\ n.base = o.base
    BY Zenon, <1>1, <2>2 DEF Fit
  <2> QED BY Zenon, <2>1, <2>2 DEF Resized
<1> QED BY Zenon, <1>1, <1>2, <1>3, <1>4 DEF Fit, Resized

\* The user pointer lies within the mapping, with room for the request behind it.
LEMMA FitRoom ==
  ASSUME NEW o \in Objects, Fit(o)
  PROVE  /\ Room(o) \in Nat /\ o.req_size <= Room(o) /\ Usable(o, Ptr(o)) = Room(o)
         /\ o.base + o.user_off \in o.base..(o.base + o.map_len - 1)
         /\ o.map_len # 0
<1>1. PICK b \in Nat, m \in Nat, u \in Nat, s \in Nat :
        b = o.base /\ m = o.map_len /\ u = o.user_off /\ s = o.req_size
  BY DEF Objects
<1>2. s # 0 /\ u + s <= m
  BY Zenon, <1>1 DEF Fit
<1>3. Ptr(o)[1] = b + u
  BY <1>1 DEF Ptr
<1>4. Usable(o, Ptr(o)) = m - ((b + u) - b)
  BY Zenon, <1>1, <1>3 DEF Usable
<1>5. Room(o) = m - u
  BY Zenon, <1>1 DEF Room
<1> QED BY <1>1, <1>2, <1>4, <1>5

\* Objects beside one another are different and have different pointers.
LEMMA PtrApart ==
  ASSUME NEW o \in Objects, NEW q \in Objects, Fit(o), Fit(q), Beside(o, q)
  PROVE  o # q /\ Ptr(o) # Ptr(q) /\ o.base # q.base
<1>1. PICK b \in Nat, m \in Nat, x \in Int : b = o.base /\ m = o.map_len /\ x = o.base + o.user_off
  BY DEF Objects
<1>2. PICK c \in Nat, k \in Nat, y \in Int : c = q.base /\ k = q.map_len /\ y = q.base + q.user_off
  BY DEF Objects
<1>3. m # 0 /\ x \in b..(b + m - 1)
  BY Zenon, <1>1, FitRoom
<1>4. k # 0 /\ y \in c..(c + k - 1)
  BY Zenon, <1>2, FitRoom
<1>5. b + m <= c \/ c + k <= b
  BY Zenon, <1>1, <1>2, <1>3, <1>4 DEF Beside, Off
<1>6. x # y /\ b # c
  BY <1>3, <1>4, <1>5
<1>7. Ptr(o)[1] = x /\ Ptr(q)[1] = y
  BY <1>1, <1>2 DEF Ptr
<1> QED BY Zenon, <1>1, <1>2, <1>6, <1>7

\* btm_resolve_owner of a pointer that was given out finds its object.
LEMMA OwnerOf ==
  ASSUME LInv, FInv, NEW o \in objs
  PROVE  Owner(Ptr(o)) = {o}
<1>1. o \in Objects /\ Fit(o) /\ ObjOK(o)
  BY Zenon DEF LInv, FInv, Placed
<1>2. o.base \in Nat /\ o.map_len \in Nat /\ o.base + o.map_len <= SpaceEnd
  BY Zenon, <1>1 DEF ObjOK, Objects
<1>3. PICK x : x = o.base + o.user_off /\ x \in o.base..(o.base + o.map_len - 1)
  BY Zenon, <1>1, FitRoom
<1>4. x \div CHUNK_SIZE \in RegionsOf(o.base, o.map_len)
  BY Zenon, <1>2, <1>3, ByteInRegion
<1>5. registry[x \div CHUNK_SIZE] = o.base
  BY Zenon, <1>4 DEF LInv, Entered
<1>6. Ptr(o)[1] = x
  BY <1>3 DEF Ptr
<1>7. ASSUME NEW q \in objs, q.base = o.base PROVE q = o
  <2>1. q \in Objects /\ Fit(q)
    BY Zenon DEF LInv, FInv, Placed
  <2>2. q # o => Beside(q, o)
    BY Zenon DEF LInv, Placed
  <2> QED BY Zenon, <1>1, <1>7, <2>1, <2>2, PtrApart
<1> QED BY Zenon, <1>5, <1>6, <1>7 DEF Owner

\* btm_large_alloc adds one object that fits.
LEMMA AllocStep ==
  ASSUME LInv, FInv, NoWrap, NEW size \in Requests, NEW alignment \in Units,
         btm_large_alloc(size, alignment)
  PROVE  \E n : Comes(n, objs) /\ Fit(n) /\ n.req_size = size /\ objs' = objs \cup {n} /\ objs' \ objs = {n}
<1>1. size \in Nat /\ size # 0
  BY Zenon, RequestFacts DEF btm_large_alloc
<1>2. PICK n : Comes(n, objs) /\ Made(n, size, alignment) /\ objs' = objs \cup {n}
  BY Zenon, <1>1, AllocFacts
<1>3. n \in Objects /\ Fit(n)
  BY Zenon, <1>1, <1>2, MadeFits DEF Comes
<1>4. n \notin objs
  BY Zenon, <1>2, <1>3, PtrApart DEF Comes
<1>5. n.req_size = size
  BY Zenon, <1>2 DEF Made
<1> QED BY Zenon, <1>2, <1>3, <1>4, <1>5

\* btm_large_realloc puts one object that fits in the place of another.
LEMMA ReallocStep ==
  ASSUME LInv, FInv, NoWrap, MovesAligned, NEW o \in objs, NEW newsz \in Requests,
         btm_large_realloc(o, newsz)
  PROVE  \/ objs' = objs
         \/ \E n : /\ Comes(n, objs \ {o}) /\ Fit(n) /\ n.req_size = newsz
                   /\ objs' = (objs \ {o}) \cup {n} /\ objs' \ objs = {n}
<1>1. newsz \in Nat /\ newsz # 0
  BY Zenon, RequestFacts DEF btm_large_realloc
<1>2. ASSUME NEW n, Comes(n, objs \ {o}), Resized(n, o, newsz), objs' = (objs \ {o}) \cup {n}, objs' # objs
      PROVE  Fit(n) /\ n.req_size = newsz /\ objs' \ objs = {n}
  <2>1. n \in Objects /\ ObjOK(n) /\ o \in Objects /\ Fit(o) /\ n # o
    BY Zenon, <1>2 DEF Comes, LInv, Placed, FInv
  <2>2. Fit(n)
    BY Zenon, <1>1, <1>2, <2>1, ResizedFits
  <2>3. n \notin objs
    BY Zenon, <1>2, <2>1, <2>2, PtrApart DEF Comes
  <2> QED BY Zenon, <1>2, <2>2, <2>3 DEF Resized
<1>3. CASE Remap(o, newsz)
  BY Zenon, <1>1, <1>2, <1>3, RemapFacts
<1>4. CASE SameLength(o, newsz)
  BY Zenon, <1>1, <1>2, <1>4, SameLengthFacts
<1>5. CASE RemapFails(o, newsz)
  BY Zenon, <1>5 DEF RemapFails
<1> QED BY Zenon, <1>3, <1>4, <1>5 DEF btm_large_realloc

\* Every object fits after every call.
LEMMA FitsKept ==
  ASSUME LInv, FInv, NoWrap, MovesAligned, LStep
  PROVE  FInv'
<1>1. CASE UNCHANGED <<objs, registry>>
  BY Zenon, <1>1 DEF FInv
<1>2. ASSUME NEW size \in Requests, NEW alignment \in Units, btm_large_alloc(size, alignment)
      PROVE  FInv'
  BY Zenon, <1>2, AllocStep DEF FInv
<1>3. ASSUME NEW o \in objs, btm_large_free(o) PROVE FInv'
  BY Zenon, <1>3 DEF FInv, btm_large_free
<1>4. ASSUME NEW o \in objs, NEW newsz \in Requests, btm_large_realloc(o, newsz) PROVE FInv'
  <2>1. CASE objs' = objs
    BY Zenon, <2>1 DEF FInv
  <2>2. CASE objs' # objs
    BY ZenonT(40), <1>4, <2>2, ReallocStep DEF FInv
  <2> QED BY Zenon, <2>1, <2>2
<1> QED BY Zenon, <1>1, <1>2, <1>3, <1>4 DEF LStep

-----------------------------------------------------------------------------
(* What the program holds *)

Drop(h, p) == [q \in DOMAIN h \ {p} |-> h[q]]

\* What a reallocation makes of an entry.
Carried(e, old, cap, asked, copied) ==
  [asked |-> asked, relied |-> MinOf(e.relied, asked),
   data |-> IF copied <= MinOf(old, cap) THEN MinOf(e.data, copied) ELSE 0]

\* Pointers to small and to large objects differ.
LEMMA SmallOrLarge ==
  ASSUME NEW p \in Classes \X (1..NSmall), NEW o
  PROVE  p # Ptr(o)
BY DEF Ptr

\* The pointers to objects.
LEMMA PointersFacts == \A os, q : q \in Pointers(os) <=> \E o \in os : q = Ptr(o)
BY Zenon DEF Pointers

\* What an entry is after Drop.
LEMMA DropFacts ==
  ASSUME NEW h, NEW p
  PROVE  /\ DOMAIN Drop(h, p) = DOMAIN h \ {p}
         /\ \A q \in DOMAIN h : q # p => Drop(h, p)[q] = h[q]
BY Zenon DEF Drop

\* btm_free of a small object.
LEMMA DropSmall ==
  ASSUME NEW tk, NEW os, NEW h, HInv(tk, os, h), NEW p \in tk
  PROVE  HInv(tk \ {p}, os, Drop(h, p))
<1>1. DOMAIN h = tk \cup Pointers(os) /\ (\A o \in os : Ptr(o) \in DOMAIN h) /\ tk \subseteq DOMAIN h
  BY Zenon, PointersFacts DEF HInv
<1>2. \A o \in os : Ptr(o) # p
  BY Zenon, SmallOrLarge DEF HInv
<1>3. p \notin Pointers(os)
  BY Zenon, <1>2, PointersFacts
<1>4. PICK g : g = Drop(h, p) /\ DOMAIN g = DOMAIN h \ {p} /\ \A q \in DOMAIN h : q # p => g[q] = h[q]
  <2>1. PICK g : g = Drop(h, p)
    BY Zenon
  <2>2. DOMAIN g = DOMAIN h \ {p} /\ \A q \in DOMAIN h : q # p => g[q] = h[q]
    BY Zenon, <2>1, DropFacts
  <2> QED BY Zenon, <2>1, <2>2
<1>5. DOMAIN g = (tk \ {p}) \cup Pointers(os)
  BY <1>1, <1>3, <1>4
<1>6. \A q \in tk \ {p} : Good(g[q], sc_to_size[q[1]])
  BY Zenon, <1>1, <1>4 DEF HInv
<1>7. \A o \in os : Good(g[Ptr(o)], Room(o))
  BY Zenon, <1>1, <1>2, <1>4 DEF HInv
<1> QED BY Zenon, <1>4, <1>5, <1>6, <1>7 DEF HInv

\* btm_free of a large object.
LEMMA DropLarge ==
  ASSUME NEW tk, NEW os, NEW h, HInv(tk, os, h), NEW o \in os,
         \A q \in os \ {o} : Ptr(q) # Ptr(o)
  PROVE  HInv(tk, os \ {o}, Drop(h, Ptr(o)))
<1>1. DOMAIN h = tk \cup Pointers(os) /\ (\A q \in os : Ptr(q) \in DOMAIN h) /\ tk \subseteq DOMAIN h
  BY Zenon, PointersFacts DEF HInv
<1>2. PICK p : p = Ptr(o)
  BY Zenon
<1>3. \A q \in tk : q # p
  BY Zenon, <1>2, SmallOrLarge DEF HInv
<1>4. PICK g : g = Drop(h, p) /\ DOMAIN g = DOMAIN h \ {p} /\ \A q \in DOMAIN h : q # p => g[q] = h[q]
  <2>1. PICK g : g = Drop(h, p)
    BY Zenon
  <2>2. DOMAIN g = DOMAIN h \ {p} /\ \A q \in DOMAIN h : q # p => g[q] = h[q]
    BY Zenon, <2>1, DropFacts
  <2> QED BY Zenon, <2>1, <2>2
<1>5. ASSUME NEW q PROVE q \in Pointers(os \ {o}) <=> q \in Pointers(os) /\ q # p
  <2>1. q \in Pointers(os \ {o}) <=> \E x \in os \ {o} : q = Ptr(x)
    BY Zenon, PointersFacts
  <2>2. q \in Pointers(os) <=> \E x \in os : q = Ptr(x)
    BY Zenon, PointersFacts
  <2> QED BY Zenon, <1>2, <2>1, <2>2
<1>6. DOMAIN g = tk \cup Pointers(os \ {o})
  BY <1>1, <1>3, <1>4, <1>5
<1>7. \A q \in tk : Good(g[q], sc_to_size[q[1]])
  BY Zenon, <1>1, <1>3, <1>4 DEF HInv
<1>8. \A q \in os \ {o} : Good(g[Ptr(q)], Room(q))
  BY Zenon, <1>1, <1>2, <1>4 DEF HInv
<1> QED BY Zenon, <1>2, <1>4, <1>6, <1>7, <1>8 DEF HInv

\* A small object is given out.
LEMMA AddSmall ==
  ASSUME NEW tk, NEW os, NEW h, HInv(tk, os, h), NEW c \in Classes, NEW n \in 1..NSmall, NEW e,
         Good(e, sc_to_size[c])
  PROVE  HInv(tk \cup {<<c, n>>}, os, With(h, <<c, n>>, e))
<1>1. PICK p : p = <<c, n>> /\ p \in Classes \X (1..NSmall) /\ p[1] = c
  <2>1. <<c, n>> \in Classes \X (1..NSmall)
    BY Zenon
  <2>2. <<c, n>>[1] = c
    OBVIOUS
  <2> QED BY Zenon, <2>1, <2>2
<1>2. DOMAIN h = tk \cup Pointers(os) /\ (\A o \in os : Ptr(o) \in DOMAIN h) /\ tk \subseteq DOMAIN h
  BY Zenon, PointersFacts DEF HInv
<1>3. \A o \in os : Ptr(o) # p
  BY Zenon, <1>1, SmallOrLarge
<1>4. PICK g : /\ g = With(h, p, e) /\ DOMAIN g = DOMAIN h \cup {p} /\ g[p] = e
               /\ \A q \in DOMAIN h : q # p => g[q] = h[q]
  <2>1. PICK g : g = With(h, p, e)
    BY Zenon
  <2>2. DOMAIN g = DOMAIN h \cup {p} /\ g[p] = e /\ \A q \in DOMAIN h : q # p => g[q] = h[q]
    BY <2>1 DEF With
  <2> QED BY Zenon, <2>1, <2>2
<1>5. DOMAIN g = (tk \cup {p}) \cup Pointers(os)
  BY <1>2, <1>4
<1>6. ASSUME NEW q \in tk \cup {p} PROVE Good(g[q], sc_to_size[q[1]])
  <2>1. CASE q = p
    BY Zenon, <1>1, <1>4, <2>1
  <2>2. CASE q # p /\ q \in tk
    BY Zenon, <1>2, <1>4, <2>2 DEF HInv
  <2> QED BY Zenon, <1>6, <2>1, <2>2
<1>7. \A o \in os : Good(g[Ptr(o)], Room(o))
  BY Zenon, <1>2, <1>3, <1>4 DEF HInv
<1>8. tk \cup {p} \subseteq Classes \X (1..NSmall)
  BY Zenon, <1>1 DEF HInv
<1>9. HInv(tk \cup {p}, os, g)
  BY Zenon, <1>5, <1>6, <1>7, <1>8 DEF HInv
<1> QED BY Zenon, <1>1, <1>4, <1>9

\* A large object is given out.
LEMMA AddLarge ==
  ASSUME NEW tk, NEW os, NEW h, HInv(tk, os, h), NEW n, NEW e, \A q \in os : Ptr(q) # Ptr(n),
         Good(e, Room(n))
  PROVE  HInv(tk, os \cup {n}, With(h, Ptr(n), e))
<1>1. DOMAIN h = tk \cup Pointers(os) /\ (\A q \in os : Ptr(q) \in DOMAIN h) /\ tk \subseteq DOMAIN h
  BY Zenon, PointersFacts DEF HInv
<1>2. PICK p : p = Ptr(n)
  BY Zenon
<1>3. \A q \in tk : q # p
  BY Zenon, <1>2, SmallOrLarge DEF HInv
<1>4. PICK g : /\ g = With(h, p, e) /\ DOMAIN g = DOMAIN h \cup {p} /\ g[p] = e
               /\ \A q \in DOMAIN h : q # p => g[q] = h[q]
  <2>1. PICK g : g = With(h, p, e)
    BY Zenon
  <2>2. DOMAIN g = DOMAIN h \cup {p} /\ g[p] = e /\ \A q \in DOMAIN h : q # p => g[q] = h[q]
    BY <2>1 DEF With
  <2> QED BY Zenon, <2>1, <2>2
<1>5. ASSUME NEW q PROVE q \in Pointers(os \cup {n}) <=> q \in Pointers(os) \/ q = p
  <2>1. q \in Pointers(os \cup {n}) <=> \E x \in os \cup {n} : q = Ptr(x)
    BY Zenon, PointersFacts
  <2>2. q \in Pointers(os) <=> \E x \in os : q = Ptr(x)
    BY Zenon, PointersFacts
  <2> QED BY Zenon, <1>2, <2>1, <2>2
<1>6. DOMAIN g = tk \cup Pointers(os \cup {n})
  BY <1>1, <1>4, <1>5
<1>7. \A q \in tk : Good(g[q], sc_to_size[q[1]])
  BY Zenon, <1>1, <1>3, <1>4 DEF HInv
<1>8. ASSUME NEW q \in os \cup {n} PROVE Good(g[Ptr(q)], Room(q))
  <2>1. CASE q = n
    BY Zenon, <1>2, <1>4, <2>1
  <2>2. CASE q \in os
    BY Zenon, <1>1, <1>2, <1>4, <2>2 DEF HInv
  <2> QED BY Zenon, <1>8, <2>1, <2>2
<1>9. HInv(tk, os \cup {n}, g)
  BY Zenon, <1>6, <1>7, <1>8 DEF HInv
<1> QED BY Zenon, <1>2, <1>4, <1>9

\* A new object holds what the program puts there.
LEMMA GoodNew ==
  ASSUME NEW size \in Nat, NEW room \in Nat, size <= room
  PROVE  Good(New(size), room)
BY DEF Good, New

\* A reallocation that copies as much as both objects have in common keeps the
\* bytes that the program relies on.
LEMMA GoodCarried ==
  ASSUME NEW old \in Nat, NEW cap \in Nat, NEW e, Good(e, old), NEW asked \in Nat, asked <= cap,
         NEW copied \in Nat, copied <= old, copied <= cap,
         MinOf(e.relied, asked) <= copied
  PROVE  Good(Carried(e, old, cap, asked, copied), cap)
<1>1. PICK r \in Nat, d \in Nat : r = e.relied /\ d = e.data /\ r <= d /\ d <= old
  BY DEF Good
<1>2. Carried(e, old, cap, asked, copied) =
        [asked |-> asked, relied |-> MinOf(r, asked), data |-> MinOf(d, copied)]
  <2>1. copied <= MinOf(old, cap)
    BY DEF MinOf
  <2> QED BY Zenon, <1>1, <2>1 DEF Carried
<1>3. PICK x \in Nat, y \in Nat : x = MinOf(r, asked) /\ y = MinOf(d, copied) /\ x <= asked /\ x <= y /\ y <= cap
  BY <1>1 DEF MinOf
<1>4. Good([asked |-> asked, relied |-> x, data |-> y], cap)
  BY <1>3 DEF Good
<1> QED BY Zenon, <1>2, <1>3, <1>4

\* A pointer that the program holds is to one object, small or large.
LEMMA Holder ==
  ASSUME CInv, NEW p \in DOMAIN held
  PROVE  p \in taken \/ \E o \in objs : p = Ptr(o)
BY Zenon, PointersFacts DEF CInv, HInv

\* The object behind a small pointer: its class gives the room.
LEMMA SmallFacts ==
  ASSUME CInv, NEW p \in taken
  PROVE  /\ IsSmall(p) /\ p[1] \in Classes /\ sc_to_size[p[1]] \in Nat
         /\ Good(held[p], sc_to_size[p[1]]) /\ btm_malloc_usable_size(p) = sc_to_size[p[1]]
         /\ HInv(taken \ {p}, objs, Without(p))
<1>1. p \in Classes \X (1..NSmall) /\ Good(held[p], sc_to_size[p[1]])
  BY Zenon DEF CInv, HInv
<1>2. p[1] \in Classes
  BY <1>1
<1>3. sc_to_size[p[1]] \in Nat
  BY <1>2, CallsAssumption DEF Classes
<1>4. IsSmall(p) /\ btm_malloc_usable_size(p) = sc_to_size[p[1]]
  BY Zenon DEF IsSmall, btm_malloc_usable_size
<1>5. HInv(taken \ {p}, objs, Drop(held, p))
  BY Zenon, DropSmall DEF CInv
<1> QED BY Zenon, <1>1, <1>2, <1>3, <1>4, <1>5 DEF Drop, Without

\* The object behind a large pointer, which btm_resolve_owner finds.
LEMMA LargeFacts ==
  ASSUME CInv, NEW o \in objs
  PROVE  /\ ~IsSmall(Ptr(o)) /\ Owner(Ptr(o)) = {o} /\ o \in Objects /\ Fit(o)
         /\ Room(o) \in Nat /\ Usable(o, Ptr(o)) = Room(o)
         /\ Good(held[Ptr(o)], Room(o)) /\ btm_malloc_usable_size(Ptr(o)) = Room(o)
         /\ taken \ {Ptr(o)} = taken
         /\ HInv(taken, objs \ {o}, Without(Ptr(o)))
<1>1. o \in Objects /\ Fit(o) /\ Good(held[Ptr(o)], Room(o))
  BY Zenon DEF CInv, LInv, FInv, Placed, HInv
<1>2. Owner(Ptr(o)) = {o}
  BY Zenon, OwnerOf DEF CInv
<1>3. Room(o) \in Nat /\ Usable(o, Ptr(o)) = Room(o)
  BY Zenon, <1>1, FitRoom
<1>4. ~IsSmall(Ptr(o)) /\ taken \ {Ptr(o)} = taken
  BY Zenon, SmallOrLarge DEF CInv, HInv, IsSmall
<1>5. btm_malloc_usable_size(Ptr(o)) = Room(o)
  <2>1. (CHOOSE x \in Owner(Ptr(o)) : TRUE) = o
    BY Zenon, <1>2
  <2> QED BY Zenon, <1>3, <1>4, <2>1 DEF btm_malloc_usable_size
<1>6. ASSUME NEW q \in objs \ {o} PROVE Ptr(q) # Ptr(o)
  <2>1. q \in Objects /\ Fit(q) /\ Beside(q, o)
    BY Zenon, <1>6 DEF CInv, LInv, FInv, Placed
  <2> QED BY Zenon, <1>1, <2>1, PtrApart
<1>7. HInv(taken, objs \ {o}, Drop(held, Ptr(o)))
  BY Zenon, <1>6, DropLarge DEF CInv
<1> QED BY Zenon, <1>1, <1>2, <1>3, <1>4, <1>5, <1>7 DEF Drop, Without

\* A class that fits has room.
LEMMA ClassRoom ==
  ASSUME NEW size \in Nat, NEW c \in Classes, FitsIn(size, c)
  PROVE  sc_to_size[c] \in Nat /\ size <= sc_to_size[c]
<1>1. sc_to_size[c] \in Nat
  BY CallsAssumption DEF Classes
<1> QED BY Zenon, <1>1 DEF FitsIn

\* The new object differs from all others, and the request fits.
LEMMA ComesFacts ==
  ASSUME CInv, NEW os \in SUBSET objs, NEW n, Comes(n, os), Fit(n)
  PROVE  /\ Room(n) \in Nat /\ n.req_size <= Room(n) /\ Usable(n, Ptr(n)) = Room(n)
         /\ \A q \in os : Ptr(q) # Ptr(n)
<1>1. n \in Objects
  BY Zenon DEF Comes
<1>2. ASSUME NEW q \in os PROVE Ptr(q) # Ptr(n)
  <2>1. q \in Objects /\ Fit(q) /\ Beside(q, n)
    BY Zenon, <1>2 DEF CInv, LInv, FInv, Placed, Comes
  <2> QED BY Zenon, <1>1, <2>1, PtrApart
<1> QED BY Zenon, <1>1, <1>2, FitRoom

\* What is copied is within both objects and all that counts.
LEMMA CopyFacts ==
  ASSUME NEW old \in Nat, NEW cap \in Nat, NEW e, Good(e, old), NEW size \in Nat, size <= cap
  PROVE  /\ Good(Carried(e, old, cap, size, Copied(old, size)), cap)
         /\ Good(Carried(e, old, cap, size, MinOf(old, cap)), cap)
<1>1. e.relied \in Nat /\ e.relied <= old
  BY DEF Good
<1>2. ASSUME NEW k \in Nat, k <= old, k <= cap, MinOf(old, size) <= k
      PROVE  Good(Carried(e, old, cap, size, k), cap)
  <2>1. MinOf(e.relied, size) <= k
    BY <1>1, <1>2 DEF MinOf
  <2> QED BY Zenon, <1>2, <2>1, GoodCarried
<1>3. PICK k \in Nat : k = Copied(old, size) /\ k <= old /\ k <= cap /\ MinOf(old, size) <= k
  BY DEF Copied, MinOf
<1>4. PICK m \in Nat : m = MinOf(old, cap) /\ m <= old /\ m <= cap /\ MinOf(old, size) <= m
  BY DEF MinOf
<1>5. Good(Carried(e, old, cap, size, k), cap) /\ Good(Carried(e, old, cap, size, m), cap)
  BY Zenon, <1>2, <1>3, <1>4
<1> QED BY Zenon, <1>3, <1>4, <1>5

-----------------------------------------------------------------------------
(* The calls keep what the program holds *)

HNext == HInv(taken', objs', held')

\* Allocation in a slot.
LEMMA AllocSmallKept ==
  ASSUME CInv, NEW size \in Requests, AllocSmall(size, size)
  PROVE  HNext
<1>1. PICK c \in Classes, n \in 1..NSmall :
        FitsIn(size, c) /\ taken' = taken \cup {<<c, n>>} /\ held' = With(held, <<c, n>>, New(size))
  BY Zenon DEF AllocSmall
<1>2. size \in Nat
  BY Zenon, RequestFacts
<1>3. Good(New(size), sc_to_size[c])
  BY Zenon, <1>1, <1>2, ClassRoom, GoodNew
<1>4. HInv(taken \cup {<<c, n>>}, objs, With(held, <<c, n>>, New(size)))
  BY Zenon, <1>3, AddSmall DEF CInv
<1>5. objs' = objs
  BY Zenon DEF AllocSmall, vars
<1> QED BY Zenon, <1>1, <1>4, <1>5 DEF HNext

\* Allocation of a mapping.
LEMMA AllocLargeKept ==
  ASSUME CInv, NoWrap, NEW size \in Requests, NEW alignment \in Units,
         AllocLarge(size, alignment, size)
  PROVE  HNext
<1>1. size \in Nat
  BY Zenon, RequestFacts
<1>2. PICK n : Comes(n, objs) /\ Fit(n) /\ n.req_size = size /\ objs' = objs \cup {n} /\ objs' \ objs = {n}
  BY Zenon, AllocStep DEF CInv, AllocLarge
<1>3. taken' = taken /\ held' = With(held, Ptr(n), New(size))
  BY Zenon, <1>2 DEF AllocLarge
<1>4. Room(n) \in Nat /\ size <= Room(n) /\ \A q \in objs : Ptr(q) # Ptr(n)
  BY Zenon, <1>2, ComesFacts
<1>5. Good(New(size), Room(n))
  BY Zenon, <1>1, <1>4, GoodNew
<1>6. HInv(taken, objs \cup {n}, With(held, Ptr(n), New(size)))
  BY Zenon, <1>4, <1>5, AddLarge DEF CInv
<1> QED BY Zenon, <1>2, <1>3, <1>6 DEF HNext

\* btm_free of a pointer that the program holds.
LEMMA FreeKept ==
  ASSUME CInv, NEW p \in DOMAIN held, btm_free(p)
  PROVE  HNext
<1>1. CASE p \in taken
  <2>1. taken' = taken \ {p} /\ objs' = objs /\ held' = Without(p)
    BY Zenon, <1>1 DEF btm_free, FreeSmall, FreeLarge, IsSmall, vars
  <2> QED BY Zenon, <1>1, <2>1, SmallFacts DEF HNext
<1>2. ASSUME NEW o \in objs, p = Ptr(o) PROVE HNext
  <2>1. ~IsSmall(p) /\ Owner(p) = {o} /\ HInv(taken, objs \ {o}, Without(p))
    BY Zenon, <1>2, LargeFacts
  <2>2. taken' = taken /\ objs' = objs \ {o} /\ held' = Without(p)
    BY Zenon, <2>1 DEF btm_free, FreeSmall, FreeLarge, btm_large_free
  <2> QED BY Zenon, <2>1, <2>2 DEF HNext
<1> QED BY Zenon, <1>1, <1>2, Holder

\* Reallocation within the class.
LEMMA SameClassKept ==
  ASSUME CInv, NEW p \in DOMAIN held, NEW size \in Requests, SameClass(p, size, size)
  PROVE  HNext
<1>1. p \in taken /\ FitsIn(size, p[1]) /\ taken' = taken /\ objs' = objs
  BY Zenon DEF SameClass, IsSmall, vars
<1>2. PICK cap \in Nat : cap = sc_to_size[p[1]] /\ Good(held[p], cap)
  BY Zenon, <1>1, SmallFacts
<1>3. size \in Nat /\ size <= cap
  BY Zenon, <1>1, <1>2, RequestFacts, ClassRoom, SmallFacts
<1>4. PICK d \in Nat : d = held[p].data /\ d <= cap /\ held[p].relied \in Nat /\ held[p].relied <= d
  BY <1>2 DEF Good
<1>5. MinOf(held[p].relied, size) <= d
  BY <1>3, <1>4 DEF MinOf
<1>6. Good(Carried(held[p], cap, cap, size, d), cap)
  BY Zenon, <1>2, <1>3, <1>4, <1>5, GoodCarried
<1>7. held' = With(Without(p), p, Carried(held[p], cap, cap, size, d))
  BY Zenon, <1>2, <1>4 DEF SameClass, Moved, Carried
<1>8. PICK c \in Classes, n \in 1..NSmall : p = <<c, n>> /\ p[1] = c
  <2>1. p \in Classes \X (1..NSmall)
    BY Zenon, <1>1 DEF CInv, HInv
  <2> QED BY <2>1
<1>9. HInv(taken \ {p}, objs, Without(p))
  BY Zenon, <1>1, SmallFacts
<1>10. HInv((taken \ {p}) \cup {p}, objs, With(Without(p), p, Carried(held[p], cap, cap, size, d)))
  BY Zenon, <1>2, <1>6, <1>8, <1>9, AddSmall
<1>11. (taken \ {p}) \cup {p} = taken
  BY Zenon, <1>1
<1> QED BY Zenon, <1>1, <1>7, <1>10, <1>11 DEF HNext

\* Reallocation into a slot of another class.
LEMMA ToSmallKept ==
  ASSUME CInv, NEW p \in DOMAIN held, NEW size \in Requests, ToSmall(p, size, size)
  PROVE  HNext
<1>1. size \in Nat
  BY Zenon, RequestFacts
<1>2. PICK old : /\ old = btm_malloc_usable_size(p) /\ old \in Nat /\ Good(held[p], old)
                 /\ HInv(taken \ {p}, objs', Without(p))
  <2>1. CASE p \in taken
    <3>1. objs' = objs
      BY Zenon, <2>1 DEF ToSmall, IsSmall, vars
    <3> QED BY Zenon, <2>1, <3>1, SmallFacts
  <2>2. ASSUME NEW o \in objs, p = Ptr(o)
        PROVE  /\ btm_malloc_usable_size(p) \in Nat /\ Good(held[p], btm_malloc_usable_size(p))
               /\ HInv(taken \ {p}, objs', Without(p))
    <3>1. ~IsSmall(p) /\ Owner(p) = {o} /\ taken \ {p} = taken
      BY Zenon, <2>2, LargeFacts
    <3>2. objs' = objs \ {o}
      BY Zenon, <3>1 DEF ToSmall, btm_large_free
    <3> QED BY ZenonT(40), <2>2, <3>1, <3>2, LargeFacts
  <2> QED BY Zenon, <2>1, <2>2, Holder
<1>3. PICK c \in Classes, n \in 1..NSmall :
        /\ FitsIn(size, c) /\ taken' = GivenUp(p) \cup {<<c, n>>}
        /\ held' = Moved(p, old, <<c, n>>, sc_to_size[c], size, Copied(old, size))
  BY Zenon, <1>2 DEF ToSmall
<1>4. PICK cap \in Nat : cap = sc_to_size[c] /\ size <= cap
  BY Zenon, <1>1, <1>3, ClassRoom
<1>5. PICK e : e = Carried(held[p], old, cap, size, Copied(old, size))
  BY Zenon
<1>6. Good(e, sc_to_size[c])
  BY Zenon, <1>1, <1>2, <1>4, <1>5, CopyFacts
<1>7. HInv((taken \ {p}) \cup {<<c, n>>}, objs', With(Without(p), <<c, n>>, e))
  BY Zenon, <1>2, <1>6, AddSmall
<1>8. held' = With(Without(p), <<c, n>>, e) /\ taken' = (taken \ {p}) \cup {<<c, n>>}
  BY Zenon, <1>3, <1>4, <1>5 DEF Moved, Carried, GivenUp
<1> QED BY Zenon, <1>7, <1>8 DEF HNext

\* Reallocation from a slot into a mapping.
LEMMA SmallToLargeKept ==
  ASSUME CInv, NoWrap, NEW p \in DOMAIN held, NEW size \in Requests, SmallToLarge(p, size, size)
  PROVE  HNext
<1>1. size \in Nat
  BY Zenon, RequestFacts
<1>2. p \in taken
  BY Zenon DEF SmallToLarge, IsSmall
<1>3. PICK old \in Nat : old = sc_to_size[p[1]] /\ Good(held[p], old) /\ HInv(taken \ {p}, objs, Without(p))
  BY Zenon, <1>2, SmallFacts
<1>4. PICK n : Comes(n, objs) /\ Fit(n) /\ n.req_size = size /\ objs' = objs \cup {n} /\ objs' \ objs = {n}
  BY Zenon, KnownUnits, AllocStep DEF CInv, SmallToLarge
<1>5. PICK cap \in Nat : cap = Room(n) /\ cap = Usable(n, Ptr(n)) /\ size <= cap /\ \A q \in objs : Ptr(q) # Ptr(n)
  BY Zenon, <1>4, ComesFacts
<1>6. PICK e : e = Carried(held[p], old, cap, size, Copied(old, size))
  BY Zenon
<1>7. Good(e, Room(n))
  BY Zenon, <1>1, <1>3, <1>5, <1>6, CopyFacts
<1>8. HInv(taken \ {p}, objs \cup {n}, With(Without(p), Ptr(n), e))
  BY Zenon, <1>3, <1>5, <1>7, AddLarge
<1>9. held' = With(Without(p), Ptr(n), e) /\ taken' = taken \ {p}
  BY Zenon, <1>3, <1>4, <1>5, <1>6 DEF SmallToLarge, Moved, Carried, GivenUp
<1> QED BY Zenon, <1>4, <1>8, <1>9 DEF HNext

\* Reallocation of a mapping.
LEMMA LargeToLargeKept ==
  ASSUME CInv, NoWrap, MovesAligned, NEW p \in DOMAIN held, NEW size \in Requests,
         LargeToLarge(p, size, size)
  PROVE  HNext
<1>1. size \in Nat
  BY Zenon, RequestFacts
<1>2. PICK o \in objs : p = Ptr(o)
  BY Zenon, Holder DEF LargeToLarge, IsSmall
<1>3. PICK old \in Nat : /\ old = Usable(o, p) /\ Good(held[p], old)
                         /\ HInv(taken, objs \ {o}, Without(p)) /\ Owner(p) = {o}
  BY Zenon, <1>2, LargeFacts
<1>4. /\ btm_large_realloc(o, size) /\ taken' = taken
      /\ IF objs' = objs THEN held' = held
         ELSE \E q \in objs' \ objs :
                held' = Moved(p, Usable(o, p), Ptr(q), Usable(q, Ptr(q)), size,
                              MinOf(Usable(o, p), Usable(q, Ptr(q))))
  BY Zenon, <1>3 DEF LargeToLarge
<1>5. CASE objs' = objs
  BY Zenon, <1>4, <1>5 DEF HNext, CInv
<1>6. CASE objs' # objs
  <2>1. PICK n : /\ Comes(n, objs \ {o}) /\ Fit(n) /\ n.req_size = size
                 /\ objs' = (objs \ {o}) \cup {n} /\ objs' \ objs = {n}
    BY Zenon, <1>4, <1>6, ReallocStep DEF CInv
  <2>2. objs \ {o} \in SUBSET objs
    BY Zenon
  <2>3. PICK cap \in Nat : /\ cap = Room(n) /\ cap = Usable(n, Ptr(n)) /\ size <= cap
                           /\ \A q \in objs \ {o} : Ptr(q) # Ptr(n)
    BY Zenon, <2>1, <2>2, ComesFacts
  <2>4. PICK e : e = Carried(held[p], old, cap, size, MinOf(old, cap))
    BY Zenon
  <2>5. Good(e, Room(n))
    BY Zenon, <1>1, <1>3, <2>3, <2>4, CopyFacts
  <2>6. HInv(taken, (objs \ {o}) \cup {n}, With(Without(p), Ptr(n), e))
    BY Zenon, <1>3, <2>3, <2>5, AddLarge
  <2>7. held' = With(Without(p), Ptr(n), e)
    BY Zenon, <1>3, <1>4, <1>6, <2>1, <2>3, <2>4 DEF Moved, Carried
  <2> QED BY Zenon, <1>4, <2>1, <2>6, <2>7 DEF HNext
<1> QED BY Zenon, <1>5, <1>6

\* Every step of the program and of its calls.
LEMMA CallsKept ==
  ASSUME CInv, NoWrap, MovesAligned, CallsNext
  PROVE  HNext
<1>1. ASSUME NEW size \in Requests, NEW alignment \in Units,
             AllocSmall(size, size) \/ AllocLarge(size, alignment, size)
      PROVE  HNext
  BY Zenon, <1>1, AllocSmallKept, AllocLargeKept
<1>2. ASSUME NEW size \in Requests, btm_malloc(size) PROVE HNext
  BY Zenon, <1>1, <1>2, KnownUnits DEF btm_malloc
<1>3. ASSUME NEW size \in Requests, NEW alignment \in Alignments \cup {PAGE_SIZE}, NEW strict,
             btm_aligned(alignment, size, strict)
      PROVE  HNext
  <2>1. alignment \in Units
    BY Zenon, <1>3, KnownUnits DEF btm_aligned, Units
  <2> QED BY Zenon, <1>1, <1>2, <1>3, <2>1 DEF btm_aligned
<1>4. ASSUME NEW n \in Counts, NEW size \in Sizes, btm_calloc(n, size) PROVE HNext
  <2>1. PICK z \in Requests : z = n * size /\ Wrap(n * size) = z
    BY Zenon, <1>4, RequestFacts DEF btm_calloc
  <2>2. AllocSmall(z, z) \/ AllocLarge(z, ALIGNMENT, z)
    BY Zenon, <1>4, <2>1 DEF btm_calloc
  <2> QED BY Zenon, <1>1, <2>2, KnownUnits
<1>5. ASSUME NEW p \in DOMAIN held, NEW n \in Counts, NEW size \in Sizes, btm_reallocarray(p, n, size)
      PROVE  HNext
  <2>1. PICK z \in Requests : z = n * size /\ Wrap(n * size) = z
    BY Zenon, <1>5, RequestFacts DEF btm_reallocarray
  <2>2. btm_realloc(p, z, z)
    BY Zenon, <1>5, <2>1 DEF btm_reallocarray
  <2> QED BY Zenon, <2>2, FreeKept, SameClassKept, ToSmallKept, SmallToLargeKept, LargeToLargeKept
          DEF btm_realloc
<1>6. ASSUME NEW size \in Sizes, valloc(size) PROVE HNext
  BY Zenon, <1>3, <1>6, RequestFacts DEF valloc
<1>7. ASSUME NEW page, (ForeignMap(page) \/ ForeignUnmap(page)) /\ UNCHANGED smallVars PROVE HNext
  BY Zenon, <1>7 DEF ForeignMap, ForeignUnmap, smallVars, HNext, CInv
<1> QED BY Zenon, <1>2, <1>3, <1>4, <1>5, <1>6, <1>7, FreeKept, RequestFacts DEF CallsNext

\* Nothing is allocated and nothing held at the start.
LEMMA CallsStart ==
  ASSUME CallsInit
  PROVE  CInv
<1>1. objs = {} /\ taken = {} /\ held = <<>> /\ registry = [r \in Regions |-> None]
  BY Zenon DEF CallsInit, Init
<1>2. LInv
  BY Zenon, <1>1 DEF LInv, Placed, Entered
<1>3. FInv
  BY Zenon, <1>1 DEF FInv
<1>4. DOMAIN held = {}
  BY <1>1
<1>5. Pointers(objs) = {}
  BY Zenon, <1>1 DEF Pointers
<1>6. HInv(taken, objs, held)
  BY Zenon, <1>1, <1>4, <1>5 DEF HInv
<1> QED BY Zenon, <1>2, <1>3, <1>6 DEF CInv

\* What the invariant says of the states that the program sees.
LEMMA CallsRight ==
  ASSUME CInv
  PROVE  HeldExactly /\ RequestMet /\ ContentsKept
<1>1. HeldExactly
  <2>1. DOMAIN held = taken \cup {Ptr(o) : o \in objs}
    BY Zenon DEF CInv, HInv, Pointers
  <2>2. ASSUME NEW o \in objs, NEW q \in objs, Ptr(o) = Ptr(q) PROVE o = q
    <3>1. {o} = {q}
      BY Zenon, <2>2, LargeFacts
    <3> QED BY Zenon, <3>1
  <2> QED BY Zenon, <2>1, <2>2 DEF HeldExactly
<1>2. ASSUME NEW p \in DOMAIN held
      PROVE  /\ btm_malloc_usable_size(p) >= held[p].asked
             /\ held[p].data >= held[p].relied
  <2>1. PICK room \in Nat : room = btm_malloc_usable_size(p) /\ Good(held[p], room)
    <3>1. CASE p \in taken
      BY Zenon, <3>1, SmallFacts
    <3>2. CASE \E o \in objs : p = Ptr(o)
      BY Zenon, <3>2, LargeFacts
    <3> QED BY Zenon, <3>1, <3>2, Holder
  <2>2. held[p].asked \in Nat /\ held[p].relied \in Nat /\ held[p].data \in Nat
    BY <2>1 DEF Good
  <2>3. held[p].asked <= room /\ held[p].relied <= held[p].data
    BY Zenon, <2>1 DEF Good
  <2>4. room >= held[p].asked /\ held[p].data >= held[p].relied
    BY <2>2, <2>3
  <2> QED BY Zenon, <2>1, <2>4
<1>3. ASSUME NEW o \in objs
      PROVE  /\ o.user_off >= Header /\ o.user_off + o.req_size <= o.map_len
             /\ (o.base + o.user_off) % o.align = 0
  <2>1. o \in Objects /\ Fit(o)
    BY Zenon, LargeFacts
  <2>2. o.base \in Int /\ o.user_off \in Int /\ o.align \in Nat \ {0}
    BY <2>1 DEF Objects, Fit
  <2>3. o.align \in Int
    BY <2>2
  <2>4. Mult(o.base + o.user_off, o.align)
    BY Zenon, <2>1, <2>2, <2>3, MultSum DEF Fit
  <2>5. o.base + o.user_off \in Int
    BY <2>2
  <2>6. (o.base + o.user_off) % o.align = 0
    BY Zenon, <2>2, <2>4, <2>5, MultMod
  <2> QED BY Zenon, <2>1, <2>6 DEF Fit
<1> QED BY Zenon, <1>1, <1>2, <1>3 DEF RequestMet, ContentsKept, RequestFits, PointerAligned

-----------------------------------------------------------------------------
(* The theorems *)

\* Large objects start at region boundaries, within the address space and apart
\* from one another, and the registry has exactly their regions, as long as mremap
\* moves a mapping to a region boundary only.
THEOREM LargeInvariant == ASSUME MovesAligned PROVE CallsSpec => []LInv
<1>1. CallsInit => LInv
  BY Zenon, CallsStart DEF CInv
<1>2. LInv /\ [CallsNext]_allVars => LInv'
  <2>1. LInv /\ CallsNext => LInv'
    BY Zenon, CallsLarge, LargeKept
  <2>2. LInv /\ UNCHANGED allVars => LInv'
    BY Zenon DEF allVars, vars, LInv, Placed, Entered
  <2> QED BY Zenon, <2>1, <2>2
<1> QED BY <1>1, <1>2, PTL DEF CallsSpec

\* Every interior pointer resolves to the header of its object (large.c:5).
THEOREM AlwaysOwnerFound == ASSUME MovesAligned PROVE CallsSpec => []OwnerFound
<1>1. LInv => OwnerFound
  BY Zenon, Found
<1> QED BY <1>1, LargeInvariant, PTL

\* btm_large_free and btm_large_realloc leave no entry behind.
THEOREM AlwaysRegistryClean == ASSUME MovesAligned PROVE CallsSpec => []RegistryClean
<1>1. LInv => RegistryClean
  BY Zenon, Found
<1> QED BY <1>1, LargeInvariant, PTL

\* The inductive invariant: large objects, the room they have, and what the
\* program holds, as long as no size wraps.
THEOREM CallsInvariant == ASSUME MovesAligned, NoWrap PROVE CallsSpec => []CInv
<1>1. CallsInit => CInv
  BY Zenon, CallsStart
<1>2. CInv /\ [CallsNext]_allVars => CInv'
  <2>1. ASSUME CInv, CallsNext PROVE CInv'
    <3>1. LInv' /\ FInv'
      BY Zenon, <2>1, CallsLarge, LargeKept, FitsKept DEF CInv
    <3>2. HInv(taken, objs, held)'
      BY Zenon, <2>1, CallsKept DEF HNext, HInv
    <3> QED BY Zenon, <3>1, <3>2 DEF CInv
  <2>2. ASSUME CInv, UNCHANGED allVars PROVE CInv'
    BY Zenon, <2>2 DEF allVars, vars, smallVars, CInv, LInv, FInv, HInv, Placed, Entered, Pointers
  <2> QED BY Zenon, <2>1, <2>2
<1> QED BY <1>1, <1>2, PTL DEF CallsSpec

\* No call leaks an object, frees one in use or returns one twice.
THEOREM AlwaysHeldExactly == ASSUME MovesAligned, NoWrap PROVE CallsSpec => []HeldExactly
<1>1. CInv => HeldExactly
  BY Zenon, CallsRight
<1> QED BY <1>1, CallsInvariant, PTL

\* Every object has room for the request behind its header, aligned as asked.
THEOREM AlwaysRequestMet == ASSUME MovesAligned, NoWrap PROVE CallsSpec => []RequestMet
<1>1. CInv => RequestMet
  BY Zenon, CallsRight
<1> QED BY <1>1, CallsInvariant, PTL

\* The bytes that the program relies on survive every reallocation.
THEOREM AlwaysContentsKept == ASSUME MovesAligned, NoWrap PROVE CallsSpec => []ContentsKept
<1>1. CInv => ContentsKept
  BY Zenon, CallsRight
<1> QED BY <1>1, CallsInvariant, PTL

=============================================================================
