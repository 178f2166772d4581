----------------------- MODULE MementoFilterMetadata_proof -----------------------
(***************************************************************************)
(* The calls keep the metadata exact: as long as boxes tile the runs, the  *)
(* insertions, the deletions and the bulk load leave every offset the      *)
(* spill it stands for and noccupied_slots the number of slots in use.     *)
(***************************************************************************)
EXTENDS MementoFilterQueries_proof

(***************************************************************************)
(* Sets of positions that are moved or gain a member.                      *)
(***************************************************************************)

LEMMA ImageCount ==
    ASSUME NEW S, IsFiniteSet(S), NEW h, \A x, y \in S : x # y => h[x] # h[y]
    PROVE  /\ IsFiniteSet({h[x] : x \in S})
           /\ Cardinality({h[x] : x \in S}) = Cardinality(S)
<1> DEFINE T == {h[x] : x \in S}
           f == [x \in S |-> h[x]]
<1>1. f \in Surjection(S, T) /\ f \in Injection(S, T)
  BY DEF Surjection, Injection, IsInjective
<1> HIDE DEF f, T
<1>2. IsFiniteSet(T) /\ (Cardinality(T) = Cardinality(S) <=> f \in Injection(S, T))
  BY <1>1, FS_Surjection
<1> QED
  BY <1>1, <1>2 DEF T

\* Positions that keep their order keep their number and their counts.
LEMMA Relocated ==
    ASSUME NEW S, IntegerSet(S), NEW h, \A x \in S : h[x] \in Int,
           \A x, y \in S : x < y => h[x] < h[y]
    PROVE  /\ IntegerSet({h[x] : x \in S})
           /\ Cardinality({h[x] : x \in S}) = Cardinality(S)
           /\ \A y, z \in Int : (\A x \in S : h[x] <= y <=> x <= z) =>
                UpTo({h[x] : x \in S}, y) = UpTo(S, z)
<1>1. \A x, y \in S : x # y => h[x] # h[y]
  <2>1. \A x, y \in S : x # y => x < y \/ y < x
    BY DEF IntegerSet
  <2> QED
    BY <2>1
<1>2. IsFiniteSet({h[x] : x \in S}) /\ Cardinality({h[x] : x \in S}) = Cardinality(S)
  BY <1>1, ImageCount DEF IntegerSet
<1>3. ASSUME NEW y \in Int, NEW z \in Int, \A x \in S : h[x] <= y <=> x <= z
      PROVE  UpTo({h[x] : x \in S}, y) = UpTo(S, z)
  <2> DEFINE A == {x \in S : x <= z}
  <2>1. {t \in {h[x] : x \in S} : t <= y} = {h[x] : x \in A}
    BY <1>3
  <2>2. Cardinality({h[x] : x \in A}) = Cardinality(A)
    <3>1. IsFiniteSet(A) /\ \A x, v \in A : x # v => h[x] # h[v]
      BY <1>1, FS_Subset DEF IntegerSet
    <3> HIDE DEF A
    <3> QED
      BY <3>1, ImageCount
  <2> QED
    BY <2>1, <2>2 DEF UpTo
<1> QED
  BY <1>2, <1>3 DEF IntegerSet

LEMMA Extended ==
    ASSUME NEW S, IntegerSet(S), NEW a \in Int, a \notin S
    PROVE  /\ IntegerSet(S \cup {a}) /\ Cardinality(S \cup {a}) = Cardinality(S) + 1
           /\ \A x \in Int : UpTo(S \cup {a}, x) = UpTo(S, x) + (IF a <= x THEN 1 ELSE 0)
<1>1. IntegerSet(S \cup {a}) /\ Cardinality(S \cup {a}) = Cardinality(S) + 1
  BY FS_AddElement DEF IntegerSet
<1>2. ASSUME NEW x \in Int
      PROVE  UpTo(S \cup {a}, x) = UpTo(S, x) + (IF a <= x THEN 1 ELSE 0)
  <2> DEFINE A == {y \in S : y <= x}
  <2>0. IsFiniteSet(A) /\ Cardinality(A) \in Nat
    BY UpToType DEF UpTo
  <2>1. CASE a <= x
    <3>1. {y \in S \cup {a} : y <= x} = A \cup {a} /\ a \notin A
      BY <2>1
    <3>2. Cardinality(A \cup {a}) = Cardinality(A) + 1
      <4> HIDE DEF A
      <4> QED
        BY <2>0, <3>1, FS_AddElement
    <3> QED
      BY <2>1, <3>1, <3>2 DEF UpTo
  <2>2. CASE ~ (a <= x)
    <3>1. {y \in S \cup {a} : y <= x} = A
      BY <2>2
    <3>2. UpTo(S \cup {a}, x) = Cardinality(A)
      BY <3>1 DEF UpTo
    <3> HIDE DEF A
    <3>3. UpTo(S, x) = Cardinality(A)
      BY DEF UpTo, A
    <3> QED
      BY <2>0, <2>2, <3>2, <3>3
  <2> QED
    BY <2>1, <2>2
<1> QED
  BY <1>1, <1>2

\* A member is the first point its own count is reached at.
LEMMA UpToReached ==
    ASSUME NEW S, IntegerSet(S), NEW x \in S, NEW w \in Int, w < x
    PROVE  UpTo(S, w) < UpTo(S, x)
<1>1. PICK v \in Int : v = x - 1 /\ w <= v /\ x \in Int
  BY DEF IntegerSet
<1>2. UpTo(S, x) = UpTo(S, v) + 1
  BY <1>1, UpToStep
<1>3. UpTo(S, w) <= UpTo(S, v) /\ UpTo(S, w) \in Nat /\ UpTo(S, v) \in Nat
  BY <1>1, UpToGrows, UpToType
<1> QED
  BY <1>2, <1>3

(***************************************************************************)
(* The reference reading of a table, by its last slots in use.             *)
(***************************************************************************)

\* The runend of a bucket is the one of its count.
LEMMA RunendOfIs ==
    ASSUME NEW q, IntegerSet(q.runends), NEW b \in Int, NEW e \in q.runends,
           UpTo(q.runends, e) = UpTo(q.occupieds, b)
    PROVE  RunendOf(q, b) = e
<1>1. ASSUME NEW d \in q.runends, UpTo(q.runends, d) = UpTo(q.occupieds, b)
      PROVE  d = e
  <2>1. d \in Int /\ e \in Int
    BY DEF IntegerSet
  <2>2. ~ (d < e) /\ ~ (e < d)
    <3>1. d < e => UpTo(q.runends, d) < UpTo(q.runends, e)
      BY <2>1, UpToReached
    <3>2. e < d => UpTo(q.runends, e) < UpTo(q.runends, d)
      BY <2>1, UpToReached
    <3>3. UpTo(q.runends, e) \in Nat
      BY <2>1, UpToType
    <3> QED
      BY <1>1, <3>1, <3>2, <3>3
  <2> QED
    BY <2>1, <2>2
<1> QED
  BY <1>1 DEF RunendOf

\* So is the last slot in use.
LEMMA LastUsedIs ==
    ASSUME NEW q, Paired(q), NEW b \in Int, NEW e \in q.runends, Ended(q, e) = Occupied(q, b)
    PROVE  LastUsed(q, b) = e
<1>1. e \in Int /\ e - 1 \in Int /\ e - 1 < e
  BY TableSets DEF IntegerSet
<1>2. Occupied(q, b) # 0 /\ Occupied(q, b) \in 1 .. Cardinality(q.runends)
  <2>1. Ended(q, e - 1) < Ended(q, e)
    BY <1>1, CountReached
  <2>2. Ended(q, e - 1) \in Nat /\ Occupied(q, b) \in 0 .. Cardinality(q.runends)
    BY <1>1, Counts
  <2> QED
    BY <2>1, <2>2
<1>3. LastUsed(q, b) = NthRunend(q, Occupied(q, b))
  BY <1>2, LastUsedByCount
<1>4. NthRunend(q, Occupied(q, b)) = RunendOf(q, b)
  BY DEF NthRunend, RunendOf, Ended, Occupied
<1>5. RunendOf(q, b) = e
  BY <1>1, TableSets, RunendOfIs DEF Ended, Occupied
<1> QED
  BY <1>3, <1>4, <1>5

LEMMA LastUsedGrows ==
    ASSUME NEW q, Paired(q), NEW b \in Int, NEW c \in Int, b <= c
    PROVE  /\ LastUsed(q, b) <= LastUsed(q, c)
           /\ LastUsed(q, b) \in Int /\ LastUsed(q, c) \in Int
           /\ -1 <= LastUsed(q, b) /\ LastUsed(q, c) <= EndOfBlocks - 1
<1>0. 0 \in Int /\ 0 >= -1 /\ EndOfBlocks - 1 \in Nat
  BY TableSets
<1>1. LastUsed(q, b) \in -1 .. EndOfBlocks - 1 /\ LastUsed(q, c) \in -1 .. EndOfBlocks - 1
  BY <1>0, LastUsedAt
<1>2. PICK l \in Int : l = LastUsed(q, c) /\ l >= -1 /\ l <= l
  BY <1>0, <1>1
<1>3. Occupied(q, c) <= Ended(q, l)
  BY <1>2, LastUsedAt
<1>4. Occupied(q, b) <= Occupied(q, c)
  BY CountsGrow
<1>5. Occupied(q, b) \in Nat /\ Occupied(q, c) \in Nat /\ Ended(q, l) \in Nat
  BY <1>2, Counts
<1>6. Occupied(q, b) <= Ended(q, l)
  BY <1>3, <1>4, <1>5
<1>7. LastUsed(q, b) <= l
  BY <1>2, <1>6, LastUsedAt
<1> QED
  BY <1>0, <1>1, <1>2, <1>7

\* A slot is in use when the runs of the buckets up to it reach it.
LEMMA UsedByLast ==
    ASSUME NEW q, Paired(q), NEW t \in Slots
    PROVE  t \in UsedSlots(q) <=> LastUsed(q, t) >= t
<1>1. PICK v \in Int : v = t - 1 /\ v >= -1 /\ t \in Int
  BY DEF Slots
<1>2. LastUsed(q, t) <= v <=> Occupied(q, t) <= Ended(q, v)
  BY <1>1, LastUsedAt
<1>3. Occupied(q, t) \in Nat /\ Ended(q, v) \in Nat /\ LastUsed(q, t) \in Int
  BY <1>1, Counts, LastUsedAt
<1>4. t \in UsedSlots(q) <=> Ended(q, v) < Occupied(q, t)
  BY <1>1, PendingUsed DEF Pending
<1> QED
  BY <1>1, <1>2, <1>3, <1>4

\* An occupied bucket's run ends where the slots in use up to it end.
LEMMA OwnRunend ==
    ASSUME NEW q, Paired(q), NEW b \in q.occupieds
    PROVE  /\ b \in Int /\ b >= 0 /\ LastUsed(q, b) = RunendOf(q, b)
           /\ LastUsed(q, b) \in q.runends /\ Ended(q, LastUsed(q, b)) = Occupied(q, b)
           /\ LastUsed(q, b) >= b
           /\ \A c \in Int : c < b => LastUsed(q, c) < LastUsed(q, b)
<1>1. b \in Int /\ b >= 0 /\ b - 1 \in Int /\ b - 1 < b
  BY TableSets
<1>2. Occupied(q, b) \in 1 .. Cardinality(q.runends)
  <2>1. Occupied(q, b - 1) < Occupied(q, b)
    BY <1>1, CountReached
  <2>2. Occupied(q, b - 1) \in Nat /\ Occupied(q, b) \in 0 .. Cardinality(q.runends)
    BY <1>1, Counts
  <2> QED
    BY <2>1, <2>2
<1>3. LastUsed(q, b) = NthRunend(q, Occupied(q, b))
  BY <1>1, <1>2, LastUsedByCount
<1>4. NthRunend(q, Occupied(q, b)) = RunendOf(q, b)
  BY DEF NthRunend, RunendOf, Ended, Occupied
<1>5. LastUsed(q, b) \in q.runends /\ Ended(q, LastUsed(q, b)) = Occupied(q, b)
      /\ LastUsed(q, b) \in Int /\ LastUsed(q, b) >= 0
  BY <1>1, <1>2, <1>3, NthRunendAt
<1>6. RunendOf(q, b) >= b
  BY DEF Paired
<1>7. ASSUME NEW c \in Int, c < b PROVE LastUsed(q, c) < LastUsed(q, b)
  <2>1. PICK v \in Int : v = LastUsed(q, b) - 1 /\ v >= -1
    BY <1>5
  <2>2. Occupied(q, c) < Occupied(q, b) /\ Occupied(q, c) \in Nat /\ Occupied(q, b) \in Nat
    BY <1>1, <1>7, CountReached, Counts
  <2>3. LastUsed(q, c) \in Int /\ (LastUsed(q, c) <= v <=> Occupied(q, c) <= Ended(q, v))
    BY <2>1, LastUsedAt
  <2>4. Ended(q, LastUsed(q, b)) <= Ended(q, v) + 1 /\ Ended(q, v) \in Nat
    BY <1>5, <2>1, CountsGrow, Counts
  <2> QED
    BY <1>5, <2>1, <2>2, <2>3, <2>4
<1> QED
  BY <1>1, <1>3, <1>4, <1>5, <1>6, <1>7

LEMMA RunendOwner ==
    ASSUME NEW q, Paired(q), NEW e \in q.runends
    PROVE  /\ \E c \in q.occupieds : c \in Int /\ c <= e /\ LastUsed(q, c) = e
           /\ e \in Slots /\ e \in UsedSlots(q)
<1>1. e \in Int /\ e - 1 \in Int /\ e - 1 < e /\ e \in Slots
  BY TableSets DEF IntegerSet, Paired
<1>2. Ended(q, e) \in 1 .. Cardinality(q.runends)
  <2>1. Ended(q, e - 1) < Ended(q, e) /\ Ended(q, e - 1) \in Nat
        /\ Ended(q, e) \in 0 .. Cardinality(q.runends)
    BY <1>1, CountReached, Counts
  <2> QED
    BY <2>1
<1>3. PICK c \in q.occupieds : Occupied(q, c) = Ended(q, e) /\ c \in Int
  BY <1>2, NthBucket
<1>4. LastUsed(q, c) = e
  BY <1>3, LastUsedIs
<1>5. c <= e
  BY <1>4, OwnRunend
<1>6. LastUsed(q, e) >= e
  BY <1>1, <1>3, <1>4, <1>5, LastUsedGrows
<1>7. e \in UsedSlots(q)
  BY <1>1, <1>6, UsedByLast
<1> QED
  BY <1>1, <1>3, <1>4, <1>5, <1>7

(***************************************************************************)
(* Opening a gap.  A box of n slots for bucket b claims n empty slots E,   *)
(* with all slots from b to the last of them in use or claimed; what b and *)
(* later buckets have moves right past the claimed slots behind it.        *)
(***************************************************************************)

Claims(q, b, E) ==
    /\ E \in SUBSET Slots /\ E # {}
    /\ \A e \in E : e >= b /\ e \notin UsedSlots(q)
    /\ \A s \in b .. Max(E) : s \in UsedSlots(q) \cup E

\* Where a slot that is not claimed moves to.
Shifted(E, i) == i + Cardinality(E) - Cardinality({e \in E : e < i})

LEMMA ClaimedSet ==
    ASSUME NEW E \in SUBSET Slots, E # {}
    PROVE  /\ IntegerSet(E) /\ Cardinality(E) \in Nat \ {0}
           /\ Max(E) \in E /\ Max(E) \in Slots /\ \A e \in E : e <= Max(E)
           /\ \A x \in Int : Cardinality({e \in E : e < x}) = UpTo(E, x - 1)
<1>0. EndOfBlocks - 1 \in Int /\ E \in SUBSET (0 .. EndOfBlocks - 1)
      /\ \A e \in E : e \in Int /\ e <= EndOfBlocks - 1 /\ EndOfBlocks - 1 - e \in Nat
  BY BlocksReach DEF Slots
<1>1. IntegerSet(E) /\ Cardinality(E) \in Nat \ {0}
  <2>1. IntegerSet(E) /\ Cardinality(E) \in Nat
    BY <1>0, UpToEnds
  <2>2. Cardinality(E) # 0
    BY <2>1, FS_EmptySet DEF IntegerSet
  <2> QED
    BY <2>1, <2>2
<1>2. \E m \in E : \A e \in E : e <= m
  <2> DEFINE D == {d \in Nat : \E e \in E : d = EndOfBlocks - 1 - e}
  <2>1. D # {}
    BY <1>0
  <2>2. PICK d \in D : \A j \in D : d <= j
    BY <2>1, LeastNatural
  <2>3. PICK m \in E : d = EndOfBlocks - 1 - m
    BY <2>2
  <2>4. ASSUME NEW e \in E PROVE e <= m
    <3>1. EndOfBlocks - 1 - e \in D
      BY <1>0
    <3> HIDE DEF D
    <3>2. EndOfBlocks - 1 - m <= EndOfBlocks - 1 - e
      BY <2>2, <2>3, <3>1
    <3> QED
      BY <1>0, <3>2
  <2> QED
    BY <2>4
<1>3. PICK m \in E : \A e \in E : e <= m
  BY <1>2
<1>4. Max(E) = m
  BY <1>0, <1>3, Greatest DEF IntegerSet
<1>5. ASSUME NEW x \in Int
      PROVE  Cardinality({e \in E : e < x}) = UpTo(E, x - 1)
  <2>1. \A e \in E : e < x <=> e <= x - 1
    BY <1>0
  <2>2. {e \in E : e < x} = {e \in E : e <= x - 1}
    BY <2>1
  <2> QED
    BY <2>2 DEF UpTo
<1> QED
  BY <1>1, <1>3, <1>4, <1>5

\* Slots keep their order, end at or before the last claimed slot, and those
\* after it stay.
LEMMA Shifts ==
    ASSUME NEW E \in SUBSET Slots, E # {}, NEW x \in Int
    PROVE  /\ Shifted(E, x) \in Int /\ Shifted(E, x) >= x
           /\ Shifted(E, x) = x + Cardinality(E) - UpTo(E, x - 1)
           /\ \A y \in Int : x < y /\ x \notin E => Shifted(E, x) < Shifted(E, y)
           /\ x > Max(E) => Shifted(E, x) = x
           /\ x <= Max(E) /\ x \notin E => Shifted(E, x) <= Max(E)
           /\ (\A e \in E : e >= x) => Shifted(E, x) = x + Cardinality(E)
<1> DEFINE n == Cardinality(E)
           m == Max(E)
<1>1. /\ IntegerSet(E) /\ n \in Nat \ {0} /\ m \in E /\ m \in Int /\ m \in Slots
      /\ \A e \in E : e \in Int /\ e <= m
      /\ \A y \in Int : Cardinality({e \in E : e < y}) = UpTo(E, y - 1)
  BY ClaimedSet DEF IntegerSet
<1>2. \A y \in Int : y - 1 \in Int /\ UpTo(E, y) \in Nat /\ UpTo(E, y - 1) \in Nat
  <2>1. \A y \in Int : UpTo(E, y) \in Nat
    BY <1>1, UpToType
  <2>2. \A y \in Int : y - 1 \in Int
    OBVIOUS
  <2> QED
    BY <2>1, <2>2
<1>3. \A y \in Int : UpTo(E, y) <= n /\ (y >= EndOfBlocks - 1 => UpTo(E, y) = n)
  <2>1. E \in SUBSET (0 .. EndOfBlocks - 1) /\ EndOfBlocks - 1 \in Int
    BY BlocksReach DEF Slots
  <2> QED
    BY <2>1, UpToEnds
<1>4. \A y \in Int : y >= m => UpTo(E, y) = n
  <2>1. ASSUME NEW y \in Int, y >= m PROVE UpTo(E, y) = n
    <3>1. \A e \in E : e <= y
      BY <1>1, <2>1
    <3>2. {e \in E : e <= y} = E
      BY <3>1
    <3> QED
      BY <3>2 DEF UpTo
  <2> QED
    BY <2>1
<1>5. \A y \in Int : Shifted(E, y) = y + n - UpTo(E, y - 1)
  BY <1>1 DEF Shifted
<1>6. ASSUME NEW y \in Int, x < y, x \notin E PROVE Shifted(E, x) < Shifted(E, y)
  <2>1. PICK v, w \in Int : v = x - 1 /\ w = y - 1 /\ x <= w
    BY <1>6
  <2>2. UpTo(E, x) = UpTo(E, v)
    <3>1. UpTo(E, x) = UpTo(E, v) + 0
      BY <1>1, <1>6, <2>1, UpToStep
    <3> QED
      BY <1>2, <2>1, <3>1
  <2>3. UpTo(E, w) <= UpTo(E, x) + (w - x)
    BY <1>1, <2>1, UpToGrows
  <2>4. UpTo(E, v) \in Nat /\ UpTo(E, w) \in Nat
    BY <1>2, <2>1
  <2>5. Shifted(E, x) = x + n - UpTo(E, v) /\ Shifted(E, y) = y + n - UpTo(E, w)
    BY <1>5, <2>1
  <2> QED
    BY <1>1, <2>1, <2>2, <2>3, <2>4, <2>5
<1>7. x > m => Shifted(E, x) = x
  <2>1. x > m => UpTo(E, x - 1) = n
    BY <1>1, <1>2, <1>4
  <2> QED
    BY <1>1, <1>5, <2>1
<1>8. ASSUME x <= m, x \notin E PROVE Shifted(E, x) <= m
  <2>1. x < m
    BY <1>1, <1>8
  <2>2. Shifted(E, x) < Shifted(E, m)
    BY <1>1, <1>6, <1>8, <2>1
  <2>3. PICK w \in Int : w = m - 1
    BY <1>1
  <2>4. UpTo(E, m) = UpTo(E, w) + 1 /\ UpTo(E, m) = n /\ UpTo(E, w) \in Nat
    BY <1>1, <1>2, <1>4, <2>3, UpToStep
  <2>5. Shifted(E, m) = m + 1
    BY <1>1, <1>5, <2>3, <2>4
  <2>6. Shifted(E, x) \in Int
    BY <1>1, <1>2, <1>5
  <2> QED
    BY <1>1, <2>2, <2>5, <2>6
<1>9. ASSUME \A e \in E : e >= x PROVE Shifted(E, x) = x + n
  <2>1. \A e \in E : ~ (e <= x - 1)
    BY <1>1, <1>9
  <2>2. {e \in E : e <= x - 1} = {}
    BY <2>1
  <2>3. UpTo(E, x - 1) = 0
    BY <2>2, FS_EmptySet DEF UpTo
  <2> QED
    BY <1>1, <1>5, <2>3
<1>10. Shifted(E, x) \in Int /\ Shifted(E, x) >= x
  BY <1>1, <1>2, <1>3, <1>5
<1> QED
  BY <1>5, <1>6, <1>7, <1>8, <1>9, <1>10

\* As many runs end up to the last slot in use as have a bucket.
LEMMA EndedAtLast ==
    ASSUME NEW q, Paired(q), NEW b \in Int
    PROVE  /\ LastUsed(q, b) \in Int /\ LastUsed(q, b) >= -1 /\ LastUsed(q, b) <= EndOfBlocks - 1
           /\ Ended(q, LastUsed(q, b)) = Occupied(q, b)
           /\ LastUsed(q, b) >= 0 <=> Occupied(q, b) # 0
           /\ LastUsed(q, b) >= 0 => LastUsed(q, b) \in q.runends
<1>1. 0 \in Int /\ -1 \in Int /\ -1 < 0 /\ 0 >= -1 /\ EndOfBlocks - 1 \in Nat
  BY TableSets
<1>2. LastUsed(q, b) \in -1 .. EndOfBlocks - 1
  BY <1>1, LastUsedAt
<1>3. CASE Occupied(q, b) = 0
  <2>1. LastUsed(q, b) = -1 /\ Ended(q, -1) = 0
    BY <1>1, <1>3, LastUsedByCount, Counts
  <2> QED
    BY <1>1, <1>2, <1>3, <2>1
<1>4. CASE Occupied(q, b) # 0
  <2>1. Occupied(q, b) \in 1 .. Cardinality(q.runends)
    BY <1>4, Counts
  <2>2. LastUsed(q, b) = NthRunend(q, Occupied(q, b))
    BY <1>4, LastUsedByCount
  <2>3. LastUsed(q, b) \in q.runends /\ Ended(q, LastUsed(q, b)) = Occupied(q, b)
        /\ LastUsed(q, b) \in 0 .. EndOfBlocks - 1
    BY <1>1, <2>1, <2>2, NthRunendAt
  <2> QED
    BY <1>1, <1>2, <1>4, <2>3
<1> QED
  BY <1>3, <1>4

\* The point that what b and later buckets up to c have reaches.
Reached(q, b, c) == Max({b - 1, LastUsed(q, c)})

\* It is not claimed, and what b itself has reaches none of the claimed slots.
LEMMA ReachedIs ==
    ASSUME NEW q, Paired(q), NEW b \in Slots, NEW E, Claims(q, b, E), NEW c \in Int, c >= b
    PROVE  /\ Reached(q, b, c) = (IF LastUsed(q, c) <= b - 1 THEN b - 1 ELSE LastUsed(q, c))
           /\ Reached(q, b, c) \in Int /\ Reached(q, b, c) \notin E
           /\ Reached(q, b, c) >= b - 1 /\ Reached(q, b, c) >= -1
           /\ \A e \in E : e > Reached(q, b, b)
           /\ Shifted(E, Reached(q, b, b)) = Reached(q, b, b) + Cardinality(E)
<1>0. b \in Int /\ b >= 0 /\ b - 1 \in Int /\ E \in SUBSET Slots /\ E # {} /\ \A e \in E : e \in Int
  BY DEF Slots, Claims
<1>1. ASSUME NEW d \in Int
      PROVE  /\ LastUsed(q, d) \in Int
             /\ Reached(q, b, d) = (IF LastUsed(q, d) <= b - 1 THEN b - 1 ELSE LastUsed(q, d))
  <2>1. LastUsed(q, d) \in Int
    BY EndedAtLast
  <2> QED
    BY <1>0, <2>1, LargerOf DEF Reached
<1>2. Reached(q, b, c) \notin E
  <2>1. CASE LastUsed(q, c) <= b - 1
    BY <1>0, <1>1, <2>1 DEF Claims
  <2>2. CASE ~ (LastUsed(q, c) <= b - 1)
    <3>1. LastUsed(q, c) >= 0
      BY <1>0, <1>1, <2>2
    <3>2. LastUsed(q, c) \in UsedSlots(q)
      BY <3>1, EndedAtLast, RunendOwner
    <3> QED
      BY <1>1, <2>2, <3>2 DEF Claims
  <2> QED
    BY <2>1, <2>2
<1>3. ASSUME NEW e \in E PROVE e > Reached(q, b, b)
  <2>1. e \in Slots /\ e \in Int /\ e >= b /\ e \notin UsedSlots(q)
    BY <1>0 DEF Claims
  <2>2. ~ (LastUsed(q, e) >= e)
    BY <2>1, UsedByLast
  <2>3. LastUsed(q, b) <= LastUsed(q, e) /\ LastUsed(q, e) \in Int
    BY <1>0, <2>1, LastUsedGrows
  <2> QED
    BY <1>0, <1>1, <2>1, <2>2, <2>3
<1>4. Shifted(E, Reached(q, b, b)) = Reached(q, b, b) + Cardinality(E)
  <2>1. PICK x \in Int : x = Reached(q, b, b)
    BY <1>0, <1>1
  <2>2. \A e \in E : e >= x
    BY <1>0, <1>3, <2>1
  <2> QED
    BY <1>0, <2>1, <2>2, Shifts
<1> QED
  BY <1>0, <1>1, <1>2, <1>3, <1>4

\* Where a runend moves to: those of buckets before b stay.
MovedEnd(q, b, E, e) == IF e <= LastUsed(q, b - 1) THEN e ELSE Shifted(E, e)

MovedEnds(q, b, E) == {MovedEnd(q, b, E, e) : e \in q.runends}

\* r is q with the gap open and the runs of b and later buckets moved.
OpensRuns(q, r, b, E) ==
    /\ r.occupieds = q.occupieds \cup {b}
    /\ r.runends = MovedEnds(q, b, E) \cup
         (IF b \in q.occupieds THEN {} ELSE {Reached(q, b, b) + Cardinality(E)})

LEMMA MovedEndsAre ==
    ASSUME NEW q, Paired(q), NEW b \in Slots, NEW E, Claims(q, b, E)
    PROVE  /\ MovedEnds(q, b, E) \subseteq Slots /\ IntegerSet(MovedEnds(q, b, E))
           /\ Cardinality(MovedEnds(q, b, E)) = Cardinality(q.runends)
           /\ \A e \in q.runends : UpTo(MovedEnds(q, b, E), MovedEnd(q, b, E, e)) = Ended(q, e)
           /\ \A e \in q.runends : e > LastUsed(q, b - 1) => e >= b /\ MovedEnd(q, b, E, e) = Shifted(E, e)
           /\ \A y, z \in Int : (\A x \in q.runends : MovedEnd(q, b, E, x) <= y <=> x <= z) =>
                UpTo(MovedEnds(q, b, E), y) = Ended(q, z)
<1> DEFINE l == LastUsed(q, b - 1)
           h == [e \in q.runends |-> MovedEnd(q, b, E, e)]
<1>0. /\ b \in Int /\ b - 1 \in Int /\ E \in SUBSET Slots /\ E # {} /\ Max(E) \in Slots
      /\ l \in Int /\ EndOfBlocks \in Nat
  BY EndedAtLast, ClaimedSet, BlocksReach DEF Slots, Claims
<1>1. ASSUME NEW e \in q.runends
      PROVE  /\ e \in Int /\ e \in Slots /\ e \notin E
             /\ Shifted(E, e) \in Int /\ Shifted(E, e) >= e
             /\ h[e] = (IF e <= l THEN e ELSE Shifted(E, e))
             /\ h[e] \in Slots
             /\ e > l => e >= b
  <2>1. e \in Slots /\ e \in Int /\ e \notin E
    BY RunendOwner DEF Claims, Slots
  <2>2. /\ Shifted(E, e) \in Int /\ Shifted(E, e) >= e
        /\ e > Max(E) => Shifted(E, e) = e
        /\ e <= Max(E) => Shifted(E, e) <= Max(E)
    BY <1>0, <2>1, Shifts
  <2>3. Shifted(E, e) \in Slots
    BY <1>0, <2>1, <2>2 DEF Slots
  <2>4. ASSUME e > l PROVE e >= b
    <3>1. PICK c \in q.occupieds : c \in Int /\ c <= e /\ LastUsed(q, c) = e
      BY RunendOwner
    <3>2. c <= b - 1 => LastUsed(q, c) <= l
      BY <1>0, <3>1, LastUsedGrows
    <3> HIDE DEF l
    <3> QED
      BY <1>0, <2>1, <2>4, <3>1, <3>2
  <2> QED
    BY <2>1, <2>2, <2>3, <2>4 DEF MovedEnd
<1>2. ASSUME NEW x \in q.runends, NEW y \in q.runends, x < y PROVE h[x] < h[y]
  <2>1. x \in Int /\ y \in Int /\ x \notin E /\ Shifted(E, y) >= y /\ Shifted(E, y) \in Int
    BY <1>1
  <2>2. Shifted(E, x) < Shifted(E, y)
    BY <1>0, <1>2, <2>1, Shifts
  <2>3. /\ h[x] = (IF x <= l THEN x ELSE Shifted(E, x))
        /\ h[y] = (IF y <= l THEN y ELSE Shifted(E, y))
    BY <1>1
  <2> HIDE DEF h, l
  <2> QED
    BY <1>0, <1>2, <2>1, <2>2, <2>3
<1>3. MovedEnds(q, b, E) = {h[e] : e \in q.runends} /\ \A e \in q.runends : h[e] = MovedEnd(q, b, E, e)
  BY DEF MovedEnds
<1> HIDE DEF h
<1>4. \A e \in q.runends : h[e] \in Int /\ h[e] \in Slots
  BY <1>1 DEF Slots
<1>5. IntegerSet(q.runends)
  BY TableSets
<1>6. /\ IntegerSet(MovedEnds(q, b, E)) /\ Cardinality(MovedEnds(q, b, E)) = Cardinality(q.runends)
      /\ \A y, z \in Int : (\A x \in q.runends : h[x] <= y <=> x <= z) =>
           UpTo(MovedEnds(q, b, E), y) = UpTo(q.runends, z)
  BY <1>2, <1>3, <1>4, <1>5, Relocated
<1>7. ASSUME NEW e \in q.runends
      PROVE  UpTo(MovedEnds(q, b, E), MovedEnd(q, b, E, e)) = Ended(q, e)
  <2>1. \A x \in q.runends : h[x] <= h[e] <=> x <= e
    <3>1. ASSUME NEW x \in q.runends PROVE h[x] <= h[e] <=> x <= e
      <4>1. x \in Int /\ e \in Int /\ h[x] \in Int /\ h[e] \in Int
        BY <1>1, <1>4
      <4>2. (x < e => h[x] < h[e]) /\ (e < x => h[e] < h[x])
        BY <1>2
      <4> QED
        BY <4>1, <4>2
    <3> QED
      BY <3>1
  <2>2. UpTo(MovedEnds(q, b, E), h[e]) = UpTo(q.runends, e)
    BY <1>1, <1>4, <1>6, <2>1
  <2> QED
    BY <1>3, <2>2 DEF Ended
<1>8. ASSUME NEW e \in q.runends, e > l
      PROVE  e >= b /\ MovedEnd(q, b, E, e) = Shifted(E, e)
  <2>1. e \in Int /\ e >= b
    BY <1>1, <1>8
  <2> QED
    BY <1>0, <1>8, <2>1 DEF MovedEnd
<1>9. \A y, z \in Int : (\A x \in q.runends : MovedEnd(q, b, E, x) <= y <=> x <= z) =>
        UpTo(MovedEnds(q, b, E), y) = Ended(q, z)
  BY <1>3, <1>6 DEF Ended
<1> QED
  BY <1>3, <1>4, <1>6, <1>7, <1>8, <1>9

\* A new bucket's run ends between those that stay and those that move.
LEMMA NewBucketEnd ==
    ASSUME NEW q, Paired(q), NEW b \in Slots, b \notin q.occupieds, NEW E, Claims(q, b, E),
           NEW a \in Int, a = Reached(q, b, b) + Cardinality(E)
    PROVE  /\ a \in Slots /\ a >= b /\ a \notin MovedEnds(q, b, E)
           /\ UpTo(MovedEnds(q, b, E), a) = Occupied(q, b)
           /\ \A e \in q.runends : a <= MovedEnd(q, b, E, e) <=> e > LastUsed(q, b)
<1> DEFINE m == Reached(q, b, b)
           l == LastUsed(q, b)
<1>1. /\ b \in Int /\ b >= 0 /\ b - 1 \in Int /\ E \in SUBSET Slots /\ E # {} /\ b <= b
      /\ Cardinality(E) \in Nat \ {0} /\ Max(E) \in E /\ Max(E) \in Slots
      /\ l \in Int /\ m \in Int /\ m \notin E /\ m >= -1 /\ m >= b - 1
      /\ m = (IF l <= b - 1 THEN b - 1 ELSE l)
      /\ \A e \in E : e > m
      /\ Shifted(E, m) = a /\ a = m + Cardinality(E)
  <2>1. b \in Int /\ b >= 0 /\ b - 1 \in Int /\ E \in SUBSET Slots /\ E # {} /\ b <= b
    BY DEF Slots, Claims
  <2> QED
    BY <2>1, ReachedIs, EndedAtLast, ClaimedSet
<1>2. LastUsed(q, b - 1) = l
  <2>1. Occupied(q, b) = Occupied(q, b - 1) + 0
    BY <1>1, TableSets, UpToStep DEF Occupied
  <2>2. Occupied(q, b) = Occupied(q, b - 1)
    BY <1>1, <2>1, Counts
  <2> QED
    BY <1>1, <2>2, LastUsedByCount
<1>3. a \in Slots /\ a >= b
  <2>1. m <= Max(E) /\ Max(E) \in Int
    BY <1>1 DEF Slots
  <2>2. Shifted(E, m) <= Max(E)
    BY <1>1, <2>1, Shifts
  <2> HIDE DEF m
  <2> QED
    BY <1>1, <2>1, <2>2, BlocksReach DEF Slots
<1>4. ASSUME NEW e \in q.runends
      PROVE  /\ e <= l => MovedEnd(q, b, E, e) < a
             /\ e > l => MovedEnd(q, b, E, e) > a
             /\ e \in Int /\ MovedEnd(q, b, E, e) \in Int
  <2>1. e \in Int /\ MovedEnd(q, b, E, e) \in Int
    <3>1. MovedEnd(q, b, E, e) \in MovedEnds(q, b, E)
      BY DEF MovedEnds
    <3> QED
      BY <3>1, TableSets, MovedEndsAre DEF IntegerSet
  <2>2. ASSUME e <= l PROVE MovedEnd(q, b, E, e) < a
    <3>1. MovedEnd(q, b, E, e) = e
      BY <1>2, <2>2 DEF MovedEnd
    <3> HIDE DEF l, m
    <3> QED
      BY <1>1, <2>1, <2>2, <3>1
  <2>3. ASSUME e > l PROVE MovedEnd(q, b, E, e) > a
    <3>1. e >= b /\ MovedEnd(q, b, E, e) = Shifted(E, e)
      BY <1>2, <2>3, MovedEndsAre
    <3>2. m < e
      <4> HIDE DEF l, m
      <4> QED
        BY <1>1, <2>1, <2>3, <3>1
    <3>3. Shifted(E, m) < Shifted(E, e)
      BY <1>1, <2>1, <3>2, Shifts
    <3> HIDE DEF l, m
    <3> QED
      BY <1>1, <2>1, <3>1, <3>3
  <2> QED
    BY <2>1, <2>2, <2>3
<1>5. a \notin MovedEnds(q, b, E)
  BY <1>1, <1>4 DEF MovedEnds
<1>6. UpTo(MovedEnds(q, b, E), a) = Ended(q, l)
  <2>1. \A x \in q.runends : MovedEnd(q, b, E, x) <= a <=> x <= l
    BY <1>1, <1>4
  <2> HIDE DEF l
  <2> QED
    BY <1>1, <2>1, MovedEndsAre
<1>7. Ended(q, l) = Occupied(q, b)
  BY <1>1, EndedAtLast
<1>8. \A e \in q.runends : a <= MovedEnd(q, b, E, e) <=> e > l
  BY <1>1, <1>4
<1> QED
  BY <1>3, <1>5, <1>6, <1>7, <1>8

\* Where the slots in use by buckets up to c end once the gap is open.
EndBehindGap(q, b, E, c) == IF c < b THEN LastUsed(q, c) ELSE Shifted(E, Reached(q, b, c))

LEMMA GapCounts ==
    ASSUME NEW q, Paired(q), NEW b \in Slots, NEW E, Claims(q, b, E),
           NEW r, OpensRuns(q, r, b, E), NEW c \in Int
    PROVE  /\ IntegerSet(r.runends) /\ IntegerSet(r.occupieds) /\ r.runends \subseteq Slots
           /\ Cardinality(r.runends) = Cardinality(q.runends) + (IF b \in q.occupieds THEN 0 ELSE 1)
           /\ Cardinality(r.occupieds) = Cardinality(r.runends)
           /\ UpTo(r.occupieds, c) = 0 => c < b /\ Occupied(q, c) = 0
           /\ UpTo(r.occupieds, c) # 0 =>
                /\ EndBehindGap(q, b, E, c) \in r.runends
                /\ UpTo(r.runends, EndBehindGap(q, b, E, c)) = UpTo(r.occupieds, c)
<1> DEFINE a == Reached(q, b, b) + Cardinality(E)
           A == MovedEnds(q, b, E)
           l == LastUsed(q, c)
<1>1. /\ b \in Int /\ b >= 0 /\ b - 1 \in Int /\ E \in SUBSET Slots /\ E # {} /\ b <= b
      /\ Cardinality(E) \in Nat \ {0} /\ Reached(q, b, b) \in Int /\ a \in Int
      /\ Shifted(E, Reached(q, b, b)) = a
  <2>1. b \in Int /\ b >= 0 /\ b - 1 \in Int /\ E \in SUBSET Slots /\ E # {} /\ b <= b
    BY DEF Slots, Claims
  <2>2. Cardinality(E) \in Nat \ {0} /\ Reached(q, b, b) \in Int
    BY <2>1, ClaimedSet, ReachedIs
  <2> QED
    BY <2>1, <2>2, ReachedIs
<1>2. /\ A \subseteq Slots /\ IntegerSet(A) /\ Cardinality(A) = Cardinality(q.runends)
      /\ \A e \in q.runends : UpTo(A, MovedEnd(q, b, E, e)) = Ended(q, e) /\ MovedEnd(q, b, E, e) \in A
      /\ \A e \in q.runends : e > LastUsed(q, b - 1) => e >= b /\ MovedEnd(q, b, E, e) = Shifted(E, e)
  <2>1. \A e \in q.runends : MovedEnd(q, b, E, e) \in A
    BY DEF MovedEnds
  <2> QED
    BY <2>1, MovedEndsAre
<1>3. /\ l \in Int /\ Ended(q, l) = Occupied(q, c)
      /\ Occupied(q, c) # 0 => l \in q.runends
      /\ Occupied(q, c) \in Nat
  BY EndedAtLast, Counts
<1>4. ASSUME c < b, Occupied(q, c) # 0
      PROVE  l \in q.runends /\ MovedEnd(q, b, E, l) = l
  <2>1. l <= LastUsed(q, b - 1)
    BY <1>1, <1>4, LastUsedGrows
  <2> QED
    BY <1>3, <1>4, <2>1 DEF MovedEnd
<1>5. ASSUME c >= b, Occupied(q, c) # Occupied(q, b - 1)
      PROVE  /\ Occupied(q, c) # 0 /\ l \in q.runends /\ l > LastUsed(q, b - 1)
             /\ MovedEnd(q, b, E, l) = EndBehindGap(q, b, E, c)
  <2>1. Occupied(q, b - 1) <= Occupied(q, c) /\ Occupied(q, b - 1) \in Nat
    BY <1>1, <1>5, CountsGrow, Counts
  <2>2. Occupied(q, c) # 0 /\ l \in q.runends
    BY <1>3, <1>5, <2>1
  <2>3. l > LastUsed(q, b - 1)
    <3>1. PICK w \in Int : w = LastUsed(q, b - 1) /\ w >= -1 /\ Ended(q, w) = Occupied(q, b - 1)
      BY <1>1, EndedAtLast
    <3>2. l <= w => Ended(q, l) <= Ended(q, w)
      BY <1>3, <3>1, CountsGrow
    <3> HIDE DEF l
    <3> QED
      BY <1>3, <1>5, <2>1, <3>1, <3>2
  <2>4. l >= b /\ MovedEnd(q, b, E, l) = Shifted(E, l)
    BY <1>2, <2>2, <2>3
  <2>5. Reached(q, b, c) = l
    <3>1. Reached(q, b, c) = (IF l <= b - 1 THEN b - 1 ELSE l)
      BY <1>5, ReachedIs
    <3> HIDE DEF l
    <3> QED
      BY <1>1, <1>3, <2>4, <3>1
  <2> QED
    BY <1>1, <1>5, <2>2, <2>3, <2>4, <2>5 DEF EndBehindGap
<1>6. IntegerSet(q.occupieds) /\ Cardinality(q.occupieds) = Cardinality(q.runends)
      /\ Cardinality(q.runends) \in Nat
  BY <1>1, TableSets, Counts DEF Paired
<1>7. Occupied(q, b) = Occupied(q, b - 1) + (IF b \in q.occupieds THEN 1 ELSE 0)
  BY <1>1, TableSets, UpToStep DEF Occupied
<1>8. Occupied(q, b) \in Nat /\ Occupied(q, b - 1) \in Nat
      /\ (c >= b => Occupied(q, b) <= Occupied(q, c))
  <2>1. Occupied(q, b) \in Nat /\ Occupied(q, b - 1) \in Nat
    BY <1>1, Counts
  <2>2. c >= b => Occupied(q, b) <= Occupied(q, c)
    BY <1>1, CountsGrow
  <2> QED
    BY <2>1, <2>2
<1>9. CASE b \in q.occupieds
  <2>1. r.runends = A /\ r.occupieds = q.occupieds
    BY <1>9 DEF OpensRuns
  <2>2. UpTo(r.occupieds, c) = Occupied(q, c)
    BY <2>1 DEF Occupied
  <2>3. c >= b => Occupied(q, c) # Occupied(q, b - 1)
    BY <1>3, <1>7, <1>8, <1>9
  <2>4. c < b \/ c >= b
    BY <1>1
  <2>5. CASE c < b
    <3>1. EndBehindGap(q, b, E, c) = l
      BY <2>5 DEF EndBehindGap
    <3> HIDE DEF A, l
    <3> QED
      BY <1>2, <1>3, <1>4, <1>6, <1>9, <2>1, <2>2, <2>5, <3>1
  <2>6. CASE c >= b
    <3> HIDE DEF A, l
    <3> QED
      BY <1>2, <1>3, <1>5, <1>6, <1>9, <2>1, <2>2, <2>3, <2>6
  <2> QED
    BY <2>4, <2>5, <2>6
<1>10. CASE b \notin q.occupieds
  <2>1. r.runends = A \cup {a} /\ r.occupieds = q.occupieds \cup {b}
    BY <1>10 DEF OpensRuns
  <2>2. /\ a \in Slots /\ a >= b /\ a \notin A /\ UpTo(A, a) = Occupied(q, b)
        /\ \A e \in q.runends : a <= MovedEnd(q, b, E, e) <=> e > LastUsed(q, b)
    BY <1>1, <1>10, NewBucketEnd
  <2> HIDE DEF A, a, l
  <2>3. /\ IntegerSet(A \cup {a}) /\ Cardinality(A \cup {a}) = Cardinality(A) + 1
        /\ \A x \in Int : UpTo(A \cup {a}, x) = UpTo(A, x) + (IF a <= x THEN 1 ELSE 0)
    BY <1>1, <1>2, <2>2, Extended
  <2>4. /\ IntegerSet(r.occupieds) /\ Cardinality(r.occupieds) = Cardinality(q.occupieds) + 1
        /\ UpTo(r.occupieds, c) = Occupied(q, c) + (IF b <= c THEN 1 ELSE 0)
    BY <1>1, <1>6, <1>10, <2>1, Extended DEF Occupied
  <2>5. LastUsed(q, b) = LastUsed(q, b - 1)
    BY <1>1, <1>7, <1>8, <1>10, LastUsedByCount
  <2>6. LastUsed(q, b) \in Int
    BY <1>1, EndedAtLast
  <2>7. CASE c < b
    <3>1. UpTo(r.occupieds, c) = Occupied(q, c)
      BY <1>1, <1>3, <2>4, <2>7
    <3>2. EndBehindGap(q, b, E, c) = l
      BY <2>7 DEF EndBehindGap, l
    <3>3. ASSUME Occupied(q, c) # 0
          PROVE  l \in A /\ UpTo(A \cup {a}, l) = Occupied(q, c)
      <4>1. l \in q.runends /\ MovedEnd(q, b, E, l) = l
        BY <1>4, <2>7, <3>3
      <4>2. l <= LastUsed(q, b)
        BY <1>1, <2>7, LastUsedGrows DEF l
      <4>3. ~ (a <= l)
        BY <1>3, <2>2, <2>6, <4>1, <4>2
      <4>4. UpTo(A, l) = Occupied(q, c) /\ l \in A
        BY <1>2, <1>3, <4>1
      <4>5. UpTo(A \cup {a}, l) = UpTo(A, l) + (IF a <= l THEN 1 ELSE 0)
        BY <1>3, <2>3
      <4> QED
        BY <1>3, <4>3, <4>4, <4>5
    <3> QED
      BY <1>2, <1>6, <1>10, <2>1, <2>2, <2>3, <2>4, <2>7, <3>1, <3>2, <3>3
  <2>8. CASE c >= b
    <3>1. UpTo(r.occupieds, c) = Occupied(q, c) + 1
      BY <1>1, <1>3, <2>4, <2>8
    <3>2. CASE Occupied(q, c) # Occupied(q, b - 1)
      <4>1. l \in q.runends /\ l > LastUsed(q, b - 1) /\ MovedEnd(q, b, E, l) = EndBehindGap(q, b, E, c)
        BY <1>5, <2>8, <3>2
      <4>2. a <= MovedEnd(q, b, E, l)
        BY <2>2, <2>5, <4>1
      <4>3. UpTo(A, MovedEnd(q, b, E, l)) = Occupied(q, c) /\ MovedEnd(q, b, E, l) \in A
            /\ MovedEnd(q, b, E, l) \in Int
        BY <1>2, <1>3, <4>1 DEF IntegerSet
      <4>4. UpTo(r.runends, EndBehindGap(q, b, E, c)) = Occupied(q, c) + 1
        BY <2>1, <2>3, <4>1, <4>2, <4>3
      <4> QED
        BY <1>2, <1>3, <1>6, <1>10, <2>1, <2>2, <2>3, <2>4, <3>1, <4>1, <4>3, <4>4
    <3>3. CASE Occupied(q, c) = Occupied(q, b - 1)
      <4>1. Occupied(q, b) = Occupied(q, c)
        BY <1>7, <1>8, <1>10, <3>3
      <4>2. Reached(q, b, c) = Reached(q, b, b)
        BY <1>1, <4>1, LastUsedByCount DEF Reached
      <4>3. EndBehindGap(q, b, E, c) = a
        BY <1>1, <2>8, <4>2 DEF EndBehindGap, a
      <4>4. UpTo(A \cup {a}, a) = Occupied(q, c) + 1
        BY <1>1, <2>2, <2>3, <4>1
      <4> QED
        BY <1>2, <1>3, <1>6, <1>10, <2>1, <2>2, <2>3, <2>4, <3>1, <4>3, <4>4
    <3> QED
      BY <3>2, <3>3
  <2> QED
    BY <1>1, <2>7, <2>8
<1> QED
  BY <1>9, <1>10

\* With the gap open the occupied buckets still pair with the runends, and the
\* slots in use end where they have moved to.
LEMMA GapReads ==
    ASSUME NEW q, Paired(q), NEW b \in Buckets, NEW E, Claims(q, b, E),
           NEW r, OpensRuns(q, r, b, E)
    PROVE  /\ Paired(r)
           /\ \A c \in Int : LastUsed(r, c) = EndBehindGap(q, b, E, c)
<1>1. /\ b \in Slots /\ b \in Int /\ b >= 0 /\ E \in SUBSET Slots /\ E # {}
      /\ Cardinality(E) \in Nat \ {0}
  <2>1. b \in Slots
    BY BlocksReach, GeometryAssumption, FilterAssumption DEF Buckets, Slots
  <2> QED
    BY <2>1, ClaimedSet DEF Slots, Claims
<1>2. ASSUME NEW c \in r.occupieds
      PROVE  RunendOf(r, c) >= c
  <2>1. c \in Int /\ (c \in q.occupieds \/ c = b) /\ c - 1 \in Int /\ c - 1 < c
    BY <1>1, TableSets DEF OpensRuns, IntegerSet
  <2>2. UpTo(r.occupieds, c) # 0
    <3>1. IntegerSet(r.occupieds)
      BY <1>1, GapCounts
    <3>2. UpTo(r.occupieds, c - 1) < UpTo(r.occupieds, c) /\ UpTo(r.occupieds, c - 1) \in Nat
      BY <2>1, <3>1, UpToReached, UpToType
    <3> QED
      BY <3>2
  <2>3. RunendOf(r, c) = EndBehindGap(q, b, E, c)
    <3>1. /\ IntegerSet(r.runends) /\ EndBehindGap(q, b, E, c) \in r.runends
          /\ UpTo(r.runends, EndBehindGap(q, b, E, c)) = UpTo(r.occupieds, c)
      BY <1>1, <2>1, <2>2, GapCounts
    <3> QED
      BY <2>1, <3>1, RunendOfIs
  <2>4. CASE c < b
    <3>1. c \in q.occupieds
      BY <1>1, <2>1, <2>4
    <3> QED
      BY <2>3, <2>4, <3>1, OwnRunend DEF EndBehindGap
  <2>5. CASE c >= b
    <3>1. PICK m \in Int : /\ m = Reached(q, b, c)
                           /\ m = IF LastUsed(q, c) <= b - 1 THEN b - 1 ELSE LastUsed(q, c)
      BY <1>1, <2>1, <2>5, ReachedIs
    <3>2. Shifted(E, m) >= m /\ Shifted(E, m) \in Int
      BY <1>1, <3>1, Shifts
    <3>3. EndBehindGap(q, b, E, c) = Shifted(E, m)
      BY <1>1, <2>1, <2>5, <3>1 DEF EndBehindGap
    <3>4. CASE c \in q.occupieds
      <4>1. LastUsed(q, c) >= c /\ LastUsed(q, c) \in Int
        BY <2>1, <3>4, OwnRunend, EndedAtLast
      <4> QED
        BY <1>1, <2>1, <2>3, <2>5, <3>1, <3>2, <3>3, <4>1
    <3>5. CASE c = b
      <4>1. b >= b /\ Shifted(E, m) = m + Cardinality(E) /\ m >= b - 1
        BY <1>1, <3>1, <3>5, ReachedIs
      <4> QED
        BY <1>1, <2>1, <2>3, <3>1, <3>3, <3>5, <4>1
    <3> QED
      BY <2>1, <3>4, <3>5
  <2> QED
    BY <1>1, <2>1, <2>4, <2>5
<1>3. Paired(r)
  <2>1. r.occupieds \subseteq Buckets
    BY DEF OpensRuns, Paired
  <2>2. r.runends \subseteq Slots /\ Cardinality(r.occupieds) = Cardinality(r.runends)
    BY <1>1, GapCounts
  <2> QED
    BY <1>2, <2>1, <2>2 DEF Paired
<1>4. ASSUME NEW c \in Int
      PROVE  LastUsed(r, c) = EndBehindGap(q, b, E, c)
  <2>1. CASE UpTo(r.occupieds, c) = 0
    <3>1. c < b /\ Occupied(q, c) = 0
      BY <1>1, <2>1, GapCounts
    <3>2. Occupied(r, c) = 0
      BY <2>1 DEF Occupied
    <3>3. LastUsed(q, c) = -1 /\ LastUsed(r, c) = -1
      BY <1>3, <3>1, <3>2, LastUsedByCount
    <3> QED
      BY <3>1, <3>3 DEF EndBehindGap
  <2>2. CASE UpTo(r.occupieds, c) # 0
    <3>1. /\ EndBehindGap(q, b, E, c) \in r.runends
          /\ UpTo(r.runends, EndBehindGap(q, b, E, c)) = UpTo(r.occupieds, c)
      BY <1>1, <2>2, GapCounts
    <3> QED
      BY <1>3, <3>1, LastUsedIs DEF Ended, Occupied
  <2> QED
    BY <2>1, <2>2
<1> QED
  BY <1>3, <1>4

LEMMA UsedInSlots ==
    ASSUME NEW q, Paired(q)
    PROVE  UsedSlots(q) \subseteq Slots
<1> SUFFICES ASSUME NEW b \in q.occupieds, NEW t \in RunOf(q, b) PROVE t \in Slots
  BY DEF UsedSlots
<1>1. /\ b \in Int /\ b >= 0 /\ b - 1 \in Int /\ LastUsed(q, b) = RunendOf(q, b)
      /\ RunendOf(q, b) \in Slots
  BY OwnRunend DEF Paired
<1>2. LastUsed(q, b - 1) \in Int /\ LastUsed(q, b - 1) + 1 \in Int
  BY <1>1, EndedAtLast
<1>3. Max({b, LastUsed(q, b - 1) + 1}) = IF b >= LastUsed(q, b - 1) + 1 THEN b ELSE LastUsed(q, b - 1) + 1
  BY <1>1, <1>2, LargerOf
<1> QED
  BY <1>1, <1>2, <1>3, BlocksReach DEF RunOf, Slots

\* Every claimed point of a stretch counts; none of a stretch without any does.
LEMMA Stretches ==
    ASSUME NEW E, IntegerSet(E), NEW x \in Int, NEW y \in Int, x <= y
    PROVE  /\ (\A s \in Int : x < s /\ s <= y => s \in E) => UpTo(E, y) = UpTo(E, x) + (y - x)
           /\ (\A s \in Int : x < s /\ s <= y => s \notin E) => UpTo(E, y) = UpTo(E, x)
<1>0. PICK a \in Int : a = x + 1 /\ x = a - 1 /\ a <= y + 1
  OBVIOUS
<1> DEFINE I == {e \in E : a <= e /\ e <= y}
<1>1. Cardinality(I) = UpTo(E, y) - UpTo(E, x) /\ UpTo(E, x) \in Nat /\ UpTo(E, y) \in Nat
  BY <1>0, Between, UpToType
<1>2. \A s \in Int : x < s /\ s <= y <=> s \in a .. y
  BY <1>0
<1>3. ASSUME \A s \in Int : x < s /\ s <= y => s \in E
      PROVE  UpTo(E, y) = UpTo(E, x) + (y - x)
  <2>1. \A s \in a .. y : s \in I
    BY <1>0, <1>2, <1>3
  <2>2. \A s \in I : s \in a .. y
    BY <1>0 DEF IntegerSet
  <2>3. I = a .. y
    BY <2>1, <2>2
  <2>4. Cardinality(a .. y) = IF a > y THEN 0 ELSE y - a + 1
    BY FS_Interval
  <2> HIDE DEF I
  <2> QED
    BY <1>0, <1>1, <2>3, <2>4
<1>4. ASSUME \A s \in Int : x < s /\ s <= y => s \notin E
      PROVE  UpTo(E, y) = UpTo(E, x)
  <2>1. \A s \in E : ~ (a <= s /\ s <= y)
    BY <1>0, <1>4 DEF IntegerSet
  <2>2. I = {}
    BY <2>1
  <2>3. Cardinality(I) = 0
    BY <2>2, FS_EmptySet
  <2> HIDE DEF I
  <2> QED
    BY <1>1, <2>3
<1> QED
  BY <1>3, <1>4

\* How far what buckets up to v reach moves, by the claimed slots up to v.
LEMMA GapShift ==
    ASSUME NEW q, Paired(q), NEW b \in Slots, NEW E, Claims(q, b, E),
           NEW v \in Slots, v >= b, NEW m \in Int, m = Reached(q, b, v)
    PROVE  /\ v <= Max(E) => Shifted(E, m) = (IF m > v THEN m ELSE v) + Cardinality(E) - UpTo(E, v)
           /\ v >= Max(E) /\ m > v => Shifted(E, m) = m
           /\ v >= Max(E) /\ m <= v => Shifted(E, m) <= v
           /\ v > Max(E) /\ m < v => Shifted(E, m) < v
           /\ Shifted(E, m) \in Int /\ Shifted(E, m) >= m
           /\ UpTo(E, v) \in Nat /\ UpTo(E, v) <= Cardinality(E)
<1>1. /\ b \in Int /\ v \in Int /\ E \in SUBSET Slots /\ E # {} /\ b >= 0
      /\ Cardinality(E) \in Nat \ {0} /\ Max(E) \in E /\ Max(E) \in Int /\ IntegerSet(E)
      /\ EndOfBlocks - 1 \in Int /\ E \in SUBSET (0 .. EndOfBlocks - 1)
  <2>1. /\ b \in Int /\ v \in Int /\ E \in SUBSET Slots /\ E # {} /\ b >= 0
        /\ EndOfBlocks - 1 \in Int
    BY BlocksReach DEF Slots, Claims
  <2> QED
    BY <2>1, ClaimedSet DEF Slots
<1>2. /\ m = (IF LastUsed(q, v) <= b - 1 THEN b - 1 ELSE LastUsed(q, v))
      /\ m \notin E /\ m >= -1 /\ LastUsed(q, v) \in Int
  BY <1>1, ReachedIs, EndedAtLast
<1>3. /\ Shifted(E, m) = m + Cardinality(E) - UpTo(E, m - 1)
      /\ m > Max(E) => Shifted(E, m) = m
      /\ m <= Max(E) => Shifted(E, m) <= Max(E)
      /\ Shifted(E, m) \in Int /\ Shifted(E, m) >= m
  BY <1>1, <1>2, Shifts
<1>4. UpTo(E, m) = UpTo(E, m - 1) /\ UpTo(E, m) \in Nat /\ UpTo(E, v) \in Nat
      /\ UpTo(E, v) <= Cardinality(E)
  <2>1. PICK w \in Int : w = m - 1
    OBVIOUS
  <2>2. UpTo(E, m) = UpTo(E, w) + 0
    BY <1>1, <1>2, <2>1, UpToStep
  <2>3. UpTo(E, m) \in Nat /\ UpTo(E, v) \in Nat /\ UpTo(E, w) \in Nat
    BY <1>1, UpToType
  <2>4. UpTo(E, v) <= Cardinality(E)
    BY <1>1, UpToEnds
  <2> QED
    BY <2>1, <2>2, <2>3, <2>4
<1>5. ASSUME v <= Max(E)
      PROVE  Shifted(E, m) = (IF m > v THEN m ELSE v) + Cardinality(E) - UpTo(E, v)
  <2>1. CASE m > v
    <3>1. ASSUME NEW s \in Int, v < s, s <= m PROVE s \notin E
      <4>1. SUFFICES ASSUME s \in E PROVE FALSE
        OBVIOUS
      <4>2. s \in Slots /\ s \notin UsedSlots(q)
        BY <4>1 DEF Claims
      <4>3. LastUsed(q, s) >= s
        <5>1. LastUsed(q, v) <= LastUsed(q, s) /\ LastUsed(q, s) \in Int
          BY <1>1, <3>1, LastUsedGrows
        <5> QED
          BY <1>1, <1>2, <2>1, <3>1, <5>1
      <4> QED
        BY <4>2, <4>3, UsedByLast
    <3>2. UpTo(E, m) = UpTo(E, v)
      BY <1>1, <2>1, <3>1, Stretches
    <3> QED
      BY <1>1, <1>3, <1>4, <2>1, <3>2
  <2>2. CASE ~ (m > v)
    <3>1. ASSUME NEW s \in Int, m < s, s <= v PROVE s \in E
      <4>1. s \in Slots /\ s \in b .. Max(E)
        BY <1>1, <1>2, <1>5, <3>1 DEF Slots
      <4>2. LastUsed(q, s) <= LastUsed(q, v) /\ LastUsed(q, s) \in Int
        BY <1>1, <3>1, LastUsedGrows
      <4>3. ~ (LastUsed(q, s) >= s)
        BY <1>1, <1>2, <3>1, <4>2
      <4>4. s \notin UsedSlots(q)
        BY <4>1, <4>3, UsedByLast
      <4> QED
        BY <4>1, <4>4 DEF Claims
    <3>2. UpTo(E, v) = UpTo(E, m) + (v - m)
      BY <1>1, <2>2, <3>1, Stretches
    <3> QED
      BY <1>1, <1>3, <1>4, <2>2, <3>2
  <2> QED
    BY <2>1, <2>2
<1>6. /\ v >= Max(E) /\ m > v => Shifted(E, m) = m
      /\ v >= Max(E) /\ m <= v => Shifted(E, m) <= v
      /\ v > Max(E) /\ m < v => Shifted(E, m) < v
  BY <1>1, <1>3
<1> QED
  BY <1>3, <1>4, <1>5, <1>6

\* The claimed slots come to those in use.
LEMMA GapUses ==
    ASSUME NEW q, Paired(q), NEW b \in Buckets, NEW E, Claims(q, b, E),
           NEW r, OpensRuns(q, r, b, E)
    PROVE  /\ UsedSlots(r) = UsedSlots(q) \cup E
           /\ IsFiniteSet(UsedSlots(q)) /\ Cardinality(UsedSlots(q)) \in Nat
           /\ Cardinality(UsedSlots(r)) = Cardinality(UsedSlots(q)) + Cardinality(E)
<1>1. /\ b \in Slots /\ b \in Int /\ E \in SUBSET Slots /\ E # {}
      /\ Cardinality(E) \in Nat \ {0} /\ IsFiniteSet(E) /\ Max(E) \in Int /\ \A e \in E : e <= Max(E)
  <2>1. b \in Slots /\ b \in Int /\ E \in SUBSET Slots /\ E # {}
    BY BlocksReach, GeometryAssumption, FilterAssumption DEF Buckets, Slots, Claims
  <2> QED
    BY <2>1, ClaimedSet DEF Slots, IntegerSet
<1>2. Paired(r) /\ \A c \in Int : LastUsed(r, c) = EndBehindGap(q, b, E, c)
  BY GapReads
<1>3. ASSUME NEW t \in Slots
      PROVE  t \in UsedSlots(r) <=> t \in UsedSlots(q) \cup E
  <2>1. t \in Int /\ (t \in UsedSlots(r) <=> EndBehindGap(q, b, E, t) >= t)
        /\ (t \in UsedSlots(q) <=> LastUsed(q, t) >= t) /\ LastUsed(q, t) \in Int
    BY <1>2, UsedByLast, EndedAtLast DEF Slots
  <2>2. CASE t < b
    <3>1. t \notin E
      BY <1>1, <2>1, <2>2 DEF Claims
    <3> QED
      BY <2>1, <2>2, <3>1 DEF EndBehindGap
  <2>3. CASE t >= b
    <3>1. PICK m \in Int : /\ m = Reached(q, b, t) /\ m \notin E
                           /\ m = IF LastUsed(q, t) <= b - 1 THEN b - 1 ELSE LastUsed(q, t)
      BY <1>1, <2>1, <2>3, ReachedIs
    <3>2. EndBehindGap(q, b, E, t) = Shifted(E, m)
      BY <1>1, <2>1, <2>3, <3>1 DEF EndBehindGap
    <3>3. /\ t <= Max(E) => Shifted(E, m) = (IF m > t THEN m ELSE t) + Cardinality(E) - UpTo(E, t)
          /\ t >= Max(E) /\ m > t => Shifted(E, m) = m
          /\ t >= Max(E) /\ m <= t => Shifted(E, m) <= t
          /\ t > Max(E) /\ m < t => Shifted(E, m) < t
          /\ Shifted(E, m) \in Int /\ Shifted(E, m) >= m
          /\ UpTo(E, t) \in Nat /\ UpTo(E, t) <= Cardinality(E)
      BY <1>1, <2>3, <3>1, GapShift
    <3>4. CASE t \in UsedSlots(q)
      <4>1. m >= t
        BY <1>1, <2>1, <2>3, <3>1, <3>4
      <4> QED
        BY <2>1, <3>2, <3>3, <3>4, <4>1
    <3>5. CASE t \in E
      <4>1. t <= Max(E)
        BY <1>1, <3>5
      <4>2. PICK u, n \in Nat : u = UpTo(E, t) /\ n = Cardinality(E) /\ u <= n
        BY <1>1, <3>3
      <4>3. Shifted(E, m) >= t
        BY <2>1, <3>1, <3>3, <4>1, <4>2
      <4> QED
        BY <2>1, <3>2, <3>5, <4>3
    <3>6. CASE t \notin UsedSlots(q) /\ t \notin E
      <4>1. m < t
        BY <1>1, <2>1, <2>3, <3>1, <3>6
      <4>2. t > Max(E)
        <5>1. t \in b .. Max(E) => t \in UsedSlots(q) \cup E
          BY DEF Claims
        <5> QED
          BY <1>1, <2>1, <2>3, <3>6, <5>1
      <4> QED
        BY <2>1, <3>2, <3>3, <3>6, <4>1, <4>2
    <3> QED
      BY <3>4, <3>5, <3>6
  <2> QED
    BY <1>1, <2>1, <2>2, <2>3
<1>4. UsedSlots(q) \subseteq Slots /\ UsedSlots(r) \subseteq Slots
  BY <1>2, UsedInSlots
<1>5. UsedSlots(r) = UsedSlots(q) \cup E
  BY <1>1, <1>3, <1>4
<1>6. IsFiniteSet(UsedSlots(q)) /\ Cardinality(UsedSlots(q)) \in Nat
  <2>1. UsedSlots(q) \in SUBSET (0 .. EndOfBlocks - 1) /\ EndOfBlocks - 1 \in Int
    BY <1>4, BlocksReach DEF Slots
  <2> QED
    BY <2>1, UpToEnds DEF IntegerSet
<1>7. UsedSlots(q) \cap E = {}
  BY DEF Claims
<1>8. Cardinality(UsedSlots(q) \cup E) = Cardinality(UsedSlots(q)) + Cardinality(E) - Cardinality(UsedSlots(q) \cap E)
  BY <1>1, <1>6, FS_Union
<1>9. Cardinality(UsedSlots(q) \cap E) = 0
  BY <1>7, FS_EmptySet
<1> QED
  BY <1>1, <1>5, <1>6, <1>8, <1>9

\* The blocks up to that of slot i are those that start up to i.
LEMMA BlockOrder ==
    ASSUME NEW k \in 0 .. NBlocks - 1, NEW i \in Slots
    PROVE  k <= BlockOf(i) <=> BlockStart(k) <= i
<1>1. /\ k \in Nat /\ SlotsPerBlock \in Nat \ {0} /\ i \in Nat /\ BlockOf(i) \in Nat
      /\ BlockOf(i) * SlotsPerBlock <= i /\ i < BlockOf(i) * SlotsPerBlock + SlotsPerBlock
  <2>1. BlockOf(i) \in 0 .. NBlocks - 1 /\ NBlocks \in Nat
    BY SlotInBlock, BlocksReach
  <2> QED
    BY <2>1, SlotInBlock, GeometryAssumption DEF BlockStart, Slots
<1>2. PICK j \in Nat : j = BlockOf(i)
  BY <1>1
<1>3. ASSUME k <= j PROVE k * SlotsPerBlock <= i
  <2>1. k * SlotsPerBlock <= j * SlotsPerBlock
    BY <1>1, <1>3
  <2> QED
    BY <1>1, <1>2, <2>1
<1>4. ASSUME ~ (k <= j) PROVE ~ (k * SlotsPerBlock <= i)
  <2>1. j + 1 <= k
    BY <1>1, <1>2, <1>4
  <2>2. (j + 1) * SlotsPerBlock <= k * SlotsPerBlock
    BY <1>1, <1>2, <2>1
  <2>3. (j + 1) * SlotsPerBlock = j * SlotsPerBlock + SlotsPerBlock
    BY <1>1, <1>2
  <2> QED
    BY <1>1, <1>2, <2>2, <2>3
<1> QED
  BY <1>2, <1>3, <1>4 DEF BlockStart

\* What a block spills gains the claimed slots that do not precede it, up to
\* the block of the last claimed one.
LEMMA GapSpills ==
    ASSUME NEW q, Paired(q), NEW b \in Buckets, NEW E, Claims(q, b, E),
           NEW r, OpensRuns(q, r, b, E), NEW k \in 0 .. NBlocks - 1
    PROVE  Spill(r, k) = Spill(q, k) + (IF k \in BlockOf(b) + 1 .. BlockOf(Max(E))
                                        THEN Cardinality(E) - Cardinality({e \in E : e < BlockStart(k)})
                                        ELSE 0)
<1>1. /\ b \in Slots /\ b \in Int /\ b >= 0 /\ E \in SUBSET Slots /\ E # {}
      /\ Cardinality(E) \in Nat \ {0} /\ Max(E) \in Int /\ Max(E) \in Slots
      /\ \A x \in Int : Cardinality({e \in E : e < x}) = UpTo(E, x - 1)
  <2>1. b \in Slots /\ b \in Int /\ b >= 0 /\ E \in SUBSET Slots /\ E # {}
    BY BlocksReach, GeometryAssumption, FilterAssumption DEF Buckets, Slots, Claims
  <2> QED
    BY <2>1, ClaimedSet DEF Slots
<1>2. Paired(r) /\ \A c \in Int : LastUsed(r, c) = EndBehindGap(q, b, E, c)
  BY GapReads
<1>3. PICK base, v \in Int : base = BlockStart(k) /\ v = base - 1 /\ base \in Slots /\ base >= 0
  BY BlockStarts DEF Slots
<1>4. /\ Spill(q, k) = (IF LastUsed(q, v) < base THEN 0 ELSE LastUsed(q, v) - base + 1)
      /\ Spill(r, k) = (IF LastUsed(r, v) < base THEN 0 ELSE LastUsed(r, v) - base + 1)
      /\ LastUsed(q, v) \in Int /\ LastUsed(r, v) \in Int /\ Spill(q, k) \in Nat
  BY <1>2, <1>3, SpillEnd, EndedAtLast
<1>5. /\ k <= BlockOf(b) <=> base <= b
      /\ k <= BlockOf(Max(E)) <=> base <= Max(E)
      /\ BlockOf(b) \in Int /\ BlockOf(Max(E)) \in Int /\ k \in Int
  <2>1. BlockOf(b) \in Int /\ BlockOf(Max(E)) \in Int /\ k \in Int
    BY <1>1, SlotInBlock, BlocksReach
  <2> QED
    BY <1>1, <1>3, <2>1, BlockOrder
<1>6. k \in BlockOf(b) + 1 .. BlockOf(Max(E)) <=> b < base /\ base <= Max(E)
  BY <1>1, <1>3, <1>5
<1>7. CASE base <= b
  <2>1. v < b /\ LastUsed(r, v) = LastUsed(q, v)
    BY <1>1, <1>2, <1>3, <1>7 DEF EndBehindGap
  <2>2. ~ (b < base)
    BY <1>1, <1>3, <1>7
  <2>3. Spill(r, k) = Spill(q, k)
    BY <1>4, <2>1
  <2> QED
    BY <1>4, <1>6, <2>2, <2>3
<1>8. CASE ~ (base <= b)
  <2>1. v >= b /\ v \in Slots /\ ~ (v < b)
    <3>1. v >= b /\ v >= 0 /\ v <= base /\ base \in Int
      BY <1>1, <1>3, <1>8
    <3>2. EndOfBlocks - 1 \in Int
      BY BlocksReach
    <3>3. v \in Slots
      BY <1>3, <3>1, <3>2 DEF Slots
    <3> QED
      BY <1>1, <1>3, <3>1, <3>3
  <2>2. PICK m \in Int : /\ m = Reached(q, b, v) /\ m \notin E
                         /\ m = IF LastUsed(q, v) <= b - 1 THEN b - 1 ELSE LastUsed(q, v)
    BY <1>1, <2>1, ReachedIs
  <2>3. LastUsed(r, v) = Shifted(E, m)
    BY <1>2, <2>1, <2>2 DEF EndBehindGap
  <2>4. /\ v <= Max(E) => Shifted(E, m) = (IF m > v THEN m ELSE v) + Cardinality(E) - UpTo(E, v)
        /\ v >= Max(E) /\ m > v => Shifted(E, m) = m
        /\ v >= Max(E) /\ m <= v => Shifted(E, m) <= v
        /\ v > Max(E) /\ m < v => Shifted(E, m) < v
        /\ Shifted(E, m) \in Int /\ Shifted(E, m) >= m
        /\ UpTo(E, v) \in Nat /\ UpTo(E, v) <= Cardinality(E)
    <3>1. m = Reached(q, b, v) /\ b \in Slots /\ v \in Slots /\ v >= b
      BY <1>1, <2>1, <2>2
    <3> QED
      BY <3>1, GapShift
  <2>5. Cardinality({e \in E : e < BlockStart(k)}) = UpTo(E, v)
    BY <1>1, <1>3
  <2>6. CASE base <= Max(E)
    <3>1. PICK u, n \in Nat : u = UpTo(E, v) /\ n = Cardinality(E) /\ u <= n
      BY <1>1, <2>4
    <3>2. v <= Max(E)
      BY <1>1, <1>3, <2>6
    <3>3. LastUsed(r, v) = (IF m > v THEN m ELSE v) + n - u
      BY <2>3, <2>4, <3>1, <3>2
    <3>4. m > v => m = LastUsed(q, v)
      BY <1>1, <2>1, <2>2
    <3>5. ~ (m > v) => LastUsed(q, v) <= v
      BY <1>1, <1>4, <2>1, <2>2
    <3>6. Spill(r, k) = Spill(q, k) + (n - u)
      BY <1>3, <1>4, <3>1, <3>3, <3>4, <3>5
    <3>7. b < base
      BY <1>1, <1>3, <1>8
    <3> QED
      BY <1>6, <2>5, <2>6, <3>1, <3>6, <3>7
  <2>7. CASE ~ (base <= Max(E))
    <3>2. v >= Max(E)
      BY <1>1, <1>3, <2>7
    <3>3. m > v => m = LastUsed(q, v)
      BY <1>1, <2>1, <2>2
    <3>4. ~ (m > v) => LastUsed(q, v) <= v
      BY <1>1, <1>4, <2>1, <2>2
    <3>5. ASSUME m > v PROVE Spill(r, k) = Spill(q, k)
      <4>1. LastUsed(r, v) = m
        BY <2>3, <2>4, <3>2, <3>5
      <4> QED
        BY <1>4, <3>3, <3>5, <4>1
    <3>6. ASSUME ~ (m > v) PROVE Spill(r, k) = Spill(q, k)
      <4>1. LastUsed(r, v) <= v
        BY <2>2, <2>3, <2>4, <3>2, <3>6
      <4>2. LastUsed(q, v) < base /\ LastUsed(r, v) < base
        BY <1>3, <1>4, <3>4, <3>6, <4>1
      <4> QED
        BY <1>4, <4>2
    <3>1. Spill(r, k) = Spill(q, k)
      BY <3>5, <3>6
    <3> QED
      BY <1>4, <1>6, <2>7, <3>1
  <2> QED
    BY <2>6, <2>7
<1> QED
  BY <1>7, <1>8

\* The offsets follow when each one gains as much, cut off as before.
OpensOffsets(q, r, b, E) ==
    \A k \in 0 .. NBlocks - 1 :
        r.offset[k] = IF k \in BlockOf(b) + 1 .. BlockOf(Max(E))
                      THEN Min({q.offset[k] + Cardinality(E) - Cardinality({e \in E : e < BlockStart(k)}),
                                MaxOffset})
                      ELSE q.offset[k]

LEMMA GapOffsets ==
    ASSUME NEW q, Paired(q), NEW b \in Buckets, NEW E, Claims(q, b, E),
           NEW r, OpensRuns(q, r, b, E), OffsetsCut(q), OpensOffsets(q, r, b, E)
    PROVE  OffsetsCut(r)
<1> SUFFICES ASSUME NEW k \in 0 .. NBlocks - 1 PROVE r.offset[k] = Min({MaxOffset, Spill(r, k)})
  BY DEF OffsetsCut, OffsetsCutTo
<1>1. /\ E \in SUBSET Slots /\ E # {} /\ Cardinality(E) \in Nat
      /\ Cardinality({e \in E : e < BlockStart(k)}) \in Nat
      /\ Cardinality({e \in E : e < BlockStart(k)}) <= Cardinality(E)
  <2>1. E \in SUBSET Slots /\ E # {} /\ EndOfBlocks - 1 \in Int /\ E \in SUBSET (0 .. EndOfBlocks - 1)
    BY BlocksReach DEF Claims, Slots
  <2>2. BlockStart(k) \in Int /\ BlockStart(k) - 1 \in Int
    BY BlockStarts DEF Slots
  <2>3. /\ Cardinality({e \in E : e < BlockStart(k)}) = UpTo(E, BlockStart(k) - 1)
        /\ IntegerSet(E) /\ Cardinality(E) \in Nat
    BY <2>1, <2>2, ClaimedSet
  <2>4. UpTo(E, BlockStart(k) - 1) \in Nat /\ UpTo(E, BlockStart(k) - 1) <= Cardinality(E)
    BY <2>1, <2>2, <2>3, UpToType, UpToEnds
  <2> QED
    BY <2>1, <2>3, <2>4
<1>2. PICK n, c, s, t \in Nat :
        /\ n = Cardinality(E) /\ c = Cardinality({e \in E : e < BlockStart(k)}) /\ c <= n
        /\ s = Spill(q, k) /\ t = Spill(r, k)
  <2>1. Spill(q, k) \in Nat /\ Spill(r, k) \in Nat
    <3>1. Paired(r) /\ BlockStart(k) \in Int /\ BlockStart(k) - 1 \in Int
      BY GapReads, BlockStarts DEF Slots
    <3> QED
      BY <3>1, SpillEnd
  <2> QED
    BY <1>1, <2>1
<1>3. MaxOffset \in Nat /\ q.offset[k] = (IF MaxOffset <= s THEN MaxOffset ELSE s)
  <2>1. NBlocks - 1 \in 0 .. NBlocks - 1
    BY BlocksReach
  <2> QED
    BY <1>2, <2>1, OffsetIs DEF OffsetsCut
<1>4. Min({MaxOffset, t}) = IF MaxOffset <= t THEN MaxOffset ELSE t
  <2>1. t \in Int
    OBVIOUS
  <2> QED
    BY <2>1, CutOffset
<1>5. CASE k \in BlockOf(b) + 1 .. BlockOf(Max(E))
  <2>1. r.offset[k] = Min({q.offset[k] + n - c, MaxOffset})
    BY <1>2, <1>5 DEF OpensOffsets
  <2>2. t = s + (n - c)
    BY <1>2, <1>5, GapSpills
  <2>3. PICK o \in Int : o = q.offset[k] + n - c
    BY <1>3
  <2>4. Min({o, MaxOffset}) = IF o <= MaxOffset THEN o ELSE MaxOffset
    BY CutOffset
  <2> QED
    BY <1>2, <1>3, <1>4, <2>1, <2>2, <2>3, <2>4
<1>6. CASE ~ (k \in BlockOf(b) + 1 .. BlockOf(Max(E)))
  <2>1. r.offset[k] = q.offset[k]
    BY <1>6 DEF OpensOffsets
  <2>2. t = s + 0
    BY <1>2, <1>6, GapSpills
  <2> QED
    BY <1>2, <1>3, <1>4, <2>1, <2>2
<1> QED
  BY <1>5, <1>6

(***************************************************************************)
(* The empty slots find_next_empty_slot_runs_of_size_n claims.             *)
(***************************************************************************)

\* A stretch of slots without an occupied bucket that starts empty is empty.
LEMMA EmptyStretch ==
    ASSUME NEW q, Paired(q), NEW s \in Slots, s \notin UsedSlots(q), NEW t \in Slots, s <= t,
           \A o \in q.occupieds : ~ (s <= o /\ o <= t)
    PROVE  t \notin UsedSlots(q)
<1>1. s \in Int /\ t \in Int
  BY DEF Slots
<1>2. Occupied(q, t) = Occupied(q, s)
  <2>1. IntegerSet(q.occupieds)
    BY TableSets
  <2>2. UpTo(q.occupieds, t) = UpTo(q.occupieds, s)
    <3>1. \A o \in Int : s < o /\ o <= t => o \notin q.occupieds
      BY <1>1
    <3> QED
      BY <1>1, <2>1, <3>1, Stretches
  <2> QED
    BY <2>2 DEF Occupied
<1>3. LastUsed(q, t) = LastUsed(q, s)
  BY <1>1, <1>2, LastUsedByCount
<1>4. LastUsed(q, s) \in Int /\ ~ (LastUsed(q, s) >= s)
  BY <1>1, UsedByLast, EndedAtLast
<1> QED
  BY <1>1, <1>3, <1>4, UsedByLast

\* get_number_of_consecutive_empty_slots counts empty slots, at least one.
LEMMA ConsecutiveAre ==
    ASSUME NEW q, Paired(q), NEW s \in Nat, s \in Slots => s \notin UsedSlots(q), NEW k \in Nat \ {0}
    PROVE  /\ ConsecutiveEmptySlots(q, s, k) \in 1 .. k
           /\ \A t \in Slots : s <= t /\ t < s + ConsecutiveEmptySlots(q, s, k) => t \notin UsedSlots(q)
<1> DEFINE gaps == {k} \cup {o - s : o \in {x \in q.occupieds : s <= x}}
           c == ConsecutiveEmptySlots(q, s, k)
<1>1. \A o \in q.occupieds : o \in Int /\ o >= 0 /\ o \in Slots
  BY TableSets DEF Slots
<1>2. ASSUME NEW o \in q.occupieds, s <= o PROVE o - s >= 1
  <2>1. o \in UsedSlots(q)
    BY <1>1, UsedByLast, OwnRunend
  <2>2. o # s
    BY <1>1, <2>1
  <2> QED
    BY <1>1, <1>2, <2>2
<1>3. gaps \subseteq Nat /\ gaps # {} /\ k \in gaps
  BY <1>1
<1>4. \A g \in gaps : g >= 1
  BY <1>1, <1>2
<1>5. PICK g \in gaps : \A h \in gaps : g <= h
  BY <1>3, LeastNatural
<1>6. c = g
  <2>1. gaps \in SUBSET Int
    BY <1>3
  <2>2. Min(gaps) = g
    <3> HIDE DEF gaps
    <3> QED
      BY <1>5, <2>1, Least
  <2> QED
    BY <2>2 DEF ConsecutiveEmptySlots
<1>7. c \in 1 .. k
  <2> HIDE DEF c, gaps
  <2> QED
    BY <1>3, <1>4, <1>5, <1>6
<1>8. ASSUME NEW t \in Slots, s <= t, t < s + c PROVE t \notin UsedSlots(q)
  <2>1. s \in Slots /\ t \in Int
    BY <1>8, BlocksReach DEF Slots
  <2>2. ASSUME NEW o \in q.occupieds, s <= o, o <= t PROVE FALSE
    <3>1. o - s \in gaps
      BY <2>2
    <3>2. c <= o - s
      BY <1>5, <1>6, <3>1
    <3> HIDE DEF c
    <3> QED
      BY <1>1, <1>7, <1>8, <2>1, <2>2, <3>2
  <2> QED
    BY <1>8, <2>1, <2>2, EmptyStretch
<1> QED
  BY <1>7, <1>8

\* One step of the search for k empty slots from s on, g standing for its later steps.
RunsFrom(q, g, s, k) ==
    LET claimed(first, len) ==
            << <<first, len>> >> \o
            (IF first + len >= XNSlots THEN << <<first + len, 1>> >> ELSE g[<< first + len, k - len >>])
        claim(first) == claimed(first, ConsecutiveEmptySlots(q, first, k))
    IN  IF k = 0 THEN << >> ELSE claim(FindFirstEmptySlot(q, s))

FindsRuns(q, g) == g = [x \in Nat \X Nat |-> RunsFrom(q, g, x[1], x[2])]

\* A step from s on claims the len slots from `first` on.
StepClaims(q, s, k, first, len) ==
    /\ first >= s /\ (s \in Slots => first = FirstFrom(q, s))
    /\ \A t \in Slots : first <= t /\ t < first + len => t \notin UsedSlots(q)
    /\ s \in Slots => \A t \in Slots : s <= t /\ t < first => t \in UsedSlots(q)

RunsAfter(g, k, first, len) ==
    << <<first, len>> >> \o
    (IF first + len >= XNSlots THEN << <<first + len, 1>> >> ELSE g[<< first + len, k - len >>])

\* Where a step claims slots, and how many.
LEMMA ClaimStep ==
    ASSUME NEW q, Paired(q), OffsetsCut(q), NEW s \in Nat, NEW k \in Nat \ {0}
    PROVE  \E first \in Nat, len \in 1 .. k :
             /\ StepClaims(q, s, k, first, len)
             /\ \A g : RunsFrom(q, g, s, k) = RunsAfter(g, k, first, len)
<1> DEFINE first == FindFirstEmptySlot(q, s)
<1>1. /\ first \in Nat /\ first >= s /\ (first \in Slots => first \notin UsedSlots(q))
      /\ s \in Slots => first = FirstFrom(q, s)
      /\ s \in Slots => \A t \in Slots : s <= t /\ t < first => t \in UsedSlots(q)
  <2>1. CASE s \in Slots
    <3>1. first = FirstFrom(q, s)
      BY <2>1, FindFirstEmptySlotExact
    <3>2. s \in 0 .. EndOfBlocks /\ EndOfBlocks \in Nat
      BY <2>1, BlocksReach DEF Slots
    <3>3. /\ first \in Candidates(q) /\ first >= s /\ first \in 0 .. EndOfBlocks
          /\ \A e \in Candidates(q) : e >= s => first <= e
      BY <3>1, <3>2, FirstFromIs
    <3> HIDE DEF first
    <3>4. first \in Slots => first \notin UsedSlots(q)
      BY <3>2, <3>3 DEF Candidates, Slots
    <3>5. ASSUME NEW t \in Slots, s <= t, t < first PROVE t \in UsedSlots(q)
      <4>1. t \notin UsedSlots(q) => t \in Candidates(q)
        BY DEF Candidates
      <4>2. t \in Int /\ first \in Int
        BY <3>3 DEF Slots
      <4> QED
        BY <3>3, <3>5, <4>1, <4>2
    <3> QED
      BY <3>1, <3>3, <3>4, <3>5
  <2>2. CASE s \notin Slots
    <3>1. EndOfBlocks \in Nat /\ s >= EndOfBlocks
      BY <2>2, BlocksReach DEF Slots
    <3>2. first = s
      BY <3>1, SearchesExist
    <3> HIDE DEF first
    <3> QED
      BY <2>2, <3>2
  <2> QED
    BY <2>1, <2>2
<1>2. PICK len \in 1 .. k : len = ConsecutiveEmptySlots(q, first, k)
  BY <1>1, ConsecutiveAre
<1>3. \A t \in Slots : first <= t /\ t < first + len => t \notin UsedSlots(q)
  BY <1>1, <1>2, ConsecutiveAre
<1>4. ASSUME NEW g
      PROVE  RunsFrom(q, g, s, k) = RunsAfter(g, k, first, len)
  BY <1>2 DEF RunsFrom, RunsAfter
<1>5. StepClaims(q, s, k, first, len)
  <2> HIDE DEF first
  <2> QED
    BY <1>1, <1>3 DEF StepClaims
<1> HIDE DEF first
<1> QED
  BY <1>1, <1>4, <1>5

Later(g, h, s) == \A t, j \in Nat : t > s => g[<< t, j >>] = h[<< t, j >>]

LEMMA RunsExist ==
    ASSUME NEW q, Paired(q), OffsetsCut(q)
    PROVE  \E g : FindsRuns(q, g)
<1> DEFINE T == {m \in Nat : \E g : \A s, k \in Nat : s >= m => g[<< s, k >>] = RunsFrom(q, g, s, k)}
<1>1. XNSlots \in Nat
  BY GeometryAssumption
<1>2. ASSUME NEW s \in Nat, NEW k \in Nat, NEW g, NEW h, Later(g, h, s)
      PROVE  RunsFrom(q, g, s, k) = RunsFrom(q, h, s, k)
  <2>1. CASE k = 0
    BY <2>1 DEF RunsFrom
  <2>2. CASE k # 0
    <3>1. k \in Nat \ {0}
      BY <2>2
    <3>2. PICK first \in Nat, len \in 1 .. k :
             /\ StepClaims(q, s, k, first, len)
             /\ \A e : RunsFrom(q, e, s, k) = RunsAfter(e, k, first, len)
      BY <3>1, ClaimStep
    <3>3. first + len \in Nat /\ first + len > s /\ k - len \in Nat
      BY <3>2 DEF StepClaims
    <3>4. g[<< first + len, k - len >>] = h[<< first + len, k - len >>]
      BY <1>2, <3>3 DEF Later
    <3> QED
      BY <3>2, <3>4 DEF RunsAfter
  <2> QED
    BY <2>1, <2>2
<1>3. \A s, k \in Nat : s >= XNSlots => \A g, h : RunsFrom(q, g, s, k) = RunsFrom(q, h, s, k)
  <2>1. SUFFICES ASSUME NEW s \in Nat, NEW k \in Nat, s >= XNSlots, NEW g, NEW h
                 PROVE  RunsFrom(q, g, s, k) = RunsFrom(q, h, s, k)
    OBVIOUS
  <2>2. CASE k = 0
    BY <2>2 DEF RunsFrom
  <2>3. CASE k # 0
    <3>1. k \in Nat \ {0}
      BY <2>3
    <3>2. PICK first \in Nat, len \in 1 .. k :
             /\ StepClaims(q, s, k, first, len)
             /\ \A e : RunsFrom(q, e, s, k) = RunsAfter(e, k, first, len)
      BY <3>1, ClaimStep
    <3>3. first + len >= XNSlots
      BY <1>1, <2>1, <3>2 DEF StepClaims
    <3> QED
      BY <3>2, <3>3 DEF RunsAfter
  <2> QED
    BY <2>2, <2>3
<1>4. XNSlots \in T
  <2> DEFINE g == [x \in Nat \X Nat |-> RunsFrom(q, 0, x[1], x[2])]
  <2>1. \A s, k \in Nat : g[<< s, k >>] = RunsFrom(q, 0, s, k)
    OBVIOUS
  <2> HIDE DEF g
  <2>2. \A s, k \in Nat : s >= XNSlots => g[<< s, k >>] = RunsFrom(q, g, s, k)
    BY <1>3, <2>1
  <2> QED
    BY <1>1, <2>2
<1>5. PICK m \in T : \A j \in T : m <= j
  BY <1>4, LeastNatural
<1>6. PICK g : \A s, k \in Nat : s >= m => g[<< s, k >>] = RunsFrom(q, g, s, k)
  BY <1>5
<1>7. ASSUME m # 0 PROVE FALSE
  <2>1. PICK l \in Nat : m = l + 1 /\ ~ (m <= l)
    BY <1>5, <1>7
  <2> DEFINE h == [x \in Nat \X Nat |-> IF x[1] = l THEN RunsFrom(q, g, l, x[2]) ELSE g[x]]
  <2>2. \A s, k \in Nat : h[<< s, k >>] = IF s = l THEN RunsFrom(q, g, l, k) ELSE g[<< s, k >>]
    OBVIOUS
  <2> HIDE DEF h
  <2>3. ASSUME NEW s \in Nat, NEW k \in Nat, s >= l PROVE h[<< s, k >>] = RunsFrom(q, h, s, k)
    <3>1. Later(h, g, s)
      BY <2>2, <2>3 DEF Later
    <3>2. RunsFrom(q, h, s, k) = RunsFrom(q, g, s, k)
      BY <1>2, <3>1
    <3> QED
      BY <1>6, <2>1, <2>2, <2>3, <3>2
  <2>4. l \in T
    BY <2>3
  <2> HIDE DEF T
  <2> QED
    BY <1>5, <2>1, <2>4
<1>8. \A s, k \in Nat : g[<< s, k >>] = RunsFrom(q, g, s, k)
  <2> HIDE DEF T
  <2>1. m = 0
    BY <1>7
  <2>2. \A s \in Nat : s >= m
    BY <2>1
  <2> QED
    BY <1>6, <2>2
<1> DEFINE h == [x \in Nat \X Nat |-> g[x]]
<1>9. \A s, k \in Nat : h[<< s, k >>] = g[<< s, k >>]
  OBVIOUS
<1>10. h = [x \in Nat \X Nat |-> RunsFrom(q, h, x[1], x[2])]
  <2>1. \A x \in Nat \X Nat : g[x] = RunsFrom(q, h, x[1], x[2])
    <3> HIDE DEF h
    <3>1. ASSUME NEW s \in Nat, NEW k \in Nat PROVE g[<< s, k >>] = RunsFrom(q, h, s, k)
      <4>1. Later(g, h, s)
        BY <1>9 DEF Later
      <4> QED
        BY <1>2, <1>8, <4>1
    <3>2. \A x \in Nat \X Nat : x = << x[1], x[2] >> /\ x[1] \in Nat /\ x[2] \in Nat
      OBVIOUS
    <3> QED
      BY <3>1, <3>2
  <2> DEFINE step(x) == RunsFrom(q, h, x[1], x[2])
  <2>2. \A x \in Nat \X Nat : g[x] = step(x)
    BY <2>1
  <2> HIDE DEF step
  <2>3. h = [x \in Nat \X Nat |-> step(x)]
    BY <2>2
  <2> QED
    BY <2>3 DEF step
<1> QED
  BY <1>10 DEF FindsRuns

LEMMA Joined ==
    ASSUME NEW S, NEW r \in S, NEW rest \in Seq(S), NEW R, R = << r >> \o rest
    PROVE  /\ R \in Seq(S) /\ Len(R) = Len(rest) + 1 /\ Len(rest) \in Nat
           /\ DOMAIN R = 1 .. Len(R) /\ DOMAIN rest = 1 .. Len(rest)
           /\ R[1] = r /\ \A j \in 1 .. Len(rest) : R[j + 1] = rest[j]
<1>1. << r >> \in Seq(S) /\ Len(<< r >>) = 1
  OBVIOUS
<1> QED
  BY <1>1

LEMMA EmptySlotsJoin ==
    ASSUME NEW first \in Nat, NEW len \in Nat, NEW rest \in Seq(Nat \X Nat)
    PROVE  EmptySlotsOf(<< <<first, len>> >> \o rest) = (first .. first + len - 1) \cup EmptySlotsOf(rest)
<1> DEFINE R == << <<first, len>> >> \o rest
           runs == {R[j] : j \in DOMAIN R}
           more == {rest[j] : j \in DOMAIN rest}
<1>1. /\ R \in Seq(Nat \X Nat) /\ Len(R) = Len(rest) + 1 /\ Len(rest) \in Nat
      /\ DOMAIN R = 1 .. Len(R) /\ DOMAIN rest = 1 .. Len(rest)
      /\ R[1] = <<first, len>> /\ \A j \in 1 .. Len(rest) : R[j + 1] = rest[j]
  <2>1. <<first, len>> \in Nat \X Nat
    OBVIOUS
  <2> HIDE DEF R
  <2> QED
    BY <2>1, Joined DEF R
<1>2. \A r : r \in runs <=> r = <<first, len>> \/ r \in more
  <2> HIDE DEF R
  <2>1. <<first, len>> \in runs /\ \A j \in 1 .. Len(rest) : rest[j] \in runs
    <3>1. 1 \in DOMAIN R /\ \A j \in 1 .. Len(rest) : j + 1 \in DOMAIN R
      BY <1>1
    <3>2. R[1] \in runs /\ \A j \in 1 .. Len(rest) : R[j + 1] \in runs
      BY <3>1
    <3> QED
      BY <1>1, <3>2
  <2>2. ASSUME NEW j \in 1 .. Len(R) PROVE R[j] = <<first, len>> \/ R[j] \in more
    <3>1. CASE j = 1
      BY <1>1, <3>1
    <3>2. CASE j # 1
      <4>1. PICK i \in 1 .. Len(rest) : j = i + 1
        BY <1>1, <3>2
      <4> QED
        BY <1>1, <4>1
    <3> QED
      BY <3>1, <3>2
  <2> QED
    BY <1>1, <2>1, <2>2
<1> HIDE DEF runs, more, R
<1>3. EmptySlotsOf(R) = UNION {r[1] .. r[1] + r[2] - 1 : r \in runs}
      /\ EmptySlotsOf(rest) = UNION {r[1] .. r[1] + r[2] - 1 : r \in more}
  BY DEF EmptySlotsOf, runs, more
<1>4. \A x : x \in EmptySlotsOf(R) <=> x \in first .. first + len - 1 \/ x \in EmptySlotsOf(rest)
  <2>1. \A x : x \in EmptySlotsOf(R) <=> \E r \in runs : x \in r[1] .. r[1] + r[2] - 1
    BY <1>3
  <2>2. \A x : x \in EmptySlotsOf(rest) <=> \E r \in more : x \in r[1] .. r[1] + r[2] - 1
    BY <1>3
  <2>3. <<first, len>>[1] = first /\ <<first, len>>[2] = len
    OBVIOUS
  <2> QED
    BY <1>2, <2>1, <2>2, <2>3
<1> QED
  BY <1>4 DEF R

\* The claimed runs R hold k empty slots from s on, the first ones there are.
FoundRuns(q, s, k, R) ==
    /\ R \in Seq(Nat \X Nat) /\ Len(R) \in Nat \ {0}
    /\ s \in Slots => R[1][1] = FirstFrom(q, s)
    /\ ~ NoSpace(R) =>
         /\ EmptySlotsOf(R) \subseteq Slots /\ IsFiniteSet(EmptySlotsOf(R))
         /\ Cardinality(EmptySlotsOf(R)) = k
         /\ \A e \in EmptySlotsOf(R) : e >= s /\ e \notin UsedSlots(q)
         /\ \A t \in Slots : \A e \in EmptySlotsOf(R) : s <= t /\ t <= e => t \in UsedSlots(q) \cup EmptySlotsOf(R)

LEMMA FoundStep ==
    ASSUME NEW q, NEW s \in Nat, NEW k \in Nat \ {0}, NEW first \in Nat, NEW len \in 1 .. k,
           StepClaims(q, s, k, first, len), NEW g, NEW R, R = RunsAfter(g, k, first, len),
           k = len /\ first + len < XNSlots => g[<< first + len, k - len >>] = << >>,
           k # len /\ first + len < XNSlots =>
               FoundRuns(q, first + len, k - len, g[<< first + len, k - len >>])
    PROVE  FoundRuns(q, s, k, R)
<1>0. /\ len \in Nat /\ first + len \in Nat /\ XNSlots \in Nat /\ XNSlots <= EndOfBlocks /\ EndOfBlocks \in Nat
      /\ << <<first, len>> >> \in Seq(Nat \X Nat)
      /\ first \in Int /\ s \in Int
  BY BlocksReach, GeometryAssumption
<1>1. s \in Slots => first = FirstFrom(q, s)
  BY DEF StepClaims
<1>2. CASE first + len >= XNSlots
  <2>1. R = << <<first, len>> >> \o << <<first + len, 1>> >>
    BY <1>2 DEF RunsAfter
  <2>2. R \in Seq(Nat \X Nat) /\ Len(R) = 2 /\ R[1] = <<first, len>> /\ R[2] = <<first + len, 1>>
    BY <1>0, <2>1
  <2>3. NoSpace(R)
    BY <1>0, <1>2, <2>2 DEF NoSpace
  <2> QED
    BY <1>1, <2>2, <2>3 DEF FoundRuns
<1>3. CASE ~ (first + len >= XNSlots)
  <2>0. PICK next, left \in Nat : next = first + len /\ left = k - len /\ next < XNSlots /\ next \in Slots
    BY <1>0, <1>3 DEF Slots
  <2> DEFINE rest == g[<< first + len, k - len >>]
             I == first .. first + len - 1
             E == EmptySlotsOf(rest)
  <2>1. R = << <<first, len>> >> \o rest
    BY <1>3 DEF RunsAfter
  <2>2. IsFiniteSet(I) /\ Cardinality(I) = len /\ I \subseteq Slots
        /\ \A e \in I : e \in Int /\ e >= s /\ e < next /\ first <= e /\ e \notin UsedSlots(q)
    <3>1. IsFiniteSet(I) /\ Cardinality(I) = len
      <4>1. PICK z \in Int : z = first + len - 1
        BY <1>0
      <4>2. IsFiniteSet(first .. z) /\ Cardinality(first .. z) = IF first > z THEN 0 ELSE z - first + 1
        BY <1>0, FS_Interval
      <4> QED
        BY <1>0, <4>1, <4>2
    <3>2. \A e \in I : e \in Int /\ first <= e /\ e < first + len /\ e \in Slots
      BY <1>0, <1>3 DEF Slots
    <3>3. first >= s /\ \A t \in Slots : first <= t /\ t < first + len => t \notin UsedSlots(q)
      BY DEF StepClaims
    <3> HIDE DEF I
    <3> QED
      BY <1>0, <2>0, <3>1, <3>2, <3>3
  <2>3. rest \in Seq(Nat \X Nat) /\ Len(rest) \in Nat
    <3>1. CASE k = len
      <4>1. rest = << >>
        BY <1>3, <2>0, <3>1
      <4> HIDE DEF rest
      <4> QED
        BY <4>1
    <3>2. CASE k # len
      <4>1. FoundRuns(q, next, left, rest)
        BY <1>3, <2>0, <3>2
      <4> HIDE DEF rest
      <4> QED
        BY <4>1 DEF FoundRuns
    <3> QED
      BY <3>1, <3>2
  <2>4. /\ R \in Seq(Nat \X Nat) /\ Len(R) = Len(rest) + 1 /\ R[1] = <<first, len>>
        /\ R[Len(R)] = IF rest = << >> THEN <<first, len>> ELSE rest[Len(rest)]
    <3> HIDE DEF rest
    <3>1. <<first, len>> \in Nat \X Nat
      BY <1>0
    <3>2. /\ R \in Seq(Nat \X Nat) /\ Len(R) = Len(rest) + 1 /\ R[1] = <<first, len>>
          /\ \A j \in 1 .. Len(rest) : R[j + 1] = rest[j]
      BY <2>1, <2>3, <3>1, Joined
    <3>3. rest = << >> => R[Len(R)] = <<first, len>>
      BY <3>2
    <3>4. rest # << >> => R[Len(R)] = rest[Len(rest)]
      <4>1. rest # << >> => Len(rest) \in 1 .. Len(rest)
        BY <2>3
      <4> QED
        BY <3>2, <4>1
    <3> QED
      BY <3>2, <3>3, <3>4
  <2>5. R[1][1] = first
    BY <2>4
  <2>6. EmptySlotsOf(R) = I \cup E
    <3> HIDE DEF rest
    <3> QED
      BY <1>0, <2>1, <2>3, EmptySlotsJoin
  <2>7. s \in Slots => \A t \in Slots : s <= t /\ t < first => t \in UsedSlots(q)
    BY DEF StepClaims
  <2>8. s \in Slots
    <3>1. first >= s
      BY DEF StepClaims
    <3> QED
      BY <1>0, <2>0, <3>1 DEF Slots
  <2>9. CASE k = len
    <3>1. rest = << >>
      BY <1>3, <2>0, <2>9
    <3>2. E = {}
      <4> HIDE DEF rest
      <4> QED
        BY <3>1 DEF EmptySlotsOf
    <3>3. EmptySlotsOf(R) = I
      BY <2>6, <3>2
    <3>4. \A t \in Slots : \A e \in I : s <= t /\ t <= e => t \in UsedSlots(q) \cup I
      <4>1. ASSUME NEW t \in Slots, NEW e \in I, s <= t, t <= e PROVE t \in UsedSlots(q) \cup I
        <5>1. CASE t < first
          BY <2>7, <2>8, <4>1, <5>1
        <5>2. CASE ~ (t < first)
          BY <1>0, <2>0, <2>2, <4>1, <5>2 DEF Slots
        <5> QED
          BY <5>1, <5>2
      <4> QED
        BY <4>1
    <3> HIDE DEF I, rest, E
    <3> QED
      BY <1>1, <2>2, <2>3, <2>4, <2>5, <2>9, <3>3, <3>4 DEF FoundRuns
  <2>10. CASE k # len
    <3>1. FoundRuns(q, next, left, rest)
      BY <1>3, <2>0, <2>10
    <3>2. rest # << >> /\ Len(R) \in Nat \ {0}
      <4> HIDE DEF rest
      <4> QED
        BY <2>4, <3>1 DEF FoundRuns
    <3>3. NoSpace(R) <=> NoSpace(rest)
      BY <2>4, <3>2 DEF NoSpace
    <3>4. ASSUME ~ NoSpace(R)
          PROVE  /\ E \subseteq Slots /\ IsFiniteSet(E) /\ Cardinality(E) = left
                 /\ \A e \in E : e >= next /\ e \notin UsedSlots(q)
                 /\ \A t \in Slots : \A e \in E : next <= t /\ t <= e => t \in UsedSlots(q) \cup E
      BY <3>1, <3>3, <3>4 DEF FoundRuns
    <3> HIDE DEF rest
    <3>5. ASSUME ~ NoSpace(R)
          PROVE  IsFiniteSet(I \cup E) /\ Cardinality(I \cup E) = k
      <4>1. I \cap E = {}
        <5>1. ASSUME NEW e \in E, e \in I PROVE FALSE
          <6>1. e >= next /\ e < next /\ e \in Int
            BY <2>2, <3>4, <3>5, <5>1
          <6> QED
            BY <2>0, <6>1
        <5> QED
          BY <5>1
      <4> HIDE DEF I, E
      <4>2. Cardinality(I \cup E) = Cardinality(I) + Cardinality(E) - Cardinality(I \cap E) /\ IsFiniteSet(I \cup E)
        BY <2>2, <3>4, <3>5, FS_Union
      <4>3. Cardinality(I \cap E) = 0
        BY <4>1, FS_EmptySet
      <4> QED
        BY <1>0, <2>0, <2>2, <3>4, <3>5, <4>2, <4>3
    <3>6. ASSUME ~ NoSpace(R), NEW e \in E PROVE e \in Slots /\ e \in Int /\ e >= s /\ e \notin UsedSlots(q)
      <4>1. e \in Slots /\ e >= next /\ e \notin UsedSlots(q)
        BY <3>4, <3>6
      <4>2. e \in Int /\ next >= s
        BY <1>0, <2>0, <4>1 DEF Slots, StepClaims
      <4> HIDE DEF E
      <4> QED
        BY <1>0, <2>0, <4>1, <4>2
    <3>7. ASSUME ~ NoSpace(R), NEW t \in Slots, NEW e \in I \cup E, s <= t, t <= e
          PROVE  t \in UsedSlots(q) \cup (I \cup E)
      <4>0. t \in Int
        BY DEF Slots
      <4>1. CASE t < first
        BY <2>7, <2>8, <3>7, <4>1
      <4>2. CASE ~ (t < first) /\ t < next
        BY <2>0, <4>0, <4>2
      <4>3. CASE ~ (t < next)
        <5>1. e \in E
          <6> HIDE DEF I, E
          <6> QED
            BY <2>0, <2>2, <3>7, <4>0, <4>3
        <5>2. next <= t
          BY <2>0, <4>0, <4>3
        <5> HIDE DEF I, E
        <5> QED
          BY <3>4, <3>7, <5>1, <5>2
      <4> QED
        BY <1>0, <2>0, <4>0, <4>1, <4>2, <4>3
    <3> HIDE DEF I, E
    <3>8. ASSUME ~ NoSpace(R)
          PROVE  /\ EmptySlotsOf(R) \subseteq Slots /\ IsFiniteSet(EmptySlotsOf(R))
                 /\ Cardinality(EmptySlotsOf(R)) = k
                 /\ \A e \in EmptySlotsOf(R) : e >= s /\ e \notin UsedSlots(q)
                 /\ \A t \in Slots : \A e \in EmptySlotsOf(R) :
                      s <= t /\ t <= e => t \in UsedSlots(q) \cup EmptySlotsOf(R)
      BY <2>2, <2>6, <3>4, <3>5, <3>6, <3>7, <3>8
    <3> QED
      BY <1>1, <2>4, <2>5, <3>2, <3>8 DEF FoundRuns
  <2> QED
    BY <2>9, <2>10
<1> QED
  BY <1>2, <1>3

\* find_next_empty_slot_runs_of_size_n finds n empty slots, the first ones from
\* `from` on, or notices that the table has not got them.
LEMMA FindEmptySlotRunsExact ==
    ASSUME NEW q, Paired(q), OffsetsCut(q), NEW from \in Nat, NEW n \in Nat \ {0}
    PROVE  FoundRuns(q, from, n, FindEmptySlotRuns(q, from, n))
<1>1. PICK g : g = (CHOOSE h : FindsRuns(q, h))
  OBVIOUS
<1>2. FindsRuns(q, g)
  BY <1>1, RunsExist
<1>3. FindEmptySlotRuns(q, from, n) = g[<< from, n >>]
  BY <1>1 DEF FindEmptySlotRuns, FindsRuns, RunsFrom
<1>4. \A s, k \in Nat : g[<< s, k >>] = RunsFrom(q, g, s, k)
  <2> DEFINE step(x) == RunsFrom(q, g, x[1], x[2])
  <2>1. g = [x \in Nat \X Nat |-> step(x)]
    BY <1>2 DEF FindsRuns
  <2> HIDE DEF step
  <2>2. \A s, k \in Nat : g[<< s, k >>] = step(<< s, k >>)
    BY <2>1
  <2> QED
    BY <2>2 DEF step
<1>5. \A s \in Nat : g[<< s, 0 >>] = << >>
  <2>1. \A s \in Nat : RunsFrom(q, g, s, 0) = << >>
    BY DEF RunsFrom
  <2> QED
    BY <1>4, <2>1
<1>6. ASSUME NEW s \in Nat, NEW k \in Nat \ {0},
             \A t \in Nat : t > s /\ t < XNSlots => \A j \in Nat \ {0} : FoundRuns(q, t, j, g[<< t, j >>])
      PROVE  FoundRuns(q, s, k, g[<< s, k >>])
  <2>1. PICK first \in Nat, len \in 1 .. k :
             /\ StepClaims(q, s, k, first, len)
             /\ \A e : RunsFrom(q, e, s, k) = RunsAfter(e, k, first, len)
    BY ClaimStep
  <2>2. first + len \in Nat /\ first + len > s /\ k - len \in Nat
    BY <2>1 DEF StepClaims
  <2>3. g[<< s, k >>] = RunsAfter(g, k, first, len)
    BY <1>4, <2>1
  <2>4. k = len => g[<< first + len, k - len >>] = << >>
    <3>1. k = len => k - len = 0
      OBVIOUS
    <3> QED
      BY <1>5, <2>2, <3>1
  <2>5. k # len /\ first + len < XNSlots => FoundRuns(q, first + len, k - len, g[<< first + len, k - len >>])
    <3>1. k # len => k - len \in Nat \ {0}
      BY <2>2
    <3> QED
      BY <1>6, <2>2, <3>1
  <2> QED
    BY <2>1, <2>3, <2>4, <2>5, FoundStep
<1> DEFINE T == {m \in Nat : \A s \in Nat : s >= m => \A k \in Nat \ {0} : FoundRuns(q, s, k, g[<< s, k >>])}
<1>7. XNSlots \in Nat /\ XNSlots \in T
  <2>1. XNSlots \in Nat
    BY GeometryAssumption
  <2>2. ASSUME NEW s \in Nat, s >= XNSlots, NEW k \in Nat \ {0} PROVE FoundRuns(q, s, k, g[<< s, k >>])
    <3>1. \A t \in Nat : ~ (t > s /\ t < XNSlots)
      BY <2>1, <2>2
    <3> QED
      BY <1>6, <3>1
  <2> QED
    BY <2>1, <2>2
<1>8. PICK m \in T : \A j \in T : m <= j
  BY <1>7, LeastNatural
<1>9. m \in Nat /\ \A s \in Nat : s >= m => \A k \in Nat \ {0} : FoundRuns(q, s, k, g[<< s, k >>])
  BY <1>8
<1>10. m = 0
  <2>1. SUFFICES ASSUME m # 0 PROVE FALSE
    OBVIOUS
  <2>2. PICK l \in Nat : m = l + 1 /\ ~ (m <= l)
    BY <1>9, <2>1
  <2>3. ASSUME NEW s \in Nat, s >= l, NEW k \in Nat \ {0} PROVE FoundRuns(q, s, k, g[<< s, k >>])
    <3>1. \A t \in Nat : t > s => t >= m
      BY <2>2, <2>3
    <3>2. \A t \in Nat : t > s /\ t < XNSlots => \A j \in Nat \ {0} : FoundRuns(q, t, j, g[<< t, j >>])
      BY <1>9, <3>1
    <3> QED
      BY <1>6, <3>2
  <2>4. l \in T
    BY <2>3
  <2> QED
    BY <1>8, <2>2, <2>4
<1>11. from >= m
  BY <1>10
<1> QED
  BY <1>3, <1>9, <1>11

(***************************************************************************)
(* Accurate metadata, and the tables that read alike.                      *)
(***************************************************************************)

\* Occupied buckets pair with runends, every offset is the spill it stands for,
\* and noccupied_slots counts the slots in use.
Accurate(q) ==
    /\ Paired(q) /\ OffsetsCut(q)
    /\ q.noccupied_slots = Cardinality(UsedSlots(q))

Fields == {"occupieds", "runends", "offset", "slots", "noccupied_slots", "nelts", "ndistinct_elts"}

\* A filter as far as the metadata goes.
Shaped(q) == DOMAIN q = Fields /\ DOMAIN q.offset = 0 .. NBlocks - 1

SameRuns(q, r) == r.occupieds = q.occupieds /\ r.runends = q.runends

RunendBy(O, R, b) == CHOOSE e \in R : UpTo(R, e) = UpTo(O, b)

LastUsedBy(O, R, b) ==
    LET before == {o \in O : o <= b}
    IN  IF before = {} THEN -1 ELSE RunendBy(O, R, Max(before))

UsedBy(O, R) ==
    UNION {Max({b, LastUsedBy(O, R, b - 1) + 1}) .. RunendBy(O, R, b) : b \in O}

LEMMA SameReading ==
    ASSUME NEW q, NEW r, SameRuns(q, r)
    PROVE  /\ \A b : RunendOf(r, b) = RunendOf(q, b) /\ LastUsed(r, b) = LastUsed(q, b)
           /\ UsedSlots(r) = UsedSlots(q)
           /\ Paired(q) => Paired(r)
           /\ \A k : Spill(r, k) = Spill(q, k)
<1>1. \A t, b : RunendOf(t, b) = RunendBy(t.occupieds, t.runends, b)
  BY DEF RunendOf, RunendBy
<1>2. \A t, b : LastUsed(t, b) = LastUsedBy(t.occupieds, t.runends, b)
  BY <1>1 DEF LastUsed, LastUsedBy
<1>3. \A t : UsedSlots(t) = UsedBy(t.occupieds, t.runends)
  <2>1. \A t, b : RunOf(t, b) = Max({b, LastUsedBy(t.occupieds, t.runends, b - 1) + 1})
                                .. RunendBy(t.occupieds, t.runends, b)
    BY <1>1, <1>2 DEF RunOf
  <2> QED
    BY <2>1 DEF UsedSlots, UsedBy
<1>4. \A b : RunendOf(r, b) = RunendOf(q, b) /\ LastUsed(r, b) = LastUsed(q, b)
  BY <1>1, <1>2 DEF SameRuns
<1>5. UsedSlots(r) = UsedSlots(q)
  BY <1>3 DEF SameRuns
<1>6. Paired(q) => Paired(r)
  BY <1>4 DEF Paired, SameRuns
<1>7. \A k : Spill(r, k) = Spill(q, k)
  BY <1>4 DEF Spill
<1> QED
  BY <1>4, <1>5, <1>6, <1>7

LEMMA SameAccuracy ==
    ASSUME NEW q, NEW r, Accurate(q), SameRuns(q, r), r.offset = q.offset,
           r.noccupied_slots = q.noccupied_slots
    PROVE  Accurate(r)
<1>1. Paired(r) /\ UsedSlots(r) = UsedSlots(q) /\ \A k : Spill(r, k) = Spill(q, k)
  BY SameReading DEF Accurate
<1>2. OffsetsCut(r)
  BY <1>1 DEF Accurate, OffsetsCut, OffsetsCutTo
<1> QED
  BY <1>1, <1>2 DEF Accurate

LEMMA OpenedAccurate ==
    ASSUME NEW q, Accurate(q), NEW b \in Buckets, NEW E, Claims(q, b, E),
           NEW r, OpensRuns(q, r, b, E), OpensOffsets(q, r, b, E),
           r.noccupied_slots = q.noccupied_slots + Cardinality(E)
    PROVE  Accurate(r)
<1>1. Paired(q) /\ OffsetsCut(q)
  BY DEF Accurate
<1>2. Paired(r) /\ OffsetsCut(r)
  BY <1>1, GapReads, GapOffsets
<1>3. Cardinality(UsedSlots(r)) = Cardinality(UsedSlots(q)) + Cardinality(E)
  BY <1>1, GapUses
<1> QED
  BY <1>2, <1>3 DEF Accurate

LEMMA BumpedOffsets ==
    ASSUME NEW q, Shaped(q), NEW b, NEW runs, NEW n, n = Cardinality(EmptySlotsOf(runs)),
           NEW r, r = BumpOffsets(q, b, runs, n)
    PROVE  /\ Shaped(r) /\ SameRuns(q, r) /\ r.noccupied_slots = q.noccupied_slots
           /\ r.slots = q.slots
           /\ OpensOffsets(q, r, b, EmptySlotsOf(runs))
<1> DEFINE E == EmptySlotsOf(runs)
           bumped == [k \in DOMAIN q.offset |->
                        IF k \in BlockOf(b) + 1 .. BlockOf(Max(E))
                        THEN Min({q.offset[k] + n - Cardinality({e \in E : e < BlockStart(k)}), MaxOffset})
                        ELSE q.offset[k]]
<1>1. r = [q EXCEPT !.offset = bumped]
  BY DEF BumpOffsets
<1>2. \A k \in 0 .. NBlocks - 1 :
        bumped[k] = IF k \in BlockOf(b) + 1 .. BlockOf(Max(E))
                    THEN Min({q.offset[k] + n - Cardinality({e \in E : e < BlockStart(k)}), MaxOffset})
                    ELSE q.offset[k]
  BY DEF Shaped
<1>3. DOMAIN bumped = 0 .. NBlocks - 1
  BY DEF Shaped
<1> HIDE DEF bumped, E
<1>4. /\ DOMAIN r = Fields /\ r.offset = bumped /\ r.occupieds = q.occupieds /\ r.runends = q.runends
      /\ r.noccupied_slots = q.noccupied_slots /\ r.slots = q.slots
  BY <1>1 DEF Shaped, Fields
<1>5. OpensOffsets(q, r, b, E)
  BY <1>2, <1>4 DEF OpensOffsets, E
<1> QED
  BY <1>3, <1>4, <1>5 DEF Shaped, SameRuns, E

\* The runends a call of shift_runends moves.
MovedFrom(q, rpos, E) == {e \in q.runends : rpos <= e /\ e <= Max(E) /\ e \notin E}

LEMMA ShiftedRuns ==
    ASSUME NEW q, Shaped(q), NEW pos, NEW rpos, NEW runs, NEW n, n = Cardinality(EmptySlotsOf(runs)),
           NEW r, r = ShiftInto(q, pos, rpos, runs, n), NEW E, E = EmptySlotsOf(runs)
    PROVE  /\ Shaped(r) /\ r.occupieds = q.occupieds /\ r.offset = q.offset
           /\ r.noccupied_slots = q.noccupied_slots
           /\ r.runends = (q.runends \ MovedFrom(q, rpos, E)) \cup {Shifted(E, e) : e \in MovedFrom(q, rpos, E)}
<1>1. /\ Shaped(r) /\ r.occupieds = q.occupieds /\ r.offset = q.offset
      /\ r.noccupied_slots = q.noccupied_slots
  BY DEF ShiftInto, Shaped, Fields
<1>2. r.runends = (q.runends \ MovedFrom(q, rpos, E))
                  \cup {e + n - Cardinality({x \in E : x < e}) : e \in MovedFrom(q, rpos, E)}
  BY DEF ShiftInto, Shaped, Fields, MovedFrom
<1> QED
  BY <1>1, <1>2 DEF Shifted

\* n empty slots E were found from slot `from` on, the first ones there are.
FoundSlots(q, from, n, E) ==
    /\ E \subseteq Slots /\ IsFiniteSet(E) /\ Cardinality(E) = n
    /\ \A e \in E : e >= from /\ e \notin UsedSlots(q)
    /\ \A t \in Slots : \A e \in E : from <= t /\ t <= e => t \in UsedSlots(q) \cup E

LEMMA SingleRun ==
    ASSUME NEW first \in Nat
    PROVE  /\ EmptySlotsOf(<< <<first, 1>> >>) = {first}
           /\ NoSpace(<< <<first, 1>> >>) <=> first >= XNSlots
<1>1. NoSpace(<< <<first, 1>> >>) <=> first >= XNSlots
  <2>1. Len(<< <<first, 1>> >>) = 1 /\ << <<first, 1>> >>[1] = <<first, 1>>
    OBVIOUS
  <2>2. XNSlots \in Int
    BY GeometryAssumption
  <2> QED
    BY <2>1, <2>2 DEF NoSpace
<1>2. EmptySlotsOf(<< <<first, 1>> >>) = {first}
  <2>1. << >> \in Seq(Nat \X Nat) /\ << <<first, 1>> >> \o << >> = << <<first, 1>> >>
    OBVIOUS
  <2>2. EmptySlotsOf(<< >>) = {}
    BY DEF EmptySlotsOf
  <2>5. PICK len \in Nat : len = 1
    OBVIOUS
  <2>7. PICK rest \in Seq(Nat \X Nat) : rest = << >>
    BY <2>1
  <2>6. EmptySlotsOf(<< <<first, len>> >> \o rest) = (first .. first + len - 1) \cup EmptySlotsOf(rest)
    BY EmptySlotsJoin
  <2>3. EmptySlotsOf(<< <<first, 1>> >>) = (first .. first + 1 - 1) \cup {}
    BY <2>1, <2>2, <2>5, <2>6, <2>7
  <2>4. first .. first + 1 - 1 = {first}
    OBVIOUS
  <2> QED
    BY <2>3, <2>4
<1> QED
  BY <1>1, <1>2

\* find_first_empty_slot finds one, if it is a slot at all.
LEMMA FirstEmptyFound ==
    ASSUME NEW q, Paired(q), OffsetsCut(q), NEW s \in Nat
    PROVE  /\ FindFirstEmptySlot(q, s) \in Nat
           /\ FindFirstEmptySlot(q, s) \in Slots =>
                /\ FoundSlots(q, s, 1, {FindFirstEmptySlot(q, s)})
                /\ s \in Slots /\ FindFirstEmptySlot(q, s) = FirstFrom(q, s)
           /\ s \in Slots /\ FindFirstEmptySlot(q, s) \notin Slots =>
                /\ FindFirstEmptySlot(q, s) = EndOfBlocks
                /\ \A t \in Slots : s <= t => t \in UsedSlots(q)
<1>0. EndOfBlocks \in Nat /\ s \in Int
  BY BlocksReach
<1>1. CASE s \in Slots
  <2> DEFINE f == FindFirstEmptySlot(q, s)
  <2>1. /\ f = FirstFrom(q, s) /\ f \in Candidates(q) /\ f >= s /\ f \in 0 .. EndOfBlocks
        /\ \A e \in Candidates(q) : e >= s => f <= e
    <3>1. s \in 0 .. EndOfBlocks
      BY <1>0, <1>1 DEF Slots
    <3>2. f = FirstFrom(q, s)
      BY <1>1, FindFirstEmptySlotExact
    <3> QED
      BY <3>1, <3>2, FirstFromIs
  <2> HIDE DEF f
  <2>2. ASSUME NEW t \in Slots, s <= t, t < f PROVE t \in UsedSlots(q)
    <3>1. t \notin UsedSlots(q) => t \in Candidates(q)
      BY DEF Candidates
    <3>2. t \in Int
      BY DEF Slots
    <3> QED
      BY <1>0, <2>1, <2>2, <3>1, <3>2
  <2>3. ASSUME f \in Slots PROVE FoundSlots(q, s, 1, {f})
    <3>1. f \notin UsedSlots(q)
      BY <1>0, <2>1, <2>3 DEF Candidates, Slots
    <3>2. IsFiniteSet({f}) /\ Cardinality({f}) = 1
      BY FS_Singleton
    <3>3. \A t \in Slots : \A e \in {f} : s <= t /\ t <= e => t \in UsedSlots(q) \cup {f}
      <4>1. ASSUME NEW t \in Slots, s <= t, t <= f PROVE t \in UsedSlots(q) \cup {f}
        <5>1. t < f \/ t = f
          BY <2>1, <4>1 DEF Slots
        <5> QED
          BY <2>2, <4>1, <5>1
      <4> QED
        BY <4>1
    <3> QED
      BY <2>1, <2>3, <3>1, <3>2, <3>3 DEF FoundSlots
  <2>4. ASSUME f \notin Slots PROVE f = EndOfBlocks /\ \A t \in Slots : s <= t => t \in UsedSlots(q)
    <3>1. f = EndOfBlocks
      BY <1>0, <2>1, <2>4 DEF Slots
    <3>2. \A t \in Slots : t < f
      BY <1>0, <3>1 DEF Slots
    <3> QED
      BY <2>2, <3>1, <3>2
  <2> QED
    BY <1>1, <2>1, <2>3, <2>4 DEF f
<1>2. CASE s \notin Slots
  <2>1. s >= EndOfBlocks
    BY <1>0, <1>2 DEF Slots
  <2>2. FindFirstEmptySlot(q, s) = s
    BY <2>1, SearchesExist
  <2> QED
    BY <1>2, <2>2
<1> QED
  BY <1>1, <1>2

(***************************************************************************)
(* Room inside a run, or right behind it, for a box that grows.            *)
(***************************************************************************)

\* The slots from a bucket on up to the last one its runs use are in use, and so
\* is every runend.
LEMMA UsedUpTo ==
    ASSUME NEW q, Paired(q), NEW b \in Slots
    PROVE  /\ \A s \in Int : b <= s /\ s <= LastUsed(q, b) => s \in Slots /\ s \in UsedSlots(q)
           /\ \A e \in q.runends : e \in UsedSlots(q) /\ e \in Slots
<1>0. b \in Int /\ b >= 0 /\ EndOfBlocks \in Nat
  BY BlocksReach DEF Slots
<1>1. ASSUME NEW s \in Int, b <= s, s <= LastUsed(q, b) PROVE s \in Slots /\ s \in UsedSlots(q)
  <2>1. PICK w \in Int : w = s - 1 /\ w >= -1
    BY <1>0, <1>1
  <2>2. LastUsed(q, b) \in Int /\ LastUsed(q, b) <= EndOfBlocks - 1
        /\ (LastUsed(q, b) <= w <=> Occupied(q, b) <= Ended(q, w))
    BY <1>0, <2>1, LastUsedAt
  <2>3. ~ (Occupied(q, b) <= Ended(q, w))
    BY <1>1, <2>1, <2>2
  <2>4. Occupied(q, b) <= Occupied(q, s) /\ Occupied(q, b) \in Int /\ Occupied(q, s) \in Int /\ Ended(q, w) \in Int
    BY <1>0, <1>1, <2>1, CountsGrow, Counts
  <2>5. s \in Slots /\ Pending(q, s)
    BY <1>0, <1>1, <2>1, <2>2, <2>3, <2>4 DEF Slots, Pending
  <2> QED
    BY <2>5, PendingUsed
<1>2. ASSUME NEW e \in q.runends PROVE e \in UsedSlots(q) /\ e \in Slots
  <2>1. e \in Slots /\ e \in Int
    BY DEF Paired, Slots
  <2>2. PICK w \in Int : w = e - 1
    BY <2>1
  <2>3. Ended(q, w) < Ended(q, e) /\ Ended(q, e) <= Occupied(q, e)
    BY <2>1, <2>2, CountReached, EndedWithinOccupied
  <2>4. Occupied(q, e) \in Int /\ Ended(q, e) \in Int /\ Ended(q, w) \in Int
    BY <2>1, <2>2, Counts
  <2>5. Pending(q, e)
    BY <2>2, <2>3, <2>4 DEF Pending
  <2> QED
    BY <2>1, <2>5, PendingUsed
<1> QED
  BY <1>1, <1>2

\* An occupied bucket's run ends at the last slot its runs use, the first runend
\* past those of earlier buckets.
LEMMA OwnRun ==
    ASSUME NEW q, Paired(q), NEW b \in q.occupieds
    PROVE  /\ b \in Slots /\ LastUsed(q, b) = RunendOf(q, b) /\ LastUsed(q, b - 1) \in Int
           /\ RunFirst(q, b) \in Nat /\ RunFirst(q, b) >= b /\ RunFirst(q, b) > LastUsed(q, b - 1)
           /\ RunendOf(q, b) \in q.runends /\ RunendOf(q, b) \in Slots /\ RunFirst(q, b) <= RunendOf(q, b)
           /\ \A e \in q.runends : e > LastUsed(q, b - 1) <=> e >= RunendOf(q, b)
           /\ \A e \in q.runends : e > LastUsed(q, b - 1) <=> e >= RunFirst(q, b)
<1>0. b \in Int /\ b >= 0 /\ b <= EndOfBlocks - 1 /\ EndOfBlocks \in Nat
  BY TableSets, BlocksReach
<1>1. b \in Slots
  BY <1>0 DEF Slots
<1>2. PICK w \in Int : w = b - 1
  BY <1>0
<1>3. /\ LastUsed(q, w) \in Int /\ LastUsed(q, w) >= -1
      /\ Ended(q, LastUsed(q, w)) = Occupied(q, w)
  BY EndedAtLast
<1>4. LastUsed(q, b) = RunendOf(q, b)
  <2>1. Max({o \in q.occupieds : o <= b}) = b
    <3>1. {o \in q.occupieds : o <= b} \in SUBSET Int /\ b \in {o \in q.occupieds : o <= b}
      BY <1>0, TableSets DEF IntegerSet
    <3> HIDE DEF RunendOf
    <3> QED
      BY <3>1, Greatest
  <2>2. {o \in q.occupieds : o <= b} # {}
    BY <1>0
  <2> QED
    BY <2>1, <2>2 DEF LastUsed
<1>5. /\ RunFirst(q, b) \in Nat
      /\ RunFirst(q, b) = (IF b >= LastUsed(q, w) + 1 THEN b ELSE LastUsed(q, w) + 1)
      /\ RunendOf(q, b) \in q.runends /\ RunendOf(q, b) \in Nat /\ RunendOf(q, b) < EndOfBlocks
      /\ RunFirst(q, b) <= RunendOf(q, b)
      /\ \A e \in q.runends : RunFirst(q, b) <= e => RunendOf(q, b) <= e
  BY <1>2, RunendIs
<1>6. RunFirst(q, b) >= b /\ RunFirst(q, b) > LastUsed(q, w) /\ RunendOf(q, b) \in Slots
  BY <1>0, <1>3, <1>5 DEF Slots
<1>7. ASSUME NEW e \in q.runends PROVE e > LastUsed(q, w) => e >= RunFirst(q, b)
  <2>1. e \in Int
    BY TableSets DEF IntegerSet
  <2>2. SUFFICES ASSUME e > LastUsed(q, w), e < b PROVE FALSE
    BY <1>0, <1>3, <1>5, <2>1
  <2>3. Ended(q, LastUsed(q, w)) < Ended(q, e)
    BY <1>3, <2>1, <2>2, CountReached
  <2>4. Ended(q, e) <= Occupied(q, e) /\ Occupied(q, e) <= Occupied(q, w)
    BY <1>0, <1>2, <2>1, <2>2, EndedWithinOccupied, CountsGrow
  <2>5. Occupied(q, w) \in Int /\ Ended(q, e) \in Int /\ Occupied(q, e) \in Int
    BY <2>1, Counts
  <2> QED
    BY <1>3, <2>3, <2>4, <2>5
<1>8. \A e \in q.runends : e \in Int
  BY TableSets DEF IntegerSet
<1>9. /\ \A e \in q.runends : e > LastUsed(q, w) <=> e >= RunendOf(q, b)
      /\ \A e \in q.runends : e > LastUsed(q, w) <=> e >= RunFirst(q, b)
  <2>1. PICK l, f, r \in Int : l = LastUsed(q, w) /\ f = RunFirst(q, b) /\ r = RunendOf(q, b)
    BY <1>3, <1>5
  <2>2. f > l /\ f <= r /\ \A e \in q.runends : f <= e => r <= e
    BY <1>5, <1>6, <2>1
  <2>3. ASSUME NEW e \in q.runends PROVE e > l => e >= f
    BY <1>7, <2>1
  <2>4. \A e \in q.runends : (e > l <=> e >= r) /\ (e > l <=> e >= f)
    BY <1>8, <2>2, <2>3
  <2> QED
    BY <2>1, <2>4
<1> HIDE DEF RunFirst
<1> QED
  BY <1>1, <1>2, <1>3, <1>4, <1>5, <1>6, <1>9

\* Runends shifted into claimed slots are the ones that opening the gap moves,
\* when they are those past the runs of earlier buckets.
LEMMA ShiftMoves ==
    ASSUME NEW q, Paired(q), NEW b \in Slots, NEW E, Claims(q, b, E), NEW rpos \in Int,
           \A e \in q.runends : rpos <= e <=> e > LastUsed(q, b - 1)
    PROVE  (q.runends \ MovedFrom(q, rpos, E)) \cup {Shifted(E, e) : e \in MovedFrom(q, rpos, E)}
             = MovedEnds(q, b, E)
<1> DEFINE M == MovedFrom(q, rpos, E)
<1>1. \A e \in q.runends : e \in Int /\ e \notin E
  <2>1. \A e \in q.runends : e \in UsedSlots(q)
    BY UsedUpTo
  <2>2. \A e \in E : e \notin UsedSlots(q)
    BY DEF Claims
  <2> QED
    BY <2>1, <2>2, TableSets DEF IntegerSet
<1>2. \A e \in q.runends : e > Max(E) => Shifted(E, e) = e
  <2>1. E \in SUBSET Slots /\ E # {}
    BY DEF Claims
  <2> QED
    BY <1>1, <2>1, Shifts
<1>3. Max(E) \in Int /\ LastUsed(q, b - 1) \in Int
  <2>1. E \in SUBSET Slots /\ E # {} /\ b - 1 \in Int
    BY DEF Claims, Slots
  <2> QED
    BY <2>1, ClaimedSet, EndedAtLast DEF Slots
<1>4. \A e \in q.runends : e \in M <=> e > LastUsed(q, b - 1) /\ e <= Max(E)
  BY <1>1 DEF MovedFrom
<1>5. ASSUME NEW e \in q.runends
      PROVE  MovedEnd(q, b, E, e) = IF e \in M THEN Shifted(E, e) ELSE e
  BY <1>1, <1>2, <1>3, <1>4 DEF MovedEnd
<1>6. M \subseteq q.runends
  BY DEF MovedFrom
<1> HIDE DEF M
<1>7. (q.runends \ M) \cup {Shifted(E, e) : e \in M} = {IF e \in M THEN Shifted(E, e) ELSE e : e \in q.runends}
  BY <1>6
<1>8. MovedEnds(q, b, E) = {IF e \in M THEN Shifted(E, e) ELSE e : e \in q.runends}
  BY <1>5 DEF MovedEnds
<1> QED
  BY <1>7, <1>8 DEF M

\* What make_empty_slot_for_memento_list and make_n_empty_slots_for_memento_list
\* do with the empty slots they found.
LEMMA OpenSlotsAccurate ==
    ASSUME NEW q, Accurate(q), Shaped(q), NEW b \in q.occupieds, NEW pos \in Int,
           RunFirst(q, b) < pos, pos <= RunendOf(q, b) + 1,
           NEW runs, NEW n \in Nat \ {0}, ~ NoSpace(runs), FoundSlots(q, pos, n, EmptySlotsOf(runs)),
           NEW r, r = OpenSlots(q, b, pos, runs, n).qf
    PROVE  Accurate(r) /\ Shaped(r)
<1> DEFINE E == EmptySlotsOf(runs)
           s == ShiftInto(q, pos, pos - 1, runs, n)
           t == BumpOffsets(s, b, runs, n)
<1>1. Paired(q) /\ OffsetsCut(q) /\ b \in Slots /\ b \in Buckets
  BY OwnRun DEF Accurate, Paired
<1>2. /\ E \in SUBSET Slots /\ E # {} /\ n = Cardinality(E)
  <2>1. E \subseteq Slots /\ Cardinality(E) = n
    BY DEF FoundSlots
  <2> HIDE DEF E
  <2> QED
    BY <2>1, FS_EmptySet
<1>3. Claims(q, b, E)
  <2>1. \A e \in E : e >= b /\ e \notin UsedSlots(q)
    <3>1. \A e \in E : e >= pos /\ e \in Int /\ e \notin UsedSlots(q)
      BY DEF FoundSlots, Slots
    <3>2. RunFirst(q, b) >= b /\ RunFirst(q, b) \in Nat /\ b \in Int
      BY <1>1, OwnRun DEF Slots
    <3> HIDE DEF E
    <3> QED
      BY <3>1, <3>2
  <2>2. ASSUME NEW x \in b .. Max(E) PROVE x \in UsedSlots(q) \cup E
    <3>1. Max(E) \in E /\ Max(E) \in Slots
      BY <1>2, ClaimedSet
    <3>2. x \in Slots /\ x \in Int /\ x <= Max(E) /\ b <= x
      BY <1>1, <3>1, BlocksReach DEF Slots
    <3>3. CASE pos <= x
      BY <3>1, <3>2, <3>3 DEF FoundSlots
    <3>4. CASE ~ (pos <= x)
      <4>1. x <= LastUsed(q, b)
        BY <1>1, <3>2, <3>4, OwnRun DEF Slots
      <4> QED
        BY <1>1, <3>2, <4>1, UsedUpTo
    <3> QED
      BY <3>3, <3>4
  <2> QED
    BY <1>2, <2>1, <2>2 DEF Claims
<1>4. /\ Shaped(s) /\ s.occupieds = q.occupieds /\ s.offset = q.offset
      /\ s.noccupied_slots = q.noccupied_slots
      /\ s.runends = (q.runends \ MovedFrom(q, pos - 1, E)) \cup {Shifted(E, e) : e \in MovedFrom(q, pos - 1, E)}
  BY <1>2, ShiftedRuns
<1>5. s.runends = MovedEnds(q, b, E)
  <2>1. \A e \in q.runends : pos - 1 <= e <=> e > LastUsed(q, b - 1)
    <3>1. \A e \in q.runends : e \in Int
      BY <1>1, TableSets DEF IntegerSet
    <3>2. /\ RunendOf(q, b) \in Int /\ LastUsed(q, b - 1) \in Int /\ RunFirst(q, b) \in Int
          /\ \A e \in q.runends : e > LastUsed(q, b - 1) <=> e >= RunendOf(q, b)
          /\ \A e \in q.runends : e > LastUsed(q, b - 1) <=> e >= RunFirst(q, b)
      BY <1>1, OwnRun DEF Slots
    <3> QED
      BY <3>1, <3>2
  <2>2. PICK rpos \in Int : rpos = pos - 1
    OBVIOUS
  <2> HIDE DEF E, s
  <2> QED
    BY <1>1, <1>3, <1>4, <2>1, <2>2, ShiftMoves
<1> HIDE DEF s
<1>6. Shaped(t) /\ SameRuns(s, t) /\ t.noccupied_slots = s.noccupied_slots /\ OpensOffsets(s, t, b, E)
  BY <1>2, <1>4, BumpedOffsets
<1> HIDE DEF t
<1>7. r = [t EXCEPT !.noccupied_slots = @ + n]
  BY DEF OpenSlots, t, s
<1>8. /\ Shaped(r) /\ r.occupieds = t.occupieds /\ r.runends = t.runends /\ r.offset = t.offset
      /\ r.noccupied_slots = t.noccupied_slots + n
  BY <1>6, <1>7 DEF Shaped, Fields
<1> HIDE DEF E
<1>9. OpensRuns(q, r, b, E)
  <2>1. r.occupieds = q.occupieds /\ q.occupieds = q.occupieds \cup {b}
    BY <1>4, <1>6, <1>8 DEF SameRuns
  <2>2. r.runends = MovedEnds(q, b, E)
    BY <1>5, <1>6, <1>8 DEF SameRuns
  <2> QED
    BY <2>1, <2>2 DEF OpensRuns
<1>10. OpensOffsets(q, r, b, E)
  BY <1>4, <1>6, <1>8 DEF OpensOffsets
<1>11. r.noccupied_slots = q.noccupied_slots + Cardinality(E)
  BY <1>2, <1>4, <1>6, <1>8
<1> QED
  BY <1>1, <1>3, <1>8, <1>9, <1>10, <1>11, OpenedAccurate
LEMMA RoomMade ==
    ASSUME NEW q, Accurate(q), Shaped(q), NEW b \in q.occupieds, NEW pos \in Int,
           RunFirst(q, b) < pos, pos <= RunendOf(q, b) + 1
    PROVE  /\ Accurate(MakeEmptySlot(q, b, pos).qf) /\ Shaped(MakeEmptySlot(q, b, pos).qf)
           /\ \A n \in Nat \ {0} : /\ Accurate(MakeNEmptySlots(q, b, pos, n).qf)
                                   /\ Shaped(MakeNEmptySlots(q, b, pos, n).qf)
<1>1. Paired(q) /\ OffsetsCut(q) /\ pos \in Nat
  <2>1. Paired(q) /\ OffsetsCut(q)
    BY DEF Accurate
  <2>2. RunFirst(q, b) \in Nat
    BY <2>1, OwnRun
  <2> QED
    BY <2>1, <2>2
<1>2. \A runs, n : NoSpace(runs) => OpenSlots(q, b, pos, runs, n).qf = q
  BY DEF OpenSlots
<1>3. ASSUME NEW runs, NEW n \in Nat \ {0}, ~ NoSpace(runs) => FoundSlots(q, pos, n, EmptySlotsOf(runs))
      PROVE  Accurate(OpenSlots(q, b, pos, runs, n).qf) /\ Shaped(OpenSlots(q, b, pos, runs, n).qf)
  <2>1. CASE NoSpace(runs)
    BY <1>2, <2>1
  <2>2. CASE ~ NoSpace(runs)
    BY <1>3, <2>2, OpenSlotsAccurate
  <2> QED
    BY <2>1, <2>2
<1>4. PICK first \in Nat : first = FindFirstEmptySlot(q, pos)
  BY <1>1, FirstEmptyFound
<1>5. ~ NoSpace(<< <<first, 1>> >>) => FoundSlots(q, pos, 1, EmptySlotsOf(<< <<first, 1>> >>))
  <2>1. EmptySlotsOf(<< <<first, 1>> >>) = {first} /\ (NoSpace(<< <<first, 1>> >>) <=> first >= XNSlots)
    BY SingleRun
  <2>2. first < XNSlots => first \in Slots
    BY BlocksReach, GeometryAssumption DEF Slots
  <2>3. first \in Slots => FoundSlots(q, pos, 1, {first})
    BY <1>1, <1>4, FirstEmptyFound
  <2>4. XNSlots \in Int
    BY GeometryAssumption
  <2> QED
    BY <2>1, <2>2, <2>3, <2>4
<1>6. Accurate(MakeEmptySlot(q, b, pos).qf) /\ Shaped(MakeEmptySlot(q, b, pos).qf)
  <2>1. PICK one \in Nat \ {0} : one = 1
    OBVIOUS
  <2>2. MakeEmptySlot(q, b, pos) = OpenSlots(q, b, pos, << <<first, 1>> >>, one)
    BY <1>4, <2>1 DEF MakeEmptySlot
  <2> QED
    BY <1>3, <1>5, <2>1, <2>2
<1>7. ASSUME NEW n \in Nat \ {0}
      PROVE  Accurate(MakeNEmptySlots(q, b, pos, n).qf) /\ Shaped(MakeNEmptySlots(q, b, pos, n).qf)
  <2>1. PICK runs : runs = FindEmptySlotRuns(q, pos, n) /\ FoundRuns(q, pos, n, runs)
    BY <1>1, FindEmptySlotRunsExact
  <2>2. ~ NoSpace(runs) => FoundSlots(q, pos, n, EmptySlotsOf(runs))
    BY <2>1 DEF FoundRuns, FoundSlots
  <2> QED
    BY <1>3, <2>1, <2>2 DEF MakeNEmptySlots
<1> QED
  BY <1>6, <1>7

\* The boxes of a bucket lie in its run.
LEMMA BoxesInRun ==
    ASSUME TypeOK, RunsWellFormed, NEW b \in qf.occupieds,
           NEW s, s = BoxesIn(qf, b), NEW j \in 1 .. Len(s)
    PROVE  /\ s[j] \in Nat /\ RunFirst(qf, b) <= s[j]
           /\ BoxLen(qf, s[j]) \in Nat \ {0}
           /\ s[j] + BoxLen(qf, s[j]) - 1 <= RunendOf(qf, b)
<1>1. Paired(qf) /\ SlotsTyped(qf)
  BY DEF TypeOK, Filters, RunsWellFormed, Paired, SlotsTyped
<1>2. IsRun(qf, s, RunendOf(qf, b)) /\ s[1] = RunFirst(qf, b) /\ RunFirst(qf, b) \in Nat
  BY <1>1, RunOfBucket, OwnRun
<1>3. PICK n \in Nat \ {0} : n = Len(s)
  BY <1>2 DEF IsRun
<1>4. PICK l \in Nat : l = RunendOf(qf, b)
  BY <1>2 DEF IsRun
<1>5. \A i \in 1 .. n : /\ s[i] \in Nat /\ s[i] <= l /\ BoxLen(qf, s[i]) \in Nat \ {0}
                        /\ i < n => s[i + 1] = s[i] + BoxLen(qf, s[i])
  <2>1. \A i \in 1 .. n : s[i] \in Nat /\ s[i] <= l /\ (i < n => s[i + 1] = s[i] + BoxLen(qf, s[i]))
    BY <1>2, <1>3, <1>4 DEF IsRun
  <2> QED
    BY <1>1, <2>1, BoxLenType
<1>6. \A i, k \in 1 .. n : i <= k => s[i] <= s[k]
  <2>1. \A i \in 1 .. n : s[i] \in Int
    BY <1>5
  <2>2. \A i \in 1 .. n - 1 : s[i] <= s[i + 1]
    <3>1. ASSUME NEW i \in 1 .. n - 1 PROVE s[i] <= s[i + 1]
      <4>1. i \in 1 .. n /\ i < n
        BY <1>3
      <4> QED
        BY <1>5, <4>1
    <3> QED
      BY <3>1
  <2> QED
    BY <2>1, <2>2, Ascending
<1>7. RunFirst(qf, b) <= s[j]
  <2>1. 1 \in 1 .. n /\ j \in 1 .. n /\ 1 <= j
    BY <1>3
  <2> QED
    BY <1>2, <1>6, <2>1
<1>8. s[j] + BoxLen(qf, s[j]) - 1 <= l
  <2>1. j \in 1 .. n
    BY <1>3
  <2>2. CASE j < n
    <3>1. j + 1 \in 1 .. n
      BY <2>1, <2>2
    <3>2. s[j + 1] \in Nat /\ s[j + 1] <= l /\ s[j + 1] = s[j] + BoxLen(qf, s[j])
      BY <1>5, <2>1, <2>2, <3>1
    <3> QED
      BY <1>5, <2>1, <3>2
  <2>3. CASE ~ (j < n)
    <3>1. j = n
      BY <2>1, <2>3
    <3>2. s[n] + BoxLen(qf, s[n]) - 1 = l
      BY <1>3, <1>4 DEF RunsWellFormed
    <3> QED
      BY <1>4, <3>1, <3>2
  <2> QED
    BY <2>2, <2>3
<1> QED
  BY <1>3, <1>4, <1>5, <1>7, <1>8

(***************************************************************************)
(* The slots a list takes.                                                 *)
(***************************************************************************)

\* A larger number divides no fewer times, and one more by the divisor more.
LEMMA Divides ==
    ASSUME NEW i \in Nat, NEW j \in Nat, NEW d \in Nat \ {0}
    PROVE  /\ i <= j => i \div d <= j \div d
           /\ i + d <= j => i \div d + 1 <= j \div d
<1>1. PICK x, y \in Nat : x = i \div d /\ y = j \div d
  BY Division
<1>2. x * d <= i /\ i < x * d + d /\ y * d <= j /\ j < y * d + d
  BY <1>1, Division
<1>3. ASSUME y < x PROVE y * d + d <= x * d
  <2>1. PICK k \in Nat : x = y + 1 + k
    <3>1. x - y - 1 \in Nat
      BY <1>3
    <3> QED
      BY <3>1
  <2>2. (y + 1 + k) * d = y * d + d + k * d
    OBVIOUS
  <2>3. k * d >= 0 /\ k * d \in Int /\ y * d \in Int
    OBVIOUS
  <2> QED
    BY <2>1, <2>2, <2>3
<1>4. x * d \in Int /\ y * d \in Int
  OBVIOUS
<1>5. i <= j => x <= y
  BY <1>2, <1>3, <1>4
<1>6. ASSUME i + d <= j PROVE x + 1 <= y
  <2>1. x <= y
    BY <1>5, <1>6
  <2>2. x # y
    BY <1>2, <1>4, <1>6
  <2> QED
    BY <2>1, <2>2
<1> QED
  BY <1>1, <1>5, <1>6

LEMMA SlotsForGrows ==
    ASSUME NEW i \in Nat, NEW j \in Nat, i <= j
    PROVE  SlotsFor(i) \in Nat /\ SlotsFor(j) \in Nat /\ SlotsFor(i) <= SlotsFor(j)
<1>1. PICK x, y \in Nat : x = i * MementoBits /\ y = j * MementoBits
  BY Widths
<1>2. x <= y
  <2>1. PICK k \in Nat : j = i + k
    <3>1. j - i \in Nat
      OBVIOUS
    <3> QED
      BY <3>1
  <2>2. (i + k) * MementoBits = i * MementoBits + k * MementoBits /\ k * MementoBits \in Nat
    BY Widths
  <2> QED
    BY <1>1, <2>1, <2>2
<1>3. PICK u, v, d \in Nat : /\ d = BitsPerSlot /\ d # 0 /\ u = x + BitsPerSlot - 1
                             /\ v = y + BitsPerSlot - 1 /\ u <= v
  BY <1>2, Widths
<1>4. u \div d \in Nat /\ v \div d \in Nat /\ u \div d <= v \div d
  BY <1>3, Division, Divides
<1> QED
  BY <1>1, <1>3, <1>4 DEF SlotsFor

\* Where add_memento_to_sorted_list makes room for a longer list is at most one
\* slot past the box, and the room is of slots.
LEMMA ListRoom ==
    ASSUME NEW q, SlotsTyped(q), NEW p \in Nat, IsBox(q, p), HasList(q, p)
    PROVE  /\ ListInsertIndex(q, p + 2) \in Nat
           /\ p + 2 < ListInsertIndex(q, p + 2) /\ ListInsertIndex(q, p + 2) <= p + BoxLen(q, p)
           /\ ExtraSlots(q, p + 2) \in Nat
<1>1. PICK at \in Nat : at = p + 2
  OBVIOUS
<1>2. PICK c, n \in Nat : c = CounterLen(q, at) /\ n = ListCount(q, at) /\ c >= 1
  <2>1. UnaryCount(q, at) \in Nat /\ ListCount(q, at) \in Nat
    BY UnaryCountType, ListCountType
  <2>2. CounterLen(q, at) \in Nat /\ CounterLen(q, at) >= 1
    BY <2>1 DEF CounterLen
  <2> QED
    BY <2>1, <2>2
<1>3. PICK before \in Nat : before = c - 1 + n /\ c + n = before + 1
  BY <1>2
<1>4. PICK x \in Nat : x = before * MementoBits /\ (before + 1) * MementoBits = x + MementoBits
  BY Widths
<1>5. PICK d \in Nat \ {0} : d = BitsPerSlot
  BY Widths
<1>6. PICK y \in Nat : y = x + MementoBits + BitsPerSlot - 1 /\ x + d <= y
  BY <1>5, Widths
<1>7. x \div d \in Nat /\ y \div d \in Nat /\ x \div d + 1 <= y \div d
  BY <1>6, Division, Divides
<1>8. ListInsertIndex(q, at) = at + x \div d + 1
  BY <1>2, <1>3, <1>4, <1>5 DEF ListInsertIndex
<1>9. BoxLen(q, p) = 2 + y \div d
  <2>1. BoxLen(q, p) = 2 + ListSlots(q, at)
    BY <1>1 DEF BoxLen
  <2>2. ListSlots(q, at) = y \div d
    BY <1>2, <1>3, <1>4, <1>5, <1>6 DEF ListSlots, SlotsFor
  <2> QED
    BY <2>1, <2>2
<1>10. ExtraSlots(q, at) \in Nat
  <2>1. PICK more \in Nat : /\ c + n <= more
                            /\ ExtraSlots(q, at) = SlotsFor(more) - SlotsFor(c + n)
    <3>1. PICK more \in Nat : more = c + n + 1 + IF n + 1 = MaxMemento^(UnaryCount(q, at) + 1) THEN 2 ELSE 0
      OBVIOUS
    <3>2. ExtraSlots(q, at) = SlotsFor(more) - SlotsFor(c + n)
      BY <1>2, <3>1 DEF ExtraSlots
    <3> QED
      BY <3>1, <3>2
  <2>2. c + n \in Nat
    OBVIOUS
  <2>3. SlotsFor(more) \in Nat /\ SlotsFor(c + n) \in Nat /\ SlotsFor(c + n) <= SlotsFor(more)
    BY <2>1, <2>2, SlotsForGrows
  <2> QED
    BY <2>1, <2>3
<1> QED
  BY <1>1, <1>7, <1>8, <1>9, <1>10

LEMMA RoomToGrowAccurate ==
    ASSUME NEW q, Accurate(q), Shaped(q), SlotsTyped(q), NEW b \in q.occupieds, NEW p \in Nat,
           RunFirst(q, b) <= p, p + BoxLen(q, p) - 1 <= RunendOf(q, b), NEW m
    PROVE  Accurate(RoomToGrow(q, b, p, m).qf) /\ Shaped(RoomToGrow(q, b, p, m).qf)
<1>1. RunFirst(q, b) \in Int /\ RunendOf(q, b) \in Int
  <2>1. Paired(q)
    BY DEF Accurate
  <2> QED
    BY <2>1, OwnRun DEF Slots
<1>2. ASSUME NEW pos \in Int, p < pos, pos <= p + BoxLen(q, p)
      PROVE  /\ Accurate(MakeEmptySlot(q, b, pos).qf) /\ Shaped(MakeEmptySlot(q, b, pos).qf)
             /\ \A n \in Nat \ {0} : /\ Accurate(MakeNEmptySlots(q, b, pos, n).qf)
                                     /\ Shaped(MakeNEmptySlots(q, b, pos, n).qf)
  <2>1. BoxLen(q, p) \in Nat
    BY BoxLenType
  <2>2. RunFirst(q, b) < pos /\ pos <= RunendOf(q, b) + 1
    BY <1>1, <1>2, <2>1
  <2> QED
    BY <2>2, RoomMade
<1>3. CASE ~ IsBox(q, p)
  <2>1. BoxLen(q, p) = 1
    BY <1>3 DEF BoxLen
  <2>2. PICK pos \in Int : pos = p + 1 /\ p < pos /\ pos <= p + BoxLen(q, p)
    BY <2>1
  <2>3. PICK two \in Nat \ {0} : two = 2
    OBVIOUS
  <2>4. RoomToGrow(q, b, p, m) = (IF m = MementoAt(q, p) THEN MakeNEmptySlots(q, b, pos, two)
                                  ELSE MakeEmptySlot(q, b, pos))
    BY <1>3, <2>2, <2>3 DEF RoomToGrow
  <2> QED
    BY <1>2, <2>2, <2>3, <2>4
<1>4. CASE IsBox(q, p) /\ ~ HasList(q, p)
  <2>1. BoxLen(q, p) = 2
    BY <1>4 DEF BoxLen
  <2>2. PICK pos, next \in Int : /\ pos = p + 1 /\ p < pos /\ pos <= p + BoxLen(q, p)
                                 /\ next = p + 2 /\ p < next /\ next <= p + BoxLen(q, p)
    BY <2>1
  <2>3. PICK two \in Nat \ {0} : two = 2
    OBVIOUS
  <2>4. RoomToGrow(q, b, p, m) = (IF BitsPerSlot < 2 * MementoBits THEN MakeNEmptySlots(q, b, pos, two)
                                  ELSE MakeEmptySlot(q, b, next))
    BY <1>4, <2>2, <2>3 DEF RoomToGrow
  <2> QED
    BY <1>2, <2>2, <2>3, <2>4
<1>5. CASE IsBox(q, p) /\ HasList(q, p)
  <2>1. PICK pos \in Nat : /\ pos = ListInsertIndex(q, p + 2)
                           /\ p < pos /\ pos <= p + BoxLen(q, p)
    BY <1>5, ListRoom
  <2>2. PICK n \in Nat : n = ExtraSlots(q, p + 2)
    BY <1>5, ListRoom
  <2>3. RoomToGrow(q, b, p, m) = (IF n = 0 THEN [ok |-> TRUE, qf |-> q] ELSE MakeNEmptySlots(q, b, pos, n))
    BY <1>5, <2>1, <2>2 DEF RoomToGrow
  <2>4. pos \in Int /\ (n # 0 => n \in Nat \ {0})
    BY <2>1, <2>2
  <2>5. CASE n = 0
    BY <2>3, <2>5
  <2>6. CASE n # 0
    BY <1>2, <2>1, <2>3, <2>4, <2>6
  <2> QED
    BY <2>5, <2>6
<1> QED
  BY <1>3, <1>4, <1>5

\* Writing slots or counting mementos does not touch the metadata.
LEMMA WrittenAccurate ==
    ASSUME NEW q, Accurate(q), Shaped(q), NEW pos, NEW values, NEW n
    PROVE  /\ Accurate(Write(q, pos, values)) /\ Shaped(Write(q, pos, values))
           /\ Accurate(Counted(q, n)) /\ Shaped(Counted(q, n))
<1>1. ASSUME NEW r, DOMAIN r = Fields, r.offset = q.offset, SameRuns(q, r),
             r.noccupied_slots = q.noccupied_slots
      PROVE  Accurate(r) /\ Shaped(r)
  BY <1>1, SameAccuracy DEF Shaped
<1>2. PICK r : r = Write(q, pos, values)
  OBVIOUS
<1>3. DOMAIN r = Fields /\ r.offset = q.offset /\ SameRuns(q, r) /\ r.noccupied_slots = q.noccupied_slots
  BY <1>2 DEF Write, Shaped, Fields, SameRuns
<1>4. PICK t : t = Counted(q, n)
  OBVIOUS
<1>5. DOMAIN t = Fields /\ t.offset = q.offset /\ SameRuns(q, t) /\ t.noccupied_slots = q.noccupied_slots
  BY <1>4 DEF Counted, Shaped, Fields, SameRuns
<1> QED
  BY <1>1, <1>2, <1>3, <1>4, <1>5

LEMMA AddMementoAccurate ==
    ASSUME NEW q, Accurate(q), Shaped(q), SlotsTyped(q), NEW b \in q.occupieds, NEW p \in Nat,
           RunFirst(q, b) <= p, p + BoxLen(q, p) - 1 <= RunendOf(q, b), NEW m
    PROVE  Accurate(AddMemento(q, b, p, m).qf) /\ Shaped(AddMemento(q, b, p, m).qf)
<1>1. PICK room : room = RoomToGrow(q, b, p, m)
  OBVIOUS
<1>2. Accurate(room.qf) /\ Shaped(room.qf)
  BY <1>1, RoomToGrowAccurate
<1>3. PICK new : new = PrefixSet(FingerprintAt(q, p), SortedInsert(BoxMementos(q, p), m))
  OBVIOUS
<1>4. AddMemento(q, b, p, m).qf = Write(room.qf, p, new) \/ AddMemento(q, b, p, m).qf = q
  BY <1>1, <1>3 DEF AddMemento
<1> QED
  BY <1>2, <1>4, WrittenAccurate

\* The filter's metadata is what the invariants say.
LEMMA AccurateFilter ==
    ASSUME TypeOK, RunsWellFormed, OffsetsExact, SlotsAccounted
    PROVE  Accurate(qf) /\ Shaped(qf) /\ SlotsTyped(qf)
<1>1. qf \in Filters
  BY DEF TypeOK
<1>2. Shaped(qf) /\ SlotsTyped(qf)
  BY <1>1 DEF Filters, Shaped, Fields, SlotsTyped
<1>3. Paired(qf)
  BY <1>1 DEF Filters, RunsWellFormed, Paired
<1>4. OffsetsCut(qf)
  BY DEF OffsetsExact, OffsetsCut, OffsetsCutTo, Spill
<1> QED
  BY <1>2, <1>3, <1>4 DEF Accurate, SlotsAccounted

LEMMA InsertJoiningAccurate ==
    ASSUME TypeOK, RunsWellFormed, OffsetsExact, SlotsAccounted,
           NEW b, NEW f \in Fingerprints, NEW m, InsertJoining(b, f, m)
    PROVE  Accurate(qf')
<1>1. Accurate(qf) /\ Shaped(qf) /\ SlotsTyped(qf) /\ Paired(qf) /\ OffsetsCut(qf)
  BY AccurateFilter DEF Accurate
<1>2. /\ b \in qf.occupieds
      /\ NextMatching(qf, RunStart(qf, b), f) # NoPos
  BY DEF InsertJoining, Joins, IsOccupied
<1>3. PICK p : p = NextMatching(qf, RunStart(qf, b), f)
  OBVIOUS
<1>4. p \in Nat /\ RunFirst(qf, b) <= p /\ p + BoxLen(qf, p) - 1 <= RunendOf(qf, b)
  <2>1. PICK s : s = BoxesIn(qf, b)
    OBVIOUS
  <2>2. IsRun(qf, s, RunendOf(qf, b)) /\ s[1] = RunStart(qf, b)
    BY <1>1, <1>2, <2>1, RunOfBucket, RunStartIs
  <2>3. PICK j \in 1 .. Len(s) : j = 1
    BY <2>2 DEF IsRun
  <2>4. f \in Nat
    BY PowerPositive, BitsAssumption DEF Fingerprints
  <2>5. \E i \in 1 .. Len(s) : NextMatching(qf, s[j], f) = s[i]
    BY <1>1, <1>2, <2>2, <2>3, <2>4, NextMatchingInRun
  <2>6. PICK i \in 1 .. Len(s) : p = s[i]
    BY <1>3, <2>2, <2>3, <2>5
  <2> QED
    BY <1>2, <2>1, <2>6, BoxesInRun
<1>5. PICK added : added = AddMemento(qf, b, p, m)
  OBVIOUS
<1>6. Accurate(added.qf) /\ Shaped(added.qf)
  BY <1>1, <1>2, <1>4, <1>5, AddMementoAccurate
<1>7. Keep(added, 1)
  BY <1>3, <1>5 DEF InsertJoining
<1>8. qf' = Counted(added.qf, 1) \/ qf' = qf
  BY <1>7 DEF Keep, Return
<1> QED
  BY <1>1, <1>6, <1>8, WrittenAccurate


(***************************************************************************)
(* What a box and a search of a run read.                                  *)
(***************************************************************************)

\* A symbol lies in a slot and the one after it.
LEMMA SymbolReads ==
    ASSUME NEW q, NEW r, SlotsTyped(q), SlotsTyped(r), NEW p \in Nat, NEW n \in Nat,
           \A x \in p .. p + n : SlotAt(r, x) = SlotAt(q, x),
           NEW i \in Nat, (i * MementoBits) \div BitsPerSlot + 1 <= n
    PROVE  Symbol(r, p, i) = Symbol(q, p, i)
<1>1. PICK first \in Nat : first = (i * MementoBits) \div BitsPerSlot
  <2>1. i * MementoBits \in Nat
    BY Widths
  <2> QED
    BY <2>1, Widths, Division
<1>2. ASSUME NEW j \in 0 .. n
      PROVE  SlotAt(r, p + j + (IF j < EndOfBlocks THEN 0 ELSE 1))
               = SlotAt(q, p + j + (IF j < EndOfBlocks THEN 0 ELSE 1))
  <2>1. EndOfBlocks \in Nat
    BY BlocksReach
  <2>2. CASE j < EndOfBlocks
    <3>1. p + j \in p .. p + n /\ p + j + 0 = p + j
      OBVIOUS
    <3> QED
      BY <2>2, <3>1
  <2>3. CASE ~ (j < EndOfBlocks)
    <3>1. PICK x \in Nat : x = p + j + 1 /\ x \notin Slots
      BY <2>1, <2>3 DEF Slots
    <3>2. SlotAt(r, x) = 0 /\ SlotAt(q, x) = 0
      BY <3>1 DEF SlotAt, SlotsTyped
    <3> QED
      BY <2>3, <3>1, <3>2
  <2> QED
    BY <2>2, <2>3
<1>3. first \in 0 .. n /\ first + 1 \in 0 .. n
  BY <1>1
<1> DEFINE slot(t, j) == SlotAt(t, p + j + (IF j < EndOfBlocks THEN 0 ELSE 1))
<1>4. slot(r, first) = slot(q, first) /\ slot(r, first + 1) = slot(q, first + 1)
  BY <1>2, <1>3
<1>5. \A t : Symbol(t, p, i) =
        ((slot(t, first) + slot(t, first + 1) * 2^BitsPerSlot)
           \div 2^((i * MementoBits) % BitsPerSlot)) % 2^MementoBits
  BY <1>1 DEF Symbol, SymbolSkipping
<1> HIDE DEF slot
<1> QED
  BY <1>4, <1>5

\* The symbols of a list lie in its slots.
LEMMA SymbolInList ==
    ASSUME NEW n \in Nat, NEW i \in Nat, i < n
    PROVE  (i * MementoBits) \div BitsPerSlot + 1 <= SlotsFor(n)
<1>1. PICK k \in Nat : n = i + 1 + k
  <2>1. n - i - 1 \in Nat
    OBVIOUS
  <2> QED
    BY <2>1
<1>2. PICK x, y, z \in Nat : x = i * MementoBits /\ y = n * MementoBits /\ z = k * MementoBits
  BY Widths
<1>3. y = x + MementoBits + z
  <2>1. (i + 1 + k) * MementoBits = i * MementoBits + MementoBits + k * MementoBits
    BY Widths
  <2> QED
    BY <1>1, <1>2, <2>1
<1>4. PICK d, w \in Nat : d = BitsPerSlot /\ d # 0 /\ w = y + BitsPerSlot - 1 /\ x + d <= w
  BY <1>3, Widths
<1>5. x \div d + 1 <= w \div d
  BY <1>4, Divides
<1> QED
  BY <1>2, <1>4, <1>5 DEF SlotsFor

\* Tables with the same symbols of a list have the same list.
LEMMA SameList ==
    ASSUME NEW q, NEW r, SlotsTyped(q), SlotsTyped(r), NEW p \in Nat,
           \A i \in Nat : i < CounterLen(q, p) + ListCount(q, p) => Symbol(r, p, i) = Symbol(q, p, i)
    PROVE  UnaryCount(r, p) = UnaryCount(q, p) /\ ListCount(r, p) = ListCount(q, p)
<1>1. PICK g : CountsUnary(q, p, g) /\ UnaryCount(q, p) = g[0] /\ g[0] \in Nat
  BY UnaryCountIs
<1>2. PICK h : CountsUnary(r, p, h) /\ UnaryCount(r, p) = h[0] /\ h[0] \in Nat
  BY UnaryCountIs
<1>3. PICK u \in Nat : u = UnaryCount(q, p)
  BY <1>1
<1>4. PICK n \in Nat : n = ListCount(q, p)
  BY ListCountType
<1>5. \A i \in 0 .. 2 * u : Symbol(r, p, i) = Symbol(q, p, i)
  <2>1. \A i \in 0 .. 2 * u : i \in Nat /\ i < 2 * u + 1 + n
    OBVIOUS
  <2>2. CounterLen(q, p) + ListCount(q, p) = 2 * u + 1 + n
    BY <1>3, <1>4 DEF CounterLen
  <2> QED
    BY <2>1, <2>2
<1>6. h[0] = u
  <2>1. ASSUME NEW i \in Nat
        PROVE  /\ g[i] = IF i >= 4 \/ Symbol(q, p, i) # MaxMemento THEN i ELSE g[i + 1]
               /\ h[i] = IF i >= 4 \/ Symbol(r, p, i) # MaxMemento THEN i ELSE h[i + 1]
    BY <1>1, <1>2 DEF CountsUnary, MaxDigits
  <2> DEFINE s == [i \in Nat |-> Symbol(q, p, i) = MaxMemento]
             t == [i \in Nat |-> Symbol(r, p, i) = MaxMemento]
  <2>2. \A i \in Nat : (s[i] <=> Symbol(q, p, i) = MaxMemento) /\ (t[i] <=> Symbol(r, p, i) = MaxMemento)
    OBVIOUS
  <2>12. \A i \in 0 .. u : i \in Nat /\ Symbol(r, p, i) = Symbol(q, p, i)
    BY <1>5
  <2> HIDE DEF s, t
  <2>3. /\ \A i \in Nat : g[i] = IF i >= 4 \/ ~ s[i] THEN i ELSE g[i + 1]
        /\ \A i \in Nat : h[i] = IF i >= 4 \/ ~ t[i] THEN i ELSE h[i + 1]
        /\ \A i \in 0 .. u : t[i] <=> s[i]
    <3>1. \A i \in Nat : g[i] = IF i >= 4 \/ ~ s[i] THEN i ELSE g[i + 1]
      BY <2>1, <2>2
    <3>2. \A i \in Nat : h[i] = IF i >= 4 \/ ~ t[i] THEN i ELSE h[i + 1]
      BY <2>1, <2>2
    <3>3. \A i \in 0 .. u : t[i] <=> s[i]
      BY <2>2, <2>12, Zenon
    <3> QED
      BY <3>1, <3>2, <3>3
  <2>4. /\ g[0] = IF ~ s[0] THEN 0 ELSE g[1]
        /\ g[1] = IF ~ s[1] THEN 1 ELSE g[2]
        /\ g[2] = IF ~ s[2] THEN 2 ELSE g[3]
        /\ g[3] = IF ~ s[3] THEN 3 ELSE g[4]
        /\ g[4] = 4
    BY <2>3
  <2>5. /\ h[0] = IF ~ t[0] THEN 0 ELSE h[1]
        /\ h[1] = IF ~ t[1] THEN 1 ELSE h[2]
        /\ h[2] = IF ~ t[2] THEN 2 ELSE h[3]
        /\ h[3] = IF ~ t[3] THEN 3 ELSE h[4]
        /\ h[4] = 4
    BY <2>3
  <2>6. g[0] = u
    BY <1>1, <1>3
  <2>7. CASE ~ s[0]
    <3>1. u = 0 /\ 0 \in 0 .. u
      BY <2>4, <2>6, <2>7
    <3> QED
      BY <2>3, <2>5, <2>7, <3>1
  <2>8. CASE s[0] /\ ~ s[1]
    <3>1. u = 1 /\ 0 \in 0 .. u /\ 1 \in 0 .. u
      BY <2>4, <2>6, <2>8
    <3> QED
      BY <2>3, <2>5, <2>8, <3>1
  <2>9. CASE s[0] /\ s[1] /\ ~ s[2]
    <3>1. u = 2 /\ 0 \in 0 .. u /\ 1 \in 0 .. u /\ 2 \in 0 .. u
      BY <2>4, <2>6, <2>9
    <3> QED
      BY <2>3, <2>5, <2>9, <3>1
  <2>10. CASE s[0] /\ s[1] /\ s[2] /\ ~ s[3]
    <3>1. u = 3 /\ 0 \in 0 .. u /\ 1 \in 0 .. u /\ 2 \in 0 .. u /\ 3 \in 0 .. u
      BY <2>4, <2>6, <2>10
    <3> QED
      BY <2>3, <2>5, <2>10, <3>1
  <2>11. CASE s[0] /\ s[1] /\ s[2] /\ s[3]
    <3>1. u = 4 /\ 0 \in 0 .. u /\ 1 \in 0 .. u /\ 2 \in 0 .. u /\ 3 \in 0 .. u
      BY <2>4, <2>6, <2>11
    <3> QED
      BY <2>3, <2>5, <2>11, <3>1
  <2> QED
    BY <2>7, <2>8, <2>9, <2>10, <2>11
<1>7. UnaryCount(r, p) = u
  BY <1>2, <1>6
<1>8. PICK v : ValuesDigits(q, p, u, v) /\ ListCount(q, p) = v[0]
  BY <1>3, ListCountIs
<1>9. PICK w : ValuesDigits(r, p, u, w) /\ ListCount(r, p) = w[0]
  BY <1>7, ListCountIs
<1>10. \A k \in Nat : v[k] = w[k]
  <2> DEFINE stop == [k \in Nat |-> k > u]
             next == [k \in Nat |-> k + 1]
  <2>1. \A k \in Nat : /\ v[k] = IF k > u THEN 0 ELSE Symbol(q, p, u + k) + MaxMemento * v[k + 1]
                       /\ w[k] = IF k > u THEN 0 ELSE Symbol(r, p, u + k) + MaxMemento * w[k + 1]
    BY <1>8, <1>9 DEF ValuesDigits
  <2>2. \A k \in Nat : stop[k] <=> k > u
    OBVIOUS
  <2>3. \A k \in Nat : next[k] = k + 1 /\ k + 1 \in Nat /\ k + 1 > k
    OBVIOUS
  <2>4. \A k \in Nat : k >= u + 1 => k > u
    OBVIOUS
  <2>5. \A k \in Nat : ~ (k > u) => u + k \in 0 .. 2 * u
    OBVIOUS
  <2> HIDE DEF stop, next
  <2>6. \A k \in Nat : stop[k] => v[k] = w[k]
    BY <2>1, <2>2
  <2>7. \A k \in Nat : ~ stop[k] /\ v[next[k]] = w[next[k]] => v[k] = w[k]
    <3>1. ASSUME NEW k \in Nat, ~ stop[k], v[next[k]] = w[next[k]] PROVE v[k] = w[k]
      <4>1. Symbol(r, p, u + k) = Symbol(q, p, u + k)
        BY <1>5, <2>2, <2>5, <3>1
      <4>2. v[k + 1] = w[k + 1]
        BY <2>3, <3>1
      <4>3. /\ v[k] = Symbol(q, p, u + k) + MaxMemento * v[k + 1]
            /\ w[k] = Symbol(r, p, u + k) + MaxMemento * w[k + 1]
        BY <2>1, <2>2, <3>1
      <4> QED
        BY <4>1, <4>2, <4>3
    <3> QED
      BY <3>1
  <2>8. WalkAgrees(u + 1, stop, next, v, w)
    BY <2>2, <2>3, <2>4, <2>6, <2>7 DEF WalkAgrees
  <2>9. u + 1 \in Nat
    OBVIOUS
  <2> QED
    BY <2>8, <2>9, WalkUnique
<1> QED
  BY <1>3, <1>7, <1>8, <1>9, <1>10

\* The length of a box depends on its slots and the one after them.
LEMMA BoxLenReads ==
    ASSUME NEW q, NEW r, SlotsTyped(q), SlotsTyped(r), NEW p \in Nat,
           \A x \in p .. p + BoxLen(q, p) : SlotAt(r, x) = SlotAt(q, x),
           IsRunend(r, p) <=> IsRunend(q, p)
    PROVE  BoxLen(r, p) = BoxLen(q, p)
<1>1. PICK at \in Nat : at = p + 2
  OBVIOUS
<1>2. BoxLen(q, p) \in Nat \ {0} /\ p \in p .. p + BoxLen(q, p) /\ p + 1 \in p .. p + BoxLen(q, p)
  <2>1. PICK n \in Nat : n = BoxLen(q, p) /\ n # 0
    BY BoxLenType
  <2> QED
    BY <2>1
<1>3. SlotAt(r, p) = SlotAt(q, p) /\ SlotAt(r, p + 1) = SlotAt(q, p + 1)
  BY <1>2
<1>4. (IsBox(r, p) <=> IsBox(q, p)) /\ (HasList(r, p) <=> HasList(q, p))
  BY <1>3 DEF IsBox, HasList, FingerprintAt, MementoAt
<1>5. ASSUME IsBox(q, p), HasList(q, p) PROVE ListSlots(r, at) = ListSlots(q, at)
  <2>1. PICK n \in Nat : n = CounterLen(q, at) + ListCount(q, at)
    <3>1. CounterLen(q, at) \in Nat /\ ListCount(q, at) \in Nat
      BY BoxLenType, ListCountType
    <3> QED
      BY <3>1
  <2>2. PICK m \in Nat : m = SlotsFor(n)
    BY SlotsForGrows
  <2>3. BoxLen(q, p) = 2 + m
    BY <1>1, <1>5, <2>1, <2>2 DEF BoxLen, ListSlots
  <2>4. \A x \in at .. at + m : SlotAt(r, x) = SlotAt(q, x)
    <3>1. \A x \in at .. at + m : x \in p .. p + (2 + m)
      BY <1>1
    <3> QED
      BY <2>3, <3>1
  <2>5. ASSUME NEW i \in Nat, i < n PROVE Symbol(r, at, i) = Symbol(q, at, i)
    <3>1. (i * MementoBits) \div BitsPerSlot + 1 <= m
      BY <2>2, <2>5, SymbolInList
    <3> QED
      BY <2>4, <3>1, SymbolReads
  <2>6. UnaryCount(r, at) = UnaryCount(q, at) /\ ListCount(r, at) = ListCount(q, at)
    BY <2>1, <2>5, SameList
  <2> QED
    BY <2>6 DEF ListSlots, CounterLen
<1> QED
  BY <1>1, <1>4, <1>5 DEF BoxLen


\* The recursion of upper_bound_fingerprint_in_run.
Bounds(q, f, h) ==
    h = [i \in Nat |->
            IF i >= EndOfBlocks \/ f < FingerprintAt(q, i) THEN i
            ELSE IF IsRunend(q, i + BoxLen(q, i) - 1) THEN i + BoxLen(q, i)
            ELSE h[i + BoxLen(q, i)]]

LEMMA BoundsExist ==
    ASSUME NEW q, SlotsTyped(q), NEW f \in Nat
    PROVE  \E h : Bounds(q, f, h)
<1> DEFINE passed(i) == i >= EndOfBlocks \/ f < FingerprintAt(q, i)
           last(i) == IsRunend(q, i + BoxLen(q, i) - 1)
           found(i) == IF passed(i) THEN i ELSE i + BoxLen(q, i)
           stop == [i \in Nat |-> passed(i) \/ last(i)]
           base == [i \in Nat |-> found(i)]
           comb == [i \in Nat |-> [x \in Nat |-> x]]
           next == [i \in Nat |-> i + BoxLen(q, i)]
<1>1. EndOfBlocks \in Nat
  BY BlocksReach
<1>2. \A i \in Nat : i + BoxLen(q, i) \in Nat /\ i + BoxLen(q, i) > i
  BY BoxLenType
<1>3. Walks(EndOfBlocks, Nat, stop, base, comb, next)
  <2>1. \A i \in Nat : i >= EndOfBlocks => stop[i]
    OBVIOUS
  <2>2. base \in [Nat -> Nat]
    <3>1. \A i \in Nat : found(i) \in Nat
      BY <1>2
    <3> HIDE DEF found
    <3> QED
      BY <3>1
  <2>3. comb \in [Nat -> [Nat -> Nat]]
    OBVIOUS
  <2>4. \A i \in Nat : ~ stop[i] => next[i] \in Nat /\ next[i] > i
    <3> HIDE DEF stop
    <3> QED
      BY <1>2
  <2> HIDE DEF stop, base, comb, next
  <2> QED
    BY <2>1, <2>2, <2>3, <2>4 DEF Walks
<1>4. PICK h \in [Nat -> Nat] : \A i \in Nat : h[i] = WalkFrom(h, stop, base, comb, next, i)
  <2> HIDE DEF stop, base, comb, next
  <2> QED
    BY <1>1, <1>3, WalkExists
<1>5. ASSUME NEW i \in Nat
      PROVE  h[i] = IF passed(i) \/ last(i) THEN found(i) ELSE h[i + BoxLen(q, i)]
  <2>1. h[i] = IF stop[i] THEN base[i] ELSE comb[i][h[next[i]]]
    BY <1>4 DEF WalkFrom
  <2>2. PICK k \in Nat : k = i + BoxLen(q, i) /\ h[k] \in Nat
    BY <1>2
  <2>3. next[i] = k /\ base[i] = found(i) /\ stop[i] = (passed(i) \/ last(i))
    BY <2>2
  <2>4. comb[i][h[k]] = h[k]
    BY <2>2
  <2> HIDE DEF stop, base, comb, next, passed, last, found
  <2> QED
    BY <2>1, <2>2, <2>3, <2>4
<1>6. ASSUME NEW i \in Nat
      PROVE  h[i] = IF i >= EndOfBlocks \/ f < FingerprintAt(q, i) THEN i
                    ELSE IF IsRunend(q, i + BoxLen(q, i) - 1) THEN i + BoxLen(q, i)
                    ELSE h[i + BoxLen(q, i)]
  <2>1. h[i] = IF passed(i) \/ last(i) THEN found(i) ELSE h[i + BoxLen(q, i)]
    BY <1>5
  <2> HIDE DEF stop, base, comb, next
  <2> QED
    BY <2>1
<1> QED
  BY <1>6 DEF Bounds

LEMMA UpperBoundIs ==
    ASSUME NEW q, SlotsTyped(q), NEW f \in Nat
    PROVE  \E h : Bounds(q, f, h) /\ \A i : UpperBound(q, i, f) = h[i]
<1>1. PICK g : Bounds(q, f, g)
  BY BoundsExist
<1>2. PICK h : h = (CHOOSE k : Bounds(q, f, k))
  OBVIOUS
<1>3. Bounds(q, f, h)
  BY <1>1, <1>2
<1>4. \A i : UpperBound(q, i, f) = h[i]
  BY <1>2 DEF UpperBound, Bounds
<1> QED
  BY <1>3, <1>4

\* The boxes of a run are in its slots.
WithinRun(q, s, l) ==
    IsRun(q, s, l) /\ \A j \in 1 .. Len(s) : s[1] <= s[j] /\ s[j] + BoxLen(q, s[j]) - 1 <= l

\* A new box goes before a box of the run, or right behind the run.
LEMMA UpperBoundInRun ==
    ASSUME NEW q, SlotsTyped(q), NEW f \in Nat, NEW s, NEW l, WithinRun(q, s, l)
    PROVE  /\ UpperBound(q, s[1], f) \in Nat
           /\ s[1] <= UpperBound(q, s[1], f) /\ UpperBound(q, s[1], f) <= l + 1
<1>1. PICK h : Bounds(q, f, h) /\ \A i : UpperBound(q, i, f) = h[i]
  BY UpperBoundIs
<1>2. Len(s) \in Nat \ {0} /\ EndOfBlocks \in Nat /\ l \in Nat /\ l < EndOfBlocks
  BY BlocksReach DEF IsRun, WithinRun
<1>3. ASSUME NEW k \in 1 .. Len(s)
      PROVE  /\ s[k] \in Nat /\ s[1] \in Nat /\ s[1] <= s[k] /\ s[k] <= l
             /\ \E n \in Nat : n = s[k] + BoxLen(q, s[k]) /\ n <= l + 1 /\ s[1] <= n
                               /\ (h[s[k]] = s[k] \/ h[s[k]] = n \/ (k < Len(s) /\ h[s[k]] = h[s[k + 1]]))
  <2>1. s[k] \in Nat /\ s[1] \in Nat /\ s[1] <= s[k] /\ s[k] <= l
    BY <1>2 DEF IsRun, WithinRun
  <2>2. PICK n \in Nat : n = s[k] + BoxLen(q, s[k]) /\ n <= l + 1 /\ s[1] <= n
    <3>1. BoxLen(q, s[k]) \in Nat /\ s[k] + BoxLen(q, s[k]) - 1 <= l
      BY <2>1, BoxLenType DEF WithinRun
    <3> QED
      BY <1>2, <2>1, <3>1
  <2>3. h[s[k]] = IF s[k] >= EndOfBlocks \/ f < FingerprintAt(q, s[k]) THEN s[k]
                  ELSE IF IsRunend(q, s[k] + BoxLen(q, s[k]) - 1) THEN s[k] + BoxLen(q, s[k])
                  ELSE h[s[k] + BoxLen(q, s[k])]
    BY <1>1, <2>1 DEF Bounds
  <2>4. /\ IsRunend(q, s[k] + BoxLen(q, s[k]) - 1) <=> k = Len(s)
        /\ k < Len(s) => s[k + 1] = s[k] + BoxLen(q, s[k])
    BY DEF IsRun, WithinRun
  <2>5. k = Len(s) \/ k < Len(s)
    BY <1>2
  <2>6. h[s[k]] = s[k] \/ h[s[k]] = n \/ (k < Len(s) /\ h[s[k]] = h[s[k + 1]])
    BY <2>2, <2>3, <2>4, <2>5, Zenon
  <2> QED
    BY <2>1, <2>2, <2>6
<1> DEFINE Good == {k \in 1 .. Len(s) : h[s[k]] \in Nat /\ s[1] <= h[s[k]] /\ h[s[k]] <= l + 1}
<1>4. \A k \in 1 .. Len(s) : (k < Len(s) => k + 1 \in Good) => k \in Good
  <2>1. ASSUME NEW k \in 1 .. Len(s), k < Len(s) => k + 1 \in Good
        PROVE  h[s[k]] \in Nat /\ s[1] <= h[s[k]] /\ h[s[k]] <= l + 1
    <3>1. PICK n \in Nat : /\ n <= l + 1 /\ s[1] <= n
                           /\ (h[s[k]] = s[k] \/ h[s[k]] = n \/ (k < Len(s) /\ h[s[k]] = h[s[k + 1]]))
      BY <1>3
    <3>2. s[k] \in Nat /\ s[1] <= s[k] /\ s[k] <= l + 1
      BY <1>2, <1>3
    <3>3. k < Len(s) => h[s[k + 1]] \in Nat /\ s[1] <= h[s[k + 1]] /\ h[s[k + 1]] <= l + 1
      BY <2>1
    <3> HIDE DEF Good
    <3> QED
      BY <3>1, <3>2, <3>3
  <2> QED
    BY <2>1
<1>5. \A k \in 1 .. Len(s) : k \in Good
  <2> HIDE DEF Good
  <2> QED
    BY <1>2, <1>4, DownFromLast
<1>6. 1 \in Good
  <2>1. 1 \in 1 .. Len(s)
    BY <1>2
  <2> HIDE DEF Good
  <2> QED
    BY <1>5, <2>1
<1> QED
  BY <1>1, <1>6


(***************************************************************************)
(* A new box: room behind the first empty slot, then room for it before.   *)
(***************************************************************************)

\* r reads as q does up to slot m.
ReadsTo(q, r, m) ==
    /\ \A x \in 0 .. m : SlotAt(r, x) = SlotAt(q, x)
    /\ \A x \in Int : x < m => (IsRunend(r, x) <=> IsRunend(q, x))

LEMMA RunKept ==
    ASSUME NEW q, NEW r, SlotsTyped(q), SlotsTyped(r), NEW m \in Nat, ReadsTo(q, r, m),
           NEW s, NEW l, WithinRun(q, s, l), l < m
    PROVE  WithinRun(r, s, l)
<1>1. Len(s) \in Nat \ {0} /\ l \in Nat /\ s \in Seq(Nat) /\ l < EndOfBlocks
  BY DEF IsRun, WithinRun
<1>2. ASSUME NEW j \in 1 .. Len(s)
      PROVE  /\ s[j] \in Nat /\ s[j] <= l /\ FingerprintAt(r, s[j]) = FingerprintAt(q, s[j])
             /\ BoxLen(r, s[j]) = BoxLen(q, s[j])
             /\ IsRunend(r, s[j] + BoxLen(r, s[j]) - 1) <=> j = Len(s)
             /\ j < Len(s) => s[j + 1] = s[j] + BoxLen(r, s[j])
             /\ s[1] <= s[j] /\ s[j] + BoxLen(r, s[j]) - 1 <= l
  <2>1. PICK p \in Nat : p = s[j] /\ p <= l /\ s[1] <= p /\ p + BoxLen(q, p) - 1 <= l
    BY DEF IsRun, WithinRun
  <2>2. /\ IsRunend(q, p + BoxLen(q, p) - 1) <=> j = Len(s)
        /\ j < Len(s) => s[j + 1] = p + BoxLen(q, p)
    BY <2>1 DEF IsRun, WithinRun
  <2>3. PICK n \in Nat : n = BoxLen(q, p)
    BY BoxLenType
  <2>4. \A x \in p .. p + n : SlotAt(r, x) = SlotAt(q, x)
    <3>1. \A x \in p .. p + n : x \in 0 .. m
      BY <1>1, <2>1, <2>3
    <3> QED
      BY <3>1 DEF ReadsTo
  <2>5. IsRunend(r, p) <=> IsRunend(q, p)
    <3>1. p \in Int /\ p < m
      BY <1>1, <2>1
    <3> QED
      BY <3>1 DEF ReadsTo
  <2>6. BoxLen(r, p) = n
    BY <2>3, <2>4, <2>5, BoxLenReads
  <2>7. IsRunend(r, p + n - 1) <=> IsRunend(q, p + n - 1)
    <3>1. p + n - 1 \in Int /\ p + n - 1 < m
      BY <1>1, <2>1, <2>3
    <3> QED
      BY <3>1 DEF ReadsTo
  <2>8. FingerprintAt(r, p) = FingerprintAt(q, p)
    <3>1. p \in 0 .. m
      BY <1>1, <2>1
    <3> QED
      BY <3>1 DEF ReadsTo, FingerprintAt
  <2> QED
    BY <2>1, <2>2, <2>3, <2>6, <2>7, <2>8
<1>3. \A i, j \in 1 .. Len(s) : i <= j => FingerprintAt(r, s[i]) <= FingerprintAt(r, s[j])
  <2>1. \A i, j \in 1 .. Len(s) : i <= j => FingerprintAt(q, s[i]) <= FingerprintAt(q, s[j])
    BY DEF IsRun, WithinRun
  <2> QED
    BY <1>2, <2>1
<1>4. IsRun(r, s, l)
  BY <1>1, <1>2, <1>3 DEF IsRun
<1> QED
  BY <1>2, <1>4 DEF WithinRun

\* r is q with the slots from F on moved: up to there it reads the same, and so
\* do the metadata of the buckets up to b.
RoomFrom(q, r, b, F) ==
    /\ SlotsTyped(r) /\ Shaped(r) /\ Paired(r) /\ r.occupieds = q.occupieds
    /\ \A c \in Int : c <= b => LastUsed(r, c) = LastUsed(q, c)
    /\ \A k \in 0 .. BlockOf(b) : r.offset[k] = q.offset[k]
    /\ F \in Nat /\ ReadsTo(q, r, F)

LEMMA RunEndKept ==
    ASSUME NEW q, Paired(q), OffsetsCut(q), NEW b \in Slots, NEW F, NEW r, RoomFrom(q, r, b, F)
    PROVE  /\ RunEnd(r, b) = EndOfRuns(q, b)
           /\ RunStart(r, b) = RunStart(q, b)
<1>1. ASSUME NEW c \in Slots, c <= b
      PROVE  RunEnd(r, c) = EndOfRuns(q, c)
  <2>1. BlockOf(c) \in 0 .. NBlocks - 1 /\ BlockOf(b) \in 0 .. NBlocks - 1
    BY SlotInBlock
  <2>2. ASSUME NEW k \in 0 .. BlockOf(c) PROVE r.offset[k] = Min({MaxOffset, Spill(r, k)})
    <3>1. k \in 0 .. NBlocks - 1 /\ k <= BlockOf(c)
      BY <2>1, BlocksReach
    <3>2. BlockStart(k) <= c /\ BlockStart(k) \in Int /\ c \in Int /\ b \in Int
      BY <3>1, BlockOrder, BlockStarts DEF Slots
    <3>3. k \in 0 .. BlockOf(b)
      <4>1. BlockStart(k) <= b
        BY <1>1, <3>2
      <4>2. k <= BlockOf(b)
        BY <3>1, <4>1, BlockOrder
      <4> QED
        BY <2>1, <3>1, <4>2
    <3>4. r.offset[k] = q.offset[k] /\ q.offset[k] = Min({MaxOffset, Spill(q, k)})
      BY <3>1, <3>3 DEF RoomFrom, OffsetsCut, OffsetsCutTo
    <3>5. BlockStart(k) - 1 \in Int /\ BlockStart(k) - 1 <= b
      BY <1>1, <3>2
    <3>6. LastUsed(r, BlockStart(k) - 1) = LastUsed(q, BlockStart(k) - 1)
      BY <3>5 DEF RoomFrom
    <3> QED
      BY <3>4, <3>6 DEF Spill
  <2>3. Paired(r) /\ OffsetsCutTo(r, BlockOf(c))
    BY <2>2 DEF OffsetsCutTo, RoomFrom
  <2>4. RunEnd(r, c) = EndOfRuns(r, c)
    BY <2>3, RunEndExactTo
  <2>5. c \in Int
    BY DEF Slots
  <2> QED
    BY <1>1, <2>4, <2>5 DEF EndOfRuns, RoomFrom
<1>2. b \in Int /\ b >= 0 /\ b <= b
  BY DEF Slots
<1>3. b # 0 => RunEnd(r, b - 1) = RunEnd(q, b - 1)
  <2>1. b # 0 => b - 1 \in Slots /\ b - 1 <= b
    BY <1>2, BlocksReach DEF Slots
  <2> QED
    BY <1>1, <2>1, RunEndExact
<1> QED
  BY <1>1, <1>2, <1>3 DEF RunStart

\* Bucket b's run, if it has one, ends before F.
RunBefore(q, b, F) ==
    /\ b <= F /\ LastUsed(q, b) < F
    /\ b \in q.occupieds => \E s : WithinRun(q, s, RunendOf(q, b)) /\ s[1] = RunFirst(q, b)

\* Where the new box goes.
LEMMA InsertIndexIs ==
    ASSUME NEW q, Paired(q), OffsetsCut(q), SlotsTyped(q), NEW b \in Slots, NEW F,
           NEW r, RoomFrom(q, r, b, F), RunBefore(q, b, F), NEW f \in Nat
    PROVE  /\ b \in q.occupieds =>
                /\ InsertIndex(r, b, f, F) \in Nat
                /\ RunFirst(q, b) <= InsertIndex(r, b, f, F)
                /\ InsertIndex(r, b, f, F) <= RunendOf(q, b) + 1
           /\ b \notin q.occupieds =>
                InsertIndex(r, b, f, F) = IF b = F THEN b ELSE EndOfRuns(q, b) + 1
<1>1. RunEnd(r, b) = EndOfRuns(q, b) /\ RunStart(r, b) = RunStart(q, b) /\ r.occupieds = q.occupieds
  BY RunEndKept DEF RoomFrom
<1>2. ASSUME b \in q.occupieds
      PROVE  /\ InsertIndex(r, b, f, F) \in Nat
             /\ RunFirst(q, b) <= InsertIndex(r, b, f, F)
             /\ InsertIndex(r, b, f, F) <= RunendOf(q, b) + 1
  <2>1. PICK s : WithinRun(q, s, RunendOf(q, b)) /\ s[1] = RunFirst(q, b)
    BY <1>2 DEF RunBefore
  <2>2. RunStart(r, b) = s[1]
    BY <1>1, <1>2, <2>1, RunStartIs
  <2>3. RunendOf(q, b) < F
    BY <1>2, OwnRun DEF RunBefore
  <2>4. SlotsTyped(r) /\ F \in Nat /\ ReadsTo(q, r, F)
    BY DEF RoomFrom
  <2>5. WithinRun(r, s, RunendOf(q, b))
    BY <2>1, <2>3, <2>4, RunKept
  <2>6. InsertIndex(r, b, f, F) = UpperBound(r, s[1], f)
    BY <1>1, <1>2, <2>2 DEF InsertIndex, IsOccupied
  <2> QED
    BY <2>1, <2>4, <2>5, <2>6, UpperBoundInRun
<1>3. ASSUME b \notin q.occupieds
      PROVE  InsertIndex(r, b, f, F) = IF b = F THEN b ELSE EndOfRuns(q, b) + 1
  BY <1>1, <1>3 DEF InsertIndex, IsOccupied
<1> QED
  BY <1>2, <1>3


\* Slots that move stay slots, and those before the first one keep their contents.
LEMMA ShiftedSlots ==
    ASSUME NEW q, Shaped(q), SlotsTyped(q), NEW runs, NEW E, E = EmptySlotsOf(runs),
           E \in SUBSET Slots, E # {}, NEW n, n = Cardinality(E), NEW pos \in Nat, NEW rpos,
           NEW r, r = ShiftInto(q, pos, rpos, runs, n)
    PROVE  /\ SlotsTyped(r)
           /\ \A x \in Int : (x < pos \/ (x = pos /\ x \in E)) => SlotAt(r, x) = SlotAt(q, x)
<1> DEFINE moving == {i \in pos .. Max(E) : i \notin E}
           places == {Shifted(E, i) : i \in moving}
           source(j) == CHOOSE i \in moving : Shifted(E, i) = j
<1>1. r.slots = [j \in Slots |-> IF j \in places THEN q.slots[source(j)] ELSE q.slots[j]]
  BY DEF ShiftInto, Shaped, Fields, Shifted, SlotsTyped
<1>2. \A i \in moving : i \in Int /\ i \in Slots /\ i >= pos /\ i \notin E
  <2>1. Max(E) \in Slots
    BY ClaimedSet
  <2> QED
    BY <2>1, BlocksReach DEF Slots
<1>3. \A i \in moving : Shifted(E, i) \in Int /\ Shifted(E, i) >= i
  <2> HIDE DEF moving
  <2> QED
    BY <1>2, Shifts
<1>4. \A j \in places : source(j) \in Slots
  <2>1. \A j \in places : \E i \in moving : Shifted(E, i) = j
    OBVIOUS
  <2>2. \A j \in places : source(j) \in moving
    BY <2>1
  <2> QED
    BY <1>2, <2>2
<1> HIDE DEF source
<1>5. SlotsTyped(r)
  <2> HIDE DEF places
  <2>1. \A x \in Slots : (IF x \in places THEN q.slots[source(x)] ELSE q.slots[x]) \in 0 .. 2^BitsPerSlot - 1
    BY <1>4 DEF SlotsTyped
  <2> QED
    BY <1>1, <2>1 DEF SlotsTyped
<1>6. ASSUME NEW x \in Int, x < pos \/ (x = pos /\ x \in E)
      PROVE  SlotAt(r, x) = SlotAt(q, x)
  <2>1. x \notin places
    <3>1. \A i \in moving : Shifted(E, i) # x
      <4> HIDE DEF moving
      <4>1. ASSUME NEW i \in moving PROVE Shifted(E, i) # x
        <5>1. i \in Int /\ i >= pos /\ i \notin E /\ Shifted(E, i) \in Int /\ Shifted(E, i) >= i
          BY <1>2, <1>3
        <5> QED
          BY <1>6, <5>1
      <4> QED
        BY <4>1
    <3> QED
      BY <3>1
  <2> HIDE DEF places
  <2> QED
    BY <1>1, <2>1 DEF SlotAt, SlotsTyped
<1> QED
  BY <1>5, <1>6

LEMMA BumpedSlots ==
    ASSUME NEW q, Shaped(q), SlotsTyped(q), NEW b, NEW runs, NEW n, n = Cardinality(EmptySlotsOf(runs)),
           NEW r, r = BumpOffsets(q, b, runs, n)
    PROVE  SlotsTyped(r) /\ \A x : SlotAt(r, x) = SlotAt(q, x)
<1>1. r.slots = q.slots
  BY BumpedOffsets
<1> QED
  BY <1>1 DEF SlotsTyped, SlotAt

\* The first of the empty slots found.
FirstClaimed(q, b, E, F) ==
    /\ F \in E /\ \A e \in E : F <= e
    /\ Claims(q, b, E)

LEMMA FirstClaimedIs ==
    ASSUME NEW q, Paired(q), NEW b \in Slots, NEW E, NEW F, FirstClaimed(q, b, E, F)
    PROVE  /\ F \in Slots /\ F \in Nat /\ b <= F /\ F \notin q.runends
           /\ LastUsed(q, b) \in Int /\ LastUsed(q, b) < F
           /\ Claims(q, F, E)
           /\ \A e \in q.runends : F <= e <=> e > LastUsed(q, F - 1)
<1>1. F \in Slots /\ F \in Int /\ F >= b /\ F >= 0 /\ F \notin UsedSlots(q) /\ b \in Int /\ E \in SUBSET Slots /\ E # {}
  BY DEF FirstClaimed, Claims, Slots
<1>2. F \notin q.runends
  BY <1>1, UsedUpTo
<1>3. LastUsed(q, b) \in Int /\ LastUsed(q, b) < F
  <2>1. LastUsed(q, b) \in Int
    BY <1>1, EndedAtLast
  <2>2. ~ (F <= LastUsed(q, b))
    BY <1>1, UsedUpTo
  <2> QED
    BY <1>1, <2>1, <2>2
<1>4. Claims(q, F, E)
  <2>1. \A e \in E : e >= F /\ e \notin UsedSlots(q)
    BY DEF FirstClaimed, Claims
  <2>2. \A s \in F .. Max(E) : s \in UsedSlots(q) \cup E
    <3>1. Max(E) \in Int
      BY <1>1, ClaimedSet DEF Slots
    <3>2. \A s \in F .. Max(E) : s \in b .. Max(E)
      BY <1>1, <3>1
    <3>3. \A s \in b .. Max(E) : s \in UsedSlots(q) \cup E
      BY DEF FirstClaimed, Claims
    <3> QED
      BY <3>2, <3>3
  <2> QED
    BY <1>1, <2>1, <2>2 DEF Claims
<1>5. ASSUME NEW e \in q.runends PROVE F <= e <=> e > LastUsed(q, F - 1)
  <2>1. PICK w \in Int : w = F - 1
    BY <1>1
  <2>2. e \in Int
    BY TableSets DEF IntegerSet
  <2>3. LastUsed(q, w) \in Int /\ LastUsed(q, w) < F
    <3>1. LastUsed(q, w) \in Int /\ LastUsed(q, F) \in Int /\ LastUsed(q, w) <= LastUsed(q, F)
      BY <1>1, <2>1, EndedAtLast, LastUsedGrows
    <3>2. ~ (F <= LastUsed(q, F))
      BY <1>1, UsedUpTo
    <3> QED
      BY <1>1, <3>1, <3>2
  <2>4. e > LastUsed(q, w) => e >= F
    BY <1>1, <1>4, <2>1, MovedEndsAre
  <2> QED
    BY <1>1, <2>1, <2>2, <2>3, <2>4
<1> QED
  BY <1>1, <1>2, <1>3, <1>4, <1>5

LEMMA RoomBehindIs ==
    ASSUME NEW q, Accurate(q), Shaped(q), SlotsTyped(q), NEW b \in Slots,
           NEW runs, NEW E, E = EmptySlotsOf(runs), NEW n, n = Cardinality(E),
           NEW F, F = runs[1][1], FirstClaimed(q, b, E, F),
           NEW r, r = RoomBehind(q, b, runs, n)
    PROVE  /\ Shaped(r) /\ SlotsTyped(r) /\ r.occupieds = q.occupieds
           /\ r.runends = MovedEnds(q, F, E)
           /\ r.noccupied_slots = q.noccupied_slots
           /\ OpensOffsets(q, r, b, E)
           /\ \A x \in Int : x <= F => SlotAt(r, x) = SlotAt(q, x)
<1>0. /\ F \in Slots /\ F \in Nat /\ F \in E /\ E \in SUBSET Slots /\ E # {} /\ Claims(q, F, E) /\ Paired(q)
      /\ \A e \in q.runends : F <= e <=> e > LastUsed(q, F - 1)
  <2>1. Paired(q)
    BY DEF Accurate
  <2> QED
    BY <2>1, FirstClaimedIs DEF FirstClaimed, Claims
<1>1. PICK s : s = ShiftInto(q, F, F, runs, n)
  OBVIOUS
<1>2. /\ Shaped(s) /\ s.occupieds = q.occupieds /\ s.offset = q.offset
      /\ s.noccupied_slots = q.noccupied_slots
      /\ s.runends = (q.runends \ MovedFrom(q, F, E)) \cup {Shifted(E, e) : e \in MovedFrom(q, F, E)}
  BY <1>1, ShiftedRuns
<1>3. s.runends = MovedEnds(q, F, E)
  <2>1. F \in Int
    BY <1>0
  <2> QED
    BY <1>0, <1>2, <2>1, ShiftMoves
<1>4. SlotsTyped(s) /\ \A x \in Int : x <= F => SlotAt(s, x) = SlotAt(q, x)
  <2>1. SlotsTyped(s) /\ \A x \in Int : (x < F \/ (x = F /\ x \in E)) => SlotAt(s, x) = SlotAt(q, x)
    BY <1>0, <1>1, ShiftedSlots
  <2>2. \A x \in Int : x <= F => x < F \/ x = F
    BY <1>0
  <2> QED
    BY <1>0, <2>1, <2>2
<1>5. r = BumpOffsets(s, b, runs, n)
  BY <1>1 DEF RoomBehind
<1>6. /\ Shaped(r) /\ SameRuns(s, r) /\ r.noccupied_slots = s.noccupied_slots
      /\ OpensOffsets(s, r, b, E)
  BY <1>2, <1>5, BumpedOffsets
<1>7. SlotsTyped(r) /\ \A x : SlotAt(r, x) = SlotAt(s, x)
  BY <1>2, <1>4, <1>5, BumpedSlots
<1>8. OpensOffsets(q, r, b, E)
  BY <1>2, <1>6 DEF OpensOffsets
<1> QED
  BY <1>2, <1>3, <1>4, <1>6, <1>7, <1>8 DEF SameRuns


\* Moving the runs from F on leaves the reading of the buckets up to b.
LEMMA RoomReads ==
    ASSUME NEW q, Paired(q), NEW b \in Slots, NEW E, NEW F, FirstClaimed(q, b, E, F),
           NEW r, r.occupieds = q.occupieds, r.runends = MovedEnds(q, F, E)
    PROVE  /\ Paired(r)
           /\ \A c \in Int : c <= b => LastUsed(r, c) = LastUsed(q, c)
           /\ \A x \in Int : x < F => (IsRunend(r, x) <=> IsRunend(q, x))
<1>1. /\ F \in Slots /\ F \in Nat /\ b \in Int /\ Claims(q, F, E) /\ E \in SUBSET Slots /\ E # {}
      /\ \A e \in q.runends : F <= e <=> e > LastUsed(q, F - 1)
      /\ LastUsed(q, b) \in Int /\ LastUsed(q, b) < F
  <2>1. b \in Int
    BY DEF Slots
  <2> QED
    BY <2>1, FirstClaimedIs DEF Claims
<1>2. /\ r.runends \subseteq Slots /\ IntegerSet(r.runends)
      /\ Cardinality(r.runends) = Cardinality(q.runends)
      /\ \A e \in q.runends : UpTo(r.runends, MovedEnd(q, F, E, e)) = Ended(q, e)
  BY <1>1, MovedEndsAre
<1>3. ASSUME NEW e \in q.runends
      PROVE  /\ e \in Int /\ MovedEnd(q, F, E, e) \in r.runends
             /\ MovedEnd(q, F, E, e) = IF e < F THEN e ELSE Shifted(E, e)
             /\ MovedEnd(q, F, E, e) \in Int /\ MovedEnd(q, F, E, e) >= e
  <2>1. e \in Int
    BY TableSets DEF IntegerSet
  <2>2. MovedEnd(q, F, E, e) \in r.runends
    BY DEF MovedEnds
  <2>3. PICK l \in Int : l = LastUsed(q, F - 1)
    <3>1. F - 1 \in Int
      BY <1>1
    <3> QED
      BY <3>1, EndedAtLast
  <2>4. e <= l <=> e < F
    BY <1>1, <2>1, <2>3
  <2>5. Shifted(E, e) \in Int /\ Shifted(E, e) >= e
    BY <1>1, <2>1, Shifts
  <2> QED
    BY <2>1, <2>2, <2>3, <2>4, <2>5 DEF MovedEnd
<1>4. ASSUME NEW c \in q.occupieds PROVE RunendOf(r, c) >= c
  <2>1. /\ c \in Int /\ LastUsed(q, c) = RunendOf(q, c) /\ LastUsed(q, c) \in q.runends
        /\ Ended(q, LastUsed(q, c)) = Occupied(q, c) /\ LastUsed(q, c) >= c
    BY OwnRunend
  <2>2. PICK e \in q.runends : e = LastUsed(q, c)
    BY <2>1
  <2>3. PICK d \in r.runends : d = MovedEnd(q, F, E, e) /\ d \in Int /\ d >= e
    BY <1>3
  <2>4. UpTo(r.runends, d) = UpTo(r.occupieds, c)
    BY <1>2, <2>1, <2>2, <2>3 DEF Occupied
  <2>5. RunendOf(r, c) = d
    BY <1>2, <2>1, <2>4, RunendOfIs
  <2> QED
    BY <1>3, <2>1, <2>2, <2>3, <2>5
<1>5. Paired(r)
  BY <1>2, <1>4 DEF Paired
<1>6. ASSUME NEW c \in Int, c <= b PROVE LastUsed(r, c) = LastUsed(q, c)
  <2>1. Occupied(r, c) = Occupied(q, c)
    BY DEF Occupied
  <2>2. CASE Occupied(q, c) = 0
    BY <1>5, <2>1, <2>2, LastUsedByCount
  <2>3. CASE Occupied(q, c) # 0
    <3>1. /\ LastUsed(q, c) \in q.runends /\ Ended(q, LastUsed(q, c)) = Occupied(q, c)
          /\ LastUsed(q, c) <= LastUsed(q, b) /\ LastUsed(q, c) \in Int
      BY <1>1, <1>6, <2>3, EndedAtLast, LastUsedGrows
    <3>2. PICK e \in q.runends : e = LastUsed(q, c) /\ e < F
      BY <1>1, <3>1
    <3>3. MovedEnd(q, F, E, e) = e
      BY <1>3, <3>2
    <3>4. e \in r.runends /\ Ended(r, e) = Occupied(r, c)
      BY <1>2, <1>3, <2>1, <3>1, <3>2, <3>3 DEF Ended
    <3> QED
      BY <1>5, <3>2, <3>4, LastUsedIs
  <2> QED
    BY <2>2, <2>3
<1>7. ASSUME NEW x \in Int, x < F PROVE x \in r.runends <=> x \in q.runends
  <2>1. ASSUME x \in r.runends PROVE x \in q.runends
    <3>1. PICK e \in q.runends : x = MovedEnd(q, F, E, e)
      BY <2>1 DEF MovedEnds
    <3>2. e < F
      BY <1>1, <1>3, <1>7, <3>1
    <3> QED
      BY <1>3, <3>1, <3>2
  <2>2. ASSUME x \in q.runends PROVE x \in r.runends
    BY <1>3, <1>7, <2>2
  <2> QED
    BY <2>1, <2>2
<1> QED
  BY <1>5, <1>6, <1>7 DEF IsRunend

LEMMA RoomBehindReads ==
    ASSUME NEW q, Accurate(q), Shaped(q), SlotsTyped(q), NEW b \in Slots,
           NEW runs, NEW E, E = EmptySlotsOf(runs), NEW n, n = Cardinality(E),
           NEW F, F = runs[1][1], FirstClaimed(q, b, E, F),
           NEW r, r = RoomBehind(q, b, runs, n)
    PROVE  RoomFrom(q, r, b, F)
<1>1. /\ Shaped(r) /\ SlotsTyped(r) /\ r.occupieds = q.occupieds
      /\ r.runends = MovedEnds(q, F, E)
      /\ OpensOffsets(q, r, b, E)
      /\ \A x \in Int : x <= F => SlotAt(r, x) = SlotAt(q, x)
  BY RoomBehindIs
<1>2. Paired(q)
  BY DEF Accurate
<1>3. /\ Paired(r)
      /\ \A c \in Int : c <= b => LastUsed(r, c) = LastUsed(q, c)
      /\ \A x \in Int : x < F => (IsRunend(r, x) <=> IsRunend(q, x))
  BY <1>1, <1>2, RoomReads
<1>4. F \in Nat
  BY <1>2, FirstClaimedIs
<1>5. \A k \in 0 .. BlockOf(b) : r.offset[k] = q.offset[k]
  <2>1. BlockOf(b) \in 0 .. NBlocks - 1 /\ NBlocks \in Nat
    BY SlotInBlock, BlocksReach
  <2>2. ASSUME NEW k \in 0 .. BlockOf(b) PROVE r.offset[k] = q.offset[k]
    <3>1. k \in 0 .. NBlocks - 1 /\ k \notin BlockOf(b) + 1 .. BlockOf(Max(E))
      BY <2>1
    <3> QED
      BY <1>1, <3>1 DEF OpensOffsets
  <2> QED
    BY <2>2
<1>6. ReadsTo(q, r, F)
  <2>1. \A x \in 0 .. F : x \in Int /\ x <= F
    BY <1>4
  <2> QED
    BY <1>1, <1>3, <2>1 DEF ReadsTo
<1> QED
  BY <1>1, <1>3, <1>4, <1>5, <1>6 DEF RoomFrom


LEMMA OneRun ==
    ASSUME NEW F \in Nat, NEW n \in Nat \ {0}
    PROVE  /\ EmptySlotsOf(<< <<F, n>> >>) = F .. F + n - 1
           /\ Cardinality(F .. F + n - 1) = n /\ Max(F .. F + n - 1) = F + n - 1
<1>1. PICK rest \in Seq(Nat \X Nat) : rest = << >> /\ << <<F, n>> >> \o rest = << <<F, n>> >>
  <2>1. << >> \in Seq(Nat \X Nat) /\ << <<F, n>> >> \o << >> = << <<F, n>> >>
    OBVIOUS
  <2> QED
    BY <2>1
<1>2. EmptySlotsOf(<< <<F, n>> >> \o rest) = (F .. F + n - 1) \cup EmptySlotsOf(rest)
  <2>1. n \in Nat
    OBVIOUS
  <2> QED
    BY <2>1, EmptySlotsJoin
<1>3. EmptySlotsOf(rest) = {}
  BY <1>1 DEF EmptySlotsOf
<1>4. EmptySlotsOf(<< <<F, n>> >>) = F .. F + n - 1
  BY <1>1, <1>2, <1>3
<1>5. Cardinality(F .. F + n - 1) = n
  <2>1. PICK top \in Int : top = F + n - 1 /\ top >= F /\ top - F + 1 = n
    OBVIOUS
  <2>2. Cardinality(F .. top) = IF F > top THEN 0 ELSE top - F + 1
    BY FS_Interval
  <2> QED
    BY <2>1, <2>2
<1>6. Max(F .. F + n - 1) = F + n - 1
  <2>1. PICK m : m = F + n - 1
    OBVIOUS
  <2>2. (F .. F + n - 1) \in SUBSET Int /\ m \in F .. F + n - 1 /\ \A y \in F .. F + n - 1 : y <= m
    BY <2>1
  <2> QED
    BY <2>1, <2>2, Greatest
<1> QED
  BY <1>4, <1>5, <1>6

\* The runends between the new box and the first empty slot move by its length.
Pushed(ends, I, F, n) ==
    LET near == {e \in ends : I <= e /\ e < F} IN (ends \ near) \cup {e + n : e \in near}

LEMMA NearShift ==
    ASSUME NEW q, Shaped(q), q.runends \subseteq Int, NEW F \in Nat, NEW n \in Nat \ {0}, NEW I \in Int,
           NEW r, r = ShiftInto(q, I, I, << <<F, n>> >>, n)
    PROVE  /\ Shaped(r) /\ r.occupieds = q.occupieds /\ r.offset = q.offset
           /\ r.noccupied_slots = q.noccupied_slots
           /\ r.runends = Pushed(q.runends, I, F, n)
<1>0. PICK A : A = {e \in q.runends : I <= e /\ e < F}
  OBVIOUS
<1>1. PICK runs, E : /\ runs = << <<F, n>> >> /\ E = EmptySlotsOf(runs) /\ E = F .. F + n - 1
                     /\ n = Cardinality(E) /\ Max(E) = F + n - 1
  BY OneRun
<1>2. /\ Shaped(r) /\ r.occupieds = q.occupieds /\ r.offset = q.offset
      /\ r.noccupied_slots = q.noccupied_slots
      /\ r.runends = (q.runends \ MovedFrom(q, I, E)) \cup {Shifted(E, e) : e \in MovedFrom(q, I, E)}
  <2>1. n = Cardinality(EmptySlotsOf(runs)) /\ E = EmptySlotsOf(runs)
    BY <1>1
  <2>2. PICK t : t = ShiftInto(q, I, I, runs, n)
    OBVIOUS
  <2>3. r = t
    BY <1>1, <2>2
  <2>4. Shaped(t) /\ t.occupieds = q.occupieds /\ t.offset = q.offset /\ t.noccupied_slots = q.noccupied_slots
    BY <2>1, <2>2, ShiftedRuns
  <2>5. t.runends = (q.runends \ MovedFrom(q, I, E)) \cup {Shifted(E, e) : e \in MovedFrom(q, I, E)}
    BY <2>1, <2>2, ShiftedRuns
  <2> QED
    BY <2>3, <2>4, <2>5
<1>3. MovedFrom(q, I, E) = A
  <2>1. ASSUME NEW e \in q.runends PROVE e <= Max(E) /\ e \notin E <=> e < F
    BY <1>1
  <2> QED
    BY <1>0, <2>1 DEF MovedFrom
<1>4. \A e \in A : Shifted(E, e) = e + n
  <2>1. ASSUME NEW e \in A PROVE Shifted(E, e) = e + n
    <3>1. {x \in E : x < e} = {}
      BY <1>0, <1>1
    <3>2. Cardinality({x \in E : x < e}) = 0
      BY <3>1, FS_EmptySet
    <3>3. Shifted(E, e) = e + n - 0
      BY <1>1, <3>2 DEF Shifted
    <3> QED
      BY <3>3
  <2> QED
    BY <2>1
<1> HIDE DEF Shifted
<1>5. {Shifted(E, e) : e \in A} = {e + n : e \in A}
  BY <1>4
<1>6. r.runends = (q.runends \ A) \cup {e + n : e \in A}
  BY <1>2, <1>3, <1>5
<1> QED
  BY <1>0, <1>2, <1>6 DEF Pushed

\* Where the runends of a table with room from F on go, once the near ones have
\* moved: where opening the gap takes them, but for that of b's own run.
LEMMA NearMoves ==
    ASSUME NEW q, Paired(q), NEW b \in Slots, NEW E, NEW F, FirstClaimed(q, b, E, F),
           NEW n, n = Cardinality(E)
    PROVE  /\ n \in Nat \ {0}
           /\ \A e \in q.runends :
                /\ e \in Int /\ e # F
                /\ e < F => /\ MovedEnd(q, F, E, e) = e
                            /\ MovedEnd(q, b, E, e) = IF e <= LastUsed(q, b - 1) THEN e ELSE e + n
                /\ e > F => /\ MovedEnd(q, F, E, e) = MovedEnd(q, b, E, e)
                            /\ MovedEnd(q, F, E, e) \in Int /\ MovedEnd(q, F, E, e) > F
<1>1. /\ F \in Slots /\ F \in Nat /\ b \in Int /\ E \in SUBSET Slots /\ E # {} /\ F \notin q.runends
      /\ \A e \in q.runends : F <= e <=> e > LastUsed(q, F - 1)
      /\ LastUsed(q, b) \in Int /\ LastUsed(q, b) < F
  <2>1. b \in Int
    BY DEF Slots
  <2>2. E \in SUBSET Slots /\ E # {}
    BY DEF FirstClaimed, Claims
  <2> QED
    BY <2>1, <2>2, FirstClaimedIs
<1>2. n \in Nat \ {0}
  BY <1>1, ClaimedSet
<1>3. PICK a, w \in Int : a = b - 1 /\ w = F - 1
  BY <1>1
<1>4. /\ LastUsed(q, a) \in Int /\ LastUsed(q, w) \in Int
      /\ LastUsed(q, a) <= LastUsed(q, b)
  <2>1. a <= b
    BY <1>1, <1>3
  <2> QED
    BY <1>1, <2>1, LastUsedGrows, EndedAtLast
<1>5. ASSUME NEW e \in q.runends
      PROVE  /\ e \in Int /\ e # F
             /\ e < F => /\ MovedEnd(q, F, E, e) = e
                         /\ MovedEnd(q, b, E, e) = IF e <= LastUsed(q, b - 1) THEN e ELSE e + n
             /\ e > F => /\ MovedEnd(q, F, E, e) = MovedEnd(q, b, E, e)
                         /\ MovedEnd(q, F, E, e) \in Int /\ MovedEnd(q, F, E, e) > F
  <2>1. e \in Int /\ e # F
    BY <1>1, TableSets DEF IntegerSet
  <2>2. F <= e <=> e > LastUsed(q, w)
    BY <1>1, <1>3
  <2>3. CASE e < F
    <3>1. Shifted(E, e) = e + n
      <4>1. \A x \in E : x >= e
        <5>1. \A x \in E : x \in Int /\ F <= x
          BY <1>1 DEF FirstClaimed, Slots
        <5> QED
          BY <1>1, <2>1, <2>3, <5>1
      <4> QED
        BY <1>1, <2>1, <4>1, Shifts
    <3>2. e <= LastUsed(q, w)
      BY <1>1, <1>4, <2>1, <2>2, <2>3
    <3> QED
      BY <1>1, <1>3, <2>1, <2>3, <3>1, <3>2 DEF MovedEnd
  <2>4. CASE e > F
    <3>1. e > LastUsed(q, a) /\ e > LastUsed(q, w)
      BY <1>1, <1>4, <2>1, <2>2, <2>4
    <3>2. Shifted(E, e) \in Int /\ Shifted(E, e) >= e
      BY <1>1, <2>1, Shifts
    <3>3. ~ (e <= LastUsed(q, a)) /\ ~ (e <= LastUsed(q, w))
      BY <1>4, <2>1, <3>1
    <3>4. MovedEnd(q, F, E, e) = Shifted(E, e) /\ MovedEnd(q, b, E, e) = Shifted(E, e)
      BY <1>3, <3>3 DEF MovedEnd
    <3> QED
      BY <1>1, <2>1, <2>4, <3>2, <3>4
  <2> QED
    BY <1>1, <2>1, <2>3, <2>4
<1> QED
  BY <1>2, <1>5

\* The new box's bucket gets a run, or a longer one.
NewEnds(q, b, n, end, shifted, last) ==
    IF b \in q.occupieds THEN (shifted \ {end}) \cup {end + n} ELSE shifted \cup {last}

LEMMA InsertedRuns ==
    ASSUME NEW q, Paired(q), NEW b \in Slots, NEW E, NEW F, FirstClaimed(q, b, E, F),
           NEW n, n = Cardinality(E), NEW I \in Int,
           b \in q.occupieds => RunFirst(q, b) <= I /\ I <= RunendOf(q, b) + 1,
           b \notin q.occupieds => I = IF b = F THEN b ELSE EndOfRuns(q, b) + 1,
           NEW shifted, shifted = Pushed(MovedEnds(q, F, E), I, F, n)
    PROVE  NewEnds(q, b, n, EndOfRuns(q, b), shifted, I + n - 1)
             = MovedEnds(q, b, E) \cup
                 (IF b \in q.occupieds THEN {} ELSE {Reached(q, b, b) + Cardinality(E)})
<1>1. /\ F \in Slots /\ F \in Int /\ b \in Int /\ b <= F
      /\ LastUsed(q, b) \in Int /\ LastUsed(q, b) < F
  <2>1. b \in Int
    BY DEF Slots
  <2> QED
    BY <2>1, FirstClaimedIs
<1>2. PICK l \in Int : l = LastUsed(q, b - 1)
  <2>1. b - 1 \in Int
    BY <1>1
  <2> QED
    BY <2>1, EndedAtLast
<1>3. n \in Nat \ {0}
  BY NearMoves
<1>9. PICK A : /\ A = {e \in MovedEnds(q, F, E) : I <= e /\ e < F}
               /\ shifted = (MovedEnds(q, F, E) \ A) \cup {e + n : e \in A}
  BY DEF Pushed
<1> DEFINE m(e) == MovedEnd(q, b, E, e)
           k(e) == MovedEnd(q, F, E, e)
           near(e) == IF e < F /\ I <= e THEN e + n ELSE k(e)
<1>4. ASSUME NEW e \in q.runends
      PROVE  /\ e \in Int /\ e # F
             /\ e < F => k(e) = e /\ m(e) = IF e <= l THEN e ELSE e + n
             /\ e > F => k(e) = m(e) /\ k(e) \in Int /\ k(e) > F
  BY <1>2, NearMoves
<1> HIDE DEF m, k
<1>5. shifted = {near(e) : e \in q.runends}
  <2>1. MovedEnds(q, F, E) = {k(e) : e \in q.runends}
    BY DEF MovedEnds, k
  <2>2. \A e \in q.runends : k(e) \in A <=> e < F /\ I <= e
    <3>1. ASSUME NEW e \in q.runends PROVE k(e) \in A <=> e < F /\ I <= e
      <4>1. k(e) \in A <=> I <= k(e) /\ k(e) < F
        BY <1>9, <2>1
      <4>2. CASE e < F
        BY <1>4, <4>1, <4>2
      <4>3. CASE e > F
        BY <1>1, <1>4, <4>1, <4>3
      <4> QED
        BY <1>1, <1>4, <4>2, <4>3
    <3> QED
      BY <3>1
  <2>3. \A e \in q.runends : k(e) \in A => near(e) = k(e) + n
    BY <1>4, <2>2
  <2>4. \A e \in q.runends : k(e) \notin A => near(e) = k(e)
    BY <2>2
  <2>5. A \subseteq {k(e) : e \in q.runends}
    BY <1>9, <2>1
  <2> HIDE DEF near
  <2> QED
    BY <1>9, <2>1, <2>3, <2>4, <2>5
<1>6. MovedEnds(q, b, E) = {m(e) : e \in q.runends}
  BY DEF MovedEnds, m
<1>7. CASE b \in q.occupieds
  <2>1. PICK R \in Int : /\ R = RunendOf(q, b) /\ R = EndOfRuns(q, b) /\ R \in q.runends /\ l < R /\ R < F
                         /\ \A e \in q.runends : e > l <=> e >= R
    <3>1. /\ LastUsed(q, b) = RunendOf(q, b) /\ RunendOf(q, b) \in q.runends
          /\ \A e \in q.runends : e > l <=> e >= RunendOf(q, b)
      BY <1>2, <1>7, OwnRun
    <3>2. RunendOf(q, b) >= b
      BY <1>7 DEF Paired
    <3>3. EndOfRuns(q, b) = RunendOf(q, b)
      <4>1. EndOfRuns(q, b) = (IF b >= LastUsed(q, b) THEN b ELSE LastUsed(q, b))
        BY <1>1, LargerOf DEF EndOfRuns
      <4> QED
        BY <1>1, <3>1, <3>2, <4>1
    <3> QED
      BY <1>1, <3>1, <3>3
  <2>2. \A e \in q.runends : e >= R <=> e >= RunFirst(q, b)
    BY <1>2, <1>7, <2>1, OwnRun
  <2>3. PICK f \in Int : f = RunFirst(q, b) /\ f <= I /\ I <= R + 1
    BY <1>7, <2>1, OwnRun
  <2>4. ASSUME NEW e \in q.runends
        PROVE  /\ e # R => near(e) = m(e) /\ m(e) # R
               /\ e = R => near(e) \in {R, R + n} /\ m(e) = R + n
    <3>1. e \in Int /\ e # F
      BY <1>4
    <3>2. CASE e < F
      <4>1. k(e) = e /\ m(e) = IF e <= l THEN e ELSE e + n
        BY <1>4, <3>2
      <4>2. e > l <=> e >= R
        BY <2>1
      <4>3. e >= R <=> e >= f
        BY <2>2, <2>3
      <4> QED
        BY <1>3, <2>1, <2>3, <3>1, <3>2, <4>1, <4>2, <4>3
    <3>3. CASE e > F
      <4>1. k(e) = m(e) /\ k(e) \in Int /\ k(e) > F /\ near(e) = k(e)
        BY <1>1, <1>4, <3>1, <3>3
      <4> QED
        BY <1>1, <2>1, <3>1, <3>3, <4>1
    <3> QED
      BY <1>1, <3>1, <3>2, <3>3
  <2> HIDE DEF near
  <2>5. R + n \in Int /\ R + n # R
    BY <1>3
  <2>6. (shifted \ {R}) \cup {R + n} = {m(e) : e \in q.runends}
    <3>1. ASSUME NEW y \in shifted, y # R PROVE \E e \in q.runends : y = m(e)
      <4>1. PICK e \in q.runends : y = near(e)
        BY <1>5, <3>1
      <4> QED
        BY <2>4, <3>1, <4>1
    <3>2. R + n = m(R)
      BY <2>1, <2>4
    <3>3. ASSUME NEW e \in q.runends PROVE m(e) \in (shifted \ {R}) \cup {R + n}
      <4>1. near(e) \in shifted
        BY <1>5
      <4> QED
        BY <2>4, <4>1
    <3> QED
      BY <2>1, <3>1, <3>2, <3>3
  <2> QED
    BY <1>6, <1>7, <2>1, <2>6 DEF NewEnds
<1>8. CASE b \notin q.occupieds
  <2>1. l = LastUsed(q, b)
    <3>1. PICK a \in Int : a = b - 1
      BY <1>1
    <3>2. Occupied(q, b) = Occupied(q, a)
      <4>1. Occupied(q, b) = Occupied(q, a) + 0
        BY <1>1, <1>8, <3>1, TableSets, UpToStep DEF Occupied
      <4>2. Occupied(q, a) \in Int
        BY <3>1, Counts
      <4> QED
        BY <4>1, <4>2
    <3>3. LastUsed(q, a) = LastUsed(q, b)
      BY <1>1, <3>1, <3>2, LastUsedByCount
    <3> QED
      BY <1>2, <3>1, <3>3
  <2>2. Reached(q, b, b) = IF l <= b - 1 THEN b - 1 ELSE l
    <3>1. b - 1 \in Int
      BY <1>1
    <3> QED
      BY <1>1, <2>1, <3>1, LargerOf DEF Reached
  <2>3. EndOfRuns(q, b) = IF b >= l THEN b ELSE l
    BY <1>1, <2>1, LargerOf DEF EndOfRuns
  <2>4. b # F => l >= b
    <3>1. ASSUME b # F PROVE l >= b
      <4>1. b \in UsedSlots(q)
        <5>1. b \in b .. Max(E) /\ b \notin E
          <6>1. Max(E) \in Int /\ \A e \in E : F <= e /\ e \in Int
            <7>1. E \in SUBSET Slots /\ E # {}
              BY DEF FirstClaimed, Claims
            <7> QED
              BY <7>1, ClaimedSet DEF FirstClaimed, Slots
          <6>2. F <= Max(E)
            <7>1. E \in SUBSET Slots /\ E # {} /\ F \in E
              BY DEF FirstClaimed, Claims
            <7> QED
              BY <7>1, ClaimedSet
          <6>3. b \notin E
            BY <1>1, <3>1, <6>1
          <6> QED
            BY <1>1, <6>1, <6>2, <6>3
        <5> QED
          BY <5>1 DEF FirstClaimed, Claims
      <4>2. Pending(q, b)
        BY <4>1, PendingUsed
      <4>3. PICK a \in Int : a = b - 1 /\ a >= -1
        BY <1>1 DEF Slots
      <4>4. Ended(q, a) < Occupied(q, b) /\ Ended(q, a) \in Int /\ Occupied(q, b) \in Int
        BY <1>1, <4>2, <4>3, Counts DEF Pending
      <4>5. ~ (LastUsed(q, b) <= a)
        BY <1>1, <4>3, <4>4, LastUsedAt
      <4> QED
        BY <1>1, <2>1, <4>3, <4>5
    <3> QED
      BY <3>1
  <2>5. I = Reached(q, b, b) + 1 /\ Reached(q, b, b) \in Int /\ Reached(q, b, b) < F
    BY <1>1, <1>8, <2>1, <2>2, <2>3, <2>4
  <2>6. \A e \in q.runends : e < F => (e > l <=> I <= e)
    <3>1. ASSUME NEW e \in q.runends, e < F PROVE e > l <=> I <= e
      <4>1. e \in Int
        BY <1>4
      <4>2. e > l => e >= b
        <5>1. Claims(q, b, E)
          BY DEF FirstClaimed
        <5> QED
          BY <1>2, <5>1, MovedEndsAre
      <4>3. I = IF l <= b - 1 THEN b ELSE l + 1
        BY <1>1, <2>2, <2>5
      <4>4. CASE b = F
        BY <1>1, <3>1, <4>1, <4>2, <4>3, <4>4
      <4>5. CASE b # F
        BY <1>1, <2>4, <4>1, <4>3, <4>5
      <4> QED
        BY <4>4, <4>5
    <3> QED
      BY <3>1
  <2>7. \A e \in q.runends : near(e) = m(e)
    <3>1. ASSUME NEW e \in q.runends PROVE near(e) = m(e)
      <4>1. e \in Int /\ e # F
        BY <1>4
      <4>2. CASE e < F
        BY <1>4, <2>6, <4>1, <4>2
      <4>3. CASE e > F
        BY <1>1, <1>4, <4>1, <4>3
      <4> QED
        BY <1>1, <4>1, <4>2, <4>3
    <3> QED
      BY <3>1
  <2> HIDE DEF near
  <2>8. shifted = MovedEnds(q, b, E)
    BY <1>5, <1>6, <2>7
  <2>9. I + n - 1 = Reached(q, b, b) + Cardinality(E)
    BY <1>3, <2>5
  <2> QED
    BY <1>8, <2>8, <2>9 DEF NewEnds
<1> QED
  BY <1>7, <1>8


\* insert_mementos and the lone memento of qf_insert_single keep the metadata
\* exact, given the empty slots from the bucket on.
LEMMA InsertBoxAccurate ==
    ASSUME NEW q, Accurate(q), Shaped(q), SlotsTyped(q), NEW b \in Buckets,
           NEW runs, NEW E, E = EmptySlotsOf(runs), NEW n, n = Cardinality(E),
           NEW F, F = runs[1][1], FirstClaimed(q, b, E, F), RunBefore(q, b, F),
           NEW f \in Nat, NEW values, NEW r, r = InsertBox(q, b, f, runs, n, values)
    PROVE  Accurate(r) /\ Shaped(r)
<1>1. Paired(q) /\ OffsetsCut(q) /\ q.noccupied_slots = Cardinality(UsedSlots(q))
  BY DEF Accurate
<1>2. b \in Slots /\ b \in Int
  BY BlocksReach, GeometryAssumption, FilterAssumption DEF Buckets, Slots
<1>3. PICK room : room = RoomBehind(q, b, runs, n)
  OBVIOUS
<1>4. /\ Shaped(room) /\ SlotsTyped(room) /\ room.occupieds = q.occupieds
      /\ room.runends = MovedEnds(q, F, E)
      /\ room.noccupied_slots = q.noccupied_slots
      /\ OpensOffsets(q, room, b, E)
  BY <1>2, <1>3, RoomBehindIs
<1>5. RoomFrom(q, room, b, F)
  BY <1>2, <1>3, RoomBehindReads
<1>6. RunEnd(room, b) = EndOfRuns(q, b)
  BY <1>1, <1>2, <1>5, RunEndKept
<1>7. F \in Nat /\ F \in Slots /\ b <= F /\ LastUsed(q, b) \in Int
  BY <1>1, <1>2, FirstClaimedIs
<1>8. PICK I : I = InsertIndex(room, b, f, F)
  OBVIOUS
<1>9. /\ I \in Int
      /\ b \in q.occupieds => RunFirst(q, b) <= I /\ I <= RunendOf(q, b) + 1
      /\ b \notin q.occupieds => I = IF b = F THEN b ELSE EndOfRuns(q, b) + 1
  <2>1. /\ b \in q.occupieds => I \in Nat /\ RunFirst(q, b) <= I /\ I <= RunendOf(q, b) + 1
        /\ b \notin q.occupieds => I = IF b = F THEN b ELSE EndOfRuns(q, b) + 1
    BY <1>1, <1>2, <1>5, <1>8, InsertIndexIs
  <2>2. EndOfRuns(q, b) \in Int
    <3>1. EndOfRuns(q, b) = IF b >= LastUsed(q, b) THEN b ELSE LastUsed(q, b)
      BY <1>2, <1>7, LargerOf DEF EndOfRuns
    <3> QED
      BY <1>2, <1>7, <3>1
  <2> QED
    BY <1>2, <2>1, <2>2
<1>10. n \in Nat \ {0} /\ E \in SUBSET Slots /\ E # {} /\ Claims(q, b, E)
  <2>1. E \in SUBSET Slots /\ E # {} /\ Claims(q, b, E)
    BY DEF FirstClaimed, Claims
  <2> QED
    BY <2>1, ClaimedSet
<1>11. PICK shifted : shifted = ShiftInto(room, I, I, << <<F, n>> >>, n)
  OBVIOUS
<1>12. /\ Shaped(shifted) /\ shifted.occupieds = room.occupieds /\ shifted.offset = room.offset
       /\ shifted.noccupied_slots = room.noccupied_slots
       /\ shifted.runends = Pushed(room.runends, I, F, n)
  <2>1. room.runends \subseteq Int
    <3>1. Claims(q, F, E)
      BY <1>1, <1>2, FirstClaimedIs
    <3>2. MovedEnds(q, F, E) \subseteq Slots
      BY <1>1, <1>7, <3>1, MovedEndsAre
    <3> QED
      BY <1>4, <3>2 DEF Slots
  <2>2. Shaped(room) /\ F \in Nat /\ n \in Nat \ {0} /\ I \in Int
    BY <1>4, <1>7, <1>9, <1>10
  <2>3. /\ Shaped(shifted) /\ shifted.occupieds = room.occupieds /\ shifted.offset = room.offset
        /\ shifted.noccupied_slots = room.noccupied_slots
    BY <1>11, <2>1, <2>2, NearShift
  <2>4. shifted.runends = Pushed(room.runends, I, F, n)
    BY <1>11, <2>1, <2>2, NearShift
  <2> QED
    BY <2>3, <2>4
<1>13. NewEnds(q, b, n, EndOfRuns(q, b), shifted.runends, I + n - 1)
         = MovedEnds(q, b, E) \cup (IF b \in q.occupieds THEN {} ELSE {Reached(q, b, b) + Cardinality(E)})
  <2>1. PICK ends : ends = shifted.runends
    OBVIOUS
  <2>3. ends = Pushed(MovedEnds(q, F, E), I, F, n)
    BY <1>4, <1>12, <2>1
  <2>4. NewEnds(q, b, n, EndOfRuns(q, b), ends, I + n - 1)
          = MovedEnds(q, b, E) \cup (IF b \in q.occupieds THEN {} ELSE {Reached(q, b, b) + Cardinality(E)})
    BY <1>1, <1>2, <1>9, <2>3, InsertedRuns
  <2> QED
    BY <2>1, <2>4
<1>14. r = InsertBoxAt(room, b, F, n, I, values)
  BY <1>3, <1>8 DEF InsertBox
<1>15. PICK w : w = Write(shifted, I, values)
  OBVIOUS
<1>16. /\ Shaped(w) /\ w.offset = shifted.offset /\ w.runends = shifted.runends
       /\ w.occupieds = shifted.occupieds /\ w.noccupied_slots = shifted.noccupied_slots
  BY <1>12, <1>15 DEF Write, Shaped, Fields
<1>17. PICK ends : ends = NewEnds(room, b, n, RunEnd(room, b), shifted.runends, I + n - 1)
  OBVIOUS
<1>18. r = [w EXCEPT !.runends = ends, !.occupieds = @ \cup {b}, !.noccupied_slots = @ + n,
                     !.ndistinct_elts = (@ + 1) % CounterRange]
  BY <1>11, <1>14, <1>15, <1>17 DEF InsertBoxAt, NewEnds, IsOccupied
<1>19. /\ r.runends = ends /\ r.occupieds = q.occupieds \cup {b}
       /\ r.noccupied_slots = q.noccupied_slots + n
  BY <1>4, <1>12, <1>16, <1>18 DEF Shaped, Fields
<1>20. Shaped(r) /\ r.offset = room.offset
  BY <1>12, <1>16, <1>18 DEF Shaped, Fields
<1>21. OpensRuns(q, r, b, E)
  <2>1. ends = NewEnds(q, b, n, EndOfRuns(q, b), shifted.runends, I + n - 1)
    BY <1>4, <1>6, <1>17 DEF NewEnds
  <2> QED
    BY <1>13, <1>19, <2>1 DEF OpensRuns
<1>22. OpensOffsets(q, r, b, E)
  BY <1>4, <1>20 DEF OpensOffsets
<1> QED
  BY <1>10, <1>19, <1>20, <1>21, <1>22, OpenedAccurate


\* The first empty slots from a bucket on are claims of its new box.
LEMMA FoundClaims ==
    ASSUME NEW q, Paired(q), NEW b \in Slots, NEW n \in Nat \ {0}, NEW E, FoundSlots(q, b, n, E),
           NEW F \in E, \A e \in E : F <= e
    PROVE  FirstClaimed(q, b, E, F)
<1>1. E \in SUBSET Slots /\ E # {} /\ \A e \in E : e >= b /\ e \notin UsedSlots(q)
  BY DEF FoundSlots
<1>2. Max(E) \in E /\ Max(E) \in Int /\ b \in Int /\ b >= 0
  <2>1. Max(E) \in E /\ Max(E) \in Slots
    BY <1>1, ClaimedSet
  <2> QED
    BY <2>1 DEF Slots
<1>3. ASSUME NEW s \in b .. Max(E) PROVE s \in UsedSlots(q) \cup E
  <2>1. s \in Slots /\ b <= s /\ s <= Max(E)
    BY <1>1, <1>2, BlocksReach DEF Slots
  <2>2. \A e \in E : b <= s /\ s <= e => s \in UsedSlots(q) \cup E
    BY <2>1 DEF FoundSlots
  <2> QED
    BY <1>2, <2>1, <2>2
<1>4. Claims(q, b, E)
  BY <1>1, <1>3 DEF Claims
<1> QED
  BY <1>4 DEF FirstClaimed

\* The run of a bucket of the filter is one an insertion can search.
LEMMA RunIsBefore ==
    ASSUME TypeOK, RunsWellFormed, NEW b, NEW F, b <= F, LastUsed(qf, b) < F
    PROVE  RunBefore(qf, b, F)
<1>1. ASSUME b \in qf.occupieds
      PROVE  \E s : WithinRun(qf, s, RunendOf(qf, b)) /\ s[1] = RunFirst(qf, b)
  <2>1. PICK s : s = BoxesIn(qf, b)
    OBVIOUS
  <2>2. IsRun(qf, s, RunendOf(qf, b)) /\ s[1] = RunFirst(qf, b)
    BY <1>1, <2>1, RunOfBucket
  <2>3. \A j \in 1 .. Len(s) : s[1] <= s[j] /\ s[j] + BoxLen(qf, s[j]) - 1 <= RunendOf(qf, b)
    BY <1>1, <2>1, <2>2, BoxesInRun
  <2> QED
    BY <2>2, <2>3 DEF WithinRun
<1> QED
  BY <1>1 DEF RunBefore

LEMMA NewSlotCountPositive ==
    ASSUME NEW f, NEW ms \in MementoLists, ms # << >>
    PROVE  NewSlotCount(f, ms) \in Nat \ {0}
<1>1. PICK n \in Nat \ {0} : n = Len(ms)
  <2>1. ms \in Seq(KeyMementos)
    BY FilterAssumption
  <2> QED
    BY <2>1
<1>2. CASE f # 0 /\ n > 2
  <2>1. PICK D : D = {d \in 1 .. MaxDigits : n - 2 >= MaxMemento^d}
    OBVIOUS
  <2>2. Cardinality(D) \in Nat
    <3>1. IsFiniteSet(D)
      <4>1. PICK m \in Int : m = MaxDigits /\ IsFiniteSet(1 .. m)
        BY FS_Interval DEF MaxDigits
      <4> QED
        BY <2>1, <4>1, FS_Subset
    <3> QED
      BY <3>1, FS_CardinalityType
  <2>3. PICK x \in Nat : x = n - 2 + (IF MementoBits > 2 THEN 1 ELSE 0) + 2 * Cardinality(D)
    BY <1>2, <2>2
  <2>4. PICK y \in Nat : y = x * MementoBits
    BY Widths
  <2>5. PICK d \in Nat \ {0} : d = BitsPerSlot
    BY Widths
  <2>6. NewSlotCount(f, ms) = (2 * d + y + d - 1) \div d
    BY <1>1, <1>2, <2>1, <2>3, <2>4, <2>5 DEF NewSlotCount
  <2>7. PICK w \in Nat : w = 2 * d + y + d - 1 /\ d <= w
    OBVIOUS
  <2>8. w \div d \in Nat /\ w < (w \div d) * d + d
    BY Division
  <2>9. w \div d # 0
    BY <2>7, <2>8
  <2> QED
    BY <2>6, <2>7, <2>8, <2>9
<1>3. CASE ~ (f # 0 /\ n > 2)
  <2>1. NewSlotCount(f, ms) = IF n = 2 /\ ms[1] = ms[2] THEN 3 ELSE n
    BY <1>1, <1>3 DEF NewSlotCount
  <2> QED
    BY <2>1
<1> QED
  BY <1>2, <1>3

LEMMA PrefixSetAccurate ==
    ASSUME TypeOK, RunsWellFormed, OffsetsExact, SlotsAccounted,
           NEW b \in Buckets, NEW f \in Nat, NEW ms \in MementoLists, ms # << >>
    PROVE  Accurate(InsertPrefixSet(qf, b, f, ms).qf) /\ Shaped(InsertPrefixSet(qf, b, f, ms).qf)
<1>1. Accurate(qf) /\ Shaped(qf) /\ SlotsTyped(qf) /\ Paired(qf) /\ OffsetsCut(qf)
  BY AccurateFilter DEF Accurate
<1>2. PICK n \in Nat \ {0} : n = NewSlotCount(f, ms)
  BY NewSlotCountPositive
<1>3. PICK runs : runs = FindEmptySlotRuns(qf, b, n)
  OBVIOUS
<1>4. b \in Slots /\ b \in Nat /\ EndOfBlocks \in Nat
  BY BlocksReach, GeometryAssumption, FilterAssumption DEF Buckets, Slots
<1>5. FoundRuns(qf, b, n, runs)
  BY <1>1, <1>3, <1>4, FindEmptySlotRunsExact
<1>6. CASE NoSpace(runs)
  <2>1. InsertPrefixSet(qf, b, f, ms).qf = qf
    BY <1>2, <1>3, <1>6 DEF InsertPrefixSet
  <2> QED
    BY <1>1, <2>1
<1>7. CASE ~ NoSpace(runs)
  <2>1. PICK E, F : E = EmptySlotsOf(runs) /\ F = runs[1][1]
    OBVIOUS
  <2>2. /\ E \subseteq Slots /\ IsFiniteSet(E) /\ Cardinality(E) = n
        /\ \A e \in E : e >= b /\ e \notin UsedSlots(qf)
        /\ \A t \in Slots : \A e \in E : b <= t /\ t <= e => t \in UsedSlots(qf) \cup E
        /\ F = FirstFrom(qf, b)
    BY <1>4, <1>5, <1>7, <2>1 DEF FoundRuns
  <2>3. FoundSlots(qf, b, n, E)
    BY <2>2 DEF FoundSlots
  <2>4. \A e \in E : F <= e
    <3>1. b \in 0 .. EndOfBlocks
      BY <1>4 DEF Slots
    <3>2. \A e \in E : e \in Candidates(qf) /\ e >= b
      BY <2>2 DEF Candidates
    <3> QED
      BY <2>2, <3>1, <3>2, FirstFromIs
  <2>5. F \in E
    <3>1. PICK e \in E : e \in Slots
      <4>1. E # {}
        BY <1>2, <2>2, FS_EmptySet
      <4> QED
        BY <2>2, <4>1
    <3>2. F \in Candidates(qf) /\ F >= b /\ F \in 0 .. EndOfBlocks
      <4>1. b \in 0 .. EndOfBlocks
        BY <1>4 DEF Slots
      <4> QED
        BY <2>2, <4>1, FirstFromIs
    <3>3. F \in Slots /\ F <= e /\ b <= F
      BY <1>4, <2>4, <3>1, <3>2 DEF Slots
    <3>4. F \notin UsedSlots(qf)
      BY <1>4, <3>2, <3>3 DEF Candidates, Slots
    <3> QED
      BY <2>2, <3>3, <3>4
  <2>6. FirstClaimed(qf, b, E, F)
    BY <1>1, <1>4, <2>3, <2>4, <2>5, FoundClaims
  <2>7. RunBefore(qf, b, F)
    <3>1. b <= F /\ LastUsed(qf, b) < F
      BY <1>1, <1>4, <2>6, FirstClaimedIs
    <3> QED
      BY <3>1, RunIsBefore
  <2>8. PICK values : values = PrefixSet(f, ms)
    OBVIOUS
  <2>9. InsertPrefixSet(qf, b, f, ms).qf = InsertBox(qf, b, f, runs, n, values)
    BY <1>2, <1>3, <1>7, <2>8 DEF InsertPrefixSet
  <2>10. PICK r : r = InsertBox(qf, b, f, runs, n, values)
    OBVIOUS
  <2>11. n = Cardinality(E)
    BY <2>2
  <2>12. Accurate(r) /\ Shaped(r)
    BY <1>1, <2>1, <2>6, <2>7, <2>10, <2>11, InsertBoxAccurate
  <2> QED
    BY <2>9, <2>10, <2>12
<1> QED
  BY <1>6, <1>7

LEMMA InsertMementosAccurate ==
    ASSUME TypeOK, RunsWellFormed, OffsetsExact, SlotsAccounted,
           NEW b \in Buckets, NEW f \in Nat, NEW ms \in MementoLists, InsertMementos(b, f, ms)
    PROVE  Accurate(qf')
<1>1. Accurate(qf) /\ Shaped(qf)
  BY AccurateFilter
<1>2. qf' = qf \/ (ms # << >> /\ Keep(InsertPrefixSet(qf, b, f, ms), Len(ms)))
  BY DEF InsertMementos, AddMementos, Return
<1>3. CASE ms # << >> /\ Keep(InsertPrefixSet(qf, b, f, ms), Len(ms))
  <2>1. PICK added, n : added = InsertPrefixSet(qf, b, f, ms) /\ n = Len(ms)
    OBVIOUS
  <2>2. Accurate(added.qf) /\ Shaped(added.qf)
    BY <1>3, <2>1, PrefixSetAccurate
  <2>3. qf' = Counted(added.qf, n) \/ qf' = qf
    BY <1>3, <2>1 DEF Keep, Return
  <2> QED
    BY <1>1, <2>2, <2>3, WrittenAccurate
<1> QED
  BY <1>1, <1>2, <1>3


\* Without an empty slot the new box pushes the last run past the blocks.
LEMMA PushedPast ==
    ASSUME NEW q, Accurate(q), Shaped(q), SlotsTyped(q), NEW b \in Buckets,
           \A t \in Slots : b <= t => t \in UsedSlots(q), RunBefore(q, b, EndOfBlocks),
           NEW f \in Nat, NEW values,
           NEW r, r = InsertBox(q, b, f, << <<EndOfBlocks, 1>> >>, 1, values)
    PROVE  EndOfBlocks \in r.runends
<1>1. Paired(q) /\ OffsetsCut(q)
  BY DEF Accurate
<1>2. b \in Slots /\ b \in Int /\ b >= 0
  BY BlocksReach, GeometryAssumption, FilterAssumption DEF Buckets, Slots
<1>3. PICK F, runs, E : /\ F = EndOfBlocks /\ F \in Nat /\ runs = << <<F, 1>> >> /\ E = EmptySlotsOf(runs)
                        /\ E = {F} /\ runs[1][1] = F
  <2>1. PICK F \in Nat : F = EndOfBlocks
    BY BlocksReach
  <2>2. EmptySlotsOf(<< <<F, 1>> >>) = {F}
    BY SingleRun
  <2> QED
    BY <2>1, <2>2
<1>4. PICK n \in Nat \ {0} : n = 1 /\ n = Cardinality(E)
  <2>1. Cardinality({F}) = 1
    BY FS_Singleton
  <2> QED
    BY <1>3, <2>1
<1>5. PICK pushed : pushed = ShiftInto(q, F, F, runs, n)
  OBVIOUS
<1>6. Max(E) = F
  <2>1. F \in {F} /\ \A y \in {F} : y <= F
    BY <1>3
  <2>2. {F} \in SUBSET Int
    BY <1>3
  <2> QED
    BY <1>3, <2>1, <2>2, Greatest
<1>7. q.runends \subseteq Slots /\ \A e \in q.runends : e \in Int /\ e < F
  BY <1>1, <1>3 DEF Paired, Slots
<1>8. /\ Shaped(pushed) /\ pushed.occupieds = q.occupieds /\ pushed.offset = q.offset
      /\ pushed.runends = q.runends
  <2>1. n = Cardinality(EmptySlotsOf(runs))
    BY <1>3, <1>4
  <2>2. Shaped(pushed) /\ pushed.occupieds = q.occupieds /\ pushed.offset = q.offset
    BY <1>5, <2>1, ShiftedRuns
  <2>3. pushed.runends = (q.runends \ MovedFrom(q, F, E)) \cup {Shifted(E, e) : e \in MovedFrom(q, F, E)}
    BY <1>3, <1>5, <2>1, ShiftedRuns
  <2>4. MovedFrom(q, F, E) = {}
    BY <1>3, <1>7 DEF MovedFrom
  <2> QED
    BY <2>2, <2>3, <2>4
<1>9. pushed.slots = q.slots
  <2> DEFINE moving == {i \in F .. Max(E) : i \notin E}
             places == {Shifted(E, i) : i \in moving}
             source(j) == CHOOSE i \in moving : Shifted(E, i) = j
  <2>1. E = EmptySlotsOf(runs) /\ n = Cardinality(E)
    BY <1>3, <1>4
  <2>2. pushed.slots = [j \in Slots |-> IF j \in places THEN q.slots[source(j)] ELSE q.slots[j]]
    BY <1>5, <2>1 DEF ShiftInto, Shaped, Fields, Shifted, SlotsTyped
  <2>3. moving = {}
    BY <1>3, <1>6
  <2>4. places = {}
    BY <2>3
  <2> HIDE DEF places, source
  <2>5. pushed.slots = [j \in Slots |-> q.slots[j]]
    BY <2>2, <2>4
  <2> QED
    BY <2>5 DEF SlotsTyped
<1>10. PICK room : room = BumpOffsets(pushed, b, runs, n)
  OBVIOUS
<1>11. /\ Shaped(room) /\ SameRuns(pushed, room) /\ room.slots = pushed.slots
       /\ OpensOffsets(pushed, room, b, EmptySlotsOf(runs))
  <2>1. n = Cardinality(EmptySlotsOf(runs))
    BY <1>3, <1>4
  <2> QED
    BY <1>8, <1>10, <2>1, BumpedOffsets
<1>12. SameRuns(q, room) /\ room.slots = q.slots
  BY <1>8, <1>9, <1>11 DEF SameRuns
<1>13. RoomFrom(q, room, b, F)
  <2>1. Paired(room) /\ \A c : LastUsed(room, c) = LastUsed(q, c)
    BY <1>1, <1>12, SameReading
  <2>2. \A k \in 0 .. BlockOf(b) : room.offset[k] = q.offset[k]
    <3>1. BlockOf(b) \in 0 .. NBlocks - 1 /\ NBlocks \in Nat
      BY <1>2, SlotInBlock, BlocksReach
    <3>2. ASSUME NEW k \in 0 .. BlockOf(b) PROVE room.offset[k] = q.offset[k]
      <4>1. k \in 0 .. NBlocks - 1 /\ k \notin BlockOf(b) + 1 .. BlockOf(Max(EmptySlotsOf(runs)))
        BY <3>1
      <4> QED
        BY <1>8, <1>11, <4>1 DEF OpensOffsets
    <3> QED
      BY <3>2
  <2>3. SlotsTyped(room) /\ \A x : SlotAt(room, x) = SlotAt(q, x)
    BY <1>12 DEF SlotsTyped, SlotAt
  <2>4. ReadsTo(q, room, F)
    BY <1>12, <2>3 DEF ReadsTo, IsRunend, SameRuns
  <2>5. room.occupieds = q.occupieds
    BY <1>12 DEF SameRuns
  <2>6. F \in Nat
    BY <1>3
  <2> QED
    BY <1>11, <2>1, <2>2, <2>3, <2>4, <2>5, <2>6 DEF RoomFrom
<1>14. RunEnd(room, b) = EndOfRuns(q, b)
  BY <1>1, <1>2, <1>13, RunEndKept
<1>15. LastUsed(q, b) \in Int /\ LastUsed(q, b) < F
  BY <1>1, <1>2, <1>3, EndedAtLast
<1>16. EndOfRuns(q, b) \in Int /\ EndOfRuns(q, b) < F
  <2>1. EndOfRuns(q, b) = IF b >= LastUsed(q, b) THEN b ELSE LastUsed(q, b)
    BY <1>2, <1>15, LargerOf DEF EndOfRuns
  <2>2. b < F
    BY <1>2, <1>3 DEF Slots
  <2> QED
    BY <1>2, <1>15, <2>1, <2>2
<1>17. PICK I : I = InsertIndex(room, b, f, F)
  OBVIOUS
<1>18. I \in Int /\ I <= F /\ (b \in q.occupieds => I <= EndOfRuns(q, b) + 1)
  <2>1. RunBefore(q, b, F)
    BY <1>3
  <2>2. /\ b \in q.occupieds => I \in Nat /\ I <= RunendOf(q, b) + 1
        /\ b \notin q.occupieds => I = IF b = F THEN b ELSE EndOfRuns(q, b) + 1
    BY <1>1, <1>2, <1>13, <1>17, <2>1, InsertIndexIs
  <2>3. b \in q.occupieds => RunendOf(q, b) = EndOfRuns(q, b)
    <3>1. ASSUME b \in q.occupieds PROVE RunendOf(q, b) = EndOfRuns(q, b)
      <4>1. LastUsed(q, b) = RunendOf(q, b) /\ LastUsed(q, b) >= b
        BY <1>1, <3>1, OwnRunend
      <4> QED
        BY <1>2, <1>15, <4>1, LargerOf DEF EndOfRuns
    <3> QED
      BY <3>1
  <2> QED
    BY <1>2, <1>3, <1>16, <2>2, <2>3
<1>19. F - 1 \in q.runends
  <2>1. PICK t \in Slots : t = F - 1 /\ b <= t /\ t \in Int
    <3>1. F - 1 \in Slots /\ b <= F - 1
      BY <1>2, <1>3 DEF Slots
    <3> QED
      BY <1>3, <3>1
  <2>2. LastUsed(q, t) >= t
    BY <1>1, <2>1, UsedByLast
  <2>3. LastUsed(q, t) = t /\ LastUsed(q, t) >= 0
    <3>1. LastUsed(q, t) \in Int /\ LastUsed(q, t) <= EndOfBlocks - 1
      BY <1>1, <2>1, EndedAtLast
    <3>2. t >= 0
      BY <2>1 DEF Slots
    <3> QED
      BY <1>3, <2>1, <2>2, <3>1, <3>2
  <2> QED
    BY <1>1, <2>1, <2>3, EndedAtLast
<1>20. PICK shifted : shifted = ShiftInto(room, I, I, << <<F, n>> >>, n)
  OBVIOUS
<1>21. Shaped(shifted) /\ shifted.runends = Pushed(q.runends, I, F, n)
  <2>1. room.runends = q.runends /\ room.runends \subseteq Int
    BY <1>7, <1>12 DEF SameRuns
  <2>2. Shaped(shifted) /\ shifted.runends = Pushed(room.runends, I, F, n)
    BY <1>3, <1>11, <1>18, <1>20, <2>1, NearShift
  <2> QED
    BY <2>1, <2>2
<1>22. I <= F - 1 => F \in shifted.runends
  <2>1. ASSUME I <= F - 1 PROVE F \in Pushed(q.runends, I, F, n)
    <3>1. PICK A : A = {e \in q.runends : I <= e /\ e < F}
      OBVIOUS
    <3>2. F - 1 \in A
      BY <1>3, <1>18, <1>19, <2>1, <3>1
    <3>3. F = (F - 1) + n
      BY <1>3, <1>4
    <3>4. F \in {e + n : e \in A}
      BY <3>2, <3>3
    <3> QED
      BY <3>1, <3>4 DEF Pushed
  <2> QED
    BY <1>21, <2>1
<1>23. EndOfBlocks \in NewEnds(room, b, n, RunEnd(room, b), shifted.runends, I + n - 1)
  <2>1. I <= F - 1 \/ I = F
    BY <1>3, <1>18
  <2>2. room.occupieds = q.occupieds
    BY <1>12 DEF SameRuns
  <2>3. CASE b \in q.occupieds
    <3>1. I = F => EndOfRuns(q, b) + n = F
      BY <1>3, <1>4, <1>16, <1>18, <2>3
    <3> QED
      BY <1>3, <1>14, <1>16, <1>22, <2>1, <2>2, <2>3, <3>1 DEF NewEnds
  <2>4. CASE b \notin q.occupieds
    <3>1. I + n - 1 = I
      BY <1>4, <1>18
    <3> QED
      BY <1>3, <1>22, <2>1, <2>2, <2>4, <3>1 DEF NewEnds
  <2> QED
    BY <2>3, <2>4
<1>24. r = InsertBoxAt(room, b, F, n, I, values)
  <2>1. room = RoomBehind(q, b, runs, n)
    BY <1>3, <1>5, <1>10 DEF RoomBehind
  <2>2. r = InsertBox(q, b, f, runs, n, values)
    BY <1>3, <1>4
  <2> QED
    BY <1>3, <1>17, <2>1, <2>2 DEF InsertBox
<1>25. PICK w : w = Write(shifted, I, values)
  OBVIOUS
<1>26. Shaped(w)
  BY <1>21, <1>25 DEF Write, Shaped, Fields
<1>27. PICK ends : ends = NewEnds(room, b, n, RunEnd(room, b), shifted.runends, I + n - 1)
  OBVIOUS
<1>28. r = [w EXCEPT !.runends = ends, !.occupieds = @ \cup {b}, !.noccupied_slots = @ + n,
                     !.ndistinct_elts = (@ + 1) % CounterRange]
  BY <1>20, <1>24, <1>25, <1>27 DEF InsertBoxAt, NewEnds, IsOccupied
<1>29. r.runends = ends
  BY <1>26, <1>28 DEF Shaped, Fields
<1> QED
  BY <1>23, <1>27, <1>29

LEMMA InsertAloneAccurate ==
    ASSUME TypeOK, RunsWellFormed, OffsetsExact, SlotsAccounted, TypeOK',
           NEW b \in Buckets, NEW f \in Nat, NEW m, InsertAlone(b, f, m)
    PROVE  Accurate(qf')
<1>1. Accurate(qf) /\ Shaped(qf) /\ SlotsTyped(qf) /\ Paired(qf) /\ OffsetsCut(qf)
  BY AccurateFilter DEF Accurate
<1>2. b \in Slots /\ b \in Nat /\ EndOfBlocks \in Nat
  BY BlocksReach, GeometryAssumption, FilterAssumption DEF Buckets, Slots
<1>3. PICK F : F = FindFirstEmptySlot(qf, b)
  OBVIOUS
<1>4. /\ F \in Nat
      /\ F \in Slots => FoundSlots(qf, b, 1, {F})
      /\ F \notin Slots => F = EndOfBlocks /\ \A t \in Slots : b <= t => t \in UsedSlots(qf)
  BY <1>1, <1>2, <1>3, FirstEmptyFound
<1>5. PICK values, r : /\ values = << SlotOf(f, m) >>
                       /\ r = InsertBox(qf, b, f, << <<F, 1>> >>, 1, values)
  OBVIOUS
<1>6. qf' = qf \/ qf' = Counted(r, 1)
  BY <1>3, <1>5 DEF InsertAlone, Return
<1>7. CASE F \in Slots
  <2>1. PICK runs, E, n : /\ runs = << <<F, 1>> >> /\ E = EmptySlotsOf(runs) /\ E = {F}
                          /\ n = 1 /\ n = Cardinality(E) /\ n \in Nat \ {0} /\ F = runs[1][1]
    <3>1. EmptySlotsOf(<< <<F, 1>> >>) = {F}
      BY <1>4, SingleRun
    <3>2. Cardinality({F}) = 1 /\ << <<F, 1>> >>[1][1] = F
      BY FS_Singleton
    <3> QED
      BY <3>1, <3>2
  <2>2. FirstClaimed(qf, b, E, F)
    <3>1. FoundSlots(qf, b, n, E) /\ F \in E /\ \A e \in E : F <= e
      BY <1>4, <1>7, <2>1
    <3> QED
      BY <1>1, <1>2, <2>1, <3>1, FoundClaims
  <2>3. RunBefore(qf, b, F)
    <3>1. b <= F /\ LastUsed(qf, b) < F
      BY <1>1, <1>2, <2>2, FirstClaimedIs
    <3> QED
      BY <3>1, RunIsBefore
  <2>4. r = InsertBox(qf, b, f, runs, n, values)
    BY <1>5, <2>1
  <2>5. Accurate(r) /\ Shaped(r)
    BY <1>1, <2>1, <2>2, <2>3, <2>4, InsertBoxAccurate
  <2> QED
    BY <1>1, <1>6, <2>5, WrittenAccurate
<1>8. CASE F \notin Slots
  <2>1. F = EndOfBlocks /\ \A t \in Slots : b <= t => t \in UsedSlots(qf)
    BY <1>4, <1>8
  <2>2. RunBefore(qf, b, EndOfBlocks)
    <3>1. b <= EndOfBlocks
      BY <1>2 DEF Slots
    <3>2. LastUsed(qf, b) \in Int /\ LastUsed(qf, b) <= EndOfBlocks - 1
      <4>1. b \in Int
        BY <1>2
      <4> QED
        BY <1>1, <4>1, EndedAtLast
    <3>3. LastUsed(qf, b) < EndOfBlocks
      BY <1>2, <3>2
    <3> QED
      BY <3>1, <3>3, RunIsBefore
  <2>3. EndOfBlocks \in r.runends
    BY <1>1, <1>5, <2>1, <2>2, PushedPast
  <2>4. qf' # Counted(r, 1)
    <3>1. Counted(r, 1).runends = r.runends \/ "runends" \notin DOMAIN r
      BY DEF Counted
    <3>2. qf' \in Filters
      BY DEF TypeOK
    <3>3. DOMAIN qf' = Fields /\ qf'.runends \subseteq Slots
      BY <3>2 DEF Filters, Fields
    <3>4. DOMAIN Counted(r, 1) = DOMAIN r
      BY DEF Counted
    <3>5. EndOfBlocks \notin Slots
      BY <1>2 DEF Slots
    <3> QED
      BY <2>3, <3>1, <3>3, <3>4, <3>5 DEF Fields
  <2> QED
    BY <1>1, <1>6, <2>4
<1> QED
  BY <1>7, <1>8

LEMMA AccuracyStated ==
    ASSUME Accurate(qf')
    PROVE  OffsetsExact' /\ SlotsAccounted'
<1>1. OffsetsExact'
  BY DEF Accurate, OffsetsCut, OffsetsCutTo, OffsetsExact, Spill
<1>2. SlotsAccounted'
  BY DEF Accurate, SlotsAccounted
<1> QED
  BY <1>1, <1>2

LEMMA FingerprintsCounted == Fingerprints \subseteq Nat
  BY PowerPositive, BitsAssumption DEF Fingerprints

\* qf_insert_single and qf_insert_mementos leave every block's offset the spill
\* it stands for and noccupied_slots the number of slots in use, whichever slots
\* they claim and however far they move the runs, unless the table has no slot
\* left for what they shift (TypeOK').
THEOREM InsertionsAccurate ==
    ASSUME TypeOK, RunsWellFormed, OffsetsExact, SlotsAccounted, TypeOK', NEW x \in KeyPrefixes,
           \/ \E m \in KeyMementos : InsertSingle(x[1], x[2], m)
           \/ \E ms \in MementoLists : InsertMementos(x[1], x[2], ms)
    PROVE  OffsetsExact' /\ SlotsAccounted'
<1>1. PICK b \in Buckets, f \in Fingerprints : b = x[1] /\ f = x[2]
  BY FilterAssumption
<1>2. f \in Nat
  BY FingerprintsCounted
<1>3. ASSUME NEW m \in KeyMementos, InsertSingle(b, f, m) PROVE Accurate(qf')
  <2>1. qf' = qf \/ InsertJoining(b, f, m) \/ InsertAlone(b, f, m)
    BY <1>3 DEF InsertSingle, AddSingle, Return
  <2>2. CASE qf' = qf
    BY <2>2, AccurateFilter
  <2>3. CASE InsertJoining(b, f, m)
    BY <2>3, InsertJoiningAccurate
  <2>4. CASE InsertAlone(b, f, m)
    BY <1>2, <2>4, InsertAloneAccurate
  <2> QED
    BY <2>1, <2>2, <2>3, <2>4
<1>4. ASSUME NEW ms \in MementoLists, InsertMementos(b, f, ms) PROVE Accurate(qf')
  BY <1>2, <1>4, InsertMementosAccurate
<1>5. Accurate(qf')
  BY <1>1, <1>3, <1>4
<1> QED
  BY <1>5, AccuracyStated


(***************************************************************************)
(* Removing a slot.  Runends from slot i to the end l of the cluster move  *)
(* left by one.                                                            *)
(***************************************************************************)

MovedDown(ends, i, l) == {IF i <= e /\ e <= l THEN e - 1 ELSE e : e \in ends}

\* Bucket b's run and those behind it are in one piece up to l, where every
\* bucket so far has had its run.
Cluster(q, b, l) ==
    /\ l \in Slots /\ RunendOf(q, b) <= l /\ Ended(q, l) = Occupied(q, l)
    /\ \A x \in Int : b <= x /\ x < l => Ended(q, x) < Occupied(q, x)

\* r is q without d of its runs, bucket b's if any, and with the runends from i
\* to l moved down.
TurnCounts(q, r, b, i, l, d) ==
    /\ r.occupieds \subseteq q.occupieds /\ r.runends \subseteq Slots
    /\ Cardinality(r.occupieds) = Cardinality(r.runends)
    /\ \A y \in Int : /\ y < i - 1 => Ended(r, y) = Ended(q, y)
                      /\ i - 1 <= y /\ y < l => Ended(r, y) = Ended(q, y + 1) - d
                      /\ y >= l => Ended(r, y) = Ended(q, y) - d
                      /\ Occupied(r, y) = Occupied(q, y) - IF y >= b THEN d ELSE 0

LEMMA MovedDownCounts ==
    ASSUME NEW S, IntegerSet(S), NEW i \in Int, NEW l \in Int, i <= l, i \notin S \/ i - 1 \notin S
    PROVE  /\ IntegerSet(MovedDown(S, i, l))
           /\ Cardinality(MovedDown(S, i, l)) = Cardinality(S)
           /\ \A y \in Int : /\ y < i - 1 => UpTo(MovedDown(S, i, l), y) = UpTo(S, y)
                             /\ i - 1 <= y /\ y < l => UpTo(MovedDown(S, i, l), y) = UpTo(S, y + 1)
                             /\ y >= l => UpTo(MovedDown(S, i, l), y) = UpTo(S, y)
<1> DEFINE h == [e \in S |-> IF i <= e /\ e <= l THEN e - 1 ELSE e]
<1>1. \A e \in S : e \in Int
  BY DEF IntegerSet
<1>2. /\ \A e \in S : h[e] = IF i <= e /\ e <= l THEN e - 1 ELSE e
      /\ \A e \in S : h[e] \in Int
  BY <1>1
<1>3. MovedDown(S, i, l) = {h[e] : e \in S}
  BY <1>2 DEF MovedDown
<1> HIDE DEF h
<1>4. \A x, y \in S : x < y => h[x] < h[y]
  BY <1>1, <1>2
<1>5. /\ IntegerSet({h[x] : x \in S})
      /\ Cardinality({h[x] : x \in S}) = Cardinality(S)
      /\ \A y, z \in Int : (\A x \in S : h[x] <= y <=> x <= z) => UpTo({h[x] : x \in S}, y) = UpTo(S, z)
  BY <1>2, <1>4, Relocated
<1>6. ASSUME NEW y \in Int
      PROVE  /\ y < i - 1 => UpTo(MovedDown(S, i, l), y) = UpTo(S, y)
             /\ i - 1 <= y /\ y < l => UpTo(MovedDown(S, i, l), y) = UpTo(S, y + 1)
             /\ y >= l => UpTo(MovedDown(S, i, l), y) = UpTo(S, y)
  <2>1. PICK z \in Int : z = y + 1
    OBVIOUS
  <2>2. y < i - 1 \/ y >= l => \A x \in S : h[x] <= y <=> x <= y
    BY <1>1, <1>2
  <2>3. i - 1 <= y /\ y < l => \A x \in S : h[x] <= y <=> x <= z
    BY <1>1, <1>2, <2>1
  <2> QED
    BY <1>3, <1>5, <2>1, <2>2, <2>3
<1> QED
  BY <1>3, <1>5, <1>6

\* A slot of a longer run goes.
LEMMA ShorterRunCounts ==
    ASSUME NEW q, Paired(q), NEW b \in q.occupieds, NEW i \in Int, NEW l, Cluster(q, b, l),
           RunFirst(q, b) <= i, i <= RunendOf(q, b), RunFirst(q, b) < RunendOf(q, b),
           NEW r, r.occupieds = q.occupieds, r.runends = MovedDown(q.runends, i, l)
    PROVE  TurnCounts(q, r, b, i, l, 0)
<1>1. /\ RunFirst(q, b) \in Nat /\ RunFirst(q, b) >= b /\ RunFirst(q, b) > LastUsed(q, b - 1)
      /\ LastUsed(q, b - 1) \in Int /\ b \in Slots
      /\ \A e \in q.runends : e > LastUsed(q, b - 1) <=> e >= RunendOf(q, b)
      /\ RunendOf(q, b) \in Slots
  BY OwnRun
<1>2. b \in Int /\ l \in Int /\ l < EndOfBlocks /\ EndOfBlocks \in Nat /\ RunendOf(q, b) \in Int
      /\ RunendOf(q, b) <= l
  BY <1>1, BlocksReach DEF Cluster, Slots
<1>3. IntegerSet(q.runends) /\ q.runends \subseteq Slots /\ IntegerSet(q.occupieds)
  BY TableSets DEF Paired
<1>4. i \notin q.runends \/ i - 1 \notin q.runends
  <2>1. CASE i < RunendOf(q, b)
    <3>1. ASSUME i \in q.runends PROVE FALSE
      <4>1. i > LastUsed(q, b - 1) /\ ~ (i >= RunendOf(q, b))
        BY <1>1, <1>2, <2>1
      <4> QED
        BY <1>1, <3>1, <4>1
    <3> QED
      BY <3>1
  <2>2. CASE ~ (i < RunendOf(q, b))
    <3>1. ASSUME i - 1 \in q.runends PROVE FALSE
      <4>1. PICK e \in q.runends : e = i - 1
        BY <3>1
      <4>2. e > LastUsed(q, b - 1) /\ ~ (e >= RunendOf(q, b))
        BY <1>1, <1>2, <2>2, <4>1
      <4> QED
        BY <1>1, <4>2
    <3> QED
      BY <3>1
  <2> QED
    BY <2>1, <2>2
<1>5. i <= l
  BY <1>2
<1>6. PICK M : M = MovedDown(q.runends, i, l) /\ M = r.runends
  OBVIOUS
<1>7. /\ Cardinality(M) = Cardinality(q.runends)
      /\ \A y \in Int : /\ y < i - 1 => UpTo(M, y) = UpTo(q.runends, y)
                        /\ i - 1 <= y /\ y < l => UpTo(M, y) = UpTo(q.runends, y + 1)
                        /\ y >= l => UpTo(M, y) = UpTo(q.runends, y)
  BY <1>2, <1>3, <1>4, <1>5, <1>6, MovedDownCounts
<1>8. M \subseteq Slots
  <2>1. \A e \in q.runends : (IF i <= e /\ e <= l THEN e - 1 ELSE e) \in Slots
    BY <1>1, <1>2, <1>3 DEF Slots
  <2> QED
    BY <1>6, <2>1 DEF MovedDown
<1>9. Cardinality(r.occupieds) = Cardinality(r.runends)
  BY <1>6, <1>7 DEF Paired
<1>10. \A y \in Int : Ended(q, y) \in Int /\ Ended(q, y + 1) \in Int /\ Occupied(q, y) \in Int
  <2>1. \A y \in Int : Ended(q, y) \in Int /\ Occupied(q, y) \in Int
    BY Counts
  <2>2. \A y \in Int : y + 1 \in Int
    OBVIOUS
  <2> QED
    BY <2>1, <2>2
<1>11. ASSUME NEW y \in Int
       PROVE  /\ y < i - 1 => Ended(r, y) = Ended(q, y)
              /\ i - 1 <= y /\ y < l => Ended(r, y) = Ended(q, y + 1) - 0
              /\ y >= l => Ended(r, y) = Ended(q, y) - 0
              /\ Occupied(r, y) = Occupied(q, y) - IF y >= b THEN 0 ELSE 0
  <2>1. /\ y < i - 1 => Ended(r, y) = Ended(q, y)
        /\ i - 1 <= y /\ y < l => Ended(r, y) = Ended(q, y + 1)
        /\ y >= l => Ended(r, y) = Ended(q, y)
    BY <1>6, <1>7 DEF Ended
  <2>2. Occupied(r, y) = Occupied(q, y)
    BY DEF Occupied
  <2> QED
    BY <1>10, <2>1, <2>2
<1> QED
  BY <1>6, <1>8, <1>9, <1>11 DEF TurnCounts

\* The one slot of a run goes.
LEMMA LostRunCounts ==
    ASSUME NEW q, Paired(q), NEW b \in q.occupieds, NEW i, i = RunendOf(q, b), NEW l, Cluster(q, b, l),
           NEW r, r.occupieds = q.occupieds \ {b}, r.runends = MovedDown(q.runends \ {i}, i + 1, l)
    PROVE  TurnCounts(q, r, b, i, l, 1)
<1>1. /\ b \in Int /\ i \in q.runends /\ i \in Int /\ i >= 0 /\ l \in Int /\ l < EndOfBlocks /\ EndOfBlocks \in Nat /\ i <= l
  <2>1. b \in Slots /\ i \in q.runends /\ i \in Slots
    BY OwnRun
  <2> QED
    BY <2>1, BlocksReach DEF Cluster, Slots
<1>2. IntegerSet(q.runends) /\ q.runends \subseteq Slots /\ IntegerSet(q.occupieds)
  BY TableSets DEF Paired
<1>3. PICK S, O : S = q.runends \ {i} /\ O = q.occupieds \ {b}
  OBVIOUS
<1>4. IntegerSet(S) /\ IntegerSet(O) /\ S \cup {i} = q.runends /\ O \cup {b} = q.occupieds
      /\ i \notin S /\ b \notin O /\ S \subseteq Slots
  <2>1. S \subseteq q.runends /\ O \subseteq q.occupieds
    BY <1>3
  <2>2. IsFiniteSet(S) /\ IsFiniteSet(O)
    BY <1>2, <2>1, FS_Subset DEF IntegerSet
  <2> QED
    BY <1>1, <1>2, <1>3, <2>1, <2>2 DEF IntegerSet
<1>5. /\ Cardinality(q.runends) = Cardinality(S) + 1 /\ Cardinality(q.occupieds) = Cardinality(O) + 1
      /\ \A x \in Int : /\ UpTo(q.runends, x) = UpTo(S, x) + (IF i <= x THEN 1 ELSE 0)
                        /\ UpTo(q.occupieds, x) = UpTo(O, x) + (IF b <= x THEN 1 ELSE 0)
  <2>1. /\ Cardinality(S \cup {i}) = Cardinality(S) + 1
        /\ \A x \in Int : UpTo(S \cup {i}, x) = UpTo(S, x) + (IF i <= x THEN 1 ELSE 0)
    BY <1>1, <1>4, Extended
  <2>2. /\ Cardinality(O \cup {b}) = Cardinality(O) + 1
        /\ \A x \in Int : UpTo(O \cup {b}, x) = UpTo(O, x) + (IF b <= x THEN 1 ELSE 0)
    BY <1>1, <1>4, Extended
  <2> QED
    BY <1>4, <2>1, <2>2
<1>6. PICK j \in Int : j = i + 1 /\ j - 1 = i
  BY <1>1
<1>7. PICK M : M = MovedDown(S, j, l) /\ M = r.runends
  BY <1>3, <1>6
<1>8. /\ Cardinality(M) = Cardinality(S)
      /\ \A y \in Int : /\ y < i => UpTo(M, y) = UpTo(S, y)
                        /\ i <= y /\ y < l => UpTo(M, y) = UpTo(S, y + 1)
                        /\ y >= l => UpTo(M, y) = UpTo(S, y)
  <2>1. CASE j <= l
    <3>1. j - 1 \notin S
      BY <1>4, <1>6
    <3> QED
      BY <1>1, <1>4, <1>6, <1>7, <2>1, <3>1, MovedDownCounts
  <2>2. CASE ~ (j <= l)
    <3>1. i = l
      BY <1>1, <1>6, <2>2
    <3>2. \A e \in S : ~ (j <= e /\ e <= l)
      BY <1>1, <1>4, <2>2 DEF IntegerSet
    <3>3. M = S
      BY <1>7, <3>2 DEF MovedDown
    <3> QED
      BY <1>1, <3>1, <3>3
  <2> QED
    BY <2>1, <2>2
<1>9. M \subseteq Slots
  <2>1. \A e \in S : (IF j <= e /\ e <= l THEN e - 1 ELSE e) \in Slots
    BY <1>1, <1>4, <1>6 DEF Slots
  <2> QED
    BY <1>7, <2>1 DEF MovedDown
<1>10. Cardinality(r.occupieds) = Cardinality(r.runends)
  <2>1. Cardinality(S) \in Nat /\ Cardinality(O) \in Nat
    BY <1>4, FS_CardinalityType DEF IntegerSet
  <2>2. Cardinality(q.occupieds) = Cardinality(q.runends)
    BY DEF Paired
  <2> QED
    BY <1>3, <1>5, <1>7, <1>8, <2>1, <2>2
<1>11. ASSUME NEW y \in Int
       PROVE  /\ y < i - 1 => Ended(r, y) = Ended(q, y)
              /\ i - 1 <= y /\ y < l => Ended(r, y) = Ended(q, y + 1) - 1
              /\ y >= l => Ended(r, y) = Ended(q, y) - 1
              /\ Occupied(r, y) = Occupied(q, y) - IF y >= b THEN 1 ELSE 0
  <2>1. PICK z \in Int : z = y + 1 /\ y = z - 1
    OBVIOUS
  <2>2. UpTo(S, y) \in Nat /\ UpTo(S, z) \in Nat /\ UpTo(O, y) \in Nat
    <3>1. IntegerSet(S) /\ IntegerSet(O)
      BY <1>4
    <3> QED
      BY <3>1, UpToType
  <2>3. Occupied(r, y) = UpTo(O, y) /\ Occupied(q, y) = UpTo(O, y) + (IF b <= y THEN 1 ELSE 0)
    BY <1>3, <1>5 DEF Occupied
  <2>4. /\ Ended(r, y) = UpTo(M, y) /\ Ended(q, y) = UpTo(S, y) + (IF i <= y THEN 1 ELSE 0)
        /\ Ended(q, z) = UpTo(S, z) + (IF i <= z THEN 1 ELSE 0)
    BY <1>5, <1>7 DEF Ended
  <2>5. y = i - 1 => UpTo(S, z) = UpTo(S, y)
    <3>1. UpTo(S, z) = UpTo(S, y) + (IF z \in S THEN 1 ELSE 0)
      BY <1>4, <2>1, UpToStep
    <3> QED
      BY <1>1, <1>4, <2>1, <2>2, <3>1
  <2>6. y < i => UpTo(M, y) = UpTo(S, y)
    BY <1>8
  <2>7. i <= y /\ y < l => UpTo(M, y) = UpTo(S, z)
    BY <1>8, <2>1
  <2>8. y >= l => UpTo(M, y) = UpTo(S, y)
    BY <1>8
  <2>9. y < i - 1 => Ended(r, y) = Ended(q, y)
    BY <1>1, <2>2, <2>4, <2>6
  <2>10. i - 1 <= y /\ y < l => Ended(r, y) = Ended(q, z) - 1
    BY <1>1, <2>1, <2>2, <2>4, <2>5, <2>6, <2>7
  <2>11. y >= l => Ended(r, y) = Ended(q, y) - 1
    BY <1>1, <2>2, <2>4, <2>8
  <2>12. Occupied(r, y) = Occupied(q, y) - IF y >= b THEN 1 ELSE 0
    BY <1>1, <2>2, <2>3
  <2> QED
    BY <2>1, <2>9, <2>10, <2>11, <2>12
<1> QED
  BY <1>3, <1>7, <1>9, <1>10, <1>11 DEF TurnCounts


\* Counts that leave no bucket behind its run's end pair the runs again.
LEMMA PairedByCounts ==
    ASSUME NEW q, q.occupieds \subseteq Buckets, q.runends \subseteq Slots,
           Cardinality(q.occupieds) = Cardinality(q.runends),
           \A c \in q.occupieds : Ended(q, c - 1) < Occupied(q, c)
    PROVE  Paired(q)
<1>1. /\ EndOfBlocks - 1 \in Nat /\ q.occupieds \in SUBSET (0 .. EndOfBlocks - 1)
      /\ q.runends \in SUBSET (0 .. EndOfBlocks - 1)
  <2>1. EndOfBlocks - 1 \in Nat /\ Buckets \subseteq 0 .. EndOfBlocks - 1
    BY BlocksReach, GeometryAssumption, FilterAssumption DEF Buckets
  <2> QED
    BY <2>1 DEF Slots
<1> PICK n \in Int : n = EndOfBlocks - 1
  BY <1>1
<1>2. IntegerSet(q.occupieds) /\ IntegerSet(q.runends) /\ Cardinality(q.runends) \in Nat
  <2>1. n \in Nat /\ q.occupieds \in SUBSET (0 .. n) /\ q.runends \in SUBSET (0 .. n)
    BY <1>1
  <2>2. IntegerSet(q.occupieds)
    BY <2>1, UpToEnds
  <2>3. IntegerSet(q.runends) /\ Cardinality(q.runends) \in Nat
    BY <2>1, UpToEnds
  <2> QED
    BY <2>2, <2>3
<1>3. ASSUME NEW c \in q.occupieds PROVE RunendOf(q, c) >= c
  <2>1. PICK v \in Int : v = c - 1 /\ c \in Int
    BY <1>2 DEF IntegerSet
  <2>2. Occupied(q, c) \in 1 .. Cardinality(q.runends)
    <3>1. Ended(q, v) \in Nat /\ Occupied(q, c) \in Nat
      <4>1. IntegerSet(q.occupieds) /\ IntegerSet(q.runends) /\ v \in Int /\ c \in Int
        BY <1>2, <2>1
      <4>2. UpTo(q.runends, v) \in Nat
        BY <4>1, UpToType
      <4>3. UpTo(q.occupieds, c) \in Nat
        BY <4>1, UpToType
      <4> QED
        BY <4>2, <4>3 DEF Ended, Occupied
    <3>2. Occupied(q, c) <= Cardinality(q.occupieds)
      BY <1>1, <2>1, UpToEnds DEF Occupied
    <3>3. Ended(q, v) < Occupied(q, c)
      BY <2>1
    <3> QED
      BY <1>2, <3>1, <3>2, <3>3
  <2>3. PICK e \in q.runends : UpTo(q.runends, e) = Occupied(q, c)
    BY <1>1, <2>2, Selection
  <2>4. RunendOf(q, c) = e
    BY <1>2, <2>1, <2>3, RunendOfIs DEF Occupied
  <2>5. e \in Int
    BY <1>2 DEF IntegerSet
  <2>6. ~ (e <= v)
    <3>1. e <= v => UpTo(q.runends, e) <= UpTo(q.runends, v)
      BY <1>2, <2>1, <2>5, UpToGrows
    <3>2. UpTo(q.runends, e) \in Nat /\ UpTo(q.runends, v) \in Nat
      BY <1>2, <2>1, <2>5, UpToType
    <3>3. UpTo(q.runends, v) < UpTo(q.runends, e)
      BY <2>1, <2>3 DEF Ended
    <3> QED
      BY <3>1, <3>2, <3>3
  <2> QED
    BY <2>1, <2>4, <2>5, <2>6
<1> QED
  BY <1>3 DEF Paired

\* Where a slot i of bucket b's run goes, with the run if it is all there is.
Turn(q, b, i, l, d) ==
    /\ Cluster(q, b, l) /\ i \in Int /\ i <= RunendOf(q, b)
    /\ \/ d = 0 /\ RunFirst(q, b) <= i /\ RunFirst(q, b) < RunendOf(q, b)
       \/ d = 1 /\ RunFirst(q, b) = i /\ i = RunendOf(q, b)

LEMMA TurnUses ==
    ASSUME NEW q, Paired(q), NEW b \in q.occupieds, NEW i, NEW l, NEW d, Turn(q, b, i, l, d),
           NEW r, TurnCounts(q, r, b, i, l, d), NEW x \in Int
    PROVE  Ended(r, x - 1) < Occupied(r, x) <=> Ended(q, x - 1) < Occupied(q, x) /\ x # l
<1>1. /\ b \in Int /\ b \in Slots /\ i \in Int /\ l \in Int /\ d \in {0, 1} /\ i <= l /\ b <= i
      /\ RunFirst(q, b) \in Int /\ RunFirst(q, b) >= b /\ LastUsed(q, b - 1) \in Int
      /\ RunFirst(q, b) <= i
  <2>1. /\ b \in Slots /\ RunFirst(q, b) \in Nat /\ RunFirst(q, b) >= b /\ LastUsed(q, b - 1) \in Int
        /\ RunendOf(q, b) \in Slots
    BY OwnRun
  <2>2. b \in Int /\ RunendOf(q, b) \in Int /\ l \in Int
    BY <2>1 DEF Slots, Turn, Cluster
  <2>3. RunFirst(q, b) <= i /\ i <= RunendOf(q, b) /\ RunendOf(q, b) <= l /\ i \in Int /\ d \in {0, 1}
    <3>1. RunFirst(q, b) \in Int
      BY <2>1
    <3> QED
      BY <2>2, <3>1 DEF Turn, Cluster
  <2> QED
    BY <2>1, <2>2, <2>3
<1>2. PICK w, v \in Int : w = x - 1 /\ x = w + 1 /\ v = b - 1
  BY <1>1
<1>3. /\ Ended(q, w) \in Int /\ Ended(q, x) \in Int /\ Occupied(q, x) \in Int
      /\ Ended(q, v) \in Int /\ Occupied(q, v) \in Int /\ Occupied(q, w) \in Int /\ Occupied(q, b) \in Int
      /\ Ended(q, v) <= Occupied(q, v)
      /\ Occupied(q, b) = Occupied(q, v) + 1
  <2>1. Occupied(q, b) = Occupied(q, v) + 1
    BY <1>1, <1>2, TableSets, UpToStep DEF Occupied
  <2> QED
    BY <1>1, <1>2, <2>1, Counts, EndedWithinOccupied
<1>4. /\ w < i - 1 => Ended(r, w) = Ended(q, w)
      /\ i - 1 <= w /\ w < l => Ended(r, w) = Ended(q, x) - d
      /\ w >= l => Ended(r, w) = Ended(q, w) - d
      /\ Occupied(r, x) = Occupied(q, x) - IF x >= b THEN d ELSE 0
  BY <1>2 DEF TurnCounts
<1>5. x >= b => Occupied(q, x) >= Occupied(q, b)
  BY <1>1, CountsGrow
<1>6. b <= x /\ x <= l => Ended(q, w) < Occupied(q, x)
  <2>1. CASE x = b
    BY <1>2, <1>3, <2>1
  <2>2. ASSUME b < x, x <= l PROVE Ended(q, w) < Occupied(q, x)
    <3>1. b <= w /\ w < l /\ w <= x
      BY <1>1, <1>2, <2>2
    <3>2. Ended(q, w) < Occupied(q, w)
      BY <3>1 DEF Turn, Cluster
    <3>3. Occupied(q, w) <= Occupied(q, x)
      BY <3>1, CountsGrow
    <3> QED
      BY <1>3, <3>2, <3>3
  <2> QED
    BY <1>1, <2>1, <2>2
<1>7. CASE x < b
  BY <1>1, <1>2, <1>3, <1>4, <1>7
<1>8. CASE b <= x /\ x < i
  <2>1. Ended(q, w) < Occupied(q, x)
    BY <1>1, <1>6, <1>8
  <2>2. Ended(r, w) = Ended(q, w) /\ Occupied(r, x) = Occupied(q, x) - d
    BY <1>1, <1>2, <1>4, <1>8
  <2>3. d = 1 => Ended(q, w) < Occupied(q, x) - 1
    <3>1. ASSUME d = 1 PROVE Ended(q, w) < Occupied(q, x) - 1
      <4>1. RunFirst(q, b) = i
        BY <3>1 DEF Turn
      <4>2. PICK f \in Int : f = LastUsed(q, v) /\ i = IF b >= f + 1 THEN b ELSE f + 1
        <5>1. LastUsed(q, v) \in Int /\ LastUsed(q, v) + 1 \in Int
          BY <1>1, <1>2
        <5>2. RunFirst(q, b) = IF b >= LastUsed(q, v) + 1 THEN b ELSE LastUsed(q, v) + 1
          BY <1>1, <1>2, <5>1, LargerOf DEF RunFirst
        <5> QED
          BY <4>1, <5>1, <5>2
      <4>3. i = f + 1 /\ w < f
        BY <1>1, <1>2, <1>8, <4>2
      <4>4. w >= -1
        BY <1>1, <1>2, <1>8 DEF Slots
      <4>5. LastUsed(q, v) <= w <=> Occupied(q, v) <= Ended(q, w)
        BY <1>2, <4>4, LastUsedAt
      <4>6. ~ (Occupied(q, v) <= Ended(q, w))
        BY <1>2, <4>2, <4>3, <4>5
      <4> QED
        BY <1>3, <1>5, <1>8, <4>6
    <3> QED
      BY <3>1
  <2>4. Ended(r, w) < Occupied(r, x)
    BY <1>1, <1>3, <2>1, <2>2, <2>3
  <2>5. x # l
    BY <1>1, <1>8
  <2> QED
    BY <1>2, <2>1, <2>4, <2>5
<1>9. CASE i <= x /\ x <= l
  <2>1. Ended(r, w) = Ended(q, x) - d /\ Occupied(r, x) = Occupied(q, x) - d
    BY <1>1, <1>2, <1>4, <1>9
  <2>2. b <= x /\ Ended(q, w) < Occupied(q, x)
    BY <1>1, <1>6, <1>9
  <2>3. x < l => Ended(q, x) < Occupied(q, x)
    BY <2>2 DEF Turn, Cluster
  <2>4. x = l => Ended(q, x) = Occupied(q, x)
    BY DEF Turn, Cluster
  <2> QED
    BY <1>1, <1>2, <1>3, <1>9, <2>1, <2>2, <2>3, <2>4
<1>10. CASE x > l
  <2>1. Ended(r, w) = Ended(q, w) - d /\ Occupied(r, x) = Occupied(q, x) - d
    BY <1>1, <1>2, <1>4, <1>10
  <2> QED
    BY <1>1, <1>2, <1>3, <1>10, <2>1
<1> QED
  BY <1>1, <1>7, <1>8, <1>9, <1>10

LEMMA TurnPairs ==
    ASSUME NEW q, Paired(q), NEW b \in q.occupieds, NEW i, NEW l, NEW d, Turn(q, b, i, l, d),
           NEW r, TurnCounts(q, r, b, i, l, d), d = 1 => b \notin r.occupieds
    PROVE  /\ Paired(r)
           /\ l \in UsedSlots(q) /\ UsedSlots(r) = UsedSlots(q) \ {l}
           /\ Cardinality(UsedSlots(q)) = Cardinality(UsedSlots(r)) + 1
           /\ Cardinality(UsedSlots(r)) \in Nat
<1>1. /\ b \in Int /\ b \in Slots /\ l \in Int /\ l \in Slots /\ RunendOf(q, b) \in Int /\ RunFirst(q, b) \in Int
      /\ RunFirst(q, b) >= b /\ RunendOf(q, b) <= l /\ RunFirst(q, b) <= RunendOf(q, b)
      /\ Ended(q, l) = Occupied(q, l) /\ \A x \in Int : b <= x /\ x < l => Ended(q, x) < Occupied(q, x)
  <2>1. /\ b \in Slots /\ RunFirst(q, b) \in Nat /\ RunFirst(q, b) >= b /\ RunendOf(q, b) \in Slots
        /\ RunFirst(q, b) <= RunendOf(q, b)
    BY OwnRun
  <2> QED
    BY <2>1 DEF Slots, Turn, Cluster
<1>2. \A x \in Int : Ended(r, x - 1) < Occupied(r, x) <=> Ended(q, x - 1) < Occupied(q, x) /\ x # l
  BY TurnUses
<1>3. ASSUME NEW c \in r.occupieds PROVE Ended(r, c - 1) < Occupied(r, c)
  <2>1. c \in q.occupieds /\ c \in Int
    BY TableSets DEF TurnCounts, IntegerSet
  <2>2. PICK v \in Int : v = c - 1
    BY <2>1
  <2>3. /\ Occupied(q, c) = Occupied(q, v) + 1 /\ Ended(q, v) <= Occupied(q, v)
        /\ Occupied(q, v) \in Int /\ Ended(q, v) \in Int /\ Ended(q, c) \in Int
        /\ Ended(q, c) <= Ended(q, v) + 1
    <3>1. Occupied(q, c) = Occupied(q, v) + 1
      BY <2>1, <2>2, TableSets, UpToStep DEF Occupied
    <3>2. v <= c
      BY <2>1, <2>2
    <3>3. Ended(q, c) <= Ended(q, v) + (c - v)
      BY <2>1, <2>2, <3>2, CountsGrow
    <3> QED
      BY <2>1, <2>2, <3>1, <3>3, Counts, EndedWithinOccupied
  <2>4. c # l
    <3>1. ASSUME c = l PROVE FALSE
      <4>1. b <= l
        BY <1>1
      <4>2. CASE b < l
        <5>1. Ended(q, v) < Occupied(q, v)
          BY <1>1, <2>2, <3>1, <4>2
        <5> QED
          BY <1>1, <2>3, <3>1, <5>1
      <4>3. CASE b = l
        <5>1. RunFirst(q, b) = RunendOf(q, b)
          BY <1>1, <4>3
        <5>2. i \in Int /\ i <= RunendOf(q, b)
          BY DEF Turn
        <5>3. d = 1
          BY <1>1, <5>1, <5>2 DEF Turn
        <5> QED
          BY <3>1, <4>3, <5>3
      <4> QED
        BY <1>1, <4>1, <4>2, <4>3
    <3> QED
      BY <3>1
  <2>5. Ended(q, v) < Occupied(q, c)
    BY <2>3
  <2> QED
    BY <1>2, <2>1, <2>2, <2>4, <2>5
<1>4. Paired(r)
  <2>1. r.occupieds \subseteq Buckets
    BY DEF TurnCounts, Paired
  <2> QED
    BY <1>3, <2>1, PairedByCounts DEF TurnCounts
<1>5. \A t \in Slots : t \in UsedSlots(r) <=> t \in UsedSlots(q) /\ t # l
  <2>1. ASSUME NEW t \in Slots PROVE t \in UsedSlots(r) <=> t \in UsedSlots(q) /\ t # l
    <3>1. t \in Int
      BY DEF Slots
    <3>2. t \in UsedSlots(r) <=> Pending(r, t)
      BY <1>4, PendingUsed
    <3>3. t \in UsedSlots(q) <=> Pending(q, t)
      BY PendingUsed
    <3> QED
      BY <1>2, <3>1, <3>2, <3>3 DEF Pending
  <2> QED
    BY <2>1
<1>6. UsedSlots(q) \subseteq Slots /\ UsedSlots(r) \subseteq Slots
  BY <1>4, UsedInSlots
<1>7. l \in UsedSlots(q)
  <2>1. PICK v \in Int : v = l - 1
    BY <1>1
  <2>2. Ended(q, v) < Occupied(q, l)
    <3>1. Ended(q, v) \in Int /\ Occupied(q, v) \in Int /\ Occupied(q, l) \in Int /\ Ended(q, l) \in Int
      BY <1>1, <2>1, Counts
    <3>2. CASE b < l
      <4>1. Ended(q, v) < Occupied(q, v)
        BY <1>1, <2>1, <3>2
      <4>2. Occupied(q, v) <= Occupied(q, l)
        BY <1>1, <2>1, CountsGrow
      <4> QED
        BY <3>1, <4>1, <4>2
    <3>3. CASE b = l
      <4>1. Occupied(q, l) = Occupied(q, v) + 1
        BY <1>1, <2>1, <3>3, TableSets, UpToStep DEF Occupied
      <4>2. Ended(q, v) <= Occupied(q, v)
        BY <2>1, EndedWithinOccupied
      <4> QED
        BY <3>1, <4>1, <4>2
    <3> QED
      BY <1>1, <3>2, <3>3
  <2> QED
    BY <1>1, <2>1, <2>2, PendingUsed DEF Pending
<1>8. UsedSlots(r) = UsedSlots(q) \ {l}
  BY <1>5, <1>6
<1>9. /\ Cardinality(UsedSlots(q)) = Cardinality(UsedSlots(r)) + 1
      /\ Cardinality(UsedSlots(r)) \in Nat
  <2>1. IsFiniteSet(UsedSlots(q))
    <3>1. EndOfBlocks - 1 \in Int /\ UsedSlots(q) \in SUBSET (0 .. EndOfBlocks - 1)
      BY <1>6, BlocksReach DEF Slots
    <3> QED
      BY <3>1, UpToEnds DEF IntegerSet
  <2>2. IsFiniteSet(UsedSlots(r)) /\ l \notin UsedSlots(r) /\ UsedSlots(r) \cup {l} = UsedSlots(q)
    BY <1>7, <1>8, <2>1, FS_Subset
  <2> QED
    BY <2>2, FS_AddElement, FS_CardinalityType
<1> QED
  BY <1>4, <1>7, <1>8, <1>9

\* What the buckets before b and those past the cluster read.
LEMMA TurnReads ==
    ASSUME NEW q, Paired(q), NEW b \in q.occupieds, NEW i, NEW l, NEW d, Turn(q, b, i, l, d),
           NEW r, TurnCounts(q, r, b, i, l, d), d = 1 => b \notin r.occupieds,
           \A e \in q.runends : e < i => e \in r.runends
    PROVE  /\ \A z \in Int : z < b => LastUsed(r, z) = LastUsed(q, z)
           /\ \A z, y \in Int : z >= l /\ y >= l => (LastUsed(r, z) <= y <=> LastUsed(q, z) <= y)
           /\ \A y \in Int : y >= l => (Ended(r, y) = Occupied(r, y) <=> Ended(q, y) = Occupied(q, y))
<1>1. Paired(r)
  BY TurnPairs
<1>2. /\ b \in Int /\ i \in Int /\ l \in Int /\ l >= 0 /\ d \in {0, 1} /\ i <= l /\ b <= i
      /\ RunFirst(q, b) \in Int /\ LastUsed(q, b - 1) \in Int /\ RunFirst(q, b) > LastUsed(q, b - 1)
      /\ RunFirst(q, b) <= i /\ (RunFirst(q, b) = i => (d = 1 <=> i \in q.runends))
  <2>1. /\ b \in Slots /\ RunFirst(q, b) \in Nat /\ RunFirst(q, b) >= b /\ LastUsed(q, b - 1) \in Int
        /\ RunendOf(q, b) \in Slots /\ RunFirst(q, b) > LastUsed(q, b - 1) /\ RunendOf(q, b) \in q.runends
    BY OwnRun
  <2>2. b \in Int /\ RunendOf(q, b) \in Int /\ l \in Int /\ l >= 0
    BY <2>1 DEF Slots, Turn, Cluster
  <2>3. /\ RunFirst(q, b) <= i /\ i <= RunendOf(q, b) /\ RunendOf(q, b) <= l /\ i \in Int /\ d \in {0, 1}
        /\ (d = 0 => RunFirst(q, b) < RunendOf(q, b)) /\ (d = 1 => i = RunendOf(q, b))
    <3>1. RunFirst(q, b) \in Int
      BY <2>1
    <3> QED
      BY <2>2, <3>1 DEF Turn, Cluster
  <2>4. RunFirst(q, b) = i => (d = 1 <=> i \in q.runends)
    <3>1. \A e \in q.runends : e > LastUsed(q, b - 1) <=> e >= RunendOf(q, b)
      BY OwnRun
    <3>2. RunFirst(q, b) = i /\ d = 0 => i > LastUsed(q, b - 1) /\ ~ (i >= RunendOf(q, b))
      BY <2>1, <2>2, <2>3
    <3> QED
      BY <2>1, <2>3, <3>1, <3>2
  <2> QED
    BY <2>1, <2>2, <2>3, <2>4
<1>3. ASSUME NEW z \in Int, z < b PROVE LastUsed(r, z) = LastUsed(q, z)
  <2>1. Occupied(r, z) = Occupied(q, z)
    <3>1. Occupied(r, z) = Occupied(q, z) - 0 /\ Occupied(q, z) \in Int
      BY <1>2, <1>3, Counts DEF TurnCounts
    <3> QED
      BY <3>1
  <2>2. CASE Occupied(q, z) = 0
    BY <1>1, <2>1, <2>2, LastUsedByCount
  <2>3. CASE Occupied(q, z) # 0
    <3>1. PICK v \in Int : v = b - 1 /\ z <= v
      BY <1>2, <1>3
    <3>2. /\ LastUsed(q, z) \in q.runends /\ LastUsed(q, z) \in Int /\ Ended(q, LastUsed(q, z)) = Occupied(q, z)
          /\ LastUsed(q, z) <= LastUsed(q, v)
      BY <2>3, <3>1, EndedAtLast, LastUsedGrows
    <3>3. PICK e \in q.runends : /\ e = LastUsed(q, z) /\ e \in Int /\ e < i /\ (e = i - 1 => RunFirst(q, b) = i)
      BY <1>2, <3>1, <3>2
    <3>4. Ended(r, e) = Ended(q, e)
      <4>1. CASE e < i - 1
        BY <3>3, <4>1 DEF TurnCounts
      <4>2. CASE ~ (e < i - 1)
        <5>1. e = i - 1 /\ e < l /\ i - 1 <= e
          BY <1>2, <3>3, <4>2
        <5>2. Ended(r, e) = Ended(q, e + 1) - d
          BY <3>3, <5>1 DEF TurnCounts
        <5>3. e + 1 = i /\ (d = 1 <=> i \in q.runends)
          BY <1>2, <3>3, <5>1
        <5>4. Ended(q, i) = Ended(q, e) + IF i \in q.runends THEN 1 ELSE 0
          BY <1>2, <3>3, <5>1, <5>3, TableSets, UpToStep DEF Ended
        <5>5. Ended(q, e) \in Int
          BY <3>3, Counts
        <5> QED
          BY <1>2, <5>2, <5>3, <5>4, <5>5
      <4> QED
        BY <4>1, <4>2
    <3>5. e \in r.runends /\ Ended(r, e) = Occupied(r, z)
      BY <2>1, <3>2, <3>3, <3>4
    <3> QED
      BY <1>1, <3>3, <3>5, LastUsedIs
  <2> QED
    BY <2>2, <2>3
<1>4. ASSUME NEW y \in Int, y >= l
      PROVE  /\ Ended(r, y) = Ended(q, y) - d /\ Occupied(r, y) = Occupied(q, y) - d
             /\ Ended(q, y) \in Int /\ Occupied(q, y) \in Int
  <2>1. y >= b
    BY <1>2, <1>4
  <2> QED
    BY <1>4, <2>1, Counts DEF TurnCounts
<1>5. ASSUME NEW z \in Int, NEW y \in Int, z >= l, y >= l
      PROVE  LastUsed(r, z) <= y <=> LastUsed(q, z) <= y
  <2>1. y >= -1
    BY <1>2, <1>5
  <2>2. LastUsed(r, z) <= y <=> Occupied(r, z) <= Ended(r, y)
    BY <1>1, <2>1, LastUsedAt
  <2>3. LastUsed(q, z) <= y <=> Occupied(q, z) <= Ended(q, y)
    BY <2>1, LastUsedAt
  <2>4. /\ Ended(r, y) = Ended(q, y) - d /\ Ended(q, y) \in Int
        /\ Occupied(r, z) = Occupied(q, z) - d /\ Occupied(q, z) \in Int
    BY <1>4, <1>5
  <2>5. Occupied(r, z) <= Ended(r, y) <=> Occupied(q, z) <= Ended(q, y)
    BY <1>2, <2>4
  <2> QED
    BY <2>2, <2>3, <2>5
<1>6. ASSUME NEW y \in Int, y >= l
      PROVE  Ended(r, y) = Occupied(r, y) <=> Ended(q, y) = Occupied(q, y)
  BY <1>2, <1>4, <1>6
<1> QED
  BY <1>3, <1>5, <1>6


(***************************************************************************)
(* The end of the cluster.  The removal loop walks a table that may have a *)
(* runend more than there are runs, in front of the slots it looks at: q   *)
(* reads like the paired table p from slot s on.                           *)
(***************************************************************************)

ReadsFrom(p, q, s) ==
    /\ q.occupieds = p.occupieds /\ q.runends \subseteq Int
    /\ \A e \in Int : e >= s => (e \in q.runends <=> e \in p.runends)

NextRunend(q, s) == Min({e \in q.runends : e >= s} \cup {EndOfBlocks - 1})

\* One step of the walk from bucket c, whose run ends at e, g standing for the
\* later ones.
WalkOn(q, g, c, e) ==
    LET next == {o \in q.occupieds : o > c} IN
    IF next = {} \/ e >= EndOfBlocks - 1 THEN e
    ELSE IF Min(next) > e THEN e ELSE g[<< Min(next), NextRunend(q, e + 1) >>]

WalksOn(q, g) == g = [x \in Nat \X Nat |-> WalkOn(q, g, x[1], x[2])]

LEMMA NextRunendIs ==
    ASSUME NEW p, Paired(p), NEW c \in p.occupieds, NEW s \in Int, LastUsed(p, c - 1) < s,
           s <= RunendOf(p, c), NEW q, NEW t \in Int, t <= s, ReadsFrom(p, q, t)
    PROVE  NextRunend(q, s) = RunendOf(p, c)
<1>1. /\ LastUsed(p, c - 1) \in Int /\ RunendOf(p, c) \in p.runends /\ RunendOf(p, c) \in Slots
      /\ \A e \in p.runends : e > LastUsed(p, c - 1) <=> e >= RunendOf(p, c)
  BY OwnRun
<1>2. PICK m, n \in Int : m = RunendOf(p, c) /\ n = EndOfBlocks - 1 /\ m <= n
  BY <1>1, BlocksReach DEF Slots
<1>3. PICK S : S = {e \in q.runends : e >= s} \cup {n}
  OBVIOUS
<1>4. S \in SUBSET Int /\ m \in S /\ \A y \in S : m <= y
  <2>1. \A e \in q.runends : e \in Int
    BY DEF ReadsFrom
  <2>2. ASSUME NEW e \in q.runends, e >= s PROVE m <= e
    <3>1. e \in Int /\ e >= t
      BY <2>1, <2>2
    <3>2. e \in p.runends
      BY <3>1 DEF ReadsFrom
    <3>3. e > LastUsed(p, c - 1)
      BY <1>1, <2>2, <3>1
    <3> QED
      BY <1>1, <1>2, <3>1, <3>2, <3>3
  <2>3. m \in q.runends /\ m >= s
    <3>1. m >= s /\ m >= t
      BY <1>2
    <3> QED
      BY <1>1, <1>2, <3>1 DEF ReadsFrom
  <2> QED
    BY <1>2, <1>3, <2>1, <2>2, <2>3
<1>5. Min(S) = m
  BY <1>4, Least
<1> QED
  BY <1>2, <1>3, <1>5 DEF NextRunend

\* The buckets the walk goes to lie ahead.
LEMMA NextBucketAhead ==
    ASSUME NEW S \in SUBSET Nat, NEW c \in Nat, NEW N, N = {o \in S : o > c}, N # {}
    PROVE  Min(N) \in N /\ \A o \in S : o > c => Min(N) <= o
<1>1. N \subseteq S /\ N \in SUBSET Nat /\ N \in SUBSET Int
  <2>1. N \subseteq S
    OBVIOUS
  <2>2. \A o \in S : o \in Nat /\ o \in Int
    OBVIOUS
  <2> QED
    BY <2>1, <2>2
<1>2. PICK m \in N : \A o \in N : m <= o
  BY <1>1, LeastNatural
<1>3. Min(N) = m
  BY <1>1, <1>2, Least
<1> QED
  BY <1>2, <1>3

LEMMA WalksExist ==
    ASSUME NEW q, q.occupieds \subseteq Buckets, q.runends \subseteq Slots
    PROVE  \E g : WalksOn(q, g)
<1> DEFINE T == {m \in Nat : \E g : \A c, e \in Nat : c >= m => g[<< c, e >>] = WalkOn(q, g, c, e)}
<1>1. /\ EndOfBlocks \in Nat /\ EndOfBlocks - 1 \in Nat /\ q.occupieds \in SUBSET Nat /\ q.runends \in SUBSET Nat
      /\ \A o \in q.occupieds : o < EndOfBlocks
  <2>1. EndOfBlocks \in Nat /\ Buckets \subseteq Nat /\ \A o \in Buckets : o < EndOfBlocks
    BY BlocksReach, FilterAssumption, GeometryAssumption DEF Buckets
  <2>2. EndOfBlocks - 1 \in Nat
    BY BlocksReach, GeometryAssumption
  <2>3. Slots \subseteq Nat
    BY <2>1 DEF Slots
  <2> QED
    BY <2>1, <2>2, <2>3
<1>2. ASSUME NEW s \in Nat PROVE NextRunend(q, s) \in Nat
  <2>1. PICK S : S = {e \in q.runends : e >= s} \cup {EndOfBlocks - 1}
    OBVIOUS
  <2>2. S \in SUBSET Nat /\ S \in SUBSET Int /\ S # {}
    BY <1>1, <2>1
  <2>3. PICK m \in S : \A y \in S : m <= y
    BY <2>2, LeastNatural
  <2>4. Min(S) = m
    BY <2>2, <2>3, Least
  <2> QED
    BY <2>1, <2>2, <2>4 DEF NextRunend
<1>3. ASSUME NEW c \in Nat, NEW e \in Nat, NEW g, NEW h, Later(g, h, c)
      PROVE  WalkOn(q, g, c, e) = WalkOn(q, h, c, e)
  <2>1. PICK N : N = {o \in q.occupieds : o > c}
    OBVIOUS
  <2>2. CASE N = {}
    BY <2>1, <2>2 DEF WalkOn
  <2>3. CASE N # {}
    <3>1. Min(N) \in N
      BY <1>1, <2>1, <2>3, NextBucketAhead
    <3>2. PICK n \in Nat : n = Min(N) /\ n > c
      BY <1>1, <2>1, <3>1
    <3>3. PICK d \in Nat : d = NextRunend(q, e + 1)
      BY <1>2
    <3>4. g[<< n, d >>] = h[<< n, d >>]
      BY <1>3, <3>2, <3>3 DEF Later
    <3> QED
      BY <2>1, <3>2, <3>3, <3>4 DEF WalkOn
  <2> QED
    BY <2>2, <2>3
<1>4. \A c, e \in Nat : c >= EndOfBlocks => \A g, h : WalkOn(q, g, c, e) = WalkOn(q, h, c, e)
  <2>1. SUFFICES ASSUME NEW c \in Nat, NEW e \in Nat, c >= EndOfBlocks, NEW g, NEW h
                 PROVE  WalkOn(q, g, c, e) = WalkOn(q, h, c, e)
    OBVIOUS
  <2>2. {o \in q.occupieds : o > c} = {}
    BY <1>1, <2>1
  <2> QED
    BY <2>2 DEF WalkOn
<1>5. EndOfBlocks \in T
  <2> DEFINE g == [x \in Nat \X Nat |-> WalkOn(q, 0, x[1], x[2])]
  <2>1. \A c, e \in Nat : g[<< c, e >>] = WalkOn(q, 0, c, e)
    OBVIOUS
  <2> HIDE DEF g
  <2>2. \A c, e \in Nat : c >= EndOfBlocks => g[<< c, e >>] = WalkOn(q, g, c, e)
    BY <1>4, <2>1
  <2> QED
    BY <1>1, <2>2
<1>6. PICK m \in T : \A j \in T : m <= j
  BY <1>5, LeastNatural
<1>7. PICK g : \A c, e \in Nat : c >= m => g[<< c, e >>] = WalkOn(q, g, c, e)
  BY <1>6
<1>8. ASSUME m # 0 PROVE FALSE
  <2>1. PICK l \in Nat : m = l + 1 /\ ~ (m <= l)
    BY <1>6, <1>8
  <2> DEFINE h == [x \in Nat \X Nat |-> IF x[1] = l THEN WalkOn(q, g, l, x[2]) ELSE g[x]]
  <2>2. \A c, e \in Nat : h[<< c, e >>] = IF c = l THEN WalkOn(q, g, l, e) ELSE g[<< c, e >>]
    OBVIOUS
  <2> HIDE DEF h
  <2>3. ASSUME NEW c \in Nat, NEW e \in Nat, c >= l PROVE h[<< c, e >>] = WalkOn(q, h, c, e)
    <3>1. Later(h, g, c)
      BY <2>2, <2>3 DEF Later
    <3>2. WalkOn(q, h, c, e) = WalkOn(q, g, c, e)
      BY <1>3, <3>1
    <3> QED
      BY <1>7, <2>1, <2>2, <2>3, <3>2
  <2>4. l \in T
    BY <2>3
  <2> HIDE DEF T
  <2> QED
    BY <1>6, <2>1, <2>4
<1>9. \A c, e \in Nat : g[<< c, e >>] = WalkOn(q, g, c, e)
  <2> HIDE DEF T
  <2>1. m = 0
    BY <1>8
  <2>2. \A c \in Nat : c >= m
    BY <2>1
  <2> QED
    BY <1>7, <2>2
<1> DEFINE h == [x \in Nat \X Nat |-> g[x]]
<1>10. \A c, e \in Nat : h[<< c, e >>] = g[<< c, e >>]
  OBVIOUS
<1>11. h = [x \in Nat \X Nat |-> WalkOn(q, h, x[1], x[2])]
  <2>1. \A x \in Nat \X Nat : g[x] = WalkOn(q, h, x[1], x[2])
    <3> HIDE DEF h
    <3>1. ASSUME NEW c \in Nat, NEW e \in Nat PROVE g[<< c, e >>] = WalkOn(q, h, c, e)
      <4>1. Later(g, h, c)
        BY <1>10 DEF Later
      <4> QED
        BY <1>3, <1>9, <4>1
    <3>2. \A x \in Nat \X Nat : x = << x[1], x[2] >> /\ x[1] \in Nat /\ x[2] \in Nat
      OBVIOUS
    <3> QED
      BY <3>1, <3>2
  <2> DEFINE step(x) == WalkOn(q, h, x[1], x[2])
  <2>2. \A x \in Nat \X Nat : g[x] = step(x)
    BY <2>1
  <2> HIDE DEF step
  <2>3. h = [x \in Nat \X Nat |-> step(x)]
    BY <2>2
  <2> QED
    BY <2>3 DEF step
<1> QED
  BY <1>11 DEF WalksOn

\* Between the start of bucket c's run and its end every bucket waits for its run.
LEMMA WaitingInRun ==
    ASSUME NEW p, Paired(p), NEW c \in p.occupieds, NEW x \in Int, c <= x, x < RunendOf(p, c)
    PROVE  Ended(p, x) < Occupied(p, x)
<1>1. c \in Int /\ c >= 0 /\ LastUsed(p, c) = RunendOf(p, c) /\ LastUsed(p, c) \in Int
  BY OwnRunend, LastUsedGrows
<1>2. LastUsed(p, c) <= x <=> Occupied(p, c) <= Ended(p, x)
  BY <1>1, LastUsedAt
<1>3. Occupied(p, c) <= Occupied(p, x) /\ Occupied(p, c) \in Int /\ Occupied(p, x) \in Int /\ Ended(p, x) \in Int
  BY <1>1, CountsGrow, Counts
<1> QED
  BY <1>1, <1>2, <1>3

\* No bucket, no count.
LEMMA NoneBetween ==
    ASSUME NEW p, Paired(p), NEW c \in Int, NEW x \in Int, c <= x,
           \A o \in p.occupieds : o > c => o > x
    PROVE  Occupied(p, x) = Occupied(p, c)
<1>1. IntegerSet(p.occupieds) /\ \A o \in p.occupieds : o \in Int
  BY TableSets DEF IntegerSet
<1>2. PICK a \in Int : a = c + 1 /\ c = a - 1 /\ a <= x + 1
  OBVIOUS
<1>3. Cardinality({y \in p.occupieds : a <= y /\ y <= x}) = UpTo(p.occupieds, x) - UpTo(p.occupieds, c)
  BY <1>1, <1>2, Between
<1>4. {y \in p.occupieds : a <= y /\ y <= x} = {}
  BY <1>1, <1>2
<1>5. UpTo(p.occupieds, x) \in Nat /\ UpTo(p.occupieds, c) \in Nat
  BY <1>1, UpToType
<1> QED
  <2>1. UpTo(p.occupieds, x) - UpTo(p.occupieds, c) = 0
    BY <1>3, <1>4, FS_EmptySet
  <2>2. UpTo(p.occupieds, x) = UpTo(p.occupieds, c)
    BY <1>5, <2>1
  <2> QED
    BY <2>2 DEF Occupied

\* The clusters walks end: from bucket c on they reach the end l of the cluster
\* of bucket b.
LEMMA WalkEnds ==
    ASSUME NEW p, Paired(p), NEW b \in p.occupieds, NEW t \in Int, t <= RunendOf(p, b),
           NEW q, ReadsFrom(p, q, t), NEW g,
           \A c, e \in Nat : g[<< c, e >>] = WalkOn(q, g, c, e)
    PROVE  Cluster(p, b, g[<< b, RunendOf(p, b) >>])
<1>1. /\ EndOfBlocks \in Nat /\ EndOfBlocks - 1 \in Nat
      /\ p.occupieds \in SUBSET Nat /\ \A o \in p.occupieds : o \in Int /\ o < EndOfBlocks
      /\ q.occupieds = p.occupieds
  <2>1. EndOfBlocks - 1 \in Nat /\ p.occupieds \in SUBSET (0 .. EndOfBlocks - 1)
    BY TableSets
  <2> QED
    BY <2>1, BlocksReach DEF ReadsFrom
<1> DEFINE waits(c) == b <= c /\ \A x \in Int : b <= x /\ x < RunendOf(p, c) => Ended(p, x) < Occupied(p, x)
           reaches(c) == Cluster(p, b, g[<< c, RunendOf(p, c) >>])
           next(c) == {o \in p.occupieds : o > c}
           ends(c) == c \notin p.occupieds \/ next(c) = {} \/ RunendOf(p, c) >= EndOfBlocks - 1
                      \/ Min(next(c)) > RunendOf(p, c)
           Good == {c \in Nat : c \in p.occupieds /\ waits(c) => reaches(c)}
<1>2. ASSUME NEW c \in p.occupieds, waits(c)
      PROVE  /\ c \in Nat /\ c \in Int /\ RunendOf(p, c) \in Nat /\ RunendOf(p, c) \in Slots
             /\ RunendOf(p, b) <= RunendOf(p, c) /\ c <= RunendOf(p, c)
             /\ Ended(p, RunendOf(p, c)) = Occupied(p, c)
             /\ g[<< c, RunendOf(p, c) >>] = WalkOn(q, g, c, RunendOf(p, c))
             /\ t <= RunendOf(p, c)
  <2>1. /\ c \in Nat /\ c \in Int /\ b \in Int /\ b <= c
    BY <1>1, <1>2
  <2>2. /\ RunendOf(p, c) = LastUsed(p, c) /\ RunendOf(p, b) = LastUsed(p, b)
        /\ RunendOf(p, c) \in Slots /\ RunendOf(p, b) \in Slots /\ LastUsed(p, c) >= c
        /\ Ended(p, LastUsed(p, c)) = Occupied(p, c)
    BY OwnRun, OwnRunend
  <2>3. LastUsed(p, b) <= LastUsed(p, c)
    BY <2>1, LastUsedGrows
  <2>4. RunendOf(p, c) \in Nat /\ RunendOf(p, b) \in Nat
    BY <1>1, <2>2 DEF Slots
  <2> HIDE DEF waits
  <2> QED
    BY <2>1, <2>2, <2>3, <2>4
<1>3. ASSUME NEW c \in p.occupieds, waits(c), ends(c) PROVE reaches(c)
  <2>1. PICK e \in Nat : e = RunendOf(p, c)
    BY <1>2, <1>3
  <2>2. /\ c \in Nat /\ c \in Int /\ e \in Slots /\ RunendOf(p, b) <= e /\ c <= e
        /\ Ended(p, e) = Occupied(p, c) /\ g[<< c, e >>] = WalkOn(q, g, c, e)
    <3> HIDE DEF waits, ends, reaches
    <3> QED
      BY <1>2, <1>3, <2>1
  <2>3. PICK N : N = {o \in q.occupieds : o > c} /\ N = next(c)
    BY <1>1
  <2>4. N = {} \/ e >= EndOfBlocks - 1 \/ Min(N) > e
    BY <1>3, <2>1, <2>3
  <2>5. g[<< c, e >>] = e
    BY <2>2, <2>3, <2>4 DEF WalkOn
  <2>6. Ended(p, e) = Occupied(p, e)
    <3>1. /\ Ended(p, e) <= Occupied(p, e) /\ Occupied(p, c) \in Int
          /\ Occupied(p, e) \in 0 .. Cardinality(p.runends) /\ Cardinality(p.runends) \in Nat
          /\ e >= EndOfBlocks - 1 => Ended(p, e) = Cardinality(p.runends)
      BY <2>1, <2>2, EndedWithinOccupied, Counts
    <3>2. CASE e >= EndOfBlocks - 1
      BY <3>1, <3>2
    <3>3. CASE ~ (e >= EndOfBlocks - 1)
      <4>1. \A o \in p.occupieds : o > c => o > e
        <5>1. ASSUME NEW o \in p.occupieds, o > c PROVE o > e
          <6>1. o \in N /\ N # {}
            BY <1>1, <2>3, <5>1
          <6>2. Min(N) <= o /\ Min(N) \in N
            BY <1>1, <2>2, <2>3, <5>1, <6>1, NextBucketAhead
          <6>3. Min(N) \in Int /\ o \in Int /\ Min(N) > e
            BY <1>1, <2>3, <2>4, <3>3, <6>1, <6>2
          <6> QED
            BY <2>1, <6>2, <6>3
        <5> QED
          BY <5>1
      <4>2. Occupied(p, e) = Occupied(p, c)
        BY <2>1, <2>2, <4>1, NoneBetween
      <4> QED
        BY <2>2, <4>2
    <3> QED
      BY <3>2, <3>3
  <2>7. \A x \in Int : b <= x /\ x < e => Ended(p, x) < Occupied(p, x)
    BY <1>3, <2>1
  <2>8. Cluster(p, b, e)
    BY <2>2, <2>6, <2>7 DEF Cluster
  <2> QED
    BY <2>1, <2>5, <2>8
<1>4. ASSUME NEW c \in p.occupieds, waits(c), ~ ends(c)
      PROVE  /\ Min(next(c)) \in p.occupieds /\ Min(next(c)) \in Nat /\ Min(next(c)) > c
             /\ Min(next(c)) \in Good => reaches(c)
  <2>1. PICK e \in Nat : e = RunendOf(p, c)
    BY <1>2, <1>4
  <2>2. /\ c \in Nat /\ c \in Int /\ e \in Slots /\ c <= e /\ t <= e
        /\ Ended(p, e) = Occupied(p, c) /\ g[<< c, e >>] = WalkOn(q, g, c, e)
    <3> HIDE DEF waits, ends, reaches
    <3> QED
      BY <1>2, <1>4, <2>1
  <2>3. PICK N : N = {o \in q.occupieds : o > c} /\ N = next(c)
    BY <1>1
  <2>4. N # {} /\ ~ (e >= EndOfBlocks - 1) /\ ~ (Min(N) > e)
    BY <1>4, <2>1, <2>3
  <2>5. Min(N) \in N /\ \A o \in p.occupieds : o > c => Min(N) <= o
    BY <1>1, <2>2, <2>3, <2>4, NextBucketAhead
  <2>6. PICK n \in p.occupieds : n = Min(N) /\ n > c /\ n \in Nat /\ n \in Int /\ n <= e
    BY <1>1, <2>1, <2>3, <2>4, <2>5
  <2>7. PICK w \in Int : w = n - 1 /\ c <= w
    BY <2>2, <2>6
  <2>8. Occupied(p, w) = Occupied(p, c)
    <3>1. \A o \in p.occupieds : o > c => o > w
      BY <1>1, <2>5, <2>6, <2>7
    <3> QED
      BY <2>2, <2>7, <3>1, NoneBetween
  <2>9. LastUsed(p, w) = e
    <3>1. e \in p.runends
      BY <2>1, OwnRun
    <3> QED
      BY <2>2, <2>7, <2>8, <3>1, LastUsedIs
  <2>10. /\ RunendOf(p, n) \in Slots /\ RunendOf(p, n) > e /\ RunendOf(p, n) \in Int
    <3>1. RunendOf(p, n) = LastUsed(p, n) /\ RunendOf(p, n) \in Slots /\ \A x \in Int : x < n => LastUsed(p, x) < LastUsed(p, n)
      BY OwnRun, OwnRunend
    <3> QED
      BY <2>6, <2>7, <2>9, <3>1 DEF Slots
  <2>11. PICK s \in Int : s = e + 1
    BY <2>1
  <2>12. NextRunend(q, s) = RunendOf(p, n)
    <3>1. LastUsed(p, n - 1) < s /\ s <= RunendOf(p, n) /\ t <= s
      BY <2>1, <2>2, <2>7, <2>9, <2>10, <2>11
    <3> QED
      BY <3>1, NextRunendIs
  <2>13. g[<< c, e >>] = g[<< n, RunendOf(p, n) >>]
    <3>1. WalkOn(q, g, c, e) = g[<< Min(N), NextRunend(q, e + 1) >>]
      BY <2>3, <2>4 DEF WalkOn
    <3> QED
      BY <2>2, <2>6, <2>11, <2>12, <3>1
  <2>14. waits(n)
    <3>1. b <= n
      BY <1>1, <1>4, <2>6
    <3>2. ASSUME NEW x \in Int, b <= x, x < RunendOf(p, n) PROVE Ended(p, x) < Occupied(p, x)
      <4>1. CASE x < e
        BY <1>4, <2>1, <3>2, <4>1
      <4>2. CASE ~ (x < e)
        <5>1. n <= x
          BY <2>1, <2>6, <4>2
        <5> QED
          BY <3>2, <5>1, WaitingInRun
      <4> QED
        BY <4>1, <4>2
    <3> QED
      BY <3>1, <3>2
  <2>15. n \in Good => reaches(c)
    <3>1. n \in Good => reaches(n)
      BY <2>14
    <3>2. reaches(n) => reaches(c)
      BY <2>1, <2>13
    <3> HIDE DEF Good, reaches
    <3> QED
      BY <3>1, <3>2
  <2> HIDE DEF Good, reaches, waits
  <2> QED
    BY <2>3, <2>6, <2>15
<1> DEFINE stop == [c \in Nat |-> ends(c) \/ ~ waits(c)]
           ahead == [c \in Nat |-> Min(next(c))]
<1>5. \A c \in Nat : c >= EndOfBlocks => ends(c)
  BY <1>1
<1>6. \A c \in Nat : stop[c] <=> ends(c) \/ ~ waits(c)
  BY Zenon
<1>7. \A c \in Nat : ahead[c] = Min(next(c))
  OBVIOUS
<1>8. \A c \in Nat : ends(c) \/ c \in p.occupieds
  OBVIOUS
<1>9. \A c \in Nat : c \in Good <=> (c \in p.occupieds /\ waits(c) => reaches(c))
  OBVIOUS
<1> HIDE DEF stop, ahead, ends, waits, reaches, next
<1>10. \A c \in Nat : ~ stop[c] => ahead[c] \in Nat /\ ahead[c] > c
  BY <1>4, <1>6, <1>7, <1>8
<1>11. \A c \in Nat : stop[c] => c \in Good
  BY <1>3, <1>6, <1>9
<1>12. \A c \in Nat : ~ stop[c] /\ ahead[c] \in Good => c \in Good
  BY <1>4, <1>6, <1>7, <1>8, <1>9
<1> HIDE DEF Good
<1>13. \A c \in Nat : c \in Good
  <2>1. \A c \in Nat : c >= EndOfBlocks => stop[c]
    BY <1>5, <1>6
  <2> QED
    BY <1>1, <2>1, <1>10, <1>11, <1>12, WalkReaches
<1>14. waits(b)
  <2>1. b \in Int /\ b <= b
    BY <1>1
  <2> QED
    BY <2>1, WaitingInRun DEF waits
<1>15. reaches(b)
  BY <1>1, <1>9, <1>13, <1>14
<1> QED
  BY <1>15 DEF reaches

\* The last slot the removal loop shifts ends bucket b's cluster.
LEMMA ClusterEndExact ==
    ASSUME NEW p, Paired(p), NEW b \in p.occupieds, NEW s \in Int, RunFirst(p, b) <= s,
           s <= RunendOf(p, b), NEW q, ReadsFrom(p, q, s), q.runends \subseteq Slots
    PROVE  Cluster(p, b, ClusterEnd(q, b, s))
<1>1. PICK h : WalksOn(q, h)
  BY WalksExist DEF Paired, ReadsFrom
<1> DEFINE g == CHOOSE w : WalksOn(q, w)
<1>2. WalksOn(q, g)
  BY <1>1
<1>3. ClusterEnd(q, b, s) = g[<< b, NextRunend(q, s) >>]
  BY DEF ClusterEnd, WalksOn, WalkOn, NextRunend
<1> HIDE DEF g
<1>4. g = [x \in Nat \X Nat |-> WalkOn(q, g, x[1], x[2])]
  BY <1>2 DEF WalksOn
<1>5. \A c, e \in Nat : g[<< c, e >>] = WalkOn(q, g, c, e)
  <2> DEFINE step(x) == WalkOn(q, g, x[1], x[2])
  <2>1. \A c, e \in Nat : step(<< c, e >>) = WalkOn(q, g, c, e)
    OBVIOUS
  <2>2. g = [x \in Nat \X Nat |-> step(x)]
    BY <1>4
  <2> HIDE DEF step
  <2> QED
    BY <2>1, <2>2
<1>6. NextRunend(q, s) = RunendOf(p, b)
  <2>1. LastUsed(p, b - 1) < s
    <3>1. LastUsed(p, b - 1) \in Int /\ RunFirst(p, b) \in Nat /\ RunFirst(p, b) > LastUsed(p, b - 1)
      BY OwnRun
    <3> QED
      BY <3>1
  <2> QED
    BY <2>1, NextRunendIs
<1>7. Cluster(p, b, g[<< b, RunendOf(p, b) >>])
  BY <1>5, WalkEnds
<1> QED
  BY <1>3, <1>6, <1>7


(***************************************************************************)
(* The removal loop.                                                       *)
(***************************************************************************)

\* p is q after n slots of bucket b's cluster, which ended at L, were removed:
\* other buckets read what they read.
Trimmed(q, p, b, L, n) ==
    /\ Paired(p) /\ Cardinality(UsedSlots(q)) = Cardinality(UsedSlots(p)) + n
    /\ \A z \in Int : z < b => LastUsed(p, z) = LastUsed(q, z)
    /\ \A z, y \in Int : z >= L /\ y >= L => (LastUsed(p, z) <= y <=> LastUsed(q, z) <= y)

\* Bucket b keeps a run, n slots shorter.
Shortened(q, p, b, L, n) ==
    /\ Trimmed(q, p, b, L, n) /\ p.occupieds = q.occupieds
    /\ RunendOf(p, b) = RunendOf(q, b) - n /\ Ended(p, L) = Occupied(p, L)

LEMMA SameFirst ==
    ASSUME NEW q, NEW p, NEW b \in Int, \A z \in Int : z < b => LastUsed(p, z) = LastUsed(q, z)
    PROVE  RunFirst(p, b) = RunFirst(q, b)
<1>1. PICK v \in Int : v = b - 1 /\ v < b
  OBVIOUS
<1>2. LastUsed(p, v) = LastUsed(q, v)
  BY <1>1
<1> QED
  BY <1>1, <1>2 DEF RunFirst

LEMMA TurnShortens ==
    ASSUME NEW q, Paired(q), NEW b \in q.occupieds, NEW L \in Int, b <= L, NEW n \in Nat,
           NEW p, Shortened(q, p, b, L, n),
           NEW i \in Int, RunFirst(q, b) <= i, i <= RunendOf(p, b), RunFirst(q, b) < RunendOf(p, b),
           NEW l, Cluster(p, b, l),
           NEW r, r.occupieds = p.occupieds, r.runends = MovedDown(p.runends, i, l)
    PROVE  Shortened(q, r, b, L, n + 1)
<1>1. /\ Paired(p) /\ b \in p.occupieds /\ b \in Int /\ RunFirst(p, b) = RunFirst(q, b)
      /\ Ended(p, L) = Occupied(p, L)
  <2>1. b \in Int
    BY OwnRunend
  <2> QED
    BY <2>1, SameFirst DEF Shortened, Trimmed
<1>2. /\ RunendOf(p, b) \in p.runends /\ RunendOf(p, b) \in Int /\ RunFirst(p, b) \in Int
      /\ RunendOf(q, b) \in Int /\ l \in Int /\ RunendOf(p, b) <= l
      /\ \A x \in Int : b <= x /\ x < l => Ended(p, x) < Occupied(p, x)
      /\ Ended(p, RunendOf(p, b)) = Occupied(p, b)
  <2>1. /\ RunendOf(p, b) \in p.runends /\ RunendOf(p, b) \in Slots /\ RunFirst(p, b) \in Nat
        /\ Ended(p, RunendOf(p, b)) = Occupied(p, b)
    BY <1>1, OwnRun, OwnRunend
  <2>2. RunendOf(q, b) \in Slots
    BY OwnRun
  <2> QED
    BY <2>1, <2>2 DEF Cluster, Slots
<1>3. l <= L
  <2>1. ~ (L < l)
    <3>1. Ended(p, L) \in Int
      BY <1>1, Counts
    <3> QED
      BY <1>1, <1>2, <3>1
  <2> QED
    BY <1>2, <2>1
<1>4. Turn(p, b, i, l, 0)
  BY <1>1 DEF Turn
<1>5. TurnCounts(p, r, b, i, l, 0)
  BY <1>1, <1>2, ShorterRunCounts
<1>6. \A e \in p.runends : e < i => e \in r.runends
  <2>1. \A e \in p.runends : e < i => e = IF i <= e /\ e <= l THEN e - 1 ELSE e
    BY <1>1, TableSets DEF IntegerSet
  <2> QED
    BY <2>1 DEF MovedDown
<1>7. /\ Paired(r) /\ Cardinality(UsedSlots(p)) = Cardinality(UsedSlots(r)) + 1
      /\ Cardinality(UsedSlots(r)) \in Nat
  BY <1>1, <1>4, <1>5, TurnPairs
<1>8. /\ \A z \in Int : z < b => LastUsed(r, z) = LastUsed(p, z)
      /\ \A z, y \in Int : z >= l /\ y >= l => (LastUsed(r, z) <= y <=> LastUsed(p, z) <= y)
      /\ \A y \in Int : y >= l => (Ended(r, y) = Occupied(r, y) <=> Ended(p, y) = Occupied(p, y))
  BY <1>1, <1>4, <1>5, <1>6, TurnReads
<1>9. RunendOf(r, b) = RunendOf(p, b) - 1
  <2>1. PICK e \in Int : e = RunendOf(p, b) - 1 /\ i - 1 <= e /\ e < l /\ e + 1 = RunendOf(p, b)
    BY <1>2
  <2>2. Ended(r, e) = Ended(p, e + 1) - 0 /\ Ended(p, e + 1) \in Int
    BY <1>1, <2>1, <1>5, Counts DEF TurnCounts
  <2>3. Ended(r, e) = Occupied(r, b)
    BY <1>2, <2>1, <2>2 DEF Occupied
  <2>4. e \in r.runends
    BY <1>2, <2>1 DEF MovedDown
  <2>5. RunendOf(r, b) = e
    <3>1. IntegerSet(r.runends)
      BY <1>7, TableSets
    <3> QED
      BY <1>1, <2>3, <2>4, <3>1, RunendOfIs DEF Ended, Occupied
  <2> QED
    BY <2>1, <2>5
<1>10. Trimmed(q, r, b, L, n + 1)
  <2>1. Cardinality(UsedSlots(q)) = Cardinality(UsedSlots(p)) + n
    BY DEF Shortened, Trimmed
  <2>2. Cardinality(UsedSlots(q)) = Cardinality(UsedSlots(r)) + (n + 1)
    BY <1>7, <2>1
  <2>3. \A z \in Int : z < b => LastUsed(r, z) = LastUsed(q, z)
    BY <1>8 DEF Shortened, Trimmed
  <2>4. ASSUME NEW z \in Int, NEW y \in Int, z >= L, y >= L
        PROVE  LastUsed(r, z) <= y <=> LastUsed(q, z) <= y
    <3>1. z >= l /\ y >= l
      BY <1>2, <1>3, <2>4
    <3>2. LastUsed(r, z) <= y <=> LastUsed(p, z) <= y
      BY <1>8, <3>1
    <3>3. LastUsed(p, z) <= y <=> LastUsed(q, z) <= y
      BY <2>4 DEF Shortened, Trimmed
    <3> QED
      BY <3>2, <3>3
  <2> QED
    BY <1>7, <2>2, <2>3, <2>4 DEF Trimmed
<1>11. RunendOf(r, b) = RunendOf(q, b) - (n + 1)
  <2>1. RunendOf(p, b) = RunendOf(q, b) - n
    BY DEF Shortened
  <2> QED
    BY <1>2, <1>9, <2>1
<1>12. Ended(r, L) = Occupied(r, L)
  BY <1>1, <1>3, <1>8
<1> QED
  BY <1>10, <1>11, <1>12 DEF Shortened

\* The slots of a run that a removal takes: all of its only slot's run, or part
\* of a longer run.
Removing(q, b, i, len) ==
    /\ b \in q.occupieds /\ i \in Int /\ len \in Nat \ {0}
    /\ RunFirst(q, b) <= i /\ i + len - 1 <= RunendOf(q, b)
    /\ RunFirst(q, b) = i => len = 1

WithEnd(ends, e) == ends \cup {e}

WithoutEnd(ends, i, l) == MovedDown(ends \ {i}, i + 1, l)

\* The runends of the table as the loop has it with `left` slots to go: when the
\* run's last slots go, there is one in front of them already.
LoopRunends(q, b, i, len, left, ends) ==
    IF i + len - 1 = RunendOf(q, b) /\ left > 0 THEN WithEnd(ends, i - 1) ELSE ends

\* A table a of the loop, when bucket b keeps a run.
InLoop(q, b, i, len, L, left, a) ==
    /\ \E p : /\ Shortened(q, p, b, L, len - left)
              /\ a.runends = LoopRunends(q, b, i, len, left, p.runends)
    /\ a.occupieds = q.occupieds /\ a.offset = q.offset
    /\ a.noccupied_slots = q.noccupied_slots /\ DOMAIN a = Fields

\* What a turn leaves of the runends.
TurnRunends(ends, i, last) ==
    LET moved == {e \in ends : i < e /\ e <= last}
    IN  ((ends \ moved) \ {i}) \cup {e - 1 : e \in moved}

LEMMA TurnRunendsAre ==
    ASSUME NEW S, S \subseteq Int, NEW i \in Int, NEW l \in Int, i <= l
    PROVE  /\ i \notin S => TurnRunends(WithEnd(S, i - 1), i, l) = WithEnd(MovedDown(S, i, l), i - 1)
           /\ i \in S => TurnRunends(WithEnd(S, i - 1), i, l) = MovedDown(S, i, l)
           /\ i \notin S => TurnRunends(S, i, l) = MovedDown(S, i, l)
           /\ TurnRunends(S, i, l) = WithoutEnd(S, i, l)
<1> PICK v \in Int : v = i - 1 /\ v < i /\ ~ (i <= v) /\ i = v + 1
  OBVIOUS
<1>1. /\ \A e \in S : e \in Int
      /\ \A e \in Int : i <= e /\ e <= l <=> (i < e /\ e <= l) \/ e = i
      /\ \A e \in Int : i + 1 <= e /\ e <= l <=> i < e /\ e <= l
  BY DEF MovedDown
<1>2. \A T : T \subseteq Int => \A y : y \in TurnRunends(T, i, l)
          <=> \/ y \in T /\ y # i /\ ~ (i < y /\ y <= l)
              \/ \E e \in T : i < e /\ e <= l /\ y = e - 1
  BY DEF TurnRunends
<1> DEFINE stays(y) == y \in S /\ y # i /\ ~ (i < y /\ y <= l)
           moves(y) == \E e \in S : i < e /\ e <= l /\ y = e - 1
<1>4. PICK A, B, M, N : /\ A = TurnRunends(S \cup {v}, i, l) /\ B = TurnRunends(S, i, l)
                        /\ M = MovedDown(S, i, l) /\ N = MovedDown(S \ {i}, i + 1, l)
  OBVIOUS
<1>5. \A y : y \in A <=> stays(y) \/ moves(y) \/ y = v
  <2>1. S \cup {v} \subseteq Int
    BY <1>1
  <2>2. \A y : y \in A <=> \/ y \in S \cup {v} /\ y # i /\ ~ (i < y /\ y <= l)
                           \/ \E e \in S \cup {v} : i < e /\ e <= l /\ y = e - 1
    BY <1>2, <1>4, <2>1
  <2>3. v # i /\ ~ (i < v)
    OBVIOUS
  <2> QED
    BY <2>2, <2>3
<1>6. \A y : y \in B <=> stays(y) \/ moves(y)
  BY <1>2, <1>4
<1>7. /\ \A y : y \in M <=> stays(y) \/ moves(y) \/ (i \in S /\ y = v)
      /\ \A y : y \in N <=> stays(y) \/ moves(y)
  <2>1. \A y : y \in M <=> \E e \in S : y = IF i <= e /\ e <= l THEN e - 1 ELSE e
    BY <1>4 DEF MovedDown
  <2>2. \A y : y \in N <=> \E e \in S \ {i} : y = IF i + 1 <= e /\ e <= l THEN e - 1 ELSE e
    BY <1>4 DEF MovedDown
  <2>5. \A e \in S : e \in Int /\ (e = i \/ (i < e /\ e <= l) \/ (e # i /\ ~ (i < e /\ e <= l)))
    BY <1>1
  <2>3. ASSUME NEW y PROVE y \in M <=> stays(y) \/ moves(y) \/ (i \in S /\ y = v)
    <3>1. ASSUME y \in M PROVE stays(y) \/ moves(y) \/ (i \in S /\ y = v)
      <4>1. PICK e \in S : y = IF i <= e /\ e <= l THEN e - 1 ELSE e
        BY <2>1, <3>1
      <4>2. e \in Int
        BY <2>5
      <4>3. CASE e = i
        BY <4>1, <4>3
      <4>4. CASE i < e /\ e <= l
        <5>1. i < e /\ e <= l /\ y = e - 1
          BY <4>1, <4>2, <4>4
        <5> QED
          BY <5>1
      <4>5. CASE e # i /\ ~ (i < e /\ e <= l)
        <5>1. y = e
          BY <4>1, <4>2, <4>5
        <5> QED
          BY <4>5, <5>1
      <4> QED
        BY <2>5, <4>3, <4>4, <4>5
    <3>2. ASSUME stays(y) PROVE y \in M
      BY <1>1, <2>1, <3>2
    <3>3. ASSUME moves(y) PROVE y \in M
      <4>1. PICK e \in S : i < e /\ e <= l /\ y = e - 1
        BY <3>3
      <4>2. y = IF i <= e /\ e <= l THEN e - 1 ELSE e
        BY <2>5, <4>1
      <4> QED
        BY <2>1, <4>2
    <3>4. i \in S /\ y = v => y \in M
      BY <2>1
    <3> HIDE DEF stays, moves
    <3> QED
      BY <3>1, <3>2, <3>3, <3>4
  <2>4. ASSUME NEW y PROVE y \in N <=> stays(y) \/ moves(y)
    <3>1. ASSUME y \in N PROVE stays(y) \/ moves(y)
      <4>1. PICK e \in S \ {i} : y = IF i + 1 <= e /\ e <= l THEN e - 1 ELSE e
        BY <2>2, <3>1
      <4>2. e \in Int /\ e # i
        BY <2>5
      <4>3. CASE i < e /\ e <= l
        <5>1. i < e /\ e <= l /\ y = e - 1
          BY <4>1, <4>2, <4>3
        <5> QED
          BY <5>1
      <4>4. CASE ~ (i < e /\ e <= l)
        <5>1. y = e
          BY <4>1, <4>2, <4>4
        <5> QED
          BY <4>2, <4>4, <5>1
      <4> QED
        BY <4>3, <4>4
    <3>2. ASSUME stays(y) PROVE y \in N
      <4>1. y \in Int /\ ~ (i + 1 <= y /\ y <= l)
        BY <2>5, <3>2
      <4> QED
        BY <2>2, <3>2, <4>1
    <3>3. ASSUME moves(y) PROVE y \in N
      <4>1. PICK e \in S : i < e /\ e <= l /\ y = e - 1
        BY <3>3
      <4>2. e \in S \ {i} /\ y = IF i + 1 <= e /\ e <= l THEN e - 1 ELSE e
        BY <2>5, <4>1
      <4> QED
        BY <2>2, <4>2
    <3> HIDE DEF stays, moves
    <3> QED
      BY <3>1, <3>2, <3>3
  <2> QED
    BY <2>3, <2>4
<1>8. A = TurnRunends(S \cup {v}, i, l) /\ B = TurnRunends(S, i, l)
  BY <1>4
<1> HIDE DEF stays, moves
<1>9. i \notin S => \A y : y \in A <=> y \in M \cup {v}
  BY <1>5, <1>7
<1>10. i \in S => \A y : y \in A <=> y \in M
  BY <1>5, <1>7
<1>11. i \notin S => \A y : y \in B <=> y \in M
  BY <1>6, <1>7
<1>12. \A y : y \in B <=> y \in N
  BY <1>6, <1>7
<1>13. /\ i \notin S => A = M \cup {v}
       /\ i \in S => A = M
       /\ i \notin S => B = M
       /\ B = N
  <2>1. i \notin S => A = M \cup {v}
    BY <1>9
  <2>2. i \in S => A = M
    <3>1. A = {y \in A : TRUE} /\ M = {y \in M : TRUE}
      OBVIOUS
    <3> QED
      BY <1>10, <3>1
  <2>3. i \notin S => B = M
    <3>1. B = {y \in B : TRUE} /\ M = {y \in M : TRUE}
      OBVIOUS
    <3> QED
      BY <1>11, <3>1
  <2>4. B = N
    <3>1. B = {y \in B : TRUE} /\ N = {y \in N : TRUE}
      OBVIOUS
    <3> QED
      BY <1>12, <3>1
  <2> QED
    BY <2>1, <2>2, <2>3, <2>4
<1>14. S \cup {v} = WithEnd(S, i - 1) /\ M \cup {v} = WithEnd(M, i - 1)
  BY DEF WithEnd
<1>15. N = WithoutEnd(S, i, l)
  BY <1>4 DEF WithoutEnd
<1> QED
  BY <1>4, <1>13, <1>14, <1>15

LEMMA RemoveSlotFields ==
    ASSUME NEW a, DOMAIN a = Fields, NEW i, NEW l
    PROVE  /\ RemoveSlot(a, i, l).runends = TurnRunends(a.runends, i, l)
           /\ RemoveSlot(a, i, l).occupieds = a.occupieds
           /\ RemoveSlot(a, i, l).offset = a.offset
           /\ RemoveSlot(a, i, l).noccupied_slots = a.noccupied_slots
           /\ DOMAIN RemoveSlot(a, i, l) = Fields
  BY DEF RemoveSlot, TurnRunends, Fields


\* A turn removes one slot more.
LEMMA LoopTurn ==
    ASSUME NEW q, Paired(q), NEW b, NEW i, NEW len, Removing(q, b, i, len),
           RunFirst(q, b) < RunendOf(q, b), NEW L \in Int, b <= L, NEW left \in 1 .. len,
           NEW a, InLoop(q, b, i, len, L, left, a)
    PROVE  InLoop(q, b, i, len, L, left - 1, RemoveSlot(a, i, ClusterEnd(a, b, i + left - 1)))
<1>1. /\ b \in q.occupieds /\ i \in Int /\ len \in Nat /\ left \in Nat /\ len - left \in Nat
      /\ RunFirst(q, b) <= i /\ (RunFirst(q, b) = i => len = 1)
  BY DEF Removing
<1>2. PICK p : /\ Shortened(q, p, b, L, len - left)
               /\ a.runends = LoopRunends(q, b, i, len, left, p.runends)
  BY DEF InLoop
<1>3. /\ RunFirst(q, b) \in Int /\ RunFirst(q, b) >= 0 /\ RunFirst(q, b) >= b /\ b \in Int
      /\ RunendOf(q, b) \in Int
  BY <1>1, OwnRun DEF Slots
<1>4. /\ Paired(p) /\ p.occupieds = q.occupieds /\ b \in p.occupieds
      /\ RunFirst(p, b) = RunFirst(q, b)
      /\ RunendOf(p, b) = RunendOf(q, b) - (len - left)
  BY <1>1, <1>2, <1>3, SameFirst DEF Shortened, Trimmed
<1>5. PICK s, R, v \in Int : /\ s = i + left - 1 /\ R = RunendOf(p, b) /\ v = i - 1
                             /\ i <= s /\ s <= R /\ v < i /\ RunFirst(q, b) < R
                             /\ (i + len - 1 = RunendOf(q, b) <=> s = R)
  <2>1. i + len - 1 <= RunendOf(q, b)
    BY DEF Removing
  <2>2. PICK n, m \in Int : n = len - left /\ m = RunendOf(q, b)
    BY <1>1, <1>3
  <2>3. RunFirst(q, b) < m - n
    BY <1>1, <1>3, <2>1, <2>2
  <2> QED
    BY <1>1, <1>3, <1>4, <2>1, <2>2, <2>3
<1>6. /\ \A e \in p.runends : e > LastUsed(p, b - 1) <=> e >= R
      /\ LastUsed(p, b - 1) \in Int /\ LastUsed(p, b - 1) < RunFirst(q, b) /\ R \in p.runends
      /\ p.runends \subseteq Slots /\ R \in Slots
  <2>1. /\ \A e \in p.runends : e > LastUsed(p, b - 1) <=> e >= RunendOf(p, b)
        /\ LastUsed(p, b - 1) \in Int /\ LastUsed(p, b - 1) < RunFirst(p, b)
        /\ RunendOf(p, b) \in p.runends /\ RunendOf(p, b) \in Slots
    BY <1>4, OwnRun
  <2> QED
    BY <1>4, <1>5, <2>1 DEF Paired
<1>7. \A x \in Int : x >= RunFirst(q, b) /\ x < R => x \notin p.runends
  BY <1>3, <1>5, <1>6
<1>8. s = R => v >= RunFirst(q, b) /\ v \in Slots
  <2>1. s = R => v >= RunFirst(q, b)
    BY <1>1, <1>3, <1>5
  <2>2. R < EndOfBlocks /\ EndOfBlocks \in Nat
    BY <1>6, BlocksReach DEF Slots
  <2>3. s = R => v >= 0 /\ v < EndOfBlocks /\ v \in Int
    <3>1. R \in Int /\ v \in Int /\ v < R
      BY <1>1, <1>5
    <3>2. PICK f \in Int : f = RunFirst(q, b) /\ f >= 0
      BY <1>3
    <3>3. s = R => v >= f
      BY <2>1, <3>2
    <3> QED
      BY <2>2, <3>1, <3>2, <3>3
  <2>4. s = R => v \in 0 .. EndOfBlocks - 1
    BY <2>2, <2>3
  <2> QED
    BY <2>1, <2>4 DEF Slots
<1>9. a.runends = IF s = R THEN WithEnd(p.runends, v) ELSE p.runends
  BY <1>1, <1>2, <1>5 DEF LoopRunends
<1>10. a.runends \subseteq Slots
  BY <1>6, <1>8, <1>9 DEF WithEnd
<1>11. ReadsFrom(p, a, s)
  <2>1. a.occupieds = p.occupieds
    BY <1>4 DEF InLoop
  <2>2. a.runends \subseteq Int
    BY <1>10 DEF Slots
  <2>3. ASSUME NEW e \in Int, e >= s PROVE e \in a.runends <=> e \in p.runends
    <3>1. e # v
      BY <1>1, <1>5, <2>3
    <3> QED
      BY <1>9, <3>1 DEF WithEnd
  <2> QED
    BY <2>1, <2>2, <2>3 DEF ReadsFrom
<1>12. PICK l : l = ClusterEnd(a, b, s) /\ Cluster(p, b, l)
  <2>1. RunFirst(p, b) <= s /\ s <= RunendOf(p, b)
    BY <1>1, <1>3, <1>4, <1>5
  <2> QED
    BY <1>4, <1>10, <1>11, <2>1, ClusterEndExact
<1>13. l \in Int /\ i <= l
  <2>1. l \in Int /\ R <= l
    BY <1>5, <1>12 DEF Cluster, Slots
  <2> QED
    BY <1>1, <1>5, <2>1
<1>14. PICK r : r.occupieds = p.occupieds /\ r.runends = MovedDown(p.runends, i, l)
  <2>1. [occupieds |-> p.occupieds, runends |-> MovedDown(p.runends, i, l)].runends = MovedDown(p.runends, i, l)
        /\ [occupieds |-> p.occupieds, runends |-> MovedDown(p.runends, i, l)].occupieds = p.occupieds
    OBVIOUS
  <2> QED
    BY <2>1
<1>15. Shortened(q, r, b, L, len - (left - 1))
  <2>1. PICK n \in Nat : n = len - left
    BY <1>1
  <2>4. len - (left - 1) = n + 1
    BY <1>1, <2>1
  <2>2. Shortened(q, p, b, L, n) /\ i <= RunendOf(p, b) /\ RunFirst(q, b) < RunendOf(p, b)
    <3>1. i <= R
      BY <1>1, <1>5
    <3>2. Shortened(q, p, b, L, n)
      BY <1>2, <2>1
    <3> QED
      BY <1>5, <3>1, <3>2
  <2>3. Shortened(q, r, b, L, n + 1)
    BY <1>1, <1>12, <1>14, <2>2, TurnShortens
  <2> QED
    BY <2>3, <2>4
<1> PICK S : S = p.runends
  OBVIOUS
<1>16. TurnRunends(a.runends, i, l) = LoopRunends(q, b, i, len, left - 1, r.runends)
  <2>1. S \subseteq Int /\ S = p.runends
    BY <1>6 DEF Slots
  <2>4. /\ i \notin S => TurnRunends(WithEnd(S, i - 1), i, l) = WithEnd(MovedDown(S, i, l), i - 1)
        /\ i \in S => TurnRunends(WithEnd(S, i - 1), i, l) = MovedDown(S, i, l)
        /\ i \notin S => TurnRunends(S, i, l) = MovedDown(S, i, l)
    <3>1. S \subseteq Int /\ i \in Int /\ l \in Int /\ i <= l
      BY <1>1, <1>13, <2>1
    <3> QED
      BY <3>1, TurnRunendsAre, Zenon
  <2>2. CASE s = R
    <3>1. i \in S <=> left = 1
      <4>1. i = R <=> left = 1
        BY <1>1, <1>5, <2>2
      <4>2. i # R => i < R
        BY <1>1, <1>5
      <4>3. i # R => i \notin S
        BY <1>1, <1>7, <2>1, <4>2
      <4> QED
        BY <1>6, <2>1, <4>1, <4>3
    <3>2. i \notin S => TurnRunends(a.runends, i, l) = WithEnd(MovedDown(S, i, l), i - 1)
      <4>1. a.runends = WithEnd(S, i - 1)
        BY <1>5, <1>9, <2>1, <2>2
      <4> QED
        BY <2>4, <4>1
    <3>3. i \in S => TurnRunends(a.runends, i, l) = MovedDown(S, i, l)
      <4>1. a.runends = WithEnd(S, i - 1)
        BY <1>5, <1>9, <2>1, <2>2
      <4> QED
        BY <2>4, <4>1
    <3>4. LoopRunends(q, b, i, len, left - 1, r.runends)
            = IF left - 1 > 0 THEN WithEnd(r.runends, i - 1) ELSE r.runends
      BY <1>5, <2>2 DEF LoopRunends
    <3>5. left - 1 > 0 <=> left # 1
      BY <1>1
    <3> QED
      BY <1>14, <2>1, <3>1, <3>2, <3>3, <3>4, <3>5
  <2>3. CASE s # R
    <3>1. i \notin S
      <4>1. i < R
        BY <1>1, <1>5, <2>3
      <4> QED
        BY <1>1, <1>7, <2>1, <4>1
    <3>2. TurnRunends(a.runends, i, l) = MovedDown(S, i, l)
      <4>1. a.runends = S
        BY <1>9, <2>1, <2>3
      <4> QED
        BY <2>4, <3>1, <4>1
    <3>3. LoopRunends(q, b, i, len, left - 1, r.runends) = r.runends
      BY <1>5, <2>3 DEF LoopRunends
    <3> QED
      BY <1>14, <2>1, <3>2, <3>3
  <2> QED
    BY <2>2, <2>3
<1>17. InLoop(q, b, i, len, L, left - 1, RemoveSlot(a, i, l))
  <2>1. /\ DOMAIN a = Fields /\ a.occupieds = q.occupieds /\ a.offset = q.offset
        /\ a.noccupied_slots = q.noccupied_slots
    BY DEF InLoop
  <2>2. PICK t : t = RemoveSlot(a, i, l)
    OBVIOUS
  <2>3. /\ t.runends = TurnRunends(a.runends, i, l) /\ t.occupieds = a.occupieds
        /\ t.offset = a.offset /\ t.noccupied_slots = a.noccupied_slots /\ DOMAIN t = Fields
    BY <2>1, <2>2, RemoveSlotFields
  <2>4. \E u : /\ Shortened(q, u, b, L, len - (left - 1))
               /\ t.runends = LoopRunends(q, b, i, len, left - 1, u.runends)
    BY <1>15, <1>16, <2>3
  <2> QED
    BY <2>1, <2>2, <2>3, <2>4 DEF InLoop
<1> QED
  BY <1>5, <1>12, <1>17

(***************************************************************************)
(* All turns.                                                              *)
(***************************************************************************)

LoopStart(q, only, i, len) ==
    IF IsRunend(q, i + len - 1) /\ ~ only THEN [q EXCEPT !.runends = @ \cup {i - 1}] ELSE q

LoopStep(b, i, len, a, k) == RemoveSlot(a, i, ClusterEnd(a, b, i + (len - k + 1) - 1))

Turns(q, b, i, len, n, g) == g = [k \in 0 .. n |-> IF k = 0 THEN q ELSE LoopStep(b, i, len, g[k - 1], k)]

LEMMA TurnsExist ==
    ASSUME NEW q, NEW b, NEW i, NEW len \in Nat
    PROVE  \E g : Turns(q, b, i, len, len, g)
<1> DEFINE Missing == {n \in Nat : ~ \E g : Turns(q, b, i, len, n, g)}
<1>1. 0 \notin Missing
  <2> DEFINE g == [k \in 0 .. 0 |-> q]
  <2>1. g = [k \in 0 .. 0 |-> IF k = 0 THEN q ELSE LoopStep(b, i, len, g[k - 1], k)]
    OBVIOUS
  <2> HIDE DEF g
  <2>2. Turns(q, b, i, len, 0, g)
    BY <2>1 DEF Turns
  <2> QED
    BY <2>2
<1>2. ASSUME NEW n \in Nat, n \notin Missing PROVE n + 1 \notin Missing
  <2>1. PICK g : Turns(q, b, i, len, n, g)
    BY <1>2
  <2>2. g = [k \in 0 .. n |-> IF k = 0 THEN q ELSE LoopStep(b, i, len, g[k - 1], k)]
    BY <2>1 DEF Turns
  <2> DEFINE h == [k \in 0 .. n + 1 |-> IF k <= n THEN g[k] ELSE LoopStep(b, i, len, g[n], n + 1)]
  <2>3. \A k \in 0 .. n : h[k] = g[k]
    OBVIOUS
  <2>4. h[n + 1] = LoopStep(b, i, len, g[n], n + 1)
    OBVIOUS
  <2>5. h = [k \in 0 .. n + 1 |-> h[k]]
    OBVIOUS
  <2> HIDE DEF h
  <2>6. ASSUME NEW k \in 0 .. n + 1 PROVE h[k] = IF k = 0 THEN q ELSE LoopStep(b, i, len, h[k - 1], k)
    <3>1. CASE k \in 0 .. n
      <4>1. g[k] = IF k = 0 THEN q ELSE LoopStep(b, i, len, g[k - 1], k)
        BY <2>2, <3>1
      <4>2. k # 0 => k - 1 \in 0 .. n
        BY <3>1
      <4> QED
        BY <2>3, <3>1, <4>1, <4>2
    <3>2. CASE k = n + 1
      <4>1. k # 0 /\ k - 1 = n /\ n \in 0 .. n
        BY <3>2
      <4> QED
        BY <2>3, <2>4, <3>2, <4>1
    <3> QED
      BY <3>1, <3>2
  <2>7. h = [k \in 0 .. n + 1 |-> IF k = 0 THEN q ELSE LoopStep(b, i, len, h[k - 1], k)]
    BY <2>5, <2>6
  <2>8. Turns(q, b, i, len, n + 1, h)
    BY <2>7 DEF Turns
  <2> QED
    BY <2>8
<1>3. ASSUME Missing # {} PROVE FALSE
  <2>1. PICK m \in Missing : \A j \in Missing : m <= j
    BY <1>3, LeastNatural
  <2>2. PICK j \in Nat : m = j + 1 /\ ~ (m <= j)
    BY <1>1, <2>1
  <2>3. j \notin Missing
    BY <2>1, <2>2
  <2> HIDE DEF Missing
  <2> QED
    BY <1>2, <2>1, <2>2, <2>3
<1> QED
  BY <1>3


\* The cluster the first turn shifts is bucket b's.
LEMMA FirstTurn ==
    ASSUME NEW q, Paired(q), DOMAIN q = Fields, NEW b, NEW i, NEW len, Removing(q, b, i, len),
           NEW only, only <=> RunFirst(q, b) = RunendOf(q, b)
    PROVE  /\ Cluster(q, b, ClusterEnd(LoopStart(q, only, i, len), b, i + len - 1))
           /\ only => /\ len = 1 /\ i = RunendOf(q, b) /\ i \in q.runends
                      /\ LoopStart(q, only, i, len) = q
           /\ ~ only => InLoop(q, b, i, len, ClusterEnd(LoopStart(q, only, i, len), b, i + len - 1),
                               len, LoopStart(q, only, i, len))
<1>1. /\ b \in q.occupieds /\ b \in Int /\ i \in Int /\ len \in Nat \ {0}
      /\ RunFirst(q, b) \in Int /\ RunFirst(q, b) >= 0 /\ RunFirst(q, b) <= i
      /\ RunendOf(q, b) \in Int /\ RunendOf(q, b) \in q.runends /\ RunendOf(q, b) \in Slots
      /\ i + len - 1 <= RunendOf(q, b) /\ (RunFirst(q, b) = i => len = 1)
      /\ LastUsed(q, b - 1) \in Int /\ RunFirst(q, b) > LastUsed(q, b - 1)
      /\ \A e \in q.runends : e > LastUsed(q, b - 1) <=> e >= RunendOf(q, b)
  <2>1. b \in q.occupieds
    BY DEF Removing
  <2>2. /\ b \in Slots /\ RunFirst(q, b) \in Nat /\ RunendOf(q, b) \in Slots /\ RunendOf(q, b) \in q.runends
        /\ LastUsed(q, b - 1) \in Int /\ RunFirst(q, b) > LastUsed(q, b - 1)
        /\ \A e \in q.runends : e > LastUsed(q, b - 1) <=> e >= RunendOf(q, b)
    BY <2>1, OwnRun
  <2> QED
    BY <2>1, <2>2 DEF Removing, Slots
<1>2. PICK s, R, v, f \in Int : /\ s = i + len - 1 /\ R = RunendOf(q, b) /\ v = i - 1 /\ f = RunFirst(q, b)
                                /\ i <= s /\ s <= R /\ v < i /\ f <= i /\ 0 <= f
  BY <1>1
<1>3. s \in q.runends <=> s = R
  <2>1. s > LastUsed(q, b - 1)
    BY <1>1, <1>2
  <2> QED
    BY <1>1, <1>2, <2>1
<1>4. PICK a : a = LoopStart(q, only, i, len)
  OBVIOUS
<1>5. /\ a.occupieds = q.occupieds /\ a.offset = q.offset /\ a.noccupied_slots = q.noccupied_slots
      /\ DOMAIN a = Fields
      /\ a.runends = IF s = R /\ ~ only THEN WithEnd(q.runends, v) ELSE q.runends
  <2>1. a = IF s = R /\ ~ only THEN [q EXCEPT !.runends = WithEnd(q.runends, v)] ELSE q
    BY <1>2, <1>3, <1>4 DEF LoopStart, IsRunend, WithEnd
  <2>2. CASE s = R /\ ~ only
    BY <2>1, <2>2 DEF Fields
  <2>3. CASE ~ (s = R /\ ~ only)
    BY <2>1, <2>3
  <2> QED
    BY <2>2, <2>3
<1>6. ~ only /\ s = R => v >= f /\ v \in Slots
  <2>1. ASSUME ~ only, s = R PROVE v >= f
    <3>1. f # i
      BY <1>1, <1>2, <2>1
    <3> QED
      BY <1>1, <1>2, <3>1
  <2>2. R < EndOfBlocks /\ EndOfBlocks \in Nat
    BY <1>1, <1>2, BlocksReach DEF Slots
  <2>3. v < EndOfBlocks
    BY <1>1, <1>2, <2>2
  <2>4. v >= 0 => v \in Slots
    BY <2>2, <2>3 DEF Slots
  <2> QED
    BY <1>2, <2>1, <2>4
<1>7. a.runends \subseteq Slots
  <2>1. q.runends \subseteq Slots
    BY DEF Paired
  <2> QED
    BY <1>5, <1>6, <2>1 DEF WithEnd
<1>8. ReadsFrom(q, a, s)
  <2>1. a.runends \subseteq Int
    BY <1>7 DEF Slots
  <2>2. ASSUME NEW e \in Int, e >= s PROVE e \in a.runends <=> e \in q.runends
    <3>1. e # v
      BY <1>1, <1>2, <2>2
    <3> QED
      BY <1>5, <3>1 DEF WithEnd
  <2> QED
    BY <1>5, <2>1, <2>2 DEF ReadsFrom
<1>9. Cluster(q, b, ClusterEnd(a, b, s))
  <2>1. RunFirst(q, b) <= s /\ s <= RunendOf(q, b)
    BY <1>1, <1>2
  <2> QED
    BY <1>1, <1>7, <1>8, <2>1, ClusterEndExact
<1>10. only => len = 1 /\ i = RunendOf(q, b) /\ i \in q.runends /\ a = q
  <2>1. ASSUME only PROVE len = 1 /\ i = RunendOf(q, b)
    <3>1. f = R
      BY <1>2, <2>1
    <3> QED
      BY <1>1, <1>2, <3>1
  <2>2. only => a = q
    BY <1>4 DEF LoopStart
  <2> QED
    BY <1>1, <2>1, <2>2
<1>11. PICK L : L = ClusterEnd(a, b, s) /\ Cluster(q, b, L)
  BY <1>9
<1>12. ASSUME ~ only PROVE InLoop(q, b, i, len, L, len, a)
  <2>1. Ended(q, L) = Occupied(q, L)
    BY <1>11 DEF Cluster
  <2>2. Cardinality(UsedSlots(q)) \in Nat
    <3>1. PICK n \in Int : n = EndOfBlocks - 1
      BY BlocksReach
    <3>2. UsedSlots(q) \in SUBSET (0 .. n)
      BY <3>1, UsedInSlots DEF Slots
    <3>3. Cardinality(UsedSlots(q)) \in Nat
      BY <3>1, <3>2, UpToEnds
    <3> QED
      BY <3>3
  <2>3. Trimmed(q, q, b, L, 0)
    BY <2>2 DEF Trimmed
  <2>4. RunendOf(q, b) = RunendOf(q, b) - 0
    BY <1>1
  <2>5. len - len = 0 /\ len > 0
    BY <1>1
  <2>6. Shortened(q, q, b, L, len - len)
    BY <2>1, <2>3, <2>4, <2>5 DEF Shortened
  <2>7. a.runends = LoopRunends(q, b, i, len, len, q.runends)
    BY <1>2, <1>5, <1>12, <2>5 DEF LoopRunends
  <2>8. \E p : Shortened(q, p, b, L, len - len) /\ a.runends = LoopRunends(q, b, i, len, len, p.runends)
    BY <2>6, <2>7
  <2> QED
    BY <1>5, <2>8 DEF InLoop
<1> QED
  BY <1>2, <1>4, <1>9, <1>10, <1>11, <1>12

\* All turns of a removal that leaves bucket b a run.
LEMMA AllTurns ==
    ASSUME NEW q, Paired(q), NEW b, NEW i, NEW len, Removing(q, b, i, len),
           RunFirst(q, b) < RunendOf(q, b), NEW L, Cluster(q, b, L),
           NEW a, InLoop(q, b, i, len, L, len, a), NEW g, Turns(a, b, i, len, len, g)
    PROVE  InLoop(q, b, i, len, L, 0, g[len])
<1>1. len \in Nat /\ i \in Int /\ b \in q.occupieds
  BY DEF Removing
<1>2. L \in Int /\ b <= L
  <2>1. RunendOf(q, b) \in Int /\ b \in Int /\ b <= RunendOf(q, b)
    <3>1. RunendOf(q, b) \in Slots /\ LastUsed(q, b) = RunendOf(q, b) /\ LastUsed(q, b) >= b /\ b \in Int
      BY <1>1, OwnRun, OwnRunend
    <3> QED
      BY <3>1 DEF Slots
  <2>2. L \in Int /\ RunendOf(q, b) <= L
    BY DEF Cluster, Slots
  <2> QED
    BY <2>1, <2>2
<1>3. g = [k \in 0 .. len |-> IF k = 0 THEN a ELSE LoopStep(b, i, len, g[k - 1], k)]
  BY DEF Turns
<1>4. g[0] = a
  BY <1>1, <1>3
<1>5. ASSUME NEW k \in 1 .. len, InLoop(q, b, i, len, L, len - (k - 1), g[k - 1])
      PROVE  InLoop(q, b, i, len, L, len - k, g[k])
  <2>1. PICK left \in 1 .. len : left = len - k + 1 /\ left = len - (k - 1) /\ left - 1 = len - k
    BY <1>1
  <2>2. g[k] = LoopStep(b, i, len, g[k - 1], k)
    <3> DEFINE step(n) == IF n = 0 THEN a ELSE LoopStep(b, i, len, g[n - 1], n)
    <3>1. g = [n \in 0 .. len |-> step(n)]
      BY <1>3
    <3>2. k \in 0 .. len /\ k # 0
      BY <1>1
    <3>3. step(k) = LoopStep(b, i, len, g[k - 1], k)
      BY <3>2
    <3> HIDE DEF step
    <3> QED
      BY <3>1, <3>2, <3>3
  <2>3. g[k] = RemoveSlot(g[k - 1], i, ClusterEnd(g[k - 1], b, i + left - 1))
    BY <2>1, <2>2 DEF LoopStep
  <2>4. InLoop(q, b, i, len, L, left, g[k - 1])
    BY <1>5, <2>1
  <2>5. InLoop(q, b, i, len, L, left - 1, RemoveSlot(g[k - 1], i, ClusterEnd(g[k - 1], b, i + left - 1)))
    BY <1>2, <2>4, LoopTurn
  <2> QED
    BY <2>1, <2>3, <2>5
<1> DEFINE Missing == {k \in 0 .. len : ~ InLoop(q, b, i, len, L, len - k, g[k])}
<1>6. ASSUME Missing # {} PROVE FALSE
  <2>1. Missing \in SUBSET Nat
    BY <1>1
  <2>2. PICK m \in Missing : \A j \in Missing : m <= j
    BY <1>6, <2>1, LeastNatural
  <2>3. m # 0
    <3>1. len - 0 = len
      BY <1>1
    <3> QED
      BY <1>4, <2>2, <3>1
  <2>4. m \in 1 .. len /\ m - 1 \in 0 .. len /\ ~ (m <= m - 1)
    BY <1>1, <2>2, <2>3
  <2>5. InLoop(q, b, i, len, L, len - (m - 1), g[m - 1])
    BY <2>2, <2>4
  <2>6. InLoop(q, b, i, len, L, len - m, g[m])
    BY <1>5, <2>4, <2>5
  <2> QED
    BY <2>2, <2>6
<1>7. len \in 0 .. len /\ len - len = 0
  BY <1>1
<1>8. InLoop(q, b, i, len, L, len - len, g[len])
  BY <1>6, <1>7
<1> QED
  BY <1>7, <1>8

\* The table the loop leaves: without bucket b when its only slot went.
Cleared(only, b, p) == IF only THEN [p EXCEPT !.occupieds = @ \ {b}] ELSE p

LEMMA LoopTrims ==
    ASSUME NEW q, Paired(q), DOMAIN q = Fields, NEW b, NEW i, NEW len, Removing(q, b, i, len),
           NEW only, only <=> RunFirst(q, b) = RunendOf(q, b),
           NEW a, a = LoopStart(q, only, i, len), NEW L, L = ClusterEnd(a, b, i + len - 1),
           NEW g, Turns(a, b, i, len, len, g), NEW c, c = Cleared(only, b, g[len])
    PROVE  /\ L \in Slots /\ b \in Slots /\ b <= L /\ Trimmed(q, c, b, L, len)
           /\ c.offset = q.offset /\ c.noccupied_slots = q.noccupied_slots /\ DOMAIN c = Fields
<1>1. /\ b \in q.occupieds /\ i \in Int /\ len \in Nat \ {0} /\ b \in Slots
      /\ RunendOf(q, b) \in Slots /\ RunFirst(q, b) \in Nat /\ RunFirst(q, b) <= RunendOf(q, b)
      /\ b <= RunendOf(q, b)
  <2>1. b \in q.occupieds
    BY DEF Removing
  <2>2. /\ b \in Slots /\ RunFirst(q, b) \in Nat /\ RunendOf(q, b) \in Slots /\ RunFirst(q, b) <= RunendOf(q, b)
        /\ RunFirst(q, b) >= b
    BY <2>1, OwnRun
  <2> QED
    BY <2>1, <2>2 DEF Removing, Slots
<1>2. /\ Cluster(q, b, L)
      /\ only => len = 1 /\ i = RunendOf(q, b) /\ i \in q.runends /\ a = q
      /\ ~ only => InLoop(q, b, i, len, L, len, a)
  BY FirstTurn
<1>3. L \in Slots /\ b <= L
  <2>1. L \in Slots /\ RunendOf(q, b) <= L
    BY <1>2 DEF Cluster
  <2> QED
    BY <1>1, <2>1 DEF Slots
<1>4. CASE ~ only
  <2>1. RunFirst(q, b) < RunendOf(q, b)
    BY <1>1, <1>4 DEF Slots
  <2>2. InLoop(q, b, i, len, L, 0, g[len])
    BY <1>2, <1>4, <2>1, AllTurns
  <2>3. c = g[len]
    BY <1>4 DEF Cleared
  <2>4. PICK p : /\ Shortened(q, p, b, L, len - 0)
                 /\ c.runends = LoopRunends(q, b, i, len, 0, p.runends)
    BY <2>2, <2>3 DEF InLoop
  <2>5. SameRuns(p, c)
    <3>1. c.occupieds = q.occupieds
      BY <2>2, <2>3 DEF InLoop
    <3> QED
      BY <2>4, <3>1 DEF LoopRunends, Shortened, SameRuns
  <2>6. /\ \A z : LastUsed(c, z) = LastUsed(p, z)
        /\ UsedSlots(c) = UsedSlots(p) /\ (Paired(p) => Paired(c))
    BY <2>5, SameReading
  <2>7. len - 0 = len
    BY <1>1
  <2>8. Trimmed(q, c, b, L, len)
    BY <2>4, <2>6, <2>7 DEF Shortened, Trimmed
  <2> QED
    BY <1>1, <1>3, <2>2, <2>3, <2>8 DEF InLoop
<1>5. CASE only
  <2>1. /\ len = 1 /\ i = RunendOf(q, b) /\ i \in q.runends /\ a = q
        /\ RunFirst(q, b) = i
    BY <1>2, <1>5
  <2>2. g[1] = RemoveSlot(q, i, L)
    <3>1. g[1] = LoopStep(b, i, 1, g[0], 1) /\ g[0] = q
      <4> DEFINE step(n) == IF n = 0 THEN q ELSE LoopStep(b, i, 1, g[n - 1], n)
      <4>1. g = [n \in 0 .. 1 |-> step(n)]
        BY <2>1 DEF Turns
      <4>2. step(0) = q /\ step(1) = LoopStep(b, i, 1, g[0], 1)
        OBVIOUS
      <4> HIDE DEF step
      <4> QED
        BY <4>1, <4>2
    <3>2. i + (1 - 1 + 1) - 1 = i + len - 1
      BY <1>1, <2>1
    <3> QED
      BY <2>1, <3>1, <3>2 DEF LoopStep
  <2>3. PICK p : p = RemoveSlot(q, i, L) /\ p = g[len]
    BY <2>1, <2>2
  <2>4. /\ p.runends = TurnRunends(q.runends, i, L) /\ p.occupieds = q.occupieds
        /\ p.offset = q.offset /\ p.noccupied_slots = q.noccupied_slots /\ DOMAIN p = Fields
    BY <2>3, RemoveSlotFields
  <2>5. /\ c.runends = p.runends /\ c.occupieds = q.occupieds \ {b}
        /\ c.offset = q.offset /\ c.noccupied_slots = q.noccupied_slots /\ DOMAIN c = Fields
    <3>1. c = [p EXCEPT !.occupieds = @ \ {b}]
      BY <1>5, <2>3 DEF Cleared
    <3> QED
      BY <2>4, <3>1 DEF Fields
  <2>6. c.runends = MovedDown(q.runends \ {i}, i + 1, L)
    <3>1. PICK S : S = q.runends
      OBVIOUS
    <3>2. S \subseteq Int /\ L \in Int /\ i <= L
      <4>1. L \in Int /\ i <= L
        <5>1. L \in Int
          BY <1>3 DEF Slots
        <5>2. RunendOf(q, b) <= L
          BY <1>2 DEF Cluster
        <5> QED
          BY <2>1, <5>1, <5>2
      <4>2. S \subseteq Int
        BY <3>1, TableSets DEF IntegerSet
      <4> QED
        BY <4>1, <4>2
    <3>3. TurnRunends(S, i, L) = WithoutEnd(S, i, L)
      BY <1>1, <3>2, TurnRunendsAre
    <3> QED
      BY <2>4, <2>5, <3>1, <3>3 DEF WithoutEnd
  <2>7. TurnCounts(q, c, b, i, L, 1)
    BY <1>1, <1>2, <2>1, <2>5, <2>6, LostRunCounts
  <2>8. Turn(q, b, i, L, 1)
    BY <1>1, <1>2, <2>1 DEF Turn
  <2>9. b \notin c.occupieds
    BY <2>5
  <2>10. /\ Paired(c) /\ Cardinality(UsedSlots(q)) = Cardinality(UsedSlots(c)) + len
    <3>1. 1 = 1 => b \notin c.occupieds
      BY <2>9
    <3>2. Paired(c) /\ Cardinality(UsedSlots(q)) = Cardinality(UsedSlots(c)) + 1
      BY <1>1, <2>7, <2>8, <3>1, TurnPairs
    <3> QED
      BY <2>1, <3>2
  <2>11. \A e \in q.runends : e < i => e \in c.runends
    <3>1. \A e \in q.runends : e \in Int
      BY TableSets DEF IntegerSet
    <3>2. ASSUME NEW e \in q.runends, e < i PROVE e \in c.runends
      <4>1. e \in q.runends \ {i} /\ e = IF i + 1 <= e /\ e <= L THEN e - 1 ELSE e
        BY <1>1, <3>1, <3>2
      <4> QED
        BY <2>6, <4>1 DEF MovedDown
    <3> QED
      BY <3>2
  <2>12. /\ \A z \in Int : z < b => LastUsed(c, z) = LastUsed(q, z)
         /\ \A z, y \in Int : z >= L /\ y >= L => (LastUsed(c, z) <= y <=> LastUsed(q, z) <= y)
    BY <1>1, <2>7, <2>8, <2>9, <2>11, TurnReads
  <2>13. Trimmed(q, c, b, L, len)
    BY <2>10, <2>12 DEF Trimmed
  <2> QED
    BY <1>1, <1>3, <2>5, <2>13
<1> QED
  BY <1>4, <1>5


(***************************************************************************)
(* The offsets after the loop.                                             *)
(***************************************************************************)

MendStep(p, k) ==
    [p EXCEPT !.offset[k] = Min({RunEnd(p, BlockStart(k) - 1) - (BlockStart(k) - 1), MaxOffset})]

Mends(c, first, last, g) ==
    g = [k \in first .. last |-> IF k = first THEN c ELSE MendStep(g[k - 1], k)]

LEMMA MendsExist ==
    ASSUME NEW c, NEW first \in Nat, NEW last \in Nat, first <= last
    PROVE  \E g : Mends(c, first, last, g)
<1> DEFINE Missing == {n \in Nat : ~ \E g : Mends(c, first, first + n, g)}
<1>1. 0 \notin Missing
  <2> DEFINE g == [k \in first .. first |-> c]
  <2>1. g = [k \in first .. first + 0 |-> IF k = first THEN c ELSE MendStep(g[k - 1], k)]
    <3>1. first + 0 = first /\ \A k \in first .. first : k = first
      OBVIOUS
    <3> QED
      BY <3>1
  <2> HIDE DEF g
  <2>2. Mends(c, first, first + 0, g)
    BY <2>1 DEF Mends
  <2> QED
    BY <2>2
<1>2. ASSUME NEW n \in Nat, n \notin Missing PROVE n + 1 \notin Missing
  <2>1. PICK m \in Nat : m = first + n /\ m + 1 = first + (n + 1) /\ first <= m
    OBVIOUS
  <2>2. PICK g : Mends(c, first, m, g)
    BY <1>2, <2>1
  <2>3. g = [k \in first .. m |-> IF k = first THEN c ELSE MendStep(g[k - 1], k)]
    BY <2>2 DEF Mends
  <2> DEFINE h == [k \in first .. m + 1 |-> IF k <= m THEN g[k] ELSE MendStep(g[m], m + 1)]
  <2>4. \A k \in first .. m : h[k] = g[k]
    OBVIOUS
  <2>5. h[m + 1] = MendStep(g[m], m + 1)
    <3>1. m + 1 \in first .. m + 1 /\ ~ (m + 1 <= m)
      BY <2>1
    <3> QED
      BY <3>1
  <2>6. h = [k \in first .. m + 1 |-> h[k]]
    OBVIOUS
  <2> HIDE DEF h
  <2>7. ASSUME NEW k \in first .. m + 1 PROVE h[k] = IF k = first THEN c ELSE MendStep(h[k - 1], k)
    <3>1. CASE k \in first .. m
      <4>1. g[k] = IF k = first THEN c ELSE MendStep(g[k - 1], k)
        BY <2>3, <3>1
      <4>2. k # first => k - 1 \in first .. m
        BY <3>1
      <4> QED
        BY <2>4, <3>1, <4>1, <4>2
    <3>2. CASE k = m + 1
      <4>1. k # first /\ k - 1 = m /\ m \in first .. m
        BY <2>1, <3>2
      <4> QED
        BY <2>4, <2>5, <3>2, <4>1
    <3> QED
      BY <3>1, <3>2
  <2>8. h = [k \in first .. m + 1 |-> IF k = first THEN c ELSE MendStep(h[k - 1], k)]
    BY <2>6, <2>7
  <2>9. Mends(c, first, first + (n + 1), h)
    BY <2>1, <2>8 DEF Mends
  <2> QED
    BY <2>9
<1>3. ASSUME Missing # {} PROVE FALSE
  <2>1. PICK m \in Missing : \A j \in Missing : m <= j
    BY <1>3, LeastNatural
  <2>2. PICK j \in Nat : m = j + 1 /\ ~ (m <= j)
    BY <1>1, <2>1
  <2>3. j \notin Missing
    BY <2>1, <2>2
  <2> HIDE DEF Missing
  <2> QED
    BY <1>2, <2>1, <2>2, <2>3
<1>4. PICK n \in Nat : first + n = last
  <2>1. last - first \in Nat /\ first + (last - first) = last
    OBVIOUS
  <2> QED
    BY <2>1
<1> QED
  BY <1>3, <1>4

LEMMA MendStepFields ==
    ASSUME NEW p, DOMAIN p = Fields, DOMAIN p.offset = 0 .. NBlocks - 1, NEW k \in 0 .. NBlocks - 1
    PROVE  /\ MendStep(p, k).occupieds = p.occupieds /\ MendStep(p, k).runends = p.runends
           /\ MendStep(p, k).noccupied_slots = p.noccupied_slots
           /\ DOMAIN MendStep(p, k) = Fields /\ DOMAIN MendStep(p, k).offset = 0 .. NBlocks - 1
           /\ MendStep(p, k).offset[k] = Min({RunEnd(p, BlockStart(k) - 1) - (BlockStart(k) - 1), MaxOffset})
           /\ \A j \in 0 .. NBlocks - 1 : j # k => MendStep(p, k).offset[j] = p.offset[j]
<1>1. PICK v : v = Min({RunEnd(p, BlockStart(k) - 1) - (BlockStart(k) - 1), MaxOffset})
  OBVIOUS
<1>2. PICK r : r = MendStep(p, k)
  OBVIOUS
<1>3. r = [p EXCEPT !.offset = [p.offset EXCEPT ![k] = v]]
  BY <1>1, <1>2 DEF MendStep
<1>4. r.offset = [p.offset EXCEPT ![k] = v]
  BY <1>3 DEF Fields
<1>5. /\ r.occupieds = p.occupieds /\ r.runends = p.runends
      /\ r.noccupied_slots = p.noccupied_slots /\ DOMAIN r = Fields
  BY <1>3 DEF Fields
<1> QED
  BY <1>1, <1>2, <1>4, <1>5

\* A block whose offset is recomputed from exact ones before it gets its spill.
LEMMA BlockMended ==
    ASSUME NEW p, Paired(p), NEW k \in 1 .. NBlocks - 1, OffsetsCutTo(p, k - 1)
    PROVE  RunEnd(p, BlockStart(k) - 1) - (BlockStart(k) - 1) = Spill(p, k)
<1>1. PICK w \in Slots : w = BlockStart(k) - 1 /\ BlockOf(w) = k - 1
  BY BlockStarts
<1>2. PICK base \in Int : base = BlockStart(k) /\ w = base - 1
  <2>1. BlockStart(k) \in Slots
    BY BlockStarts
  <2> QED
    BY <1>1, <2>1 DEF Slots
<1>3. w \in Int /\ w >= -1 /\ k \in 0 .. NBlocks - 1
  BY <1>1 DEF Slots
<1>4. RunEnd(p, w) = EndOfRuns(p, w)
  BY <1>1, RunEndExactTo
<1>5. EndOfRuns(p, w) = (IF w >= LastUsed(p, w) THEN w ELSE LastUsed(p, w)) /\ LastUsed(p, w) \in Int
  BY <1>3, EndOfRunsIs
<1>6. Spill(p, k) = (IF LastUsed(p, w) < base THEN 0 ELSE LastUsed(p, w) - base + 1)
  BY <1>2, <1>3, SpillEnd
<1> QED
  BY <1>1, <1>2, <1>3, <1>4, <1>5, <1>6

\* Blocks that start up to bucket b, and those that start behind the cluster,
\* keep their spill.
LEMMA SpillsKept ==
    ASSUME NEW q, Paired(q), NEW b \in Slots, NEW L \in Slots, b <= L, NEW n, NEW c, Trimmed(q, c, b, L, n),
           NEW k \in 0 .. NBlocks - 1, k <= BlockOf(b) \/ k > BlockOf(L)
    PROVE  Spill(c, k) = Spill(q, k)
<1>1. PICK base, w \in Int : base = BlockStart(k) /\ w = base - 1
  <2>1. BlockStart(k) \in Slots
    BY BlockStarts
  <2> QED
    BY <2>1 DEF Slots
<1>2. Paired(c) /\ b \in Int /\ L \in Int
  BY DEF Trimmed, Slots
<1>3. /\ Spill(q, k) = (IF LastUsed(q, w) < base THEN 0 ELSE LastUsed(q, w) - base + 1)
      /\ Spill(c, k) = (IF LastUsed(c, w) < base THEN 0 ELSE LastUsed(c, w) - base + 1)
  BY <1>1, <1>2, SpillEnd
<1>4. LastUsed(q, w) \in Int /\ LastUsed(c, w) \in Int
  BY <1>1, <1>2, LastUsedGrows
<1>5. CASE k <= BlockOf(b)
  <2>1. BlockStart(BlockOf(b)) <= b /\ BlockOf(b) \in 0 .. NBlocks - 1
    BY SlotInBlock
  <2>2. BlockStart(k) <= BlockStart(BlockOf(b))
    <3>1. k = BlockOf(b) \/ k < BlockOf(b)
      BY <1>5, <2>1
    <3> QED
      BY <1>1, <1>5, <2>1, GeometryAssumption DEF BlockStart
  <2>3. w < b
    <3>1. PICK m \in Int : m = BlockStart(BlockOf(b))
      BY <2>1, SlotInBlock DEF Slots
    <3> QED
      BY <1>1, <1>2, <2>1, <2>2, <3>1
  <2>4. LastUsed(c, w) = LastUsed(q, w)
    BY <1>1, <2>3 DEF Trimmed
  <2> QED
    BY <1>3, <2>4
<1>6. CASE k > BlockOf(L)
  <2>1. /\ BlockOf(L) \in 0 .. NBlocks - 1 /\ L < BlockStart(BlockOf(L)) + SlotsPerBlock
        /\ BlockStart(BlockOf(L)) \in Slots
    BY SlotInBlock
  <2>2. BlockStart(BlockOf(L)) + SlotsPerBlock <= base
    <3>1. PICK m \in Nat, d \in Nat : m = BlockOf(L) /\ d = SlotsPerBlock
      BY <2>1, GeometryAssumption
    <3>2. k >= m + 1 /\ k \in Nat
      BY <1>6, <2>1, <3>1
    <3>3. PICK j \in Nat : k = m + 1 + j
      <4>1. k - (m + 1) \in Nat /\ k = m + 1 + (k - (m + 1))
        BY <3>2
      <4> QED
        BY <4>1
    <3>4. k * d = m * d + d + j * d /\ j * d \in Nat /\ m * d \in Nat
      BY <3>3
    <3> QED
      BY <1>1, <3>1, <3>4 DEF BlockStart
  <2>3. w >= L /\ w + 1 = base
    <3>1. PICK m, d \in Int : m = BlockStart(BlockOf(L)) /\ d = SlotsPerBlock
      BY <2>1, GeometryAssumption DEF Slots
    <3> QED
      BY <1>1, <1>2, <2>1, <2>2, <3>1
  <2>4. \A y \in Int : y >= L => (LastUsed(c, w) <= y <=> LastUsed(q, w) <= y)
    BY <1>1, <2>3 DEF Trimmed
  <2>5. PICK x, z \in Int : x = LastUsed(c, w) /\ z = LastUsed(q, w)
    BY <1>4
  <2>6. x < base <=> z < base
    BY <1>1, <1>2, <2>3, <2>4, <2>5
  <2>7. x >= base /\ z >= base => x = z
    <3>1. x >= base /\ z >= base => x >= L /\ z >= L
      BY <1>1, <1>2, <2>3
    <3>2. x >= L /\ z >= L => (x <= z <=> z <= z) /\ (x <= x <=> z <= x)
      BY <2>4, <2>5
    <3> QED
      BY <2>5, <3>1, <3>2
  <2> QED
    BY <1>1, <1>3, <2>5, <2>6, <2>7
<1> QED
  BY <1>5, <1>6

\* A table in which the offsets of the blocks up to k are mended.
Mended(q, c, first, k, p) ==
    /\ p.occupieds = c.occupieds /\ p.runends = c.runends /\ p.noccupied_slots = c.noccupied_slots
    /\ DOMAIN p = Fields /\ DOMAIN p.offset = 0 .. NBlocks - 1
    /\ \A j \in 0 .. NBlocks - 1 :
         p.offset[j] = IF first < j /\ j <= k THEN Min({MaxOffset, Spill(c, j)}) ELSE q.offset[j]

LEMMA MendingStep ==
    ASSUME NEW q, NEW c, Paired(c), NEW first \in Nat, NEW k \in 1 .. NBlocks - 1, first < k,
           \A j \in 0 .. first : q.offset[j] = Min({MaxOffset, Spill(c, j)}),
           NEW p, Mended(q, c, first, k - 1, p)
    PROVE  Mended(q, c, first, k, MendStep(p, k))
<1>0. NBlocks \in Nat /\ k \in Int /\ k \in 0 .. NBlocks - 1 /\ MaxOffset \in Nat
  BY BlocksReach, GeometryAssumption
<1>1. /\ SameRuns(c, p) /\ DOMAIN p = Fields /\ DOMAIN p.offset = 0 .. NBlocks - 1
      /\ \A j \in 0 .. NBlocks - 1 :
           p.offset[j] = IF first < j /\ j <= k - 1 THEN Min({MaxOffset, Spill(c, j)}) ELSE q.offset[j]
  BY DEF Mended, SameRuns
<1>2. Paired(p) /\ \A j : Spill(p, j) = Spill(c, j)
  BY <1>1, SameReading
<1>3. OffsetsCutTo(p, k - 1)
  <2>1. ASSUME NEW j \in 0 .. k - 1 PROVE p.offset[j] = Min({MaxOffset, Spill(p, j)})
    <3>1. j \in 0 .. NBlocks - 1 /\ j <= k - 1 /\ (first < j \/ j \in 0 .. first)
      BY <1>0
    <3>2. p.offset[j] = Min({MaxOffset, Spill(c, j)})
      <4>1. CASE first < j
        BY <1>1, <3>1, <4>1
      <4>2. CASE ~ (first < j)
        <5>1. p.offset[j] = q.offset[j]
          BY <1>1, <3>1, <4>2
        <5> QED
          BY <3>1, <4>2, <5>1
      <4> QED
        BY <4>1, <4>2
    <3> QED
      BY <1>2, <3>2
  <2> QED
    BY <2>1 DEF OffsetsCutTo
<1>4. RunEnd(p, BlockStart(k) - 1) - (BlockStart(k) - 1) = Spill(c, k)
  BY <1>2, <1>3, BlockMended
<1>5. PICK r : r = MendStep(p, k)
  OBVIOUS
<1>6. /\ r.occupieds = p.occupieds /\ r.runends = p.runends /\ r.noccupied_slots = p.noccupied_slots
      /\ DOMAIN r = Fields /\ DOMAIN r.offset = 0 .. NBlocks - 1
      /\ r.offset[k] = Min({Spill(c, k), MaxOffset})
      /\ \A j \in 0 .. NBlocks - 1 : j # k => r.offset[j] = p.offset[j]
  <2>1. /\ r.occupieds = p.occupieds /\ r.runends = p.runends /\ r.noccupied_slots = p.noccupied_slots
        /\ DOMAIN r = Fields /\ DOMAIN r.offset = 0 .. NBlocks - 1
        /\ r.offset[k] = Min({RunEnd(p, BlockStart(k) - 1) - (BlockStart(k) - 1), MaxOffset})
    BY <1>0, <1>1, <1>5, MendStepFields
  <2>2. \A j \in 0 .. NBlocks - 1 : j # k => r.offset[j] = p.offset[j]
    BY <1>0, <1>1, <1>5, MendStepFields
  <2> QED
    BY <1>4, <2>1, <2>2
<1>7. ASSUME NEW j \in 0 .. NBlocks - 1
      PROVE  r.offset[j] = IF first < j /\ j <= k THEN Min({MaxOffset, Spill(c, j)}) ELSE q.offset[j]
  <2>1. CASE j = k
    <3>1. {Spill(c, k), MaxOffset} = {MaxOffset, Spill(c, k)}
      OBVIOUS
    <3>2. first < j /\ j <= k
      BY <1>0, <2>1
    <3> QED
      BY <1>6, <2>1, <3>1, <3>2
  <2>2. CASE j # k
    <3>1. j <= k <=> j <= k - 1
      BY <1>0, <2>2
    <3> QED
      BY <1>1, <1>6, <2>2, <3>1
  <2> QED
    BY <2>1, <2>2
<1>8. /\ r.occupieds = c.occupieds /\ r.runends = c.runends /\ r.noccupied_slots = c.noccupied_slots
  BY <1>1, <1>6 DEF Mended, SameRuns
<1> QED
  BY <1>5, <1>6, <1>7, <1>8 DEF Mended

LEMMA OffsetsRecomputed ==
    ASSUME NEW q, Paired(q), OffsetsCut(q), DOMAIN q.offset = 0 .. NBlocks - 1,
           NEW b \in Slots, NEW L \in Slots, b <= L, NEW n, NEW c, Trimmed(q, c, b, L, n),
           c.offset = q.offset, DOMAIN c = Fields
    PROVE  /\ OffsetsCut(RecomputeOffsets(c, b, L)) /\ SameRuns(c, RecomputeOffsets(c, b, L))
           /\ RecomputeOffsets(c, b, L).noccupied_slots = c.noccupied_slots
           /\ DOMAIN RecomputeOffsets(c, b, L) = Fields
<1>1. PICK first, last \in 0 .. NBlocks - 1 : first = BlockOf(b) /\ last = BlockOf(L) /\ first <= last
  <2>1. /\ BlockOf(b) \in 0 .. NBlocks - 1 /\ BlockStart(BlockOf(b)) <= b
        /\ BlockOf(L) \in 0 .. NBlocks - 1 /\ L < BlockStart(BlockOf(L)) + SlotsPerBlock
    BY SlotInBlock
  <2>2. PICK f, l \in Nat, d \in Nat \ {0} : f = BlockOf(b) /\ l = BlockOf(L) /\ d = SlotsPerBlock
    BY <2>1, GeometryAssumption
  <2>3. f * d <= b /\ L < l * d + d /\ b \in Int /\ L \in Int
    BY <2>1, <2>2 DEF BlockStart, Slots
  <2>4. ~ (f > l)
    <3>1. ASSUME f > l PROVE FALSE
      <4>1. PICK j \in Nat : f = l + 1 + j
        <5>1. f - (l + 1) \in Nat /\ f = l + 1 + (f - (l + 1))
          BY <3>1
        <5> QED
          BY <5>1
      <4>2. f * d = l * d + d + j * d /\ j * d \in Nat /\ l * d \in Nat
        BY <4>1
      <4> QED
        BY <2>3, <4>2
    <3> QED
      BY <3>1
  <2> QED
    BY <2>1, <2>2, <2>4
<1>2. NBlocks \in Nat /\ first \in Nat /\ last \in Nat
  BY BlocksReach
<1>3. PICK h : Mends(c, first, last, h)
  BY <1>1, <1>2, MendsExist
<1> DEFINE g == CHOOSE f : Mends(c, first, last, f)
<1>4. Mends(c, first, last, g)
  BY <1>3
<1>5. RecomputeOffsets(c, b, L) = g[last]
  BY <1>1 DEF RecomputeOffsets, Mends, MendStep
<1> HIDE DEF g
<1>6. g[first] = c /\ \A k \in first + 1 .. last : g[k] = MendStep(g[k - 1], k)
  <2> DEFINE step(k) == IF k = first THEN c ELSE MendStep(g[k - 1], k)
  <2>1. g = [k \in first .. last |-> step(k)]
    BY <1>4 DEF Mends
  <2>2. step(first) = c /\ \A k \in first + 1 .. last : step(k) = MendStep(g[k - 1], k) /\ k \in first .. last
    BY <1>2
  <2>3. first \in first .. last
    BY <1>1, <1>2
  <2> HIDE DEF step
  <2> QED
    BY <2>1, <2>2, <2>3
<1>7. Paired(c)
  BY DEF Trimmed
<1>8. ASSUME NEW j \in 0 .. NBlocks - 1, j <= first \/ j > last
      PROVE  q.offset[j] = Min({MaxOffset, Spill(c, j)})
  <2>1. Spill(c, j) = Spill(q, j)
    BY <1>1, <1>8, SpillsKept
  <2> QED
    BY <2>1 DEF OffsetsCut, OffsetsCutTo
<1>9. \A j \in 0 .. first : q.offset[j] = Min({MaxOffset, Spill(c, j)})
  <2>1. \A j \in 0 .. first : j \in 0 .. NBlocks - 1 /\ j <= first
    BY <1>1, <1>2
  <2> QED
    BY <1>8, <2>1
<1> DEFINE Missing == {k \in first .. last : ~ Mended(q, c, first, k, g[k])}
<1>10. ASSUME Missing # {} PROVE FALSE
  <2>1. Missing \in SUBSET Nat
    BY <1>2
  <2>2. PICK m \in Missing : \A j \in Missing : m <= j
    BY <1>10, <2>1, LeastNatural
  <2>3. m # first
    <3>1. Mended(q, c, first, first, c)
      <4>1. \A j \in 0 .. NBlocks - 1 : ~ (first < j /\ j <= first)
        BY <1>2
      <4> QED
        BY <4>1 DEF Mended
    <3> QED
      BY <1>6, <2>2, <3>1
  <2>4. /\ m \in first + 1 .. last /\ m - 1 \in first .. last /\ ~ (m <= m - 1)
        /\ m \in 1 .. NBlocks - 1 /\ first < m
    BY <1>1, <1>2, <2>2, <2>3
  <2>5. Mended(q, c, first, m - 1, g[m - 1])
    BY <2>2, <2>4
  <2>6. Mended(q, c, first, m, MendStep(g[m - 1], m))
    BY <1>2, <1>7, <1>9, <2>4, <2>5, MendingStep
  <2>7. Mended(q, c, first, m, g[m])
    BY <1>6, <2>4, <2>6
  <2> QED
    BY <2>2, <2>7
<1>11. PICK r : r = RecomputeOffsets(c, b, L) /\ Mended(q, c, first, last, r)
  <2>1. last \in first .. last
    BY <1>1, <1>2
  <2> QED
    BY <1>5, <1>10, <2>1
<1> HIDE DEF Missing
<1>12. /\ SameRuns(c, r) /\ r.noccupied_slots = c.noccupied_slots /\ DOMAIN r = Fields
       /\ \A j \in 0 .. NBlocks - 1 :
            r.offset[j] = IF first < j /\ j <= last THEN Min({MaxOffset, Spill(c, j)}) ELSE q.offset[j]
  BY <1>11 DEF Mended, SameRuns
<1>13. \A k : Spill(r, k) = Spill(c, k)
  BY <1>12, SameReading
<1>14. OffsetsCut(r)
  <2>1. ASSUME NEW j \in 0 .. NBlocks - 1 PROVE r.offset[j] = Min({MaxOffset, Spill(c, j)})
    <3>1. (first < j /\ j <= last) \/ j <= first \/ j > last
      BY <1>2
    <3>2. CASE first < j /\ j <= last
      BY <1>12, <3>2
    <3>3. CASE ~ (first < j /\ j <= last)
      BY <1>8, <1>12, <3>1, <3>3
    <3> QED
      BY <3>2, <3>3
  <2> QED
    BY <1>13, <2>1 DEF OffsetsCut, OffsetsCutTo
<1> QED
  BY <1>11, <1>12, <1>14

\* remove_slots_and_shift_remainders_and_runends_and_offsets keeps the metadata
\* accurate: the offsets it recomputes are the spills of the runs it moved, and
\* the slots it stops counting are no longer in use.
LEMMA RemoveSlotsAccurate ==
    ASSUME NEW q, Accurate(q), Shaped(q), q.noccupied_slots \in Nat,
           NEW b, NEW i, NEW len, Removing(q, b, i, len),
           NEW only, only <=> RunFirst(q, b) = RunendOf(q, b)
    PROVE  Accurate(RemoveSlots(q, only, b, i, len))
<1>1. Paired(q) /\ OffsetsCut(q) /\ DOMAIN q = Fields /\ DOMAIN q.offset = 0 .. NBlocks - 1
      /\ q.noccupied_slots = Cardinality(UsedSlots(q)) /\ len \in Nat
  BY DEF Accurate, Shaped, Removing
<1>2. PICK a : a = LoopStart(q, only, i, len)
  OBVIOUS
<1>3. PICK h : Turns(a, b, i, len, len, h)
  BY <1>1, TurnsExist
<1> DEFINE g == CHOOSE f : Turns(a, b, i, len, len, f)
<1>4. Turns(a, b, i, len, len, g)
  BY <1>3
<1> DEFINE L == ClusterEnd(a, b, i + len - 1)
           c == Cleared(only, b, g[len])
<1>5. RemoveSlots(q, only, b, i, len) = [RecomputeOffsets(c, b, L) EXCEPT !.noccupied_slots = @ - len]
  BY <1>2 DEF RemoveSlots, LoopStart, LoopStep, Turns, Cleared
<1> HIDE DEF g, L, c
<1>6. /\ L \in Slots /\ b \in Slots /\ b <= L /\ Trimmed(q, c, b, L, len)
      /\ c.offset = q.offset /\ c.noccupied_slots = q.noccupied_slots /\ DOMAIN c = Fields
  BY <1>1, <1>2, <1>4, LoopTrims DEF L, c
<1>7. PICK r : r = RecomputeOffsets(c, b, L)
  OBVIOUS
<1>8. OffsetsCut(r) /\ SameRuns(c, r) /\ r.noccupied_slots = c.noccupied_slots /\ DOMAIN r = Fields
  BY <1>1, <1>6, <1>7, OffsetsRecomputed
<1>9. PICK s : s = RemoveSlots(q, only, b, i, len) /\ s = [r EXCEPT !.noccupied_slots = @ - len]
  BY <1>5, <1>7
<1>10. /\ SameRuns(r, s) /\ s.offset = r.offset /\ s.noccupied_slots = r.noccupied_slots - len
  BY <1>8, <1>9 DEF Fields, SameRuns
<1>11. /\ UsedSlots(s) = UsedSlots(c) /\ Paired(s) /\ \A k : Spill(s, k) = Spill(r, k)
  BY <1>6, <1>8, <1>10, SameReading DEF Trimmed
<1>12. OffsetsCut(s)
  BY <1>8, <1>10, <1>11 DEF OffsetsCut, OffsetsCutTo
<1>13. s.noccupied_slots = Cardinality(UsedSlots(s))
  <2>1. Cardinality(UsedSlots(q)) = Cardinality(UsedSlots(c)) + len
    BY <1>6 DEF Trimmed
  <2>2. Cardinality(UsedSlots(c)) \in Nat
    <3>1. PICK n \in Int : n = EndOfBlocks - 1
      BY BlocksReach
    <3>2. UsedSlots(c) \in SUBSET (0 .. n)
      BY <1>6, <3>1, UsedInSlots DEF Slots, Trimmed
    <3> QED
      BY <3>1, <3>2, UpToEnds
  <2> QED
    BY <1>1, <1>6, <1>8, <1>10, <1>11, <2>1, <2>2
<1> QED
  BY <1>9, <1>11, <1>12, <1>13 DEF Accurate

(***************************************************************************)
(* Deleting.                                                               *)
(***************************************************************************)

\* One memento fewer.
LEMMA OneFewer ==
    ASSUME NEW S, NEW ms \in Seq(S), NEW m, Contains(ms, m)
    PROVE  RemoveFirst(ms, m) \in Seq(S) /\ Len(RemoveFirst(ms, m)) = Len(ms) - 1
<1>1. PICK n \in Nat : n = Len(ms) /\ n # 0
  BY DEF Contains
<1>2. PICK I : I = {i \in 1 .. n : ms[i] = m} /\ I # {}
  BY <1>1 DEF Contains
<1>3. PICK k \in 1 .. n : k = Min(I)
  <2>1. I \in SUBSET Nat /\ I \in SUBSET Int
    BY <1>2
  <2>2. PICK j \in I : \A i \in I : j <= i
    BY <1>2, <2>1, LeastNatural
  <2> QED
    BY <1>2, <2>1, <2>2, Least
<1>4. RemoveFirst(ms, m) = SubSeq(ms, 1, k - 1) \o SubSeq(ms, k + 1, n)
  <2>1. SelectInSeq(ms, LAMBDA v : v = m) = k
    BY <1>1, <1>2, <1>3 DEF SelectInSeq
  <2>2. \E i \in 1 .. Len(ms) : ms[i] = m
    BY DEF Contains
  <2> QED
    BY <1>1, <2>1, <2>2 DEF RemoveFirst, RemoveAt
<1>5. PICK s, t \in Seq(S) : /\ s = SubSeq(ms, 1, k - 1) /\ t = SubSeq(ms, k + 1, n)
                             /\ Len(s) = k - 1 /\ Len(t) = n - k
  <2>1. \A i \in 1 .. n : ms[i] \in S
    BY <1>1
  <2>2. SubSeq(ms, 1, k - 1) \in Seq(S) /\ Len(SubSeq(ms, 1, k - 1)) = k - 1
    <3>1. \A i \in 1 .. k - 1 : ms[i] \in S
      BY <2>1
    <3> QED
      BY <3>1, SubSeqProperties
  <2>3. SubSeq(ms, k + 1, n) \in Seq(S) /\ Len(SubSeq(ms, k + 1, n)) = n - k
    <3>1. \A i \in k + 1 .. n : ms[i] \in S
      BY <2>1
    <3> QED
      BY <3>1, SubSeqProperties
  <2> QED
    BY <2>2, <2>3
<1>6. PICK r : r = RemoveFirst(ms, m)
  OBVIOUS
<1>7. r \in Seq(S) /\ Len(r) = Len(s) + Len(t)
  <2>1. r = s \o t
    BY <1>4, <1>5, <1>6
  <2>2. s \o t \in Seq(S) /\ Len(s \o t) = Len(s) + Len(t)
    BY ConcatProperties
  <2> QED
    BY <2>1, <2>2
<1>8. Len(r) = Len(ms) - 1
  BY <1>1, <1>3, <1>5, <1>7
<1> QED
  BY <1>6, <1>7, <1>8

\* A counter is a sequence of digits, however many it takes.
LEMMA CounterIsSequence ==
    ASSUME NEW n
    PROVE  \E S : CounterSymbols(n) \in Seq(S)
<1>1. PICK D : D = {d \in 1 .. MaxDigits : n < MaxMemento^d} \cup {MaxDigits}
  OBVIOUS
<1>2. PICK d \in Nat \ {0} : d = Min(D)
  <2>1. D \in SUBSET Nat /\ D \in SUBSET Int /\ D # {} /\ 0 \notin D
    BY <1>1 DEF MaxDigits
  <2>2. PICK j \in D : \A i \in D : j <= i
    BY <2>1, LeastNatural
  <2> QED
    BY <2>1, <2>2, Least
<1> DEFINE digit(i) == (n \div MaxMemento^(i - 1)) % MaxMemento
           ahead == [i \in 1 .. d - 1 |-> MaxMemento]
           digits == [i \in 1 .. d |-> digit(i)]
           S == {MaxMemento} \cup {digit(i) : i \in 1 .. d}
<1>3. CounterSymbols(n) = ahead \o digits
  BY <1>1, <1>2 DEF CounterSymbols
<1>4. ahead \in Seq(S)
  OBVIOUS
<1>5. digits \in Seq(S)
  <2>1. \A i \in 1 .. d : digit(i) \in S
    OBVIOUS
  <2> HIDE DEF S, digit
  <2> QED
    BY <2>1
<1> HIDE DEF ahead, digits, S
<1>6. ahead \o digits \in Seq(S)
  BY <1>4, <1>5, ConcatProperties
<1> QED
  BY <1>3, <1>6

\* A box written anew has a slot whenever it has a memento.
LEMMA PrefixSetLength ==
    ASSUME NEW f, NEW M, NEW ms \in Seq(M)
    PROVE  /\ Len(PrefixSet(f, ms)) \in Nat
           /\ Len(ms) # 0 => Len(PrefixSet(f, ms)) # 0
<1>1. PICK n \in Nat : n = Len(ms)
  OBVIOUS
<1>2. CASE n <= 1 \/ f = 0
  <2>1. PrefixSet(f, ms) = [i \in 1 .. n |-> SlotOf(f, ms[i])]
    BY <1>1, <1>2 DEF PrefixSet
  <2>2. Len([i \in 1 .. n |-> SlotOf(f, ms[i])]) = n
    OBVIOUS
  <2> QED
    BY <1>1, <2>1, <2>2
<1>3. CASE ~ (n <= 1 \/ f = 0) /\ n = 2
  <2>1. PrefixSet(f, ms) = IF ms[1] # ms[2] THEN << SlotOf(f, ms[1]), ms[2] >> ELSE << SlotOf(f, ms[1]), ms[2], 0 >>
    BY <1>1, <1>3 DEF PrefixSet
  <2> QED
    BY <2>1
<1>4. CASE ~ (n <= 1 \/ f = 0) /\ n # 2
  <2>1. PICK ends, middle : /\ ends = << SlotOf(f, ms[n]), ms[1] >>
                            /\ middle = CounterSymbols(n - 2) \o SubSeq(ms, 2, n - 1)
    OBVIOUS
  <2>2. PICK packed : packed = Packed(middle) /\ PrefixSet(f, ms) = ends \o packed
    BY <1>1, <1>4, <2>1 DEF PrefixSet
  <2>3. Len(middle) \in Nat
    <3>1. PICK S : CounterSymbols(n - 2) \in Seq(S)
      BY CounterIsSequence
    <3>2. PICK A : A = S \cup M
      OBVIOUS
    <3>3. PICK s, t \in Seq(A) : s = CounterSymbols(n - 2) /\ t = SubSeq(ms, 2, n - 1)
      <4>1. CounterSymbols(n - 2) \in Seq(A)
        BY <3>1, <3>2
      <4>2. \A i \in 2 .. n - 1 : ms[i] \in A
        BY <1>1, <3>2
      <4>3. SubSeq(ms, 2, n - 1) \in Seq(A)
        BY <4>2, SubSeqProperties
      <4> QED
        BY <4>1, <4>3
    <3>4. s \o t \in Seq(A)
      BY ConcatProperties
    <3> QED
      BY <2>1, <3>3, <3>4
  <2>4. PICK k \in Nat : k = SlotsFor(Len(middle))
    BY <2>3, SlotsForGrows
  <2>5. PICK slot : packed = [j \in 1 .. k |-> slot[j]]
    <3> DEFINE bit(b) == IF b \div MementoBits < Len(middle)
                         THEN Bit(middle[b \div MementoBits + 1], b % MementoBits) ELSE 0
               word(j) == SumSet({bit((j - 1) * BitsPerSlot + i) * 2^i : i \in 0 .. BitsPerSlot - 1})
               slot == [j \in 1 .. k |-> word(j)]
    <3>1. packed = slot
      BY <2>2, <2>4 DEF Packed
    <3> HIDE DEF word
    <3>2. slot = [j \in 1 .. k |-> slot[j]]
      OBVIOUS
    <3> QED
      BY <3>1, <3>2
  <2>6. PICK A : packed \in Seq(A) /\ ends \in Seq(A) /\ Len(packed) = k /\ Len(ends) = 2
    <3>1. PICK A : A = {slot[j] : j \in 1 .. k} \cup {SlotOf(f, ms[n]), ms[1]}
      OBVIOUS
    <3>2. packed \in Seq(A) /\ Len(packed) = k
      BY <2>5, <3>1
    <3>3. ends \in Seq(A) /\ Len(ends) = 2
      BY <2>1, <3>1
    <3> QED
      BY <3>2, <3>3
  <2>7. Len(ends \o packed) = 2 + k
    <3>1. Len(ends \o packed) = Len(ends) + Len(packed)
      BY <2>6, ConcatProperties
    <3> QED
      BY <2>6, <3>1
  <2> QED
    BY <2>2, <2>7
<1> QED
  BY <1>2, <1>3, <1>4

\* A box that gives up slots keeps its first one, if it had more than one.
LEMMA BoxShrinks ==
    ASSUME NEW q, SlotsTyped(q), NEW p \in Nat, NEW m, Contains(BoxMementos(q, p), m),
           NEW removed, removed = RemoveMemento(q, p, m)
    PROVE  /\ \E slots : removed.qf = Write(q, p, slots)
           /\ removed.oldSlots = BoxLen(q, p) /\ removed.newSlots \in Nat
           /\ removed.newSlots = 0 => BoxLen(q, p) = 1
<1>1. PICK ms \in Seq(Mementos) : ms = BoxMementos(q, p)
  BY BoxMementosType
<1>2. PICK rest \in Seq(Mementos) : rest = RemoveFirst(ms, m) /\ Len(rest) = Len(ms) - 1
  BY <1>1, OneFewer
<1>3. PICK slots : slots = PrefixSet(FingerprintAt(q, p), rest)
  OBVIOUS
<1>4. Len(slots) \in Nat /\ (Len(rest) # 0 => Len(slots) # 0)
  BY <1>3, PrefixSetLength
<1>5. removed = [qf |-> Write(q, p, slots), oldSlots |-> BoxLen(q, p), newSlots |-> Len(slots)]
  BY <1>1, <1>2, <1>3 DEF RemoveMemento, ShrinkTo
<1>6. IsBox(q, p) => Len(ms) >= 2
  <2>1. CASE IsBox(q, p) /\ ~ HasList(q, p)
    <3>1. ms = << MementoAt(q, p), MementoAt(q, p + 1) >>
      BY <1>1, <2>1 DEF BoxMementos
    <3> QED
      BY <3>1
  <2>2. CASE IsBox(q, p) /\ HasList(q, p)
    <3>1. p + 2 \in Nat
      OBVIOUS
    <3>2. PICK t \in Seq(Mementos) : t = ListMementos(q, p + 2)
      BY <3>1, ListMementosType
    <3>3. PICK x, y \in Mementos : x = MementoAt(q, p) /\ y = MementoAt(q, p + 1)
      BY SlotParts
    <3>4. ms = << y >> \o t \o << x >>
      BY <1>1, <2>2, <3>2, <3>3 DEF BoxMementos
    <3>5. PICK h, l \in Seq(Mementos) : h = << y >> /\ l = << x >> /\ Len(h) = 1 /\ Len(l) = 1
      <4>1. << y >> \in Seq(Mementos) /\ << x >> \in Seq(Mementos)
        OBVIOUS
      <4>2. Len(<< y >>) = 1 /\ Len(<< x >>) = 1
        OBVIOUS
      <4> QED
        BY <4>1, <4>2
    <3>6. PICK u \in Seq(Mementos) : u = h \o t /\ Len(u) = 1 + Len(t)
      <4>1. h \o t \in Seq(Mementos) /\ Len(h \o t) = Len(h) + Len(t)
        BY ConcatProperties
      <4> QED
        BY <3>5, <4>1
    <3>7. Len(u \o l) = Len(u) + 1
      BY <3>5, ConcatProperties
    <3>8. ms = u \o l /\ Len(t) \in Nat
      BY <3>4, <3>5, <3>6
    <3> QED
      BY <3>6, <3>7, <3>8
  <2> QED
    BY <2>1, <2>2
<1>7. ~ IsBox(q, p) => BoxLen(q, p) = 1
  BY DEF BoxLen
<1>8. Len(slots) = 0 => BoxLen(q, p) = 1
  BY <1>2, <1>4, <1>6, <1>7
<1> QED
  BY <1>4, <1>5, <1>8

\* Giving up the slots a box no longer needs keeps the metadata accurate.
LEMMA WithoutSurplusAccurate ==
    ASSUME TypeOK, RunsWellFormed, OffsetsExact, SlotsAccounted, NEW b \in qf.occupieds,
           NEW p \in Nat, RunFirst(qf, b) <= p, p + BoxLen(qf, p) - 1 <= RunendOf(qf, b),
           NEW m, Contains(BoxMementos(qf, p), m)
    PROVE  Accurate(WithoutSurplus(b, p, RemoveMemento(qf, p, m)))
<1>1. Accurate(qf) /\ Shaped(qf) /\ SlotsTyped(qf) /\ Paired(qf) /\ OffsetsCut(qf)
  BY AccurateFilter DEF Accurate
<1>2. PICK removed : removed = RemoveMemento(qf, p, m)
  OBVIOUS
<1>3. PICK old \in Nat \ {0}, new \in Nat :
        /\ old = BoxLen(qf, p) /\ removed.oldSlots = old /\ removed.newSlots = new
        /\ new = 0 => old = 1
  BY <1>1, <1>2, BoxLenType, BoxShrinks
<1>4. PICK w : w = removed.qf /\ Accurate(w) /\ Shaped(w) /\ SameRuns(qf, w)
               /\ w.noccupied_slots = qf.noccupied_slots
  <2>1. PICK slots : removed.qf = Write(qf, p, slots)
    BY <1>1, <1>2, BoxShrinks
  <2>2. PICK w : w = Write(qf, p, slots)
    OBVIOUS
  <2>3. SameRuns(qf, w) /\ w.noccupied_slots = qf.noccupied_slots
    BY <1>1, <2>2 DEF Write, Shaped, Fields, SameRuns
  <2> QED
    BY <1>1, <2>1, <2>2, <2>3, WrittenAccurate
<1>5. PICK i \in Int : i = p + new
  OBVIOUS
<1>6. PICK only : only = IsRunend(w, RunStart(qf, b))
  OBVIOUS
<1>7. /\ RunFirst(w, b) = RunFirst(qf, b) /\ RunendOf(w, b) = RunendOf(qf, b)
      /\ RunFirst(qf, b) \in Nat /\ RunendOf(qf, b) \in Int /\ b \in w.occupieds
  <2>1. RunFirst(w, b) = RunFirst(qf, b) /\ RunendOf(w, b) = RunendOf(qf, b)
    BY <1>4, SameReading DEF RunFirst
  <2>2. RunFirst(qf, b) \in Nat /\ RunendOf(qf, b) \in Int
    BY <1>1, OwnRun DEF Slots
  <2> QED
    BY <1>4, <2>1, <2>2 DEF SameRuns
<1>8. only <=> RunFirst(w, b) = RunendOf(w, b)
  <2>1. RunStart(qf, b) = RunFirst(qf, b)
    BY <1>1, RunStartIs
  <2>2. only <=> RunFirst(qf, b) \in qf.runends
    BY <1>4, <1>6, <2>1 DEF IsRunend, SameRuns
  <2>3. /\ RunFirst(qf, b) > LastUsed(qf, b - 1) /\ RunFirst(qf, b) <= RunendOf(qf, b)
        /\ RunendOf(qf, b) \in qf.runends
        /\ RunFirst(qf, b) \in qf.runends => RunFirst(qf, b) >= RunendOf(qf, b)
    BY <1>1, OwnRun
  <2> QED
    BY <1>7, <2>2, <2>3
<1>9. CASE old - new > 0
  <2>1. PICK len \in Nat \ {0} : len = old - new
    BY <1>9
  <2>2. Removing(w, b, i, len)
    BY <1>3, <1>5, <1>7, <2>1 DEF Removing
  <2>3. w.noccupied_slots \in Nat
    BY <1>4 DEF TypeOK, Filters
  <2>4. Accurate(RemoveSlots(w, only, b, i, len))
    BY <1>4, <1>7, <1>8, <2>2, <2>3, RemoveSlotsAccurate
  <2> QED
    BY <1>2, <1>3, <1>4, <1>5, <1>6, <1>9, <2>1, <2>4 DEF WithoutSurplus
<1>10. CASE ~ (old - new > 0)
  BY <1>2, <1>3, <1>4, <1>10 DEF WithoutSurplus
<1> QED
  BY <1>9, <1>10

\* qf_delete_single, in an occupied bucket, leaves every block's offset the spill
\* it stands for and noccupied_slots the number of slots in use: whether the box
\* shrinks, the run or the whole cluster behind it moves up, or the bucket
\* becomes empty.
THEOREM DeletionsAccurate ==
    ASSUME TypeOK, RunsWellFormed, OffsetsExact, SlotsAccounted, NEW x \in KeyPrefixes,
           IsOccupied(qf, x[1]), NEW m \in KeyMementos, DeleteSingle(x[1], x[2], m)
    PROVE  OffsetsExact' /\ SlotsAccounted'
<1>1. PICK b \in qf.occupieds, f \in Nat : b = x[1] /\ f = x[2]
  BY FilterAssumption, FingerprintsCounted DEF IsOccupied
<1>2. PICK box : box = BoxToDeleteFrom(b, f, m)
  OBVIOUS
<1>3. DeleteFrom(b, box, m)
  BY <1>1, <1>2 DEF DeleteSingle
<1>4. CASE box = NoPos
  <2>1. qf' = qf
    BY <1>3, <1>4 DEF DeleteFrom, Return
  <2> QED
    BY <2>1, AccurateFilter, AccuracyStated
<1>5. CASE box # NoPos
  <2>1. PICK t \in Seq(Nat) : t = MatchingBoxes(qf, RunStart(qf, b), f)
                              /\ ToSet(t) = BoxesOfFingerprint(qf, b, f)
    BY SearchedBoxes
  <2>2. PICK having : having = {i \in DOMAIN t : Contains(BoxMementos(qf, t[i]), m)}
    OBVIOUS
  <2>3. having # {} /\ box = t[Max(having)]
    BY <1>2, <1>5, <2>1, <2>2 DEF BoxToDeleteFrom
  <2>4. Max(having) \in having
    <3>1. Len(t) \in Nat /\ having \in SUBSET (1 .. Len(t))
      BY <2>2
    <3> QED
      BY <2>3, <3>1, GreatestPlace
  <2>5. box \in ToSet(t) /\ Contains(BoxMementos(qf, box), m)
    BY <2>2, <2>3, <2>4 DEF ToSet
  <2>6. /\ box \in Nat /\ RunFirst(qf, b) <= box
        /\ box + BoxLen(qf, box) - 1 <= RunendOf(qf, b)
    <3>1. PICK s : s = BoxesIn(qf, b)
      OBVIOUS
    <3>2. box \in ToSet(s)
      BY <2>1, <2>5, <3>1 DEF BoxesOfFingerprint
    <3>3. DOMAIN s = 1 .. Len(s)
      BY <3>1, RunOfBucket DEF IsRun
    <3>4. PICK j \in 1 .. Len(s) : box = s[j]
      BY <3>2, <3>3 DEF ToSet
    <3> QED
      BY <3>1, <3>4, BoxesInRun
  <2>7. qf' = WithoutSurplus(b, box, RemoveMemento(qf, box, m))
    BY <1>3, <1>5 DEF DeleteFrom
  <2>8. Accurate(qf')
    BY <2>5, <2>6, <2>7, WithoutSurplusAccurate
  <2> QED
    BY <2>8, AccuracyStated
<1> QED
  BY <1>4, <1>5

(***************************************************************************)
(* Bulk loading: runs are closed one behind the other.                     *)
(***************************************************************************)

\* The runs so far are those of buckets before b, and end before slot old.
Behind(q, b, old) ==
    /\ \A o \in q.occupieds : o < b
    /\ \A e \in q.runends : e < old
    /\ \A c \in Int : c >= b - 1 => LastUsed(q, c) = old - 1

\* r is q with a run of bucket b that ends at e.
WithRun(q, r, b, e) == r.occupieds = q.occupieds \cup {b} /\ r.runends = q.runends \cup {e}

LEMMA ClosedReads ==
    ASSUME NEW q, Paired(q), NEW b \in Buckets, NEW old \in Nat, Behind(q, b, old),
           NEW e \in Slots, b <= e, old <= e, NEW r, WithRun(q, r, b, e)
    PROVE  /\ Paired(r) /\ b \in Slots
           /\ \A c \in Int : LastUsed(r, c) = IF c < b THEN LastUsed(q, c) ELSE e
<1>1. /\ b \in Int /\ b \in Slots /\ e \in Int /\ e >= 0
      /\ b \notin q.occupieds /\ e \notin q.runends
      /\ IntegerSet(q.occupieds) /\ IntegerSet(q.runends)
  <2>1. b \in Int /\ b \in Slots /\ e \in Int /\ e >= 0
    BY BlocksReach, GeometryAssumption, FilterAssumption DEF Buckets, Slots
  <2>2. \A o \in q.occupieds : o < b
    BY DEF Behind
  <2>3. \A x \in q.runends : x < old
    BY DEF Behind
  <2>4. IntegerSet(q.occupieds) /\ IntegerSet(q.runends)
    BY TableSets
  <2> QED
    BY <2>1, <2>2, <2>3, <2>4
<1>2. /\ Cardinality(r.occupieds) = Cardinality(q.occupieds) + 1
      /\ \A y \in Int : Occupied(r, y) = Occupied(q, y) + (IF b <= y THEN 1 ELSE 0)
  <2>1. /\ Cardinality(q.occupieds \cup {b}) = Cardinality(q.occupieds) + 1
        /\ \A y \in Int : UpTo(q.occupieds \cup {b}, y) = UpTo(q.occupieds, y) + (IF b <= y THEN 1 ELSE 0)
    BY <1>1, Extended
  <2> QED
    BY <2>1 DEF WithRun, Occupied
<1>3. /\ Cardinality(r.runends) = Cardinality(q.runends) + 1
      /\ \A y \in Int : Ended(r, y) = Ended(q, y) + (IF e <= y THEN 1 ELSE 0)
  <2>1. /\ Cardinality(q.runends \cup {e}) = Cardinality(q.runends) + 1
        /\ \A y \in Int : UpTo(q.runends \cup {e}, y) = UpTo(q.runends, y) + (IF e <= y THEN 1 ELSE 0)
    BY <1>1, Extended
  <2> QED
    BY <2>1 DEF WithRun, Ended
<1>4. PICK n \in Nat : n = Cardinality(q.runends) /\ n = Cardinality(q.occupieds)
  <2>1. Cardinality(q.runends) \in Nat
    BY <1>1, Counts
  <2> QED
    BY <2>1 DEF Paired
<1>5. \A y \in Int : y >= b - 1 => Occupied(q, y) = n /\ (y >= old - 1 => Ended(q, y) = n)
  <2>1. ASSUME NEW y \in Int, y >= b - 1 PROVE Occupied(q, y) = n
    <3>1. \A o \in q.occupieds : o <= y
      BY <1>1, <2>1 DEF Behind, IntegerSet
    <3>2. {o \in q.occupieds : o <= y} = q.occupieds
      BY <3>1
    <3> QED
      BY <1>4, <3>2 DEF Occupied, UpTo
  <2>2. ASSUME NEW y \in Int, y >= old - 1 PROVE Ended(q, y) = n
    <3>1. \A x \in q.runends : x <= y
      BY <1>1, <2>2 DEF Behind, IntegerSet
    <3>2. {x \in q.runends : x <= y} = q.runends
      BY <3>1
    <3> QED
      BY <1>4, <3>2 DEF Ended, UpTo
  <2> QED
    BY <2>1, <2>2
<1>6. Paired(r)
  <2>1. r.occupieds \subseteq Buckets /\ r.runends \subseteq Slots
    BY DEF WithRun, Paired
  <2>2. ASSUME NEW c \in r.occupieds PROVE Ended(r, c - 1) < Occupied(r, c)
    <3>1. PICK v \in Int : v = c - 1 /\ c \in Int /\ c <= b
      BY <1>1, <2>2 DEF WithRun, Behind, IntegerSet
    <3>2. Ended(r, v) = Ended(q, v) /\ Ended(q, v) \in Nat /\ Occupied(q, v) \in Nat /\ Occupied(q, c) \in Nat
      BY <1>1, <1>3, <3>1, Counts
    <3>3. Ended(q, v) <= Occupied(q, v)
      BY <3>1, EndedWithinOccupied
    <3>4. CASE c = b
      <4>1. Occupied(q, v) = n /\ Occupied(q, c) = n
        BY <1>1, <1>5, <3>1, <3>4
      <4>2. Occupied(r, c) = Occupied(q, c) + 1
        BY <1>2, <3>1, <3>4
      <4> QED
        BY <3>1, <3>2, <3>3, <4>1, <4>2
    <3>5. CASE c # b
      <4>1. c \in q.occupieds /\ v < c
        BY <2>2, <3>1, <3>5 DEF WithRun
      <4>2. Occupied(q, v) < Occupied(q, c)
        BY <3>1, <4>1, CountReached
      <4>3. Occupied(r, c) >= Occupied(q, c)
        BY <1>2, <3>1, <3>2
      <4> QED
        BY <3>1, <3>2, <3>3, <4>2, <4>3, <1>2
    <3> QED
      BY <3>4, <3>5
  <2>3. Cardinality(r.occupieds) = Cardinality(r.runends)
    BY <1>2, <1>3, <1>4
  <2> QED
    BY <2>1, <2>2, <2>3, PairedByCounts
<1>7. ASSUME NEW c \in Int, ~ (c < b) PROVE LastUsed(r, c) = e
  <2>1. e \in r.runends
    BY DEF WithRun
  <2>2. Ended(r, e) = n + 1 /\ Occupied(r, c) = n + 1
    BY <1>1, <1>2, <1>3, <1>5, <1>7
  <2> QED
    BY <1>6, <2>1, <2>2, LastUsedIs
<1>8. ASSUME NEW c \in Int, c < b PROVE LastUsed(r, c) = LastUsed(q, c)
  <2>1. Occupied(r, c) = Occupied(q, c)
    <3>1. Occupied(q, c) \in Nat
      BY <1>8, Counts
    <3> QED
      BY <1>1, <1>2, <1>8, <3>1
  <2>2. CASE Occupied(q, c) = 0
    BY <1>6, <2>1, <2>2, LastUsedByCount
  <2>3. CASE Occupied(q, c) # 0
    <3>1. PICK x \in q.runends : x = LastUsed(q, c) /\ Ended(q, x) = Occupied(q, c) /\ x \in Int
      BY <2>3, EndedAtLast
    <3>2. x < old
      BY DEF Behind
    <3>3. Ended(r, x) = Ended(q, x)
      <4>1. Ended(q, x) \in Nat /\ ~ (e <= x)
        BY <1>1, <3>1, <3>2, Counts
      <4> QED
        BY <1>3, <3>1, <4>1
    <3>4. x \in r.runends
      BY DEF WithRun
    <3> QED
      BY <1>6, <2>1, <3>1, <3>3, <3>4, LastUsedIs
  <2> QED
    BY <2>2, <2>3
<1> QED
  BY <1>1, <1>6, <1>7, <1>8

\* It uses the slots from where it may start to its end.
LEMMA ClosedUses ==
    ASSUME NEW q, Paired(q), NEW b \in Buckets, NEW old \in Nat, Behind(q, b, old),
           NEW e \in Slots, b <= e, old <= e, NEW r, WithRun(q, r, b, e),
           NEW s \in Nat, s = Max({old, b})
    PROVE  Cardinality(UsedSlots(r)) = Cardinality(UsedSlots(q)) + (e + 1 - s)
<1>1. Paired(r) /\ b \in Slots /\ \A c \in Int : LastUsed(r, c) = IF c < b THEN LastUsed(q, c) ELSE e
  BY ClosedReads
<1>2. b \in Int /\ e \in Int /\ s = IF old >= b THEN old ELSE b
  <2>1. b \in Int /\ e \in Int /\ old \in Int
    BY <1>1 DEF Slots
  <2> QED
    BY <2>1, LargerOf
<1>3. PICK A : A = s .. e
  OBVIOUS
<1>4. ASSUME NEW t \in Slots
      PROVE  t \in UsedSlots(r) <=> t \in UsedSlots(q) \/ t \in A
  <2>1. t \in Int
    BY DEF Slots
  <2>2. t \in UsedSlots(q) <=> LastUsed(q, t) >= t
    BY UsedByLast
  <2>3. t \in UsedSlots(r) <=> LastUsed(r, t) >= t
    BY <1>1, UsedByLast
  <2>4. t >= b => LastUsed(q, t) = old - 1
    BY <1>2, <2>1 DEF Behind
  <2>5. t \in A <=> s <= t /\ t <= e
    BY <1>3, <2>1
  <2>6. CASE t < b
    <3>1. LastUsed(r, t) = LastUsed(q, t) /\ ~ (s <= t)
      BY <1>1, <1>2, <2>1, <2>6
    <3> QED
      BY <2>2, <2>3, <2>5, <3>1
  <2>7. CASE ~ (t < b)
    <3>1. LastUsed(r, t) = e /\ LastUsed(q, t) = old - 1
      BY <1>1, <1>2, <2>1, <2>4, <2>7
    <3> QED
      BY <1>2, <2>1, <2>2, <2>3, <2>5, <2>7, <3>1
  <2> QED
    BY <2>6, <2>7
<1>5. A \subseteq Slots
  BY <1>2, <1>3, BlocksReach DEF Slots
<1>6. UsedSlots(r) = UsedSlots(q) \cup A
  <2>1. UsedSlots(r) \subseteq Slots /\ UsedSlots(q) \subseteq Slots
    BY <1>1, UsedInSlots
  <2> QED
    BY <1>4, <1>5, <2>1
<1>7. UsedSlots(q) \cap A = {}
  <2>1. ASSUME NEW t \in A PROVE t \notin UsedSlots(q)
    <3>1. t \in Slots /\ t \in Int /\ s <= t
      BY <1>2, <1>3, <1>5
    <3>2. LastUsed(q, t) = old - 1
      BY <1>2, <3>1 DEF Behind
    <3>3. ~ (LastUsed(q, t) >= t)
      BY <1>2, <3>1, <3>2
    <3> QED
      BY <3>1, <3>3, UsedByLast
  <2> QED
    BY <2>1
<1>8. IsFiniteSet(A) /\ Cardinality(A) = e + 1 - s
  <2>1. s <= e
    BY <1>2
  <2>2. s \in Int /\ e \in Int
    BY <1>2
  <2>3. IsFiniteSet(s .. e) /\ Cardinality(s .. e) = IF s > e THEN 0 ELSE e - s + 1
    BY <2>2, FS_Interval
  <2> QED
    BY <1>2, <1>3, <2>1, <2>3
<1>9. IsFiniteSet(UsedSlots(q)) /\ Cardinality(UsedSlots(q)) \in Nat
  <2>1. PICK n \in Int : n = EndOfBlocks - 1
    BY BlocksReach
  <2>2. UsedSlots(q) \in SUBSET (0 .. n)
    BY <2>1, UsedInSlots DEF Slots
  <2> QED
    BY <2>1, <2>2, UpToEnds DEF IntegerSet
<1>10. Cardinality(UsedSlots(q) \cup A) = Cardinality(UsedSlots(q)) + Cardinality(A)
  <2>1. PICK U : U = UsedSlots(q)
    OBVIOUS
  <2>2. Cardinality(U \cup A) = Cardinality(U) + Cardinality(A) - Cardinality(U \cap A)
    BY <1>8, <1>9, <2>1, FS_Union
  <2>3. Cardinality(U \cap A) = 0
    BY <1>7, <2>1, FS_EmptySet
  <2> QED
    BY <1>2, <1>8, <1>9, <2>1, <2>2, <2>3
<1> QED
  BY <1>6, <1>8, <1>10

\* Closing a run makes its offsets the spills.
LEMMA RunClosed ==
    ASSUME NEW q, Paired(q), OffsetsCut(q), Shaped(q),
           NEW b \in Buckets, NEW old \in Nat, Behind(q, b, old),
           NEW e \in Slots, b <= e, old <= e, NEW pos, pos = e + 1,
           NEW r, r = CloseRun(q, b, pos, old)
    PROVE  /\ WithRun(q, r, b, e) /\ Shaped(r) /\ OffsetsCut(r)
           /\ r.noccupied_slots = q.noccupied_slots
<1>1. e \in Int /\ pos \in Int /\ pos - 1 = e
  BY DEF Slots
<1> DEFINE more(k) == q.offset[k] + pos - Max({old, BlockStart(k)})
           spills == [k \in DOMAIN q.offset |->
                        IF k \in BlockOf(b) + 1 .. BlockOf(e) THEN Min({more(k), MaxOffset}) ELSE q.offset[k]]
<1>2. r = [q EXCEPT !.occupieds = @ \cup {b}, !.runends = @ \cup {e}, !.offset = spills]
  BY <1>1 DEF CloseRun
<1> HIDE DEF spills
<1>3. /\ WithRun(q, r, b, e) /\ r.offset = spills /\ r.noccupied_slots = q.noccupied_slots
      /\ DOMAIN r = Fields
  BY <1>2 DEF Shaped, Fields, WithRun
<1>4. /\ DOMAIN spills = 0 .. NBlocks - 1
      /\ \A k \in 0 .. NBlocks - 1 :
           spills[k] = IF k \in BlockOf(b) + 1 .. BlockOf(e) THEN Min({more(k), MaxOffset}) ELSE q.offset[k]
  BY DEF spills, Shaped
<1> HIDE DEF more
<1>5. Paired(r) /\ b \in Slots /\ \A c \in Int : LastUsed(r, c) = IF c < b THEN LastUsed(q, c) ELSE e
  BY <1>3, ClosedReads
<1>6. BlockOf(b) \in Int /\ BlockOf(e) \in Int
  <2>1. BlockOf(b) \in 0 .. NBlocks - 1 /\ BlockOf(e) \in 0 .. NBlocks - 1
    BY <1>5, SlotInBlock
  <2>2. NBlocks \in Int
    BY BlocksReach
  <2> QED
    BY <2>1, <2>2
<1>7. ASSUME NEW k \in 0 .. NBlocks - 1 PROVE r.offset[k] = Min({MaxOffset, Spill(r, k)})
  <2>1. PICK base, w \in Int : base = BlockStart(k) /\ w = base - 1
    BY BlockStarts DEF Slots
  <2>2. PICK s, t \in Nat :
          /\ s = Spill(q, k) /\ s = (IF LastUsed(q, w) < base THEN 0 ELSE LastUsed(q, w) - base + 1)
          /\ t = Spill(r, k) /\ t = (IF LastUsed(r, w) < base THEN 0 ELSE LastUsed(r, w) - base + 1)
    BY <1>5, <2>1, SpillEnd
  <2>3. MaxOffset \in Nat /\ q.offset[k] = (IF MaxOffset <= s THEN MaxOffset ELSE s)
    <3>1. NBlocks - 1 \in 0 .. NBlocks - 1
      BY BlocksReach
    <3> QED
      BY <2>2, <3>1, OffsetIs DEF OffsetsCut
  <2>4. Min({MaxOffset, t}) = IF MaxOffset <= t THEN MaxOffset ELSE t
    <3>1. t \in Int
      OBVIOUS
    <3> QED
      BY <3>1, CutOffset
  <2>5. k \in Int /\ (k <= BlockOf(b) <=> base <= b) /\ (k <= BlockOf(e) <=> base <= e)
    BY <1>5, <2>1, BlockOrder
  <2>6. b \in Int /\ (base > b => LastUsed(q, w) = old - 1 /\ LastUsed(r, w) = e)
        /\ (base <= b => LastUsed(r, w) = LastUsed(q, w))
    <3>1. b \in Int
      BY <1>5 DEF Slots
    <3>2. base > b => w >= b - 1 /\ ~ (w < b)
      BY <2>1, <3>1
    <3>3. base <= b => w < b
      BY <2>1, <3>1
    <3> QED
      BY <1>5, <3>1, <3>2, <3>3 DEF Behind
  <2>7. CASE k \in BlockOf(b) + 1 .. BlockOf(e)
    <3>1. base > b /\ base <= e
      BY <1>6, <2>5, <2>6, <2>7
    <3>2. Max({old, base}) = IF old >= base THEN old ELSE base
      BY LargerOf
    <3>3. PICK m \in Int : m = more(k) /\ m = q.offset[k] + pos - IF old >= base THEN old ELSE base
      BY <1>1, <2>1, <2>3, <3>2 DEF more
    <3>4. Min({m, MaxOffset}) = IF m <= MaxOffset THEN m ELSE MaxOffset
      BY CutOffset
    <3>5. s = (IF old - 1 < base THEN 0 ELSE old - base) /\ t = pos - base
      BY <1>1, <2>2, <2>6, <3>1
    <3>6. r.offset[k] = IF m <= MaxOffset THEN m ELSE MaxOffset
      BY <1>3, <1>4, <2>7, <3>3, <3>4
    <3> QED
      BY <1>1, <2>2, <2>3, <2>4, <3>1, <3>3, <3>5, <3>6
  <2>8. CASE ~ (k \in BlockOf(b) + 1 .. BlockOf(e))
    <3>1. base <= b \/ base > e
      BY <1>1, <1>6, <2>5, <2>6, <2>8
    <3>2. t = s
      BY <1>1, <2>2, <2>6, <3>1
    <3> QED
      BY <1>3, <1>4, <2>2, <2>3, <2>4, <2>8, <3>2
  <2> QED
    BY <2>7, <2>8
<1>8. OffsetsCut(r)
  BY <1>7 DEF OffsetsCut, OffsetsCutTo
<1> QED
  BY <1>3, <1>4, <1>8 DEF Shaped


\* A box j of n boxes written behind the others, as in LoadBoxes.
LoadStep(boxes, n, p, j) ==
    LET b == boxes[j][1]
        values == PrefixSet(boxes[j][2], boxes[j][3])
        at == Max({p.pos, b})
        pos == at + Len(values)
        written == [Write(p.qf, at, values) EXCEPT !.noccupied_slots = @ + Len(values)]
    IN  IF j = n \/ boxes[j + 1][1] # b
        THEN [qf |-> CloseRun(written, b, pos, p.oldPos), pos |-> pos, oldPos |-> pos]
        ELSE [qf |-> written, pos |-> pos, oldPos |-> p.oldPos]

LoadStart(q, boxes) == [qf |-> q, pos |-> boxes[1][1], oldPos |-> 0]

Loads(q, boxes, n, m, g) ==
    g = [j \in 0 .. m |-> IF j = 0 THEN LoadStart(q, boxes) ELSE LoadStep(boxes, n, g[j - 1], j)]

LEMMA LoadsExist ==
    ASSUME NEW q, NEW boxes, NEW n \in Nat
    PROVE  \E g : Loads(q, boxes, n, n, g)
<1> DEFINE Missing == {m \in Nat : ~ \E g : Loads(q, boxes, n, m, g)}
<1>1. 0 \notin Missing
  <2> DEFINE g == [j \in 0 .. 0 |-> LoadStart(q, boxes)]
  <2>1. g = [j \in 0 .. 0 |-> IF j = 0 THEN LoadStart(q, boxes) ELSE LoadStep(boxes, n, g[j - 1], j)]
    OBVIOUS
  <2> HIDE DEF g
  <2>2. Loads(q, boxes, n, 0, g)
    BY <2>1 DEF Loads
  <2> QED
    BY <2>2
<1>2. ASSUME NEW m \in Nat, m \notin Missing PROVE m + 1 \notin Missing
  <2>1. PICK g : Loads(q, boxes, n, m, g)
    BY <1>2
  <2>2. g = [j \in 0 .. m |-> IF j = 0 THEN LoadStart(q, boxes) ELSE LoadStep(boxes, n, g[j - 1], j)]
    BY <2>1 DEF Loads
  <2> DEFINE h == [j \in 0 .. m + 1 |-> IF j <= m THEN g[j] ELSE LoadStep(boxes, n, g[m], m + 1)]
  <2>3. \A j \in 0 .. m : h[j] = g[j]
    OBVIOUS
  <2>4. h[m + 1] = LoadStep(boxes, n, g[m], m + 1)
    OBVIOUS
  <2>5. h = [j \in 0 .. m + 1 |-> h[j]]
    OBVIOUS
  <2> HIDE DEF h
  <2>6. ASSUME NEW j \in 0 .. m + 1
        PROVE  h[j] = IF j = 0 THEN LoadStart(q, boxes) ELSE LoadStep(boxes, n, h[j - 1], j)
    <3>1. CASE j \in 0 .. m
      <4>1. g[j] = IF j = 0 THEN LoadStart(q, boxes) ELSE LoadStep(boxes, n, g[j - 1], j)
        BY <2>2, <3>1
      <4>2. j # 0 => j - 1 \in 0 .. m
        BY <3>1
      <4> QED
        BY <2>3, <3>1, <4>1, <4>2
    <3>2. CASE j = m + 1
      <4>1. j # 0 /\ j - 1 = m /\ m \in 0 .. m
        BY <3>2
      <4> QED
        BY <2>3, <2>4, <3>2, <4>1
    <3> QED
      BY <3>1, <3>2
  <2>7. h = [j \in 0 .. m + 1 |-> IF j = 0 THEN LoadStart(q, boxes) ELSE LoadStep(boxes, n, h[j - 1], j)]
    BY <2>5, <2>6
  <2>8. Loads(q, boxes, n, m + 1, h)
    BY <2>7 DEF Loads
  <2> QED
    BY <2>8
<1>3. ASSUME Missing # {} PROVE FALSE
  <2>1. PICK m \in Missing : \A j \in Missing : m <= j
    BY <1>3, LeastNatural
  <2>2. PICK j \in Nat : m = j + 1 /\ ~ (m <= j)
    BY <1>1, <2>1
  <2>3. j \notin Missing
    BY <2>1, <2>2
  <2> HIDE DEF Missing
  <2> QED
    BY <1>2, <2>1, <2>2, <2>3
<1> QED
  BY <1>3

\* Boxes as BoxesOf gives them to LoadBoxes.
Loadable(boxes, n) ==
    /\ n \in Nat \ {0}
    /\ \A j \in 1 .. n : boxes[j][1] \in Buckets /\ Len(PrefixSet(boxes[j][2], boxes[j][3])) \in Nat \ {0}
    /\ \A j \in 1 .. n - 1 : boxes[j][1] <= boxes[j + 1][1]

\* The table with the runs before bucket b closed, and its own written so far.
Loading(p, b) ==
    /\ p.pos \in Nat /\ p.oldPos \in Nat /\ p.oldPos <= p.pos
    /\ Paired(p.qf) /\ OffsetsCut(p.qf) /\ Shaped(p.qf) /\ Behind(p.qf, b, p.oldPos)
    /\ p.qf.noccupied_slots = Cardinality(UsedSlots(p.qf)) + Max({p.pos, b}) - Max({p.oldPos, b})

LEMMA LoadTurn ==
    ASSUME NEW boxes, NEW n, Loadable(boxes, n), NEW j \in 1 .. n, NEW p, Loading(p, boxes[j][1]),
           NEW s, s = LoadStep(boxes, n, p, j), s.pos <= EndOfBlocks
    PROVE  /\ j = n => Accurate(s.qf)
           /\ j < n => Loading(s, boxes[j + 1][1])
<1>1. PICK b \in Buckets : b = boxes[j][1] /\ b \in Nat /\ b \in Slots
  <2>1. boxes[j][1] \in Buckets
    BY DEF Loadable
  <2>2. \A x \in Buckets : x \in Nat /\ x \in Slots
    BY BlocksReach, GeometryAssumption, FilterAssumption DEF Buckets, Slots
  <2> QED
    BY <2>1, <2>2
<1>2. PICK values, len : /\ values = PrefixSet(boxes[j][2], boxes[j][3])
                         /\ len \in Nat \ {0} /\ len = Len(values)
  BY DEF Loadable
<1>3. PICK at \in Nat : at = Max({p.pos, b}) /\ at = IF p.pos >= b THEN p.pos ELSE b
  <2>1. p.pos \in Int /\ b \in Int
    BY <1>1 DEF Loading
  <2> QED
    BY <1>1, <2>1, LargerOf DEF Loading
<1>4. PICK pos \in Nat : pos = at + len /\ pos > at
  BY <1>2
<1>5. PICK old \in Nat : old = p.oldPos /\ old <= p.pos
  BY DEF Loading
<1>6. PICK w : w = [Write(p.qf, at, values) EXCEPT !.noccupied_slots = @ + len]
  OBVIOUS
<1>7. s = IF j = n \/ boxes[j + 1][1] # b
          THEN [qf |-> CloseRun(w, b, pos, old), pos |-> pos, oldPos |-> pos]
          ELSE [qf |-> w, pos |-> pos, oldPos |-> old]
  BY <1>1, <1>2, <1>3, <1>4, <1>5, <1>6 DEF LoadStep
<1>8. s.pos = pos /\ pos <= EndOfBlocks
  BY <1>7
<1>9. PICK e \in Slots : e = pos - 1 /\ pos = e + 1 /\ b <= e /\ old <= e /\ e \in Int
  <2>1. pos >= 1 /\ EndOfBlocks \in Nat
    BY <1>4, BlocksReach
  <2>2. pos - 1 \in Slots
    BY <1>8, <2>1 DEF Slots
  <2>3. p.pos \in Nat
    BY DEF Loading
  <2>4. b <= at /\ old <= at
    BY <1>1, <1>3, <1>5, <2>3
  <2> QED
    BY <1>1, <1>4, <2>2, <2>4
<1>10. PICK start \in Nat : start = Max({old, b}) /\ start = (IF old >= b THEN old ELSE b)
  BY <1>1, LargerOf
<1>11. /\ SameRuns(p.qf, w) /\ Shaped(w) /\ w.offset = p.qf.offset
       /\ w.noccupied_slots = p.qf.noccupied_slots + len
  <2>1. Shaped(p.qf)
    BY DEF Loading
  <2> QED
    BY <1>6, <2>1 DEF Shaped, Fields, SameRuns, Write
<1>12. /\ Paired(w) /\ UsedSlots(w) = UsedSlots(p.qf) /\ \A c : LastUsed(w, c) = LastUsed(p.qf, c)
       /\ \A k : Spill(w, k) = Spill(p.qf, k)
  BY <1>11, SameReading DEF Loading
<1>13. OffsetsCut(w)
  BY <1>11, <1>12 DEF Loading, OffsetsCut, OffsetsCutTo
<1>14. Behind(w, b, old)
  BY <1>1, <1>5, <1>11, <1>12 DEF Loading, Behind, SameRuns
<1>15. PICK used \in Nat : used = Cardinality(UsedSlots(w))
  <2>1. PICK m \in Int : m = EndOfBlocks - 1
    BY BlocksReach
  <2>2. UsedSlots(w) \in SUBSET (0 .. m)
    BY <1>12, <2>1, UsedInSlots DEF Slots
  <2> QED
    BY <2>1, <2>2, UpToEnds
<1>16. w.noccupied_slots = used + pos - start
  <2>1. p.qf.noccupied_slots = used + at - start
    BY <1>1, <1>3, <1>5, <1>10, <1>12, <1>15 DEF Loading
  <2> QED
    BY <1>2, <1>4, <1>11, <1>15, <2>1
<1>17. CASE j = n \/ boxes[j + 1][1] # b
  <2>1. PICK r : r = CloseRun(w, b, pos, old) /\ s = [qf |-> r, pos |-> pos, oldPos |-> pos]
    BY <1>7, <1>17
  <2>2. /\ WithRun(w, r, b, e) /\ Shaped(r) /\ OffsetsCut(r)
        /\ r.noccupied_slots = w.noccupied_slots
    BY <1>9, <1>11, <1>12, <1>13, <1>14, <2>1, RunClosed
  <2>3. Paired(r) /\ \A c \in Int : LastUsed(r, c) = IF c < b THEN LastUsed(w, c) ELSE e
    BY <1>9, <1>12, <1>14, <2>2, ClosedReads
  <2>4. Cardinality(UsedSlots(r)) = used + (e + 1 - start)
    BY <1>9, <1>10, <1>12, <1>14, <1>15, <2>2, ClosedUses
  <2>5. r.noccupied_slots = Cardinality(UsedSlots(r))
    BY <1>9, <1>15, <1>16, <2>2, <2>4
  <2>6. Accurate(s.qf)
    BY <2>1, <2>2, <2>3, <2>5 DEF Accurate
  <2>7. ASSUME j < n PROVE Loading(s, boxes[j + 1][1])
    <3>1. PICK c \in Nat : c = boxes[j + 1][1] /\ b < c
      <4>1. n \in Nat /\ j \in 1 .. n - 1 /\ j + 1 \in 1 .. n /\ j # n
        BY <2>7 DEF Loadable
      <4>2. boxes[j][1] <= boxes[j + 1][1] /\ boxes[j + 1][1] \in Buckets
        BY <4>1 DEF Loadable
      <4>3. boxes[j + 1][1] \in Nat
        BY <4>2 DEF Buckets
      <4> QED
        BY <1>1, <1>17, <4>1, <4>2, <4>3
    <3>2. \A o \in r.occupieds : o < c
      <4>1. \A o \in w.occupieds : o < b /\ o \in Int
        BY <1>12, <1>14, TableSets DEF Behind, IntegerSet
      <4> QED
        BY <1>1, <2>2, <3>1, <4>1 DEF WithRun
    <3>3. \A x \in r.runends : x < pos
      <4>1. \A x \in w.runends : x < old /\ x \in Int
        BY <1>12, <1>14, TableSets DEF Behind, IntegerSet
      <4> QED
        BY <1>9, <2>2, <4>1 DEF WithRun
    <3>4. \A x \in Int : x >= c - 1 => LastUsed(r, x) = pos - 1
      <4>1. \A x \in Int : x >= c - 1 => ~ (x < b)
        BY <1>1, <3>1
      <4> QED
        BY <1>9, <2>3, <4>1
    <3>5. Behind(r, c, pos)
      BY <3>2, <3>3, <3>4 DEF Behind
    <3>6. PICK m \in Int : m = Max({pos, c})
      <4>1. Max({pos, c}) = IF pos >= c THEN pos ELSE c
        BY LargerOf
      <4> QED
        BY <4>1
    <3>7. r.noccupied_slots = Cardinality(UsedSlots(r)) + m - m
      BY <1>9, <1>10, <2>4, <2>5
    <3>8. s.qf = r /\ s.pos = pos /\ s.oldPos = pos
      BY <2>1
    <3> QED
      BY <2>2, <2>3, <3>1, <3>5, <3>6, <3>7, <3>8 DEF Loading
  <2> QED
    BY <2>6, <2>7
<1>18. CASE ~ (j = n \/ boxes[j + 1][1] # b)
  <2>1. s.qf = w /\ s.pos = pos /\ s.oldPos = old
    BY <1>7, <1>18
  <2>2. Max({pos, b}) = pos
    <3>1. Max({pos, b}) = IF pos >= b THEN pos ELSE b
      BY <1>1, LargerOf
    <3>2. pos >= b
      BY <1>1, <1>9
    <3> QED
      BY <3>1, <3>2
  <2>3. w.noccupied_slots = Cardinality(UsedSlots(w)) + Max({pos, b}) - Max({old, b})
    BY <1>10, <1>15, <1>16, <2>2
  <2>4. old <= pos
    BY <1>9
  <2> QED
    BY <1>11, <1>12, <1>13, <1>14, <1>18, <2>1, <2>3, <2>4 DEF Loading
<1> QED
  BY <1>17, <1>18

LEMMA LoadPositions ==
    ASSUME NEW q, NEW boxes, NEW n, Loadable(boxes, n), NEW g, Loads(q, boxes, n, n, g)
    PROVE  /\ g[0] = LoadStart(q, boxes)
           /\ \A j \in 1 .. n : g[j] = LoadStep(boxes, n, g[j - 1], j)
           /\ \A j \in 0 .. n : g[j].pos \in Nat
           /\ \A j \in 1 .. n : g[j - 1].pos <= g[j].pos
<1>1. n \in Nat \ {0} /\ \A j \in 1 .. n : boxes[j][1] \in Nat
  BY DEF Loadable, Buckets
<1>2. /\ g[0] = LoadStart(q, boxes)
      /\ \A j \in 1 .. n : g[j] = LoadStep(boxes, n, g[j - 1], j)
  <2>1. g = [j \in 0 .. n |-> IF j = 0 THEN LoadStart(q, boxes) ELSE LoadStep(boxes, n, g[j - 1], j)]
    BY DEF Loads
  <2> DEFINE step(j) == IF j = 0 THEN LoadStart(q, boxes) ELSE LoadStep(boxes, n, g[j - 1], j)
  <2>2. g = [j \in 0 .. n |-> step(j)]
    BY <2>1
  <2> HIDE DEF step
  <2>3. \A j \in 0 .. n : g[j] = step(j)
    BY <2>2
  <2>4. 0 \in 0 .. n /\ \A j \in 1 .. n : j \in 0 .. n /\ j # 0
    BY <1>1
  <2> QED
    BY <2>3, <2>4 DEF step
<1>3. ASSUME NEW j \in 1 .. n, NEW p, p.pos \in Nat, NEW s, s = LoadStep(boxes, n, p, j)
      PROVE  s.pos \in Nat /\ p.pos <= s.pos
  <2>1. PICK at : at = Max({p.pos, boxes[j][1]}) /\ at \in Nat /\ p.pos <= at
    <3>1. p.pos \in Int /\ boxes[j][1] \in Nat
      BY <1>1, <1>3
    <3>2. Max({p.pos, boxes[j][1]}) = IF p.pos >= boxes[j][1] THEN p.pos ELSE boxes[j][1]
      BY <3>1, LargerOf
    <3> QED
      BY <1>3, <3>1, <3>2
  <2>2. PICK len : len = Len(PrefixSet(boxes[j][2], boxes[j][3])) /\ len \in Nat \ {0}
    BY DEF Loadable
  <2>3. s.pos = at + len
    BY <1>3, <2>1, <2>2 DEF LoadStep
  <2> QED
    BY <1>3, <2>1, <2>2, <2>3
<1>4. \A j \in 0 .. n : g[j].pos \in Nat
  <2> DEFINE Untyped == {j \in Nat : j \in 0 .. n /\ ~ (g[j].pos \in Nat)}
  <2>1. ASSUME Untyped # {} PROVE FALSE
    <3>1. PICK m \in Untyped : \A j \in Untyped : m <= j
      BY <2>1, LeastNatural
    <3>2. 1 \in 1 .. n /\ boxes[1][1] \in Nat
      BY <1>1
    <3>3. g[0].pos \in Nat
      BY <1>2, <3>2 DEF LoadStart
    <3>4. m \in 1 .. n /\ m - 1 \in Nat /\ m - 1 \in 0 .. n /\ ~ (m <= m - 1)
      BY <1>1, <3>1, <3>3
    <3>5. g[m - 1].pos \in Nat
      BY <3>1, <3>4
    <3>6. g[m].pos \in Nat
      BY <1>2, <1>3, <3>4, <3>5
    <3> QED
      BY <3>1, <3>6
  <2> QED
    BY <1>1, <2>1
<1>5. ASSUME NEW j \in 1 .. n PROVE g[j - 1].pos <= g[j].pos
  <2>1. j - 1 \in 0 .. n
    BY <1>1
  <2> QED
    BY <1>2, <1>3, <1>4, <2>1
<1> QED
  BY <1>2, <1>4, <1>5

LEMMA LoadsAccurate ==
    ASSUME NEW q, Accurate(q), Shaped(q), q.occupieds = {}, NEW boxes, NEW n, Loadable(boxes, n),
           NEW g, Loads(q, boxes, n, n, g), g[n].pos <= EndOfBlocks
    PROVE  Accurate(g[n].qf)
<1>1. n \in Nat \ {0} /\ \A j \in 1 .. n : boxes[j][1] \in Nat
  BY DEF Loadable, Buckets
<1>2. /\ g[0] = LoadStart(q, boxes)
      /\ \A j \in 1 .. n : g[j] = LoadStep(boxes, n, g[j - 1], j)
  BY LoadPositions
<1>3. \A j \in 1 .. n : g[j - 1].pos <= g[j].pos
  BY LoadPositions
<1>4. \A j \in 0 .. n : g[j].pos \in Nat
  BY LoadPositions
<1>5. \A j \in 1 .. n : g[j].pos <= EndOfBlocks
  <2> DEFINE h == [i \in 1 .. n |-> g[i].pos]
  <2>1. \A i \in 1 .. n : h[i] = g[i].pos /\ h[i] \in Int /\ g[i].pos \in Nat
    <3>1. \A i \in 1 .. n : i \in 0 .. n
      BY <1>1
    <3> QED
      BY <1>4, <3>1
  <2> HIDE DEF h
  <2>2. \A i \in 1 .. n - 1 : h[i] <= h[i + 1]
    <3>1. ASSUME NEW i \in 1 .. n - 1 PROVE h[i] <= h[i + 1]
      <4>1. i \in 1 .. n /\ i + 1 \in 1 .. n /\ (i + 1) - 1 = i
        BY <1>1
      <4>2. g[i].pos <= g[i + 1].pos
        BY <1>3, <4>1
      <4> QED
        BY <2>1, <4>1, <4>2
    <3> QED
      BY <3>1
  <2>3. \A i, j \in 1 .. n : i <= j => h[i] <= h[j]
    BY <1>1, <2>1, <2>2, Ascending
  <2>4. n \in 1 .. n /\ \A i \in 1 .. n : i <= n
    BY <1>1
  <2>5. EndOfBlocks \in Nat
    BY BlocksReach
  <2> QED
    BY <2>1, <2>3, <2>4, <2>5
<1>6. Loading(g[0], boxes[1][1])
  <2>1. PICK p : p = g[0] /\ p.qf = q /\ p.pos = boxes[1][1] /\ p.oldPos = 0
    BY <1>2 DEF LoadStart
  <2>2. PICK b \in Nat : b = boxes[1][1]
    <3>1. 1 \in 1 .. n
      BY <1>1
    <3> QED
      BY <1>1, <3>1
  <2>3. q.runends = {}
    <3>1. IsFiniteSet(q.runends) /\ Cardinality(q.runends) = Cardinality(q.occupieds)
      BY TableSets DEF Accurate, Paired, IntegerSet
    <3>2. Cardinality(q.occupieds) = 0
      BY FS_EmptySet
    <3> QED
      BY <3>1, <3>2, FS_EmptySet
  <2>4. \A c \in Int : LastUsed(q, c) = 0 - 1
    BY DEF LastUsed
  <2>5. Behind(q, b, 0)
    BY <2>3, <2>4 DEF Behind
  <2>6. UsedSlots(q) = {}
    BY DEF UsedSlots
  <2>7. Max({b, b}) = b /\ Max({0, b}) = b
    <3>1. Max({b, b}) = (IF b >= b THEN b ELSE b) /\ Max({0, b}) = IF 0 >= b THEN 0 ELSE b
      BY LargerOf
    <3> QED
      BY <3>1
  <2>8. q.noccupied_slots = Cardinality(UsedSlots(q)) /\ Cardinality(UsedSlots(q)) = 0
    BY <2>6, FS_EmptySet DEF Accurate
  <2>9. q.noccupied_slots = Cardinality(UsedSlots(q)) + Max({b, b}) - Max({0, b})
    BY <2>7, <2>8
  <2> QED
    BY <2>1, <2>2, <2>5, <2>9 DEF Loading, Accurate
<1>7. \A j \in 1 .. n : Loading(g[j - 1], boxes[j][1])
  <2> DEFINE Wrong == {j \in Nat : j \in 1 .. n /\ ~ Loading(g[j - 1], boxes[j][1])}
  <2>1. ASSUME Wrong # {} PROVE FALSE
    <3>1. PICK m \in Wrong : \A j \in Wrong : m <= j
      BY <2>1, LeastNatural
    <3>2. m # 1
      BY <1>6, <3>1
    <3>3. PICK i \in Nat : /\ i = m - 1 /\ i \in 1 .. n /\ i < n /\ ~ (m <= i) /\ m = i + 1
                           /\ m \in 1 .. n
      BY <1>1, <3>1, <3>2
    <3>4. Loading(g[i - 1], boxes[i][1])
      BY <3>1, <3>3
    <3>5. g[i] = LoadStep(boxes, n, g[i - 1], i) /\ g[i].pos <= EndOfBlocks
      BY <1>2, <1>5, <3>3
    <3>6. Loading(g[i], boxes[i + 1][1])
      BY <3>3, <3>4, <3>5, LoadTurn
    <3> QED
      BY <3>1, <3>3, <3>6
  <2> QED
    BY <1>1, <2>1
<1>8. n \in 1 .. n
  BY <1>1
<1> QED
  BY <1>2, <1>5, <1>7, <1>8, LoadTurn


\* BoxesOf gives a box for every prefix of a sorted input, in the order of the
\* buckets.
LEMMA BoxesLoadable ==
    ASSUME NEW keys \in BulkInputs
    PROVE  Loadable(BoxesOf(keys), Len(BoxesOf(keys)))
<1>1. PICK N \in Nat \ {0} :
        /\ N = Len(keys) /\ DOMAIN keys = 1 .. N
        /\ \A i \in 1 .. N : keys[i][1] \in Buckets /\ keys[i][1] \in Nat
        /\ \A i \in 1 .. N - 1 : keys[i][1] <= keys[i + 1][1]
  <2>1. /\ keys \in Seq(Buckets \X Fingerprints \X KeyMementos) /\ keys # << >> /\ SortedInput(keys)
    BY FilterAssumption
  <2>2. PICK T : T = Buckets \X Fingerprints \X KeyMementos
    OBVIOUS
  <2>3. Len(keys) \in Nat \ {0} /\ DOMAIN keys = 1 .. Len(keys) /\ \A i \in 1 .. Len(keys) : keys[i] \in T
    <3>1. keys \in Seq(T)
      BY <2>1, <2>2
    <3> QED
      BY <2>1, <3>1
  <2>4. \A i \in 1 .. Len(keys) : keys[i][1] \in Buckets /\ keys[i][1] \in Nat
    BY <2>2, <2>3 DEF Buckets
  <2>5. \A i \in 1 .. Len(keys) - 1 : keys[i][1] <= keys[i + 1][1]
    <3>1. ASSUME NEW i \in 1 .. Len(keys) - 1 PROVE keys[i][1] <= keys[i + 1][1]
      <4>1. keys[i][1] < keys[i + 1][1] \/ keys[i][1] = keys[i + 1][1]
        BY <2>1 DEF SortedInput
      <4>2. i \in 1 .. Len(keys) /\ i + 1 \in 1 .. Len(keys)
        BY <2>3
      <4> QED
        BY <2>4, <4>1, <4>2
    <3> QED
      BY <3>1
  <2> QED
    BY <2>3, <2>4, <2>5
<1>2. PICK starts : starts = {i \in DOMAIN keys : i = 1 \/ PrefixOf(keys[i - 1]) # PrefixOf(keys[i])}
  OBVIOUS
<1>3. /\ starts \in SUBSET (1 .. N) /\ starts \in SUBSET (0 .. N) /\ 1 \in starts
      /\ IntegerSet(starts) /\ IsFiniteSet(starts)
  <2>1. starts \in SUBSET (1 .. N) /\ starts \in SUBSET (0 .. N) /\ 1 \in starts
    BY <1>1, <1>2
  <2> QED
    BY <2>1, UpToEnds DEF IntegerSet
<1>4. PICK n \in Nat \ {0} : n = Cardinality(starts)
  <2>1. Cardinality(starts) \in Nat /\ (Cardinality(starts) = 0 <=> starts = {})
    BY <1>3, FS_CardinalityType, FS_EmptySet
  <2> QED
    BY <1>3, <2>1
<1> DEFINE start(j) == CHOOSE i \in starts : Cardinality({x \in starts : x <= i}) = j
           size(i) == Cardinality({x \in DOMAIN keys : PrefixOf(keys[x]) = PrefixOf(keys[i])})
           listed(i) == [j \in 1 .. size(i) |-> keys[i + j - 1][3]]
           box(i) == << keys[i][1], keys[i][2], listed(i) >>
<1>5. BoxesOf(keys) = [j \in 1 .. n |-> box(start(j))]
  BY <1>2, <1>4 DEF BoxesOf
<1>6. \A j \in 1 .. n : start(j) \in starts /\ UpTo(starts, start(j)) = j /\ start(j) \in 1 .. N
  <2>1. ASSUME NEW j \in 1 .. n PROVE start(j) \in starts /\ UpTo(starts, start(j)) = j
    <3>1. \E i \in starts : UpTo(starts, i) = j
      BY <1>3, <1>4, Selection
    <3> QED
      BY <3>1 DEF UpTo
  <2> QED
    BY <1>3, <2>1
<1>7. \A i \in 1 .. N : size(i) \in Nat \ {0}
  <2>1. ASSUME NEW i \in 1 .. N PROVE size(i) \in Nat \ {0}
    <3>1. PICK same : same = {x \in DOMAIN keys : PrefixOf(keys[x]) = PrefixOf(keys[i])}
      OBVIOUS
    <3>2. i \in same /\ same \in SUBSET (0 .. N)
      BY <1>1, <3>1
    <3>3. IsFiniteSet(same)
      BY <3>2, UpToEnds DEF IntegerSet
    <3>4. Cardinality(same) \in Nat /\ (Cardinality(same) = 0 <=> same = {})
      BY <3>3, FS_CardinalityType, FS_EmptySet
    <3> QED
      BY <3>1, <3>2, <3>4
  <2> QED
    BY <2>1
<1> HIDE DEF start, size
<1>8. \A i \in 1 .. N : \A f : Len(PrefixSet(f, listed(i))) \in Nat \ {0}
  <2>1. ASSUME NEW i \in 1 .. N, NEW f PROVE Len(PrefixSet(f, listed(i))) \in Nat \ {0}
    <3>1. PICK k \in Nat \ {0} : k = size(i)
      BY <1>7
    <3>2. PICK S : S = {keys[i + j - 1][3] : j \in 1 .. k}
      OBVIOUS
    <3>3. PICK ms : ms = [j \in 1 .. k |-> keys[i + j - 1][3]] /\ ms = listed(i)
      BY <3>1
    <3>4. ms \in Seq(S) /\ Len(ms) = k
      <4>1. \A j \in 1 .. k : keys[i + j - 1][3] \in S
        BY <3>2
      <4> QED
        BY <3>3, <4>1
    <3> QED
      BY <3>3, <3>4, PrefixSetLength
  <2> QED
    BY <2>1
<1> HIDE DEF listed
<1>9. \A i, j \in 1 .. N : i <= j => keys[i][1] <= keys[j][1]
  <2> DEFINE h == [i \in 1 .. N |-> keys[i][1]]
  <2>1. \A i \in 1 .. N : h[i] = keys[i][1] /\ h[i] \in Int
    BY <1>1
  <2> HIDE DEF h
  <2>2. \A i \in 1 .. N - 1 : h[i] <= h[i + 1]
    BY <1>1, <2>1
  <2>3. \A i, j \in 1 .. N : i <= j => h[i] <= h[j]
    BY <2>1, <2>2, Ascending
  <2> QED
    BY <2>1, <2>3
<1>10. PICK boxes : boxes = BoxesOf(keys)
  OBVIOUS
<1>11. Len(boxes) = n /\ \A j \in 1 .. n : boxes[j][1] = keys[start(j)][1]
                          /\ boxes[j][2] = keys[start(j)][2] /\ boxes[j][3] = listed(start(j))
  <2>1. boxes = [j \in 1 .. n |-> box(start(j))]
    BY <1>5, <1>10
  <2> QED
    BY <2>1
<1>12. \A j \in 1 .. n : boxes[j][1] \in Buckets /\ Len(PrefixSet(boxes[j][2], boxes[j][3])) \in Nat \ {0}
  BY <1>1, <1>6, <1>8, <1>11
<1>13. \A j \in 1 .. n - 1 : boxes[j][1] <= boxes[j + 1][1]
  <2>1. ASSUME NEW j \in 1 .. n - 1 PROVE boxes[j][1] <= boxes[j + 1][1]
    <3>1. j \in 1 .. n /\ j + 1 \in 1 .. n
      BY <1>4
    <3>2. PICK x, y \in Int : x = start(j) /\ y = start(j + 1) /\ x \in 1 .. N /\ y \in 1 .. N
      BY <1>6, <3>1
    <3>3. UpTo(starts, x) = j /\ UpTo(starts, y) = j + 1
      BY <1>6, <3>1, <3>2
    <3>4. ~ (y <= x)
      <4>1. y <= x => UpTo(starts, y) <= UpTo(starts, x)
        BY <1>3, <3>2, UpToGrows
      <4> QED
        BY <3>1, <3>3, <4>1
    <3>5. keys[x][1] <= keys[y][1]
      BY <1>9, <3>2, <3>4
    <3> QED
      BY <1>11, <3>1, <3>2, <3>5
  <2> QED
    BY <2>1
<1> QED
  BY <1>4, <1>10, <1>11, <1>12, <1>13 DEF Loadable

\* qf_bulk_load, when what it loads fits into the blocks.
LEMMA BulkLoadAccurate ==
    ASSUME TypeOK, RunsWellFormed, OffsetsExact, SlotsAccounted, TypeOK',
           NEW keys \in BulkInputs, BulkLoad(keys)
    PROVE  Accurate(qf')
<1>1. Accurate(qf) /\ Shaped(qf) /\ qf.occupieds = {}
  BY AccurateFilter DEF BulkLoad
<1>2. PICK boxes, n : boxes = BoxesOf(keys) /\ n = Len(boxes) /\ Loadable(boxes, n) /\ n \in Nat \ {0}
  BY BoxesLoadable DEF Loadable
<1>3. PICK h : Loads(qf, boxes, n, n, h)
  BY <1>2, LoadsExist
<1> DEFINE g == CHOOSE f : Loads(qf, boxes, n, n, f)
<1>4. Loads(qf, boxes, n, n, g)
  BY <1>3
<1>5. LoadBoxes(boxes) = g[n].qf
  BY <1>2 DEF LoadBoxes, Loads, LoadStart, LoadStep
<1> HIDE DEF g
<1>6. PICK r : r = g[n].qf /\ qf' = Counted(r, Len(keys))
  BY <1>2, <1>5 DEF BulkLoad
<1>7. g[n].pos <= EndOfBlocks
  <2>1. PICK p : g[n] = LoadStep(boxes, n, p, n)
    <3> DEFINE step(j) == IF j = 0 THEN LoadStart(qf, boxes) ELSE LoadStep(boxes, n, g[j - 1], j)
    <3>1. g = [j \in 0 .. n |-> step(j)]
      BY <1>4 DEF Loads
    <3>2. n \in 0 .. n /\ n # 0
      BY <1>2
    <3> HIDE DEF step
    <3>3. g[n] = step(n)
      BY <3>1, <3>2
    <3> QED
      BY <3>2, <3>3 DEF step
  <2>2. PICK pos, w, b, old : g[n] = [qf |-> CloseRun(w, b, pos, old), pos |-> pos, oldPos |-> pos]
    BY <2>1 DEF LoadStep
  <2>3. DOMAIN qf' = Fields /\ qf'.runends \subseteq Slots
    <3>1. qf' \in Filters
      BY DEF TypeOK
    <3> QED
      BY <3>1 DEF Filters, Fields
  <2>4. DOMAIN w = Fields /\ qf'.runends = w.runends \cup {pos - 1}
    <3>1. r = CloseRun(w, b, pos, old)
      BY <1>6, <2>2
    <3>2. DOMAIN qf' = DOMAIN r /\ DOMAIN r = DOMAIN w
      BY <1>6, <3>1 DEF Counted, CloseRun
    <3>3. qf'.runends = r.runends
      BY <1>6, <2>3, <3>2 DEF Counted, Fields
    <3>4. r.runends = w.runends \cup {pos - 1}
      BY <2>3, <3>1, <3>2 DEF CloseRun, Fields
    <3> QED
      BY <2>3, <3>2, <3>3, <3>4
  <2>5. pos - 1 \in Slots /\ g[n].pos = pos
    BY <2>2, <2>3, <2>4
  <2>6. g[n].pos \in Nat
    <3>1. n \in 0 .. n
      BY <1>2
    <3> QED
      BY <1>2, <1>4, <3>1, LoadPositions
  <2>7. PICK e \in Nat : e = EndOfBlocks /\ Slots = 0 .. e - 1
    BY BlocksReach DEF Slots
  <2> QED
    BY <2>5, <2>6, <2>7
<1>8. Accurate(r)
  BY <1>1, <1>2, <1>4, <1>6, <1>7, LoadsAccurate
<1>9. SameRuns(r, qf') /\ qf'.offset = r.offset /\ qf'.noccupied_slots = r.noccupied_slots
  <2>1. DOMAIN qf' = Fields
    <3>1. qf' \in Filters
      BY DEF TypeOK
    <3> QED
      BY <3>1 DEF Filters, Fields
  <2>2. DOMAIN r = Fields
    BY <1>6, <2>1 DEF Counted
  <2> QED
    BY <1>6, <2>2 DEF Counted, SameRuns, Fields
<1> QED
  BY <1>8, <1>9, SameAccuracy

\* qf_bulk_load of a sorted input leaves every block's offset the spill it stands
\* for and noccupied_slots the number of slots in use, however many runs it
\* closes and however far they reach beyond their buckets, unless they do not
\* fit into the blocks (TypeOK').
THEOREM BulkLoadsAccurate ==
    ASSUME TypeOK, RunsWellFormed, OffsetsExact, SlotsAccounted, TypeOK',
           NEW keys \in BulkInputs, BulkLoad(keys)
    PROVE  OffsetsExact' /\ SlotsAccounted'
<1>1. Accurate(qf')
  BY BulkLoadAccurate
<1> QED
  BY <1>1, AccuracyStated

\* A new filter, and one that qf_reset has emptied.
LEMMA EmptyFilterAccurate == Accurate(EmptyFilter)
<1>1. PICK q : q = EmptyFilter
  OBVIOUS
<1>2. /\ q.occupieds = {} /\ q.runends = {} /\ q.noccupied_slots = 0
      /\ q.offset = [k \in 0 .. NBlocks - 1 |-> 0]
  BY <1>1 DEF EmptyFilter
<1>3. Cardinality(q.occupieds) = 0 /\ Cardinality(q.runends) = 0
  BY <1>2, FS_EmptySet
<1>4. Paired(q)
  BY <1>2, <1>3 DEF Paired
<1>5. UsedSlots(q) = {} /\ Cardinality(UsedSlots(q)) = 0
  <2>1. UsedSlots(q) = {}
    BY <1>2 DEF UsedSlots
  <2> QED
    BY <2>1, FS_EmptySet
<1>6. ASSUME NEW k \in 0 .. NBlocks - 1 PROVE q.offset[k] = Min({MaxOffset, Spill(q, k)})
  <2>1. PICK start \in Int : start = BlockStart(k) /\ start >= 0
    BY BlockStarts DEF Slots
  <2>2. LastUsed(q, start - 1) = 0 - 1
    BY <1>2 DEF LastUsed
  <2>3. Spill(q, k) = 0
    <3>1. Spill(q, k) = IF LastUsed(q, start - 1) < start THEN 0 ELSE LastUsed(q, start - 1) - start + 1
      BY <1>4, <2>1, SpillEnd
    <3> QED
      BY <2>1, <2>2, <3>1
  <2>4. Min({MaxOffset, 0}) = 0
    <3>1. MaxOffset \in Nat
      BY GeometryAssumption
    <3>2. Min({MaxOffset, 0}) = IF MaxOffset <= 0 THEN MaxOffset ELSE 0
      BY <3>1, SmallerOf
    <3> QED
      BY <3>1, <3>2
  <2> QED
    BY <1>2, <2>3, <2>4
<1>7. OffsetsCut(q)
  BY <1>6 DEF OffsetsCut, OffsetsCutTo
<1> QED
  BY <1>1, <1>2, <1>4, <1>5, <1>7 DEF Accurate

\* While the runs are well formed and within the blocks, whatever is inserted,
\* deleted, bulk loaded or reset, the offsets that run_end navigates by stay what
\* the bit vectors determine, and noccupied_slots, which the capacity checks go
\* by, stays the number of slots in use.  Only a delete from a bucket that is not
\* occupied is left out.
THEOREM MetadataAccurate ==
    ASSUME ~ DeletesMiss
    PROVE  Spec /\ [](TypeOK /\ RunsWellFormed) => [](OffsetsExact /\ SlotsAccounted)
<1>1. Init => OffsetsExact /\ SlotsAccounted
  <2>1. ASSUME Init PROVE OffsetsExact /\ SlotsAccounted
    <3>1. Accurate(qf)
      BY <2>1, EmptyFilterAccurate DEF Init
    <3> QED
      BY <3>1 DEF Accurate, OffsetsCut, OffsetsCutTo, OffsetsExact, SlotsAccounted, Spill
  <2> QED
    BY <2>1
<1>2. ASSUME TypeOK, RunsWellFormed, OffsetsExact, SlotsAccounted, TypeOK', [Next]_vars
      PROVE  OffsetsExact' /\ SlotsAccounted'
  <2>1. ASSUME NEW x \in KeyPrefixes, NEW m \in KeyMementos, InsertSingle(x[1], x[2], m)
        PROVE  OffsetsExact' /\ SlotsAccounted'
    BY <1>2, <2>1, InsertionsAccurate
  <2>2. ASSUME NEW x \in KeyPrefixes, NEW ms \in MementoLists, InsertMementos(x[1], x[2], ms)
        PROVE  OffsetsExact' /\ SlotsAccounted'
    BY <1>2, <2>2, InsertionsAccurate
  <2>3. ASSUME NEW x \in KeyPrefixes, NEW m \in KeyMementos, DeleteSingle(x[1], x[2], m)
        PROVE  OffsetsExact' /\ SlotsAccounted'
    <3>1. IsOccupied(qf, x[1])
      BY <2>3 DEF DeleteSingle
    <3> QED
      BY <1>2, <2>3, <3>1, DeletionsAccurate
  <2>4. ASSUME NEW keys \in BulkInputs, BulkLoad(keys)
        PROVE  OffsetsExact' /\ SlotsAccounted'
    BY <1>2, <2>4, BulkLoadsAccurate
  <2>5. CASE Reset
    <3>1. Accurate(qf')
      BY <2>5, EmptyFilterAccurate DEF Reset
    <3> QED
      BY <3>1, AccuracyStated
  <2>6. CASE UNCHANGED vars
    <3>1. qf' = qf
      BY <2>6 DEF vars
    <3>2. Accurate(qf)
      BY <1>2, AccurateFilter
    <3>3. Accurate(qf')
      BY <3>1, <3>2
    <3> QED
      BY <3>3, AccuracyStated
  <2> QED
    BY <1>2, <2>1, <2>2, <2>3, <2>4, <2>5, <2>6 DEF Next
<1> QED
  BY <1>1, <1>2, PTL DEF Spec
=================================================================================
