---------------------- MODULE MementoFilterNavigation_proof ----------------------
(***************************************************************************)
(* Navigation by the block offsets is exact: whenever the bit vectors pair *)
(* every occupied bucket with a runend at or after it and the offsets are  *)
(* the spills cut off at MaxOffset, run_end and find_first_empty_slot find *)
(* what the bit vectors alone determine.                                   *)
(***************************************************************************)
EXTENDS MementoFilterProperties, CountingTheorems

(***************************************************************************)
(* Counting the members of a set up to a point.                            *)
(***************************************************************************)

IntegerSet(S) == IsFiniteSet(S) /\ S \subseteq Int

LEMMA UpToType ==
    ASSUME NEW S, IntegerSet(S), NEW x \in Int
    PROVE  IsFiniteSet({y \in S : y <= x}) /\ UpTo(S, x) \in Nat
<1>1. IsFiniteSet({y \in S : y <= x})
  BY FS_Subset DEF IntegerSet
<1> QED
  BY <1>1, FS_CardinalityType DEF UpTo

\* A step to the right counts one more, or none.
LEMMA UpToStep ==
    ASSUME NEW S, IntegerSet(S), NEW x \in Int, NEW w \in Int, w = x - 1
    PROVE  UpTo(S, x) = UpTo(S, w) + (IF x \in S THEN 1 ELSE 0)
<1> DEFINE T == {y \in S : y <= w}
<1>0. ~ (x <= w) /\ \A y \in S : y <= x <=> y <= w \/ y = x
  BY DEF IntegerSet
<1>1. IsFiniteSet(T) /\ Cardinality(T) \in Nat
  BY FS_Subset, FS_CardinalityType DEF IntegerSet
<1>2. UpTo(S, w) = Cardinality(T)
  BY DEF UpTo
<1>3. CASE x \in S
  <2>1. {y \in S : y <= x} = T \cup {x} /\ x \notin T
    BY <1>0, <1>3
  <2>2. Cardinality(T \cup {x}) = Cardinality(T) + 1
    <3> HIDE DEF T
    <3> QED
      BY <1>1, <2>1, FS_AddElement
  <2> QED
    BY <1>2, <1>3, <2>1, <2>2 DEF UpTo
<1>4. CASE x \notin S
  <2>1. {y \in S : y <= x} = T
    BY <1>0, <1>4
  <2>2. UpTo(S, x) = Cardinality(T)
    BY <2>1 DEF UpTo
  <2> HIDE DEF T
  <2> QED
    BY <1>1, <1>2, <1>4, <2>2
<1> QED
  BY <1>3, <1>4

\* The members of an interval.
LEMMA Between ==
    ASSUME NEW S, IntegerSet(S), NEW a \in Int, NEW b \in Int, a <= b + 1,
           NEW x \in Int, x = a - 1
    PROVE  /\ Cardinality({y \in S : a <= y /\ y <= b}) = UpTo(S, b) - UpTo(S, x)
           /\ UpTo(S, b) - UpTo(S, x) \in 0 .. b - a + 1
<1> DEFINE I == {y \in S : a <= y /\ y <= b}
           T == {y \in S : y <= x}
<1>1. IsFiniteSet(I) /\ IsFiniteSet(T) /\ Cardinality(I) \in Nat /\ Cardinality(T) \in Nat
  BY FS_Subset, FS_CardinalityType DEF IntegerSet
<1>2. {y \in S : y <= b} = I \cup T /\ I \cap T = {}
  <2>1. ASSUME NEW y \in Int
        PROVE  /\ y <= b <=> (y <= x \/ (a <= y /\ y <= b))
               /\ ~ (y <= x /\ a <= y)
    OBVIOUS
  <2> QED
    BY <2>1 DEF IntegerSet
<1>3. Cardinality(I \cup T) = Cardinality(I) + Cardinality(T)
  <2> HIDE DEF I, T
  <2>1. Cardinality(I \cup T) = Cardinality(I) + Cardinality(T) - Cardinality(I \cap T)
    BY <1>1, FS_Union
  <2>2. Cardinality(I \cap T) = 0
    BY <1>2, FS_EmptySet
  <2> QED
    BY <1>1, <2>1, <2>2
<1>4. Cardinality(I) <= b - a + 1
  <2>1. I \subseteq a .. b
    <3>1. \A y \in I : y \in Int /\ a <= y /\ y <= b
      BY DEF IntegerSet
    <3> HIDE DEF I
    <3> QED
      BY <3>1
  <2>2. IsFiniteSet(a .. b) /\ Cardinality(a .. b) = (IF a > b THEN 0 ELSE b - a + 1)
    BY FS_Interval
  <2>3. Cardinality(I) <= Cardinality(a .. b)
    BY <2>1, <2>2, FS_Subset
  <2> QED
    BY <2>2, <2>3
<1>5. UpTo(S, b) = Cardinality(I \cup T) /\ UpTo(S, x) = Cardinality(T)
  BY <1>2 DEF UpTo
<1>6. UpTo(S, b) - UpTo(S, x) = Cardinality(I)
  <2> HIDE DEF I, T
  <2> QED
    BY <1>1, <1>3, <1>5
<1>7. Cardinality(I) \in 0 .. b - a + 1
  <2> HIDE DEF I
  <2> QED
    BY <1>1, <1>4
<1> QED
  BY <1>6, <1>7

\* Counts grow, and no faster than their argument.
LEMMA UpToGrows ==
    ASSUME NEW S, IntegerSet(S), NEW x \in Int, NEW y \in Int, x <= y
    PROVE  UpTo(S, x) <= UpTo(S, y) /\ UpTo(S, y) <= UpTo(S, x) + (y - x)
<1>1. PICK a \in Int : a = x + 1 /\ x = a - 1 /\ a <= y + 1
  OBVIOUS
<1>2. UpTo(S, y) - UpTo(S, x) \in 0 .. y - a + 1
  BY <1>1, Between
<1>3. UpTo(S, x) \in Nat /\ UpTo(S, y) \in Nat
  BY UpToType
<1> QED
  BY <1>1, <1>2, <1>3

\* Beyond the ends of the set.
LEMMA UpToEnds ==
    ASSUME NEW n \in Int, NEW S \in SUBSET (0 .. n), NEW x \in Int
    PROVE  /\ IntegerSet(S)
           /\ x < 0 => UpTo(S, x) = 0
           /\ x >= n => UpTo(S, x) = Cardinality(S)
           /\ UpTo(S, x) <= Cardinality(S) /\ Cardinality(S) \in Nat
<1>0. \A y \in S : y \in Int /\ 0 <= y /\ y <= n
  OBVIOUS
<1>1. IntegerSet(S)
  <2>1. IsFiniteSet(0 .. n)
    BY 0 \in Int, FS_Interval
  <2> QED
    BY <1>0, <2>1, FS_Subset DEF IntegerSet
<1>2. ASSUME x < 0 PROVE UpTo(S, x) = 0
  <2>1. \A y \in S : ~ (y <= x)
    BY <1>0, <1>2
  <2>2. {y \in S : y <= x} = {}
    BY <2>1
  <2> QED
    BY <2>2, FS_EmptySet DEF UpTo
<1>3. ASSUME x >= n PROVE UpTo(S, x) = Cardinality(S)
  <2>1. \A y \in S : y <= x
    BY <1>0, <1>3
  <2>2. {y \in S : y <= x} = S
    BY <2>1
  <2> QED
    BY <2>2 DEF UpTo
<1>4. UpTo(S, x) <= Cardinality(S) /\ Cardinality(S) \in Nat
  BY <1>1, FS_Subset, FS_CardinalityType DEF UpTo, IntegerSet
<1> QED
  BY <1>1, <1>2, <1>3, <1>4

\* Every count from one to the size of the set is that of a member.
LEMMA Selection ==
    ASSUME NEW m \in Nat, NEW S \in SUBSET (0 .. m), NEW n \in 1 .. Cardinality(S)
    PROVE  \E e \in S : UpTo(S, e) = n
<1>1. IntegerSet(S) /\ Cardinality(S) \in Nat
  BY UpToEnds
<1> DEFINE T == {k \in Nat : UpTo(S, k) >= n}
<1>2. m \in T
  <2>1. m \in Int /\ m >= m
    OBVIOUS
  <2>2. UpTo(S, m) = Cardinality(S)
    BY <2>1, UpToEnds
  <2> QED
    BY <1>1, <2>2
<1>3. PICK k \in T : \A j \in T : k <= j
  BY <1>2, LeastNatural
<1>4. PICK i \in Int : i = k - 1
  OBVIOUS
<1>5. UpTo(S, i) < n
  <2>1. CASE k = 0
    <3>1. m \in Int /\ i < 0
      BY <1>4, <2>1
    <3>2. UpTo(S, i) = 0
      BY <3>1, UpToEnds
    <3> QED
      BY <3>2
  <2>2. CASE k # 0
    <3>1. i \in Nat /\ i < k
      BY <1>4, <2>2
    <3>2. i \notin T
      BY <1>3, <3>1
    <3>3. UpTo(S, i) \in Nat
      BY <1>1, UpToType
    <3> QED
      BY <3>1, <3>2, <3>3
  <2> QED
    BY <2>1, <2>2
<1>6. UpTo(S, i) \in Nat /\ UpTo(S, k) = UpTo(S, i) + (IF k \in S THEN 1 ELSE 0)
  <2>1. k \in Int
    OBVIOUS
  <2> HIDE DEF T
  <2> QED
    BY <1>1, <1>4, <2>1, UpToType, UpToStep
<1> QED
  BY <1>3, <1>5, <1>6

(***************************************************************************)
(* The blocks.                                                             *)
(***************************************************************************)

\* Division leaves a remainder below the divisor.
LEMMA Division ==
    ASSUME NEW i \in Nat, NEW d \in Nat \ {0}
    PROVE  /\ i \div d \in Nat
           /\ (i \div d) * d <= i /\ i < (i \div d) * d + d
  OBVIOUS

LEMMA Quotients ==
    ASSUME NEW i \in Nat, NEW d \in Nat \ {0}, NEW k \in Nat, k * d <= i, i < k * d + d
    PROVE  i \div d = k
  OBVIOUS

LEMMA BlocksReach == NBlocks \in Nat \ {0} /\ EndOfBlocks \in Nat /\ XNSlots <= EndOfBlocks
  BY GeometryAssumption, Division DEF NBlocks, EndOfBlocks

\* The block of a slot starts at most a block before it, at the first block's
\* start or one past a slot of the block before.
LEMMA BlockStarts ==
    /\ BlockStart(0) = 0
    /\ \A k \in 0 .. NBlocks - 1 : BlockStart(k) \in Slots
    /\ \A k \in 1 .. NBlocks - 1 :
         /\ k - 1 \in 0 .. NBlocks - 1 /\ BlockStart(k) - 1 \in Slots
         /\ BlockOf(BlockStart(k) - 1) = k - 1
<1>1. ASSUME NEW k \in 0 .. NBlocks - 1 PROVE BlockStart(k) \in Slots
  <2>1. k + 1 <= NBlocks /\ k \in Nat /\ NBlocks \in Nat /\ SlotsPerBlock \in Nat \ {0}
    BY BlocksReach, GeometryAssumption
  <2>2. (k + 1) * SlotsPerBlock <= NBlocks * SlotsPerBlock
    BY <2>1
  <2>3. (k + 1) * SlotsPerBlock = k * SlotsPerBlock + SlotsPerBlock /\ k * SlotsPerBlock \in Nat
    BY <2>1
  <2> QED
    BY <2>1, <2>2, <2>3 DEF BlockStart, Slots, EndOfBlocks
<1>2. ASSUME NEW k \in 1 .. NBlocks - 1
      PROVE  /\ k - 1 \in 0 .. NBlocks - 1 /\ BlockStart(k) - 1 \in Slots
             /\ BlockOf(BlockStart(k) - 1) = k - 1
  <2>1. k - 1 \in Nat /\ SlotsPerBlock \in Nat \ {0} /\ NBlocks \in Nat /\ k - 1 \in 0 .. NBlocks - 1
    BY BlocksReach, GeometryAssumption
  <2>2. BlockStart(k) = (k - 1) * SlotsPerBlock + SlotsPerBlock /\ (k - 1) * SlotsPerBlock \in Nat
    BY <2>1 DEF BlockStart
  <2>3. BlockStart(k) \in Slots
    BY <1>1
  <2>4. BlockStart(k) - 1 \in Nat /\ BlockStart(k) - 1 \in Slots
    BY <2>1, <2>2, <2>3, BlocksReach DEF Slots
  <2>5. BlockOf(BlockStart(k) - 1) = k - 1
    <3>1. (k - 1) * SlotsPerBlock <= BlockStart(k) - 1
      BY <2>1, <2>2
    <3>2. BlockStart(k) - 1 < (k - 1) * SlotsPerBlock + SlotsPerBlock
      BY <2>1, <2>2
    <3> HIDE DEF BlockStart
    <3> QED
      BY <2>1, <2>4, <3>1, <3>2, Quotients DEF BlockOf
  <2> QED
    BY <2>1, <2>4, <2>5
<1>3. BlockStart(0) = 0
  BY GeometryAssumption DEF BlockStart
<1> QED
  BY <1>1, <1>2, <1>3

LEMMA SlotInBlock ==
    ASSUME NEW i \in Slots
    PROVE  /\ BlockOf(i) \in 0 .. NBlocks - 1
           /\ BlockStart(BlockOf(i)) \in Slots
           /\ BlockStart(BlockOf(i)) <= i /\ i < BlockStart(BlockOf(i)) + SlotsPerBlock
<1>1. i \in Nat /\ i < EndOfBlocks /\ SlotsPerBlock \in Nat \ {0} /\ NBlocks \in Nat
  BY BlocksReach, GeometryAssumption DEF Slots
<1>2. /\ BlockOf(i) \in Nat
      /\ BlockStart(BlockOf(i)) <= i /\ i < BlockStart(BlockOf(i)) + SlotsPerBlock
  BY <1>1, Division DEF BlockOf, BlockStart
<1>3. BlockOf(i) < NBlocks
  <2> DEFINE k == BlockOf(i)
  <2>1. k * SlotsPerBlock < NBlocks * SlotsPerBlock
    BY <1>1, <1>2 DEF BlockStart, EndOfBlocks
  <2> HIDE DEF k
  <2>2. k \in Nat
    BY <1>2 DEF k
  <2>3. k < NBlocks
    BY <1>1, <2>1, <2>2
  <2> QED
    BY <2>3 DEF k
<1>4. BlockOf(i) \in 0 .. NBlocks - 1
  BY <1>1, <1>2, <1>3
<1> QED
  BY <1>2, <1>4, BlockStarts

(***************************************************************************)
(* The runs.  The n-th occupied bucket owns the run that ends at the n-th  *)
(* runend.                                                                 *)
(***************************************************************************)

Paired(q) ==
    /\ q.occupieds \subseteq Buckets
    /\ q.runends \subseteq Slots
    /\ Cardinality(q.occupieds) = Cardinality(q.runends)
    /\ \A b \in q.occupieds : RunendOf(q, b) >= b

\* The occupied buckets and the runends up to x.
Occupied(q, x) == UpTo(q.occupieds, x)
Ended(q, x) == UpTo(q.runends, x)

NthRunend(q, n) == CHOOSE e \in q.runends : Ended(q, e) = n

LEMMA TableSets ==
    ASSUME NEW q, Paired(q)
    PROVE  /\ EndOfBlocks - 1 \in Nat
           /\ q.occupieds \in SUBSET (0 .. EndOfBlocks - 1)
           /\ q.runends \in SUBSET (0 .. EndOfBlocks - 1)
           /\ IntegerSet(q.occupieds) /\ IntegerSet(q.runends)
<1>1. EndOfBlocks - 1 \in Nat /\ Buckets \subseteq 0 .. EndOfBlocks - 1
  BY BlocksReach, GeometryAssumption, FilterAssumption DEF Buckets
<1>2. q.occupieds \in SUBSET (0 .. EndOfBlocks - 1) /\ q.runends \in SUBSET (0 .. EndOfBlocks - 1)
  BY <1>1 DEF Paired, Slots
<1> QED
  BY <1>1, <1>2, UpToEnds

LEMMA Counts ==
    ASSUME NEW q, Paired(q), NEW x \in Int
    PROVE  /\ Occupied(q, x) \in 0 .. Cardinality(q.runends)
           /\ Ended(q, x) \in 0 .. Cardinality(q.runends)
           /\ x < 0 => Occupied(q, x) = 0 /\ Ended(q, x) = 0
           /\ x >= EndOfBlocks - 1 => Ended(q, x) = Cardinality(q.runends)
           /\ Cardinality(q.runends) \in Nat
<1>1. EndOfBlocks - 1 \in Int
  BY TableSets
<1>2. UpTo(q.occupieds, x) \in Nat /\ UpTo(q.runends, x) \in Nat
  BY TableSets, UpToType
<1>3. /\ x < 0 => UpTo(q.occupieds, x) = 0
      /\ UpTo(q.occupieds, x) <= Cardinality(q.occupieds)
      /\ Cardinality(q.occupieds) \in Nat
  BY <1>1, TableSets, UpToEnds
<1>4. /\ x < 0 => UpTo(q.runends, x) = 0
      /\ x >= EndOfBlocks - 1 => UpTo(q.runends, x) = Cardinality(q.runends)
      /\ UpTo(q.runends, x) <= Cardinality(q.runends)
  BY <1>1, TableSets, UpToEnds
<1> QED
  BY <1>2, <1>3, <1>4 DEF Occupied, Ended, Paired

LEMMA CountsGrow ==
    ASSUME NEW q, Paired(q), NEW x \in Int, NEW y \in Int, x <= y
    PROVE  /\ Occupied(q, x) <= Occupied(q, y) /\ Occupied(q, y) <= Occupied(q, x) + (y - x)
           /\ Ended(q, x) <= Ended(q, y) /\ Ended(q, y) <= Ended(q, x) + (y - x)
  BY TableSets, UpToGrows DEF Occupied, Ended

\* A bucket or a runend is the first point its own count is reached at.
LEMMA CountReached ==
    ASSUME NEW q, Paired(q), NEW x \in Int, NEW w \in Int, w < x
    PROVE  /\ x \in q.occupieds => Occupied(q, w) < Occupied(q, x)
           /\ x \in q.runends => Ended(q, w) < Ended(q, x)
<1>1. PICK v \in Int : v = x - 1 /\ w <= v
  OBVIOUS
<1>2. /\ UpTo(q.occupieds, x) = UpTo(q.occupieds, v) + (IF x \in q.occupieds THEN 1 ELSE 0)
      /\ UpTo(q.runends, x) = UpTo(q.runends, v) + (IF x \in q.runends THEN 1 ELSE 0)
  BY <1>1, TableSets, UpToStep
<1>3. Occupied(q, w) <= Occupied(q, v) /\ Ended(q, w) <= Ended(q, v)
  BY <1>1, CountsGrow
<1>4. {Occupied(q, w), Occupied(q, v), Ended(q, w), Ended(q, v)} \subseteq Nat
  BY Counts
<1> QED
  BY <1>2, <1>3, <1>4 DEF Occupied, Ended

\* The n-th runend is at or before x exactly when n runends are.
LEMMA NthRunendAt ==
    ASSUME NEW q, Paired(q), NEW n \in 1 .. Cardinality(q.runends), NEW x \in Int
    PROVE  /\ NthRunend(q, n) \in q.runends /\ NthRunend(q, n) \in 0 .. EndOfBlocks - 1
           /\ Ended(q, NthRunend(q, n)) = n
           /\ NthRunend(q, n) <= x <=> n <= Ended(q, x)
<1>1. \E e \in q.runends : UpTo(q.runends, e) = n
  BY TableSets, Selection
<1>2. /\ NthRunend(q, n) \in q.runends /\ NthRunend(q, n) \in 0 .. EndOfBlocks - 1
      /\ Ended(q, NthRunend(q, n)) = n
  BY <1>1, TableSets DEF NthRunend, Ended
<1>3. NthRunend(q, n) \in Int /\ Ended(q, x) \in Nat /\ n \in Nat
  BY <1>2, Counts
<1>4. NthRunend(q, n) <= x => n <= Ended(q, x)
  BY <1>2, <1>3, CountsGrow
<1>5. x < NthRunend(q, n) => Ended(q, x) < n
  BY <1>2, <1>3, CountReached
<1> QED
  BY <1>2, <1>3, <1>4, <1>5

\* Likewise for the buckets, of which the n-th is one of this count.
LEMMA NthBucket ==
    ASSUME NEW q, Paired(q), NEW n \in 1 .. Cardinality(q.runends)
    PROVE  \E b \in q.occupieds : Occupied(q, b) = n /\ b \in 0 .. EndOfBlocks - 1
<1>1. n \in 1 .. Cardinality(q.occupieds)
  BY DEF Paired
<1> QED
  BY <1>1, TableSets, Selection DEF Occupied

\* No more runs have ended up to a slot than have a bucket up to it.
LEMMA EndedWithinOccupied ==
    ASSUME NEW q, Paired(q), NEW x \in Int
    PROVE  Ended(q, x) <= Occupied(q, x)
<1>1. SUFFICES ASSUME Ended(q, x) > Occupied(q, x) PROVE FALSE
  BY Counts
<1>2. Ended(q, x) \in 1 .. Cardinality(q.runends) /\ Occupied(q, x) \in Nat
  BY <1>1, Counts
<1>3. PICK b \in q.occupieds : Occupied(q, b) = Ended(q, x) /\ b \in Int
  BY <1>2, NthBucket
<1>4. b > x
  BY <1>1, <1>2, <1>3, CountsGrow
<1>5. RunendOf(q, b) = NthRunend(q, Ended(q, x))
  BY <1>3 DEF RunendOf, NthRunend, Occupied, Ended
<1>6. NthRunend(q, Ended(q, x)) <= x /\ NthRunend(q, Ended(q, x)) \in Int
  BY <1>2, NthRunendAt
<1>7. RunendOf(q, b) >= b
  BY DEF Paired
<1> QED
  BY <1>3, <1>4, <1>5, <1>6, <1>7

(***************************************************************************)
(* What the reference reading takes for the last slot in use.              *)
(***************************************************************************)

LEMMA Greatest ==
    ASSUME NEW S \in SUBSET Int, NEW m \in S, \A y \in S : y <= m
    PROVE  Max(S) = m
<1>1. \A y \in S : m >= y
  OBVIOUS
<1>2. Max(S) \in S /\ \A y \in S : Max(S) >= y
  BY <1>1 DEF Max
<1>3. Max(S) >= m /\ m >= Max(S) /\ Max(S) \in Int
  BY <1>1, <1>2
<1> QED
  BY <1>3

LEMMA Least ==
    ASSUME NEW S \in SUBSET Int, NEW m \in S, \A y \in S : m <= y
    PROVE  Min(S) = m
<1>1. Min(S) \in S /\ \A y \in S : Min(S) <= y
  BY DEF Min
<1>2. Min(S) <= m /\ m <= Min(S) /\ Min(S) \in Int
  BY <1>1
<1> QED
  BY <1>2

LEMMA LargerOf ==
    ASSUME NEW i \in Int, NEW j \in Int
    PROVE  Max({i, j}) = IF i >= j THEN i ELSE j
  BY Greatest

LEMMA SmallerOf ==
    ASSUME NEW i \in Int, NEW j \in Int
    PROVE  Min({i, j}) = IF i <= j THEN i ELSE j
  BY Least

\* What an offset can hold of a number.
LEMMA CutOffset ==
    ASSUME NEW i \in Int
    PROVE  /\ Min({i, MaxOffset}) = IF i <= MaxOffset THEN i ELSE MaxOffset
           /\ Min({MaxOffset, i}) = IF MaxOffset <= i THEN MaxOffset ELSE i
<1>1. MaxOffset \in Int
  BY GeometryAssumption
<1> QED
  BY <1>1, SmallerOf

\* The last slot in use up to bucket b is the runend of its count.
LEMMA LastUsedByCount ==
    ASSUME NEW q, Paired(q), NEW b \in Int
    PROVE  /\ Occupied(q, b) = 0 => LastUsed(q, b) = -1
           /\ Occupied(q, b) # 0 => LastUsed(q, b) = NthRunend(q, Occupied(q, b))
<1> DEFINE before == {o \in q.occupieds : o <= b}
<1>1. IsFiniteSet(before) /\ Cardinality(before) = Occupied(q, b)
  BY TableSets, UpToType DEF Occupied, UpTo
<1>2. LastUsed(q, b) = IF before = {} THEN -1 ELSE RunendOf(q, Max(before))
  BY DEF LastUsed
<1>3. CASE Occupied(q, b) = 0
  <2>1. before = {}
    <3> HIDE DEF before
    <3> QED
      BY <1>1, <1>3, FS_EmptySet
  <2> QED
    BY <1>2, <1>3, <2>1
<1>4. CASE Occupied(q, b) # 0
  <2>1. Occupied(q, b) \in 1 .. Cardinality(q.runends)
    BY <1>4, Counts
  <2>2. PICK m \in q.occupieds : Occupied(q, m) = Occupied(q, b) /\ m \in Int
    BY <2>1, NthBucket
  <2>3. m <= b
    <3>1. b < m => Occupied(q, b) < Occupied(q, m)
      BY <2>2, CountReached
    <3> QED
      BY <1>1, <2>1, <2>2, <3>1
  <2>4. \A o \in before : o \in Int /\ o <= m
    <3>1. ASSUME NEW o \in before PROVE o \in Int /\ o <= m
      <4>1. o \in q.occupieds /\ o <= b /\ o \in Int
        BY TableSets DEF IntegerSet
      <4>2. Occupied(q, o) <= Occupied(q, b)
        BY <4>1, CountsGrow
      <4>3. m < o => Occupied(q, m) < Occupied(q, o)
        BY <2>2, <4>1, CountReached
      <4>4. Occupied(q, o) \in Nat /\ Occupied(q, b) \in Nat
        BY <4>1, Counts
      <4> QED
        BY <2>2, <4>1, <4>2, <4>3, <4>4
    <3> QED
      BY <3>1
  <2>5. m \in before
    BY <2>3
  <2>6. Max(before) = m /\ before # {}
    <3> HIDE DEF before
    <3> QED
      BY <2>4, <2>5, Greatest
  <2>7. RunendOf(q, m) = NthRunend(q, Occupied(q, b))
    BY <2>2 DEF RunendOf, NthRunend, Occupied, Ended
  <2> QED
    BY <1>2, <1>4, <2>6, <2>7
<1> QED
  BY <1>3, <1>4

\* It is at or before x exactly when as many runs have ended up to x.
LEMMA LastUsedAt ==
    ASSUME NEW q, Paired(q), NEW b \in Int, NEW x \in Int, x >= -1
    PROVE  /\ LastUsed(q, b) \in -1 .. EndOfBlocks - 1
           /\ LastUsed(q, b) <= x <=> Occupied(q, b) <= Ended(q, x)
<1>1. Occupied(q, b) \in 0 .. Cardinality(q.runends) /\ Ended(q, x) \in Nat /\ EndOfBlocks - 1 \in Nat
  BY Counts, TableSets
<1>2. CASE Occupied(q, b) = 0
  BY <1>1, <1>2, LastUsedByCount
<1>3. CASE Occupied(q, b) # 0
  <2>1. Occupied(q, b) \in 1 .. Cardinality(q.runends)
    BY <1>1, <1>3
  <2>2. /\ NthRunend(q, Occupied(q, b)) \in 0 .. EndOfBlocks - 1
        /\ NthRunend(q, Occupied(q, b)) <= x <=> Occupied(q, b) <= Ended(q, x)
    BY <2>1, NthRunendAt
  <2>3. LastUsed(q, b) = NthRunend(q, Occupied(q, b))
    BY <1>3, LastUsedByCount
  <2> QED
    BY <1>1, <2>2, <2>3
<1> QED
  BY <1>2, <1>3

(***************************************************************************)
(* run_end.                                                                *)
(***************************************************************************)

\* The slots from the start of block k on that runs of earlier buckets fill.
Spill(q, k) == Max({0, LastUsed(q, BlockStart(k) - 1) - BlockStart(k) + 1})

\* As many runs end before the spill's end as start before the block.
LEMMA SpillEnd ==
    ASSUME NEW q, Paired(q), NEW k \in 0 .. NBlocks - 1,
           NEW base \in Int, base = BlockStart(k), NEW w \in Int, w = base - 1
    PROVE  /\ base \in Slots /\ w >= -1
           /\ Spill(q, k) \in Nat
           /\ Spill(q, k) = (IF LastUsed(q, w) < base THEN 0 ELSE LastUsed(q, w) - base + 1)
           /\ Ended(q, w + Spill(q, k)) = Occupied(q, w)
<1>1. base \in Slots /\ base >= 0 /\ w >= -1
  BY BlockStarts DEF Slots
<1>2. LastUsed(q, w) \in Int /\ LastUsed(q, w) >= -1
  BY <1>1, LastUsedAt
<1>3. Spill(q, k) = (IF LastUsed(q, w) < base THEN 0 ELSE LastUsed(q, w) - base + 1)
  <2>1. Spill(q, k) = Max({0, LastUsed(q, w) - base + 1})
    BY DEF Spill
  <2>2. LastUsed(q, w) - base + 1 \in Int
    BY <1>2
  <2>3. Spill(q, k) = IF 0 >= LastUsed(q, w) - base + 1 THEN 0 ELSE LastUsed(q, w) - base + 1
    BY <2>1, <2>2, LargerOf
  <2> QED
    BY <1>2, <2>3
<1>4. Ended(q, w + Spill(q, k)) = Occupied(q, w)
  <2>1. CASE LastUsed(q, w) < base
    <3>1. w + Spill(q, k) = w /\ LastUsed(q, w) <= w
      BY <1>2, <1>3, <2>1
    <3>2. Occupied(q, w) <= Ended(q, w)
      BY <1>1, <3>1, LastUsedAt
    <3>3. Ended(q, w) <= Occupied(q, w) /\ Ended(q, w) \in Nat /\ Occupied(q, w) \in Nat
      BY EndedWithinOccupied, Counts
    <3> QED
      BY <3>1, <3>2, <3>3
  <2>2. CASE ~ (LastUsed(q, w) < base)
    <3>1. w + Spill(q, k) = LastUsed(q, w) /\ LastUsed(q, w) # -1
      BY <1>1, <1>2, <1>3, <2>2
    <3>2. Occupied(q, w) # 0 /\ LastUsed(q, w) = NthRunend(q, Occupied(q, w))
      BY <3>1, LastUsedByCount
    <3>3. Occupied(q, w) \in 1 .. Cardinality(q.runends)
      BY <3>2, Counts
    <3> QED
      BY <3>1, <3>2, <3>3, NthRunendAt
  <2> QED
    BY <2>1, <2>2
<1> QED
  BY <1>1, <1>2, <1>3, <1>4

\* What the end of b's run, or of the runs over b, is.
EndOfRuns(q, b) == Max({b, LastUsed(q, b)})

LEMMA EndOfRunsIs ==
    ASSUME NEW q, Paired(q), NEW b \in Int, b >= -1
    PROVE  /\ EndOfRuns(q, b) = (IF b >= LastUsed(q, b) THEN b ELSE LastUsed(q, b))
           /\ LastUsed(q, b) \in Int
<1>1. LastUsed(q, b) \in Int
  BY LastUsedAt
<1> QED
  BY <1>1, LargerOf DEF EndOfRuns

\* The rank of a bucket in its block.
LEMMA RankByCount ==
    ASSUME NEW q, Paired(q), NEW b \in Slots, NEW base \in Int, base = BlockStart(BlockOf(b)),
           NEW w \in Int, w = base - 1
    PROVE  Rank(q, b) = Occupied(q, b) - Occupied(q, w)
<1>1. base <= b + 1 /\ b \in Int
  BY SlotInBlock DEF Slots
<1>2. Cardinality({o \in q.occupieds : base <= o /\ o <= b}) = Occupied(q, b) - Occupied(q, w)
  BY <1>1, TableSets, Between DEF Occupied
<1> QED
  BY <1>2 DEF Rank

\* Selecting past the first p runs' ends.
LEMMA SelectByCount ==
    ASSUME NEW q, Paired(q), NEW from \in Int, NEW w \in Int, w = from - 1,
           NEW rank \in Nat \ {0}, Ended(q, w) + rank <= Cardinality(q.runends)
    PROVE  SelectRunend(q, from, rank) = NthRunend(q, Ended(q, w) + rank)
<1> DEFINE ends == {e \in q.runends : from <= e}
           nth(e) == Cardinality({x \in ends : x <= e}) = rank
           n == Ended(q, w) + rank
<1>0. n \in 1 .. Cardinality(q.runends) /\ Ended(q, w) \in Nat
  BY Counts
<1>1. NthRunend(q, n) \in q.runends /\ Ended(q, NthRunend(q, n)) = n /\ NthRunend(q, n) \in Int
  BY <1>0, NthRunendAt
<1>2. ASSUME NEW e \in ends
      PROVE  nth(e) <=> Ended(q, e) = n
  <2>1. e \in Int /\ from <= e + 1 /\ e \in q.runends
    BY TableSets DEF IntegerSet
  <2>2. Cardinality({y \in q.runends : from <= y /\ y <= e}) = Ended(q, e) - Ended(q, w)
    BY <2>1, TableSets, Between DEF Ended
  <2>3. {x \in ends : x <= e} = {y \in q.runends : from <= y /\ y <= e}
    OBVIOUS
  <2>4. nth(e) <=> Ended(q, e) - Ended(q, w) = rank
    BY <2>2, <2>3
  <2>5. Ended(q, e) \in Nat
    BY <2>1, Counts
  <2> QED
    BY <1>0, <2>4, <2>5
<1>3. NthRunend(q, n) \in ends
  <2>1. ~ (NthRunend(q, n) <= w)
    BY <1>0, NthRunendAt
  <2> QED
    BY <1>1, <2>1
<1>4. \A e \in ends : Ended(q, e) = n => e = NthRunend(q, n)
  <2>1. ASSUME NEW e \in ends, Ended(q, e) = n PROVE e = NthRunend(q, n)
    <3>1. e \in q.runends /\ e \in Int
      BY TableSets DEF IntegerSet
    <3>2. ~ (e < NthRunend(q, n)) /\ ~ (NthRunend(q, n) < e)
      BY <1>0, <1>1, <2>1, <3>1, CountReached
    <3> QED
      BY <1>1, <3>1, <3>2
  <2> QED
    BY <2>1
<1>5. SelectRunend(q, from, rank)
        = IF \E e \in ends : nth(e) THEN CHOOSE e \in ends : nth(e) ELSE EndOfBlocks
  BY DEF SelectRunend
<1> HIDE DEF ends, nth, n
<1>6. (\E e \in ends : nth(e)) /\ (CHOOSE e \in ends : nth(e)) = NthRunend(q, n)
  BY <1>1, <1>2, <1>3, <1>4
<1>7. SelectRunend(q, from, rank) = NthRunend(q, n)
  BY <1>5, <1>6
<1> QED
  BY <1>7 DEF n

\* Given the spill of the bucket's block, run_end is exact.
LEMMA RunEndFromSpill ==
    ASSUME NEW q, Paired(q), NEW b \in Slots
    PROVE  RunEndFrom(q, b, Spill(q, BlockOf(b))) = EndOfRuns(q, b)
<1> DEFINE k == BlockOf(b)
           base == BlockStart(k)
           w == base - 1
           from == base + Spill(q, k)
           rank == Rank(q, b)
<1>1. k \in 0 .. NBlocks - 1 /\ base \in Int /\ w \in Int /\ base <= b /\ b \in Int /\ 0 <= b
  BY SlotInBlock DEF Slots
<1>2. /\ w >= -1 /\ Spill(q, k) \in Nat
      /\ Spill(q, k) = (IF LastUsed(q, w) < base THEN 0 ELSE LastUsed(q, w) - base + 1)
      /\ Ended(q, w + Spill(q, k)) = Occupied(q, w)
  BY <1>1, SpillEnd
<1>3. rank = Occupied(q, b) - Occupied(q, w)
  BY <1>1, RankByCount
<1>4. Occupied(q, b) \in Nat /\ Occupied(q, w) \in Nat /\ Occupied(q, w) <= Occupied(q, b)
  BY <1>1, Counts, CountsGrow
<1>5. LastUsed(q, b) \in Int /\ LastUsed(q, w) \in Int
      /\ EndOfRuns(q, b) = (IF b >= LastUsed(q, b) THEN b ELSE LastUsed(q, b))
  BY <1>1, <1>2, EndOfRunsIs
<1>6. RunEndFrom(q, b, Spill(q, k))
        = IF rank = 0
          THEN IF Spill(q, k) <= b - base THEN b ELSE base + Spill(q, k) - 1
          ELSE Max({b, SelectRunend(q, from, rank)})
  BY DEF RunEndFrom
<1>7. CASE rank = 0
  <2>1. Occupied(q, b) = Occupied(q, w)
    BY <1>3, <1>4, <1>7
  <2>2. LastUsed(q, b) = LastUsed(q, w)
    BY <1>1, <2>1, LastUsedByCount
  <2>3. RunEndFrom(q, b, Spill(q, k)) = IF Spill(q, k) <= b - base THEN b ELSE base + Spill(q, k) - 1
    BY <1>6, <1>7
  <2>4. w = base - 1
    OBVIOUS
  <2>5. RunEndFrom(q, b, Spill(q, k)) = EndOfRuns(q, b)
    <3> HIDE DEF k, base, w, rank
    <3> QED
      BY <1>1, <1>2, <1>5, <2>2, <2>3, <2>4
  <2> QED
    BY <2>5
<1>8. CASE rank # 0
  <2>1. Occupied(q, b) # 0 /\ rank \in Nat \ {0}
    BY <1>3, <1>4, <1>8
  <2>2. LastUsed(q, b) = NthRunend(q, Occupied(q, b))
    BY <1>1, <2>1, LastUsedByCount
  <2>3. from \in Int /\ w + Spill(q, k) \in Int /\ w + Spill(q, k) = from - 1
    BY <1>1, <1>2
  <2>4. Ended(q, w + Spill(q, k)) + rank = Occupied(q, b)
    BY <1>2, <1>3, <1>4
  <2>5. Occupied(q, b) <= Cardinality(q.runends)
    BY <1>1, Counts
  <2>6. SelectRunend(q, from, rank) = NthRunend(q, Occupied(q, b))
    <3> HIDE DEF from, w, rank, k
    <3> QED
      BY <2>1, <2>3, <2>4, <2>5, SelectByCount
  <2>7. RunEndFrom(q, b, Spill(q, k)) = Max({b, LastUsed(q, b)})
    BY <1>6, <1>8, <2>2, <2>6
  <2> QED
    BY <2>7 DEF EndOfRuns
<1> QED
  BY <1>7, <1>8

\* The offsets of the blocks up to n are the spills, cut off.
OffsetsCutTo(q, n) == \A k \in 0 .. n : q.offset[k] = Min({MaxOffset, Spill(q, k)})

OffsetsCut(q) == OffsetsCutTo(q, NBlocks - 1)

LEMMA OffsetIs ==
    ASSUME NEW q, Paired(q), NEW n \in 0 .. NBlocks - 1, OffsetsCutTo(q, n), NEW k \in 0 .. n
    PROVE  /\ Spill(q, k) \in Nat /\ MaxOffset \in Nat
           /\ q.offset[k] = (IF MaxOffset <= Spill(q, k) THEN MaxOffset ELSE Spill(q, k))
           /\ Spill(q, 0) = 0
<1>0. k \in 0 .. NBlocks - 1
  BY BlocksReach
<1>1. \A j \in 0 .. NBlocks - 1 :
        /\ BlockStart(j) \in Int /\ BlockStart(j) - 1 \in Int /\ Spill(q, j) \in Nat
        /\ Spill(q, j) = IF LastUsed(q, BlockStart(j) - 1) < BlockStart(j)
                      THEN 0 ELSE LastUsed(q, BlockStart(j) - 1) - BlockStart(j) + 1
  <2>1. ASSUME NEW j \in 0 .. NBlocks - 1
        PROVE  BlockStart(j) \in Int /\ BlockStart(j) - 1 \in Int
    BY BlockStarts DEF Slots
  <2> QED
    BY <2>1, SpillEnd
<1>2. MaxOffset \in Nat
  BY GeometryAssumption
<1>3. Min({MaxOffset, Spill(q, k)}) = IF MaxOffset <= Spill(q, k) THEN MaxOffset ELSE Spill(q, k)
  BY <1>0, <1>1, <1>2, SmallerOf
<1>4. Spill(q, 0) = 0
  <2>1. 0 \in 0 .. NBlocks - 1 /\ BlockStart(0) = 0 /\ 0 - 1 = -1 /\ -1 \in Int
    BY BlocksReach, BlockStarts
  <2>2. LastUsed(q, -1) = -1
    BY <2>1, Counts, LastUsedByCount
  <2> QED
    BY <1>1, <2>1, <2>2
<1> QED
  BY <1>0, <1>1, <1>2, <1>3, <1>4 DEF OffsetsCutTo

\* The recursion of block_offset for the spills s of the blocks.
RecomputesSpills(q, s) ==
    s = [k \in 0 .. NBlocks - 1 |->
            IF q.offset[k] < MaxOffset \/ k = 0
            THEN q.offset[k]
            ELSE RunEndFrom(q, BlockStart(k) - 1, s[k - 1]) - BlockStart(k) + 1]

\* Given the spill of the block before, that recursion is exact too.
LEMMA SpillStep ==
    ASSUME NEW q, Paired(q), NEW n \in 0 .. NBlocks - 1, OffsetsCutTo(q, n), NEW k \in 0 .. n
    PROVE  Spill(q, k) = IF q.offset[k] < MaxOffset \/ k = 0
                         THEN q.offset[k]
                         ELSE RunEndFrom(q, BlockStart(k) - 1, Spill(q, k - 1)) - BlockStart(k) + 1
<1>1. CASE q.offset[k] < MaxOffset
  BY <1>1, OffsetIs
<1>2. CASE k = 0
  BY <1>2, OffsetIs, GeometryAssumption
<1>3. CASE ~ (q.offset[k] < MaxOffset) /\ k # 0
  <2>1. k \in 1 .. NBlocks - 1
    BY <1>3, BlocksReach
  <2>2. BlockStart(k) - 1 \in Slots /\ BlockOf(BlockStart(k) - 1) = k - 1
    BY <2>1, BlockStarts
  <2>3. PICK w \in Slots : w = BlockStart(k) - 1 /\ BlockOf(w) = k - 1
    BY <2>2
  <2>4. RunEndFrom(q, w, Spill(q, k - 1)) = EndOfRuns(q, w)
    BY <2>3, RunEndFromSpill
  <2>5. BlockStart(k) \in Int /\ w \in Int /\ w >= -1
    BY <2>1, <2>3, BlockStarts DEF Slots
  <2>6. Spill(q, k) = (IF LastUsed(q, w) < BlockStart(k) THEN 0 ELSE LastUsed(q, w) - BlockStart(k) + 1)
    BY <2>1, <2>3, <2>5, SpillEnd
  <2>7. EndOfRuns(q, w) = (IF w >= LastUsed(q, w) THEN w ELSE LastUsed(q, w)) /\ LastUsed(q, w) \in Int
    BY <2>5, EndOfRunsIs
  <2>8. Spill(q, k) = EndOfRuns(q, w) - BlockStart(k) + 1
    BY <2>3, <2>5, <2>6, <2>7
  <2> QED
    BY <1>3, <2>3, <2>4, <2>8
<1> QED
  BY <1>1, <1>2, <1>3

\* The recursion of block_offset has a solution, block by block.
LEMMA SpillsExist ==
    ASSUME NEW q
    PROVE  \E s : RecomputesSpills(q, s)
<1> DEFINE Turn(s, k) == IF q.offset[k] < MaxOffset \/ k = 0
                         THEN q.offset[k]
                         ELSE RunEndFrom(q, BlockStart(k) - 1, s[k - 1]) - BlockStart(k) + 1
           Blocks == 0 .. NBlocks - 1
           Missing == {m \in Nat : m < NBlocks /\ ~ \E s : /\ s = [k \in Blocks |-> s[k]]
                                                         /\ \A k \in Blocks : k <= m => s[k] = Turn(s, k)}
<1>0. NBlocks \in Nat \ {0}
  BY BlocksReach
<1>1. CASE Missing = {}
  <2>1. NBlocks - 1 \in Nat /\ NBlocks - 1 < NBlocks /\ NBlocks - 1 \notin Missing
    BY <1>0, <1>1
  <2>2. PICK s : s = [k \in Blocks |-> s[k]] /\ \A k \in Blocks : k <= NBlocks - 1 => s[k] = Turn(s, k)
    BY <2>1
  <2>3. \A k \in Blocks : k <= NBlocks - 1
    BY <1>0
  <2>4. s = [k \in Blocks |-> Turn(s, k)]
    <3> HIDE DEF Turn, Blocks
    <3> QED
      BY <2>2, <2>3
  <2> QED
    BY <2>4 DEF RecomputesSpills
<1>2. CASE Missing # {}
  <2>1. PICK m \in Missing : \A j \in Missing : m <= j
    BY <1>2, LeastNatural
  <2>2. m \in Blocks /\ m \in Nat
    BY <1>0, <2>1
  <2>3. \E t : /\ t = [k \in Blocks |-> t[k]]
               /\ \A k \in Blocks : k < m => t[k] = Turn(t, k)
    <3>1. CASE m = 0
      <4>1. \A k \in Blocks : ~ (k < m)
        BY <1>0, <3>1
      <4>2. [k \in Blocks |-> 0] = [k \in Blocks |-> [i \in Blocks |-> 0][k]]
        OBVIOUS
      <4> QED
        BY <4>1, <4>2
    <3>2. CASE m # 0
      <4>1. PICK l \in Nat : l = m - 1 /\ l < m /\ l < NBlocks
        BY <1>0, <2>1, <3>2
      <4>2. l \notin Missing
        BY <2>1, <4>1
      <4>3. PICK t : t = [k \in Blocks |-> t[k]] /\ \A k \in Blocks : k <= l => t[k] = Turn(t, k)
        BY <4>1, <4>2
      <4>4. \A k \in Blocks : k < m => k <= l
        BY <2>2, <4>1
      <4> HIDE DEF Turn
      <4> QED
        BY <4>3, <4>4
    <3> QED
      BY <3>1, <3>2
  <2>4. PICK t : t = [k \in Blocks |-> t[k]] /\ \A k \in Blocks : k < m => t[k] = Turn(t, k)
    BY <2>3
  <2> DEFINE s == [k \in Blocks |-> IF k = m THEN Turn(t, m) ELSE t[k]]
  <2>5. ASSUME NEW k \in Blocks, k <= m PROVE s[k] = Turn(s, k)
    <3>1. k # 0 => k - 1 \in Blocks /\ k - 1 # m
      BY <1>0, <2>2, <2>5
    <3>2. k # 0 => s[k - 1] = t[k - 1]
      BY <3>1
    <3>3. Turn(s, k) = Turn(t, k)
      BY <3>2
    <3>4. k = m \/ k < m
      BY <1>0, <2>2, <2>5
    <3>5. s[k] = Turn(t, k)
      <4> HIDE DEF Turn, Blocks
      <4> QED
        BY <2>4, <2>5, <3>4
    <3> QED
      BY <3>3, <3>5
  <2>6. s = [k \in Blocks |-> s[k]]
    OBVIOUS
  <2> HIDE DEF s, Turn
  <2> QED
    BY <2>1, <2>5, <2>6
<1> QED
  BY <1>1, <1>2

\* block_offset yields the spills, saturated offsets or not, as far as the
\* offsets are right.
LEMMA BlockOffsetExact ==
    ASSUME NEW q, Paired(q), NEW n \in 0 .. NBlocks - 1, OffsetsCutTo(q, n)
    PROVE  \A k \in 0 .. n : BlockOffset(q)[k] = Spill(q, k)
<1>1. BlockOffset(q) = CHOOSE s : RecomputesSpills(q, s)
  BY DEF BlockOffset, RecomputesSpills
<1>3. PICK s : RecomputesSpills(q, s) /\ BlockOffset(q) = s
  BY <1>1, SpillsExist
<1> DEFINE Wrong == {k \in Nat : k \in 0 .. n /\ s[k] # Spill(q, k)}
<1>4. SUFFICES ASSUME Wrong # {} PROVE FALSE
  BY <1>3
<1>5. PICK k \in Wrong : \A j \in Wrong : k <= j
  BY <1>4, LeastNatural
<1>6. s[k] = IF q.offset[k] < MaxOffset \/ k = 0
             THEN q.offset[k]
             ELSE RunEndFrom(q, BlockStart(k) - 1, s[k - 1]) - BlockStart(k) + 1
  <2>1. k \in 0 .. NBlocks - 1
    BY <1>5, BlocksReach
  <2> QED
    BY <1>3, <2>1 DEF RecomputesSpills
<1>7. k # 0 => s[k - 1] = Spill(q, k - 1)
  <2>1. k # 0 => k - 1 \in 0 .. n /\ k - 1 \in Nat /\ ~ (k <= k - 1)
    BY <1>5, BlocksReach
  <2> QED
    BY <1>5, <2>1
<1> QED
  BY <1>5, <1>6, <1>7, SpillStep

\* run_end goes by the offset of the bucket's block and those of earlier ones.
LEMMA RunEndExactTo ==
    ASSUME NEW q, Paired(q), NEW b \in Slots, OffsetsCutTo(q, BlockOf(b))
    PROVE  RunEnd(q, b) = EndOfRuns(q, b)
<1>1. BlockOf(b) \in 0 .. NBlocks - 1 /\ BlockOf(b) \in 0 .. BlockOf(b)
  BY SlotInBlock, BlocksReach
<1>2. BlockOffset(q)[BlockOf(b)] = Spill(q, BlockOf(b))
  BY <1>1, BlockOffsetExact
<1> QED
  BY <1>2, RunEndFromSpill DEF RunEnd

LEMMA RunEndExact ==
    ASSUME NEW q, Paired(q), OffsetsCut(q), NEW b \in Slots
    PROVE  RunEnd(q, b) = EndOfRuns(q, b)
<1>1. BlockOf(b) \in 0 .. NBlocks - 1 /\ \A k \in 0 .. BlockOf(b) : k \in 0 .. NBlocks - 1
  BY SlotInBlock, BlocksReach
<1>2. OffsetsCutTo(q, BlockOf(b))
  BY <1>1 DEF OffsetsCut, OffsetsCutTo
<1> QED
  BY <1>2, RunEndExactTo

(***************************************************************************)
(* find_first_empty_slot.                                                  *)
(***************************************************************************)

\* A slot is in use when fewer runs have ended before it than have begun.
Pending(q, t) == Ended(q, t - 1) < Occupied(q, t)

LEMMA PendingUsed ==
    ASSUME NEW q, Paired(q), NEW t \in Slots
    PROVE  t \in UsedSlots(q) <=> Pending(q, t)
<1>0. PICK v \in Int : v = t - 1 /\ v >= -1 /\ v < t /\ t \in Int /\ t <= v + 1
  BY DEF Slots
<1>1. ASSUME NEW b \in q.occupieds
      PROVE  /\ b \in Int /\ b >= 0 /\ b - 1 \in Int /\ RunendOf(q, b) = LastUsed(q, b)
             /\ LastUsed(q, b) \in Int /\ LastUsed(q, b - 1) \in Int
             /\ RunOf(q, b) = (IF b >= LastUsed(q, b - 1) + 1 THEN b ELSE LastUsed(q, b - 1) + 1) .. LastUsed(q, b)
  <2>1. b \in Int /\ b >= 0 /\ b - 1 \in Int /\ b - 1 < b
    BY TableSets
  <2>2. Occupied(q, b - 1) < Occupied(q, b) /\ Occupied(q, b - 1) \in Nat /\ Occupied(q, b) \in Nat
    BY <2>1, CountReached, Counts
  <2>3. RunendOf(q, b) = LastUsed(q, b)
    <3>1. LastUsed(q, b) = NthRunend(q, Occupied(q, b))
      BY <2>1, <2>2, LastUsedByCount
    <3> QED
      BY <3>1 DEF RunendOf, NthRunend, Occupied, Ended
  <2>4. LastUsed(q, b) \in Int /\ LastUsed(q, b - 1) \in Int
    BY <1>0, <2>1, LastUsedAt
  <2>5. Max({b, LastUsed(q, b - 1) + 1}) = IF b >= LastUsed(q, b - 1) + 1 THEN b ELSE LastUsed(q, b - 1) + 1
    <3>1. LastUsed(q, b - 1) + 1 \in Int
      BY <2>4
    <3> QED
      BY <2>1, <3>1, LargerOf
  <2> QED
    BY <2>1, <2>3, <2>4, <2>5 DEF RunOf
<1>2. ASSUME NEW b \in q.occupieds, t \in RunOf(q, b)
      PROVE  Pending(q, t)
  <2>1. b <= t /\ ~ (LastUsed(q, b) <= v)
    BY <1>0, <1>1, <1>2
  <2>2. ~ (Occupied(q, b) <= Ended(q, v))
    BY <1>0, <1>1, <2>1, LastUsedAt
  <2>3. Occupied(q, b) <= Occupied(q, t)
    BY <1>0, <1>1, <2>1, CountsGrow
  <2>4. Occupied(q, b) \in Nat /\ Occupied(q, t) \in Nat /\ Ended(q, v) \in Nat
    <3>1. b \in Int
      BY <1>1
    <3> QED
      BY <1>0, <3>1, Counts
  <2> QED
    BY <1>0, <2>2, <2>3, <2>4 DEF Pending
<1>3. ASSUME Pending(q, t)
      PROVE  \E b \in q.occupieds : t \in RunOf(q, b)
  <2>1. /\ Ended(q, v) \in Nat /\ Occupied(q, t) \in 0 .. Cardinality(q.runends)
        /\ Ended(q, v) < Occupied(q, t) /\ Cardinality(q.runends) \in Nat
    BY <1>0, <1>3, Counts DEF Pending
  <2>2. PICK n \in 1 .. Cardinality(q.runends) : n = Ended(q, v) + 1 /\ n <= Occupied(q, t)
    BY <2>1
  <2>3. PICK b \in q.occupieds : Occupied(q, b) = n
    BY <2>2, NthBucket
  <2>0. PICK a \in Int : a = b - 1 /\ b \in Int /\ a < b
    BY <1>1
  <2>4. b <= t
    <3>1. t < b => Occupied(q, t) < Occupied(q, b)
      BY <1>0, <1>1, CountReached
    <3> QED
      BY <1>0, <1>1, <2>1, <2>2, <2>3, <3>1
  <2>5. ~ (LastUsed(q, b) <= v)
    <3>1. ~ (Occupied(q, b) <= Ended(q, v))
      BY <2>1, <2>2, <2>3
    <3> QED
      BY <1>0, <2>0, <3>1, LastUsedAt
  <2>6. LastUsed(q, b - 1) <= v
    <3>1. Occupied(q, a) < Occupied(q, b) /\ Occupied(q, a) \in Nat
      BY <2>0, CountReached, Counts
    <3>2. Occupied(q, a) <= Ended(q, v)
      BY <2>1, <2>2, <2>3, <3>1
    <3>3. LastUsed(q, a) <= v
      BY <1>0, <2>0, <3>2, LastUsedAt
    <3> QED
      BY <2>0, <3>3
  <2> QED
    BY <1>0, <1>1, <2>4, <2>5, <2>6
<1> QED
  BY <1>2, <1>3 DEF UsedSlots

\* offset_lower_bound is zero for a slot not in use; otherwise the slots it
\* counts are in use.
LEMMA LowerBoundExact ==
    ASSUME NEW q, Paired(q), OffsetsCut(q), NEW s \in Slots
    PROVE  /\ OffsetLowerBound(q, s) \in Nat
           /\ OffsetLowerBound(q, s) = 0 => ~ Pending(q, s)
           /\ \A t \in s .. s + OffsetLowerBound(q, s) - 1 : Pending(q, t)
<1> DEFINE k == BlockOf(s)
           base == BlockStart(k)
           w == base - 1
           o == q.offset[k]
           end == w + Spill(q, k)
           v == s - 1
<1>1. /\ k \in 0 .. NBlocks - 1 /\ base \in Int /\ w \in Int /\ base <= s /\ s < base + SlotsPerBlock
      /\ s \in Int /\ v \in Int /\ 0 <= s /\ w <= v /\ SlotsPerBlock <= MaxOffset
      /\ SlotsPerBlock \in Nat /\ w = base - 1 /\ v = s - 1
  BY SlotInBlock, GeometryAssumption DEF Slots
<1>2. /\ w >= -1 /\ Spill(q, k) \in Nat /\ end \in Int /\ LastUsed(q, w) \in Int
      /\ end = w + Spill(q, k)
      /\ Spill(q, k) = (IF LastUsed(q, w) < base THEN 0 ELSE LastUsed(q, w) - base + 1)
      /\ Ended(q, end) = Occupied(q, w)
  BY <1>1, SpillEnd, LastUsedAt
<1>3. /\ MaxOffset \in Nat /\ o \in Nat /\ o <= Spill(q, k)
      /\ o = (IF MaxOffset <= Spill(q, k) THEN MaxOffset ELSE Spill(q, k))
  <2>1. NBlocks - 1 \in 0 .. NBlocks - 1 /\ OffsetsCutTo(q, NBlocks - 1)
    BY BlocksReach DEF OffsetsCut
  <2> QED
    BY <1>1, <2>1, OffsetIs
<1>4. /\ {Occupied(q, s), Occupied(q, w), Ended(q, v)} \subseteq Nat
      /\ Occupied(q, w) <= Occupied(q, s)
  BY <1>1, Counts, CountsGrow
<1>5. Cardinality({y \in q.occupieds : base <= y /\ y <= s}) = Occupied(q, s) - Occupied(q, w)
  BY <1>1, TableSets, Between DEF Occupied
<1>6. CASE o <= s - base
  <2>1. o = Spill(q, k) /\ end <= v /\ base + o \in Int /\ end = base + o - 1 /\ base + o <= v + 1
    <3> HIDE DEF k, base, w, o, end, v
    <3> QED
      BY <1>1, <1>2, <1>3, <1>6
  <2>2. Cardinality({e \in q.runends : base + o <= e /\ e <= v}) = Ended(q, v) - Ended(q, end)
    <3> HIDE DEF k, base, w, o, end, v
    <3>1. PICK from \in Int : from = base + o /\ end = from - 1 /\ from <= v + 1
      BY <1>1, <1>3, <2>1
    <3>2. Cardinality({e \in q.runends : from <= e /\ e <= v}) = Ended(q, v) - Ended(q, end)
      BY <1>1, <1>2, <3>1, TableSets, Between DEF Ended
    <3> QED
      BY <3>1, <3>2
  <2>3. {e \in q.runends : base + o <= e /\ e < s} = {e \in q.runends : base + o <= e /\ e <= v}
    <3>1. \A e \in q.runends : e < s <=> e <= v
      BY <1>1, TableSets DEF IntegerSet
    <3> HIDE DEF base, o, v
    <3> QED
      BY <3>1
  <2>4. OffsetLowerBound(q, s)
          = Cardinality({y \in q.occupieds : base <= y /\ y <= s})
            - Cardinality({e \in q.runends : base + o <= e /\ e < s})
    BY <1>6 DEF OffsetLowerBound
  <2>5. OffsetLowerBound(q, s) = Occupied(q, s) - Ended(q, v)
    <3>1. OffsetLowerBound(q, s) = (Occupied(q, s) - Occupied(q, w)) - (Ended(q, v) - Occupied(q, w))
      BY <1>2, <1>5, <2>2, <2>3, <2>4
    <3> HIDE DEF v, w
    <3> QED
      BY <1>4, <3>1
  <2>6. Ended(q, v) <= Ended(q, s) /\ Ended(q, s) <= Occupied(q, s) /\ Ended(q, s) \in Nat
    BY <1>1, CountsGrow, EndedWithinOccupied, Counts
  <2>7. OffsetLowerBound(q, s) \in Nat
    BY <1>4, <2>5, <2>6
  <2>8. OffsetLowerBound(q, s) = 0 => ~ Pending(q, s)
    BY <1>4, <2>5 DEF Pending
  <2>9. ASSUME NEW t \in s .. s + OffsetLowerBound(q, s) - 1
        PROVE  Pending(q, t)
    <3>1. t \in Int /\ t - 1 \in Int /\ s <= t /\ v <= t - 1 /\ t - s < Occupied(q, s) - Ended(q, v)
      BY <1>1, <1>4, <2>5, <2>7
    <3>2. Ended(q, t - 1) <= Ended(q, v) + (t - 1 - v) /\ Occupied(q, s) <= Occupied(q, t)
      BY <1>1, <3>1, CountsGrow
    <3>3. Ended(q, t - 1) \in Nat /\ Occupied(q, t) \in Nat
      BY <3>1, Counts
    <3> QED
      BY <1>1, <1>4, <3>1, <3>2, <3>3 DEF Pending
  <2> QED
    BY <2>7, <2>8, <2>9
<1>7. CASE ~ (o <= s - base)
  <2> DEFINE c == Occupied(q, s) - Occupied(q, w)
             bound == o - (s - base) + c
  <2>1. OffsetLowerBound(q, s) = bound
    BY <1>5, <1>7 DEF OffsetLowerBound
  <2>2. c \in Nat /\ bound \in Nat /\ bound > 0
    BY <1>1, <1>3, <1>4, <1>7
  <2>3. Spill(q, k) > 0 /\ end = LastUsed(q, w) /\ end >= s /\ end >= 0
    <3> HIDE DEF k, base, w, o, end, v
    <3> QED
      BY <1>1, <1>2, <1>3, <1>7
  <2>4. PICK x \in Int : x = end - 1 /\ x < end
    BY <1>2
  <2>5. Ended(q, x) < Occupied(q, w)
    <3>1. Occupied(q, w) # 0 /\ LastUsed(q, w) = NthRunend(q, Occupied(q, w))
      BY <1>1, <1>2, <2>3, LastUsedByCount
    <3>2. Occupied(q, w) \in 1 .. Cardinality(q.runends)
      BY <1>1, <3>1, Counts
    <3>3. end \in q.runends
      BY <2>3, <3>1, <3>2, NthRunendAt
    <3> QED
      BY <1>2, <2>4, <3>3, CountReached
  <2>6. ASSUME NEW t \in s .. s + bound - 1
        PROVE  Pending(q, t)
    <3>1. t \in Int /\ t - 1 \in Int /\ s <= t /\ t <= base + o - 1 + c
      BY <1>1, <1>3, <2>2
    <3>2. Occupied(q, s) <= Occupied(q, t)
      BY <1>1, <3>1, CountsGrow
    <3>5. {Ended(q, t - 1), Occupied(q, t), Ended(q, x)} \subseteq Nat
      BY <2>4, <3>1, Counts
    <3>3. CASE t <= end
      <4>1. Ended(q, t - 1) <= Ended(q, x)
        BY <1>2, <2>4, <3>1, <3>3, CountsGrow
      <4> QED
        BY <1>4, <2>5, <3>2, <3>5, <4>1 DEF Pending
    <3>4. CASE ~ (t <= end)
      <4>1. Ended(q, t - 1) <= Ended(q, x) + (t - 1 - x)
        BY <1>2, <2>4, <3>1, <3>4, CountsGrow
      <4>2. t - 1 - x <= c
        BY <1>1, <1>2, <1>3, <2>2, <2>4, <3>1
      <4> QED
        BY <1>4, <2>2, <2>4, <2>5, <3>1, <3>2, <3>5, <4>1, <4>2 DEF Pending
    <3> QED
      BY <3>3, <3>4
  <2> QED
    BY <2>1, <2>2, <2>6
<1> QED
  BY <1>6, <1>7

\* The slots a search can end at.
Candidates(q) == (Slots \ UsedSlots(q)) \cup {EndOfBlocks}

FirstFrom(q, s) == Min({e \in Candidates(q) : e >= s})

LEMMA FirstFromIs ==
    ASSUME NEW q, NEW s \in 0 .. EndOfBlocks
    PROVE  /\ FirstFrom(q, s) \in Candidates(q) /\ FirstFrom(q, s) >= s
           /\ FirstFrom(q, s) \in 0 .. EndOfBlocks
           /\ \A e \in Candidates(q) : e >= s => FirstFrom(q, s) <= e
<1> DEFINE T == {e \in Candidates(q) : e >= s}
<1>1. EndOfBlocks \in Nat /\ Candidates(q) \subseteq 0 .. EndOfBlocks /\ EndOfBlocks \in Candidates(q)
  BY BlocksReach DEF Candidates, Slots
<1>2. T \in SUBSET Nat /\ EndOfBlocks \in T
  <2>1. Candidates(q) \in SUBSET Nat
    BY <1>1
  <2>2. EndOfBlocks >= s
    BY <1>1
  <2> QED
    BY <1>1, <2>1, <2>2
<1>3. PICK m \in T : \A e \in T : m <= e
  BY <1>2, LeastNatural
<1>4. FirstFrom(q, s) = m
  <2>1. T \in SUBSET Int
    BY <1>2
  <2> HIDE DEF T
  <2>2. Min(T) = m
    BY <1>3, <2>1, Least
  <2> QED
    BY <2>2 DEF FirstFrom, T
<1> QED
  BY <1>1, <1>3, <1>4

\* One turn of the search does not pass the first candidate.
LEMMA SearchTurn ==
    ASSUME NEW q, Paired(q), OffsetsCut(q), NEW s \in Slots
    PROVE  /\ OffsetLowerBound(q, s) \in Nat
           /\ OffsetLowerBound(q, s) = 0 => FirstFrom(q, s) = s
           /\ OffsetLowerBound(q, s) > 0 =>
                /\ s + OffsetLowerBound(q, s) \in 0 .. EndOfBlocks
                /\ FirstFrom(q, s + OffsetLowerBound(q, s)) = FirstFrom(q, s)
<1>1. PICK d \in Nat : d = OffsetLowerBound(q, s)
  BY LowerBoundExact
<1>2. (d = 0 => ~ Pending(q, s)) /\ \A t \in s .. s + d - 1 : Pending(q, t)
  BY <1>1, LowerBoundExact
<1>3. s \in 0 .. EndOfBlocks /\ s \in Int /\ EndOfBlocks \in Nat /\ s < EndOfBlocks
  BY BlocksReach DEF Slots
<1>4. ASSUME d = 0 PROVE FirstFrom(q, s) = s
  <2>1. s \in Candidates(q)
    BY <1>2, <1>4, PendingUsed DEF Candidates
  <2>2. FirstFrom(q, s) >= s /\ FirstFrom(q, s) <= s /\ FirstFrom(q, s) \in Int
    BY <1>3, <2>1, FirstFromIs
  <2> QED
    BY <1>3, <2>2
<1>5. s + d \in 0 .. EndOfBlocks
  <2>1. ~ Pending(q, EndOfBlocks)
    <3>1. PICK w \in Int : w = EndOfBlocks - 1 /\ w >= EndOfBlocks - 1
      BY <1>3
    <3>2. /\ Ended(q, w) = Cardinality(q.runends)
          /\ Occupied(q, EndOfBlocks) \in 0 .. Cardinality(q.runends)
          /\ Cardinality(q.runends) \in Nat
      BY <1>3, <3>1, Counts
    <3> QED
      BY <3>1, <3>2 DEF Pending
  <2>2. ~ (EndOfBlocks \in s .. s + d - 1)
    BY <1>2, <2>1
  <2> QED
    BY <1>3, <2>2
<1>6. FirstFrom(q, s + d) = FirstFrom(q, s)
  <2>1. ASSUME NEW e \in Candidates(q), e >= s PROVE e >= s + d
    <3>1. e \in Int /\ e <= EndOfBlocks
      BY <1>3 DEF Candidates, Slots
    <3>2. e \in s .. s + d - 1 => e \in Slots /\ Pending(q, e)
      BY <1>2, <1>3, <1>5, <3>1 DEF Slots
    <3>3. ~ (e \in s .. s + d - 1)
      <4>1. e \in Slots /\ Pending(q, e) => e \in UsedSlots(q)
        BY PendingUsed
      <4>2. e \in Slots => e # EndOfBlocks
        BY <1>3 DEF Slots
      <4> QED
        BY <3>2, <4>1, <4>2 DEF Candidates
    <3> QED
      BY <1>3, <2>1, <3>1, <3>3
  <2>2. /\ FirstFrom(q, s) \in Candidates(q) /\ FirstFrom(q, s) >= s /\ FirstFrom(q, s) \in Int
        /\ FirstFrom(q, s + d) \in Candidates(q) /\ FirstFrom(q, s + d) >= s + d /\ FirstFrom(q, s + d) \in Int
    BY <1>3, <1>5, FirstFromIs
  <2>3. FirstFrom(q, s) >= s + d /\ FirstFrom(q, s + d) >= s
    BY <1>3, <2>1, <2>2
  <2>4. FirstFrom(q, s + d) <= FirstFrom(q, s) /\ FirstFrom(q, s) <= FirstFrom(q, s + d)
    BY <1>3, <1>5, <2>2, <2>3, FirstFromIs
  <2> QED
    BY <2>2, <2>4
<1> QED
  BY <1>1, <1>4, <1>5, <1>6

\* The recursion of find_first_empty_slot.
Searches(q, g) ==
    g = [s \in Nat |-> IF s >= EndOfBlocks \/ OffsetLowerBound(q, s) <= 0
                       THEN s ELSE g[s + OffsetLowerBound(q, s)]]

\* The search is the one its recursion describes; it ends at once past the blocks.
LEMMA SearchesExist ==
    ASSUME NEW q, Paired(q), OffsetsCut(q)
    PROVE  /\ \E g : Searches(q, g) /\ \A s : FindFirstEmptySlot(q, s) = g[s]
           /\ \A s \in Nat : s >= EndOfBlocks => FindFirstEmptySlot(q, s) = s
<1>1. PICK g : g = (CHOOSE h : Searches(q, h))
  OBVIOUS
<1>2. EndOfBlocks \in Nat /\ FirstFrom(q, EndOfBlocks) = EndOfBlocks
  <2>1. EndOfBlocks \in 0 .. EndOfBlocks /\ EndOfBlocks \in Nat
    BY BlocksReach
  <2>2. FirstFrom(q, EndOfBlocks) \in 0 .. EndOfBlocks /\ FirstFrom(q, EndOfBlocks) >= EndOfBlocks
    BY <2>1, FirstFromIs
  <2> QED
    BY <2>1, <2>2
<1>3. Searches(q, [i \in Nat |-> IF i >= EndOfBlocks THEN i ELSE FirstFrom(q, i)])
  <2> DEFINE first == [i \in Nat |-> IF i >= EndOfBlocks THEN i ELSE FirstFrom(q, i)]
  <2>1. ASSUME NEW i \in Nat
        PROVE  (IF i >= EndOfBlocks THEN i ELSE FirstFrom(q, i))
                 = IF i >= EndOfBlocks \/ OffsetLowerBound(q, i) <= 0
                   THEN i ELSE first[i + OffsetLowerBound(q, i)]
    <3>1. CASE i >= EndOfBlocks
      BY <3>1
    <3>2. CASE ~ (i >= EndOfBlocks)
      <4>1. i \in Slots
        BY <1>2, <3>2 DEF Slots
      <4>2. PICK d \in Nat : d = OffsetLowerBound(q, i)
        BY <4>1, SearchTurn
      <4>3. CASE d = 0
        <5> HIDE DEF first
        <5>1. FirstFrom(q, i) = i
          BY <4>1, <4>2, <4>3, SearchTurn
        <5>2. d <= 0
          BY <4>3
        <5> QED
          BY <3>2, <4>2, <5>1, <5>2
      <4>4. CASE d # 0
        <5>1. i + d \in 0 .. EndOfBlocks /\ FirstFrom(q, i + d) = FirstFrom(q, i) /\ i + d \in Nat
          BY <4>1, <4>2, <4>4, SearchTurn
        <5>2. first[i + d] = FirstFrom(q, i)
          <6>1. first[i + d] = IF i + d >= EndOfBlocks THEN i + d ELSE FirstFrom(q, i + d)
            BY <5>1
          <6>2. i + d >= EndOfBlocks => i + d = EndOfBlocks
            BY <1>2, <5>1
          <6> QED
            BY <1>2, <5>1, <6>1, <6>2
        <5>3. ~ (d <= 0)
          BY <4>4
        <5> HIDE DEF first
        <5> QED
          BY <3>2, <4>2, <5>2, <5>3
      <4> QED
        BY <4>3, <4>4
    <3> QED
      BY <3>1, <3>2
  <2> QED
    BY <2>1 DEF Searches
<1>4. Searches(q, g)
  BY <1>1, <1>3
<1>5. \A s : FindFirstEmptySlot(q, s) = g[s]
  BY <1>1 DEF FindFirstEmptySlot, Searches
<1> QED
  BY <1>4, <1>5 DEF Searches

LEMMA FindFirstEmptySlotExact ==
    ASSUME NEW q, Paired(q), OffsetsCut(q), NEW s \in Slots
    PROVE  FindFirstEmptySlot(q, s) = FirstFrom(q, s)
<1>2. EndOfBlocks \in Nat /\ FirstFrom(q, EndOfBlocks) = EndOfBlocks
  <2>1. EndOfBlocks \in 0 .. EndOfBlocks /\ EndOfBlocks \in Nat
    BY BlocksReach
  <2>2. FirstFrom(q, EndOfBlocks) \in 0 .. EndOfBlocks /\ FirstFrom(q, EndOfBlocks) >= EndOfBlocks
    BY <2>1, FirstFromIs
  <2> QED
    BY <2>1, <2>2
<1>4. PICK g : Searches(q, g) /\ FindFirstEmptySlot(q, s) = g[s]
  BY SearchesExist
<1> DEFINE Wrong == {n \in Nat : \E i \in Slots : n = EndOfBlocks - i /\ g[i] # FirstFrom(q, i)}
<1>5. SUFFICES ASSUME Wrong # {} PROVE FALSE
  <2>1. EndOfBlocks - s \in Nat
    BY <1>2 DEF Slots
  <2> QED
    BY <1>4, <2>1
<1>6. PICK n \in Wrong : \A m \in Wrong : n <= m
  BY <1>5, LeastNatural
<1>7. PICK i \in Slots : n = EndOfBlocks - i /\ g[i] # FirstFrom(q, i)
  BY <1>6
<1>8. PICK d \in Nat : d = OffsetLowerBound(q, i)
  BY SearchTurn
<1>9. i \in Nat /\ i < EndOfBlocks
  BY <1>2 DEF Slots
<1>10. g[i] = IF d <= 0 THEN i ELSE g[i + d]
  BY <1>2, <1>4, <1>8, <1>9 DEF Searches
<1>11. CASE d = 0
  <2>1. FirstFrom(q, i) = i
    BY <1>8, <1>11, SearchTurn
  <2>2. d <= 0
    BY <1>11
  <2> QED
    BY <1>7, <1>10, <2>1, <2>2
<1>12. CASE d # 0
  <2>1. i + d \in 0 .. EndOfBlocks /\ FirstFrom(q, i + d) = FirstFrom(q, i) /\ i + d \in Nat
    BY <1>8, <1>9, <1>12, SearchTurn
  <2>2. g[i + d] = FirstFrom(q, i + d)
    <3>1. CASE i + d = EndOfBlocks
      <4>1. g[EndOfBlocks] = EndOfBlocks
        BY <1>2, <1>4 DEF Searches
      <4> QED
        BY <1>2, <3>1, <4>1
    <3>2. CASE i + d # EndOfBlocks
      <4>1. i + d \in Slots /\ EndOfBlocks - (i + d) \in Nat /\ EndOfBlocks - (i + d) < n
        BY <1>2, <1>7, <1>9, <1>12, <2>1, <3>2 DEF Slots
      <4>2. EndOfBlocks - (i + d) \notin Wrong
        <5>1. n \in Nat
          BY <1>6
        <5> HIDE DEF Wrong
        <5> QED
          BY <1>6, <4>1, <5>1
      <4> QED
        BY <4>1, <4>2
    <3> QED
      BY <3>1, <3>2
  <2>3. ~ (d <= 0)
    BY <1>12
  <2> QED
    BY <1>7, <1>10, <2>1, <2>2, <2>3
<1> QED
  BY <1>11, <1>12

(***************************************************************************)
(* Together: for every block size, saturation point and table size, the    *)
(* navigation of run_end and find_first_empty_slot by the offsets, also by *)
(* saturated ones, finds what the occupieds and runends vectors determine, *)
(* in every state in which the runs and the offsets are as the invariants  *)
(* of the runs say.                                                        *)
(***************************************************************************)
THEOREM NavigationCorrect == TypeOK /\ RunsWellFormed /\ OffsetsExact => NavigationExact
<1> SUFFICES ASSUME TypeOK, RunsWellFormed, OffsetsExact PROVE NavigationExact
  OBVIOUS
<1>1. Paired(qf)
  BY DEF TypeOK, Filters, RunsWellFormed, Paired
<1>2. OffsetsCut(qf)
  BY DEF OffsetsExact, OffsetsCut, OffsetsCutTo, Spill
<1>3. Buckets \subseteq Slots
  BY BlocksReach, GeometryAssumption, FilterAssumption DEF Buckets, Slots
<1>4. ASSUME NEW b \in Buckets PROVE RunEnd(qf, b) = Max({b, LastUsed(qf, b)})
  BY <1>1, <1>2, <1>3, RunEndExact DEF EndOfRuns
<1>5. ASSUME NEW s \in Buckets
      PROVE  FindFirstEmptySlot(qf, s)
               = Min({e \in (Slots \ UsedSlots(qf)) \cup {EndOfBlocks} : e >= s})
  BY <1>1, <1>2, <1>3, FindFirstEmptySlotExact DEF FirstFrom, Candidates
<1> QED
  BY <1>4, <1>5 DEF NavigationExact
=================================================================================
