----------------------- MODULE MementoFilterQueries_proof -----------------------
(***************************************************************************)
(* Searching is exact: where the boxes tile the runs in the order of their *)
(* fingerprints, the walks that queries and deletes make along a run visit *)
(* just the boxes of the fingerprint they are for, and what they compare   *)
(* in a box decides for all its mementos.  And an iteration, which goes    *)
(* from box to box and from run to run, visits all of them.                *)
(***************************************************************************)
EXTENDS MementoFilterNavigation_proof, SequenceTheorems

\* What is left over is smaller than the divisor.
LEMMA Remainder ==
    ASSUME NEW i \in Nat, NEW d \in Nat \ {0}
    PROVE  i % d \in Nat /\ i % d < d /\ i % d <= d - 1
  OBVIOUS

(***************************************************************************)
(* What slots and symbols hold.                                            *)
(***************************************************************************)

SlotsTyped(q) == q.slots \in [Slots -> 0 .. 2^BitsPerSlot - 1]

LEMMA Widths ==
    /\ BitsPerSlot \in Nat \ {0} /\ MementoBits \in Nat \ {0}
    /\ 2^MementoBits \in Nat \ {0} /\ 2^BitsPerSlot \in Nat \ {0} /\ MaxMemento \in Nat
<1>1. BitsPerSlot \in Nat \ {0} /\ MementoBits \in Nat \ {0}
  BY BitsAssumption DEF BitsPerSlot
<1> QED
  BY <1>1, PowerPositive DEF MaxMemento

LEMMA SlotParts ==
    ASSUME NEW q, SlotsTyped(q), NEW p \in Int
    PROVE  /\ SlotAt(q, p) \in Nat /\ FingerprintAt(q, p) \in Nat
           /\ MementoAt(q, p) \in Mementos
<1>1. SlotAt(q, p) \in Nat
  <2>1. ASSUME p \in Slots PROVE q.slots[p] \in Nat
    BY <2>1, Widths DEF SlotsTyped
  <2>2. DOMAIN q.slots = Slots
    BY DEF SlotsTyped
  <2> QED
    BY <2>1, <2>2 DEF SlotAt
<1>2. 2^MementoBits \in Nat \ {0}
  BY Widths
<1>3. FingerprintAt(q, p) \in Nat
  BY <1>1, <1>2, Division DEF FingerprintAt
<1>4. MementoAt(q, p) \in Mementos
  <2>1. MementoAt(q, p) \in Nat /\ MementoAt(q, p) <= 2^MementoBits - 1
    BY <1>1, <1>2, Remainder DEF MementoAt
  <2> QED
    BY <1>2, <2>1 DEF Mementos, MaxMemento
<1> QED
  BY <1>1, <1>3, <1>4

LEMMA SymbolType ==
    ASSUME NEW q, SlotsTyped(q), NEW p \in Nat, NEW loaded \in Nat, NEW n \in Nat
    PROVE  SymbolSkipping(q, p, loaded, n) \in Mementos
<1> DEFINE slot(j) == SlotAt(q, p + j + (IF j < loaded THEN 0 ELSE 1))
           first == (n * MementoBits) \div BitsPerSlot
           both == slot(first) + slot(first + 1) * 2^BitsPerSlot
           shift == (n * MementoBits) % BitsPerSlot
<1>1. n * MementoBits \in Nat
  BY Widths
<1>2. first \in Nat /\ shift \in Nat
  BY <1>1, Widths, Division, Remainder
<1>3. ASSUME NEW j \in Nat PROVE slot(j) \in Nat
  BY SlotParts
<1>4. both \in Nat
  <2>0. first + 1 \in Nat
    BY <1>2
  <2> HIDE DEF slot, first
  <2>1. slot(first) \in Nat /\ slot(first + 1) \in Nat
    BY <1>2, <1>3, <2>0
  <2> QED
    BY <2>1, Widths
<1>5. 2^shift \in Nat \ {0}
  BY <1>2, PowerPositive
<1>6. SymbolSkipping(q, p, loaded, n) = (both \div 2^shift) % 2^MementoBits
  BY DEF SymbolSkipping
<1> HIDE DEF both, shift
<1>7. both \div 2^shift \in Nat
  BY <1>4, <1>5, Division
<1>8. (both \div 2^shift) % 2^MementoBits \in 0 .. 2^MementoBits - 1
  <2>1. PICK d \in Nat \ {0} : d = 2^MementoBits
    BY Widths
  <2>2. PICK i \in Nat : i = both \div 2^shift
    BY <1>7
  <2>3. i % d \in 0 .. d - 1
    BY Remainder
  <2> QED
    BY <2>1, <2>2, <2>3
<1> QED
  BY <1>6, <1>8 DEF Mementos, MaxMemento

LEMMA SymbolIs ==
    ASSUME NEW q, SlotsTyped(q), NEW p \in Nat, NEW i \in Nat
    PROVE  Symbol(q, p, i) \in Mementos /\ Symbol(q, p, i) \in Nat
<1>1. EndOfBlocks \in Nat
  BY BlocksReach
<1>2. Symbol(q, p, i) \in Mementos
  BY <1>1, SymbolType DEF Symbol
<1> QED
  BY <1>2 DEF Mementos

(***************************************************************************)
(* Recursion along a walk.  A function of the places of a walk that always *)
(* moves on, and stops at n at the latest, exists.                         *)
(***************************************************************************)

\* f takes base[i] where the walk stops, and what comb makes of its value at
\* the place next[i] elsewhere.
WalkFrom(f, stop, base, comb, next, i) ==
    IF stop[i] THEN base[i] ELSE comb[i][f[next[i]]]

Walks(n, V, stop, base, comb, next) ==
    /\ \A i \in Nat : i >= n => stop[i]
    /\ base \in [Nat -> V] /\ comb \in [Nat -> [V -> V]]
    /\ \A i \in Nat : ~ stop[i] => next[i] \in Nat /\ next[i] > i

LEMMA WalkExists ==
    ASSUME NEW n \in Nat, NEW V, NEW stop, NEW base, NEW comb, NEW next,
           Walks(n, V, stop, base, comb, next)
    PROVE  \E f \in [Nat -> V] : \A i \in Nat : f[i] = WalkFrom(f, stop, base, comb, next, i)
<1> DEFINE Right(f, i) == f[i] = WalkFrom(f, stop, base, comb, next, i)
           Missing == {m \in Nat : ~ \E f \in [Nat -> V] : \A i \in Nat : i + m >= n => Right(f, i)}
<1>1. CASE Missing = {}
  <2>1. n \notin Missing
    BY <1>1
  <2>2. \A i \in Nat : i + n >= n
    OBVIOUS
  <2>3. PICK f \in [Nat -> V] : \A i \in Nat : i + n >= n => Right(f, i)
    BY <2>1
  <2> QED
    BY <2>2, <2>3
<1>2. CASE Missing # {}
  <2>1. PICK m \in Missing : \A j \in Missing : m <= j
    BY <1>2, LeastNatural
  <2>2. CASE m = 0
    <3>1. base \in [Nat -> V] /\ \A i \in Nat : i + 0 >= n => Right(base, i)
      <4>1. \A i \in Nat : i + 0 >= n => stop[i]
        BY DEF Walks
      <4> QED
        BY <4>1 DEF Walks, WalkFrom
    <3> QED
      BY <2>1, <2>2, <3>1
  <2>3. CASE m # 0
    <3>1. PICK l \in Nat : l = m - 1 /\ l < m
      BY <2>1, <2>3
    <3>2. l \notin Missing
      BY <2>1, <3>1
    <3>3. PICK f \in [Nat -> V] : \A i \in Nat : i + l >= n => Right(f, i)
      BY <3>2
    <3> DEFINE g == [i \in Nat |-> IF i + m = n THEN WalkFrom(f, stop, base, comb, next, i)
                                   ELSE f[i]]
    <3>4. ASSUME NEW i \in Nat PROVE WalkFrom(f, stop, base, comb, next, i) \in V
      <4>1. CASE stop[i]
        BY <4>1 DEF Walks, WalkFrom
      <4>2. CASE ~ stop[i]
        <5>1. f[next[i]] \in V
          BY <4>2 DEF Walks
        <5> QED
          BY <4>2, <5>1 DEF Walks, WalkFrom
      <4> QED
        BY <4>1, <4>2
    <3>5. g \in [Nat -> V]
      BY <3>4
    <3>6. ASSUME NEW i \in Nat, i + m >= n PROVE Right(g, i)
      <4>1. ~ stop[i] => next[i] \in Nat /\ next[i] + m # n
        BY <3>6, <2>1 DEF Walks
      <4>2. ~ stop[i] => g[next[i]] = f[next[i]]
        BY <4>1
      <4>3. WalkFrom(g, stop, base, comb, next, i) = WalkFrom(f, stop, base, comb, next, i)
        <5> HIDE DEF g
        <5> QED
          BY <4>2 DEF WalkFrom
      <4>4. i + m # n => i + l >= n
        BY <2>1, <3>1, <3>6
      <4>5. g[i] = WalkFrom(f, stop, base, comb, next, i)
        BY <3>3, <4>4
      <4> QED
        BY <4>3, <4>5
    <3> HIDE DEF g
    <3> QED
      BY <2>1, <3>5, <3>6
  <2> QED
    BY <2>2, <2>3
<1> QED
  BY <1>1, <1>2

\* Functions that agree where the walk stops, and at a place when they agree at
\* the next one, agree.
WalkAgrees(n, stop, next, f, g) ==
    /\ \A i \in Nat : i >= n => stop[i]
    /\ \A i \in Nat : ~ stop[i] => next[i] \in Nat /\ next[i] > i
    /\ \A i \in Nat : stop[i] => f[i] = g[i]
    /\ \A i \in Nat : ~ stop[i] /\ f[next[i]] = g[next[i]] => f[i] = g[i]

LEMMA WalkUnique ==
    ASSUME NEW n \in Nat, NEW stop, NEW next, NEW f, NEW g, WalkAgrees(n, stop, next, f, g)
    PROVE  \A i \in Nat : f[i] = g[i]
<1> DEFINE Wrong == {m \in Nat : \E i \in Nat : n <= i + m /\ f[i] # g[i]}
<1>1. SUFFICES ASSUME NEW i \in Nat, f[i] # g[i] PROVE FALSE
  OBVIOUS
<1>2. n \in Wrong
  <2>1. n <= i + n
    OBVIOUS
  <2> QED
    BY <1>1, <2>1
<1>3. PICK m \in Wrong : \A j \in Wrong : m <= j
  BY <1>2, LeastNatural
<1>4. PICK k \in Nat : n <= k + m /\ f[k] # g[k]
  BY <1>3
<1>5. ~ stop[k] /\ next[k] \in Nat /\ next[k] > k /\ ~ (k >= n)
  BY <1>4 DEF WalkAgrees
<1>6. PICK l \in Nat : l = m - 1 /\ l < m /\ n <= next[k] + l
  <2>1. m \in Nat /\ m # 0
    BY <1>3, <1>4, <1>5
  <2> HIDE DEF Wrong
  <2> QED
    BY <1>4, <1>5, <2>1
<1>7. l \notin Wrong
  <2>1. m \in Nat
    BY <1>3
  <2> HIDE DEF Wrong
  <2> QED
    BY <1>3, <1>6, <2>1
<1>8. f[next[k]] = g[next[k]]
  BY <1>5, <1>6, <1>7
<1> QED
  BY <1>4, <1>5, <1>8 DEF WalkAgrees

(***************************************************************************)
(* The counter of a list and the length of a box.                          *)
(***************************************************************************)

\* The recursion of unary_count.
CountsUnary(q, p, h) ==
    h = [i \in Nat |->
            IF i >= MaxDigits - 1 \/ Symbol(q, p, i) # MaxMemento THEN i ELSE h[i + 1]]

LEMMA UnaryCountIs ==
    ASSUME NEW q, SlotsTyped(q), NEW p \in Nat
    PROVE  \E h : CountsUnary(q, p, h) /\ UnaryCount(q, p) = h[0] /\ h[0] \in Nat
<1> DEFINE stop == [i \in Nat |-> i >= MaxDigits - 1 \/ Symbol(q, p, i) # MaxMemento]
           base == [i \in Nat |-> i]
           comb == [i \in Nat |-> [x \in Nat |-> x]]
           next == [i \in Nat |-> i + 1]
<1>1. MaxDigits - 1 \in Nat
  BY DEF MaxDigits
<1>2. Walks(MaxDigits - 1, Nat, stop, base, comb, next)
  <2>1. \A i \in Nat : i >= MaxDigits - 1 => stop[i]
    OBVIOUS
  <2>2. base \in [Nat -> Nat] /\ comb \in [Nat -> [Nat -> Nat]]
    OBVIOUS
  <2>3. \A i \in Nat : ~ stop[i] => next[i] \in Nat /\ next[i] > i
    OBVIOUS
  <2> HIDE DEF stop, base, comb, next
  <2> QED
    BY <2>1, <2>2, <2>3 DEF Walks
<1>3. PICK f \in [Nat -> Nat] : \A i \in Nat : f[i] = WalkFrom(f, stop, base, comb, next, i)
  <2> HIDE DEF stop, base, comb, next
  <2> QED
    BY <1>1, <1>2, WalkExists
<1>4. \A i \in Nat : f[i] = IF i >= MaxDigits - 1 \/ Symbol(q, p, i) # MaxMemento
                            THEN i ELSE f[i + 1]
  <2>1. ASSUME NEW i \in Nat
        PROVE  f[i] = IF i >= MaxDigits - 1 \/ Symbol(q, p, i) # MaxMemento THEN i ELSE f[i + 1]
    <3>1. f[i] = IF stop[i] THEN base[i] ELSE comb[i][f[next[i]]]
      BY <1>3 DEF WalkFrom
    <3>2. i + 1 \in Nat /\ f[i + 1] \in Nat
      OBVIOUS
    <3>3. base[i] = i /\ next[i] = i + 1 /\ comb[i][f[i + 1]] = f[i + 1]
      BY <3>2
    <3>4. stop[i] = (i >= MaxDigits - 1 \/ Symbol(q, p, i) # MaxMemento)
      OBVIOUS
    <3> HIDE DEF stop, base, comb, next
    <3> QED
      BY <3>1, <3>3, <3>4
  <2> QED
    BY <2>1
<1>5. CountsUnary(q, p, f)
  BY <1>4 DEF CountsUnary
<1>6. UnaryCount(q, p) = (CHOOSE h : CountsUnary(q, p, h))[0]
  BY DEF UnaryCount, CountsUnary
<1>7. PICK g : CountsUnary(q, p, g) /\ UnaryCount(q, p) = g[0]
  BY <1>5, <1>6
<1>8. \A i \in Nat : g[i] = IF i >= MaxDigits - 1 \/ Symbol(q, p, i) # MaxMemento
                            THEN i ELSE g[i + 1]
  BY <1>7 DEF CountsUnary
<1>9. \A i \in Nat : f[i] = g[i]
  <2>1. \A i \in Nat : i >= MaxDigits - 1 => stop[i]
    OBVIOUS
  <2>2. \A i \in Nat : ~ stop[i] => next[i] \in Nat /\ next[i] > i
    OBVIOUS
  <2>3. \A i \in Nat : stop[i] => f[i] = g[i]
    <3>1. \A i \in Nat : stop[i] <=> i >= MaxDigits - 1 \/ Symbol(q, p, i) # MaxMemento
      OBVIOUS
    <3> HIDE DEF stop
    <3> QED
      BY <1>4, <1>8, <3>1
  <2>4. \A i \in Nat : ~ stop[i] /\ f[next[i]] = g[next[i]] => f[i] = g[i]
    BY <1>4, <1>8
  <2> HIDE DEF stop, next
  <2>5. WalkAgrees(MaxDigits - 1, stop, next, f, g)
    BY <2>1, <2>2, <2>3, <2>4 DEF WalkAgrees
  <2> QED
    BY <1>1, <2>5, WalkUnique
<1>10. g[0] \in Nat
  BY <1>9
<1> QED
  BY <1>7, <1>10

LEMMA UnaryCountType ==
    ASSUME NEW q, SlotsTyped(q), NEW p \in Nat
    PROVE  UnaryCount(q, p) \in Nat
  BY UnaryCountIs

\* The recursion of what the digits of a counter count.
ValuesDigits(q, p, u, h) ==
    h = [k \in Nat |-> IF k > u THEN 0 ELSE Symbol(q, p, u + k) + MaxMemento * h[k + 1]]

LEMMA ListCountIs ==
    ASSUME NEW q, SlotsTyped(q), NEW p \in Nat
    PROVE  \E h : ValuesDigits(q, p, UnaryCount(q, p), h) /\ ListCount(q, p) = h[0] /\ h[0] \in Nat
<1>1. PICK u \in Nat : u = UnaryCount(q, p)
  BY UnaryCountType
<1> DEFINE stop == [k \in Nat |-> k > u]
           base == [k \in Nat |-> 0]
           comb == [k \in Nat |-> [x \in Nat |-> Symbol(q, p, u + k) + MaxMemento * x]]
           next == [k \in Nat |-> k + 1]
<1>2. \A k \in Nat : Symbol(q, p, u + k) \in Nat
  <2>1. ASSUME NEW k \in Nat PROVE Symbol(q, p, u + k) \in Nat
    <3>1. u + k \in Nat
      OBVIOUS
    <3> QED
      BY <3>1, SymbolIs
  <2> QED
    BY <2>1
<1>3. Walks(u + 1, Nat, stop, base, comb, next)
  <2>1. \A k \in Nat : k >= u + 1 => stop[k]
    <3>1. \A k \in Nat : k >= u + 1 => k > u
      OBVIOUS
    <3> QED
      BY <3>1
  <2>2. base \in [Nat -> Nat]
    OBVIOUS
  <2>3. comb \in [Nat -> [Nat -> Nat]]
    <3>1. ASSUME NEW k \in Nat, NEW x \in Nat PROVE Symbol(q, p, u + k) + MaxMemento * x \in Nat
      <4>1. \A j \in Nat, i \in Nat, y \in Nat : y + j * i \in Nat
        OBVIOUS
      <4>2. Symbol(q, p, u + k) \in Nat
        BY <1>2
      <4> QED
        BY <4>1, <4>2, Widths
    <3> QED
      BY <3>1
  <2>4. \A k \in Nat : ~ stop[k] => next[k] \in Nat /\ next[k] > k
    OBVIOUS
  <2> HIDE DEF stop, base, comb, next
  <2> QED
    BY <2>1, <2>2, <2>3, <2>4 DEF Walks
<1>4. PICK f \in [Nat -> Nat] : \A k \in Nat : f[k] = WalkFrom(f, stop, base, comb, next, k)
  <2>1. u + 1 \in Nat
    OBVIOUS
  <2> HIDE DEF stop, base, comb, next
  <2> QED
    BY <1>3, <2>1, WalkExists
<1>5. ASSUME NEW k \in Nat
      PROVE  f[k] = IF k > u THEN 0 ELSE Symbol(q, p, u + k) + MaxMemento * f[k + 1]
  <2>1. f[k] = IF stop[k] THEN base[k] ELSE comb[k][f[next[k]]]
    BY <1>4 DEF WalkFrom
  <2>2. k + 1 \in Nat /\ f[k + 1] \in Nat
    OBVIOUS
  <2>3. /\ base[k] = 0 /\ next[k] = k + 1
        /\ comb[k][f[k + 1]] = Symbol(q, p, u + k) + MaxMemento * f[k + 1]
    BY <2>2
  <2>4. stop[k] = (k > u)
    OBVIOUS
  <2> HIDE DEF stop, base, comb, next
  <2> QED
    BY <2>1, <2>3, <2>4
<1>6. ValuesDigits(q, p, u, f)
  BY <1>5 DEF ValuesDigits
<1>7. ListCount(q, p) = (CHOOSE h : ValuesDigits(q, p, u, h))[0]
  BY <1>1 DEF ListCount, ValuesDigits
<1>8. PICK g : ValuesDigits(q, p, u, g) /\ ListCount(q, p) = g[0]
  BY <1>6, <1>7
<1>9. \A k \in Nat : g[k] = IF k > u THEN 0 ELSE Symbol(q, p, u + k) + MaxMemento * g[k + 1]
  BY <1>8 DEF ValuesDigits
<1>10. \A k \in Nat : f[k] = g[k]
  <2>1. \A k \in Nat : stop[k] <=> k > u
    OBVIOUS
  <2>2. \A k \in Nat : next[k] = k + 1 /\ k + 1 \in Nat /\ k + 1 > k
    OBVIOUS
  <2>3. \A k \in Nat : k >= u + 1 => k > u
    OBVIOUS
  <2> HIDE DEF stop, next
  <2>4. \A k \in Nat : stop[k] => f[k] = g[k]
    BY <1>5, <1>9, <2>1
  <2>5. \A k \in Nat : ~ stop[k] /\ f[next[k]] = g[next[k]] => f[k] = g[k]
    BY <1>5, <1>9, <2>1, <2>2
  <2>6. WalkAgrees(u + 1, stop, next, f, g)
    BY <2>1, <2>2, <2>3, <2>4, <2>5 DEF WalkAgrees
  <2>7. u + 1 \in Nat
    OBVIOUS
  <2> QED
    BY <2>6, <2>7, WalkUnique
<1>11. g[0] \in Nat
  BY <1>10
<1> QED
  BY <1>1, <1>8, <1>11

LEMMA ListCountType ==
    ASSUME NEW q, SlotsTyped(q), NEW p \in Nat
    PROVE  ListCount(q, p) \in Nat
  BY ListCountIs

LEMMA BoxLenType ==
    ASSUME NEW q, SlotsTyped(q), NEW p \in Nat
    PROVE  /\ BoxLen(q, p) \in Nat \ {0}
           /\ CounterLen(q, p) \in Nat
<1>1. \A i \in Nat : CounterLen(q, i) \in Nat
  <2>1. ASSUME NEW i \in Nat PROVE CounterLen(q, i) \in Nat
    BY UnaryCountType DEF CounterLen
  <2> QED
    BY <2>1
<1>2. ListSlots(q, p + 2) \in Nat
  <2>1. PICK n \in Nat : n = CounterLen(q, p + 2) + ListCount(q, p + 2)
    <3>1. p + 2 \in Nat
      OBVIOUS
    <3>2. CounterLen(q, p + 2) \in Nat /\ ListCount(q, p + 2) \in Nat
      BY <1>1, <3>1, ListCountType
    <3> QED
      BY <3>2
  <2>2. n * MementoBits + BitsPerSlot - 1 \in Nat
    <3>1. n * MementoBits \in Nat
      BY Widths
    <3> QED
      BY <3>1, Widths
  <2>3. (n * MementoBits + BitsPerSlot - 1) \div BitsPerSlot \in Nat
    BY <2>2, Widths, Division
  <2> QED
    BY <2>1, <2>3 DEF ListSlots, SlotsFor
<1>3. BoxLen(q, p) \in Nat \ {0}
  BY <1>2 DEF BoxLen
<1> QED
  BY <1>1, <1>3

(***************************************************************************)
(* The boxes of a run.                                                     *)
(***************************************************************************)

\* What adjacent members keep to, all do.
LEMMA Ascending ==
    ASSUME NEW n \in Nat, NEW g, \A i \in 1 .. n : g[i] \in Int,
           \A i \in 1 .. n - 1 : g[i] <= g[i + 1]
    PROVE  \A i, j \in 1 .. n : i <= j => g[i] <= g[j]
<1>1. SUFFICES ASSUME NEW i \in 1 .. n, NEW j \in 1 .. n, i <= j, ~ (g[i] <= g[j]) PROVE FALSE
  OBVIOUS
<1> DEFINE Wrong == {k \in Nat : k \in 1 .. n /\ i <= k /\ ~ (g[i] <= g[k])}
<1>2. j \in Wrong
  BY <1>1
<1>3. PICK k \in Wrong : \A m \in Wrong : k <= m
  BY <1>2, LeastNatural
<1>4. k # i
  BY <1>3
<1>5. PICK h \in 1 .. n - 1 : h = k - 1 /\ i <= h /\ h < k /\ k = h + 1 /\ h \in 1 .. n /\ h \in Nat
  BY <1>1, <1>3, <1>4
<1>6. g[i] <= g[h]
  BY <1>3, <1>5
<1>7. g[h] <= g[k] /\ g[i] \in Int /\ g[h] \in Int /\ g[k] \in Int
  BY <1>3, <1>5
<1> QED
  BY <1>3, <1>6, <1>7

\* s are the places of the boxes that tile the slots from p to l, each box but
\* the last followed by the next, and the last one reaching over l.
IsTiling(q, s, p, l) ==
    /\ s \in Seq(Nat)
    /\ p > l => s = << >>
    /\ p <= l => Len(s) >= 1 /\ s[1] = p
    /\ \A j \in 1 .. Len(s) :
         /\ p <= s[j] /\ s[j] <= l
         /\ j < Len(s) => s[j + 1] = s[j] + BoxLen(q, s[j])
         /\ j = Len(s) => s[j] + BoxLen(q, s[j]) > l

LEMMA TilingStep ==
    ASSUME NEW q, NEW p \in Nat, NEW l \in Int, p <= l, NEW n \in Nat \ {0}, n = BoxLen(q, p),
           NEW s, IsTiling(q, s, p + n, l)
    PROVE  IsTiling(q, << p >> \o s, p, l)
<1> DEFINE t == << p >> \o s
<1>1. /\ s \in Seq(Nat) /\ t \in Seq(Nat) /\ Len(t) = Len(s) + 1 /\ Len(s) \in Nat
      /\ t[1] = p /\ \A j \in 1 .. Len(s) : t[j + 1] = s[j]
  BY DEF IsTiling
<1> HIDE DEF t
<1>2. ASSUME NEW j \in 1 .. Len(t)
      PROVE  /\ p <= t[j] /\ t[j] <= l
             /\ j < Len(t) => t[j + 1] = t[j] + BoxLen(q, t[j])
             /\ j = Len(t) => t[j] + BoxLen(q, t[j]) > l
  <2>1. CASE j = 1
    <3>1. t[j] = p /\ p <= p /\ p <= l
      BY <1>1, <2>1
    <3>2. CASE Len(s) = 0
      <4>1. ~ (p + n <= l)
        BY <3>2 DEF IsTiling
      <4> QED
        BY <1>1, <2>1, <3>1, <3>2, <4>1
    <3>3. CASE Len(s) # 0
      <4>1. 1 \in 1 .. Len(s) /\ t[2] = s[1]
        BY <1>1, <3>3
      <4>2. s[1] = p + n
        <5>1. p + n <= l
          <6>1. s # << >>
            BY <1>1, <3>3
          <6> QED
            BY <6>1 DEF IsTiling
        <5> QED
          BY <5>1 DEF IsTiling
      <4> QED
        BY <1>1, <2>1, <3>1, <3>3, <4>1, <4>2
    <3> QED
      BY <3>2, <3>3
  <2>2. CASE j # 1
    <3>1. PICK k \in 1 .. Len(s) : j = k + 1 /\ t[j] = s[k]
      <4>1. j - 1 \in 1 .. Len(s) /\ j = (j - 1) + 1
        BY <1>1, <2>2
      <4> QED
        BY <1>1, <4>1
    <3>2. /\ p + n <= s[k] /\ s[k] <= l /\ s[k] \in Nat
          /\ k < Len(s) => s[k + 1] = s[k] + BoxLen(q, s[k])
          /\ k = Len(s) => s[k] + BoxLen(q, s[k]) > l
      <4>1. s[k] \in Nat
        <5>1. s \in Seq(Nat)
          BY DEF IsTiling
        <5> QED
          BY <5>1
      <4> QED
        BY <4>1 DEF IsTiling
    <3>3. k < Len(s) => t[j + 1] = s[k + 1]
      <4>1. ASSUME k < Len(s) PROVE t[j + 1] = s[k + 1]
        <5>1. k + 1 \in 1 .. Len(s)
          BY <1>1, <4>1
        <5> QED
          BY <1>1, <3>1, <5>1
      <4> QED
        BY <4>1
    <3>6. j < Len(t) => t[j + 1] = t[j] + BoxLen(q, t[j])
      <4>1. CASE j < Len(t)
        <5>1. k < Len(s)
          BY <1>1, <3>1, <4>1
        <5>2. t[j + 1] = s[k + 1] /\ s[k + 1] = s[k] + BoxLen(q, s[k])
          BY <3>2, <3>3, <5>1
        <5> QED
          BY <3>1, <5>2
      <4> QED
        BY <4>1
    <3>7. j = Len(t) => t[j] + BoxLen(q, t[j]) > l
      <4>1. CASE j = Len(t)
        <5>1. k = Len(s)
          BY <1>1, <3>1, <4>1
        <5> QED
          BY <3>1, <3>2, <5>1
      <4> QED
        BY <4>1
    <3>5. p <= s[k]
      BY <3>2
    <3> QED
      BY <3>1, <3>2, <3>5, <3>6, <3>7
  <2> QED
    BY <2>1, <2>2
<1> QED
  BY <1>1, <1>2 DEF IsTiling, t

\* The recursion of BoxesIn.
TilesTo(q, l, h) == h = [p \in Nat |-> IF p > l THEN << >> ELSE << p >> \o h[p + BoxLen(q, p)]]

LEMMA TilesExist ==
    ASSUME NEW q, SlotsTyped(q), NEW l \in Nat
    PROVE  \E h : TilesTo(q, l, h)
<1> DEFINE stop == [p \in Nat |-> p > l]
           base == [p \in Nat |-> << >>]
           comb == [p \in Nat |-> [s \in Seq(Nat) |-> << p >> \o s]]
           next == [p \in Nat |-> p + BoxLen(q, p)]
<1>1. ASSUME NEW p \in Nat
      PROVE  /\ p + BoxLen(q, p) \in Nat /\ p + BoxLen(q, p) > p
             /\ p >= l + 1 => p > l
  BY BoxLenType
<1>0. PICK n \in Nat : n = l + 1
  OBVIOUS
<1>2. Walks(n, Seq(Nat), stop, base, comb, next)
  <2>1. \A p \in Nat : p >= n => stop[p]
    BY <1>0, <1>1
  <2>2. base \in [Nat -> Seq(Nat)]
    OBVIOUS
  <2>3. comb \in [Nat -> [Seq(Nat) -> Seq(Nat)]]
    <3>1. ASSUME NEW p \in Nat, NEW s \in Seq(Nat) PROVE << p >> \o s \in Seq(Nat)
      OBVIOUS
    <3> QED
      BY <3>1
  <2>4. \A p \in Nat : ~ stop[p] => next[p] \in Nat /\ next[p] > p
    BY <1>1
  <2> HIDE DEF stop, base, comb, next
  <2> QED
    BY <2>1, <2>2, <2>3, <2>4 DEF Walks
<1>3. PICK f \in [Nat -> Seq(Nat)] : \A p \in Nat : f[p] = WalkFrom(f, stop, base, comb, next, p)
  <2> DEFINE V == Seq(Nat)
  <2>1. Walks(n, V, stop, base, comb, next)
    BY <1>2
  <2> HIDE DEF stop, base, comb, next, V
  <2>2. \E f \in [Nat -> V] : \A p \in Nat : f[p] = WalkFrom(f, stop, base, comb, next, p)
    BY <2>1, WalkExists
  <2> QED
    BY <2>2 DEF V
<1>4. ASSUME NEW p \in Nat
      PROVE  f[p] = IF p > l THEN << >> ELSE << p >> \o f[p + BoxLen(q, p)]
  <2>1. f[p] = IF stop[p] THEN base[p] ELSE comb[p][f[next[p]]]
    BY <1>3 DEF WalkFrom
  <2>2. next[p] = p + BoxLen(q, p) /\ f[p + BoxLen(q, p)] \in Seq(Nat)
    BY <1>1
  <2>3. base[p] = << >> /\ comb[p][f[p + BoxLen(q, p)]] = << p >> \o f[p + BoxLen(q, p)]
    BY <2>2
  <2>4. stop[p] = (p > l)
    OBVIOUS
  <2> HIDE DEF stop, base, comb, next
  <2> QED
    BY <2>1, <2>2, <2>3, <2>4
<1> QED
  BY <1>4 DEF TilesTo

LEMMA TilesAreTiling ==
    ASSUME NEW q, SlotsTyped(q), NEW l \in Nat, NEW h, TilesTo(q, l, h), NEW p \in Nat
    PROVE  IsTiling(q, h[p], p, l)
<1>1. \A i \in Nat : h[i] = IF i > l THEN << >> ELSE << i >> \o h[i + BoxLen(q, i)]
  BY DEF TilesTo
<1>2. SUFFICES ASSUME ~ IsTiling(q, h[p], p, l) PROVE FALSE
  OBVIOUS
<1>3. ASSUME NEW i \in Nat, i > l PROVE IsTiling(q, h[i], i, l)
  <2>1. h[i] = << >>
    BY <1>1, <1>3
  <2>2. << >> \in Seq(Nat) /\ Len(<< >>) = 0
    OBVIOUS
  <2>3. ~ (i <= l)
    BY <1>3
  <2>4. IsTiling(q, << >>, i, l)
    BY <2>2, <2>3 DEF IsTiling
  <2> QED
    BY <2>1, <2>4
<1> DEFINE Wrong == {m \in Nat : \E i \in Nat : l <= i + m /\ ~ IsTiling(q, h[i], i, l)}
<1>4. l \in Wrong
  <2>1. l <= p + l
    OBVIOUS
  <2> QED
    BY <1>2, <2>1
<1>5. PICK m \in Wrong : \A j \in Wrong : m <= j
  BY <1>4, LeastNatural
<1>6. PICK i \in Nat : l <= i + m /\ ~ IsTiling(q, h[i], i, l)
  BY <1>5
<1>7. i <= l
  BY <1>3, <1>6
<1>8. PICK n \in Nat \ {0} : n = BoxLen(q, i)
  BY BoxLenType
<1>9. IsTiling(q, h[i + n], i + n, l)
  <2>1. CASE i + n > l
    BY <1>3, <2>1
  <2>2. CASE ~ (i + n > l)
    <3>1. m \in Nat /\ m # 0
      BY <1>5, <1>6, <1>7, <1>8, <2>2
    <3>2. PICK k \in Nat : k = m - 1 /\ k < m /\ l <= i + n + k
      <4> HIDE DEF Wrong
      <4> QED
        BY <1>6, <1>8, <3>1
    <3>3. k \notin Wrong
      <4> HIDE DEF Wrong
      <4> QED
        BY <1>5, <3>1, <3>2
    <3>4. i + n \in Nat
      OBVIOUS
    <3> QED
      BY <3>2, <3>3, <3>4
  <2> QED
    BY <2>1, <2>2
<1>10. IsTiling(q, << i >> \o h[i + n], i, l)
  BY <1>7, <1>8, <1>9, TilingStep
<1>11. h[i] = << i >> \o h[i + n]
  <2>1. ~ (i > l)
    BY <1>7
  <2> QED
    BY <1>1, <1>8, <2>1
<1> QED
  BY <1>6, <1>10, <1>11

\* Where bucket b's run starts.
RunFirst(q, b) == Max({b, LastUsed(q, b - 1) + 1})

\* An occupied bucket's run ends at the only runend from its start on.
LEMMA RunendIs ==
    ASSUME NEW q, Paired(q), NEW b \in q.occupieds
    PROVE  /\ b \in Nat /\ RunFirst(q, b) \in Nat
           /\ RunFirst(q, b) = (IF b >= LastUsed(q, b - 1) + 1 THEN b ELSE LastUsed(q, b - 1) + 1)
           /\ RunendOf(q, b) \in q.runends /\ RunendOf(q, b) \in Nat /\ RunendOf(q, b) < EndOfBlocks
           /\ RunFirst(q, b) <= RunendOf(q, b)
           /\ \A e \in q.runends : RunFirst(q, b) <= e => RunendOf(q, b) <= e
<1>1. b \in Int /\ b >= 0
  BY TableSets
<1>2. PICK a \in Int : a = b - 1 /\ a < b /\ a <= b /\ b - a = 1 /\ a >= -1
  BY <1>1
<1>3. /\ Occupied(q, b) \in 1 .. Cardinality(q.runends) /\ Occupied(q, a) \in Nat
      /\ Occupied(q, a) = Occupied(q, b) - 1
  <2>1. Occupied(q, a) < Occupied(q, b) /\ Occupied(q, b) <= Occupied(q, a) + (b - a)
    BY <1>1, <1>2, CountReached, CountsGrow
  <2>2. Occupied(q, a) \in Nat /\ Occupied(q, b) \in 0 .. Cardinality(q.runends)
        /\ Cardinality(q.runends) \in Nat
    BY <1>1, <1>2, Counts
  <2> QED
    BY <1>2, <2>1, <2>2
<1>4. RunendOf(q, b) = NthRunend(q, Occupied(q, b))
  BY DEF RunendOf, NthRunend, Occupied, Ended
<1>5. PICK l \in 0 .. EndOfBlocks - 1 :
        l = RunendOf(q, b) /\ l \in q.runends /\ Ended(q, l) = Occupied(q, b)
  BY <1>3, <1>4, NthRunendAt
<1>6. l \in Nat /\ l < EndOfBlocks
  BY BlocksReach
<1>7. PICK u \in Int : u = LastUsed(q, a) /\ u >= -1 /\ u = LastUsed(q, b - 1)
  <2>1. LastUsed(q, a) \in Int /\ LastUsed(q, a) >= -1
    BY <1>2, LastUsedAt
  <2> QED
    BY <1>2, <2>1
<1>8. RunFirst(q, b) = IF b >= u + 1 THEN b ELSE u + 1
  <2>1. RunFirst(q, b) = Max({b, u + 1}) /\ u + 1 \in Int
    BY <1>7 DEF RunFirst
  <2> QED
    BY <1>1, <2>1, LargerOf
<1>9. RunFirst(q, b) \in Nat /\ RunFirst(q, b) >= b /\ RunFirst(q, b) > u
  BY <1>1, <1>7, <1>8
<1>10. RunFirst(q, b) <= l
  <2>1. b <= l
    BY <1>5 DEF Paired
  <2>2. PICK v \in Int : v = l - 1 /\ v >= -1 /\ v <= l /\ l - v = 1
    BY <1>6
  <2>3. Occupied(q, a) <= Ended(q, v)
    <3>1. Ended(q, l) <= Ended(q, v) + (l - v)
      BY <1>6, <2>2, CountsGrow
    <3>2. Ended(q, v) \in Nat
      BY <2>2, Counts
    <3> QED
      BY <1>3, <1>5, <2>2, <3>1, <3>2
  <2>4. u <= v
    BY <1>2, <1>7, <2>2, <2>3, LastUsedAt
  <2> QED
    BY <1>1, <1>6, <1>7, <1>8, <2>1, <2>2, <2>4
<1>11. ASSUME NEW e \in q.runends, RunFirst(q, b) <= e, ~ (l <= e)
       PROVE  FALSE
  <2>1. e \in Int /\ e < l
    BY <1>6, <1>11, TableSets
  <2>2. PICK v \in Int : v = e - 1 /\ v >= -1 /\ v < e /\ u <= v
    BY <1>7, <1>9, <1>11, <2>1
  <2>3. Occupied(q, a) <= Ended(q, v)
    BY <1>2, <1>7, <2>2, LastUsedAt
  <2>4. Ended(q, v) < Ended(q, e) /\ Ended(q, e) < Ended(q, l)
    BY <1>5, <1>6, <2>1, <2>2, CountReached
  <2>5. {Ended(q, v), Ended(q, e), Ended(q, l)} \subseteq Nat
    BY <1>6, <2>1, <2>2, Counts
  <2> QED
    BY <1>3, <1>5, <2>3, <2>4, <2>5
<1> QED
  BY <1>1, <1>5, <1>6, <1>7, <1>8, <1>9, <1>10, <1>11

\* The first box is where run_end places it.
LEMMA RunStartIs ==
    ASSUME NEW q, Paired(q), OffsetsCut(q), NEW b \in q.occupieds
    PROVE  RunStart(q, b) = RunFirst(q, b) /\ Max({RunStart(q, b), b}) = RunFirst(q, b)
<1>1. b \in Int /\ b >= 0 /\ b <= EndOfBlocks - 1 /\ EndOfBlocks \in Nat
  BY TableSets, BlocksReach
<1>2. PICK a \in Int : a = b - 1 /\ a >= -1
  BY <1>1
<1>3. RunFirst(q, b) = (IF b >= LastUsed(q, a) + 1 THEN b ELSE LastUsed(q, a) + 1) /\ LastUsed(q, a) \in Int
  BY <1>2, RunendIs, LastUsedAt
<1>4. CASE b = 0
  <2>1. Occupied(q, a) = 0
    BY <1>2, <1>4, Counts
  <2>2. LastUsed(q, a) = -1
    BY <2>1, LastUsedByCount
  <2>3. RunStart(q, b) = 0 /\ RunFirst(q, b) = 0
    BY <1>3, <1>4, <2>2 DEF RunStart
  <2> QED
    BY <1>4, <2>3, LargerOf
<1>5. CASE b # 0
  <2>1. a \in Slots
    BY <1>1, <1>2, <1>5 DEF Slots
  <2>2. RunEnd(q, a) = EndOfRuns(q, a)
    BY <2>1, RunEndExact
  <2>3. EndOfRuns(q, a) = (IF a >= LastUsed(q, a) THEN a ELSE LastUsed(q, a))
    BY <1>2, EndOfRunsIs
  <2>4. RunStart(q, b) = RunEnd(q, a) + 1
    BY <1>2, <1>5 DEF RunStart
  <2>5. RunStart(q, b) = RunFirst(q, b) /\ RunFirst(q, b) >= b /\ RunFirst(q, b) \in Int
    BY <1>1, <1>2, <1>3, <2>2, <2>3, <2>4
  <2> QED
    BY <1>1, <2>5, LargerOf
<1> QED
  BY <1>4, <1>5

\* s are the boxes of a run, whose last slot is l.
IsRun(q, s, l) ==
    /\ s \in Seq(Nat) /\ Len(s) \in Nat \ {0}
    /\ l \in Nat /\ l < EndOfBlocks
    /\ \A j \in 1 .. Len(s) :
         /\ s[j] \in Nat /\ s[j] <= l
         /\ IsRunend(q, s[j] + BoxLen(q, s[j]) - 1) <=> j = Len(s)
         /\ j < Len(s) => s[j + 1] = s[j] + BoxLen(q, s[j])
    /\ \A i, j \in 1 .. Len(s) : i <= j => FingerprintAt(q, s[i]) <= FingerprintAt(q, s[j])

LEMMA RunOfBucket ==
    ASSUME TypeOK, RunsWellFormed, NEW b \in qf.occupieds
    PROVE  IsRun(qf, BoxesIn(qf, b), RunendOf(qf, b)) /\ BoxesIn(qf, b)[1] = RunFirst(qf, b)
<1>1. Paired(qf) /\ SlotsTyped(qf)
  BY DEF TypeOK, Filters, RunsWellFormed, Paired, SlotsTyped
<1>2. PICK l \in Nat : l = RunendOf(qf, b) /\ l \in qf.runends /\ l < EndOfBlocks
  BY <1>1, RunendIs
<1>3. PICK first \in Nat : /\ first = RunFirst(qf, b) /\ first <= l
                           /\ \A e \in qf.runends : first <= e => l <= e
  BY <1>1, <1>2, RunendIs
<1>4. BoxesIn(qf, b) = (CHOOSE h : TilesTo(qf, l, h))[first]
  BY <1>2, <1>3 DEF BoxesIn, TilesTo, RunFirst
<1>5. PICK s : s = BoxesIn(qf, b) /\ IsTiling(qf, s, first, l)
  <2>1. PICK h : TilesTo(qf, l, h) /\ BoxesIn(qf, b) = h[first]
    BY <1>1, <1>4, TilesExist
  <2> QED
    BY <1>1, <2>1, TilesAreTiling
<1>6. s \in Seq(Nat) /\ Len(s) \in Nat \ {0} /\ s[1] = first /\ \A j \in 1 .. Len(s) : s[j] \in Nat
  <2>1. s \in Seq(Nat) /\ Len(s) >= 1 /\ s[1] = first
    BY <1>3, <1>5 DEF IsTiling
  <2> QED
    BY <2>1
<1>7. s[Len(s)] + BoxLen(qf, s[Len(s)]) - 1 = l
  BY <1>2, <1>5 DEF RunsWellFormed
<1>8. ASSUME NEW j \in 1 .. Len(s)
      PROVE  /\ s[j] \in Nat /\ s[j] <= l
             /\ IsRunend(qf, s[j] + BoxLen(qf, s[j]) - 1) <=> j = Len(s)
             /\ j < Len(s) => s[j + 1] = s[j] + BoxLen(qf, s[j])
  <2>1. s[j] \in Nat /\ s[j] <= l /\ first <= s[j] /\ BoxLen(qf, s[j]) \in Nat \ {0}
    BY <1>1, <1>5, <1>6, BoxLenType DEF IsTiling
  <2>2. j < Len(s) => s[j + 1] = s[j] + BoxLen(qf, s[j])
    BY <1>5 DEF IsTiling
  <2>3. CASE j = Len(s)
    BY <1>2, <1>7, <2>1, <2>3 DEF IsRunend
  <2>4. CASE j # Len(s)
    <3>1. j < Len(s) /\ j + 1 \in 1 .. Len(s)
      BY <1>6, <2>4
    <3>2. s[j + 1] <= l
      BY <1>5, <3>1 DEF IsTiling
    <3>3. PICK e \in Int : e = s[j] + BoxLen(qf, s[j]) - 1 /\ first <= e /\ e < l
      BY <2>1, <2>2, <3>1, <3>2
    <3>4. e \notin qf.runends
      BY <1>3, <3>3
    <3> QED
      BY <2>1, <2>2, <2>4, <3>3, <3>4 DEF IsRunend
  <2> QED
    BY <2>3, <2>4
<1>9. \A i, j \in 1 .. Len(s) : i <= j => FingerprintAt(qf, s[i]) <= FingerprintAt(qf, s[j])
  <2> DEFINE n == Len(s)
             g == [i \in 1 .. n |-> FingerprintAt(qf, s[i])]
  <2>1. \A i \in 1 .. n : g[i] \in Int /\ g[i] = FingerprintAt(qf, s[i])
    <3>1. ASSUME NEW i \in 1 .. n PROVE FingerprintAt(qf, s[i]) \in Int
      <4>1. s[i] \in Int
        BY <1>6
      <4>2. FingerprintAt(qf, s[i]) \in Nat
        BY <1>1, <4>1, SlotParts, Zenon
      <4> QED
        BY <4>2
    <3> QED
      BY <3>1
  <2>2. \A i \in 1 .. n - 1 : g[i] <= g[i + 1]
    <3>1. ASSUME NEW i \in 1 .. n - 1 PROVE FingerprintAt(qf, s[i]) <= FingerprintAt(qf, s[i + 1])
      BY <1>5 DEF RunsWellFormed
    <3>2. \A i \in 1 .. n - 1 : i \in 1 .. n /\ i + 1 \in 1 .. n
      BY <1>6
    <3> HIDE DEF n, g
    <3> QED
      BY <2>1, <3>1, <3>2
  <2>3. n \in Nat
    BY <1>6
  <2> HIDE DEF n, g
  <2>4. \A i, j \in 1 .. n : i <= j => g[i] <= g[j]
    BY <2>1, <2>2, <2>3, Ascending
  <2>5. \A i, j \in 1 .. n : i <= j => FingerprintAt(qf, s[i]) <= FingerprintAt(qf, s[j])
    BY <2>1, <2>4
  <2> QED
    BY <2>5 DEF n
<1>10. IsRun(qf, s, l)
  BY <1>2, <1>6, <1>8, <1>9 DEF IsRun
<1> QED
  BY <1>2, <1>3, <1>5, <1>6, <1>10

(***************************************************************************)
(* Searching a run for a fingerprint.                                      *)
(***************************************************************************)

\* What holds where a walk stops, and at a place when it holds at the next one,
\* holds all along.
LEMMA WalkReaches ==
    ASSUME NEW n \in Nat, NEW stop, NEW next, NEW Good,
           \A i \in Nat : i >= n => stop[i],
           \A i \in Nat : ~ stop[i] => next[i] \in Nat /\ next[i] > i,
           \A i \in Nat : stop[i] => i \in Good,
           \A i \in Nat : ~ stop[i] /\ next[i] \in Good => i \in Good
    PROVE  \A i \in Nat : i \in Good
<1> DEFINE held == [i \in Nat |-> IF i \in Good THEN 1 ELSE 0]
           all == [i \in Nat |-> 1]
<1>1. \A i \in Nat : held[i] = all[i] <=> i \in Good
  OBVIOUS
<1> HIDE DEF held, all
<1>2. WalkAgrees(n, stop, next, held, all)
  BY <1>1 DEF WalkAgrees
<1>3. \A i \in Nat : held[i] = all[i]
  BY <1>2, WalkUnique
<1> QED
  BY <1>1, <1>3

\* The recursion of next_matching_fingerprint_in_run.
Matches(q, f, h) ==
    h = [i \in Nat |->
            IF i >= EndOfBlocks \/ f < FingerprintAt(q, i) THEN NoPos
            ELSE IF f = FingerprintAt(q, i) THEN i
            ELSE IF IsRunend(q, i + BoxLen(q, i) - 1) THEN NoPos
            ELSE h[i + BoxLen(q, i)]]

LEMMA MatchesExist ==
    ASSUME NEW q, SlotsTyped(q), NEW f \in Nat
    PROVE  \E h : Matches(q, f, h)
<1> DEFINE ends(i) == \/ i >= EndOfBlocks \/ f < FingerprintAt(q, i)
                      \/ f = FingerprintAt(q, i) \/ IsRunend(q, i + BoxLen(q, i) - 1)
           found(i) == IF i >= EndOfBlocks \/ f < FingerprintAt(q, i) THEN NoPos
                       ELSE IF f = FingerprintAt(q, i) THEN i ELSE NoPos
           stop == [i \in Nat |-> ends(i)]
           base == [i \in Nat |-> found(i)]
           comb == [i \in Nat |-> [x \in Int |-> x]]
           next == [i \in Nat |-> i + BoxLen(q, i)]
<1>1. EndOfBlocks \in Nat
  BY BlocksReach
<1>2. Walks(EndOfBlocks, Int, stop, base, comb, next)
  <2>1. \A i \in Nat : i >= EndOfBlocks => stop[i]
    OBVIOUS
  <2>2. base \in [Nat -> Int]
    <3>1. \A i \in Nat : found(i) \in Int
      BY DEF NoPos
    <3> HIDE DEF found
    <3> QED
      BY <3>1
  <2>3. comb \in [Nat -> [Int -> Int]]
    OBVIOUS
  <2>4. \A i \in Nat : ~ stop[i] => next[i] \in Nat /\ next[i] > i
    <3>1. \A i \in Nat : i + BoxLen(q, i) \in Nat /\ i + BoxLen(q, i) > i
      BY BoxLenType
    <3> HIDE DEF stop
    <3> QED
      BY <3>1
  <2> HIDE DEF stop, base, comb, next
  <2> QED
    BY <2>1, <2>2, <2>3, <2>4 DEF Walks
<1>3. PICK h \in [Nat -> Int] : \A i \in Nat : h[i] = WalkFrom(h, stop, base, comb, next, i)
  <2> HIDE DEF stop, base, comb, next
  <2> QED
    BY <1>1, <1>2, WalkExists
<1>4. ASSUME NEW i \in Nat
      PROVE  h[i] = IF ends(i) THEN found(i) ELSE h[i + BoxLen(q, i)]
  <2>1. h[i] = IF stop[i] THEN base[i] ELSE comb[i][h[next[i]]]
    BY <1>3 DEF WalkFrom
  <2>2. PICK k \in Nat : k = i + BoxLen(q, i) /\ h[k] \in Int
    BY BoxLenType
  <2>3. next[i] = k /\ base[i] = found(i) /\ stop[i] = ends(i)
    BY <2>2
  <2>4. comb[i][h[k]] = h[k]
    BY <2>2
  <2> HIDE DEF stop, base, comb, next, ends, found
  <2> QED
    BY <2>1, <2>2, <2>3, <2>4
<1>5. ASSUME NEW i \in Nat
      PROVE  h[i] = IF i >= EndOfBlocks \/ f < FingerprintAt(q, i) THEN NoPos
                    ELSE IF f = FingerprintAt(q, i) THEN i
                    ELSE IF IsRunend(q, i + BoxLen(q, i) - 1) THEN NoPos
                    ELSE h[i + BoxLen(q, i)]
  <2>1. h[i] = IF ends(i) THEN found(i) ELSE h[i + BoxLen(q, i)]
    BY <1>4
  <2> HIDE DEF stop, base, comb, next
  <2> QED
    BY <2>1
<1> QED
  BY <1>5 DEF Matches

LEMMA NextMatchingIs ==
    ASSUME NEW q, SlotsTyped(q), NEW f \in Nat
    PROVE  \E h : Matches(q, f, h) /\ \A i : NextMatching(q, i, f) = h[i]
<1>1. PICK g : Matches(q, f, g)
  BY MatchesExist
<1>2. PICK h : h = (CHOOSE k : Matches(q, f, k))
  OBVIOUS
<1>3. Matches(q, f, h)
  BY <1>1, <1>2
<1>4. \A i : NextMatching(q, i, f) = h[i]
  BY <1>2 DEF NextMatching, Matches
<1> QED
  BY <1>3, <1>4

\* A search ends without a match or at a slot from its start on.
LEMMA NextMatchingAhead ==
    ASSUME NEW q, SlotsTyped(q), NEW f \in Nat, NEW j \in Nat, NextMatching(q, j, f) # NoPos
    PROVE  /\ NextMatching(q, j, f) \in Nat
           /\ j <= NextMatching(q, j, f) /\ NextMatching(q, j, f) < EndOfBlocks
<1>1. PICK h : Matches(q, f, h) /\ \A i : NextMatching(q, i, f) = h[i]
  BY NextMatchingIs
<1> DEFINE stop == [i \in Nat |-> \/ i >= EndOfBlocks \/ f < FingerprintAt(q, i)
                                  \/ f = FingerprintAt(q, i)
                                  \/ IsRunend(q, i + BoxLen(q, i) - 1)]
           next == [i \in Nat |-> i + BoxLen(q, i)]
           Good == {i \in Nat : h[i] = NoPos \/ (h[i] \in Nat /\ i <= h[i] /\ h[i] < EndOfBlocks)}
<1>2. EndOfBlocks \in Nat
  BY BlocksReach
<1>3. ASSUME NEW i \in Nat
      PROVE  /\ stop[i] => h[i] = NoPos \/ (h[i] = i /\ i < EndOfBlocks)
             /\ ~ stop[i] => h[i] = h[next[i]]
  <2>1. h[i] = IF i >= EndOfBlocks \/ f < FingerprintAt(q, i) THEN NoPos
               ELSE IF f = FingerprintAt(q, i) THEN i
               ELSE IF IsRunend(q, i + BoxLen(q, i) - 1) THEN NoPos
               ELSE h[i + BoxLen(q, i)]
    BY <1>1 DEF Matches
  <2> QED
    BY <1>2, <2>1
<1>4. ASSUME NEW i \in Nat PROVE next[i] \in Nat /\ next[i] > i
  BY BoxLenType
<1>5. \A i \in Nat : i >= EndOfBlocks => stop[i]
  OBVIOUS
<1>6. \A i \in Nat : i \in Good
  <2> HIDE DEF stop, next
  <2>1. \A i \in Nat : stop[i] => i \in Good
    BY <1>3
  <2>2. \A i \in Nat : ~ stop[i] /\ next[i] \in Good => i \in Good
    <3>1. ASSUME NEW i \in Nat, ~ stop[i], next[i] \in Good PROVE i \in Good
      <4>1. PICK k \in Nat : k = next[i] /\ k > i
        BY <1>4
      <4>2. h[i] = h[k]
        BY <1>3, <3>1, <4>1
      <4>3. h[k] = NoPos \/ (h[k] \in Nat /\ k <= h[k] /\ h[k] < EndOfBlocks)
        BY <3>1, <4>1
      <4> QED
        BY <4>1, <4>2, <4>3
    <3> QED
      BY <3>1
  <2> HIDE DEF Good
  <2> QED
    BY <1>2, <1>4, <1>5, <2>1, <2>2, WalkReaches
<1> QED
  BY <1>1, <1>6

\* What holds of a place of a sequence when it holds of the next one holds all along.
LEMMA DownFromLast ==
    ASSUME NEW n \in Nat, NEW Good,
           \A k \in 1 .. n : (k < n => k + 1 \in Good) => k \in Good
    PROVE  \A k \in 1 .. n : k \in Good
<1>1. SUFFICES ASSUME NEW k \in 1 .. n, k \notin Good PROVE FALSE
  OBVIOUS
<1> DEFINE Wrong == {m \in Nat : m <= n /\ n - m \in 1 .. n /\ n - m \notin Good}
<1>2. Wrong # {}
  <2>1. n - k \in Nat /\ n - k <= n /\ n - (n - k) = k
    OBVIOUS
  <2> QED
    BY <1>1, <2>1
<1>3. PICK m \in Wrong : \A i \in Wrong : m <= i
  BY <1>2, LeastNatural
<1>4. PICK j \in 1 .. n : j = n - m /\ j \notin Good
  BY <1>3
<1>5. j < n /\ j + 1 \notin Good
  BY <1>4
<1>6. m - 1 \in Nat /\ m - 1 < m /\ m - 1 <= n /\ n - (m - 1) = j + 1 /\ j + 1 \in 1 .. n
  BY <1>3, <1>4, <1>5
<1>7. m - 1 \in Wrong
  BY <1>5, <1>6
<1> QED
  BY <1>3, <1>6, <1>7

\* From the box s[j] of a run on, the first of fingerprint f is at place i.
FirstMatch(q, s, f, j, i) ==
    /\ i \in j .. Len(s)
    /\ FingerprintAt(q, s[i]) = f
    /\ \A k \in j .. i - 1 : FingerprintAt(q, s[k]) # f

\* A search from a box of a run finds the first one of the fingerprint there is.
LEMMA NextMatchingInRun ==
    ASSUME NEW q, SlotsTyped(q), NEW f \in Nat, NEW s, NEW l, IsRun(q, s, l), NEW j \in 1 .. Len(s)
    PROVE  \/ /\ NextMatching(q, s[j], f) = NoPos
              /\ \A i \in j .. Len(s) : FingerprintAt(q, s[i]) # f
           \/ \E i \in 1 .. Len(s) :
                 NextMatching(q, s[j], f) = s[i] /\ FirstMatch(q, s, f, j, i)
<1>1. PICK h : Matches(q, f, h) /\ \A i : NextMatching(q, i, f) = h[i]
  BY NextMatchingIs
<1> DEFINE Right(k) == \/ /\ h[s[k]] = NoPos
                          /\ \A i \in k .. Len(s) : FingerprintAt(q, s[i]) # f
                       \/ \E i \in 1 .. Len(s) : h[s[k]] = s[i] /\ FirstMatch(q, s, f, k, i)
<1>2. Len(s) \in Nat /\ EndOfBlocks \in Nat /\ l \in Nat /\ l < EndOfBlocks
  BY BlocksReach DEF IsRun
<1>3. ASSUME NEW k \in 1 .. Len(s)
      PROVE  FingerprintAt(q, s[k]) \in Nat
  <2>1. s[k] \in Int
    BY DEF IsRun
  <2> QED
    BY <2>1, SlotParts, Zenon
<1>4. ASSUME NEW k \in 1 .. Len(s)
      PROVE  h[s[k]] = IF f < FingerprintAt(q, s[k]) THEN NoPos
                       ELSE IF f = FingerprintAt(q, s[k]) THEN s[k]
                       ELSE IF k = Len(s) THEN NoPos ELSE h[s[k + 1]]
  <2>1. PICK p \in Nat : p = s[k] /\ p < EndOfBlocks
    BY <1>2 DEF IsRun
  <2>2. h[p] = IF p >= EndOfBlocks \/ f < FingerprintAt(q, p) THEN NoPos
               ELSE IF f = FingerprintAt(q, p) THEN p
               ELSE IF IsRunend(q, p + BoxLen(q, p) - 1) THEN NoPos
               ELSE h[p + BoxLen(q, p)]
    BY <1>1 DEF Matches
  <2>3. IsRunend(q, p + BoxLen(q, p) - 1) <=> k = Len(s)
    BY <2>1 DEF IsRun
  <2>4. k # Len(s) => s[k + 1] = p + BoxLen(q, p)
    BY <1>2, <2>1 DEF IsRun
  <2>5. ~ (p >= EndOfBlocks)
    BY <1>2, <2>1
  <2> QED
    BY <2>1, <2>2, <2>3, <2>4, <2>5
<1>5. ASSUME NEW k \in 1 .. Len(s), k < Len(s) => Right(k + 1) PROVE Right(k)
  <2>1. CASE f < FingerprintAt(q, s[k])
    <3>1. ASSUME NEW i \in k .. Len(s) PROVE FingerprintAt(q, s[i]) # f
      <4>1. i \in 1 .. Len(s) /\ k <= i
        BY <1>2
      <4>2. FingerprintAt(q, s[k]) <= FingerprintAt(q, s[i])
        BY <4>1 DEF IsRun
      <4>3. PICK x, y \in Nat : x = FingerprintAt(q, s[k]) /\ y = FingerprintAt(q, s[i])
        BY <1>3, <4>1
      <4> QED
        BY <2>1, <4>2, <4>3
    <3>2. h[s[k]] = NoPos
      BY <1>4, <2>1
    <3> QED
      BY <3>1, <3>2
  <2>2. CASE f = FingerprintAt(q, s[k])
    <3>1. h[s[k]] = s[k]
      <4>1. ~ (f < f)
        OBVIOUS
      <4> QED
        BY <1>4, <2>2, <4>1
    <3>2. k \in k .. Len(s) /\ k .. k - 1 = {}
      BY <1>2
    <3>3. FirstMatch(q, s, f, k, k)
      BY <2>2, <3>2 DEF FirstMatch
    <3> QED
      BY <3>1, <3>3
  <2>3. CASE ~ (f < FingerprintAt(q, s[k])) /\ f # FingerprintAt(q, s[k]) /\ k = Len(s)
    <3>1. h[s[k]] = NoPos
      BY <1>4, <2>3
    <3>2. \A i \in k .. Len(s) : i = k
      BY <1>2, <2>3
    <3> QED
      BY <2>3, <3>1, <3>2
  <2>4. CASE ~ (f < FingerprintAt(q, s[k])) /\ f # FingerprintAt(q, s[k]) /\ k # Len(s)
    <3>1. PICK m \in 1 .. Len(s) : m = k + 1 /\ h[s[k]] = h[s[m]] /\ Right(m)
      <4>1. k + 1 \in 1 .. Len(s) /\ k < Len(s)
        BY <1>2, <2>4
      <4>2. h[s[k]] = h[s[k + 1]]
        BY <1>4, <2>4
      <4> HIDE DEF Right
      <4> QED
        BY <1>5, <4>1, <4>2
    <3>2. \A i \in k .. Len(s) : i = k \/ i \in m .. Len(s)
      BY <1>2, <3>1
    <3>3. CASE h[s[m]] = NoPos /\ \A i \in m .. Len(s) : FingerprintAt(q, s[i]) # f
      BY <2>4, <3>1, <3>2, <3>3
    <3>4. CASE \E i \in 1 .. Len(s) : h[s[m]] = s[i] /\ FirstMatch(q, s, f, m, i)
      <4>1. PICK i \in 1 .. Len(s) : h[s[m]] = s[i] /\ FirstMatch(q, s, f, m, i)
        BY <3>4
      <4>2. i \in k .. Len(s) /\ \A x \in k .. i - 1 : x = k \/ x \in m .. i - 1
        BY <1>2, <3>1, <4>1 DEF FirstMatch
      <4>3. FirstMatch(q, s, f, k, i)
        BY <2>4, <4>1, <4>2 DEF FirstMatch
      <4> QED
        BY <3>1, <4>1, <4>3
    <3> QED
      BY <3>1, <3>3, <3>4
  <2> QED
    BY <2>1, <2>2, <2>3, <2>4
<1>6. \A k \in 1 .. Len(s) : Right(k)
  <2> DEFINE Good == {k \in 1 .. Len(s) : Right(k)}
  <2> HIDE DEF Right
  <2>1. ASSUME NEW k \in 1 .. Len(s), k < Len(s) => k + 1 \in Good PROVE k \in Good
    <3>1. k < Len(s) => Right(k + 1)
      BY <2>1
    <3>2. Right(k)
      BY <1>5, <3>1
    <3> QED
      BY <3>2
  <2> HIDE DEF Good
  <2>2. \A k \in 1 .. Len(s) : k \in Good
    BY <1>2, <2>1, DownFromLast
  <2> QED
    BY <2>2 DEF Good
<1> QED
  BY <1>1, <1>6

\* The recursion of MatchingBoxes, where `found` is what the search finds.
VisitsFrom(q, f, h, found) ==
    IF found = NoPos THEN << >>
    ELSE IF IsRunend(q, found + BoxLen(q, found) - 1) THEN << found >>
    ELSE << found >> \o h[found + BoxLen(q, found)]

Visits(q, f, h) == h = [i \in Nat |-> VisitsFrom(q, f, h, NextMatching(q, i, f))]

LEMMA VisitsExist ==
    ASSUME NEW q, SlotsTyped(q), NEW f \in Nat
    PROVE  \E h : Visits(q, f, h)
<1> DEFINE found(i) == NextMatching(q, i, f)
           ends(p) == p = NoPos \/ IsRunend(q, p + BoxLen(q, p) - 1)
           last(p) == IF p = NoPos THEN << >> ELSE << p >>
           joined(p, x) == IF p = NoPos THEN x ELSE << p >> \o x
           stop == [i \in Nat |-> ends(found(i))]
           base == [i \in Nat |-> last(found(i))]
           comb == [i \in Nat |-> [x \in Seq(Nat) |-> joined(found(i), x)]]
           next == [i \in Nat |-> found(i) + BoxLen(q, found(i))]
<1>1. EndOfBlocks \in Nat
  BY BlocksReach
<1>2. ASSUME NEW i \in Nat, found(i) # NoPos
      PROVE  /\ found(i) \in Nat /\ ~ (i >= EndOfBlocks)
             /\ found(i) + BoxLen(q, found(i)) \in Nat /\ found(i) + BoxLen(q, found(i)) > i
  <2>1. PICK p \in Nat : p = found(i) /\ i <= p /\ p < EndOfBlocks
    BY <1>2, NextMatchingAhead
  <2>2. BoxLen(q, p) \in Nat \ {0}
    BY BoxLenType
  <2> HIDE DEF found
  <2> QED
    BY <1>1, <2>1, <2>2
<1> HIDE DEF found
<1>3. Walks(EndOfBlocks, Seq(Nat), stop, base, comb, next)
  <2>1. \A i \in Nat : i >= EndOfBlocks => stop[i]
    BY <1>2
  <2>2. base \in [Nat -> Seq(Nat)]
    <3>1. ASSUME NEW i \in Nat PROVE last(found(i)) \in Seq(Nat)
      BY <1>2
    <3> QED
      BY <3>1
  <2>3. comb \in [Nat -> [Seq(Nat) -> Seq(Nat)]]
    <3>1. ASSUME NEW i \in Nat, NEW x \in Seq(Nat) PROVE joined(found(i), x) \in Seq(Nat)
      <4>1. CASE found(i) = NoPos
        BY <4>1
      <4>2. CASE found(i) # NoPos
        BY <1>2, <4>2
      <4> QED
        BY <4>1, <4>2
    <3> HIDE DEF joined
    <3> QED
      BY <3>1
  <2>4. \A i \in Nat : ~ stop[i] => next[i] \in Nat /\ next[i] > i
    BY <1>2
  <2> HIDE DEF stop, base, comb, next
  <2> QED
    BY <2>1, <2>2, <2>3, <2>4 DEF Walks
<1>4. PICK h \in [Nat -> Seq(Nat)] : \A i \in Nat : h[i] = WalkFrom(h, stop, base, comb, next, i)
  <2> DEFINE V == Seq(Nat)
  <2>1. Walks(EndOfBlocks, V, stop, base, comb, next)
    BY <1>3
  <2> HIDE DEF stop, base, comb, next, V
  <2>2. \E h \in [Nat -> V] : \A i \in Nat : h[i] = WalkFrom(h, stop, base, comb, next, i)
    BY <1>1, <2>1, WalkExists
  <2> QED
    BY <2>2 DEF V
<1>5. ASSUME NEW i \in Nat
      PROVE  h[i] = VisitsFrom(q, f, h, found(i))
  <2>1. h[i] = IF stop[i] THEN base[i] ELSE comb[i][h[next[i]]]
    BY <1>4 DEF WalkFrom
  <2>2. stop[i] = ends(found(i)) /\ base[i] = last(found(i))
    OBVIOUS
  <2>3. CASE ends(found(i))
    <3>1. h[i] = last(found(i))
      <4> HIDE DEF stop, base, comb, next, ends, last
      <4> QED
        BY <2>1, <2>2, <2>3
    <3> QED
      BY <2>3, <3>1 DEF VisitsFrom
  <2>4. CASE ~ ends(found(i))
    <3>1. PICK k \in Nat : k = found(i) + BoxLen(q, found(i)) /\ h[k] \in Seq(Nat) /\ next[i] = k
      BY <1>2, <2>4
    <3>2. comb[i][h[k]] = << found(i) >> \o h[k]
      BY <2>4, <3>1
    <3>3. h[i] = << found(i) >> \o h[k]
      <4> HIDE DEF stop, base, comb, next, ends, last
      <4> QED
        BY <2>1, <2>2, <2>4, <3>1, <3>2
    <3> QED
      BY <2>4, <3>1, <3>3 DEF VisitsFrom
  <2> QED
    BY <2>3, <2>4
<1>6. Visits(q, f, h)
  <2>1. h = [i \in Nat |-> h[i]]
    BY <1>4
  <2> QED
    BY <1>5, <2>1 DEF Visits, found
<1> QED
  BY <1>6

LEMMA MatchingBoxesIs ==
    ASSUME NEW q, SlotsTyped(q), NEW f \in Nat
    PROVE  \E h : Visits(q, f, h) /\ \A i : MatchingBoxes(q, i, f) = h[i]
<1>1. PICK g : Visits(q, f, g)
  BY VisitsExist
<1>2. PICK h : h = (CHOOSE k : Visits(q, f, k))
  OBVIOUS
<1>3. Visits(q, f, h)
  BY <1>1, <1>2
<1>4. \A i : MatchingBoxes(q, i, f) = h[i]
  BY <1>2 DEF MatchingBoxes, Visits, VisitsFrom
<1> QED
  BY <1>3, <1>4

\* t are boxes of fingerprint f, and all the boxes of it that s has from place j on.
AreMatches(q, t, s, f, j) ==
    /\ t \in Seq(Nat)
    /\ \A i \in 1 .. Len(t) : \E k \in j .. Len(s) : t[i] = s[k] /\ FingerprintAt(q, s[k]) = f
    /\ \A k \in j .. Len(s) : FingerprintAt(q, s[k]) = f => \E i \in 1 .. Len(t) : t[i] = s[k]

LEMMA MatchesJoin ==
    ASSUME NEW q, NEW s, NEW f, NEW j \in 1 .. Len(s), Len(s) \in Nat, NEW i \in 1 .. Len(s),
           s[i] \in Nat, FirstMatch(q, s, f, j, i), NEW t, AreMatches(q, t, s, f, i + 1)
    PROVE  AreMatches(q, << s[i] >> \o t, s, f, j)
<1> DEFINE u == << s[i] >> \o t
<1>1. /\ u \in Seq(Nat) /\ Len(t) \in Nat /\ Len(u) = Len(t) + 1 /\ u[1] = s[i]
      /\ \A n \in 1 .. Len(t) : u[n + 1] = t[n]
  BY DEF AreMatches
<1> HIDE DEF u
<1>2. ASSUME NEW n \in 1 .. Len(u)
      PROVE  \E k \in j .. Len(s) : u[n] = s[k] /\ FingerprintAt(q, s[k]) = f
  <2>1. CASE n = 1
    BY <1>1, <2>1 DEF FirstMatch
  <2>2. CASE n # 1
    <3>1. PICK m \in 1 .. Len(t) : n = m + 1
      <4>1. n - 1 \in 1 .. Len(t) /\ n = (n - 1) + 1
        BY <1>1, <2>2
      <4> QED
        BY <4>1
    <3>2. PICK k \in i + 1 .. Len(s) : t[m] = s[k] /\ FingerprintAt(q, s[k]) = f
      BY DEF AreMatches
    <3>3. k \in j .. Len(s)
      BY DEF FirstMatch
    <3> QED
      BY <1>1, <3>1, <3>2, <3>3
  <2> QED
    BY <2>1, <2>2
<1>3. ASSUME NEW k \in j .. Len(s), FingerprintAt(q, s[k]) = f
      PROVE  \E n \in 1 .. Len(u) : u[n] = s[k]
  <2>1. ~ (k \in j .. i - 1)
    BY <1>3 DEF FirstMatch
  <2>2. CASE k = i
    <3>1. 1 \in 1 .. Len(u)
      BY <1>1
    <3> QED
      BY <1>1, <2>2, <3>1
  <2>3. CASE k # i
    <3>1. k \in i + 1 .. Len(s)
      BY <2>1, <2>3
    <3>2. PICK m \in 1 .. Len(t) : t[m] = s[k]
      BY <1>3, <3>1 DEF AreMatches
    <3>3. m + 1 \in 1 .. Len(u) /\ u[m + 1] = t[m]
      BY <1>1
    <3> QED
      BY <3>2, <3>3
  <2> QED
    BY <2>2, <2>3
<1> QED
  BY <1>1, <1>2, <1>3 DEF AreMatches, u

\* The boxes a search loop visits from a box of a run on are those of the
\* fingerprint.
LEMMA MatchingBoxesInRun ==
    ASSUME NEW q, SlotsTyped(q), NEW f \in Nat, NEW s, NEW l, IsRun(q, s, l), NEW j \in 1 .. Len(s)
    PROVE  AreMatches(q, MatchingBoxes(q, s[j], f), s, f, j)
<1>1. PICK h : Visits(q, f, h) /\ \A i : MatchingBoxes(q, i, f) = h[i]
  BY MatchingBoxesIs
<1>2. Len(s) \in Nat /\ \A i \in 1 .. Len(s) : s[i] \in Nat
  BY DEF IsRun
<1> DEFINE found(i) == NextMatching(q, i, f)
<1>3. \A i \in 1 .. Len(s) : h[s[i]] = VisitsFrom(q, f, h, found(s[i]))
  BY <1>1, <1>2 DEF Visits
<1>4. ASSUME NEW k \in 1 .. Len(s),
             \A i \in 1 .. Len(s) : k < i => AreMatches(q, h[s[i]], s, f, i)
      PROVE  AreMatches(q, h[s[k]], s, f, k)
  <2>1. CASE found(s[k]) = NoPos /\ \A i \in k .. Len(s) : FingerprintAt(q, s[i]) # f
    <3>1. h[s[k]] = << >>
      BY <1>3, <2>1 DEF VisitsFrom
    <3>2. << >> \in Seq(Nat) /\ 1 .. Len(<< >>) = {}
      OBVIOUS
    <3>3. AreMatches(q, << >>, s, f, k)
      BY <2>1, <3>2 DEF AreMatches
    <3> QED
      BY <3>1, <3>3
  <2>2. CASE \E i \in 1 .. Len(s) : found(s[k]) = s[i] /\ FirstMatch(q, s, f, k, i)
    <3>1. PICK i \in 1 .. Len(s) : found(s[k]) = s[i] /\ FirstMatch(q, s, f, k, i)
      BY <2>2
    <3>2. s[i] \in Nat /\ s[i] # NoPos
      BY <1>2 DEF NoPos
    <3>3. h[s[k]] = IF IsRunend(q, s[i] + BoxLen(q, s[i]) - 1) THEN << s[i] >>
                    ELSE << s[i] >> \o h[s[i] + BoxLen(q, s[i])]
      BY <1>3, <3>1, <3>2 DEF VisitsFrom
    <3>4. CASE i = Len(s)
      <4>1. h[s[k]] = << s[i] >>
        BY <3>3, <3>4 DEF IsRun
      <4>2. << s[i] >> = << s[i] >> \o << >>
        OBVIOUS
      <4>3. << >> \in Seq(Nat) /\ 1 .. Len(<< >>) = {} /\ i + 1 .. Len(s) = {}
        BY <1>2, <3>4
      <4>4. AreMatches(q, << >>, s, f, i + 1)
        BY <4>3 DEF AreMatches
      <4>5. AreMatches(q, << s[i] >> \o << >>, s, f, k)
        BY <1>2, <3>1, <3>2, <4>4, MatchesJoin
      <4> QED
        BY <4>1, <4>2, <4>5
    <3>5. CASE i # Len(s)
      <4>1. i < Len(s) /\ i + 1 \in 1 .. Len(s) /\ k < i + 1
        BY <1>2, <3>1, <3>5 DEF FirstMatch
      <4>2. s[i + 1] = s[i] + BoxLen(q, s[i]) /\ ~ IsRunend(q, s[i] + BoxLen(q, s[i]) - 1)
        BY <3>5, <4>1 DEF IsRun
      <4>3. h[s[k]] = << s[i] >> \o h[s[i + 1]]
        BY <3>3, <4>2
      <4>4. AreMatches(q, h[s[i + 1]], s, f, i + 1)
        BY <1>4, <4>1
      <4>5. AreMatches(q, << s[i] >> \o h[s[i + 1]], s, f, k)
        BY <1>2, <3>1, <3>2, <4>4, MatchesJoin
      <4> QED
        BY <4>3, <4>5
    <3> QED
      BY <3>4, <3>5
  <2> QED
    BY <2>1, <2>2, NextMatchingInRun
<1>5. \A k \in 1 .. Len(s) : AreMatches(q, h[s[k]], s, f, k)
  <2> DEFINE Good == {k \in 1 .. Len(s) :
                       \A i \in 1 .. Len(s) : k <= i => AreMatches(q, h[s[i]], s, f, i)}
  <2>1. ASSUME NEW k \in 1 .. Len(s), k < Len(s) => k + 1 \in Good PROVE k \in Good
    <3>1. ASSUME NEW i \in 1 .. Len(s), k < i PROVE AreMatches(q, h[s[i]], s, f, i)
      <4>1. k < Len(s) /\ k + 1 <= i
        BY <1>2, <3>1
      <4>2. k + 1 \in Good
        BY <2>1, <4>1
      <4> QED
        BY <4>1, <4>2
    <3>2. AreMatches(q, h[s[k]], s, f, k)
      BY <1>4, <3>1
    <3>3. ASSUME NEW i \in 1 .. Len(s), k <= i PROVE AreMatches(q, h[s[i]], s, f, i)
      <4>1. i = k \/ k < i
        BY <1>2, <3>3
      <4> QED
        BY <3>1, <3>2, <4>1
    <3> QED
      BY <3>3
  <2> HIDE DEF Good
  <2>2. \A k \in 1 .. Len(s) : k \in Good
    BY <1>2, <2>1, DownFromLast
  <2>3. \A k \in 1 .. Len(s) : k <= k
    BY <1>2
  <2> QED
    BY <2>2, <2>3 DEF Good
<1> QED
  BY <1>1, <1>5

(***************************************************************************)
(* What the filter holds, box by box.                                      *)
(***************************************************************************)

\* The boxes of fingerprint f in bucket b's run.
BoxesOfFingerprint(q, b, f) == {p \in ToSet(BoxesIn(q, b)) : FingerprintAt(q, p) = f}

\* A search of an occupied bucket visits them all, and no other box.
LEMMA SearchedBoxes ==
    ASSUME TypeOK, RunsWellFormed, OffsetsExact, NEW b \in qf.occupieds, NEW f \in Nat
    PROVE  /\ MatchingBoxes(qf, RunStart(qf, b), f) \in Seq(Nat)
           /\ ToSet(MatchingBoxes(qf, RunStart(qf, b), f)) = BoxesOfFingerprint(qf, b, f)
           /\ Max({RunStart(qf, b), b}) = RunStart(qf, b)
<1>1. Paired(qf) /\ SlotsTyped(qf) /\ OffsetsCut(qf)
  <2>1. Paired(qf) /\ SlotsTyped(qf)
    BY DEF TypeOK, Filters, RunsWellFormed, Paired, SlotsTyped
  <2>2. OffsetsCut(qf)
    BY DEF OffsetsExact, OffsetsCut, OffsetsCutTo, Spill
  <2> QED
    BY <2>1, <2>2
<1>2. PICK s : s = BoxesIn(qf, b) /\ IsRun(qf, s, RunendOf(qf, b)) /\ s[1] = RunFirst(qf, b)
  BY RunOfBucket
<1>3. Len(s) \in Nat /\ 1 \in 1 .. Len(s)
  BY <1>2 DEF IsRun
<1>4. RunStart(qf, b) = s[1] /\ Max({RunStart(qf, b), b}) = RunStart(qf, b)
  BY <1>1, <1>2, RunStartIs
<1>5. PICK t : t = MatchingBoxes(qf, RunStart(qf, b), f) /\ AreMatches(qf, t, s, f, 1)
  BY <1>1, <1>2, <1>3, <1>4, MatchingBoxesInRun
<1>6. DOMAIN s = 1 .. Len(s) /\ DOMAIN t = 1 .. Len(t)
  BY <1>2, <1>5 DEF IsRun, AreMatches
<1>7. ASSUME NEW p PROVE p \in ToSet(t) <=> p \in ToSet(s) /\ FingerprintAt(qf, p) = f
  <2>1. p \in ToSet(s) <=> \E k \in 1 .. Len(s) : s[k] = p
    BY <1>6 DEF ToSet
  <2>2. p \in ToSet(t) <=> \E i \in 1 .. Len(t) : t[i] = p
    BY <1>6 DEF ToSet
  <2>3. \A i \in 1 .. Len(t) : \E k \in 1 .. Len(s) : t[i] = s[k] /\ FingerprintAt(qf, s[k]) = f
    BY <1>5 DEF AreMatches
  <2>4. \A k \in 1 .. Len(s) : FingerprintAt(qf, s[k]) = f => \E i \in 1 .. Len(t) : t[i] = s[k]
    BY <1>5 DEF AreMatches
  <2> QED
    BY <2>1, <2>2, <2>3, <2>4
<1>8. ToSet(t) = BoxesOfFingerprint(qf, b, f)
  BY <1>2, <1>7 DEF BoxesOfFingerprint
<1> QED
  BY <1>4, <1>5, <1>8 DEF AreMatches

LEMMA ListMementosType ==
    ASSUME NEW q, SlotsTyped(q), NEW at \in Nat
    PROVE  /\ ListMementos(q, at) \in Seq(Mementos)
           /\ Len(ListMementos(q, at)) = ListCount(q, at) /\ ListCount(q, at) \in Nat
<1>1. PICK n, c \in Nat : n = ListCount(q, at) /\ c = CounterLen(q, at)
  BY ListCountType, BoxLenType
<1> DEFINE listed(i) == Symbol(q, at, c + i - 1)
<1>2. ListMementos(q, at) = [i \in 1 .. n |-> listed(i)]
  BY <1>1 DEF ListMementos
<1>3. \A i \in 1 .. n : listed(i) \in Mementos
  <2>1. ASSUME NEW i \in 1 .. n PROVE Symbol(q, at, c + i - 1) \in Mementos
    <3>1. c + i - 1 \in Nat
      OBVIOUS
    <3> QED
      BY <3>1, SymbolIs
  <2> QED
    BY <2>1
<1> HIDE DEF listed
<1>4. [i \in 1 .. n |-> listed(i)] \in Seq(Mementos) /\ Len([i \in 1 .. n |-> listed(i)]) = n
  BY <1>3
<1> QED
  BY <1>1, <1>2, <1>4

LEMMA BoxMementosType ==
    ASSUME NEW q, SlotsTyped(q), NEW p \in Nat
    PROVE  /\ BoxMementos(q, p) \in Seq(Mementos)
           /\ Len(BoxMementos(q, p)) \in Nat \ {0}
           /\ DOMAIN BoxMementos(q, p) = 1 .. Len(BoxMementos(q, p))
<1>1. MementoAt(q, p) \in Mementos /\ MementoAt(q, p + 1) \in Mementos
  BY SlotParts
<1>2. ListMementos(q, p + 2) \in Seq(Mementos)
  <2>1. p + 2 \in Nat
    OBVIOUS
  <2> QED
    BY <2>1, ListMementosType
<1> DEFINE M == Mementos
           ms == BoxMementos(q, p)
<1>3. ms \in Seq(M) /\ Len(ms) \in Nat \ {0}
  <2>1. CASE ~ IsBox(q, p)
    <3>1. ms = << MementoAt(q, p) >>
      BY <2>1 DEF BoxMementos
    <3> HIDE DEF ms, M
    <3> QED
      BY <1>1, <3>1 DEF M
  <2>2. CASE IsBox(q, p) /\ ~ HasList(q, p)
    <3>1. ms = << MementoAt(q, p), MementoAt(q, p + 1) >>
      BY <2>2 DEF BoxMementos
    <3> HIDE DEF ms, M
    <3> QED
      BY <1>1, <3>1 DEF M
  <2>3. CASE IsBox(q, p) /\ HasList(q, p)
    <3>1. PICK t \in Seq(M) : t = ListMementos(q, p + 2)
      BY <1>2
    <3>2. PICK x, y \in M : x = MementoAt(q, p) /\ y = MementoAt(q, p + 1)
      BY <1>1
    <3>3. ms = << y >> \o t \o << x >>
      BY <2>3, <3>1, <3>2 DEF BoxMementos
    <3> HIDE DEF ms, M
    <3> QED
      BY <3>3
  <2> QED
    BY <2>1, <2>2, <2>3
<1>4. DOMAIN ms = 1 .. Len(ms)
  <2> HIDE DEF ms, M
  <2> QED
    BY <1>3
<1> QED
  BY <1>3, <1>4

\* A key is stored when a box of its prefix has its memento.
LEMMA HeldByBox ==
    ASSUME NEW x, NEW S
    PROVE  Holds(DOMAIN Contents, x, S) <=>
             /\ x[1] \in qf.occupieds
             /\ \E p \in BoxesOfFingerprint(qf, x[1], x[2]) :
                  \E i \in DOMAIN BoxMementos(qf, p) : BoxMementos(qf, p)[i] \in S
<1>1. DOMAIN Contents = {y[1] : y \in StoredKeys}
  <2>1. Contents = KeyBag(StoredKeys)
    BY DEF Contents
  <2> QED
    BY <2>1 DEF KeyBag
<1>2. ASSUME NEW y
      PROVE  y \in StoredKeys <=>
               \E b \in qf.occupieds : \E p \in ToSet(BoxesIn(qf, b)) :
                 \E i \in DOMAIN BoxMementos(qf, p) :
                   y = << << b, FingerprintAt(qf, p), BoxMementos(qf, p)[i] >>, p, i >>
  BY DEF StoredKeys, KeysAt
<1>3. ASSUME NEW k
      PROVE  k \in DOMAIN Contents <=>
               \E b \in qf.occupieds : \E p \in ToSet(BoxesIn(qf, b)) :
                 \E i \in DOMAIN BoxMementos(qf, p) :
                   k = << b, FingerprintAt(qf, p), BoxMementos(qf, p)[i] >>
  <2>1. ASSUME k \in DOMAIN Contents
        PROVE  \E b \in qf.occupieds : \E p \in ToSet(BoxesIn(qf, b)) :
                 \E i \in DOMAIN BoxMementos(qf, p) :
                   k = << b, FingerprintAt(qf, p), BoxMementos(qf, p)[i] >>
    <3>1. PICK y \in StoredKeys : k = y[1]
      BY <1>1, <2>1
    <3> QED
      BY <1>2, <3>1
  <2>2. ASSUME NEW b \in qf.occupieds, NEW p \in ToSet(BoxesIn(qf, b)),
               NEW i \in DOMAIN BoxMementos(qf, p),
               k = << b, FingerprintAt(qf, p), BoxMementos(qf, p)[i] >>
        PROVE  k \in DOMAIN Contents
    <3>1. PICK y : y = << << b, FingerprintAt(qf, p), BoxMementos(qf, p)[i] >>, p, i >>
      OBVIOUS
    <3>2. y \in StoredKeys
      BY <1>2, <3>1
    <3>3. y[1] = k
      BY <2>2, <3>1
    <3> QED
      BY <1>1, <3>2, <3>3
  <2> QED
    BY <2>1, <2>2
<1>4. ASSUME Holds(DOMAIN Contents, x, S)
      PROVE  /\ x[1] \in qf.occupieds
             /\ \E p \in BoxesOfFingerprint(qf, x[1], x[2]) :
                  \E i \in DOMAIN BoxMementos(qf, p) : BoxMementos(qf, p)[i] \in S
  <2>1. PICK k \in DOMAIN Contents : k[1] = x[1] /\ k[2] = x[2] /\ k[3] \in S
    BY <1>4 DEF Holds
  <2>2. PICK b \in qf.occupieds : \E p \in ToSet(BoxesIn(qf, b)) :
          \E i \in DOMAIN BoxMementos(qf, p) :
            k = << b, FingerprintAt(qf, p), BoxMementos(qf, p)[i] >>
    BY <1>3, <2>1
  <2> QED
    BY <2>1, <2>2 DEF BoxesOfFingerprint
<1>5. ASSUME x[1] \in qf.occupieds, NEW p \in BoxesOfFingerprint(qf, x[1], x[2]),
             NEW i \in DOMAIN BoxMementos(qf, p), BoxMementos(qf, p)[i] \in S
      PROVE  Holds(DOMAIN Contents, x, S)
  <2>1. PICK k : k = << x[1], FingerprintAt(qf, p), BoxMementos(qf, p)[i] >>
    OBVIOUS
  <2>2. p \in ToSet(BoxesIn(qf, x[1])) /\ FingerprintAt(qf, p) = x[2]
    BY DEF BoxesOfFingerprint
  <2>3. k \in DOMAIN Contents
    BY <1>3, <1>5, <2>1, <2>2
  <2> QED
    BY <1>5, <2>1, <2>2, <2>3 DEF Holds
<1> QED
  BY <1>4, <1>5

LEMMA GreatestPlace ==
    ASSUME NEW n \in Nat, NEW S \in SUBSET (1 .. n), S # {}
    PROVE  Max(S) \in S
<1> DEFINE T == {n - y : y \in S}
<1>1. T \in SUBSET Nat /\ T # {}
  <2>1. ASSUME NEW y \in S PROVE n - y \in Nat
    <3>1. y \in 1 .. n
      OBVIOUS
    <3> QED
      BY <3>1
  <2> QED
    BY <2>1
<1>2. PICK t \in T : \A u \in T : t <= u
  BY <1>1, LeastNatural
<1>3. PICK m \in S : t = n - m
  BY <1>2
<1>4. \A y \in S : y <= m
  <2>1. ASSUME NEW y \in S PROVE y <= m
    <3>1. n - m <= n - y
      BY <1>2, <1>3
    <3>2. y \in Int /\ m \in Int
      OBVIOUS
    <3> QED
      BY <3>1, <3>2
  <2> QED
    BY <2>1
<1>5. S \in SUBSET Int
  OBVIOUS
<1> QED
  BY <1>4, <1>5, Greatest

(***************************************************************************)
(* For every size of the table and every width of fingerprints and         *)
(* mementos: in every state in which the runs, the boxes and the offsets   *)
(* are as the invariants of the runs say, qf_delete_single finds a box to  *)
(* delete from exactly for the stored keys of an occupied bucket.          *)
(***************************************************************************)
THEOREM DeleteFindsCorrect == TypeOK /\ RunsWellFormed /\ OffsetsExact => DeleteFindsExact
<1> SUFFICES ASSUME TypeOK, RunsWellFormed, OffsetsExact,
                    NEW x \in KeyPrefixes, NEW m \in Mementos, IsOccupied(qf, x[1])
             PROVE  BoxToDeleteFrom(x[1], x[2], m) # NoPos <=> Holds(DOMAIN Contents, x, {m})
  BY DEF DeleteFindsExact
<1>1. PICK b \in qf.occupieds, f \in Nat : b = x[1] /\ f = x[2]
  BY FilterAssumption DEF IsOccupied, Fingerprints
<1>2. PICK t \in Seq(Nat) : t = MatchingBoxes(qf, RunStart(qf, b), f)
                            /\ ToSet(t) = BoxesOfFingerprint(qf, b, f)
  BY SearchedBoxes
<1>3. SlotsTyped(qf)
  BY DEF TypeOK, Filters, SlotsTyped
<1> DEFINE having == {i \in DOMAIN t : Contains(BoxMementos(qf, t[i]), m)}
<1>4. BoxToDeleteFrom(b, f, m) = IF having = {} THEN NoPos ELSE t[Max(having)]
  BY <1>2 DEF BoxToDeleteFrom
<1>5. BoxToDeleteFrom(b, f, m) # NoPos <=> having # {}
  <2>1. CASE having = {}
    BY <1>4, <2>1
  <2>2. CASE having # {}
    <3>1. Len(t) \in Nat /\ having \in SUBSET (1 .. Len(t))
      OBVIOUS
    <3>2. Max(having) \in 1 .. Len(t)
      BY <2>2, <3>1, GreatestPlace
    <3> HIDE DEF having
    <3>3. t[Max(having)] \in Nat
      BY <3>2
    <3> QED
      BY <1>4, <2>2, <3>3 DEF NoPos
  <2> QED
    BY <2>1, <2>2
<1>6. ASSUME NEW p \in Nat
      PROVE  Contains(BoxMementos(qf, p), m) <=>
               \E i \in DOMAIN BoxMementos(qf, p) : BoxMementos(qf, p)[i] \in {m}
  BY <1>3, BoxMementosType DEF Contains
<1>7. having # {} <=> \E p \in BoxesOfFingerprint(qf, b, f) :
                        \E i \in DOMAIN BoxMementos(qf, p) : BoxMementos(qf, p)[i] \in {m}
  <2>1. \A i \in DOMAIN t : t[i] \in Nat
    OBVIOUS
  <2> QED
    BY <1>2, <1>6, <2>1 DEF ToSet
<1>8. BoxToDeleteFrom(b, f, m) # NoPos <=> Holds(DOMAIN Contents, x, {m})
  <2> HIDE DEF having
  <2> QED
    BY <1>1, <1>5, <1>7, HeldByBox
<1> QED
  BY <1>1, <1>8

(***************************************************************************)
(* What queries compare with in a box.                                     *)
(***************************************************************************)

\* The mementos of the box at p.
MementosIn(q, p) == ToSet(BoxMementos(q, p))

InOrder(ms) == \A i \in 1 .. Len(ms) - 1 : ms[i] <= ms[i + 1]

\* A list reads back as its least memento, those in between and its greatest.
ListReads(q, p, t) ==
    /\ t \in Seq(Mementos)
    /\ MementosIn(q, p) = {MementoAt(q, p), MementoAt(q, p + 1)} \cup ToSet(t)
    /\ \A i \in 1 .. Len(t) : MementoAt(q, p + 1) <= t[i] /\ t[i] <= MementoAt(q, p)
    /\ \A i, j \in 1 .. Len(t) : i <= j => t[i] <= t[j]

LEMMA ListLayout ==
    ASSUME NEW q, SlotsTyped(q), NEW p \in Nat, IsBox(q, p), HasList(q, p), InOrder(BoxMementos(q, p))
    PROVE  ListReads(q, p, ListMementos(q, p + 2))
<1> DEFINE M == Mementos
<1>1. PICK x, y \in M : x = MementoAt(q, p) /\ y = MementoAt(q, p + 1)
  BY SlotParts
<1>2. PICK t \in Seq(M) : t = ListMementos(q, p + 2)
  <2>1. p + 2 \in Nat
    OBVIOUS
  <2> QED
    BY <2>1, ListMementosType
<1>3. PICK ms : ms = BoxMementos(q, p) /\ ms = << y >> \o t \o << x >>
  BY <1>1, <1>2 DEF BoxMementos
<1>4. M \subseteq Int
  BY Widths DEF Mementos
<1> HIDE DEF M
<1>5. PICK n \in Nat : n = Len(t)
  OBVIOUS
<1>6. /\ ms \in Seq(M) /\ Len(ms) = n + 2 /\ ms[1] = y /\ ms[n + 2] = x
      /\ \A i \in 1 .. n : ms[i + 1] = t[i]
  BY <1>3, <1>5
<1>7. \A i, j \in 1 .. n + 2 : i <= j => ms[i] <= ms[j]
  <2>1. PICK m \in Nat : m = n + 2 /\ m = Len(ms)
    BY <1>6
  <2>2. \A i \in 1 .. m : ms[i] \in Int
    <3>1. \A i \in 1 .. m : ms[i] \in M
      BY <1>6, <2>1
    <3> QED
      BY <1>4, <3>1
  <2>3. \A i \in 1 .. m - 1 : ms[i] <= ms[i + 1]
    BY <1>3, <2>1 DEF InOrder
  <2>4. \A i, j \in 1 .. m : i <= j => ms[i] <= ms[j]
    BY <2>2, <2>3, Ascending
  <2> QED
    BY <2>1, <2>4
<1>8. ASSUME NEW i \in 1 .. n
      PROVE  y <= t[i] /\ t[i] <= x /\ \A j \in 1 .. n : i <= j => t[i] <= t[j]
  <2>1. {1, i + 1, n + 2} \subseteq 1 .. n + 2 /\ 1 <= i + 1 /\ i + 1 <= n + 2
    OBVIOUS
  <2>2. y <= t[i] /\ t[i] <= x
    BY <1>6, <1>7, <2>1
  <2>3. ASSUME NEW j \in 1 .. n, i <= j PROVE t[i] <= t[j]
    <3>1. j + 1 \in 1 .. n + 2 /\ i + 1 <= j + 1
      BY <2>3
    <3> QED
      BY <1>6, <1>7, <2>1, <3>1
  <2> QED
    BY <2>2, <2>3
<1>9. MementosIn(q, p) = {x, y} \cup ToSet(t)
  <2>1. DOMAIN ms = 1 .. n + 2 /\ DOMAIN t = 1 .. n
    BY <1>5, <1>6
  <2>2. ASSUME NEW i \in 1 .. n + 2 PROVE ms[i] \in {x, y} \cup {t[j] : j \in 1 .. n}
    <3>1. CASE i = 1 \/ i = n + 2
      BY <1>6, <3>1
    <3>2. CASE i # 1 /\ i # n + 2
      <4>1. i - 1 \in 1 .. n /\ (i - 1) + 1 = i
        BY <3>2
      <4>2. ms[i] = t[i - 1]
        BY <1>6, <4>1
      <4> QED
        BY <4>1, <4>2
    <3> QED
      BY <3>1, <3>2
  <2>3. \A j \in 1 .. n : j + 1 \in 1 .. n + 2 /\ ms[j + 1] = t[j]
    BY <1>6
  <2>4. 1 \in 1 .. n + 2 /\ n + 2 \in 1 .. n + 2
    OBVIOUS
  <2>5. {ms[i] : i \in 1 .. n + 2} = {x, y} \cup {t[j] : j \in 1 .. n}
    <3>1. ASSUME NEW z
          PROVE  z \in {ms[i] : i \in 1 .. n + 2} <=> z \in {x, y} \cup {t[j] : j \in 1 .. n}
      BY <1>6, <2>2, <2>3, <2>4
    <3> QED
      BY <3>1
  <2> QED
    BY <1>3, <2>1, <2>5 DEF MementosIn, ToSet
<1> QED
  BY <1>1, <1>2, <1>5, <1>8, <1>9 DEF ListReads, M

LEMMA FewMementos ==
    ASSUME NEW q, SlotsTyped(q), NEW p \in Nat
    PROVE  /\ ~ IsBox(q, p) => MementosIn(q, p) = {MementoAt(q, p)}
           /\ IsBox(q, p) /\ ~ HasList(q, p) =>
                MementosIn(q, p) = {MementoAt(q, p), MementoAt(q, p + 1)}
<1>1. ASSUME ~ IsBox(q, p) PROVE MementosIn(q, p) = {MementoAt(q, p)}
  <2>1. BoxMementos(q, p) = << MementoAt(q, p) >>
    BY <1>1 DEF BoxMementos
  <2> QED
    BY <2>1 DEF MementosIn, ToSet
<1>2. ASSUME IsBox(q, p), ~ HasList(q, p)
      PROVE  MementosIn(q, p) = {MementoAt(q, p), MementoAt(q, p + 1)}
  <2>1. BoxMementos(q, p) = << MementoAt(q, p), MementoAt(q, p + 1) >>
    BY <1>2 DEF BoxMementos
  <2> QED
    BY <2>1 DEF MementosIn, ToSet
<1> QED
  BY <1>1, <1>2

LEMMA EndSlots ==
    ASSUME NEW q, SlotsTyped(q), NEW p \in Nat
    PROVE  /\ MementoAt(q, p) \in Int /\ MementoAt(q, p + 1) \in Int
           /\ Min({MementoAt(q, p), MementoAt(q, p + 1)})
                = IF HasList(q, p) THEN MementoAt(q, p + 1) ELSE MementoAt(q, p)
           /\ Max({MementoAt(q, p), MementoAt(q, p + 1)})
                = IF HasList(q, p) THEN MementoAt(q, p) ELSE MementoAt(q, p + 1)
<1>1. MementoAt(q, p) \in Int /\ MementoAt(q, p + 1) \in Int
  <2>1. MementoAt(q, p) \in Mementos /\ MementoAt(q, p + 1) \in Mementos
    BY SlotParts
  <2> QED
    BY <2>1 DEF Mementos
<1>2. PICK x, y \in Int : x = MementoAt(q, p) /\ y = MementoAt(q, p + 1)
  BY <1>1
<1>3. HasList(q, p) <=> x >= y
  BY <1>2 DEF HasList
<1>4. Min({x, y}) = IF x <= y THEN x ELSE y
  BY SmallerOf
<1>5. Max({x, y}) = IF x >= y THEN x ELSE y
  BY LargerOf
<1> QED
  BY <1>1, <1>2, <1>3, <1>4, <1>5

\* The end slots of a box hold its least and its greatest memento.
LEMMA BoxEnds ==
    ASSUME SlotsTyped(qf), NEW p \in Nat, InOrder(BoxMementos(qf, p))
    PROVE  /\ BoxMin(p) \in MementosIn(qf, p) /\ BoxMax(p) \in MementosIn(qf, p)
           /\ MementosIn(qf, p) \subseteq Int
           /\ \A m \in MementosIn(qf, p) : BoxMin(p) <= m /\ m <= BoxMax(p)
<1>1. PICK x, y \in Int : x = MementoAt(qf, p) /\ y = MementoAt(qf, p + 1)
  BY EndSlots
<1>2. CASE ~ IsBox(qf, p)
  <2>1. MementosIn(qf, p) = {x} /\ BoxMin(p) = x /\ BoxMax(p) = x
    BY <1>1, <1>2, FewMementos DEF BoxMin, BoxMax
  <2> QED
    BY <2>1
<1>3. CASE IsBox(qf, p) /\ ~ HasList(qf, p)
  <2>1. MementosIn(qf, p) = {x, y} /\ x < y
    BY <1>1, <1>3, FewMementos DEF HasList
  <2>2. BoxMin(p) = x /\ BoxMax(p) = y
    BY <1>1, <1>3, EndSlots DEF BoxMin, BoxMax
  <2> QED
    BY <2>1, <2>2
<1>4. CASE IsBox(qf, p) /\ HasList(qf, p)
  <2>1. PICK t : t = ListMementos(qf, p + 2) /\ ListReads(qf, p, t)
    BY <1>4, ListLayout
  <2>2. y <= x /\ BoxMin(p) = y /\ BoxMax(p) = x
    BY <1>1, <1>4, EndSlots DEF BoxMin, BoxMax, HasList
  <2>3. MementosIn(qf, p) = {x, y} \cup {t[i] : i \in 1 .. Len(t)}
    <3>1. DOMAIN t = 1 .. Len(t)
      BY <2>1 DEF ListReads
    <3> QED
      BY <1>1, <2>1, <3>1 DEF ListReads, ToSet
  <2>4. \A i \in 1 .. Len(t) : t[i] \in Int /\ y <= t[i] /\ t[i] <= x
    <3>1. \A i \in 1 .. Len(t) : t[i] \in Mementos
      BY <2>1 DEF ListReads
    <3>2. \A m \in Mementos : m \in Int
      BY DEF Mementos
    <3> QED
      BY <1>1, <2>1, <3>1, <3>2 DEF ListReads
  <2> QED
    BY <2>2, <2>3, <2>4
<1> QED
  BY <1>2, <1>3, <1>4

\* The lists of a filter that a query reads right: those with a counter of one
\* symbol, after which the search reads on where the counter ends.
CounterShort(q, p) == IsBox(q, p) /\ HasList(q, p) => CounterLen(q, p + 2) = 1

\* m is the least memento of the box that is not below the target, or any of
\* it when all are below.
IsLowerBound(q, p, target, m) ==
    /\ m \in MementosIn(q, p)
    /\ \A x \in MementosIn(q, p) : target <= x => target <= m /\ m <= x

\* The first place where the sequence holds a number that is not below the target.
LEMMA FirstNotBelow ==
    ASSUME NEW n \in Nat, NEW t, \A i \in 1 .. n : t[i] \in Int, NEW target \in Int,
           NEW I, I = {i \in 1 .. n : target <= t[i]}, I # {}
    PROVE  /\ Min(I) \in 1 .. n /\ target <= t[Min(I)]
           /\ \A j \in 1 .. n : target <= t[j] => Min(I) <= j
<1>1. I \in SUBSET Nat /\ I \in SUBSET Int
  OBVIOUS
<1>2. PICK m \in I : \A j \in I : m <= j
  BY <1>1, LeastNatural
<1>3. Min(I) = m
  BY <1>1, <1>2, Least
<1> QED
  BY <1>2, <1>3

\* lower_bound_mementos_for_fingerprint
LEMMA LowerBoundFound ==
    ASSUME SlotsTyped(qf), NEW p \in Nat, InOrder(BoxMementos(qf, p)), CounterShort(qf, p),
           NEW target \in Mementos
    PROVE  IsLowerBound(qf, p, target, FoundInBox(p, target))
<1>1. PICK x, y \in Int : x = MementoAt(qf, p) /\ y = MementoAt(qf, p + 1)
  BY EndSlots
<1>2. target \in Int
  BY DEF Mementos
<1>3. CASE ~ IsBox(qf, p)
  <2>1. MementosIn(qf, p) = {x} /\ FoundInBox(p, target) = x
    BY <1>1, <1>3, FewMementos DEF FoundInBox
  <2> QED
    BY <2>1 DEF IsLowerBound
<1>4. CASE IsBox(qf, p) /\ ~ HasList(qf, p)
  <2>1. MementosIn(qf, p) = {x, y} /\ x < y
    BY <1>1, <1>4, FewMementos DEF HasList
  <2>2. FoundInBox(p, target) = LowerBoundMemento(qf, p, target)
    BY <1>4 DEF FoundInBox
  <2>3. FoundInBox(p, target) = IF target <= x THEN x ELSE y
    BY <1>1, <1>4, <2>2, EndSlots DEF LowerBoundMemento
  <2> QED
    BY <1>2, <2>1, <2>3 DEF IsLowerBound
<1>5. CASE IsBox(qf, p) /\ HasList(qf, p)
  <2>1. PICK t : t = ListMementos(qf, p + 2) /\ ListReads(qf, p, t)
    BY <1>5, ListLayout
  <2>2. PICK n \in Nat : n = ListCount(qf, p + 2) /\ n = Len(t)
    <3>1. p + 2 \in Nat
      OBVIOUS
    <3> QED
      BY <2>1, <3>1, ListMementosType
  <2>3. MementosIn(qf, p) = {x, y} \cup {t[i] : i \in 1 .. n}
    <3>1. DOMAIN t = 1 .. n
      BY <2>1, <2>2 DEF ListReads
    <3> QED
      BY <1>1, <2>1, <3>1 DEF ListReads, ToSet
  <2>4. \A i \in 1 .. n : t[i] \in Int /\ y <= t[i] /\ t[i] <= x
    <3>1. \A i \in 1 .. n : t[i] \in Mementos
      BY <2>1, <2>2 DEF ListReads
    <3>2. \A m \in Mementos : m \in Int
      BY DEF Mementos
    <3> QED
      BY <1>1, <2>1, <2>2, <3>1, <3>2 DEF ListReads
  <2>5. \A i, j \in 1 .. n : i <= j => t[i] <= t[j]
    BY <2>1, <2>2 DEF ListReads
  <2>6. y <= x
    BY <1>1, <1>5 DEF HasList
  <2> DEFINE I == {i \in 1 .. n : target <= t[i]}
             found == IF I # {} THEN Min(I) ELSE 0
  <2>7. LowerBoundMemento(qf, p, target) =
          IF target <= y THEN y
          ELSE IF x <= target \/ found = 0 THEN x ELSE t[found]
    <3>1. CounterLen(qf, p + 2) = 1
      BY <1>5 DEF CounterShort
    <3>2. [i \in 1 .. n |-> SymbolSkipping(qf, p + 2, EndOfBlocks, 1 + i - 1)] = t
      BY <2>1, <2>2, <3>1 DEF ListMementos, Symbol
    <3>3. Len(t) = n
      BY <2>2
    <3> DEFINE sel == SelectInSeq(t, LAMBDA z : target <= z)
    <3>4. sel = found
      BY <3>3 DEF SelectInSeq
    <3>5. LowerBoundMemento(qf, p, target) =
            IF target <= y THEN y
            ELSE IF x <= target \/ sel = 0 THEN x ELSE t[sel]
      BY <1>1, <1>5, <2>2, <3>1, <3>2, EndSlots DEF LowerBoundMemento
    <3> QED
      BY <3>4, <3>5
  <2>8. FoundInBox(p, target) = LowerBoundMemento(qf, p, target)
    BY <1>5 DEF FoundInBox
  <2>9. CASE I = {}
    <3>1. FoundInBox(p, target) = IF target <= y THEN y ELSE x
      BY <2>7, <2>8, <2>9
    <3>2. \A i \in 1 .. n : ~ (target <= t[i])
      BY <2>9
    <3> HIDE DEF I, found
    <3> QED
      BY <1>2, <2>3, <2>4, <2>6, <3>1, <3>2 DEF IsLowerBound
  <2>10. CASE I # {}
    <3>1. PICK k : k = Min(I) /\ k \in 1 .. n /\ target <= t[k]
                   /\ \A j \in 1 .. n : target <= t[j] => k <= j
      <4>1. \A i \in 1 .. n : t[i] \in Int
        BY <2>4
      <4>2. I = {i \in 1 .. n : target <= t[i]}
        OBVIOUS
      <4> HIDE DEF I, found
      <4>3. /\ Min(I) \in 1 .. n /\ target <= t[Min(I)]
            /\ \A j \in 1 .. n : target <= t[j] => Min(I) <= j
        BY <1>2, <2>10, <4>1, <4>2, FirstNotBelow, Zenon
      <4> QED
        BY <4>3
    <3>2. \A j \in 1 .. n : target <= t[j] => t[k] <= t[j]
      BY <2>5, <3>1
    <3>3. k # 0 /\ found = k
      BY <2>10, <3>1
    <3>4. FoundInBox(p, target) = IF target <= y THEN y
                                  ELSE IF x <= target THEN x ELSE t[k]
      <4> HIDE DEF I, found
      <4> QED
        BY <2>7, <2>8, <3>3
    <3> HIDE DEF I, found
    <3> QED
      BY <1>2, <2>3, <2>4, <2>6, <3>1, <3>2, <3>4 DEF IsLowerBound
  <2> QED
    BY <2>9, <2>10
<1> QED
  BY <1>3, <1>4, <1>5

(***************************************************************************)
(* The queries.                                                            *)
(***************************************************************************)

\* The boxes a query visits, in a filter as the invariants say: places in the
\* blocks, whose mementos are in order.
LEMMA QueriedAre ==
    ASSUME TypeOK, RunsWellFormed, OffsetsExact, BoxesSorted, NEW x \in KeyPrefixes
    PROVE  /\ QueriedBoxes(x[1], x[2])
                = IF x[1] \in qf.occupieds THEN BoxesOfFingerprint(qf, x[1], x[2]) ELSE {}
           /\ \A p \in QueriedBoxes(x[1], x[2]) :
                /\ p \in Nat /\ InOrder(BoxMementos(qf, p))
                /\ x[1] \in qf.occupieds /\ p \in ToSet(BoxesIn(qf, x[1]))
<1>1. CASE x[1] \in qf.occupieds
  <2>1. PICK b \in qf.occupieds, f \in Nat : b = x[1] /\ f = x[2]
    BY <1>1, FilterAssumption DEF Fingerprints
  <2>2. /\ MatchingBoxes(qf, RunStart(qf, b), f) \in Seq(Nat)
        /\ ToSet(MatchingBoxes(qf, RunStart(qf, b), f)) = BoxesOfFingerprint(qf, b, f)
        /\ Max({RunStart(qf, b), b}) = RunStart(qf, b)
    BY SearchedBoxes
  <2>3. QueriedBoxes(b, f) = BoxesOfFingerprint(qf, b, f)
    BY <2>2 DEF QueriedBoxes, IsOccupied
  <2>4. ASSUME NEW p \in BoxesOfFingerprint(qf, b, f)
        PROVE  p \in Nat /\ InOrder(BoxMementos(qf, p)) /\ p \in ToSet(BoxesIn(qf, b))
    <3>1. p \in ToSet(BoxesIn(qf, b))
      BY DEF BoxesOfFingerprint
    <3>2. p \in Nat
      <4>1. PICK t \in Seq(Nat) : ToSet(t) = BoxesOfFingerprint(qf, b, f)
        BY <2>2
      <4>2. p \in ToSet(t) /\ \A i \in DOMAIN t : t[i] \in Nat
        BY <4>1
      <4> QED
        BY <4>2 DEF ToSet
    <3>3. InOrder(BoxMementos(qf, p))
      BY <3>1 DEF BoxesSorted, InOrder
    <3> QED
      BY <3>1, <3>2, <3>3
  <2> QED
    BY <1>1, <2>1, <2>3, <2>4
<1>2. CASE x[1] \notin qf.occupieds
  BY <1>2 DEF QueriedBoxes, IsOccupied
<1> QED
  BY <1>1, <1>2

\* A key with a memento in S is held just when a box that the query visits has
\* one.
LEMMA HeldByQueried ==
    ASSUME TypeOK, RunsWellFormed, OffsetsExact, BoxesSorted, NEW x \in KeyPrefixes, NEW S
    PROVE  Holds(DOMAIN Contents, x, S) <=>
             \E p \in QueriedBoxes(x[1], x[2]) : \E m \in MementosIn(qf, p) : m \in S
<1>1. Holds(DOMAIN Contents, x, S) <=>
        /\ x[1] \in qf.occupieds
        /\ \E p \in BoxesOfFingerprint(qf, x[1], x[2]) :
             \E i \in DOMAIN BoxMementos(qf, p) : BoxMementos(qf, p)[i] \in S
  BY HeldByBox
<1>2. ASSUME NEW p
      PROVE  (\E i \in DOMAIN BoxMementos(qf, p) : BoxMementos(qf, p)[i] \in S) <=>
               \E m \in MementosIn(qf, p) : m \in S
  BY DEF MementosIn, ToSet
<1>3. QueriedBoxes(x[1], x[2])
        = IF x[1] \in qf.occupieds THEN BoxesOfFingerprint(qf, x[1], x[2]) ELSE {}
  BY QueriedAre
<1> QED
  BY <1>1, <1>2, <1>3

\* Every list is one that a query reads right.
CountersShort(q) == \A b \in q.occupieds : \A p \in ToSet(BoxesIn(q, b)) : CounterShort(q, p)

\* What a query compares with is the lower bound of its target.
LEMMA QueryFinds ==
    ASSUME TypeOK, RunsWellFormed, OffsetsExact, BoxesSorted, CountersShort(qf),
           NEW x \in KeyPrefixes, NEW p \in QueriedBoxes(x[1], x[2]), NEW target \in Mementos
    PROVE  IsLowerBound(qf, p, target, FoundInBox(p, target)) /\ MementosIn(qf, p) \subseteq Int
<1>1. SlotsTyped(qf)
  BY DEF TypeOK, Filters, SlotsTyped
<1>2. p \in Nat /\ InOrder(BoxMementos(qf, p)) /\ CounterShort(qf, p)
  BY QueriedAre DEF CountersShort
<1> QED
  BY <1>1, <1>2, LowerBoundFound, BoxEnds

(***************************************************************************)
(* For every size of the table and every width of fingerprints and         *)
(* mementos: in every state in which the runs, the boxes and the offsets   *)
(* are as the invariants of the runs say and no list counter is extended,  *)
(* qf_point_query answers for exactly the stored keys.                     *)
(***************************************************************************)
THEOREM PointQueriesCorrect ==
    TypeOK /\ RunsWellFormed /\ OffsetsExact /\ BoxesSorted /\ CountersShort(qf) => PointQueryExact
<1> SUFFICES ASSUME TypeOK, RunsWellFormed, OffsetsExact, BoxesSorted, CountersShort(qf),
                    NEW x \in KeyPrefixes, NEW m \in Mementos
             PROVE  PointQuery(x[1], x[2], m) <=> Holds(DOMAIN Contents, x, {m})
  BY DEF PointQueryExact
<1>1. ASSUME NEW p \in QueriedBoxes(x[1], x[2])
      PROVE  FoundInBox(p, m) = m <=> \E k \in MementosIn(qf, p) : k \in {m}
  <2>1. IsLowerBound(qf, p, m, FoundInBox(p, m)) /\ MementosIn(qf, p) \subseteq Int
    BY QueryFinds
  <2>2. m \in Int
    BY DEF Mementos
  <2> QED
    BY <2>1, <2>2 DEF IsLowerBound
<1>2. Holds(DOMAIN Contents, x, {m}) <=>
        \E p \in QueriedBoxes(x[1], x[2]) : \E k \in MementosIn(qf, p) : k \in {m}
  BY HeldByQueried
<1> QED
  BY <1>1, <1>2 DEF PointQuery

(***************************************************************************)
(* And qf_range_query, under one prefix and across prefixes, answers for   *)
(* exactly the stored keys in the range.                                   *)
(***************************************************************************)
THEOREM RangeQueriesCorrect ==
    TypeOK /\ RunsWellFormed /\ OffsetsExact /\ BoxesSorted /\ CountersShort(qf) => RangeQueryExact
<1> SUFFICES ASSUME TypeOK, RunsWellFormed, OffsetsExact, BoxesSorted, CountersShort(qf)
             PROVE  RangeQueryExact
  OBVIOUS
<1>1. SlotsTyped(qf) /\ MaxMemento \in Nat
  BY Widths DEF TypeOK, Filters, SlotsTyped
<1>2. ASSUME NEW x \in KeyPrefixes, NEW l \in Mementos, NEW r \in Mementos, l <= r
      PROVE  RangeQueryOnePrefix(x[1], x[2], l, r) <=> Holds(DOMAIN Contents, x, l .. r)
  <2>1. ASSUME NEW p \in QueriedBoxes(x[1], x[2])
        PROVE  FoundInBox(p, l) \in l .. r <=> \E k \in MementosIn(qf, p) : k \in l .. r
    <3>1. IsLowerBound(qf, p, l, FoundInBox(p, l)) /\ MementosIn(qf, p) \subseteq Int
      BY QueryFinds
    <3>2. l \in Int /\ r \in Int
      BY DEF Mementos
    <3> QED
      BY <3>1, <3>2 DEF IsLowerBound
  <2>2. Holds(DOMAIN Contents, x, l .. r) <=>
          \E p \in QueriedBoxes(x[1], x[2]) : \E k \in MementosIn(qf, p) : k \in l .. r
    BY HeldByQueried
  <2> QED
    BY <2>1, <2>2 DEF RangeQueryOnePrefix
<1>3. ASSUME NEW x \in KeyPrefixes, NEW p \in QueriedBoxes(x[1], x[2])
      PROVE  /\ BoxMin(p) \in MementosIn(qf, p) /\ BoxMax(p) \in MementosIn(qf, p)
             /\ MementosIn(qf, p) \subseteq Int /\ MementosIn(qf, p) \subseteq Mementos
             /\ \A m \in MementosIn(qf, p) : BoxMin(p) <= m /\ m <= BoxMax(p)
  <2>1. p \in Nat /\ InOrder(BoxMementos(qf, p))
    BY QueriedAre
  <2>2. MementosIn(qf, p) \subseteq Mementos
    <3>1. BoxMementos(qf, p) \in Seq(Mementos)
      BY <1>1, <2>1, BoxMementosType
    <3>2. \A i \in DOMAIN BoxMementos(qf, p) : BoxMementos(qf, p)[i] \in Mementos
      BY <3>1
    <3> QED
      BY <3>2 DEF MementosIn, ToSet
  <2> QED
    BY <1>1, <2>1, <2>2, BoxEnds
<1>4. ASSUME NEW x \in KeyPrefixes, NEW l \in KeyMementos
      PROVE  (\E p \in QueriedBoxes(x[1], x[2]) : l <= BoxMax(p))
               <=> Holds(DOMAIN Contents, x, l .. MaxMemento)
  <2>1. l \in Int
    BY FilterAssumption DEF Mementos
  <2>2. ASSUME NEW p \in QueriedBoxes(x[1], x[2])
        PROVE  l <= BoxMax(p) <=> \E k \in MementosIn(qf, p) : k \in l .. MaxMemento
    BY <1>1, <1>3, <2>1 DEF Mementos
  <2>3. Holds(DOMAIN Contents, x, l .. MaxMemento) <=>
          \E p \in QueriedBoxes(x[1], x[2]) : \E k \in MementosIn(qf, p) : k \in l .. MaxMemento
    BY HeldByQueried
  <2> QED
    BY <2>2, <2>3
<1>5. ASSUME NEW y \in KeyPrefixes, NEW r \in KeyMementos
      PROVE  (\E p \in QueriedBoxes(y[1], y[2]) : BoxMin(p) <= r)
               <=> Holds(DOMAIN Contents, y, 0 .. r)
  <2>1. r \in Int
    BY FilterAssumption DEF Mementos
  <2>2. ASSUME NEW p \in QueriedBoxes(y[1], y[2])
        PROVE  BoxMin(p) <= r <=> \E k \in MementosIn(qf, p) : k \in 0 .. r
    BY <1>1, <1>3, <2>1 DEF Mementos
  <2>3. Holds(DOMAIN Contents, y, 0 .. r) <=>
          \E p \in QueriedBoxes(y[1], y[2]) : \E k \in MementosIn(qf, p) : k \in 0 .. r
    BY HeldByQueried
  <2> QED
    BY <2>2, <2>3
<1>6. ASSUME NEW z \in KeyPrefixes
      PROVE  QueriedBoxes(z[1], z[2]) # {} <=> Holds(DOMAIN Contents, z, Mementos)
  <2>1. Holds(DOMAIN Contents, z, Mementos) <=>
          \E p \in QueriedBoxes(z[1], z[2]) : \E k \in MementosIn(qf, p) : k \in Mementos
    BY HeldByQueried
  <2> QED
    BY <1>3, <2>1
<1>7. ASSUME NEW x \in KeyPrefixes, NEW y \in KeyPrefixes,
             NEW l \in KeyMementos, NEW r \in KeyMementos,
             NEW middle \in {{}} \cup {{z} : z \in KeyPrefixes}
      PROVE  RangeQuery(x, l, y, r, middle) <=>
               \/ Holds(DOMAIN Contents, x, l .. MaxMemento)
               \/ Holds(DOMAIN Contents, y, 0 .. r)
               \/ \E z \in middle : Holds(DOMAIN Contents, z, Mementos)
  <2>1. middle \subseteq KeyPrefixes
    OBVIOUS
  <2>2. (\E z \in middle : QueriedBoxes(z[1], z[2]) # {})
          <=> \E z \in middle : Holds(DOMAIN Contents, z, Mementos)
    BY <1>6, <2>1
  <2>3. (\E p \in QueriedBoxes(x[1], x[2]) : l <= BoxMax(p))
          <=> Holds(DOMAIN Contents, x, l .. MaxMemento)
    BY <1>4
  <2>4. (\E p \in QueriedBoxes(y[1], y[2]) : BoxMin(p) <= r)
          <=> Holds(DOMAIN Contents, y, 0 .. r)
    BY <1>5
  <2> QED
    BY <2>2, <2>3, <2>4 DEF RangeQuery
<1> QED
  BY <1>2, <1>7 DEF RangeQueryExact


(***************************************************************************)
(* Iterators.                                                              *)
(***************************************************************************)

\* Runs end before xnslots.  The blocks are whole and may go on behind it, but an
\* iterator takes a box there for its end.
RunsBeforeEnd(q) == \A e \in q.runends : e < XNSlots

Cursors == [run : Nat, current : Nat]

VisitFrom(q, v, i) == IF AtEnd(i) THEN << >> ELSE << i >> \o v[NextBox(q, i)]

\* The recursion of VisitedFrom.
Iterates(q, v) == v = [i \in Cursors |-> VisitFrom(q, v, i)]

BucketsFrom(q, o) == {c \in q.occupieds : c >= o}

ListFrom(q, w, o) ==
    IF BucketsFrom(q, o) = {} THEN << >> ELSE LocatedIn(q, Min(BucketsFrom(q, o))) \o w[Min(BucketsFrom(q, o)) + 1]

\* The recursion of BoxesFrom.
Lists(q, w) == w = [o \in Nat |-> ListFrom(q, w, o)]

LEMMA FilterTable ==
    ASSUME TypeOK, RunsWellFormed, OffsetsExact
    PROVE  Paired(qf) /\ OffsetsCut(qf) /\ SlotsTyped(qf)
<1>1. Paired(qf) /\ SlotsTyped(qf)
  BY DEF TypeOK, Filters, RunsWellFormed, Paired, SlotsTyped
<1>2. OffsetsCut(qf)
  BY DEF OffsetsExact, OffsetsCut, OffsetsCutTo, Spill
<1> QED
  BY <1>1, <1>2

\* The first of the buckets from o on.
LEMMA FirstOfBuckets ==
    ASSUME NEW q, Paired(q), NEW o \in Int, BucketsFrom(q, o) # {}
    PROVE  /\ Min(BucketsFrom(q, o)) \in q.occupieds /\ Min(BucketsFrom(q, o)) \in Nat /\ Min(BucketsFrom(q, o)) >= o
           /\ \A c \in q.occupieds : c >= o => Min(BucketsFrom(q, o)) <= c
<1>1. q.occupieds \in SUBSET Nat /\ q.occupieds \in SUBSET Int
  BY TableSets
<1>2. PICK S : S = BucketsFrom(q, o) /\ S \in SUBSET Nat /\ S \in SUBSET Int /\ S # {}
  BY <1>1 DEF BucketsFrom
<1>3. PICK m \in S : \A y \in S : m <= y
  BY <1>2, LeastNatural
<1>4. Min(S) = m
  BY <1>2, <1>3, Least
<1>5. m \in q.occupieds /\ m \in Nat /\ m >= o /\ \A c \in q.occupieds : c >= o => m <= c
  BY <1>1, <1>2, <1>3 DEF BucketsFrom
<1>6. Min(BucketsFrom(q, o)) = m
  BY <1>2, <1>4
<1> QED
  BY <1>5, <1>6

\* qfi_next moves ahead, to the end at the latest.
LEMMA CursorAhead ==
    ASSUME NEW q, Paired(q), SlotsTyped(q), NEW i \in Cursors, ~ AtEnd(i)
    PROVE  NextBox(q, i) \in Cursors /\ NextBox(q, i).current > i.current
<1>1. PICK c, n, b \in Nat : /\ c = i.current /\ b = i.run /\ n = BoxLen(q, c) /\ n >= 1
                             /\ i = [run |-> b, current |-> c]
  <2>1. i.current \in Nat /\ i.run \in Nat /\ i = [run |-> i.run, current |-> i.current]
    BY DEF Cursors
  <2>2. BoxLen(q, i.current) \in Nat \ {0}
    BY <2>1, BoxLenType
  <2> QED
    BY <2>1, <2>2
<1>2. PICK last \in Nat : last = c + n - 1 /\ last + 1 > c
  BY <1>1
<1>3. c < XNSlots /\ XNSlots \in Nat
  BY <1>1, GeometryAssumption DEF AtEnd
<1>4. CASE ~ IsRunend(q, last)
  <2>1. NextBox(q, i) = [i EXCEPT !.current = last + 1]
    BY <1>1, <1>2, <1>4 DEF NextBox
  <2>2. NextBox(q, i) = [run |-> b, current |-> last + 1]
    BY <1>1, <2>1
  <2> QED
    BY <1>1, <1>2, <2>2 DEF Cursors
<1>5. CASE IsRunend(q, last)
  <2>1. PICK S : S = {o \in q.occupieds : o > b} /\ S = BucketsFrom(q, b + 1)
    <3>1. q.occupieds \in SUBSET Int
      BY TableSets
    <3>2. {o \in q.occupieds : o > b} = {o \in q.occupieds : o >= b + 1}
      BY <3>1
    <3> QED
      BY <3>2 DEF BucketsFrom
  <2>2. NextBox(q, i) = IF S = {} THEN EndIterator
                        ELSE [run |-> Min(S), current |-> Max({last + 1, Min(S)})]
    BY <1>1, <1>2, <1>5, <2>1 DEF NextBox
  <2>3. CASE S = {}
    BY <1>1, <1>3, <2>2, <2>3 DEF EndIterator, Cursors
  <2>4. CASE S # {}
    <3>1. PICK o \in Nat : o = Min(S)
      <4>1. b + 1 \in Int
        OBVIOUS
      <4> QED
        BY <2>1, <2>4, <4>1, FirstOfBuckets
    <3>2. Max({last + 1, o}) = IF last + 1 >= o THEN last + 1 ELSE o
      BY <1>2, LargerOf
    <3>3. Max({last + 1, o}) \in Nat /\ Max({last + 1, o}) > c
      BY <1>1, <1>2, <3>2
    <3>4. NextBox(q, i) = [run |-> o, current |-> Max({last + 1, o})]
      BY <2>2, <2>4, <3>1
    <3> QED
      BY <1>1, <3>3, <3>4 DEF Cursors
  <2> QED
    BY <2>3, <2>4
<1> QED
  BY <1>4, <1>5

LEMMA IteratesExist ==
    ASSUME NEW q, Paired(q), SlotsTyped(q)
    PROVE  \E v : Iterates(q, v)
<1> DEFINE Near(i, m) == i.current + m >= XNSlots
           T == {m \in Nat : \E v : \A i \in Cursors : Near(i, m) => v[i] = VisitFrom(q, v, i)}
<1>1. XNSlots \in Nat /\ \A i \in Cursors : i.current \in Nat
  BY GeometryAssumption DEF Cursors
<1>2. 0 \in T
  <2> DEFINE v == [i \in Cursors |-> << >>]
  <2>1. ASSUME NEW i \in Cursors, Near(i, 0) PROVE v[i] = VisitFrom(q, v, i)
    <3>1. AtEnd(i)
      BY <1>1, <2>1 DEF AtEnd
    <3> QED
      BY <3>1 DEF VisitFrom
  <2> HIDE DEF v, Near
  <2> QED
    BY <2>1
<1>3. ASSUME NEW m \in T PROVE m + 1 \in T
  <2>1. m \in Nat /\ m + 1 \in Nat
    OBVIOUS
  <2>2. PICK v : \A i \in Cursors : Near(i, m) => v[i] = VisitFrom(q, v, i)
    OBVIOUS
  <2> DEFINE u == [i \in Cursors |-> IF Near(i, m) THEN v[i] ELSE VisitFrom(q, v, i)]
  <2>3. \A i \in Cursors : u[i] = IF Near(i, m) THEN v[i] ELSE VisitFrom(q, v, i)
    OBVIOUS
  <2> HIDE DEF u
  <2>4. ASSUME NEW i \in Cursors, Near(i, m + 1) PROVE u[i] = VisitFrom(q, u, i)
    <3>1. u[i] = VisitFrom(q, v, i)
      BY <2>2, <2>3
    <3>2. CASE AtEnd(i)
      BY <3>1, <3>2 DEF VisitFrom
    <3>3. CASE ~ AtEnd(i)
      <4>1. PICK j \in Cursors : j = NextBox(q, i) /\ j.current > i.current
        BY <3>3, CursorAhead
      <4>2. Near(j, m)
        BY <1>1, <2>1, <2>4, <4>1
      <4>3. u[j] = v[j]
        BY <2>3, <4>2
      <4> QED
        BY <3>1, <3>3, <4>1, <4>3 DEF VisitFrom
    <3> QED
      BY <3>2, <3>3
  <2> HIDE DEF Near
  <2>5. \E w : \A i \in Cursors : Near(i, m + 1) => w[i] = VisitFrom(q, w, i)
    BY <2>4
  <2> QED
    BY <2>1, <2>5
<1>4. XNSlots \in T
  <2> DEFINE Missing == {m \in Nat : m \notin T}
  <2>1. ASSUME Missing # {} PROVE FALSE
    <3>1. PICK m \in Missing : \A k \in Missing : m <= k
      BY <2>1, LeastNatural
    <3> HIDE DEF T
    <3>2. m # 0
      BY <1>2, <3>1
    <3>3. PICK k \in Nat : m = k + 1 /\ ~ (m <= k)
      BY <3>1, <3>2
    <3>4. k \in T
      BY <3>1, <3>3
    <3> QED
      BY <1>3, <3>1, <3>3, <3>4
  <2> HIDE DEF T
  <2> QED
    BY <1>1, <2>1
<1>5. PICK v : \A i \in Cursors : v[i] = VisitFrom(q, v, i)
  <2>1. PICK v : \A i \in Cursors : Near(i, XNSlots) => v[i] = VisitFrom(q, v, i)
    BY <1>4
  <2>2. \A i \in Cursors : Near(i, XNSlots)
    BY <1>1
  <2> HIDE DEF Near
  <2> QED
    BY <2>1, <2>2
<1> DEFINE w == [i \in Cursors |-> v[i]]
<1>6. \A i \in Cursors : w[i] = v[i]
  OBVIOUS
<1>7. w = [i \in Cursors |-> VisitFrom(q, w, i)]
  <2> HIDE DEF w
  <2>1. ASSUME NEW i \in Cursors PROVE v[i] = VisitFrom(q, w, i)
    <3>1. CASE AtEnd(i)
      BY <1>5, <3>1 DEF VisitFrom
    <3>2. CASE ~ AtEnd(i)
      <4>1. w[NextBox(q, i)] = v[NextBox(q, i)]
        BY <1>6, <3>2, CursorAhead
      <4> QED
        BY <1>5, <4>1 DEF VisitFrom
    <3> QED
      BY <3>1, <3>2
  <2> DEFINE step(i) == VisitFrom(q, w, i)
  <2>2. \A i \in Cursors : v[i] = step(i)
    BY <2>1
  <2> HIDE DEF step
  <2>3. [i \in Cursors |-> v[i]] = [i \in Cursors |-> step(i)]
    BY <2>2
  <2> QED
    BY <2>3 DEF step, w
<1> QED
  BY <1>7 DEF Iterates

LEMMA ListsExist ==
    ASSUME NEW q, Paired(q)
    PROVE  \E w : Lists(q, w)
<1> DEFINE T == {m \in Nat : \E w : \A o \in Nat : o + m >= EndOfBlocks => w[o] = ListFrom(q, w, o)}
<1>1. EndOfBlocks \in Nat /\ \A o \in Nat : o >= EndOfBlocks => BucketsFrom(q, o) = {}
  <2>1. EndOfBlocks \in Nat /\ q.occupieds \in SUBSET Nat /\ \A c \in q.occupieds : c < EndOfBlocks
    BY BlocksReach, TableSets
  <2> QED
    BY <2>1 DEF BucketsFrom
<1>2. 0 \in T
  <2> DEFINE w == [o \in Nat |-> << >>]
  <2>1. ASSUME NEW o \in Nat, o + 0 >= EndOfBlocks PROVE w[o] = ListFrom(q, w, o)
    <3>1. BucketsFrom(q, o) = {}
      BY <1>1, <2>1
    <3> QED
      BY <3>1 DEF ListFrom
  <2> HIDE DEF w
  <2> QED
    BY <2>1
<1>3. ASSUME NEW m \in T PROVE m + 1 \in T
  <2>1. m \in Nat /\ m + 1 \in Nat
    OBVIOUS
  <2>2. PICK w : \A o \in Nat : o + m >= EndOfBlocks => w[o] = ListFrom(q, w, o)
    OBVIOUS
  <2> DEFINE u == [o \in Nat |-> IF o + m >= EndOfBlocks THEN w[o] ELSE ListFrom(q, w, o)]
  <2>3. \A o \in Nat : u[o] = IF o + m >= EndOfBlocks THEN w[o] ELSE ListFrom(q, w, o)
    OBVIOUS
  <2> HIDE DEF u
  <2>4. ASSUME NEW o \in Nat, o + (m + 1) >= EndOfBlocks PROVE u[o] = ListFrom(q, u, o)
    <3>1. u[o] = ListFrom(q, w, o)
      BY <2>2, <2>3
    <3>2. CASE BucketsFrom(q, o) = {}
      BY <3>1, <3>2 DEF ListFrom
    <3>3. CASE BucketsFrom(q, o) # {}
      <4>1. PICK b \in Nat : b = Min(BucketsFrom(q, o)) /\ b >= o
        BY <3>3, FirstOfBuckets
      <4>2. (b + 1) + m >= EndOfBlocks /\ b + 1 \in Nat
        BY <1>1, <2>1, <2>4, <4>1
      <4>3. u[b + 1] = w[b + 1]
        BY <2>3, <4>2
      <4> QED
        BY <3>1, <3>3, <4>1, <4>3 DEF ListFrom
    <3> QED
      BY <3>2, <3>3
  <2>5. \E v : \A o \in Nat : o + (m + 1) >= EndOfBlocks => v[o] = ListFrom(q, v, o)
    BY <2>4
  <2> QED
    BY <2>1, <2>5
<1>4. EndOfBlocks \in T
  <2> DEFINE Missing == {m \in Nat : m \notin T}
  <2>1. ASSUME Missing # {} PROVE FALSE
    <3>1. PICK m \in Missing : \A k \in Missing : m <= k
      BY <2>1, LeastNatural
    <3> HIDE DEF T
    <3>2. m # 0
      BY <1>2, <3>1
    <3>3. PICK k \in Nat : m = k + 1 /\ ~ (m <= k)
      BY <3>1, <3>2
    <3>4. k \in T
      BY <3>1, <3>3
    <3> QED
      BY <1>3, <3>1, <3>3, <3>4
  <2> HIDE DEF T
  <2> QED
    BY <1>1, <2>1
<1>5. PICK w : \A o \in Nat : w[o] = ListFrom(q, w, o)
  <2>1. PICK w : \A o \in Nat : o + EndOfBlocks >= EndOfBlocks => w[o] = ListFrom(q, w, o)
    BY <1>4
  <2>2. \A o \in Nat : o + EndOfBlocks >= EndOfBlocks
    BY <1>1
  <2> QED
    BY <2>1, <2>2
<1> DEFINE u == [o \in Nat |-> w[o]]
<1>6. \A o \in Nat : u[o] = w[o]
  OBVIOUS
<1>7. u = [o \in Nat |-> ListFrom(q, u, o)]
  <2> HIDE DEF u
  <2>1. ASSUME NEW o \in Nat PROVE w[o] = ListFrom(q, u, o)
    <3>1. CASE BucketsFrom(q, o) = {}
      BY <1>5, <3>1 DEF ListFrom
    <3>2. CASE BucketsFrom(q, o) # {}
      <4>1. PICK b \in Nat : b = Min(BucketsFrom(q, o)) /\ b + 1 \in Nat
        BY <3>2, FirstOfBuckets
      <4>2. u[b + 1] = w[b + 1]
        BY <1>6, <4>1
      <4> QED
        BY <1>5, <4>1, <4>2 DEF ListFrom
    <3> QED
      BY <3>1, <3>2
  <2> DEFINE step(o) == ListFrom(q, u, o)
  <2>2. \A o \in Nat : w[o] = step(o)
    BY <2>1
  <2> HIDE DEF step
  <2>3. [o \in Nat |-> w[o]] = [o \in Nat |-> step(o)]
    BY <2>2
  <2> QED
    BY <2>3 DEF step, u
<1> QED
  BY <1>7 DEF Lists

\* Where an iterator goes from bucket b's run.
AfterRun(q, b) == IF BucketsFrom(q, b + 1) = {} THEN EndIterator ELSE AtRun(q, Min(BucketsFrom(q, b + 1)))

LEMMA AtRunIs ==
    ASSUME NEW q, Paired(q), OffsetsCut(q), NEW b \in q.occupieds
    PROVE  AtRun(q, b) = [run |-> b, current |-> RunFirst(q, b)] /\ AtRun(q, b) \in Cursors
<1>1. Max({RunStart(q, b), b}) = RunFirst(q, b) /\ RunFirst(q, b) \in Nat /\ b \in Nat
  BY RunStartIs, RunendIs
<1>2. {b, RunStart(q, b)} = {RunStart(q, b), b}
  OBVIOUS
<1>3. AtRun(q, b) = [run |-> b, current |-> RunFirst(q, b)]
  BY <1>1, <1>2 DEF AtRun
<1> QED
  BY <1>1, <1>3 DEF Cursors

\* Behind the last box of a run qfi_next finds the first box of the next one,
\* which starts behind the runend unless its bucket lies further on.
LEMMA NextRun ==
    ASSUME NEW q, Paired(q), OffsetsCut(q), NEW b \in q.occupieds, NEW i, i.run = b,
           i.current + BoxLen(q, i.current) - 1 = RunendOf(q, b)
    PROVE  NextBox(q, i) = AfterRun(q, b) /\ AfterRun(q, b) \in Cursors
<1>1. b \in Nat /\ RunendOf(q, b) \in q.runends /\ RunendOf(q, b) \in Nat
  BY RunendIs
<1>2. q.occupieds \in SUBSET Nat /\ q.occupieds \in SUBSET Int
  BY TableSets
<1>3. PICK S : S = {o \in q.occupieds : o > b} /\ S = BucketsFrom(q, b + 1)
  <2>1. {o \in q.occupieds : o > b} = {o \in q.occupieds : o >= b + 1}
    BY <1>1, <1>2
  <2> QED
    BY <2>1 DEF BucketsFrom
<1>4. PICK e \in Nat : e = RunendOf(q, b) /\ IsRunend(q, e)
  BY <1>1 DEF IsRunend
<1>5. NextBox(q, i) = IF S = {} THEN EndIterator
                      ELSE [run |-> Min(S), current |-> Max({e + 1, Min(S)})]
  BY <1>3, <1>4 DEF NextBox
<1>6. CASE S = {}
  BY <1>3, <1>5, <1>6, GeometryAssumption DEF AfterRun, EndIterator, Cursors
<1>7. CASE S # {}
  <2>1. PICK o \in q.occupieds : /\ o = Min(S) /\ o \in Nat /\ o >= b + 1
                                 /\ \A c \in q.occupieds : c >= b + 1 => o <= c
    <3>1. b + 1 \in Int
      BY <1>1
    <3> QED
      BY <1>3, <1>7, <3>1, FirstOfBuckets
  <2>2. LastUsed(q, o - 1) = e
    <3>1. PICK before : before = {c \in q.occupieds : c <= o - 1} /\ before \in SUBSET Int
      BY <1>2
    <3>2. b \in before
      BY <1>1, <2>1, <3>1
    <3>3. \A c \in before : c <= b
      BY <1>1, <1>2, <2>1, <3>1
    <3>4. Max(before) = b
      BY <3>1, <3>2, <3>3, Greatest
    <3> QED
      BY <1>4, <3>1, <3>2, <3>4 DEF LastUsed
  <2>3. RunFirst(q, o) = Max({e + 1, o})
    <3>1. {o, e + 1} = {e + 1, o}
      OBVIOUS
    <3> QED
      BY <2>2, <3>1 DEF RunFirst
  <2> QED
    BY <1>3, <1>5, <1>7, <2>1, <2>3, AtRunIs DEF AfterRun
<1> QED
  BY <1>6, <1>7

LEMMA OneOf ==
    ASSUME NEW S, NEW t \in Seq(S), NEW j \in 1 .. Len(t)
    PROVE  SubSeq(t, j, j) = << t[j] >>
<1>1. PICK s \in Seq(S) : s = SubSeq(t, j, j) /\ Len(s) = 1 /\ s[1] = t[j]
  <2>1. SubSeq(t, j, j) \in Seq(S) /\ Len(SubSeq(t, j, j)) = 1 /\ SubSeq(t, j, j)[1] = t[j]
    OBVIOUS
  <2> QED
    BY <2>1
<1>2. PICK x \in S : x = t[j]
  OBVIOUS
<1>3. << x >> \in Seq(S) /\ Len(<< x >>) = Len(s) /\ \A i \in 1 .. Len(s) : s[i] = << x >>[i]
  BY <1>1, <1>2
<1>4. s = << x >>
  BY <1>3, SeqEqual
<1> QED
  BY <1>1, <1>2, <1>4

\* A first box may be put before a list in two parts or before the first part.
LEMMA FirstConcat ==
    ASSUME NEW c \in Cursors, NEW u \in Seq(Cursors), NEW rest \in Seq(Cursors)
    PROVE  (<< c >> \o u) \o rest = << c >> \o (u \o rest)
<1>1. PICK s \in Seq(Cursors) : s = << c >>
  <2>1. << c >> \in Seq(Cursors)
    OBVIOUS
  <2> QED
    BY <2>1
<1>2. (s \o u) \o rest = s \o (u \o rest)
  BY ConcatAssociative
<1> QED
  BY <1>1, <1>2

\* From the first box of a bucket's run an iterator visits the boxes of the run
\* and then what it visits behind it.
LEMMA RunVisited ==
    ASSUME TypeOK, RunsWellFormed, OffsetsExact, RunsBeforeEnd(qf), NEW b \in qf.occupieds,
           NEW v, Iterates(qf, v), NEW rest \in Seq(Cursors), v[AfterRun(qf, b)] = rest
    PROVE  /\ LocatedIn(qf, b) \in Seq(Cursors)
           /\ v[AtRun(qf, b)] = LocatedIn(qf, b) \o rest
<1>1. Paired(qf) /\ OffsetsCut(qf) /\ SlotsTyped(qf)
  BY FilterTable
<1>2. PICK s : s = BoxesIn(qf, b) /\ IsRun(qf, s, RunendOf(qf, b)) /\ s[1] = RunFirst(qf, b)
               /\ s[Len(s)] + BoxLen(qf, s[Len(s)]) - 1 = RunendOf(qf, b)
  BY RunOfBucket DEF RunsWellFormed
<1>3. PICK n \in Nat \ {0} : /\ n = Len(s) /\ DOMAIN s = 1 .. n
                             /\ \A j \in 1 .. n : s[j] \in Nat /\ s[j] < XNSlots
  <2>1. RunendOf(qf, b) \in qf.runends /\ RunendOf(qf, b) \in Nat
    BY <1>1, RunendIs
  <2>2. RunendOf(qf, b) < XNSlots /\ XNSlots \in Nat
    BY <2>1, GeometryAssumption DEF RunsBeforeEnd
  <2>3. s \in Seq(Nat) /\ Len(s) \in Nat \ {0} /\ \A j \in 1 .. Len(s) : s[j] \in Nat /\ s[j] <= RunendOf(qf, b)
    BY <1>2 DEF IsRun
  <2> QED
    BY <2>1, <2>2, <2>3
<1>4. PICK t : t = LocatedIn(qf, b) /\ t = [j \in 1 .. n |-> [run |-> b, current |-> s[j]]]
  BY <1>2, <1>3 DEF LocatedIn
<1>5. b \in Nat
  BY <1>1, RunendIs
<1>6. t \in Seq(Cursors) /\ Len(t) = n
  <2>1. \A j \in 1 .. n : [run |-> b, current |-> s[j]] \in Cursors
    BY <1>3, <1>5 DEF Cursors
  <2> QED
    BY <1>3, <1>4, <2>1
<1>7. \A j \in 1 .. n : /\ t[j] = [run |-> b, current |-> s[j]] /\ t[j] \in Cursors
                         /\ t[j].run = b /\ t[j].current = s[j]
  <2>1. ASSUME NEW j \in 1 .. n
        PROVE  /\ t[j] = [run |-> b, current |-> s[j]] /\ t[j] \in Cursors
               /\ t[j].run = b /\ t[j].current = s[j]
    <3>1. PICK i : i = [run |-> b, current |-> s[j]] /\ i = t[j]
      BY <1>4
    <3>2. i \in Cursors /\ i.run = b /\ i.current = s[j]
      BY <1>3, <1>5, <3>1 DEF Cursors
    <3> QED
      BY <3>1, <3>2
  <2> QED
    BY <2>1
<1>8. ASSUME NEW j \in 1 .. n PROVE v[t[j]] = << t[j] >> \o v[NextBox(qf, t[j])]
  <2>1. ~ AtEnd(t[j])
    <3>1. t[j].current = s[j] /\ s[j] \in Nat /\ s[j] < XNSlots /\ XNSlots \in Nat
      BY <1>3, <1>7, GeometryAssumption
    <3> QED
      BY <3>1 DEF AtEnd
  <2>2. v[t[j]] = VisitFrom(qf, v, t[j])
    BY <1>7 DEF Iterates
  <2> QED
    BY <2>1, <2>2 DEF VisitFrom
<1> DEFINE Good == {j \in 1 .. n : v[t[j]] = SubSeq(t, j, n) \o rest}
<1>9. n \in Good
  <2>1. n \in 1 .. n
    BY <1>3
  <2>2. NextBox(qf, t[n]) = AfterRun(qf, b)
    <3>1. t[n].run = b /\ t[n].current = s[n]
      BY <1>7, <2>1
    <3>2. t[n].current + BoxLen(qf, t[n].current) - 1 = RunendOf(qf, b)
      BY <1>2, <1>3, <3>1
    <3> QED
      BY <1>1, <3>1, <3>2, NextRun
  <2>3. SubSeq(t, n, n) = << t[n] >>
    BY <1>3, <1>6, <2>1, OneOf
  <2> QED
    BY <1>8, <2>1, <2>2, <2>3
<1>10. ASSUME NEW j \in 1 .. n, j < n, j + 1 \in Good PROVE j \in Good
  <2>1. j + 1 \in 1 .. n
    BY <1>10
  <2>2. NextBox(qf, t[j]) = t[j + 1]
    <3>1. /\ ~ IsRunend(qf, s[j] + BoxLen(qf, s[j]) - 1)
          /\ s[j + 1] = s[j] + BoxLen(qf, s[j])
      BY <1>2, <1>3, <1>10 DEF IsRun
    <3>2. PICK c, m \in Nat : c = s[j] /\ m = BoxLen(qf, c) /\ m >= 1
      <4>1. s[j] \in Nat
        BY <1>3
      <4>2. BoxLen(qf, s[j]) \in Nat \ {0}
        BY <1>1, <4>1, BoxLenType
      <4> QED
        BY <4>1, <4>2
    <3>3. t[j] = [run |-> b, current |-> c]
      BY <1>7, <3>2
    <3>4. NextBox(qf, t[j]) = [t[j] EXCEPT !.current = (c + m - 1) + 1]
      BY <3>1, <3>2, <3>3 DEF NextBox
    <3>5. NextBox(qf, t[j]) = [run |-> b, current |-> c + m]
      <4>1. (c + m - 1) + 1 = c + m
        BY <3>2
      <4> QED
        BY <3>3, <3>4, <4>1
    <3> QED
      BY <1>7, <2>1, <3>1, <3>2, <3>5
  <2>3. PICK u : u = SubSeq(t, j + 1, n) /\ u \in Seq(Cursors)
    <3>1. \A k \in (j + 1) .. n : t[k] \in Cursors
      <4>1. \A k \in (j + 1) .. n : k \in 1 .. n
        OBVIOUS
      <4> QED
        BY <1>7, <4>1
    <3>2. SubSeq(t, j + 1, n) \in Seq(Cursors)
      BY <1>6, <2>1, <3>1, SubSeqProperties
    <3> QED
      BY <3>2
  <2>4. SubSeq(t, j, n) = << t[j] >> \o u
    <3>1. SubSeq(t, j, j) = << t[j] >>
      BY <1>3, <1>6, OneOf
    <3>2. SubSeq(t, j, j) \o SubSeq(t, j + 1, n) = SubSeq(t, j, n)
      <4>1. j \in 1 .. Len(t) + 1 /\ j \in j - 1 .. Len(t) /\ n \in j .. Len(t)
        BY <1>3, <1>6
      <4> QED
        BY <1>6, <4>1, ConcatAdjacentSubSeq
    <3> QED
      BY <2>3, <3>1, <3>2
  <2>5. (<< t[j] >> \o u) \o rest = << t[j] >> \o (u \o rest)
    <3>1. t[j] \in Cursors
      BY <1>7
    <3> QED
      BY <2>3, <3>1, FirstConcat
  <2>6. v[t[j + 1]] = u \o rest
    BY <1>10, <2>3
  <2>7. v[t[j]] = << t[j] >> \o v[t[j + 1]]
    BY <1>8, <2>2
  <2> QED
    BY <2>4, <2>5, <2>6, <2>7
<1> HIDE DEF Good
<1>11. \A j \in 1 .. n : j \in Good
  <2>1. \A j \in 1 .. n : (j < n => j + 1 \in Good) => j \in Good
    <3>1. ASSUME NEW j \in 1 .. n, j < n => j + 1 \in Good PROVE j \in Good
      <4>1. j < n \/ j = n
        BY <1>3
      <4> QED
        BY <1>9, <1>10, <3>1, <4>1
    <3> QED
      BY <3>1
  <2> QED
    BY <1>3, <2>1, DownFromLast
<1>12. v[t[1]] = t \o rest
  <2>1. 1 \in Good /\ 1 \in 1 .. n
    BY <1>3, <1>11
  <2>2. SubSeq(t, 1, n) = t
    BY <1>3, <1>6
  <2> QED
    BY <2>1, <2>2 DEF Good
<1>13. t[1] = AtRun(qf, b)
  <2>1. 1 \in 1 .. n
    BY <1>3
  <2> QED
    BY <1>1, <1>2, <1>7, <2>1, AtRunIs
<1> QED
  BY <1>4, <1>6, <1>12, <1>13

\* From the first box of the run of the first bucket from o on, and from every
\* later one's, iterators visit what BoxesFrom lists.
LEMMA ListsVisited ==
    ASSUME TypeOK, RunsWellFormed, OffsetsExact, RunsBeforeEnd(qf),
           NEW v, Iterates(qf, v), NEW w, Lists(qf, w)
    PROVE  \A o \in Nat : w[o] = IF BucketsFrom(qf, o) = {} THEN << >> ELSE v[AtRun(qf, Min(BucketsFrom(qf, o)))]
<1>1. Paired(qf) /\ OffsetsCut(qf) /\ EndOfBlocks \in Nat
  BY BlocksReach, FilterTable
<1>2. \A o \in Nat : w[o] = ListFrom(qf, w, o)
  BY DEF Lists
<1> DEFINE first(o) == Min(BucketsFrom(qf, o))
           visited(o) == IF BucketsFrom(qf, o) = {} THEN << >> ELSE v[AtRun(qf, first(o))]
           Good == {o \in Nat : w[o] \in Seq(Cursors) /\ w[o] = visited(o)}
           stop == [o \in Nat |-> BucketsFrom(qf, o) = {}]
           next == [o \in Nat |-> first(o) + 1]
<1>3. \A o \in Nat : o >= EndOfBlocks => BucketsFrom(qf, o) = {}
  <2>1. qf.occupieds \in SUBSET Nat /\ \A c \in qf.occupieds : c < EndOfBlocks
    BY <1>1, TableSets
  <2> QED
    BY <1>1, <2>1 DEF BucketsFrom
<1>4. ASSUME NEW o \in Nat, BucketsFrom(qf, o) # {}
      PROVE  /\ first(o) \in qf.occupieds /\ first(o) + 1 \in Nat /\ first(o) + 1 > o
             /\ first(o) + 1 \in Good => o \in Good
  <2>1. PICK b \in Nat : b = first(o) /\ b \in qf.occupieds /\ b >= o
    BY <1>1, <1>4, FirstOfBuckets
  <2>2. ASSUME b + 1 \in Good PROVE o \in Good
    <3>1. PICK rest \in Seq(Cursors) : rest = w[b + 1] /\ rest = visited(b + 1)
      BY <2>2
    <3>2. v[AfterRun(qf, b)] = rest
      <4>1. CASE BucketsFrom(qf, b + 1) = {}
        <5>1. AfterRun(qf, b) = EndIterator /\ EndIterator \in Cursors /\ AtEnd(EndIterator)
          BY <4>1, GeometryAssumption DEF AfterRun, EndIterator, Cursors, AtEnd
        <5>2. v[EndIterator] = << >>
          BY <5>1 DEF Iterates, VisitFrom
        <5> QED
          BY <3>1, <4>1, <5>1, <5>2
      <4>2. CASE BucketsFrom(qf, b + 1) # {}
        BY <3>1, <4>2 DEF AfterRun
      <4> QED
        BY <4>1, <4>2
    <3>3. LocatedIn(qf, b) \in Seq(Cursors) /\ v[AtRun(qf, b)] = LocatedIn(qf, b) \o rest
      BY <2>1, <3>2, RunVisited
    <3>4. w[o] = LocatedIn(qf, b) \o rest
      BY <1>2, <1>4, <2>1, <3>1 DEF ListFrom
    <3>5. LocatedIn(qf, b) \o rest \in Seq(Cursors)
      BY <3>3, ConcatProperties
    <3>6. visited(o) = v[AtRun(qf, b)]
      BY <1>4, <2>1
    <3> HIDE DEF visited
    <3> QED
      BY <3>3, <3>4, <3>5, <3>6
  <2> HIDE DEF Good
  <2> QED
    BY <2>1, <2>2
<1>5. ASSUME NEW o \in Nat, BucketsFrom(qf, o) = {} PROVE o \in Good
  <2>1. w[o] = << >> /\ visited(o) = << >>
    BY <1>2, <1>5 DEF ListFrom
  <2>2. << >> \in Seq(Cursors)
    OBVIOUS
  <2> HIDE DEF visited
  <2> QED
    BY <2>1, <2>2
<1>6. \A o \in Nat : o \in Good
  <2>1. \A o \in Nat : o >= EndOfBlocks => stop[o]
    BY <1>3
  <2>2. \A o \in Nat : stop[o] <=> BucketsFrom(qf, o) = {}
    OBVIOUS
  <2>3. \A o \in Nat : next[o] = first(o) + 1
    OBVIOUS
  <2> HIDE DEF stop, next, Good, first
  <2>4. /\ \A o \in Nat : ~ stop[o] => next[o] \in Nat /\ next[o] > o
        /\ \A o \in Nat : stop[o] => o \in Good
        /\ \A o \in Nat : ~ stop[o] /\ next[o] \in Good => o \in Good
    BY <1>4, <1>5, <2>2, <2>3
  <2> QED
    BY <1>1, <2>1, <2>4, WalkReaches
<1> QED
  BY <1>6

\* For every size of the table an iteration from position 0, or from an occupied
\* bucket, visits every box from there on once, in order, under its bucket, and
\* then ends (qf_iterator_from_position, qfi_next, qfi_end).
THEOREM IterationsCorrect ==
    TypeOK /\ RunsWellFormed /\ OffsetsExact /\ RunsBeforeEnd(qf) => IterationExact
<1> SUFFICES ASSUME TypeOK, RunsWellFormed, OffsetsExact, RunsBeforeEnd(qf),
                    NEW p \in {0} \cup qf.occupieds
             PROVE  VisitedFrom(FromPosition(qf, p)) = BoxesFrom(p)
  BY DEF IterationExact
<1>1. Paired(qf) /\ OffsetsCut(qf) /\ SlotsTyped(qf)
  BY FilterTable
<1>2. PICK v : Iterates(qf, v) /\ \A it : VisitedFrom(it) = v[it]
  <2> DEFINE v == CHOOSE f : Iterates(qf, f)
  <2>1. Iterates(qf, v)
    BY <1>1, IteratesExist
  <2>2. \A it : VisitedFrom(it) = v[it]
    BY DEF VisitedFrom, Iterates, VisitFrom, Cursors
  <2> QED
    BY <2>1, <2>2
<1>3. PICK w : Lists(qf, w) /\ BoxesFrom(p) = w[p]
  <2> DEFINE w == CHOOSE f : Lists(qf, f)
  <2>1. Lists(qf, w)
    BY <1>1, ListsExist
  <2>2. BoxesFrom(p) = w[p]
    BY DEF BoxesFrom, Lists, ListFrom, BucketsFrom
  <2> QED
    BY <2>1, <2>2
<1>4. p \in Nat /\ qf.occupieds \in SUBSET Nat
  BY <1>1, TableSets
<1>5. w[p] = IF BucketsFrom(qf, p) = {} THEN << >> ELSE v[AtRun(qf, Min(BucketsFrom(qf, p)))]
  BY <1>2, <1>3, <1>4, ListsVisited
<1>6. CASE IsOccupied(qf, p)
  <2>1. p \in qf.occupieds
    BY <1>6 DEF IsOccupied
  <2>2. p \in BucketsFrom(qf, p) /\ BucketsFrom(qf, p) \in SUBSET Int /\ \A c \in BucketsFrom(qf, p) : p <= c
    BY <1>4, <2>1 DEF BucketsFrom
  <2>3. Min(BucketsFrom(qf, p)) = p
    BY <2>2, Least
  <2> QED
    BY <1>2, <1>3, <1>5, <1>6, <2>2, <2>3 DEF FromPosition
<1>7. CASE ~ IsOccupied(qf, p)
  <2>1. p = 0
    BY <1>7 DEF IsOccupied
  <2>2. {o \in qf.occupieds : o >= BlockStart(0)} = BucketsFrom(qf, 0)
    BY BlockStarts DEF BucketsFrom
  <2>3. FromPosition(qf, p) = IF BucketsFrom(qf, 0) = {} THEN EndIterator ELSE AtRun(qf, Min(BucketsFrom(qf, 0)))
    BY <1>7, <2>1, <2>2 DEF FromPosition, AtFirstRunFrom
  <2>4. v[EndIterator] = << >>
    <3>1. EndIterator \in Cursors /\ AtEnd(EndIterator)
      BY GeometryAssumption DEF EndIterator, Cursors, AtEnd
    <3> QED
      BY <1>2, <3>1 DEF Iterates, VisitFrom
  <2> QED
    BY <1>2, <1>3, <1>5, <2>1, <2>3, <2>4
<1> QED
  BY <1>6, <1>7
=================================================================================
