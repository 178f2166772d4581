---------------------------- MODULE Addressing_proof ----------------------------
(***************************************************************************)
(* Splitting a hash and putting it together are inverse to each other at   *)
(* every size of the filter.                                               *)
(***************************************************************************)
EXTENDS Addressing, CountingTheorems

\* One more element doubles the subsets.
LEMMA PowerNext ==
    ASSUME NEW n \in Nat
    PROVE  2^(n + 1) = 2 * 2^n
<1> DEFINE S == SUBSET (1 .. n)
           T == {s \cup {n + 1} : s \in S}
           f == [s \in S |-> s \cup {n + 1}]
<1>1. \A k \in Nat : IsFiniteSet(1 .. k) /\ Cardinality(1 .. k) = k
  <2> TAKE k \in Nat
  <2>1. 1 \in Int /\ k \in Int /\ (IF 1 > k THEN 0 ELSE k - 1 + 1) = k
    OBVIOUS
  <2> QED
    BY <2>1, FS_Interval
<1>2. IsFiniteSet(S) /\ Cardinality(S) = 2^n
  BY <1>1, FS_SUBSET
<1>3. IsFiniteSet(SUBSET (1 .. n + 1)) /\ Cardinality(SUBSET (1 .. n + 1)) = 2^(n + 1)
  <2>1. n + 1 \in Nat
    OBVIOUS
  <2> QED
    BY <1>1, <2>1, FS_SUBSET
<1>4. \A s \in S : n + 1 \notin s
  OBVIOUS
<1>5. IsFiniteSet(T) /\ Cardinality(T) = Cardinality(S)
  <2>1. f \in Bijection(S, T)
    <3>1. f \in [S -> T] /\ \A t \in T : \E s \in S : f[s] = t
      OBVIOUS
    <3>2. \A s, t \in S : f[s] = f[t] => s = t
      <4> TAKE s, t \in S
      <4>1. s = (s \cup {n + 1}) \ {n + 1} /\ t = (t \cup {n + 1}) \ {n + 1}
        BY <1>4
      <4> QED
        BY <4>1
    <3> QED
      BY <3>1, <3>2 DEF Bijection, Injection, Surjection, IsInjective
  <2>2. ExistsBijection(S, T)
    BY <2>1 DEF ExistsBijection
  <2> QED
    BY <1>2, <2>2, FS_Bijection
<1>6. SUBSET (1 .. n + 1) = S \cup T
  <2>1. ASSUME NEW u \in SUBSET (1 .. n + 1) PROVE u \in S \cup T
    <3>1. CASE n + 1 \in u
      <4>1. u \ {n + 1} \in S
        OBVIOUS
      <4>2. u = (u \ {n + 1}) \cup {n + 1}
        BY <3>1
      <4> QED
        BY <4>1, <4>2
    <3>2. CASE n + 1 \notin u
      BY <3>2
    <3> QED
      BY <3>1, <3>2
  <2>2. ASSUME NEW u \in S \cup T PROVE u \in SUBSET (1 .. n + 1)
    <3>1. 1 .. n \subseteq 1 .. n + 1 /\ n + 1 \in 1 .. n + 1
      OBVIOUS
    <3> QED
      BY <3>1
  <2> QED
    BY <2>1, <2>2
<1>7. S \cap T = {}
  BY <1>4
<1>8. Cardinality(S \cup T) = Cardinality(S) + Cardinality(T) - Cardinality(S \cap T)
  BY <1>2, <1>5, FS_Union
<1>9. Cardinality({}) = 0
  BY FS_EmptySet
<1>10. 2^n \in Nat
  BY PowerPositive
<1> HIDE DEF S, T, f
<1>11. 2^(n + 1) = Cardinality(S \cup T)
  BY <1>3, <1>6
<1>12. Cardinality(S \cup T) = 2^n + 2^n - 0
  BY <1>2, <1>5, <1>7, <1>8, <1>9
<1>13. PICK a \in Nat : a = 2^n
  BY <1>10
<1>14. Cardinality(S \cup T) = a + a - 0
  BY <1>12, <1>13
<1> QED
  BY <1>11, <1>13, <1>14

\* Exponents add up.
LEMMA PowerSum ==
    ASSUME NEW m \in Nat, NEW n \in Nat
    PROVE  2^(m + n) = 2^m * 2^n
<1> DEFINE T == {k \in Nat : 2^(m + k) # 2^m * 2^k}
<1>1. SUFFICES ASSUME T # {} PROVE FALSE
  OBVIOUS
<1>2. PICK k \in T : \A j \in T : k <= j
  BY <1>1, LeastNatural
<1>3. \A j \in Nat : 2^j \in Nat \ {0}
  BY PowerPositive
<1>4. CASE k = 0
  <2>1. 2^0 = 1
    OBVIOUS
  <2>2. 2^(m + 0) = 2^m /\ 2^m \in Nat
    BY <1>3
  <2> QED
    BY <1>2, <1>4, <2>1, <2>2
<1>5. CASE k # 0
  <2>1. k - 1 \in Nat /\ k = (k - 1) + 1 /\ m + k = (m + (k - 1)) + 1 /\ m + (k - 1) \in Nat
    BY <1>2, <1>5
  <2>2. 2^(m + (k - 1)) = 2^m * 2^(k - 1)
    BY <1>2, <2>1
  <2>3. 2^k = 2 * 2^(k - 1)
    BY <2>1, PowerNext
  <2>4. 2^(m + k) = 2 * 2^(m + (k - 1))
    BY <2>1, PowerNext
  <2>5. PICK a, b \in Nat : a = 2^m /\ b = 2^(k - 1)
    BY <1>3, <2>1
  <2>6. 2 * (a * b) = a * (2 * b)
    BY <2>5
  <2> QED
    BY <1>2, <2>2, <2>3, <2>4, <2>5, <2>6
<1> QED
  BY <1>4, <1>5
\* The least digits of a number written with the digits x and y.
LEMMA DigitsApart ==
    ASSUME NEW n \in Nat \ {0}, NEW y \in Nat, NEW x \in 0 .. n - 1
    PROVE  (y * n + x) \div n = y /\ (y * n + x) % n = x
<1>1. y * n \in Nat /\ y * n + x \in Nat /\ y * n = n * y
  OBVIOUS
<1>2. PICK s \in Nat : s = y * n + x
  BY <1>1
<1>3. n * y <= s /\ s < n * y + n
  BY <1>1, <1>2
<1>4. s \div n = y
  BY <1>3, DivUnique
<1>5. s = n * (s \div n) + (s % n) /\ s % n \in Nat
  BY DivMod
<1> QED
  BY <1>1, <1>2, <1>4, <1>5

\* A number below a product has a quotient below one factor.
LEMMA QuotientBelow ==
    ASSUME NEW n \in Nat \ {0}, NEW k \in Nat, NEW s \in Nat, s < k * n
    PROVE  s \div n \in 0 .. k - 1
<1>1. PICK d \in Nat : d = s \div n /\ n * d <= s
  BY DivMod
<1>2. CASE d >= k
  <2>1. n * d >= n * k
    BY <1>2, SMT
  <2>2. n * k = k * n /\ n * k \in Nat /\ n * d \in Nat
    OBVIOUS
  <2> QED
    BY <1>1, <2>1, <2>2
<1> QED
  BY <1>1, <1>2

\* What a number below a product is made of.
LEMMA BelowProduct ==
    ASSUME NEW n \in Nat \ {0}, NEW k \in Nat, NEW y \in 0 .. k - 1, NEW x \in 0 .. n - 1
    PROVE  y * n + x \in 0 .. k * n - 1
<1>1. (y + 1) * n <= k * n
  BY SMT
<1>2. (y + 1) * n = y * n + n /\ y * n \in Nat /\ k * n \in Nat
  OBVIOUS
<1> QED
  BY <1>1, <1>2
(***************************************************************************)
(* The parts of hashes and addresses.                                      *)
(***************************************************************************)

LEMMA Product ==
    ASSUME NEW m \in Nat, NEW n \in Nat
    PROVE  m * n \in Nat
  OBVIOUS

\* Whatever the size, the bits that a hash has are shared out: A original buckets,
\* B extensions of each, C fingerprints.
LEMMA BitsShared ==
    ASSUME NEW d \in 0 .. FingerprintBits
    PROVE  \E A, B, C \in Nat \ {0} :
             /\ A = 2^OrigQuotientBits /\ B = 2^(Extension + d) /\ C = 2^(FingerprintBits - d)
             /\ Hashes = 0 .. (C * B) * A - 1
             /\ BucketsAt(d) = 0 .. A * B - 1
             /\ FingerprintsAt(d) = 0 .. C - 1
<1>1. /\ OrigQuotientBits \in Nat /\ Extension \in Nat /\ FingerprintBits \in Nat
      /\ d \in Nat /\ FingerprintBits - d \in Nat /\ Extension + d \in Nat
      /\ Extension + FingerprintBits = (Extension + d) + (FingerprintBits - d)
  BY AddressingAssumption
<1>2. PICK A, B, C, E, F \in Nat \ {0} :
        /\ A = 2^OrigQuotientBits /\ B = 2^(Extension + d) /\ C = 2^(FingerprintBits - d)
        /\ E = 2^Extension /\ F = 2^FingerprintBits
  BY <1>1, PowerPositive
<1>3. E * F = B * C
  <2>1. 2^(Extension + FingerprintBits) = 2^Extension * 2^FingerprintBits
    BY <1>1, PowerSum
  <2>2. 2^((Extension + d) + (FingerprintBits - d)) = 2^(Extension + d) * 2^(FingerprintBits - d)
    BY <1>1, PowerSum
  <2> QED
    BY <1>1, <1>2, <2>1, <2>2
<1>4. A * E * F = (C * B) * A
  <2>1. A * E * F = A * (E * F)
    BY <1>2
  <2>2. A * (B * C) = (C * B) * A
    BY <1>2
  <2> QED
    BY <1>3, <2>1, <2>2
<1>5. Hashes = 0 .. (C * B) * A - 1
  BY <1>2, <1>4 DEF Hashes
<1>6. BucketsAt(d) = 0 .. A * B - 1 /\ FingerprintsAt(d) = 0 .. C - 1
  BY <1>2 DEF BucketsAt, FingerprintsAt
<1> QED
  BY <1>2, <1>5, <1>6

\* At every size a hash has a bucket and a fingerprint of that size, and is what
\* qfi_get makes of them: a filter can give back every hash it was given.
THEOREM HashesReassembled ==
    \A d \in 0 .. FingerprintBits, h \in Hashes :
        /\ Address(h, d)[1] \in BucketsAt(d) /\ Address(h, d)[2] \in FingerprintsAt(d)
        /\ HashAt(Address(h, d)[1], Address(h, d)[2], d) = h
<1> TAKE d \in 0 .. FingerprintBits, h \in Hashes
<1>1. PICK A, B, C \in Nat \ {0} :
        /\ A = 2^OrigQuotientBits /\ B = 2^(Extension + d) /\ C = 2^(FingerprintBits - d)
        /\ Hashes = 0 .. (C * B) * A - 1
        /\ BucketsAt(d) = 0 .. A * B - 1
        /\ FingerprintsAt(d) = 0 .. C - 1
  BY BitsShared
<1>2. C * B \in Nat /\ (C * B) * A \in Nat /\ h \in Nat /\ h < (C * B) * A
  <2>1. C * B \in Nat
    BY Product
  <2>2. (C * B) * A \in Nat
    BY <2>1, Product
  <2> QED
    BY <1>1, <2>1, <2>2
<1>3. PICK r, o \in Nat : r = h \div A /\ o = h % A /\ o \in 0 .. A - 1 /\ h = A * r + o
  <2>1. h \div A \in Nat /\ h % A \in 0 .. A - 1 /\ h = A * (h \div A) + (h % A)
    BY <1>2, DivMod
  <2>2. h % A \in Nat
    BY <2>1
  <2> QED
    BY <2>1, <2>2
<1>4. r < C * B
  <2>1. r \in 0 .. C * B - 1
    BY <1>2, <1>3, QuotientBelow
  <2> QED
    BY <1>2, <2>1
<1>5. PICK f, x \in Nat : f = r \div B /\ x = r % B /\ x \in 0 .. B - 1 /\ r = B * f + x
  <2>1. r \div B \in Nat /\ r % B \in 0 .. B - 1 /\ r = B * (r \div B) + (r % B)
    BY <1>3, DivMod
  <2>2. r % B \in Nat
    BY <2>1
  <2> QED
    BY <2>1, <2>2
<1>6. f \in 0 .. C - 1
  BY <1>3, <1>4, <1>5, QuotientBelow
<1>7. f % C = f
  BY <1>6
<1>8. Address(h, d) = << o * B + x, f >>
  BY <1>1, <1>3, <1>5, <1>7 DEF Address
<1>9. o * B + x \in 0 .. A * B - 1
  BY <1>3, <1>5, BelowProduct
<1>10. (o * B + x) \div B = o /\ (o * B + x) % B = x
  BY <1>5, DigitsApart
<1>11. HashAt(o * B + x, f, d) = o + (x + f * B) * A
  BY <1>1, <1>10 DEF HashAt
<1>12. o + (x + f * B) * A = h
  <2>1. x + f * B = r
    BY <1>5
  <2> QED
    BY <1>3, <2>1
<1> QED
  BY <1>1, <1>6, <1>8, <1>9, <1>11, <1>12

\* And every bucket and fingerprint of a size is those of the hash made of them: no
\* two hashes share an address.
THEOREM AddressesUsed ==
    \A d \in 0 .. FingerprintBits : \A b \in BucketsAt(d), f \in FingerprintsAt(d) :
        HashAt(b, f, d) \in Hashes /\ Address(HashAt(b, f, d), d) = << b, f >>
<1> TAKE d \in 0 .. FingerprintBits
<1> TAKE b \in BucketsAt(d), f \in FingerprintsAt(d)
<1>1. PICK A, B, C \in Nat \ {0} :
        /\ A = 2^OrigQuotientBits /\ B = 2^(Extension + d) /\ C = 2^(FingerprintBits - d)
        /\ Hashes = 0 .. (C * B) * A - 1
        /\ BucketsAt(d) = 0 .. A * B - 1
        /\ FingerprintsAt(d) = 0 .. C - 1
  BY BitsShared
<1>2. A * B \in Nat /\ b \in Nat /\ b < A * B /\ f \in 0 .. C - 1 /\ f \in Nat
  <2>1. A * B \in Nat
    BY Product
  <2> QED
    BY <1>1, <2>1
<1>3. PICK o, x \in Nat : o = b \div B /\ x = b % B /\ x \in 0 .. B - 1 /\ b = B * o + x
  <2>1. b \div B \in Nat /\ b % B \in 0 .. B - 1 /\ b = B * (b \div B) + (b % B)
    BY <1>2, DivMod
  <2>2. b % B \in Nat
    BY <2>1
  <2> QED
    BY <2>1, <2>2
<1>4. o \in 0 .. A - 1
  BY <1>2, <1>3, QuotientBelow
<1>5. PICK r \in Nat : r = f * B + x /\ r \in 0 .. C * B - 1
  BY <1>2, <1>3, BelowProduct
<1>6. C * B \in Nat
  BY Product
<1>7. r * A + o \in 0 .. (C * B) * A - 1
  BY <1>4, <1>5, <1>6, BelowProduct
<1>8. HashAt(b, f, d) = r * A + o
  <2>1. HashAt(b, f, d) = o + (x + f * B) * A
    BY <1>1, <1>3 DEF HashAt
  <2>2. x + f * B = r
    BY <1>2, <1>3, <1>5
  <2>3. r * A \in Nat
    BY <1>5
  <2> QED
    BY <1>3, <2>1, <2>2, <2>3
<1>9. (r * A + o) \div A = r /\ (r * A + o) % A = o
  BY <1>4, <1>5, DigitsApart
<1>10. r \div B = f /\ r % B = x
  BY <1>2, <1>3, <1>5, DigitsApart
<1>11. f % C = f
  BY <1>2
<1>12. o * B + x = b
  BY <1>3
<1>13. Address(HashAt(b, f, d), d) = << b, f >>
  BY <1>1, <1>8, <1>9, <1>10, <1>11, <1>12 DEF Address
<1> QED
  BY <1>1, <1>7, <1>8, <1>13

\* What qf_resize_malloc does to the address of a box, taking it apart at one size
\* and inserting it at another, keeps its hash: the box can be found under every
\* hash, and only those, it was found under before, and going back undoes it.
THEOREM ReaddressingKeepsHashes ==
    \A d, e \in 0 .. FingerprintBits : \A b \in BucketsAt(d), f \in FingerprintsAt(d) :
        LET x == Address(HashAt(b, f, d), e) IN
        /\ x[1] \in BucketsAt(e) /\ x[2] \in FingerprintsAt(e)
        /\ HashAt(x[1], x[2], e) = HashAt(b, f, d)
        /\ Address(HashAt(x[1], x[2], e), d) = << b, f >>
  BY HashesReassembled, AddressesUsed
=================================================================================
