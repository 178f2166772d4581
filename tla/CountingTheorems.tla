------------------------------- MODULE CountingTheorems -------------------------------
(***************************************************************************)
(* Sums over finite sets: what SumFunctionOnSet of the community modules   *)
(* computes, and how a sum changes with one of its terms.  Induction is by *)
(* a least counterexample, which well-founded orderings provide.  And what *)
(* division and powers of two do, which the library leaves to its provers. *)
(***************************************************************************)
EXTENDS Integers, FiniteSets, Functions, FiniteSetTheorems, WellFoundedInduction, TLAPS

\* A set of naturals that has an element has a least one.
LEMMA LeastNatural ==
    ASSUME NEW T \in SUBSET Nat, T # {}
    PROVE  \E n \in T : \A m \in T : n <= m
<1>1. PICK n \in T : \A m \in T : ~ (<< m, n >> \in OpToRel(<, Nat))
  BY NatLessThanWellFounded, WFMin
<1>2. \A m \in T : ~ (m < n)
  BY <1>1 DEF OpToRel
<1> QED
  BY <1>2

(***************************************************************************)
(* Division, and powers of two, which a set's subsets count.               *)
(***************************************************************************)

\* Division with remainder.
LEMMA DivMod ==
    ASSUME NEW s \in Nat, NEW n \in Nat \ {0}
    PROVE  /\ s \div n \in Nat
           /\ s % n \in 0 .. n - 1
           /\ s = n * (s \div n) + (s % n)
OBVIOUS

\* The quotient is the only multiple that fits.
\* The quotient is the only number that fits.
LEMMA DivUnique ==
    ASSUME NEW s \in Nat, NEW n \in Nat \ {0}, NEW q \in Nat,
           n * q <= s, s < n * q + n
    PROVE  s \div n = q
<1> DEFINE d == s \div n
<1>1. d \in Nat /\ n * d <= s /\ s < n * d + n
  BY DivMod
<1> HIDE DEF d
<1>2. CASE d < q
  <2>1. d + 1 <= q
    BY <1>1, <1>2
  <2>2. n * (d + 1) <= n * q
    BY <1>1, <2>1, SMT
  <2>3. n * (d + 1) = n * d + n
    BY <1>1, SMT
  <2> QED
    BY <1>1, <2>2, <2>3
<1>3. CASE d > q
  <2>1. q + 1 <= d
    BY <1>1, <1>3
  <2>2. n * (q + 1) <= n * d
    BY <1>1, <2>1, SMT
  <2>3. n * (q + 1) = n * q + n
    BY SMT
  <2> QED
    BY <1>1, <2>2, <2>3
<1> QED
  BY <1>1, <1>2, <1>3 DEF d

LEMMA PowerPositive ==
    ASSUME NEW n \in Nat
    PROVE  2^n \in Nat \ {0}
<1>1. IsFiniteSet(1 .. n) /\ Cardinality(1 .. n) = n
  <2>1. 1 \in Int /\ n \in Int /\ (IF 1 > n THEN 0 ELSE n - 1 + 1) = n
    OBVIOUS
  <2> QED
    BY <2>1, FS_Interval
<1>2. IsFiniteSet(SUBSET (1 .. n)) /\ Cardinality(SUBSET (1 .. n)) = 2^n
  BY <1>1, FS_SUBSET
<1>3. 2^n \in Nat
  BY <1>2, FS_CardinalityType
<1>4. 2^n # 0
  <2>1. SUBSET (1 .. n) # {}
    OBVIOUS
  <2> QED
    BY <1>2, <2>1, FS_EmptySet
<1> QED
  BY <1>3, <1>4

(***************************************************************************)
(* The recursion the fold is defined by.                                   *)
(***************************************************************************)

Chosen(s) == CHOOSE x \in s : TRUE

\* g is the sum of f over every set of `sets`, one chosen term at a time.
Sums(g, f, sets) ==
    g = [s \in sets |-> IF s = {} THEN 0 ELSE f[Chosen(s)] + g[s \ {Chosen(s)}]]

\* g is the sum of f over the subsets of S, a finite set.
SumsOf(g, f, S) == IsFiniteSet(S) /\ Sums(g, f, SUBSET S)

SmallSubsets(S, n) == {s \in SUBSET S : Cardinality(s) <= n}

\* Taking the chosen element out of a finite set leaves a smaller one.
LEMMA WithoutChosen ==
    ASSUME NEW S, IsFiniteSet(S), NEW s \in SUBSET S, s # {}
    PROVE  /\ Chosen(s) \in s /\ s \ {Chosen(s)} \in SUBSET S
           /\ Cardinality(s) \in Nat
           /\ Cardinality(s \ {Chosen(s)}) = Cardinality(s) - 1
<1>1. Chosen(s) \in s
  BY DEF Chosen
<1>2. IsFiniteSet(s)
  BY FS_Subset
<1> QED
  BY <1>1, <1>2, FS_RemoveElement, FS_CardinalityType

\* There is such a sum of the subsets of up to n elements.
LEMMA SmallSumsExist ==
    ASSUME NEW f, NEW S, IsFiniteSet(S)
    PROVE  \A n \in Nat : \E g : Sums(g, f, SmallSubsets(S, n))
<1> DEFINE Missing == {n \in Nat : ~ \E g : Sums(g, f, SmallSubsets(S, n))}
<1>1. SUFFICES ASSUME Missing # {} PROVE FALSE
  OBVIOUS
<1>2. PICK n \in Missing : \A m \in Missing : n <= m
  BY <1>1, LeastNatural
<1>3. \A s \in SUBSET S : s # {} => /\ Cardinality(s) \in Nat /\ s \ {Chosen(s)} \in SUBSET S
                                     /\ Cardinality(s \ {Chosen(s)}) = Cardinality(s) - 1
  BY WithoutChosen
<1>4. CASE n = 0
  <2>1. Cardinality({}) = 0
    BY FS_EmptySet
  <2>2. SmallSubsets(S, 0) = {{}}
    <3>1. ASSUME NEW s \in SUBSET S, Cardinality(s) <= 0, s # {}
          PROVE  FALSE
      <4>1. IsFiniteSet(s) /\ Cardinality(s) \in Nat
        BY <3>1, FS_Subset, FS_CardinalityType
      <4> QED
        BY <3>1, <4>1, FS_EmptySet
    <3> QED
      BY <2>1, <3>1 DEF SmallSubsets
  <2>3. Sums([s \in {{}} |-> 0], f, SmallSubsets(S, 0))
    BY <2>2 DEF Sums
  <2> QED
    BY <1>2, <1>4, <2>3
<1>5. CASE n # 0
  <2>1. n - 1 \in Nat /\ n - 1 \notin Missing
    BY <1>2, <1>5
  <2>2. PICK h : Sums(h, f, SmallSubsets(S, n - 1))
    BY <2>1
  <2> DEFINE small == SmallSubsets(S, n - 1)
             all == SmallSubsets(S, n)
             g == [s \in all |-> IF s \in small THEN h[s] ELSE f[Chosen(s)] + h[s \ {Chosen(s)}]]
  <2>3. \A s \in all : s # {} => s \ {Chosen(s)} \in small /\ s \ {Chosen(s)} \in all
    BY <1>2, <1>3, <2>1 DEF SmallSubsets
  <2>4. \A s \in small : /\ s \in all
                         /\ h[s] = IF s = {} THEN 0 ELSE f[Chosen(s)] + h[s \ {Chosen(s)}]
    <3>1. \A s \in SUBSET S : Cardinality(s) \in Nat
      BY FS_Subset, FS_CardinalityType
    <3>2. small \subseteq all
      BY <1>2, <2>1, <3>1 DEF SmallSubsets
    <3> HIDE DEF small, all
    <3>3. h = [s \in small |-> IF s = {} THEN 0 ELSE f[Chosen(s)] + h[s \ {Chosen(s)}]]
      BY <2>2 DEF Sums, small
    <3> QED
      BY <3>2, <3>3
  <2>5. {} \in small
    <3>1. Cardinality({}) = 0
      BY FS_EmptySet
    <3> QED
      BY <2>1, <3>1 DEF SmallSubsets
  <2>6. ASSUME NEW s \in all
        PROVE  g[s] = IF s = {} THEN 0 ELSE f[Chosen(s)] + g[s \ {Chosen(s)}]
    <3>1. CASE s \in small
      <4> HIDE DEF small, all
      <4> QED
        BY <2>3, <2>4, <3>1, <2>6
    <3>2. CASE s \notin small
      <4>1. s # {} /\ g[s \ {Chosen(s)}] = h[s \ {Chosen(s)}]
        <5> HIDE DEF small, all
        <5> QED
          BY <2>3, <2>5, <3>2, <2>6
      <4> HIDE DEF small, all
      <4> QED
        BY <3>2, <4>1, <2>6
    <3> QED
      BY <3>1, <3>2
  <2>7. Sums(g, f, all)
    <3> HIDE DEF all, small
    <3> QED
      BY <2>6 DEF Sums
  <2> QED
    BY <1>2, <2>7
<1> QED
  BY <1>4, <1>5

\* The fold satisfies the equation of its definition on every subset.
LEMMA SumsExist ==
    ASSUME NEW f, NEW S, IsFiniteSet(S)
    PROVE  \E g : SumsOf(g, f, S) /\ SumFunctionOnSet(f, S) = g[S]
<1>1. SmallSubsets(S, Cardinality(S)) = SUBSET S
  BY FS_Subset DEF SmallSubsets
<1>2. \E g : Sums(g, f, SUBSET S)
  <2>1. Cardinality(S) \in Nat
    BY FS_CardinalityType
  <2>2. \E g : Sums(g, f, SmallSubsets(S, Cardinality(S)))
    BY <2>1, SmallSumsExist
  <2> QED
    BY <1>1, <2>2
<1>3. SumFunctionOnSet(f, S) = (CHOOSE g : Sums(g, f, SUBSET S))[S]
  BY DEF SumFunctionOnSet, FoldFunctionOnSet, MapThenFoldSet, Sums, Chosen
<1> QED
  BY <1>2, <1>3 DEF SumsOf

\* Two such sums agree on the smaller set when their terms agree there.
LEMMA SumsAgree ==
    ASSUME NEW f, NEW g, NEW S, NEW U, NEW F, NEW G, SumsOf(F, f, S), SumsOf(G, g, U),
           U \subseteq S, \A x \in U : f[x] = g[x]
    PROVE  F[U] = G[U]
<1> DEFINE Differ(n) == \E s \in SUBSET U : Cardinality(s) = n /\ F[s] # G[s]
           Bad == {n \in Nat : Differ(n)}
<1>1. /\ IsFiniteSet(U)
      /\ \A s \in SUBSET U : s \in SUBSET S /\ Cardinality(s) \in Nat
  BY FS_Subset, FS_CardinalityType DEF SumsOf
<1>2. SUFFICES ASSUME F[U] # G[U] PROVE FALSE
  OBVIOUS
<1>3. Bad # {}
  <2>1. Cardinality(U) \in Nat /\ Differ(Cardinality(U))
    BY <1>1, <1>2
  <2> QED
    BY <2>1
<1>4. PICK n \in Bad : \A m \in Bad : n <= m
  BY <1>3, LeastNatural
<1>5. PICK s \in SUBSET U : Cardinality(s) = n /\ F[s] # G[s]
  BY <1>4
<1>6. s \in SUBSET S
  BY <1>1
<1>7. /\ F[s] = IF s = {} THEN 0 ELSE f[Chosen(s)] + F[s \ {Chosen(s)}]
      /\ G[s] = IF s = {} THEN 0 ELSE g[Chosen(s)] + G[s \ {Chosen(s)}]
  BY <1>6 DEF SumsOf, Sums
<1>8. s # {}
  BY <1>5, <1>7
<1>9. /\ Chosen(s) \in s /\ s \ {Chosen(s)} \in SUBSET U
      /\ Cardinality(s \ {Chosen(s)}) = n - 1 /\ n - 1 \in Nat
  BY <1>1, <1>5, <1>8, WithoutChosen, FS_EmptySet
<1>10. n - 1 \notin Bad
  BY <1>4
<1>11. F[s \ {Chosen(s)}] = G[s \ {Chosen(s)}]
  BY <1>9, <1>10
<1> QED
  BY <1>5, <1>7, <1>8, <1>9, <1>11

(***************************************************************************)
(* What callers need of it.                                                *)
(***************************************************************************)

\* The sum over a set depends on the terms in it only.
LEMMA SumEqual ==
    ASSUME NEW f, NEW g, NEW S, IsFiniteSet(S), \A x \in S : f[x] = g[x]
    PROVE  SumFunctionOnSet(f, S) = SumFunctionOnSet(g, S)
<1>1. PICK F : SumsOf(F, f, S) /\ SumFunctionOnSet(f, S) = F[S]
  BY SumsExist
<1>2. PICK G : SumsOf(G, g, S) /\ SumFunctionOnSet(g, S) = G[S]
  BY SumsExist
<1>3. F[S] = G[S]
  BY <1>1, <1>2, SumsAgree
<1> QED
  BY <1>1, <1>2, <1>3

LEMMA SumEmpty ==
    ASSUME NEW f
    PROVE  SumFunctionOnSet(f, {}) = 0
<1>1. PICK F : SumsOf(F, f, {}) /\ SumFunctionOnSet(f, {}) = F[{}]
  BY SumsExist, FS_EmptySet
<1> QED
  BY <1>1 DEF SumsOf, Sums

\* The equation of the fold: some element, and the others.
LEMMA SumChosen ==
    ASSUME NEW f, NEW S, IsFiniteSet(S), S # {}
    PROVE  /\ Chosen(S) \in S
           /\ SumFunctionOnSet(f, S)
                = f[Chosen(S)] + SumFunctionOnSet(f, S \ {Chosen(S)})
<1> DEFINE R == S \ {Chosen(S)}
<1>1. Chosen(S) \in S /\ R \in SUBSET S /\ IsFiniteSet(R)
  BY WithoutChosen, FS_Subset
<1>2. PICK F : SumsOf(F, f, S) /\ SumFunctionOnSet(f, S) = F[S]
  BY SumsExist
<1>3. PICK G : SumsOf(G, f, R) /\ SumFunctionOnSet(f, R) = G[R]
  BY <1>1, SumsExist
<1>4. F[S] = f[Chosen(S)] + F[R]
  BY <1>2 DEF SumsOf, Sums
<1>5. F[R] = G[R]
  <2>1. R \subseteq S
    OBVIOUS
  <2> HIDE DEF R
  <2> QED
    BY <1>2, <1>3, <2>1, SumsAgree
<1> QED
  BY <1>1, <1>2, <1>3, <1>4, <1>5

\* A statement about sums that is not true of every set fails for a smallest one;
\* taking the chosen element out of that set leads to a contradiction.

\* Integers add up to an integer.
LEMMA SumType ==
    ASSUME NEW S, IsFiniteSet(S), NEW f, \A x \in S : f[x] \in Int
    PROVE  SumFunctionOnSet(f, S) \in Int
<1> DEFINE Bad == {n \in Nat : \E s \in SUBSET S :
                     Cardinality(s) = n /\ SumFunctionOnSet(f, s) \notin Int}
<1>1. SUFFICES ASSUME Bad # {} PROVE FALSE
  <2>1. SUFFICES ASSUME SumFunctionOnSet(f, S) \notin Int PROVE Bad # {}
    OBVIOUS
  <2>2. Cardinality(S) \in Bad
    BY <2>1, FS_CardinalityType
  <2> QED
    BY <2>2
<1>2. PICK n \in Bad : \A m \in Bad : n <= m
  BY <1>1, LeastNatural
<1>3. PICK s \in SUBSET S : Cardinality(s) = n /\ SumFunctionOnSet(f, s) \notin Int
  BY <1>2
<1>4. IsFiniteSet(s)
  BY FS_Subset
<1>5. s # {}
  BY <1>3, SumEmpty
<1>6. /\ Chosen(s) \in s /\ s \ {Chosen(s)} \in SUBSET S
      /\ Cardinality(s \ {Chosen(s)}) = n - 1 /\ n - 1 \in Nat
  BY <1>3, <1>4, <1>5, WithoutChosen, FS_EmptySet
<1>7. n - 1 \notin Bad
  BY <1>2
<1>8. SumFunctionOnSet(f, s \ {Chosen(s)}) \in Int
  BY <1>6, <1>7
<1>9. SumFunctionOnSet(f, s) = f[Chosen(s)] + SumFunctionOnSet(f, s \ {Chosen(s)})
  BY <1>4, <1>5, SumChosen
<1> QED
  BY <1>3, <1>6, <1>8, <1>9

\* One term more, or another value of it, makes that difference to the sum.
LEMMA SumUpdate ==
    ASSUME NEW S, IsFiniteSet(S), NEW f, NEW g, NEW x \in S,
           \A y \in S : f[y] \in Int /\ g[y] \in Int,
           \A y \in S \ {x} : g[y] = f[y]
    PROVE  SumFunctionOnSet(g, S) = SumFunctionOnSet(f, S) + g[x] - f[x]
<1> DEFINE Right(s) == SumFunctionOnSet(g, s) = SumFunctionOnSet(f, s) + g[x] - f[x]
           Bad == {n \in Nat : \E s \in SUBSET S : x \in s /\ Cardinality(s) = n /\ ~ Right(s)}
<1>1. SUFFICES ASSUME Bad # {} PROVE FALSE
  <2>1. SUFFICES ASSUME ~ Right(S) PROVE Bad # {}
    OBVIOUS
  <2>2. Cardinality(S) \in Bad
    BY <2>1, FS_CardinalityType
  <2> QED
    BY <2>2
<1>2. PICK n \in Bad : \A m \in Bad : n <= m
  BY <1>1, LeastNatural
<1>3. PICK s \in SUBSET S : x \in s /\ Cardinality(s) = n /\ ~ Right(s)
  BY <1>2
<1> DEFINE c == Chosen(s)
           r == s \ {c}
<1>4. IsFiniteSet(s) /\ s # {}
  BY <1>3, FS_Subset
<1>5. /\ c \in s /\ r \in SUBSET S /\ IsFiniteSet(r)
      /\ Cardinality(r) = n - 1 /\ n - 1 \in Nat
  BY <1>3, <1>4, WithoutChosen, FS_EmptySet, FS_Subset
<1>6. /\ SumFunctionOnSet(f, s) = f[c] + SumFunctionOnSet(f, r)
      /\ SumFunctionOnSet(g, s) = g[c] + SumFunctionOnSet(g, r)
  BY <1>4, SumChosen
<1>7. SumFunctionOnSet(f, r) \in Int /\ SumFunctionOnSet(g, r) \in Int
  BY <1>5, SumType
<1> HIDE DEF c, r
<1>8. CASE c = x
  <2>1. SumFunctionOnSet(f, r) = SumFunctionOnSet(g, r)
    BY <1>3, <1>5, <1>8, SumEqual DEF r
  <2> QED
    BY <1>3, <1>5, <1>6, <1>7, <1>8, <2>1
<1>9. CASE c # x
  <2>1. n - 1 \notin Bad
    BY <1>2, <1>5
  <2>2. Right(r)
    BY <1>3, <1>5, <1>9, <2>1 DEF r
  <2>3. g[c] = f[c] /\ f[c] \in Int /\ f[x] \in Int /\ g[x] \in Int
    BY <1>3, <1>5, <1>9
  <2> QED
    BY <1>3, <1>6, <1>7, <2>2, <2>3
<1> QED
  BY <1>8, <1>9

\* Zeros add up to zero.
LEMMA SumZero ==
    ASSUME NEW S, IsFiniteSet(S), NEW f, \A x \in S : f[x] = 0
    PROVE  SumFunctionOnSet(f, S) = 0
<1> DEFINE Bad == {n \in Nat : \E s \in SUBSET S :
                     Cardinality(s) = n /\ SumFunctionOnSet(f, s) # 0}
<1>1. SUFFICES ASSUME Bad # {} PROVE FALSE
  <2>1. SUFFICES ASSUME SumFunctionOnSet(f, S) # 0 PROVE Bad # {}
    OBVIOUS
  <2>2. Cardinality(S) \in Bad
    BY <2>1, FS_CardinalityType
  <2> QED
    BY <2>2
<1>2. PICK n \in Bad : \A m \in Bad : n <= m
  BY <1>1, LeastNatural
<1>3. PICK s \in SUBSET S : Cardinality(s) = n /\ SumFunctionOnSet(f, s) # 0
  BY <1>2
<1>4. IsFiniteSet(s) /\ s # {}
  BY <1>3, FS_Subset, SumEmpty
<1>5. /\ Chosen(s) \in s /\ s \ {Chosen(s)} \in SUBSET S
      /\ Cardinality(s \ {Chosen(s)}) = n - 1 /\ n - 1 \in Nat
  BY <1>3, <1>4, WithoutChosen, FS_EmptySet
<1>6. n - 1 \notin Bad
  BY <1>2, <1>5
<1>7. SumFunctionOnSet(f, s \ {Chosen(s)}) = 0
  BY <1>5, <1>6
<1>8. SumFunctionOnSet(f, s) = f[Chosen(s)] + SumFunctionOnSet(f, s \ {Chosen(s)})
  BY <1>4, SumChosen
<1> QED
  BY <1>3, <1>5, <1>7, <1>8

\* A sum of terms that are not negative is not negative.
LEMMA SumNonNegative ==
    ASSUME NEW S, IsFiniteSet(S), NEW f, \A x \in S : f[x] \in Int /\ f[x] >= 0
    PROVE  SumFunctionOnSet(f, S) >= 0
<1> DEFINE Bad == {n \in Nat : \E s \in SUBSET S :
                     Cardinality(s) = n /\ ~(SumFunctionOnSet(f, s) >= 0)}
<1>1. SUFFICES ASSUME Bad # {} PROVE FALSE
  <2>1. SUFFICES ASSUME ~(SumFunctionOnSet(f, S) >= 0) PROVE Bad # {}
    OBVIOUS
  <2>2. Cardinality(S) \in Bad
    BY <2>1, FS_CardinalityType
  <2> QED
    BY <2>2
<1>2. PICK n \in Bad : \A m \in Bad : n <= m
  BY <1>1, LeastNatural
<1>3. PICK s \in SUBSET S : Cardinality(s) = n /\ ~(SumFunctionOnSet(f, s) >= 0)
  BY <1>2
<1>4. IsFiniteSet(s) /\ s # {}
  <2>1. IsFiniteSet(s)
    BY FS_Subset
  <2>2. SumFunctionOnSet(f, {}) = 0
    BY SumEmpty
  <2> QED
    BY <1>3, <2>1, <2>2
<1>5. /\ Chosen(s) \in s /\ s \ {Chosen(s)} \in SUBSET S /\ IsFiniteSet(s \ {Chosen(s)})
      /\ Cardinality(s \ {Chosen(s)}) = n - 1 /\ n - 1 \in Nat
  BY <1>3, <1>4, WithoutChosen, FS_EmptySet, FS_Subset
<1>6. n - 1 \notin Bad
  BY <1>2, <1>5
<1>7. SumFunctionOnSet(f, s \ {Chosen(s)}) >= 0
  BY <1>5, <1>6
<1>8. SumFunctionOnSet(f, s) = f[Chosen(s)] + SumFunctionOnSet(f, s \ {Chosen(s)})
  BY <1>4, SumChosen
<1>9. SumFunctionOnSet(f, s \ {Chosen(s)}) \in Int /\ f[Chosen(s)] \in Int /\ f[Chosen(s)] >= 0
  BY <1>5, SumType
<1> QED
  BY <1>3, <1>7, <1>8, <1>9

(***************************************************************************)
(* Terms that are covered by terms of another sum.                         *)
(***************************************************************************)

\* h gives each positive term of u over T a term of f over S to itself, no smaller.
Covers(h, u, T, f, S) ==
    /\ \A t \in T : u[t] > 0 => h[t] \in S /\ u[t] <= f[h[t]]
    /\ \A t, v \in T : u[t] > 0 /\ u[v] > 0 /\ h[t] = h[v] => t = v

\* A term less.
LEMMA SumCleared ==
    ASSUME NEW S, IsFiniteSet(S), NEW f, NEW g, NEW x \in S, NEW n, f[x] = n, g[x] = 0,
           \A y \in S : f[y] \in Int /\ g[y] \in Int,
           \A y \in S \ {x} : g[y] = f[y]
    PROVE  SumFunctionOnSet(g, S) = SumFunctionOnSet(f, S) - n
<1>1. SumFunctionOnSet(g, S) = SumFunctionOnSet(f, S) + g[x] - f[x]
  BY SumUpdate
<1>2. SumFunctionOnSet(f, S) \in Int
  BY SumType
<1> QED
  BY <1>1, <1>2

\* The elements that the positive terms of R are covered by.
Covering(u, h, R) == {h[t] : t \in {v \in R : u[v] > 0}}

Rest(f, u, h, S, R) == [x \in S |-> IF x \in Covering(u, h, R) THEN 0 ELSE f[x]]

\* The terms of u over R and what they leave of f fit in f.
Fits(f, u, h, S, R) ==
    SumFunctionOnSet(u, R) + SumFunctionOnSet(Rest(f, u, h, S, R), S) <= SumFunctionOnSet(f, S)

\* Terms that are covered by terms that are not negative add up to no more.
LEMMA SumInjection ==
    ASSUME NEW S, IsFiniteSet(S), NEW T, IsFiniteSet(T),
           NEW f, \A x \in S : f[x] \in Int /\ f[x] >= 0,
           NEW u, \A t \in T : u[t] \in Int,
           NEW h, Covers(h, u, T, f, S)
    PROVE  SumFunctionOnSet(u, T) <= SumFunctionOnSet(f, S)
<1> DEFINE Bad == {n \in Nat : \E R \in SUBSET T : Cardinality(R) = n /\ ~ Fits(f, u, h, S, R)}
<1>1. \A R \in SUBSET T : /\ IsFiniteSet(R) /\ Cardinality(R) \in Nat
                          /\ SumFunctionOnSet(u, R) \in Int
  BY FS_Subset, FS_CardinalityType, SumType
<1>2. ASSUME NEW R
      PROVE  /\ \A x \in S : Rest(f, u, h, S, R)[x] \in Int /\ Rest(f, u, h, S, R)[x] >= 0
             /\ SumFunctionOnSet(Rest(f, u, h, S, R), S) \in Int
             /\ SumFunctionOnSet(Rest(f, u, h, S, R), S) >= 0
  <2>1. \A x \in S : Rest(f, u, h, S, R)[x] \in Int /\ Rest(f, u, h, S, R)[x] >= 0
    BY DEF Rest
  <2> QED
    BY <2>1, SumType, SumNonNegative
<1>3. SumFunctionOnSet(f, S) \in Int
  BY SumType
<1>4. SUFFICES ASSUME Bad # {} PROVE FALSE
  <2>1. SUFFICES ASSUME Fits(f, u, h, S, T)
                 PROVE  SumFunctionOnSet(u, T) <= SumFunctionOnSet(f, S)
    BY <1>1
  <2>2. /\ SumFunctionOnSet(Rest(f, u, h, S, T), S) \in Int
        /\ SumFunctionOnSet(Rest(f, u, h, S, T), S) >= 0
        /\ SumFunctionOnSet(u, T) \in Int
    BY <1>1, <1>2
  <2> QED
    BY <1>3, <2>1, <2>2 DEF Fits
<1>5. PICK n \in Bad : \A m \in Bad : n <= m
  BY <1>4, LeastNatural
<1>6. PICK R \in SUBSET T : Cardinality(R) = n /\ ~ Fits(f, u, h, S, R)
  BY <1>5
<1>7. R # {}
  <2>1. SUFFICES ASSUME R = {} PROVE FALSE
    OBVIOUS
  <2>2. Covering(u, h, {}) = {}
    BY DEF Covering
  <2>3. SumFunctionOnSet(Rest(f, u, h, S, {}), S) = SumFunctionOnSet(f, S)
    <3>1. \A x \in S : Rest(f, u, h, S, {})[x] = f[x]
      BY <2>2 DEF Rest
    <3> QED
      BY <3>1, SumEqual
  <2>4. SumFunctionOnSet(u, {}) = 0
    BY SumEmpty
  <2> QED
    BY <1>3, <1>6, <2>1, <2>3, <2>4 DEF Fits
<1> DEFINE c == Chosen(R)
           r == R \ {c}
<1>8. /\ c \in R /\ c \in T /\ r \in SUBSET T
      /\ Cardinality(r) = n - 1 /\ n - 1 \in Nat
  BY <1>1, <1>6, <1>7, WithoutChosen, FS_EmptySet
<1>9. n - 1 \notin Bad
  BY <1>5, <1>8
<1>10. Fits(f, u, h, S, r)
  BY <1>8, <1>9
<1>11. SumFunctionOnSet(u, R) = u[c] + SumFunctionOnSet(u, r)
  BY <1>1, <1>7, SumChosen
<1> HIDE DEF c, Bad
<1>12. CASE ~(u[c] > 0)
  <2>1. Covering(u, h, R) = Covering(u, h, r)
    BY <1>12, <1>8 DEF Covering
  <2>2. Rest(f, u, h, S, R) = Rest(f, u, h, S, r)
    BY <2>1 DEF Rest
  <2> HIDE DEF r
  <2>3. /\ u[c] \in Int /\ SumFunctionOnSet(u, r) \in Int
        /\ SumFunctionOnSet(Rest(f, u, h, S, r), S) \in Int
    BY <1>1, <1>2, <1>8
  <2> QED
    BY <1>3, <1>6, <1>10, <1>11, <1>12, <2>2, <2>3 DEF Fits
<1>13. CASE u[c] > 0
  <2>1. h[c] \in S /\ u[c] <= f[h[c]]
    BY <1>8, <1>13 DEF Covers
  <2>2. Covering(u, h, R) = Covering(u, h, r) \cup {h[c]} /\ h[c] \notin Covering(u, h, r)
    BY <1>8, <1>13 DEF Covering, Covers
  <2>3. /\ Rest(f, u, h, S, r)[h[c]] = f[h[c]] /\ Rest(f, u, h, S, R)[h[c]] = 0
        /\ \A y \in S \ {h[c]} : Rest(f, u, h, S, R)[y] = Rest(f, u, h, S, r)[y]
    BY <2>1, <2>2 DEF Rest
  <2>4. SumFunctionOnSet(Rest(f, u, h, S, R), S)
          = SumFunctionOnSet(Rest(f, u, h, S, r), S) + 0 - f[h[c]]
    <3>1. \A y \in S : Rest(f, u, h, S, r)[y] \in Int /\ Rest(f, u, h, S, R)[y] \in Int
      BY <1>2
    <3> DEFINE before == Rest(f, u, h, S, r)
               after == Rest(f, u, h, S, R)
               x == h[c]
    <3>2. /\ x \in S /\ before[x] = f[x] /\ after[x] = 0
          /\ \A y \in S : before[y] \in Int /\ after[y] \in Int
          /\ \A y \in S \ {x} : after[y] = before[y]
      BY <2>1, <2>3, <3>1
    <3> HIDE DEF before, after, x
    <3>3. SumFunctionOnSet(after, S) = SumFunctionOnSet(before, S) - f[x]
      BY <3>2, SumCleared
    <3>4. SumFunctionOnSet(before, S) \in Int /\ f[x] \in Int
      BY <3>2, SumType
    <3> QED
      BY <3>3, <3>4 DEF before, after, x
  <2> HIDE DEF r
  <2>5. /\ u[c] \in Int /\ f[h[c]] \in Int /\ SumFunctionOnSet(u, r) \in Int
        /\ SumFunctionOnSet(Rest(f, u, h, S, r), S) \in Int
    BY <1>1, <1>2, <1>8, <2>1
  <2> QED
    BY <1>3, <1>6, <1>10, <1>11, <2>1, <2>4, <2>5 DEF Fits
<1> QED
  BY <1>12, <1>13
=================================================================================
