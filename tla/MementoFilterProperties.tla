------------------------- MODULE MementoFilterProperties -------------------------
(***************************************************************************)
(* What makes a Memento filter correct.  The reference reading of the      *)
(* slot table below uses the bit vectors alone: the i-th occupied bucket   *)
(* owns the run that ends at the i-th runend.  The code never does that;   *)
(* it navigates by the block offsets, and the properties relate the two.   *)
(***************************************************************************)
EXTENDS MementoIterator

(***************************************************************************)
(* The reference reading.                                                  *)
(***************************************************************************)

UpTo(S, x) == Cardinality({y \in S : y <= x})

RunendOf(q, b) == CHOOSE e \in q.runends : UpTo(q.runends, e) = UpTo(q.occupieds, b)

\* The end of the last run of a bucket up to b, b - 1 standing for none.
LastUsed(q, b) ==
    LET before == {o \in q.occupieds : o <= b}
    IN  IF before = {} THEN -1 ELSE RunendOf(q, Max(before))

RunOf(q, b) == Max({b, LastUsed(q, b - 1) + 1}) .. RunendOf(q, b)

UsedSlots(q) == UNION {RunOf(q, b) : b \in q.occupieds}

\* The first slots of the boxes of bucket b's run, by walking it.
BoxesIn(q, b) ==
    LET first == Max({b, LastUsed(q, b - 1) + 1})
        last == RunendOf(q, b)
        from[p \in Nat] == IF p > last THEN << >> ELSE << p >> \o from[p + BoxLen(q, p)]
    IN  from[first]

\* The hashed keys of the box at p in bucket b's run, each with its place.
KeysAt(b, p) ==
    LET f == FingerprintAt(qf, p)
        ms == BoxMementos(qf, p)
    IN  {<< << b, f, ms[i] >>, p, i >> : i \in DOMAIN ms}

KeyBag(stored) == [k \in {x[1] : x \in stored} |-> Cardinality({x \in stored : x[1] = k})]

\* All of them.
StoredKeys == UNION {UNION {KeysAt(b, p) : p \in ToSet(BoxesIn(qf, b))} : b \in qf.occupieds}

\* The bag of hashed keys the slots hold.
Contents == CHOOSE bag \in {KeyBag(stored) : stored \in {StoredKeys}} : TRUE

\* The boxes of bucket b's run, each with the bucket.
LocatedIn(q, b) == [i \in DOMAIN BoxesIn(q, b) |-> [run |-> b, current |-> BoxesIn(q, b)[i]]]

\* The boxes of the buckets from b on, in order.
BoxesFrom(b) ==
    LET later(o) == {c \in qf.occupieds : c >= o}
        from[o \in Nat] ==
            IF later(o) = {} THEN << >>
            ELSE LocatedIn(qf, Min(later(o))) \o from[Min(later(o)) + 1]
    IN  from[b]

\* The boxes an iterator visits from `it` to its end.
VisitedFrom(it) ==
    LET from[i \in [run : Nat, current : Nat]] ==
            IF AtEnd(i) THEN << >> ELSE << i >> \o from[NextBox(qf, i)]
    IN  from[it]

\* Among the stored keys is one under prefix x with a memento in S.
Holds(keys, x, S) == \E k \in keys : k[1] = x[1] /\ k[2] = x[2] /\ k[3] \in S

(***************************************************************************)
(* Invariants.                                                             *)
(***************************************************************************)

\* What a filter may hold: bit vectors address physical slots, offsets fit their
\* byte and slots their bits, and the counters are naturals.
Filters ==
    [occupieds : SUBSET Buckets, runends : SUBSET Slots,
     offset : [0 .. NBlocks - 1 -> 0 .. MaxOffset],
     slots : [Slots -> 0 .. 2^BitsPerSlot - 1],
     noccupied_slots : Nat, nelts : Nat, ndistinct_elts : Nat]

TypeOK == qf \in Filters /\ ret \in Results

\* Every occupied bucket owns one run, which ends at or after the bucket, and
\* the boxes in it tile it exactly with fingerprints in increasing order, the
\* order the searches stop early on.
RunsWellFormed ==
    /\ Cardinality(qf.occupieds) = Cardinality(qf.runends)
    /\ \A b \in qf.occupieds :
         LET boxes == BoxesIn(qf, b) IN
         /\ RunendOf(qf, b) >= b
         /\ boxes[Len(boxes)] + BoxLen(qf, boxes[Len(boxes)]) - 1 = RunendOf(qf, b)
         /\ \A i \in 1 .. Len(boxes) - 1 :
              FingerprintAt(qf, boxes[i]) <= FingerprintAt(qf, boxes[i + 1])

\* The mementos of a box read back in increasing order, as lower-bound searches
\* need them.
BoxesSorted ==
    \A b \in qf.occupieds : \A p \in ToSet(BoxesIn(qf, b)) :
        LET ms == BoxMementos(qf, p) IN \A i \in 1 .. Len(ms) - 1 : ms[i] <= ms[i + 1]

\* A block's offset is the part of the table from the block's start on that
\* runs of earlier buckets spill over, cut off at MaxOffset, after any sequence
\* of insertions and removals.
OffsetsExact ==
    \A k \in 0 .. NBlocks - 1 :
        qf.offset[k] = Min({MaxOffset, Max({0, LastUsed(qf, BlockStart(k) - 1) - BlockStart(k) + 1})})

\* run_end and find_first_empty_slot, which go by the offsets even when those
\* are saturated, find the slots the bit vectors determine.
NavigationExact ==
    /\ \A b \in Buckets : RunEnd(qf, b) = Max({b, LastUsed(qf, b)})
    /\ LET empty == (Slots \ UsedSlots(qf)) \cup {EndOfBlocks} IN
       \A s \in Buckets : FindFirstEmptySlot(qf, s) = Min({e \in empty : e >= s})

\* noccupied_slots, the counter the capacity checks read, counts the slots in
\* use, although every path adds and subtracts its own estimate.
SlotsAccounted == qf.noccupied_slots = Cardinality(UsedSlots(qf))

\* A point query answers for exactly the hashed keys the filter holds: no
\* stored key is missed, and a key is only reported when one that hashes like
\* it is stored.
PointQueryExact ==
    LET keys == DOMAIN Contents IN
    \A x \in KeyPrefixes, m \in Mementos :
        PointQuery(x[1], x[2], m) <=> Holds(keys, x, {m})

\* A range query under one prefix sees exactly the stored mementos between its
\* ends, and one across prefixes those from l on under the first, those up to
\* r under the last, and anything under a prefix in between.
RangeQueryExact ==
    LET keys == DOMAIN Contents IN
    /\ \A x \in KeyPrefixes, l, r \in Mementos : l <= r =>
         (RangeQueryOnePrefix(x[1], x[2], l, r) <=> Holds(keys, x, l .. r))
    /\ \A x, y \in KeyPrefixes, l, r \in KeyMementos, middle \in {{}} \cup {{z} : z \in KeyPrefixes} :
         x # y => (RangeQuery(x, l, y, r, middle) <=>
             \/ Holds(keys, x, l .. MaxMemento)
             \/ Holds(keys, y, 0 .. r)
             \/ \E z \in middle : Holds(keys, z, Mementos))

\* A delete finds a matching box exactly for the stored keys, wherever the
\* removals and splits before it left them (qf_delete_single, occupied bucket).
DeleteFindsExact ==
    LET keys == DOMAIN Contents IN
    \A x \in KeyPrefixes, m \in Mementos : IsOccupied(qf, x[1]) =>
        (BoxToDeleteFrom(x[1], x[2], m) # NoPos <=> Holds(keys, x, {m}))

\* An iteration from the beginning, as resizing makes it, or from an occupied
\* bucket visits every box from there on once, in order, under its bucket, and
\* then ends (qf_iterator_from_position, qfi_next, qfi_end).
IterationExact ==
    \A p \in {0} \cup qf.occupieds : VisitedFrom(FromPosition(qf, p)) = BoxesFrom(p)

(***************************************************************************)
(* What the comments, assertions and checks of the repository say of it.   *)
(***************************************************************************)

\* The benchmarks alert to any false negative: every stored key is found by a
\* point query, and by the range query that contains just it.
NoFalseNegatives ==
    \A k \in DOMAIN Contents :
        PointQuery(k[1], k[2], k[3]) /\ RangeQueryOnePrefix(k[1], k[2], k[3], k[3])

\* memento.h: QF_DOESNT_EXIST, there was no matching key in the filter.
AbsentNotDeleted ==
    \A x \in KeyPrefixes, m \in KeyMementos :
        BoxToDeleteFrom(x[1], x[2], m) # NoPos => Holds(DOMAIN Contents, x, {m})

\* memento.h: qf_iterator_from_position starts at the given position, here the
\* first run from there on, and qf_iterator_by_key at a prefix hash greater than
\* or equal to the key's, here one that is not below it in bucket and
\* fingerprint alike.  In no state do both of them go wrong.
StartsAtPosition ==
    \A p \in Buckets : FromPosition(qf, p).run =
        Min({EndIterator.run} \cup {o \in qf.occupieds : o >= p})

StartsAtKey ==
    \A x \in KeyPrefixes :
        LET it == ByKey(qf, x[1], x[2]) IN
        AtEnd(it) \/ it.run > x[1] \/ FingerprintAt(qf, it.current) >= x[2]

IteratorsPositioned == StartsAtPosition \/ StartsAtKey

(***************************************************************************)
(* The filter implements the bag of hashed keys.                           *)
(***************************************************************************)

Multiset == INSTANCE PrefixMultiset WITH contents <- Contents

\* Each call does what the same call of the abstract filter does, with the same
\* arguments.
CallsImplement ==
    \E old \in {Contents}, new \in {Contents'} :
        /\ \A x \in KeyPrefixes, m \in KeyMementos :
             /\ InsertSingle(x[1], x[2], m)
                  => Multiset!Insert(Multiset!KeysUnder(x, << m >>), old, new)
             /\ DeleteSingle(x[1], x[2], m) => Multiset!Delete(Multiset!Key(x, m), old, new)
        /\ \A x \in KeyPrefixes, ms \in MementoLists :
             InsertMementos(x[1], x[2], ms) => Multiset!Insert(Multiset!KeysUnder(x, ms), old, new)
        /\ \A keys \in BulkInputs : BulkLoad(keys) => Multiset!Load(keys, old, new)
        /\ Reset => Multiset!Clear(new)

\* The filter implements the bag of hashed keys, call by call: an insertion adds
\* the keys it was given, a delete takes the key it was given and says whether
\* there was one, no other key changes, and a call that fails changes nothing.  (A
\* call that changes neither the filter nor the last result is a stuttering step.)
RefinesMultiset == Multiset!Spec /\ [][CallsImplement]_vars
==================================================================================
