---------------------------- MODULE MementoIterator ----------------------------
(***************************************************************************)
(* Iterators over the keepsake boxes of a filter (memento.c): where        *)
(* qf_iterator_from_position and qf_iterator_by_key put one, what qfi_get  *)
(* reads there, and how qfi_next moves it on.  An iterator is its fields   *)
(* `run`, the bucket whose run it is in, and `current`, the first slot of  *)
(* its box.                                                                *)
(***************************************************************************)
EXTENDS MementoFilter

\* qfi_end
AtEnd(it) == it.current >= XNSlots

EndIterator == [run |-> XNSlots, current |-> XNSlots]

\* The first box of occupied bucket b.
AtRun(q, b) == [run |-> b, current |-> Max({b, RunStart(q, b)})]

\* The first occupied bucket of block k or of a later one.  Both searches read
\* one block past the last when there is none, and end.
AtFirstRunFrom(q, k) ==
    LET later == {o \in q.occupieds : o >= BlockStart(k)}
    IN  IF later = {} THEN EndIterator ELSE AtRun(q, Min(later))

\* qf_iterator_from_position, which takes the position for a block number when
\* no run starts there.  Nothing is promised past the last block.
FromPosition(q, position) ==
    IF IsOccupied(q, position) THEN AtRun(q, position) ELSE AtFirstRunFrom(q, position)

\* lower_bound_fingerprint_in_run: the first box of this fingerprint or a larger
\* one, or the slot after the run.
LowerBoundFingerprint(q, pos, f) ==
    LET bound[i \in Nat] ==
            IF i >= EndOfBlocks \/ f <= FingerprintAt(q, i) THEN i
            ELSE IF IsRunend(q, i + BoxLen(q, i) - 1) THEN i + BoxLen(q, i)
            ELSE bound[i + BoxLen(q, i)]
    IN  bound[pos]

\* What qf_iterator_by_key looks for: the fingerprint with a bit above it.
SoughtFingerprint(f) == f + 2^FingerprintBits

FoundInRun(q, b, f) ==
    LET start == Max({b, RunStart(q, b)})
        match == NextMatching(q, start, SoughtFingerprint(f))
        pos == IF match = NoPos THEN LowerBoundFingerprint(q, start, SoughtFingerprint(f)) ELSE match
    IN  pos <= RunEnd(q, b)

\* qf_iterator_by_key
ByKey(q, b, f) ==
    IF IsOccupied(q, b) /\ FoundInRun(q, b, f) THEN AtRun(q, b)
    ELSE AtFirstRunFrom(q, BlockOf(b))

\* qfi_get: the prefix and the mementos of the box.
GetBox(q, it) ==
    [bucket |-> it.run, fingerprint |-> FingerprintAt(q, it.current),
     mementos |-> BoxMementos(q, it.current)]

\* Faulty variant of NextBox: the next run begins right behind this one.
NextBoxAdjacent(q, it) ==
    LET last == it.current + BoxLen(q, it.current) - 1
        later == {o \in q.occupieds : o > it.run}
    IN  IF ~IsRunend(q, last) THEN [it EXCEPT !.current = last + 1]
        ELSE IF later = {} THEN EndIterator
        ELSE [run |-> Min(later), current |-> last + 1]

\* qfi_next: the next box of the run, or the first one of the next run.
NextBox(q, it) ==
    LET last == it.current + BoxLen(q, it.current) - 1
        later == {o \in q.occupieds : o > it.run}
    IN  IF ~IsRunend(q, last) THEN [it EXCEPT !.current = last + 1]
        ELSE IF later = {} THEN EndIterator
        ELSE [run |-> Min(later), current |-> Max({last + 1, Min(later)})]
================================================================================
