------------------------------ MODULE KeepsakeBox ------------------------------
(***************************************************************************)
(* Keepsake boxes (memento.c): how the mementos that share a fingerprint   *)
(* are laid out in slots, read back, grown by one memento and shrunk by    *)
(* one, and how a run of boxes is searched.                                *)
(*                                                                         *)
(* A slot is the integer fingerprint * 2^MementoBits + memento.  From its  *)
(* first slot `pos` a box is                                               *)
(*   one memento    (f,m)                                                  *)
(*   two, m0 < m1   (f,m0) (0,m1)                                          *)
(*   otherwise      (f,max) (0,min) and slots packed with symbols of       *)
(*                  MementoBits bits: a counter of the mementos in         *)
(*                  between, then those mementos in order.                 *)
(* A fingerprint below the one before it marks the second slot, and        *)
(* m0 >= m1 marks a list.  A box of fingerprint 0 cannot be marked that    *)
(* way, so every memento of fingerprint 0 has a slot of its own.           *)
(***************************************************************************)
EXTENDS QuotientMetadata, SequencesExt

CONSTANTS FingerprintBits, MementoBits

ASSUME BitsAssumption ==
    /\ FingerprintBits \in Nat \ {0}
    /\ MementoBits \in Nat /\ MementoBits > 1

BitsPerSlot == FingerprintBits + MementoBits
MaxMemento == 2^MementoBits - 1

Fingerprints == 0 .. 2^FingerprintBits - 1
Mementos == 0 .. MaxMemento

SlotOf(f, m) == f * 2^MementoBits + m

\* get_slot.  A slot past the blocks, where the code's assertion fails, reads as 0;
\* no state of the passing runs reads one.
SlotAt(q, i) == IF i \in DOMAIN q.slots THEN q.slots[i] ELSE 0
FingerprintAt(q, i) == SlotAt(q, i) \div 2^MementoBits
MementoAt(q, i) == SlotAt(q, i) % 2^MementoBits

\* Consecutive slots written from `pos` on; none is stored past the blocks.
Write(q, pos, values) ==
    [q EXCEPT !.slots = [j \in DOMAIN @ |->
        IF j \in pos .. pos + Len(values) - 1 THEN values[j - pos + 1] ELSE @[j]]]

(***************************************************************************)
(* Packed symbols.  APPEND_WRITE_PAYLOAD_WORD and                          *)
(* GET_NEXT_DATA_WORD_IF_EMPTY stream them low bit first; the bits after   *)
(* the last symbol are padding that nothing reads.                         *)
(***************************************************************************)

Bit(v, k) == (v \div 2^k) % 2

SlotsFor(nsymbols) == (nsymbols * MementoBits + BitsPerSlot - 1) \div BitsPerSlot

Packed(symbols) ==
    LET bit(b) == IF b \div MementoBits < Len(symbols)
                  THEN Bit(symbols[b \div MementoBits + 1], b % MementoBits) ELSE 0
        slot(j) == SumSet({bit((j - 1) * BitsPerSlot + k) * 2^k : k \in 0 .. BitsPerSlot - 1})
    IN  [j \in 1 .. SlotsFor(Len(symbols)) |-> slot(j)]

\* Symbol i of the stream that starts at slot p, which lies in one slot or in
\* two, read by a reader that leaves out one slot after the first `loaded` ones.
SymbolSkipping(q, p, loaded, i) ==
    LET slot(j) == SlotAt(q, p + j + (IF j < loaded THEN 0 ELSE 1))
        first == (i * MementoBits) \div BitsPerSlot
        both == slot(first) + slot(first + 1) * 2^BitsPerSlot
    IN  (both \div 2^((i * MementoBits) % BitsPerSlot)) % 2^MementoBits

Symbol(q, p, i) == SymbolSkipping(q, p, EndOfBlocks, i)

(***************************************************************************)
(* The counter of a list: below MaxMemento a symbol of its own; from there *)
(* on in base MaxMemento, least digit first, announced by one MaxMemento   *)
(* symbol per digit after the first.  write_prefix_set has room for        *)
(* MaxDigits fragments.                                                    *)
(***************************************************************************)

MaxDigits == 5

CounterSymbols(n) ==
    LET ndigits == Min({d \in 1 .. MaxDigits : n < MaxMemento^d} \cup {MaxDigits})
    IN  [i \in 1 .. ndigits - 1 |-> MaxMemento] \o
        [i \in 1 .. ndigits |-> (n \div MaxMemento^(i - 1)) % MaxMemento]

\* unary_count: the MaxMemento symbols a counter begins with.
UnaryCount(q, p) ==
    LET from[i \in Nat] ==
            IF i >= MaxDigits - 1 \/ Symbol(q, p, i) # MaxMemento THEN i ELSE from[i + 1]
    IN  from[0]

\* The symbols the counter takes, and what it counts.
CounterLen(q, p) == 2 * UnaryCount(q, p) + 1

ListCount(q, p) ==
    LET u == UnaryCount(q, p)
        \* the value of the digits from the k-th on
        value[k \in Nat] ==
            IF k > u THEN 0 ELSE Symbol(q, p, u + k) + MaxMemento * value[k + 1]
    IN  value[0]

\* number_of_slots_used_for_memento_list
ListSlots(q, p) == SlotsFor(CounterLen(q, p) + ListCount(q, p))

(***************************************************************************)
(* Boxes.                                                                  *)
(***************************************************************************)

\* A box of more than one memento starts at pos.
IsBox(q, pos) == ~IsRunend(q, pos) /\ FingerprintAt(q, pos) > FingerprintAt(q, pos + 1)
HasList(q, pos) == MementoAt(q, pos) >= MementoAt(q, pos + 1)

BoxLen(q, pos) ==
    IF ~IsBox(q, pos) THEN 1
    ELSE IF HasList(q, pos) THEN 2 + ListSlots(q, pos + 2) ELSE 2

ListMementos(q, p) ==
    LET counter == CounterLen(q, p) IN
    [i \in 1 .. ListCount(q, p) |-> Symbol(q, p, counter + i - 1)]

\* The mementos of the box at pos, in increasing order.
BoxMementos(q, pos) ==
    IF ~IsBox(q, pos) THEN << MementoAt(q, pos) >>
    ELSE IF HasList(q, pos)
    THEN << MementoAt(q, pos + 1) >> \o ListMementos(q, pos + 2) \o << MementoAt(q, pos) >>
    ELSE << MementoAt(q, pos), MementoAt(q, pos + 1) >>

\* write_prefix_set: the slots that hold the sorted mementos ms of fingerprint f.
PrefixSet(f, ms) ==
    LET n == Len(ms) IN
    IF n <= 1 \/ f = 0 THEN [i \in 1 .. n |-> SlotOf(f, ms[i])]
    ELSE IF n = 2 /\ ms[1] # ms[2] THEN << SlotOf(f, ms[1]), ms[2] >>
    ELSE IF n = 2 THEN << SlotOf(f, ms[1]), ms[2], 0 >>
    ELSE << SlotOf(f, ms[n]), ms[1] >> \o Packed(CounterSymbols(n - 2) \o SubSeq(ms, 2, n - 1))

(***************************************************************************)
(* Room for a growing box.  Both routines open slots at pos inside or      *)
(* right after the box, whose runend moves along when it sits at pos - 1.  *)
(***************************************************************************)

\* Faulty variant of OpenSlots: a call accounts for one slot.
OpenSlotsCountingOne(q, bucket, pos, runs, n) ==
    IF NoSpace(runs) THEN [ok |-> FALSE, qf |-> q]
    ELSE [ok |-> TRUE,
          qf |-> [BumpOffsets(ShiftInto(q, pos, pos - 1, runs, n), bucket, runs, n)
                    EXCEPT !.noccupied_slots = @ + 1]]

OpenSlots(q, bucket, pos, runs, n) ==
    IF NoSpace(runs) THEN [ok |-> FALSE, qf |-> q]
    ELSE [ok |-> TRUE,
          qf |-> [BumpOffsets(ShiftInto(q, pos, pos - 1, runs, n), bucket, runs, n)
                    EXCEPT !.noccupied_slots = @ + n]]

\* make_empty_slot_for_memento_list
MakeEmptySlot(q, bucket, pos) ==
    OpenSlots(q, bucket, pos, << <<FindFirstEmptySlot(q, pos), 1>> >>, 1)

\* make_n_empty_slots_for_memento_list
MakeNEmptySlots(q, bucket, pos, n) ==
    OpenSlots(q, bucket, pos, FindEmptySlotRuns(q, pos, n), n)

(***************************************************************************)
(* add_memento_to_sorted_list                                              *)
(***************************************************************************)

\* Faulty variant of SortedInsert: a memento between the ends goes to the second
\* place.
SortedInsertAfterHead(ms, m) ==
    IF ms[1] < m /\ m < Last(ms) THEN << ms[1], m >> \o Tail(ms)
    ELSE LET below == SelectSeq(ms, LAMBDA x : x <= m) IN
         below \o << m >> \o SubSeq(ms, Len(below) + 1, Len(ms))

\* Faulty variant of SortedInsert: a pair becomes a list with a copy of its head
\* in place of the new memento.
SortedInsertOldHead(ms, m) ==
    LET new == IF Len(ms) = 2 THEN ms[1] ELSE m
        below == SelectSeq(ms, LAMBDA x : x <= new)
    IN  below \o << new >> \o SubSeq(ms, Len(below) + 1, Len(ms))

SortedInsert(ms, m) ==
    LET below == SelectSeq(ms, LAMBDA x : x <= m) IN
    below \o << m >> \o SubSeq(ms, Len(below) + 1, Len(ms))

\* Faulty variant of ExtraSlots: no room for the longer counter.
ExtraSlotsFixedCounter(q, p) ==
    LET old == CounterLen(q, p) + ListCount(q, p) IN SlotsFor(old + 1) - SlotsFor(old)

\* The slots a list at p needs on top of those it has, to take one memento more.
ExtraSlots(q, p) ==
    LET old == CounterLen(q, p) + ListCount(q, p)
        counterOverflow == ListCount(q, p) + 1 = MaxMemento^(UnaryCount(q, p) + 1)
    IN  SlotsFor(old + 1 + IF counterOverflow THEN 2 ELSE 0) - SlotsFor(old)

\* The slot after the last one the list was read from, as `ind` counts it.
ListInsertIndex(q, p) ==
    p + ((CounterLen(q, p) - 1 + ListCount(q, p)) * MementoBits) \div BitsPerSlot + 1

\* The room that one branch or another makes for the longer box.
RoomToGrow(q, bucket, pos, m) ==
    IF ~IsBox(q, pos)
    THEN IF m = MementoAt(q, pos) THEN MakeNEmptySlots(q, bucket, pos + 1, 2)
         ELSE MakeEmptySlot(q, bucket, pos + 1)
    ELSE IF ~HasList(q, pos)
    THEN IF BitsPerSlot < 2 * MementoBits THEN MakeNEmptySlots(q, bucket, pos + 1, 2)
         ELSE MakeEmptySlot(q, bucket, pos + 2)
    ELSE IF ExtraSlots(q, pos + 2) = 0 THEN [ok |-> TRUE, qf |-> q]
    ELSE MakeNEmptySlots(q, bucket, ListInsertIndex(q, pos + 2), ExtraSlots(q, pos + 2))

AddMemento(q, bucket, pos, m) ==
    LET new == PrefixSet(FingerprintAt(q, pos), SortedInsert(BoxMementos(q, pos), m))
        \* the list branch does not look at the result of making room
        ignored == IsBox(q, pos) /\ HasList(q, pos)
        grown(room) == IF room.ok \/ ignored
                       THEN [ok |-> TRUE, qf |-> Write(room.qf, pos, new)]
                       ELSE [ok |-> FALSE, qf |-> q]
    IN  grown(RoomToGrow(q, bucket, pos, m))

(***************************************************************************)
(* remove_mementos_from_prefix_set for one memento the box has: the box    *)
(* shrinks in place to its first newSlots slots.                           *)
(***************************************************************************)

ShrinkTo(q, pos, slots) ==
    [qf |-> Write(q, pos, slots), oldSlots |-> BoxLen(q, pos), newSlots |-> Len(slots)]

\* Faulty variant of RemoveMemento: the memento after it goes, when there is one.
RemoveMementoNext(q, pos, m) ==
    LET ms == BoxMementos(q, pos)
        i == SelectInSeq(ms, LAMBDA x : x = m)
    IN  ShrinkTo(q, pos, PrefixSet(FingerprintAt(q, pos), RemoveAt(ms, Min({i + 1, Len(ms)}))))

RemoveMemento(q, pos, m) ==
    ShrinkTo(q, pos, PrefixSet(FingerprintAt(q, pos), RemoveFirst(BoxMementos(q, pos), m)))

(***************************************************************************)
(* Searching a run.                                                        *)
(***************************************************************************)

NoPos == -1

\* next_matching_fingerprint_in_run.  Fingerprints increase along a run, so a
\* larger one ends the search.
NextMatching(q, pos, f) ==
    LET next[i \in Nat] ==
            IF i >= EndOfBlocks \/ f < FingerprintAt(q, i) THEN NoPos
            ELSE IF f = FingerprintAt(q, i) THEN i
            ELSE IF IsRunend(q, i + BoxLen(q, i) - 1) THEN NoPos
            ELSE next[i + BoxLen(q, i)]
    IN  next[pos]

\* The boxes a caller's search loop visits from pos on, first to last.
MatchingBoxes(q, pos, f) ==
    LET from[i \in Nat] ==
            LET visit(p) ==
                    IF p = NoPos THEN << >>
                    ELSE IF IsRunend(q, p + BoxLen(q, p) - 1) THEN << p >>
                    ELSE << p >> \o from[p + BoxLen(q, p)]
            IN  visit(NextMatching(q, i, f))
    IN  from[pos]

\* upper_bound_fingerprint_in_run: the first box of a larger fingerprint, or
\* the slot after the run.
UpperBound(q, pos, f) ==
    LET bound[i \in Nat] ==
            IF i >= EndOfBlocks \/ f < FingerprintAt(q, i) THEN i
            ELSE IF IsRunend(q, i + BoxLen(q, i) - 1) THEN i + BoxLen(q, i)
            ELSE bound[i + BoxLen(q, i)]
    IN  bound[pos]

\* lower_bound_mementos_for_fingerprint: the least memento of the box that is
\* not below the target, or else its largest.  After an extended counter the
\* position already is the next slot to read, and the loop steps over it.
LowerBoundMemento(q, pos, target) ==
    LET min == Min({MementoAt(q, pos), MementoAt(q, pos + 1)})
        max == Max({MementoAt(q, pos), MementoAt(q, pos + 1)})
        counter == CounterLen(q, pos + 2)
        loaded == IF counter = 1 THEN EndOfBlocks ELSE SlotsFor(counter)
        listed == [i \in 1 .. ListCount(q, pos + 2) |->
                     SymbolSkipping(q, pos + 2, loaded, counter + i - 1)]
        found == SelectInSeq(listed, LAMBDA x : target <= x)
    IN  IF target <= min THEN min
        ELSE IF ~HasList(q, pos) \/ max <= target \/ found = 0 THEN max
        ELSE listed[found]
================================================================================
