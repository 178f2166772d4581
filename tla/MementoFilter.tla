----------------------------- MODULE MementoFilter -----------------------------
(***************************************************************************)
(* The operations of one Memento filter used by one thread (memento.c):    *)
(* qf_insert_single, qf_insert_mementos, qf_delete_single, qf_bulk_load,   *)
(* qf_reset, and the queries qf_point_query and qf_range_query.            *)
(*                                                                         *)
(* Keys enter hashed (QF_KEY_IS_HASH): a prefix is the <<bucket,           *)
(* fingerprint>> pair its hash addresses.  Each action is one whole call,  *)
(* with automatic resizing off.                                            *)
(***************************************************************************)
EXTENDS KeepsakeBox, Bags

CONSTANTS
    NSlots,         \* metadata->nslots, the number of buckets
    KeyPrefixes,    \* the prefixes the callers' keys hash to
    KeyMementos,    \* the mementos of the callers' keys
    MementoLists,   \* the sorted lists given to qf_insert_mementos
    BulkInputs,     \* the inputs of qf_bulk_load, sorted sequences of hashed keys
    CounterRange,   \* nelts and ndistinct_elts wrap here, 2^64 in the code
    DeletesMiss     \* whether callers delete keys whose bucket holds nothing

Buckets == 0 .. NSlots - 1

\* What qf_bulk_load asks of its input (memento.h): increasing addresses, then
\* fingerprints, then mementos.
SortedInput(keys) ==
    \A i \in 1 .. Len(keys) - 1 :
        LET k == keys[i]
            l == keys[i + 1]
        IN  \/ k[1] < l[1]
            \/ k[1] = l[1] /\ (k[2] < l[2] \/ (k[2] = l[2] /\ k[3] <= l[3]))

ASSUME FilterAssumption ==
    /\ NSlots \in Nat \ {0} /\ NSlots <= XNSlots
    /\ KeyPrefixes \subseteq Buckets \X Fingerprints
    /\ KeyMementos \subseteq Mementos
    /\ \A ms \in MementoLists : ms \in Seq(KeyMementos) /\ \A i \in 1 .. Len(ms) - 1 : ms[i] <= ms[i + 1]
    /\ \A keys \in BulkInputs :
         /\ keys \in Seq(Buckets \X Fingerprints \X KeyMementos) /\ keys # << >> /\ SortedInput(keys)
         /\ \A i \in DOMAIN keys : << keys[i][1], keys[i][2] >> \in KeyPrefixes
    /\ CounterRange \in Nat \ {0}
    /\ DeletesMiss \in BOOLEAN

VARIABLES
    qf,     \* the filter: metadata counters and blocks
    ret     \* what the last call returned

vars == << qf, ret >>

Results == {"ok", "no_space", "doesnt_exist", "aborted"}

EmptyFilter ==
    [occupieds |-> {}, runends |-> {},
     offset |-> [k \in 0 .. NBlocks - 1 |-> 0],
     slots |-> [i \in Slots |-> 0],
     noccupied_slots |-> 0, nelts |-> 0, ndistinct_elts |-> 0]

Init == qf = EmptyFilter /\ ret = "ok"

Return(result) == ret' = result /\ UNCHANGED qf

\* The check both insertions begin with: 95 % full, or no slot to spare.
AtCapacity(newSlots) ==
    \/ 100 * qf.noccupied_slots >= 95 * NSlots
    \/ qf.noccupied_slots + newSlots >= NSlots

(***************************************************************************)
(* A new box of n slots in bucket b, with the empty slots it takes given   *)
(* as runs: later stretches move first, then the slots between the         *)
(* insertion point and the first empty slot.                               *)
(***************************************************************************)

\* The cascade beyond the first empty slot, and the offsets.
RoomBehind(q, b, runs, n) ==
    BumpOffsets(ShiftInto(q, runs[1][1], runs[1][1], runs, n), b, runs, n)

InsertIndex(q, b, f, firstEmpty) ==
    IF IsOccupied(q, b) THEN UpperBound(q, RunStart(q, b), f)
    ELSE IF b = firstEmpty THEN b ELSE RunEnd(q, b) + 1

\* The near slots make way at index, in a table with room behind firstEmpty.
InsertBoxAt(q, b, firstEmpty, n, index, values) ==
    LET shifted == ShiftInto(q, index, index, << <<firstEmpty, n>> >>, n)
        runends == IF IsOccupied(q, b)
                   THEN (shifted.runends \ {RunEnd(q, b)}) \cup {RunEnd(q, b) + n}
                   ELSE shifted.runends \cup {index + n - 1}
    IN  [Write(shifted, index, values) EXCEPT
           !.runends = runends, !.occupieds = @ \cup {b},
           !.noccupied_slots = @ + n, !.ndistinct_elts = (@ + 1) % CounterRange]

InsertBox(q, b, f, runs, n, values) ==
    LET insertIn(room, first) ==
            InsertBoxAt(room, b, first, n, InsertIndex(room, b, f, first), values)
    IN  insertIn(RoomBehind(q, b, runs, n), runs[1][1])

Counted(q, n) == [q EXCEPT !.nelts = (@ + n) % CounterRange]

(***************************************************************************)
(* qf_insert_single.  A memento joins the first box of its fingerprint,    *)
(* unless that is the void fingerprint 0; otherwise it becomes a box of    *)
(* one slot, for which nothing checks that a slot below xnslots is left    *)
(* before set_slot asserts it.                                             *)
(***************************************************************************)

Joins(b, f) ==
    /\ IsOccupied(qf, b)
    /\ f # 0
    /\ NextMatching(qf, RunStart(qf, b), f) # NoPos

\* What was added with its n mementos, unless there was no room for it.
Keep(added, n) ==
    IF added.ok THEN qf' = Counted(added.qf, n) /\ ret' = "ok" ELSE Return("no_space")

InsertJoining(b, f, m) ==
    /\ Joins(b, f)
    /\ Keep(AddMemento(qf, b, NextMatching(qf, RunStart(qf, b), f), m), 1)

InsertAlone(b, f, m) ==
    LET firstEmpty == FindFirstEmptySlot(qf, b) IN
    /\ ~Joins(b, f)
    /\ IF InsertIndex(qf, b, f, firstEmpty) >= XNSlots THEN Return("aborted")
       ELSE /\ qf' = Counted(InsertBox(qf, b, f, << <<firstEmpty, 1>> >>, 1, << SlotOf(f, m) >>), 1)
            /\ ret' = "ok"

\* The call after its check of the capacity.
AddSingle(b, f, m) == InsertJoining(b, f, m) \/ InsertAlone(b, f, m)

InsertSingle(b, f, m) ==
    IF AtCapacity(1) THEN Return("no_space") ELSE AddSingle(b, f, m)

(***************************************************************************)
(* qf_insert_mementos: always a box of its own, after the boxes of the     *)
(* same fingerprint.                                                       *)
(***************************************************************************)

\* The slots insert_mementos makes room for.  The counter symbol of a list is
\* accounted for only when mementos have more than two bits.
NewSlotCount(f, ms) ==
    LET n == Len(ms)
        unary == Cardinality({d \in 1 .. MaxDigits : n - 2 >= MaxMemento^d})
        bits == 2 * BitsPerSlot
                + (n - 2 + (IF MementoBits > 2 THEN 1 ELSE 0) + 2 * unary) * MementoBits
    IN  IF f # 0 /\ n > 2 THEN (bits + BitsPerSlot - 1) \div BitsPerSlot
        ELSE IF n = 2 /\ ms[1] = ms[2] THEN 3
        ELSE n

\* insert_mementos, into the filter of a caller or into the one it grows into.
InsertPrefixSet(q, b, f, ms) ==
    LET n == NewSlotCount(f, ms)
        runs == FindEmptySlotRuns(q, b, n)
    IN  IF NoSpace(runs) THEN [ok |-> FALSE, qf |-> q]
        ELSE [ok |-> TRUE, qf |-> InsertBox(q, b, f, runs, n, PrefixSet(f, ms))]

\* The slots the check of the capacity asks for.
SlotsAskedFor(ms) == 1 + (Len(ms) + 1) \div 2

AddMementos(b, f, ms) ==
    IF ms = << >> THEN Return("ok") ELSE Keep(InsertPrefixSet(qf, b, f, ms), Len(ms))

InsertMementos(b, f, ms) ==
    IF AtCapacity(SlotsAskedFor(ms)) THEN Return("no_space") ELSE AddMementos(b, f, ms)

(***************************************************************************)
(* qf_delete_single: from the last box of the fingerprint that has the     *)
(* memento.  It does not ask whether the bucket is occupied, and it leaves *)
(* nelts and ndistinct_elts as they are.                                   *)
(***************************************************************************)

\* Faulty variant of BoxToDeleteFrom: the last matching box or none.
BoxToDeleteFromLast(b, f, m) ==
    LET boxes == MatchingBoxes(qf, RunStart(qf, b), f) IN
    IF boxes # << >> /\ Contains(BoxMementos(qf, Last(boxes)), m) THEN Last(boxes) ELSE NoPos

\* The last matching box that has the memento; NoPos when there is none.
BoxToDeleteFrom(b, f, m) ==
    LET boxes == MatchingBoxes(qf, RunStart(qf, b), f)
        having == {i \in DOMAIN boxes : Contains(BoxMementos(qf, boxes[i]), m)}
    IN  IF having = {} THEN NoPos ELSE boxes[Max(having)]

\* The slots the box at pos of bucket b no longer needs are removed.
WithoutSurplus(b, box, removed) ==
    LET surplus == removed.oldSlots - removed.newSlots IN
    IF surplus > 0
    THEN RemoveSlots(removed.qf, IsRunend(removed.qf, RunStart(qf, b)), b,
                     box + removed.newSlots, surplus)
    ELSE removed.qf

DeleteFrom(b, box, m) ==
    IF box = NoPos THEN Return("doesnt_exist")
    ELSE /\ qf' = WithoutSurplus(b, box, RemoveMemento(qf, box, m))
         /\ ret' = "ok"

DeleteSingle(b, f, m) ==
    /\ DeletesMiss \/ IsOccupied(qf, b)
    /\ DeleteFrom(b, BoxToDeleteFrom(b, f, m), m)

(***************************************************************************)
(* qf_bulk_load: box after box, closing a run when the next box belongs to *)
(* another bucket.  It writes from the first bucket on without looking at  *)
(* what is stored there.  That callers load into an empty filter is an     *)
(* assumption: the code does not ask, and memento.h does not say so.       *)
(***************************************************************************)

PrefixOf(key) == << key[1], key[2] >>

\* The keys of equal prefix, which are adjacent, as <<bucket, fingerprint, mementos>>.
BoxesOf(keys) ==
    LET starts == {i \in DOMAIN keys : i = 1 \/ PrefixOf(keys[i - 1]) # PrefixOf(keys[i])}
        start(j) == CHOOSE i \in starts : Cardinality({x \in starts : x <= i}) = j
        size(i) == Cardinality({x \in DOMAIN keys : PrefixOf(keys[x]) = PrefixOf(keys[i])})
        box(i) == << keys[i][1], keys[i][2], [j \in 1 .. size(i) |-> keys[i + j - 1][3]] >>
    IN  [j \in 1 .. Cardinality(starts) |-> box(start(j))]

\* Closing bucket b's run, whose slots end before pos; the runs before it end
\* before oldPos.
CloseRun(q, b, pos, oldPos) ==
    [q EXCEPT
       !.occupieds = @ \cup {b}, !.runends = @ \cup {pos - 1},
       !.offset = [k \in DOMAIN @ |->
          IF k \in BlockOf(b) + 1 .. BlockOf(pos - 1)
          THEN Min({@[k] + pos - Max({oldPos, BlockStart(k)}), MaxOffset}) ELSE @[k]]]

\* The filter with the boxes written, each at its bucket or after the one before.
LoadBoxes(boxes) ==
    LET n == Len(boxes)
        bucket(j) == boxes[j][1]
        values(j) == PrefixSet(boxes[j][2], boxes[j][3])
        \* [qf, pos: the next slot to write, oldPos: the end of the last closed run]
        load[j \in 0 .. n] ==
            IF j = 0 THEN [qf |-> qf, pos |-> bucket(1), oldPos |-> 0]
            ELSE LET at == Max({load[j - 1].pos, bucket(j)})
                     pos == at + Len(values(j))
                     written == [Write(load[j - 1].qf, at, values(j))
                                   EXCEPT !.noccupied_slots = @ + Len(values(j))]
                 IN  IF j = n \/ bucket(j + 1) # bucket(j)
                     THEN [qf |-> CloseRun(written, bucket(j), pos, load[j - 1].oldPos),
                           pos |-> pos, oldPos |-> pos]
                     ELSE [qf |-> written, pos |-> pos, oldPos |-> load[j - 1].oldPos]
    IN  load[n].qf

BulkLoad(keys) ==
    /\ qf.occupieds = {}
    /\ qf' = Counted(LoadBoxes(BoxesOf(keys)), Len(keys))
    /\ ret' = "ok"

\* qf_reset
Reset == qf' = EmptyFilter /\ ret' = "ok"

Next ==
    /\ ret # "aborted"
    /\ \/ \E x \in KeyPrefixes, m \in KeyMementos : InsertSingle(x[1], x[2], m)
       \/ \E x \in KeyPrefixes, ms \in MementoLists : InsertMementos(x[1], x[2], ms)
       \/ \E x \in KeyPrefixes, m \in KeyMementos : DeleteSingle(x[1], x[2], m)
       \/ \E keys \in BulkInputs : BulkLoad(keys)
       \/ Reset

Spec == Init /\ [][Next]_vars

(***************************************************************************)
(* Queries.                                                                *)
(***************************************************************************)

\* Faulty variant of QueriedBoxes: the first matching box only.
QueriedBoxesFirst(b, f) ==
    IF ~IsOccupied(qf, b) THEN {}
    ELSE {NextMatching(qf, Max({RunStart(qf, b), b}), f)} \ {NoPos}

\* The boxes a query visits: none when the bucket is not occupied.
QueriedBoxes(b, f) ==
    IF ~IsOccupied(qf, b) THEN {}
    ELSE ToSet(MatchingBoxes(qf, Max({RunStart(qf, b), b}), f))

\* What a query for memento m compares with in the box at p.
FoundInBox(p, m) == IF IsBox(qf, p) THEN LowerBoundMemento(qf, p, m) ELSE MementoAt(qf, p)

\* qf_point_query
PointQuery(b, f, m) == \E p \in QueriedBoxes(b, f) : FoundInBox(p, m) = m

\* qf_range_query whose end points share their hash.
RangeQueryOnePrefix(b, f, l, r) ==
    \E p \in QueriedBoxes(b, f) : FoundInBox(p, l) \in l .. r

\* Faulty variant of BoxMax: the second slot holds the greatest memento.
BoxMaxSecond(p) == IF IsBox(qf, p) THEN MementoAt(qf, p + 1) ELSE MementoAt(qf, p)

\* The two end slots of a box hold its least and its greatest memento.
BoxMin(p) == IF IsBox(qf, p) THEN Min({MementoAt(qf, p), MementoAt(qf, p + 1)}) ELSE MementoAt(qf, p)
BoxMax(p) == IF IsBox(qf, p) THEN Max({MementoAt(qf, p), MementoAt(qf, p + 1)}) ELSE MementoAt(qf, p)

\* qf_range_query from memento l under prefix x to memento r under prefix y,
\* with the prefixes of the keys in between in `middle`.
RangeQuery(x, l, y, r, middle) ==
    \/ \E p \in QueriedBoxes(x[1], x[2]) : l <= BoxMax(p)
    \/ \E z \in middle : QueriedBoxes(z[1], z[2]) # {}
    \/ \E p \in QueriedBoxes(y[1], y[2]) : BoxMin(p) <= r
================================================================================
