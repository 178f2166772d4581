---------------------------- MODULE QuotientMetadata ----------------------------
(***************************************************************************)
(* The slot table of the Memento filter and its metadata (memento.c): the  *)
(* occupieds and runends bit vectors, the per-block spill offsets, and the *)
(* navigation, gap-opening and slot-removal routines every operation is    *)
(* built from.  The operators are pure: they take the record the C code    *)
(* reaches through `QF *qf` and return a value or the updated record.      *)
(*                                                                         *)
(* A bit vector is the set of its set positions.  A block's occupieds and  *)
(* runends words are the parts of the sets that fall in that block, so the *)
(* word-by-word loops of bitrank, bitselectv and shift_into_b become       *)
(* counting, selecting and moving in the whole set.                        *)
(***************************************************************************)
EXTENDS Integers, Sequences, FiniteSets, FiniteSetsExt, TLC

CONSTANTS
    SlotsPerBlock,  \* QF_SLOTS_PER_BLOCK, 64 in the code
    MaxOffset,      \* the value at which a block's uint8_t offset saturates, 255
    XNSlots         \* metadata->xnslots, the slots the table may use

\* A saturated offset must still cover its whole block (255 >= 64): otherwise
\* offset_lower_bound would read runends below the spill.
ASSUME GeometryAssumption ==
    /\ SlotsPerBlock \in Nat \ {0}
    /\ MaxOffset \in Nat /\ MaxOffset >= SlotsPerBlock
    /\ XNSlots \in Nat \ {0}

NBlocks == (XNSlots + SlotsPerBlock - 1) \div SlotsPerBlock

\* The slots the blocks physically hold; those from XNSlots on are allocated,
\* but get_slot and set_slot assert that they are never used.
EndOfBlocks == NBlocks * SlotsPerBlock
Slots == 0 .. EndOfBlocks - 1

BlockOf(i) == i \div SlotsPerBlock
BlockStart(k) == k * SlotsPerBlock

IsRunend(q, i) == i \in q.runends
IsOccupied(q, b) == b \in q.occupieds

(***************************************************************************)
(* Rank and select.                                                        *)
(***************************************************************************)

\* bitrank: the occupied buckets of b's block up to and including b.
Rank(q, b) == Cardinality({o \in q.occupieds : BlockStart(BlockOf(b)) <= o /\ o <= b})

\* bitselectv, continued over the following blocks as run_end's loop does: the
\* rank-th runend (from 1) at or after `from`.  The end of the blocks stands
\* for a runend that is missing.
SelectRunend(q, from, rank) ==
    LET ends == {e \in q.runends : from <= e}
        nth(e) == Cardinality({x \in ends : x <= e}) = rank
    IN  IF \E e \in ends : nth(e) THEN CHOOSE e \in ends : nth(e) ELSE EndOfBlocks

\* Faulty variant of RunEndFrom: a spill that ends just before bucket b is taken
\* to cover it.
RunEndFromStrict(q, b, spill) ==
    LET base == BlockStart(BlockOf(b))
        rank == Rank(q, b)
    IN  IF rank = 0
        THEN IF spill < b - base THEN b ELSE base + spill - 1
        ELSE Max({b, SelectRunend(q, base + spill, rank)})

\* run_end once the offset of the bucket's block is known.
RunEndFrom(q, b, spill) ==
    LET base == BlockStart(BlockOf(b))
        rank == Rank(q, b)
    IN  IF rank = 0
        THEN IF spill <= b - base THEN b ELSE base + spill - 1
        ELSE Max({b, SelectRunend(q, base + spill, rank)})

\* block_offset: a saturated offset is recomputed from the preceding block.
BlockOffset(q) ==
    LET spill[k \in 0 .. NBlocks - 1] ==
            IF q.offset[k] < MaxOffset \/ k = 0
            THEN q.offset[k]
            ELSE RunEndFrom(q, BlockStart(k) - 1, spill[k - 1]) - BlockStart(k) + 1
    IN  spill

RunEnd(q, b) == RunEndFrom(q, b, BlockOffset(q)[BlockOf(b)])

\* The slot after the run that precedes bucket b's run.
RunStart(q, b) == IF b = 0 THEN 0 ELSE RunEnd(q, b - 1) + 1

(***************************************************************************)
(* Empty slots.                                                            *)
(***************************************************************************)

\* offset_lower_bound: at least this many slots from s on are in use.
OffsetLowerBound(q, s) ==
    LET base == BlockStart(BlockOf(s))
        boffset == q.offset[BlockOf(s)]
        occupieds == {o \in q.occupieds : base <= o /\ o <= s}
        runends == {e \in q.runends : base + boffset <= e /\ e < s}
    IN  IF boffset <= s - base
        THEN Cardinality(occupieds) - Cardinality(runends)
        ELSE boffset - (s - base) + Cardinality(occupieds)

\* find_first_empty_slot.  Past the last block there is no metadata to read;
\* the search ends there.
FindFirstEmptySlot(q, from) ==
    LET find[s \in Nat] ==
            IF s >= EndOfBlocks \/ OffsetLowerBound(q, s) <= 0
            THEN s ELSE find[s + OffsetLowerBound(q, s)]
    IN  find[from]

\* get_number_of_consecutive_empty_slots: from an empty slot on, the slots stay
\* empty up to the next occupied bucket.
ConsecutiveEmptySlots(q, s, goal) ==
    Min({goal} \cup {o - s : o \in {x \in q.occupieds : s <= x}})

\* find_next_empty_slot_runs_of_size_n: n empty slots as <<position, length>>
\* runs.  Reaching the end of the table appends a run that starts there.
FindEmptySlotRuns(q, from, n) ==
    LET \* from slot x[1] on, x[2] slots
        runs[x \in Nat \X Nat] ==
            LET claimed(first, len) ==
                    << <<first, len>> >> \o
                    (IF first + len >= XNSlots
                     THEN << <<first + len, 1>> >> ELSE runs[<< first + len, x[2] - len >>])
                claim(first) == claimed(first, ConsecutiveEmptySlots(q, first, x[2]))
            IN  IF x[2] = 0 THEN << >> ELSE claim(FindFirstEmptySlot(q, x[1]))
    IN  runs[<< from, n >>]

\* The callers' test on the last run: the data does not fit in xnslots.
NoSpace(runs) ==
    LET end == runs[Len(runs)] IN end[1] + end[2] - 1 >= XNSlots

(***************************************************************************)
(* Opening a gap.  shift_slots and shift_runends, called for each stretch  *)
(* between two empty runs from the last one down, move every slot right by *)
(* the number of claimed empty slots that follow it.                       *)
(***************************************************************************)

EmptySlotsOf(runs) == UNION {r[1] .. r[1] + r[2] - 1 : r \in {runs[j] : j \in DOMAIN runs}}

\* Slots move from `pos` on, runends from `rpos` on.
ShiftInto(q, pos, rpos, runs, n) ==
    LET empty == EmptySlotsOf(runs)
        top == Max(empty)
        target(i) == i + n - Cardinality({e \in empty : e < i})
        moving == {i \in pos .. top : i \notin empty}
        movedTo == {target(i) : i \in moving}
        source(j) == CHOOSE i \in moving : target(i) = j
        movedRunends == {e \in q.runends : rpos <= e /\ e <= top /\ e \notin empty}
    IN  [q EXCEPT !.slots = [j \in DOMAIN @ |-> IF j \in movedTo THEN @[source(j)] ELSE @[j]],
                  !.runends = (@ \ movedRunends) \cup {target(e) : e \in movedRunends}]

\* Faulty variant of BumpOffsets: every later block gains all n slots.
BumpOffsetsByAll(q, bucket, runs, n) ==
    [q EXCEPT !.offset = [k \in DOMAIN @ |->
        IF k \in BlockOf(bucket) + 1 .. BlockOf(Max(EmptySlotsOf(runs)))
        THEN Min({@[k] + n, MaxOffset}) ELSE @[k]]]

\* Faulty variant of BumpOffsets: offsets do not saturate.
BumpOffsetsUnbounded(q, bucket, runs, n) ==
    LET empty == EmptySlotsOf(runs) IN
    [q EXCEPT !.offset = [k \in DOMAIN @ |->
        IF k \in BlockOf(bucket) + 1 .. BlockOf(Max(empty))
        THEN @[k] + n - Cardinality({e \in empty : e < BlockStart(k)}) ELSE @[k]]]

\* The offset updates that follow: a later block spills more by the claimed
\* slots that do not precede it, up to saturation.
BumpOffsets(q, bucket, runs, n) ==
    LET empty == EmptySlotsOf(runs)
        preceding(k) == Cardinality({e \in empty : e < BlockStart(k)})
        bumped == BlockOf(bucket) + 1 .. BlockOf(Max(empty))
    IN  [q EXCEPT !.offset = [k \in DOMAIN @ |->
            IF k \in bumped THEN Min({@[k] + n - preceding(k), MaxOffset}) ELSE @[k]]]

(***************************************************************************)
(* remove_slots_and_shift_remainders_and_runends_and_offsets.              *)
(***************************************************************************)

\* The last slot of the cluster, walking the runs from the one of bucket b,
\* which ends at or after slot s.
ClusterEnd(q, b, s) ==
    LET runend(i) == Min({e \in q.runends : e >= i} \cup {EndOfBlocks - 1})
        next(c) == {o \in q.occupieds : o > c}
        \* from bucket x[1], whose run ends at x[2]
        walk[x \in Nat \X Nat] ==
            LET e == x[2] IN
            IF next(x[1]) = {} \/ e >= EndOfBlocks - 1 THEN e
            ELSE IF Min(next(x[1])) > e THEN e ELSE walk[<< Min(next(x[1])), runend(e + 1) >>]
    IN  walk[<< b, runend(s) >>]

\* Faulty variant of RemoveSlot: the runend of the removed slot stays.
RemoveSlotOnly(q, i, last) ==
    LET left(j) == IF j = last THEN 0 ELSE q.slots[j + 1]
        movedRunends == {e \in q.runends : i < e /\ e <= last}
    IN  [q EXCEPT !.slots = [j \in DOMAIN @ |-> IF j \in i .. last THEN left(j) ELSE @[j]],
                  !.runends = (@ \ movedRunends) \cup {e - 1 : e \in movedRunends}]

\* One turn of the removal loop: the rest of the cluster moves left over `i`.
RemoveSlot(q, i, last) ==
    LET left(j) == IF j = last THEN 0 ELSE q.slots[j + 1]
        movedRunends == {e \in q.runends : i < e /\ e <= last}
    IN  [q EXCEPT !.slots = [j \in DOMAIN @ |-> IF j \in i .. last THEN left(j) ELSE @[j]],
                  !.runends = ((@ \ movedRunends) \ {i}) \cup {e - 1 : e \in movedRunends}]

\* The offsets of the blocks the cluster reached, recomputed in order: each one
\* from the offsets before it.
RecomputeOffsets(q, bucket, lastSlot) ==
    LET first == BlockOf(bucket)
        spill(p, k) == RunEnd(p, BlockStart(k) - 1) - (BlockStart(k) - 1)
        last == BlockOf(lastSlot)
        upTo[k \in first .. last] ==
            IF k = first THEN q
            ELSE [upTo[k - 1] EXCEPT !.offset[k] = Min({spill(upTo[k - 1], k), MaxOffset})]
    IN  upTo[last]

RemoveSlots(q, onlyItemInRun, bucket, index, length) ==
    LET wasRunend == IsRunend(q, index + length - 1)
        start == IF wasRunend /\ ~onlyItemInRun
                 THEN [q EXCEPT !.runends = @ \cup {index - 1}] ELSE q
        \* the last slot of the cluster when `left` slots are still to be removed
        last(p, left) == ClusterEnd(p, bucket, index + left - 1)
        removed[k \in 0 .. length] ==
            IF k = 0 THEN start
            ELSE RemoveSlot(removed[k - 1], index, last(removed[k - 1], length - k + 1))
        cleared == IF onlyItemInRun
                   THEN [removed[length] EXCEPT !.occupieds = @ \ {bucket}] ELSE removed[length]
    IN  [RecomputeOffsets(cleared, bucket, last(start, length))
           EXCEPT !.noccupied_slots = @ - length]
=================================================================================
