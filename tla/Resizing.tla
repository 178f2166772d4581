-------------------------------- MODULE Resizing --------------------------------
(***************************************************************************)
(* A Memento filter that grows (memento.c): qf_resize_malloc copies it box *)
(* by box into one with twice the buckets, which takes its place; with     *)
(* automatic resizing an insertion that finds the filter at capacity does  *)
(* that first.                                                             *)
(*                                                                         *)
(* Doubling moves one bit of every hash from the fingerprint to the bucket *)
(* index.  Filter(d) is the filter after d doublings.  Callers name a key  *)
(* by its full hash h and its memento, whatever the size.                  *)
(***************************************************************************)
EXTENDS Addressing, Sequences, FiniteSets, Bags

CONSTANTS
    SlotsPerBlock, MaxOffset, MementoBits, CounterRange, DeletesMiss,   \* as in MementoFilter
    NSlots,             \* the buckets before any doubling modelled here
    XNSlotsAfter,       \* xnslots after so many doublings
    MaxDoublings,       \* bound: resizing stops here
    MaxDoubledSlots,    \* bound: insertions into the largest filter stop here
    KeyHashes,          \* the hashes of the callers' keys, reduced to original buckets
    KeyMementos,        \* and their mementos
    MementoLists,       \* the sorted lists given to qf_insert_mementos
    HashedInputs        \* the inputs of qf_bulk_load, sequences of <<hash, memento>>

VARIABLES
    qf,             \* the filter the callers have
    ret,            \* what the last call returned
    doublings,      \* how often it has been resized
    pc,             \* "idle", or where qf_resize_malloc or its caller is:
                    \* "copy" in the loop, "swap" behind it, "insert" after it
    call,           \* the call that is under way
    new_qf,         \* the filter qf_resize_malloc fills
    qfi,            \* its iterator over qf
    ret_numkeys     \* the keys it has copied

resizeVars == << doublings, pc, call, new_qf, qfi, ret_numkeys >>
vars == << qf, ret, resizeVars >>

(***************************************************************************)
(* Hashes and the filter at every size.                                    *)
(***************************************************************************)

\* Faulty variant of BoxHash: the bucket is taken for the low bits of the hash.
BoxHashUnextended(box, d) == box.bucket + box.fingerprint * NSlots * 2^d

BoxHash(box, d) == HashAt(box.bucket, box.fingerprint, d)

Addresses(d) == {Address(h, d) : h \in KeyHashes}

AddressedInput(keys, d) ==
    [i \in DOMAIN keys |-> Address(keys[i][1], d) \o << keys[i][2] >>]

ASSUME ResizingAssumption ==
    /\ MaxDoublings \in Nat
    /\ NSlots \in Nat
    /\ XNSlotsAfter \in [0 .. MaxDoublings -> Nat]
    /\ MaxDoublings < FingerprintBits
    /\ NSlots = 2^OrigQuotientBits * 2^Extension
    /\ KeyHashes \subseteq Hashes

Filter(d) == INSTANCE MementoFilterProperties WITH
    NSlots <- NSlots * 2^d, XNSlots <- XNSlotsAfter[d],
    FingerprintBits <- FingerprintBits - d, KeyPrefixes <- Addresses(d),
    BulkInputs <- {AddressedInput(keys, d) : keys \in HashedInputs}

\* The same reading of the filter that is being filled.
NewFilter(d) == INSTANCE MementoFilterProperties WITH
    NSlots <- NSlots * 2^d, XNSlots <- XNSlotsAfter[d],
    FingerprintBits <- FingerprintBits - d, KeyPrefixes <- Addresses(d),
    BulkInputs <- {AddressedInput(keys, d) : keys \in HashedInputs}, qf <- new_qf

Init ==
    /\ qf = Filter(0)!EmptyFilter
    /\ ret = "ok"
    /\ doublings = 0
    /\ pc = "idle"
    /\ call = [op |-> "none"]
    /\ new_qf = << >>
    /\ qfi = << >>
    /\ ret_numkeys = 0

(***************************************************************************)
(* qf_resize_malloc                                                        *)
(***************************************************************************)

\* A new empty filter, and an iterator at the start of the old one.
StartResize(d, c) ==
    /\ d < MaxDoublings
    /\ pc' = "copy"
    /\ call' = c
    /\ new_qf' = Filter(d + 1)!EmptyFilter
    /\ qfi' = Filter(d)!FromPosition(qf, 0)
    /\ ret_numkeys' = 0
    /\ UNCHANGED << qf, ret, doublings >>

\* qf_resize_malloc is over, and with it a call of it by the user; after an
\* automatic one the insertion goes on.
EndResize(result) ==
    /\ IF call.op = "resize"
       THEN pc' = "idle" /\ call' = [op |-> "none"] /\ ret' = result
       ELSE pc' = "insert" /\ UNCHANGED << call, ret >>
    /\ new_qf' = << >>
    /\ qfi' = << >>
    /\ ret_numkeys' = 0

\* It returns before it touches the old filter.
GiveUp == EndResize("no_space") /\ UNCHANGED << qf, doublings >>

\* The box has gone into the new filter, unless it had no room.
Copied(added, n, next, ended) ==
    IF ~added.ok THEN GiveUp
    ELSE /\ new_qf' = added.qf
         /\ qfi' = next
         /\ ret_numkeys' = ret_numkeys + n
         /\ pc' = IF ended THEN "swap" ELSE "copy"
         /\ UNCHANGED << qf, ret, doublings, call >>

CopyTo(d, x, mementos, next) ==
    Copied(Filter(d + 1)!InsertPrefixSet(new_qf, x[1], x[2], mementos),
           Len(mementos), next, Filter(d)!AtEnd(next))

\* One turn of the loop.  In an empty filter qfi_get returns QFI_INVALID, which
\* is taken for a number of mementos no filter has room for.
CopyBox(d) ==
    /\ pc = "copy"
    /\ IF Filter(d)!AtEnd(qfi) THEN GiveUp
       ELSE LET box == Filter(d)!GetBox(qf, qfi) IN
            CopyTo(d, Address(BoxHash(box, d), d + 1),
                   box.mementos, Filter(d)!NextBox(qf, qfi))

\* The new filter takes the place of the old one.
Swap ==
    /\ pc = "swap"
    /\ qf' = new_qf
    /\ doublings' = doublings + 1
    /\ EndResize("copied")

(***************************************************************************)
(* The calls.  Whether automatic resizing is on is the caller's choice     *)
(* before each of them (qf_set_auto_resize).  After it the insertion goes  *)
(* on, whatever came of it and however full the filter now is.             *)
(***************************************************************************)

AtBound(d) == d = MaxDoublings /\ qf.noccupied_slots >= MaxDoubledSlots

Unless(d, full, c, insertion) ==
    /\ ~AtBound(d)
    /\ IF full THEN (Filter(d)!Return("no_space") /\ UNCHANGED resizeVars) \/ StartResize(d, c)
       ELSE insertion /\ UNCHANGED resizeVars

InsertSingle(d, h, m) ==
    LET x == Address(h, d) IN
    Unless(d, Filter(d)!AtCapacity(1), [op |-> "insert_single", hash |-> h, memento |-> m],
           Filter(d)!AddSingle(x[1], x[2], m))

InsertMementos(d, h, ms) ==
    LET x == Address(h, d) IN
    Unless(d, Filter(d)!AtCapacity(Filter(d)!SlotsAskedFor(ms)),
           [op |-> "insert_mementos", hash |-> h, mementos |-> ms],
           Filter(d)!AddMementos(x[1], x[2], ms))

\* The insertion that waited for the resizing.
ResumeInsertion(d) ==
    LET x == Address(call.hash, d) IN
    /\ pc = "insert"
    /\ IF call.op = "insert_single"
       THEN Filter(d)!AddSingle(x[1], x[2], call.memento)
       ELSE Filter(d)!AddMementos(x[1], x[2], call.mementos)
    /\ pc' = "idle"
    /\ call' = [op |-> "none"]
    /\ UNCHANGED << doublings, new_qf, qfi, ret_numkeys >>

DeleteSingle(d, h, m) ==
    LET x == Address(h, d) IN
    Filter(d)!DeleteSingle(x[1], x[2], m) /\ UNCHANGED resizeVars

\* Callers sort the input as the filter addresses it.
BulkLoad(d, keys) ==
    LET input == AddressedInput(keys, d) IN
    /\ \A i \in 1 .. Len(input) - 1 :
         input[i][1] * 2^FingerprintBits + input[i][2]
             <= input[i + 1][1] * 2^FingerprintBits + input[i + 1][2]
    /\ Filter(d)!BulkLoad(input)
    /\ UNCHANGED resizeVars

Reset(d) == Filter(d)!Reset /\ UNCHANGED resizeVars

Call(d) ==
    /\ pc = "idle"
    /\ \/ \E h \in KeyHashes, m \in KeyMementos : InsertSingle(d, h, m)
       \/ \E h \in KeyHashes, ms \in MementoLists : InsertMementos(d, h, ms)
       \/ \E h \in KeyHashes, m \in KeyMementos : DeleteSingle(d, h, m)
       \/ \E keys \in HashedInputs : BulkLoad(d, keys)
       \/ Reset(d)
       \/ StartResize(d, [op |-> "resize"])

Resume(d) == CopyBox(d) \/ Swap \/ ResumeInsertion(d)

Next == ret # "aborted" /\ \E d \in {doublings} : Call(d) \/ Resume(d)

Spec == Init /\ [][Next]_vars

(***************************************************************************)
(* Properties.                                                             *)
(***************************************************************************)

\* A key <<bucket, fingerprint, memento>> of one size as the other has it.
Readdressed(k, from, to) == Address(HashAt(k[1], k[2], from), to) \o << k[3] >>

\* The bag of keys of a filter after d doublings, addressed as before them.
AsBefore(bag, d) ==
    [k \in {Readdressed(j, d, 0) : j \in DOMAIN bag} |-> bag[Readdressed(k, 0, d)]]

\* The bag of keys the callers have stored.
Stored ==
    CHOOSE stored \in UNION {{AsBefore(bag, d) : bag \in {Filter(d)!Contents}} : d \in {doublings}} : TRUE

Multiset == INSTANCE PrefixMultiset WITH
    contents <- Stored, KeyPrefixes <- Addresses(0),
    BulkInputs <- {AddressedInput(keys, 0) : keys \in HashedInputs}

\* The keys that the call under way, an insertion, is to add.
PendingKeys ==
    Multiset!KeysUnder(Address(call.hash, 0),
        IF call.op = "insert_single" THEN << call.memento >> ELSE call.mementos)

\* Each call does what the same call of the abstract filter does, with the same
\* arguments; one that resizes first does it when it returns, with the arguments
\* it had, and changes no key until then.
CallsImplement ==
    \E d \in {doublings}, old \in {Stored}, new \in {Stored'} :
        LET inserts(keys) ==
                IF pc' = "idle" THEN Multiset!Insert(keys, old, new)
                ELSE new = old /\ PendingKeys' = keys
            prefix(h) == Address(h, 0)
        IN  IF pc = "idle"
            THEN /\ \A h \in KeyHashes, m \in KeyMementos :
                      /\ InsertSingle(d, h, m) => inserts(Multiset!KeysUnder(prefix(h), << m >>))
                      /\ DeleteSingle(d, h, m)
                           => Multiset!Delete(Multiset!Key(prefix(h), m), old, new)
                 /\ \A h \in KeyHashes, ms \in MementoLists :
                      InsertMementos(d, h, ms) => inserts(Multiset!KeysUnder(prefix(h), ms))
                 /\ \A keys \in HashedInputs :
                      BulkLoad(d, keys) => Multiset!Load(AddressedInput(keys, 0), old, new)
                 /\ Reset(d) => Multiset!Clear(new)
            ELSE IF pc' # "idle" THEN new = old /\ call' = call
            ELSE IF call.op = "resize" THEN Multiset!Grow(old, new)
            ELSE Multiset!Insert(PendingKeys, old, new)

\* The filter implements the bag of hashed keys, call by call, at every size and
\* across resizing: an insertion adds the keys it was given, also one that resizes
\* first, a delete takes the key it was given, no other key changes, and neither
\* resizing nor a call that fails changes any.
RefinesMultiset == Multiset!Spec /\ [][CallsImplement]_vars

\* While the boxes are copied, those copied and those still ahead of the
\* iterator are together the old filter's, no key lost or taken twice, and
\* ret_numkeys counts the keys copied (the loop of qf_resize_malloc).
CopyExact ==
    \A d \in {doublings} : pc \in {"copy", "swap"} =>
        LET bag(ahead) ==
                Filter(d)!KeyBag(UNION {Filter(d)!KeysAt(it.run, it.current) :
                                          it \in {Filter(d)!BoxesFrom(0)[i] : i \in ahead}})
            boxes == Filter(d)!BoxesFrom(0)
            copied == AsBefore(NewFilter(d + 1)!Contents, d + 1)
        IN  /\ AsBefore(Filter(d)!Contents, d)
                 = copied (+) AsBefore(bag({i \in DOMAIN boxes : boxes[i].current >= qfi.current}), d)
            /\ ret_numkeys = BagCardinality(copied)

\* When the new filter takes over, every hash there is, stored or not, gets the
\* answers it got before: the bits that the fingerprint loses went into the
\* bucket, so that resizing costs no precision (qf_resize_malloc, qf_point_query).
AnswersKept ==
    \A d \in {doublings} : pc = "swap" =>
        \A h \in Hashes, m \in Filter(d)!Mementos :
            LET old == Address(h, d)
                new == Address(h, d + 1)
            IN  Filter(d)!PointQuery(old[1], old[2], m)
                    <=> NewFilter(d + 1)!PointQuery(new[1], new[2], m)

\* A filter filled by resizing, and what later calls make of it, is well formed:
\* its bits, offsets and counter agree, as in a filter that began at its size.
GrownWellFormed ==
    \A d \in {doublings} : d > 0 =>
        /\ Filter(d)!RunsWellFormed
        /\ Filter(d)!OffsetsExact
        /\ Filter(d)!NavigationExact
        /\ Filter(d)!SlotsAccounted
=================================================================================
