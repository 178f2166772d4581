# Memento Filter: TLA+ models and proofs

A Memento filter is a dynamic range filter. It keeps a *hashed prefix* of every
key in a quotient filter, and beside it the key's *memento*, its low bits, packed
with the other mementos of the same prefix in a *keepsake box* of variable
length. Point and range queries may answer "yes" wrongly, but must never answer
"no" wrongly.

This directory holds TLA+ modules translated from `src/src/memento.c`, TLC
configurations that check them on small instances, and machine-checked proofs, for
every instance, of what matters most about the locking, the navigation by block
offsets, the searches of queries and deletes, iterators, how the calls keep the
offsets and the occupancy counter exact, and how hashes are addressed.

## 1. The system

Paths are relative to `src/`; a line number alone is in `src/memento.c`.

| Component | State | Operations | Modelled in |
|---|---|---|---|
| Slot table and quotient metadata | per block: `occupieds`, `runends`, `offset`, packed slots | `run_end`, `block_offset`, `find_first_empty_slot`, `find_next_empty_slot_runs_of_size_n`, shifting, `remove_mementos_and_shift_...` | `QuotientMetadata` |
| Keepsake boxes | the slots of one box | `write_prefix_set`, `add_memento_to_sorted_list`, `remove_mementos_from_prefix_set`, lower-bound search, search by fingerprint | `KeepsakeBox` |
| Filter operations | `metadata->noccupied_slots`, `nelts`, `ndistinct_elts`, and the table | `qf_insert_single`, `qf_insert_mementos`, `qf_delete_single`, `qf_bulk_load`, `qf_reset`, `qf_point_query`, `qf_range_query` | `MementoFilter`, `PrefixMultiset` |
| Locking and counters | `runtimedata->locks`, `metadata_lock` | `qf_lock`, `qf_unlock`, `modify_metadata` | `MementoLocks` |
| Iterators | a run and a position | `qf_iterator_from_position`, `qf_iterator_by_key`, `qfi_next`, `qfi_get_hash`, `qfi_end` | `MementoIterator` |
| Resizing | two filters and an iterator | `qf_resize_malloc`, automatic resizing | `Resizing` |
| Hashing and addressing | none | splitting a hash into bucket and fingerprint; `MurmurHash64A`, `hash_64`, `fast_reduce` | the splitting in `Addressing`; not the 64-bit arithmetic, whose results are the models' inputs |
| Lifecycle and storage | buffers | `qf_init`, `qf_malloc`, `qf_use`, `qf_copy`, `qf_destroy`, `qf_free` | no: allocation and copying; `Init` is the empty filter |
| Getters, printing | none | `qf_get_*`, `qf_dump*` | no: single reads |
| Merging, inner products | none | inherited from the counting quotient filter, not compiled | no |
| Tests, example, benchmarks | none | callers | no: read for the inputs and states the program meets |

**How the parts interact.** A key hashes to a *bucket* and a *fingerprint*
(together the prefix). All boxes of one bucket form its *run*, stored as near as
possible at or after the bucket's own slot. Bit `occupieds[b]` says the bucket has
a run and `runends[s]` that a run ends in slot `s`; the n-th set bit of one belongs
to the n-th of the other. Each block of 64 slots has an 8-bit `offset`, how far
earlier runs spill into it, so that rank and select start at the block and not at
the beginning of the table. An operation finds the run through the offsets, finds
the box in it by fingerprint, opens or closes a gap (which shifts other runs and
moves their runends and the offsets of every block in between), and adjusts
counters that the next insertion's capacity check reads. When that check finds
the filter full and automatic resizing is on, `qf_resize_malloc` walks over the
boxes with an iterator and inserts each into a filter with twice the buckets,
which then takes the old one's place: one bit of every hash moves from the
fingerprint to the bucket index. With locks, a call holds
the regions of the table around its bucket while it does that, and a separate
lock while it changes one counter.

**What is hard.**

- *Redundant state.* The bits, the offsets and the counter are patched
  separately on every path; an error stays silent until a much later rank and
  select uses it. Offsets saturate and are then only lower bounds.
- *Self-describing boxes.* There is no length field. The layout of a box (one
  memento, a pair, an equal pair, a list with a counter of one or more symbols)
  is read off from how neighbouring fingerprints and mementos compare, so equal
  mementos, extreme mementos and the "void" fingerprint 0 are edges.
- *Partial failure.* Making room can fail after the call has begun, and an
  insertion ignores whether the resizing it asked for succeeded.
- *Taking everything apart.* Resizing reads every box back, restores its hash and
  splits it at another bit, below the bits of the original bucket; a mistake loses
  keys that only a much later query misses.
- *Concurrency.* The capacity check is made before locking; two region locks are
  taken one after the other; a cluster may reach past the locked regions; counters
  are read and written in two steps; queries take no lock.

**What makes each component correct.**

- Table: the navigation by offsets gives what the bits alone determine; the
  number of slots in use is what the counter says.
- Boxes: runs decompose exactly into boxes, in fingerprint order; a box reads back
  sorted.
- Filter: the stored keys form a bag that each call changes as its result says;
  queries and deletes find exactly the stored keys.
- Iterators: an iteration visits every box once, in order, and ends.
- Resizing: the new filter holds the same keys, is well formed, and answers every
  query as the old one did.
- Locks: mutual exclusion, no lock left behind, no update lost, no deadlock,
  counters that add up.

`PROJECT.json` lists every hazard at its line, with the properties about it.

## 2. The modules

| Module | Models | Extends |
|---|---|---|
| `QuotientMetadata` | bit vectors, offsets, rank/select, empty slots, gaps, removal: pure operators on the record `qf` | |
| `KeepsakeBox` | boxes: reading, writing, growing, shrinking, searching | `QuotientMetadata` |
| `MementoFilter` | one filter, one thread: variables `qf`, `ret`; one action per call | `KeepsakeBox` |
| `MementoIterator` | where an iterator is put, what it reads, how it moves on: operators | `MementoFilter` |
| `PrefixMultiset` | the abstract filter: a bag of hashed keys, one action per call with its arguments | |
| `MementoFilterProperties` | a second reading of the table by the bits alone, the invariants, and the refinement `Multiset == INSTANCE PrefixMultiset WITH contents <- Contents`, call by call | `MementoIterator` |
| `Addressing` | how a hash is split into bucket and fingerprint at every size, and put together again | |
| `Resizing` | the filter with resizing: `Filter(d) == INSTANCE MementoFilterProperties` with the constants after `d` doublings, the copying loop as actions, and the refinement of `PrefixMultiset` across sizes | `Addressing` |
| `MCResizing` | instance | `Resizing` |
| `UnlockedQuery` | a point query, step by step, beside another thread's updates | `MementoFilterProperties` |
| `MCUnlockedQuery` | instance | `UnlockedQuery` |
| `MCMementoFilter` | prefixes, mementos and inputs of the instances | `MementoFilterProperties` |
| `MementoLocks` | threads calling one filter, step by step between locks | |
| `MementoLocksProperties` | counter properties that need sums | `MementoLocks` |
| `MCMementoLocks` | instances | `MementoLocksProperties` |
| `CountingTheorems` | least and greatest numbers, and what sums over functions on finite sets do when one or more of their values change; division and powers of two | `TLAPS` |
| `MementoLocks_proof` | theorems about locks and lost updates | `MementoLocks`, `CountingTheorems` |
| `MementoLocksCapacity_proof` | theorem about the capacity check | `MementoLocks_proof` |
| `MementoLocksProperties_proof` | theorems about the counters and the table, and that locks cannot deadlock | `MementoLocksProperties`, `MementoLocks_proof` |
| `MementoFilterNavigation_proof` | theorem about `run_end`, `block_offset`, `find_first_empty_slot` | `MementoFilterProperties`, `CountingTheorems` |
| `MementoFilterQueries_proof` | theorems about queries, the finding of deletes, and iterators | `MementoFilterNavigation_proof` |
| `Addressing_proof` | theorems that splitting a hash and putting it together are inverse | `Addressing`, `CountingTheorems` |
| `MementoFilterMetadata_proof` | theorems that the calls keep the offsets and the occupancy counter exact | `MementoFilterQueries_proof` |

Operators with the comment "Faulty variant of X" are not part of the
specifications. They are plausible mistakes, used to see that each property
notices one.

### State and actions against the code

- **`qf.occupieds`, `qf.runends`** are sets of bucket and slot numbers. The words
  of a block are the parts of the sets that fall in it, so the loops over words of
  `bitrank`, `bitselectv` and `shift_into_b` become counting, selecting and moving
  in the whole set.
- **`qf.offset[k]`** is the byte of block `k`, saturating at `MaxOffset`.
  `BlockOffset` rebuilds a saturated one from the preceding block, as
  `block_offset` does, by a recursive function.
- **`qf.slots`** holds `BitsPerSlot`-bit numbers: a fingerprint and a memento, or,
  behind the two end slots of a list, pieces of a stream of memento-sized symbols
  that the code packs without regard to slot borders. Reading and writing the
  stream, and its counter in base 2^MementoBits - 1 with all-ones symbols as unary
  length, are modelled by what they do.
- **Actions** `InsertSingle`, `InsertMementos`, `DeleteSingle`, `BulkLoad`, `Reset`
  are whole calls with automatic resizing off (`Resizing` builds on them), with every early return. The order
  inside them is kept where it shows: `InsertBox` shifts the later stretches
  before the near one, offsets are bumped with the runends as they then are.
- **`ret = "aborted"`** is the state after an assertion of `set_slot` fails, which
  happens when a single memento needs a slot past `xnslots`. Nothing follows it.
- **Queries** change nothing and are operators; properties apply them to every
  argument in every state.
- **Callers** pass hashes (`QF_KEY_IS_HASH`); keys that hash alike are one key.
  With `DeletesMiss = FALSE` they only delete from buckets that hold something,
  which the documentation does not ask for: see the findings. They load in bulk
  into an empty filter (the guard `qf.occupieds = {}`): `qf_bulk_load` writes from
  its first bucket on without looking at what is stored, and nothing says that it
  may not be called then.
- **Slots past the blocks** read as 0 in `SlotAt`, where an assertion of `get_slot`
  would fail. No state of the passing runs of the filter reads one.
- **Iterators** are records of the code's `run` and `current`. The search of the
  next run over the words of `occupieds` becomes the least later member of the
  set. What `qf_iterator_by_key` compares with (`SoughtFingerprint`) and where
  its fallback starts are as in the code.
- **`Resizing`** names keys by their hash, and `Address(h, d)` of `Addressing` is the
  bucket and fingerprint at size `d`. `StartResize`, `CopyBox`, `Swap` are the parts of
  `qf_resize_malloc`, with one turn of its loop per step, so that invariants see
  the filter half copied; `ResumeInsertion` is what an insertion does after the
  resizing it asked for, without a second look at the capacity. Whether automatic
  resizing is on is chosen anew before each call. An empty filter is refused: the
  loop reads a box before it asks for the end.
- **`UnlockedQuery`** splits `qf_point_query` into its look at `occupieds`, its
  search for the start of the run, and one step per box. An update is one step,
  which is one of the interleavings the program has.
- **`MementoLocks`** gives each thread a program counter. A call's work on the
  table is reduced to the regions it rewrites and the slots it takes or frees;
  the model keeps *read the regions* and *write them back* as two steps, so that
  two calls that overlap can lose an update. `modify_metadata` is lock, read,
  write, unlock. `qf_insert_single` counts its element after `qf_unlock`, the
  others before. `applied` is a history variable: what the table would hold if no
  write were ever overwritten.

## 3. The runs

All properties are checked on all reachable states of the instance.

| Run | Question | States |
|---|---|---|
| `spill` | Do bits, offsets, navigation and the occupancy counter agree after any calls, with spills over blocks of two slots and offsets that saturate? Does an iteration visit every box once? | 9 902 |
| `lists` | Do boxes of neighbouring buckets, in every layout, stay sorted, and do queries and deletes find exactly what is stored? | 14 534 |
| `contract` | Does each call, in full tables and across resizing, do to the bag what its arguments say? Is no key lost while boxes are copied, and is the filter that takes over as good as the old one? | 13 245 |
| `counters` | Does one box survive growing until its counter has three digits, and shrinking again, each call changing its own key alone? | 512 |
| `locks` | Are locks, table and counters consistent in every interleaving of two threads on overlapping regions, up to a full table? | 673 105 |
| `progress` | With waiting and try-once callers of all operations, is there always a call that is not waiting, and does some call always return? | 277 962 |
| `extended_counter_query`, `void_pair`, `delete_absent`, `lock_leak`, `iterator_placement`, `unlocked_query` | findings, section 5 | |

**What the properties say.** `OffsetsExact` and `NavigationExact` compare the
offsets, `run_end` and `find_first_empty_slot` with the reference reading, which
goes by the bits alone. `RunsWellFormed`: as many runs as occupied buckets, boxes
tile each run exactly, fingerprints do not decrease. `SlotsAccounted`: the counter
every path adds its own estimate to is the number of slots in use.
`PointQueryExact`, `RangeQueryExact`, `DeleteFindsExact`: answered yes exactly when
a key that hashes alike is stored (for a range over several prefixes, exactly what
the code's own rule for ends and middle allows, over the stored keys).
`RefinesMultiset`: the filter implements `PrefixMultiset`, and does so call by
call. Its second part, the action property `CallsImplement`, says that each call,
for the arguments it was given, does to the stored bag what the abstract call does
for these same arguments: an insertion adds its own keys, a delete takes one copy
of its own key or answers that there is none, a failed call changes nothing, and no
other key changes. In `contract` it goes across resizing, where the bag is that of
the hashes, whatever the size: an insertion that resizes first keeps the bag until
it returns, and then adds the keys it was called with. The mutants of the two runs
(the delete takes the neighbouring memento; a pair that becomes a list repeats its
head in place of the new memento) show why the arguments matter: they refine an
abstract filter whose steps choose the key. A step that changes neither the filter
nor the last result is a stutter for the property, so an insertion that did nothing
shows only after another result, or, in `counters`, by the parity of `nelts`.
`IterationExact`: from the beginning, and from every occupied bucket, an
iterator visits exactly the boxes the bits determine. `CopyExact`: at each turn of
the copying loop the keys copied and those ahead of the iterator are together
those of the old filter. `AnswersKept`: when the new filter takes over, a point
query for any hash and memento, stored or not, gets the answer it got before, so
that resizing costs neither keys nor precision. `GrownWellFormed`: the table
invariants of `spill`, in a filter that `insert_mementos` filled and in what later
calls make of it.
`NoStandstill`: of the threads inside a call, one at least is not waiting for a lock.
`LocksExact`, `NoLostUpdate`, `CountersExclusive`: section 6. `SlotsBalanced`: the
slots in use are the counter plus what threads have still to add. `NoUnderflow`:
the unsigned counter does not go below zero. `OverfillBounded`: threads that all
pass the capacity check on one value overfill the table by at most one call each.

**Bounds, and why they are enough.**

- Blocks of 2 (or 4) slots with `MaxOffset` 3 (or 5) for 64 and 255. What matters
  is the order `MaxOffset >= SlotsPerBlock` (`GeometryAssumption`), that clusters
  span several blocks, and that offsets saturate; in `spill` all of it happens with
  five buckets and at most eight buckets' worth of slots.
- Fingerprints and mementos of 2 or 3 bits. Layouts are told apart by `<`, `=`,
  `>` between neighbours, by fingerprint 0, and by memento 0 and the greatest one;
  the instances have all of them. Three bits leave room for one-symbol counters,
  two bits for longer ones.
- `contract` starts with four buckets, as after one doubling, so that the bits of
  the original bucket and of the extension are both there, and doubles once:
  two of its three prefixes share a bucket and are parted, the third lies further
  on, and the order of the buckets changes. `MaxDoubledSlots` stops insertions
  into the eight buckets. Its hashes keep fingerprints other than 0 at both
  sizes, because resizing would otherwise meet finding 2. The refinement is
  checked in every state, those in the middle of a resizing too.
- Slots beyond `nslots` (10 in `spill`, `lists` and `contract`, 9 in `counters`):
  `init_filter` adds 10 times the square root of `nslots`, which for tables this
  small would be more. Both capacity checks are reached.
- `nelts` and `ndistinct_elts` would grow for ever, because deletes leave them
  alone; `CounterRange` wraps both, at 2 in `counters` and at 1 (they stay 0) in the
  other runs. Nothing reads them in these operations.
- In `MementoLocks`, regions of 4 with a cluster of 2: one bucket locks one region,
  another two, and a region is the first of one call and the second of another.
  `MaxElts` stops insertions; `NSlots = 3` is small enough for the capacity check
  to refuse, 30 too large. `locks` uses the symmetry of the threads, `progress`
  does not, because it checks a liveness property.

**Fairness.** `FairSpec` has weak fairness of each thread's `Step`, the steps inside
a call, and none for starting a call: a thread that is running code keeps running,
and no caller has to call. The locks are test-and-set loops, without a queue, so
no thread is promised its turn, and `SystemProgress` only promises that while some
thread is in a call, some call returns. Memory is sequentially consistent in the
model: the `__sync` builtins the locks use are acquire and release barriers.

## 4. What is only model-checked

- That `TypeOK` of the filter and `RunsWellFormed` are invariants: the theorems
  about the filter take them as hypotheses, `spill` and `counters` check them.
  `TypeOK` does not hold for every value of the constants: a lone memento shifts
  runs without asking whether a slot is left (hazard at 2769), so it
  needs enough slots beyond `nslots`. `RunsWellFormed` says that a box measures
  what was written, that is, that counting the symbols of a packed list gives back
  their number: what a recursive encoding computes for every input, an induction
  over data. `OffsetsExact` and `SlotsAccounted` are proved, given these two.
- `BoxesSorted`, for the same reason: it reads back lists that were packed.
- What `Resizing` states (`CopyExact`, `AnswersKept`, `GrownWellFormed`), which
  rests on the same invariants after whole insertions, and on the stored bag.
- `RefinesMultiset`: the steps change the stored bag, a count over all boxes.
- Liveness (`SystemProgress`), which the prover does not support under fairness.

## 5. Findings

Each is a run whose property TLC finds violated.

1. `extended_counter_query` (3033). After a counter of three or more symbols the
   lower-bound search advances once too often and skips a slot of the list: a
   stored memento is reported absent.
2. `void_pair` (2164). `qf_insert_mementos` takes three slots for two equal
   mementos of any fingerprint, and writes two for fingerprint 0. The third slot
   keeps an old fingerprint, at which later searches stop.
3. `delete_absent` (2943). `qf_delete_single` never asks whether the bucket is
   occupied: it can find a box of the next run and delete from it, where
   `include/memento.h:208` says `QF_DOESNT_EXIST`.
4. `lock_leak` (2762). `qf_insert_single` returns from between `qf_lock` and
   `qf_unlock` when a box cannot grow; its regions stay locked, and a waiting
   caller spins for ever. (`CHECK_DEADLOCK FALSE`: the violated liveness property
   says more than the deadlock at the end of the same behaviour.)

5. `iterator_placement` (3512 and 3450). `qf_iterator_by_key` looks for the
   fingerprint with one bit more than any box has, always concludes that the run
   holds nothing from the key on, and starts at the first run of the block.
   `qf_iterator_from_position` takes a position without a run for the number of a
   block. With one stored key the former starts below its key and the latter skips
   the only run; `include/memento.h:275` and `285` promise otherwise. Position 0,
   the only one resizing and the tests use, is placed rightly (`IterationExact`).
6. `unlocked_query` (3071). `include/memento.h:59` promises concurrent insertions
   and queries with the examined portion locked, and that a waiting caller gets the
   lock before "the query or update". `qf_point_query` takes no lock: an insertion
   between its search for the run and its look at the boxes shifts the run away,
   and a key stored all along is reported absent.

The passing runs stay clear of these inputs: no void pairs of equal mementos
through `qf_insert_mementos`, no query in `counters`, no delete that misses its
bucket, no `insert_single` that finds the table full while it holds locks, and
iterators only from position 0 or an occupied bucket.

## 6. The proofs

### 6.1 Locks

The theorems of `MementoLocks_proof`, `MementoLocksCapacity_proof`
and `MementoLocksProperties_proof` hold for any number of
threads, regions, buckets and calls, from `LocksAssumption` (the constants are
naturals, a cluster is no longer than a region, and every region a call locks or
reaches exists, which the two extra entries of the lock array provide):

| Theorem | States |
|---|---|
| `TypeCorrect` | `Spec => []TypeOK` |
| `LocksCorrect` | `SinglesFit => (Spec => []LocksExact)` |
| `MetadataCorrect` | `Spec => []CountersExclusive` |
| `UpdatesCorrect` | `ShortReaches /\ SinglesFit => (Spec => []NoLostUpdate)` |
| `OverfillCorrect` | `SizesFit => (Spec => []OverfillBounded)` |
| `BalanceCorrect` | `IsFiniteSet(Threads) /\ ShortReaches /\ SinglesFit => (Spec => []SlotsBalanced)` |
| `UnderflowCorrect` | `IsFiniteSet(Threads) /\ ShortReaches /\ SinglesFit => (Spec => []NoUnderflow)` |
| `WaitingCorrect` | `SinglesFit => (Spec => []NoStandstill)` |

`SinglesFit` excludes the path of finding 4, on which `LocksExact` is false.
`ShortReaches` says that no call changes slots further than `ClusterSize` from its
bucket. The code assumes it and enforces it nowhere; with a longer reach TLC finds
lost updates. `SizesFit` says that the threads are finitely many, that the growths
have a maximum of at least one slot, and that the table has at least two slots;
`SinglesFit` is not needed, because a thread that keeps its locks takes no slots.

**The argument.** `TypeInv` is `TypeOK` and `Started`: a thread inside a call has the
arguments of one, and inside `modify_metadata` an update to make. Without it
`Home(t)` need not be a region and `Head(todo[t])` need not be an update, and
`TypeOK` is not inductive. `LocksInv` adds to `LocksExact` that a thread waiting for
its second lock is one that needs it (`LocksNext`), so that taking it completes what
`Held` says the thread then holds; the lemma
`OneThreadLocks` reduces a step to the change of one thread's part of the union.
`MetadataInv` adds to `CountersExclusive` that the metadata lock is set exactly when
a thread is inside, which is why a second one cannot enter and make the value the
first one read stale.
`NoLostUpdate` is inductive on top of these: by `DivMod` and `DivUnique` a call whose
reach is at most `ClusterSize` rewrites only regions it locks (`RewrittenLocked`), so
two writers rewrite disjoint regions (`WritersApart`), so what a thread read is still
there when it writes (`WriteKept`).

`OverfillBounded` is not inductive: a thread that has passed the check adds its
slots much later, when the counter may be at any value below the bound. `CapacityInv`
counts those threads. `Flying` are the threads between a passed check and the
counting of their slots, and the counter plus one `MaxGrowth` for each of them stays
within the bound. A check that passes has read a counter of at most `NSlots - 2`, so
the sum is within the bound whoever else is in flight (`OneTakesOff`); a thread that
counts its slots adds at most `MaxGrowth` and leaves `Flying` (`OneLands`), because a
call counts its slots only once (`CountsOnce`) and `modify_metadata` adds to the
counter as it is (`MetadataInv`); no other step adds slots or puts a thread in
flight (`NoneTakesOff`).

`SlotsBalanced` is a statement about three sums. `CountingTheorems` proves of the
folds of the community modules what the steps need (`SumUpdate`: changing one value
changes the sum by the difference). `CountersInv` adds that a call counts its slots
once and only in `modify_metadata` (`Accounts`); a call that rewrites the table adds
to one region what it puts into its own `todo`, because what it read is still there
(`NoLostUpdate`), and `MetaWrite` moves one thread's count into the counter, because
the value it read is still there (`MetadataInv`).

`NoUnderflow` does not follow from the balance: freed slots may be counted while the
insertion that took them is not. `CoveredInv` says why they are not: what a thread
has taken and not yet counted lies in the region of its bucket, which it still has
locked (`qf_unlock` comes after `modify_metadata`), so no other call can free it.
`CoveredBounds` maps every thread that owes slots to its region, which no two of
them share, and sums (`SumInjection`): what is owed is at most what is used, and the
counter is the rest.

`NoStandstill`: when every thread inside a call spins, nobody is in
`modify_metadata`, so every lock is that of a thread that has its first region and
waits for the second; the one of them whose own region is highest waits for a region
of a thread that waits for a still higher one.

### 6.2 Navigation, queries, deletes and iterators

These theorems are about one state of the filter, for every block size, saturation
point, table size and width of fingerprints and mementos that the assumptions allow.
Their hypotheses are invariants the runs check; `OffsetsExact` is itself the
conclusion of section 6.3, and section 4 says why the others stay hypotheses.

| Theorem | States |
|---|---|
| `NavigationCorrect` | `TypeOK /\ RunsWellFormed /\ OffsetsExact => NavigationExact` |
| `DeleteFindsCorrect` | `TypeOK /\ RunsWellFormed /\ OffsetsExact => DeleteFindsExact` |
| `PointQueriesCorrect` | `TypeOK /\ RunsWellFormed /\ OffsetsExact /\ BoxesSorted /\ CountersShort => PointQueryExact` |
| `RangeQueriesCorrect` | `TypeOK /\ RunsWellFormed /\ OffsetsExact /\ BoxesSorted /\ CountersShort => RangeQueryExact` |
| `IterationsCorrect` | `TypeOK /\ RunsWellFormed /\ OffsetsExact /\ RunsBeforeEnd(qf) => IterationExact` |

`CountersShort` excludes lists whose counter has more than one symbol, for which
`PointQueryExact` is false (finding 1). It holds in every state of `lists`, where
the buckets have lists, and for lists of fewer than `MaxMemento` inner mementos.
`DeleteFindsExact` needs no such condition: deletes read the whole box.
`RunsBeforeEnd` says that every run ends before `xnslots`, where `qfi_end` (3766)
takes an iterator to be at its end. Blocks are whole, so the table may go on a
little behind `xnslots`, and a lone memento can shift a run there (hazard at 3766).
In the instances the blocks end at `xnslots`, and `TypeOK` implies it.

**Induction over data.** The induction theorems of the library cannot be used with
the installed provers, and the model's walks are recursive functions of which
nothing says that they exist. Both are replaced by least counterexamples
(`LeastNatural`): `WalkExists` says that a function that looks ahead along a walk
which ends at a known place at the latest exists, `WalkUnique` and `WalkReaches`
that what holds where the walk stops, and at a place when it holds at the next one,
holds everywhere, and `DownFromLast` the same of the places of a sequence.

**Navigation.** The premises give `Paired`: as many runends as occupied buckets, and
the n-th runend at or after the n-th bucket. Hence up to any slot at most as many
runs have ended as have begun (`EndedWithinOccupied`), and the last slot in use of
the buckets up to `b` is the least place by which as many runs have ended as buckets
begun (`LastUsedAt`). The spill of a block is the same count at the block's start
(`Spill`), so selecting from the block on, after skipping as many runs as spill into
it, finds the n-th runend of the whole table (`EndOfRunsIs`, `RunEndExact`). An offset
at `MaxOffset` is only a lower bound; `block_offset` then goes back block by block to
one that is not, and `BlockOffsetExact` shows by induction that every block on the
way gets its true spill. `find_first_empty_slot` adds lower bounds that are zero only
at an empty slot and never pass one (`LowerBoundExact`, `SearchTurn`), so it ends at the
first empty slot (`FindFirstEmptySlotExact`).

**Queries and deletes.** By `NavigationCorrect`'s lemmas the search starts at the
first slot of the bucket's run (`RunStartIs`). `RunsWellFormed` gives `IsRun`: the
boxes tile the run, only the last one ends at the runend, and fingerprints do not
decrease (`RunOfBucket`). From a box of such a run `next_matching_fingerprint_in_run`
finds the first box of the fingerprint there is, or nothing when there is none,
although it stops at the first larger one (`NextMatchingInRun`), so a caller's loop
visits all the boxes of the fingerprint and no other (`MatchingBoxesInRun`,
`SearchedBoxes`). A key is stored exactly when one of those boxes has its memento
(`HeldByBox`). A delete looks through all of them. A query compares with one memento
of each box: `LowerBoundFound` shows that it is the least one not below the target,
or one below it when there is none, in all layouts, and `BoxEnds` that the two end
slots hold the least and the greatest, which is what the ends of a range need.

**Iterators.** `BoxesFrom(p)` lists what the bits say is to be visited: bucket by
bucket the boxes of its run. An iterator knows neither the buckets nor where runs
start: behind a runend it looks for the next occupied bucket and takes the larger of
that bucket and the slot behind for the start of its run. `NextRun` shows that this
is where the run starts, because no bucket between is occupied and a run starts at its
bucket or behind the run before it. `RunVisited` goes through the boxes of one
run, of which only the last ends at the runend, and `ListsVisited` through the buckets
from the last one back, so that the two recursive readings agree from every occupied
bucket on. `IteratesExist` and `ListsExist` show first that both functions
exist: a step of the iterator always goes forward (`CursorAhead`), so an iterator
with the fewest slots ahead of it that had no value would have one.

### 6.3 The calls keep the metadata

`OffsetsExact` and `SlotsAccounted` relate state that every path of the code patches
piece by piece: no call computes an offset or the counter from the bit vectors
alone. For every block size, saturation point, table size and width:

| Theorem | States |
|---|---|
| `InsertionsAccurate` | from `TypeOK`, `RunsWellFormed`, `OffsetsExact`, `SlotsAccounted`, and `TypeOK'`, an insertion leads to `OffsetsExact' /\ SlotsAccounted'` |
| `DeletionsAccurate` | so does a delete from an occupied bucket, without `TypeOK'` |
| `BulkLoadsAccurate` | so does a bulk load, with `TypeOK'` |
| `MetadataAccurate` | `~DeletesMiss` gives `Spec /\ [](TypeOK /\ RunsWellFormed) => [](OffsetsExact /\ SlotsAccounted)` |

`TypeOK'` excludes the table that has no slot left for what an insertion or a bulk
load shifts or writes: then a run leaves the blocks, which in the code is a write
past them. It is used nowhere else. `RunsWellFormed` is used for the pairing of
occupied buckets and runends, for where a search for a box can end, and for what a
delete may take from a run. `DeletesMiss` excludes finding 3, after which
`OffsetsExact` is false. `FilterAssumption` says of a bulk load's input what
`include/memento.h:193` asks of the caller, that it is sorted; on an unsorted one
runs would be closed for buckets out of order.

**The argument.** `Accurate(q)` states the two properties and the pairing of any
table `q`, so that it can be carried through the intermediate tables of one call.

*Opening a gap* (`make_empty_slot_...`, `make_n_empty_slots_...`, `insert_mementos`).
The empty slots a call finds are the first ones from its bucket on
(`FindEmptySlotRunsExact`); with that `Claims` holds, and `Shifted` says where every
slot goes: past the claimed slots that follow. `GapReads` shows that after the runends have
moved the buckets and runends still pair and where each bucket's last slot has gone,
`GapUses` that exactly the claimed slots have joined those in use, `GapSpills` that
each block's spill has grown by the claimed slots that do not precede it, and
`GapOffsets` that this is what `BumpOffsets` adds, also to saturated offsets.
A new box (`InsertBox`) opens its gap in two moves, later stretches first, and
between them the table has no exact reading at all; `RoomFrom` says that up to
the first empty slot it reads as before (`RoomBehindReads`), so that the place of
the box is right (`InsertIndexIs`), and `InsertedRuns` that both moves together are
one gap.

*Removing slots* (`remove_slots_and_shift_...`). `ClusterEndExact`: the loop of the
code, which pairs buckets and runends as it walks, ends where the cluster does.
One turn (`LoopTurn`) removes one slot: the bucket's run is a slot shorter or, with
its only slot, gone, and other buckets read the same (`TurnReads`), but for those
in the cluster, which end one slot earlier. By induction over
the turns (`AllTurns`, `LoopTrims`) as many slots leave those in use as the counter
loses. Offsets are then recomputed block by block with `run_end`, which reads the
offset of the block before: `BlockMended` and `MendingStep` show that each is
exact when those before it are, and `SpillsKept` that the blocks outside
`first .. last` need no mending (`OffsetsRecomputed`). `BoxShrinks` gives what a
removal rests on, that a box which loses a memento never gives up its first slot
unless it was all it had.

*Bulk load.* The loop closes a run when the next box has another bucket. `Loading`
is its invariant: the runs of earlier buckets are closed and accurate, but for the
slots of the open one, which are already counted. `RunClosed` shows that the
offsets a closed run adds to are the spills with that run, because what it adds
starts behind everything the earlier runs use.

Recursive functions (the walk to the cluster's end, the removal loop, the mending
of offsets, the loading) are shown to exist by extending one that covers fewer
turns (`TurnsExist`, `MendsExist`, `LoadsExist`), or from the end of the walk
backwards (`WalksExist`, `RunsExist`).

### 6.4 Addresses

`qf_resize_malloc` puts the hash of every box together from its bucket and its
fingerprint, and the insertion into the larger filter splits it one bit further
on. From `AddressingAssumption` (the numbers of bits are naturals):

| Theorem | States |
|---|---|
| `HashesReassembled` | at every size `d` and for every hash `h`, `Address(h, d)` is a bucket and a fingerprint of that size, and `HashAt` of them is `h` |
| `AddressesUsed` | for every bucket and fingerprint, `Address` of their `HashAt` gives them back |
| `ReaddressingKeepsHashes` | an address moved from one size to any other keeps its hash, and moving it back undoes it |

So no key is lost, doubled or confused with another by its address, at any
number of doublings; `AnswersKept` sees the same on an instance, with the boxes.
`BitsShared` writes the hashes as `(C * B) * A` for original buckets, extensions and
fingerprints, which needs `PowerSum` (a set with one more element has twice the
subsets); then it is arithmetic with digits (`DigitsApart`, `BelowProduct`).

## 7. Plan

What a next step would be:

1. That a box measures as it was written, which would make `RunsWellFormed`
   inductive, and with it that a resizing copies every key (`CopyExact`).
2. The ignored failure of `make_n_empty_slots_for_memento_list` in the list branch
   (1940), on an instance with hardly any slots beyond `nslots`, and lists of
   mementos of two bits (2145).
3. The order of the writes inside an update, for a query that runs between them.

**Not modelled.** `qf_resize`, which fills a caller's buffer: nothing in the
repository calls it, and it cuts fingerprints by the highest bit of the hash, an
encoding no other operation uses any more. Resizing beside concurrent calls: it
replaces the lock array that those calls hold. Hashing (64-bit arithmetic) and
`qfi_get_key`, which differs from `qfi_get_hash` by undoing the hash. Lifecycle
(allocation and copying of buffers), getters, code that is not compiled, and the
benchmark programs.
