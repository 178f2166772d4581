------------------------------ MODULE MementoLocks ------------------------------
(***************************************************************************)
(* Threads that call one Memento filter with its spin locks (memento.c:    *)
(* qf_spin_lock, qf_lock, qf_unlock, modify_metadata, and the order in     *)
(* which qf_insert_single, qf_insert_mementos, qf_delete_single and        *)
(* qf_point_query use them; qf_lock is only called with small = true).     *)
(*                                                                         *)
(* The buckets are divided into regions with a lock each.  A call locks    *)
(* the region of its bucket, and the next one too when the bucket is       *)
(* within ClusterSize of it.  What the call does to the table is reduced   *)
(* to the regions it rewrites, from its bucket up to `reach` slots         *)
(* further, and to the number of slots it takes or frees: it reads those   *)
(* regions and later writes them back changed.                             *)
(***************************************************************************)
EXTENDS Integers, Sequences, FiniteSets

CONSTANTS
    Threads,
    SlotsPerRegion, \* NUM_SLOTS_TO_LOCK
    ClusterSize,    \* CLUSTER_SIZE
    NRegions,       \* runtimedata->num_locks
    NSlots,         \* metadata->nslots
    CallBuckets,    \* the buckets the callers' keys hash to
    Kinds,          \* the operations the threads call
    Reaches,        \* distances from a bucket to the last slot its call rewrites
    Waits,          \* whether calls wait for a lock (QF_WAIT_FOR_LOCK) or try once
    Growths,        \* the numbers of slots a call may take or free
    ListLength,     \* the mementos given to qf_insert_mementos
    MaxElts,        \* bound: no insertion starts once nelts is this large
    FullFor         \* the insertions that may fail to make room in the table

Operations == {"insert_single", "insert_mementos", "delete_single", "point_query"}
Insertions == {"insert_single", "insert_mementos"}

Regions == 0 .. NRegions - 1
Region(s) == s \div SlotsPerRegion

\* num_locks is xnslots / NUM_SLOTS_TO_LOCK + 2: the region of a bucket, the
\* next one, and those of the slots a call reaches all have a lock.
ASSUME LocksAssumption ==
    /\ SlotsPerRegion \in Nat \ {0} /\ NRegions \in Nat
    /\ ClusterSize \in Nat /\ ClusterSize <= SlotsPerRegion
    /\ Reaches \subseteq Nat
    /\ CallBuckets \subseteq Nat
    /\ \A b \in CallBuckets :
         /\ Region(b) + 1 \in Regions
         /\ \A d \in Reaches : Region(b + d) \in Regions
    /\ Kinds \subseteq Operations
    /\ Waits \subseteq BOOLEAN
    /\ Growths \subseteq Nat
    /\ NSlots \in Nat /\ ListLength \in Nat \ {0} /\ MaxElts \in Nat
    /\ FullFor \subseteq Insertions

VARIABLES
    locks,          \* the regions whose entry of runtimedata->locks is 1
    metadata_lock,  \* runtimedata->metadata_lock
    counters,       \* the counters of the metadata
    used,           \* the slots in use, by the region of their bucket
    pc,             \* where each thread is
    call,           \* the arguments of each thread's call
    seen,           \* what the thread's call read of `used`
    todo,           \* the modify_metadata calls ahead, as <<counter, cnt>>
    back,           \* where modify_metadata returns to
    tmp,            \* the counter value read in modify_metadata
    ret,            \* what each thread's last call returned
    applied         \* history: the slots in use if no write was ever lost

vars == << locks, metadata_lock, counters, used, pc, call, seen, todo, back, tmp, ret, applied >>
table == << used, seen, applied >>
metadata == << metadata_lock, counters, back, tmp >>

Counters == {"noccupied_slots", "nelts", "ndistinct_elts"}
Results == {"ok", "no_space", "couldnt_lock", "doesnt_exist"}
Places == {"idle", "check", "lock", "lock_next", "back_off", "read", "write", "query", "finish",
           "meta_read", "meta_write", "meta_unlock", "unlock", "count", "return"}

(***************************************************************************)
(* What a call locks and rewrites.                                         *)
(***************************************************************************)

Calls == [kind : Kinds, bucket : CallBuckets, reach : Reaches, wait : Waits]

NoCall == [kind |-> "none"]

\* Faulty variant of Home: the division is rounded up.
HomeRoundedUp(t) == Region(call[t].bucket + SlotsPerRegion - 1)

Home(t) == Region(call[t].bucket)

\* Faulty variant of LocksNext: the distance to the next region is off by one.
LocksNextLate(t) == SlotsPerRegion - (call[t].bucket % SlotsPerRegion) < ClusterSize

LocksNext(t) == SlotsPerRegion - (call[t].bucket % SlotsPerRegion) <= ClusterSize

LockSet(t) == IF LocksNext(t) THEN {Home(t), Home(t) + 1} ELSE {Home(t)}

Rewritten(t) == {Region(s) : s \in call[t].bucket .. call[t].bucket + call[t].reach}

Init ==
    /\ locks = {}
    /\ metadata_lock = FALSE
    /\ counters = [c \in Counters |-> 0]
    /\ used = [r \in Regions |-> 0]
    /\ pc = [t \in Threads |-> "idle"]
    /\ call = [t \in Threads |-> NoCall]
    /\ seen = [t \in Threads |-> used]
    /\ todo = [t \in Threads |-> << >>]
    /\ back = [t \in Threads |-> "finish"]
    /\ tmp = [t \in Threads |-> 0]
    /\ ret = [t \in Threads |-> "ok"]
    /\ applied = used

Goto(t, place) == pc' = [pc EXCEPT ![t] = place]

ReturnWith(t, result) ==
    /\ Goto(t, "return")
    /\ ret' = [ret EXCEPT ![t] = result]

(***************************************************************************)
(* The start of a call, and the capacity check, which is made before       *)
(* anything is locked.                                                     *)
(***************************************************************************)

StartOf(kind) ==
    CASE kind \in Insertions -> "check"
      [] kind = "delete_single" -> "lock"
      [] kind = "point_query" -> "query"

Call(t) ==
    /\ pc[t] = "idle"
    /\ \E c \in Calls :
         /\ c.kind \in Insertions => counters["nelts"] < MaxElts
         /\ call' = [call EXCEPT ![t] = c]
         /\ Goto(t, StartOf(c.kind))
    /\ UNCHANGED << locks, todo, ret, table, metadata >>

\* The slots the check takes the insertion to need.
NewSlots(kind) == IF kind = "insert_single" THEN 1 ELSE 1 + (ListLength + 1) \div 2

\* Faulty variant of Check: nothing is refused.
CheckNothing(t) ==
    /\ pc[t] = "check"
    /\ Goto(t, "lock")
    /\ UNCHANGED << locks, call, todo, ret, table, metadata >>

Check(t) ==
    /\ pc[t] = "check"
    /\ IF \/ 100 * counters["noccupied_slots"] >= 95 * NSlots
          \/ counters["noccupied_slots"] + NewSlots(call[t].kind) >= NSlots
       THEN ReturnWith(t, "no_space")
       ELSE Goto(t, "lock") /\ UNCHANGED ret
    /\ UNCHANGED << locks, call, todo, table, metadata >>

(***************************************************************************)
(* qf_lock.  QF_WAIT_FOR_LOCK spins: the step is taken when the lock is    *)
(* free.  Otherwise one attempt is made, and a first lock is given back    *)
(* when the second one is busy.                                            *)
(***************************************************************************)

Lock(t) ==
    /\ pc[t] = "lock"
    /\ \/ /\ Home(t) \notin locks
          /\ locks' = locks \cup {Home(t)}
          /\ Goto(t, IF LocksNext(t) THEN "lock_next" ELSE "read")
          /\ UNCHANGED ret
       \/ /\ Home(t) \in locks /\ ~call[t].wait
          /\ ReturnWith(t, "couldnt_lock")
          /\ UNCHANGED locks
    /\ UNCHANGED << call, todo, table, metadata >>

LockNext(t) ==
    /\ pc[t] = "lock_next"
    /\ \/ /\ Home(t) + 1 \notin locks
          /\ locks' = locks \cup {Home(t) + 1}
          /\ Goto(t, "read")
       \/ /\ Home(t) + 1 \in locks /\ ~call[t].wait
          /\ Goto(t, "back_off")
          /\ UNCHANGED locks
    /\ UNCHANGED << call, todo, ret, table, metadata >>

\* Faulty variant of BackOff: the first lock is kept.
BackOffHolding(t) ==
    /\ pc[t] = "back_off"
    /\ ReturnWith(t, "couldnt_lock")
    /\ UNCHANGED << locks, call, todo, table, metadata >>

BackOff(t) ==
    /\ pc[t] = "back_off"
    /\ locks' = locks \ {Home(t)}
    /\ ReturnWith(t, "couldnt_lock")
    /\ UNCHANGED << call, todo, table, metadata >>

(***************************************************************************)
(* The work on the table between qf_lock and qf_unlock.                    *)
(***************************************************************************)

Read(t) ==
    /\ pc[t] = "read"
    /\ seen' = [seen EXCEPT ![t] = [r \in Regions |-> IF r \in Rewritten(t) THEN used[r] ELSE 0]]
    /\ Goto(t, "write")
    /\ UNCHANGED << locks, call, used, todo, ret, applied, metadata >>

Forget(t) == seen' = [seen EXCEPT ![t] = [r \in Regions |-> 0]]

\* The regions the call rewrites, with `change` slots more in that of its bucket.
Rewrite(t, change) ==
    /\ used' = [r \in Regions |->
                  IF r \in Rewritten(t)
                  THEN seen[t][r] + (IF r = Home(t) THEN change ELSE 0) ELSE used[r]]
    /\ applied' = [applied EXCEPT ![Home(t)] = @ + change]
    /\ Forget(t)

Updates(counter, cnt) == IF cnt = 0 THEN << >> ELSE << << counter, cnt >> >>

\* A memento of its own takes one slot; one that joins a box takes what the box
\* has to grow by.
WriteSingle(t) ==
    /\ pc[t] = "write" /\ call[t].kind = "insert_single"
    /\ \/ /\ Rewrite(t, 1)
          /\ todo' = [todo EXCEPT ![t] = << << "ndistinct_elts", 1 >>, << "noccupied_slots", 1 >> >>]
       \/ \E growth \in Growths :
             /\ Rewrite(t, growth)
             /\ todo' = [todo EXCEPT ![t] = Updates("noccupied_slots", growth)]
    /\ ret' = [ret EXCEPT ![t] = "ok"]
    /\ Goto(t, "finish")
    /\ UNCHANGED << locks, call, metadata >>

WriteMementos(t) ==
    /\ pc[t] = "write" /\ call[t].kind = "insert_mementos"
    /\ \E growth \in Growths :
         /\ Rewrite(t, growth)
         /\ todo' = [todo EXCEPT ![t] = << << "ndistinct_elts", 1 >>,
                                           << "noccupied_slots", growth >>,
                                           << "nelts", ListLength >> >>]
    /\ ret' = [ret EXCEPT ![t] = "ok"]
    /\ Goto(t, "finish")
    /\ UNCHANGED << locks, call, metadata >>

\* Faulty variant of WriteDelete: the slots it frees are not counted.
WriteDeleteUncounted(t) ==
    /\ pc[t] = "write" /\ call[t].kind = "delete_single"
    /\ \E growth \in {g \in Growths : g <= seen[t][Home(t)]} : Rewrite(t, 0 - growth)
    /\ Goto(t, "finish")
    /\ UNCHANGED << locks, call, todo, ret, metadata >>

\* A delete frees at most the slots its run has.
WriteDelete(t) ==
    /\ pc[t] = "write" /\ call[t].kind = "delete_single"
    /\ \/ \E growth \in {g \in Growths : g <= seen[t][Home(t)]} :
             /\ Rewrite(t, 0 - growth)
             /\ todo' = [todo EXCEPT ![t] = Updates("noccupied_slots", 0 - growth)]
             /\ ret' = [ret EXCEPT ![t] = "ok"]
       \/ /\ ret' = [ret EXCEPT ![t] = "doesnt_exist"]
          /\ Forget(t)
          /\ UNCHANGED << used, todo, applied >>
    /\ Goto(t, "finish")
    /\ UNCHANGED << locks, call, metadata >>

\* Faulty variant of NoRoom: qf_insert_mementos does not unlock either.
NoRoomHolding(t) ==
    /\ pc[t] = "write" /\ call[t].kind \in FullFor
    /\ ReturnWith(t, "no_space")
    /\ Forget(t)
    /\ UNCHANGED << locks, call, used, todo, applied, metadata >>

\* Making room fails.  qf_insert_mementos unlocks and reports it;
\* qf_insert_single returns from between qf_lock and qf_unlock.
NoRoom(t) ==
    /\ pc[t] = "write" /\ call[t].kind \in FullFor
    /\ ret' = [ret EXCEPT ![t] = "no_space"]
    /\ Goto(t, IF call[t].kind = "insert_single" THEN "return" ELSE "finish")
    /\ Forget(t)
    /\ UNCHANGED << locks, call, used, todo, applied, metadata >>

\* A query walks the run of its bucket; it takes no lock.
Query(t) ==
    /\ pc[t] = "query"
    /\ \E result \in {"ok", "doesnt_exist"} : ReturnWith(t, result)
    /\ UNCHANGED << locks, call, todo, table, metadata >>

(***************************************************************************)
(* modify_metadata, which always spins for the metadata lock.              *)
(***************************************************************************)

\* Faulty variant of MetaLock: the lock is taken without waiting for it.
MetaLockAtOnce(t) ==
    /\ pc[t] \in {"finish", "count"} /\ todo[t] # << >>
    /\ metadata_lock' = TRUE
    /\ back' = [back EXCEPT ![t] = pc[t]]
    /\ Goto(t, "meta_read")
    /\ UNCHANGED << locks, counters, call, todo, tmp, ret, table >>

MetaLock(t) ==
    /\ pc[t] \in {"finish", "count"} /\ todo[t] # << >>
    /\ ~metadata_lock
    /\ metadata_lock' = TRUE
    /\ back' = [back EXCEPT ![t] = pc[t]]
    /\ Goto(t, "meta_read")
    /\ UNCHANGED << locks, counters, call, todo, tmp, ret, table >>

MetaRead(t) ==
    /\ pc[t] = "meta_read"
    /\ tmp' = [tmp EXCEPT ![t] = counters[Head(todo[t])[1]]]
    /\ Goto(t, "meta_write")
    /\ UNCHANGED << locks, metadata_lock, counters, call, todo, back, ret, table >>

MetaWrite(t) ==
    /\ pc[t] = "meta_write"
    /\ counters' = [counters EXCEPT ![Head(todo[t])[1]] = tmp[t] + Head(todo[t])[2]]
    /\ todo' = [todo EXCEPT ![t] = Tail(@)]
    /\ tmp' = [tmp EXCEPT ![t] = 0]
    /\ Goto(t, "meta_unlock")
    /\ UNCHANGED << locks, metadata_lock, call, back, ret, table >>

MetaUnlock(t) ==
    /\ pc[t] = "meta_unlock"
    /\ metadata_lock' = FALSE
    /\ Goto(t, back[t])
    /\ UNCHANGED << locks, counters, call, todo, back, tmp, ret, table >>

(***************************************************************************)
(* qf_unlock, and what follows it: qf_insert_single counts its element     *)
(* only then.                                                              *)
(***************************************************************************)

UnlockNext(t) ==
    /\ pc[t] = "finish" /\ todo[t] = << >> /\ LocksNext(t)
    /\ locks' = locks \ {Home(t) + 1}
    /\ Goto(t, "unlock")
    /\ UNCHANGED << call, todo, ret, table, metadata >>

\* Faulty variant of Unlock: the lock is released before the slots are counted.
UnlockBeforeCounting(t) ==
    /\ pc[t] = "unlock" \/ (pc[t] = "finish" /\ ~LocksNext(t))
    /\ locks' = locks \ {Home(t)}
    /\ todo' = [todo EXCEPT ![t] = IF call[t].kind = "insert_single"
                                   THEN Append(@, << "nelts", 1 >>) ELSE @]
    /\ Goto(t, "count")
    /\ UNCHANGED << call, ret, table, metadata >>

Unlock(t) ==
    /\ \/ pc[t] = "unlock"
       \/ pc[t] = "finish" /\ todo[t] = << >> /\ ~LocksNext(t)
    /\ locks' = locks \ {Home(t)}
    /\ IF call[t].kind = "insert_single"
       THEN /\ todo' = [todo EXCEPT ![t] = << << "nelts", 1 >> >>]
            /\ Goto(t, "count")
       ELSE /\ Goto(t, "return")
            /\ UNCHANGED todo
    /\ UNCHANGED << call, ret, table, metadata >>

\* The call returns; its arguments and its result are forgotten.
Return(t) ==
    /\ pc[t] = "return" \/ (pc[t] = "count" /\ todo[t] = << >>)
    /\ Goto(t, "idle")
    /\ call' = [call EXCEPT ![t] = NoCall]
    /\ ret' = [ret EXCEPT ![t] = "ok"]
    /\ back' = [back EXCEPT ![t] = "finish"]
    /\ UNCHANGED << locks, metadata_lock, counters, tmp, todo, table >>

\* A step of a call that has started.
Step(t) ==
    \/ Check(t) \/ Lock(t) \/ LockNext(t) \/ BackOff(t) \/ Read(t)
    \/ WriteSingle(t) \/ WriteMementos(t) \/ WriteDelete(t) \/ NoRoom(t) \/ Query(t)
    \/ MetaLock(t) \/ MetaRead(t) \/ MetaWrite(t) \/ MetaUnlock(t)
    \/ UnlockNext(t) \/ Unlock(t) \/ Return(t)

Next == \E t \in Threads : Call(t) \/ Step(t)

Spec == Init /\ [][Next]_vars

\* A thread inside a call keeps running.
FairSpec == Spec /\ \A t \in Threads : WF_vars(Step(t))

(***************************************************************************)
(* Properties.                                                             *)
(***************************************************************************)

InMetadata(t) == pc[t] \in {"meta_read", "meta_write", "meta_unlock"}

\* The regions a thread has locked, from where it is in its call.
Held(t) ==
    IF pc[t] \in {"lock_next", "back_off", "unlock"} THEN {Home(t)}
    ELSE IF pc[t] \in {"read", "write", "finish"} \/ (InMetadata(t) /\ back[t] = "finish")
         THEN LockSet(t)
         ELSE {}

\* Every call stays within ClusterSize of its bucket, the assumption qf_lock makes.
ShortReaches == \A d \in Reaches : d <= ClusterSize

\* No call of qf_insert_single finds the table full, the path on which it keeps
\* its locks.
SinglesFit == "insert_single" \notin FullFor

TypeOK ==
    /\ locks \subseteq Regions
    /\ metadata_lock \in BOOLEAN
    /\ counters \in [Counters -> Int]
    /\ used \in [Regions -> Int]
    /\ pc \in [Threads -> Places]
    /\ call \in [Threads -> Calls \cup {NoCall}]
    /\ seen \in [Threads -> [Regions -> Int]]
    /\ todo \in [Threads -> Seq(Counters \X Int)]
    /\ back \in [Threads -> {"finish", "count"}]
    /\ tmp \in [Threads -> Int]
    /\ ret \in [Threads -> Results]
    /\ applied \in [Regions -> Int]

\* A region is locked exactly while one thread is between taking its lock and
\* releasing it: no two threads hold it, and no way out of a call, the busy
\* second lock included, leaves it behind (qf_lock, qf_unlock).
LocksExact ==
    /\ locks = UNION {Held(t) : t \in Threads}
    /\ \A t, u \in Threads : t # u => Held(t) \cap Held(u) = {}

\* No thread writes back over another's change: between the read of a call and
\* its write the regions it rewrites stay as they were, although it only locks
\* the region of its bucket and at most the next (qf_lock, CLUSTER_SIZE).
NoLostUpdate ==
    /\ used = applied
    /\ \A t \in Threads : pc[t] = "write" => \A r \in Rewritten(t) : seen[t][r] = used[r]

\* One thread at a time is in modify_metadata, and what it adds to is the
\* counter as it is.
CountersExclusive ==
    /\ \A t, u \in Threads : InMetadata(t) /\ InMetadata(u) => t = u
    /\ \A t \in Threads : pc[t] = "meta_write" => tmp[t] = counters[Head(todo[t])[1]]

MaxGrowth == CHOOSE g \in Growths : \A h \in Growths : h <= g

\* The capacity check is made before anything is locked, so every thread may pass
\* it on the same value of noccupied_slots; the table is then overfilled by at
\* most one call's growth for each thread.
OverfillBounded ==
    counters["noccupied_slots"] <= NSlots - 2 + Cardinality(Threads) * MaxGrowth

Returning(t) == pc[t] = "return" \/ (pc[t] = "count" /\ todo[t] = << >>)

\* While some thread is inside a call, some call will return: no lock is lost and
\* no two threads wait for each other (qf_lock takes the lower region first).
SystemProgress == (\E t \in Threads : pc[t] # "idle") ~> (\E t \in Threads : Returning(t))
================================================================================
