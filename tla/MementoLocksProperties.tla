------------------------- MODULE MementoLocksProperties -------------------------
(***************************************************************************)
(* What the counters of the metadata say of the table when several threads *)
(* change both (modify_metadata runs under its own lock, and after the     *)
(* change it counts).                                                      *)
(***************************************************************************)
EXTENDS MementoLocks, Functions

\* The slots that modify_metadata calls add to noccupied_slots.
SlotsIn(updates) ==
    SumFunction([i \in DOMAIN updates |->
                    IF updates[i][1] = "noccupied_slots" THEN updates[i][2] ELSE 0])

\* What a thread has changed in the table and not yet counted.
Uncounted(t) == SlotsIn(todo[t])

\* The slots in use are noccupied_slots and what the threads still have to add:
\* when no call is running the counter the capacity check reads is exact.
SlotsBalanced ==
    SumFunction(used)
        = counters["noccupied_slots"] + SumFunction([t \in Threads |-> Uncounted(t)])

\* noccupied_slots is unsigned, and a delete never takes it below zero, however
\* the counting of the insert that took the slots is delayed.
NoUnderflow == counters["noccupied_slots"] >= 0

\* The thread waits for a lock that is taken: in qf_lock for its region or the next,
\* or in modify_metadata.
Spinning(t) ==
    \/ pc[t] = "lock" /\ call[t].wait /\ Home(t) \in locks
    \/ pc[t] = "lock_next" /\ call[t].wait /\ Home(t) + 1 \in locks
    \/ pc[t] \in {"finish", "count"} /\ todo[t] # << >> /\ metadata_lock

\* The threads inside a call never all wait for each other, although each takes two
\* regions and the metadata under locks of their own, and neighbouring regions make
\* chains of such pairs (qf_lock takes the lower region first).
NoStandstill ==
    (\E t \in Threads : pc[t] # "idle") => \E t \in Threads : pc[t] # "idle" /\ ~Spinning(t)

=================================================================================
