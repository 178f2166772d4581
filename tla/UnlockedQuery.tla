----------------------------- MODULE UnlockedQuery -----------------------------
(***************************************************************************)
(* A point query that runs while another thread updates the filter.        *)
(* qf_point_query takes no lock, whatever its flags ask for, so that       *)
(* updates come between its reads: it asks whether the bucket is occupied, *)
(* finds the start of its run, and then goes from box to box by what the   *)
(* table holds at that time.                                               *)
(*                                                                         *)
(* An update is one step here.  That is one of the interleavings of the    *)
(* program, the one where the updater is not interrupted; what goes wrong  *)
(* between its own writes is left out.                                     *)
(***************************************************************************)
EXTENDS MementoFilterProperties

VARIABLES
    query,      \* the query: where it is, its key, its position and its answer
    held        \* whether its key has been in the filter ever since it began

concurrentVars == << vars, query, held >>

IdleQuery == [pc |-> "idle", key |-> NoPos, pos |-> NoPos, positive |-> FALSE]

ConcurrentInit == Init /\ query = IdleQuery /\ held = FALSE

\* The key is hashed and the bucket looked up.
BeginQuery(x, m) ==
    /\ query.pc = "idle"
    /\ query' = [pc |-> IF IsOccupied(qf, x[1]) THEN "locate" ELSE "answered",
                 key |-> x \o << m >>, pos |-> NoPos, positive |-> FALSE]
    /\ held' = (x \o << m >> \in DOMAIN Contents)
    /\ UNCHANGED vars

\* runstart_index
LocateRun ==
    /\ query.pc = "locate"
    /\ query' = [query EXCEPT !.pc = "examine",
                              !.pos = Max({query.key[1], RunStart(qf, query.key[1])})]
    /\ UNCHANGED << vars, held >>

\* One turn of the loop: the next matching box from pos on.
ExamineBox ==
    LET box == NextMatching(qf, query.pos, query.key[2])
        answered(positive) == [query EXCEPT !.pc = "answered", !.positive = positive]
    IN  /\ query.pc = "examine"
        /\ query' =
             IF box = NoPos THEN answered(FALSE)
             ELSE IF FoundInBox(box, query.key[3]) = query.key[3] THEN answered(TRUE)
             ELSE IF IsRunend(qf, box + BoxLen(qf, box) - 1) THEN answered(FALSE)
             ELSE [query EXCEPT !.pos = box + BoxLen(qf, box)]
        /\ UNCHANGED << vars, held >>

ReturnAnswer ==
    /\ query.pc = "answered"
    /\ query' = IdleQuery
    /\ held' = FALSE
    /\ UNCHANGED vars

\* Another thread's call.
Update ==
    /\ Next
    /\ held' = (held /\ query.key \in DOMAIN Contents')
    /\ UNCHANGED query

ConcurrentNext ==
    \/ \E x \in KeyPrefixes, m \in KeyMementos : BeginQuery(x, m)
    \/ LocateRun
    \/ ExamineBox
    \/ ReturnAnswer
    \/ Update

ConcurrentSpec == ConcurrentInit /\ [][ConcurrentNext]_concurrentVars

\* memento.h: the filter supports concurrent insertions and queries, with the
\* portion examined locked.  A key that is in the filter from a query's first
\* step to its last is then found.
QueryFindsHeld == query.pc = "answered" /\ held => query.positive
================================================================================
