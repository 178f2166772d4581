----------------------- MODULE MementoLocksCapacity_proof -----------------------
(***************************************************************************)
(* How far the table can be overfilled, for any number of threads: the     *)
(* capacity check of the insertions reads noccupied_slots before any lock  *)
(* is taken, and what a thread takes is counted long after its check.      *)
(***************************************************************************)
EXTENDS MementoLocks_proof, FiniteSetTheorems

\* There are finitely many threads, a call grows the table by a bounded number of
\* slots, of which one slot is possible, and the table has room for one insertion.
SizesFit ==
    /\ IsFiniteSet(Threads)
    /\ NSlots >= 2
    /\ \E g \in Growths : g >= 1 /\ \A h \in Growths : h <= g

Counts(t, i) == todo[t][i][1] = "noccupied_slots"

\* Where a call is between its capacity check and its change to the table.
BeforeWrite == {"lock", "lock_next", "read", "write"}

\* The thread has passed the capacity check and not yet counted the slots it takes.
InFlight(t) ==
    \/ pc[t] \in BeforeWrite /\ call[t].kind \in Insertions
    \/ \E i \in DOMAIN todo[t] : Counts(t, i) /\ todo[t][i][2] > 0

Flying == {t \in Threads : InFlight(t)}

\* A call counts its slots once, and takes no more than the largest growth.
CountsOnce(t) ==
    \A i \in DOMAIN todo[t] :
        Counts(t, i) => /\ todo[t][i][2] <= MaxGrowth
                        /\ \A j \in DOMAIN todo[t] : Counts(t, j) => i = j

\* Each thread in flight can still add the largest growth.
CapacityInv ==
    /\ \A t \in Threads : CountsOnce(t)
    /\ counters["noccupied_slots"] + Cardinality(Flying) * MaxGrowth
         <= NSlots - 2 + Cardinality(Threads) * MaxGrowth

(***************************************************************************)
(* Arithmetic.                                                             *)
(***************************************************************************)

\* The largest growth is one, and bounds the others.
LEMMA GrowthBound ==
    ASSUME SizesFit
    PROVE  /\ MaxGrowth \in Growths /\ MaxGrowth \in Nat /\ MaxGrowth >= 1
           /\ \A h \in Growths : h <= MaxGrowth
<1>1. PICK g \in Growths : g >= 1 /\ \A h \in Growths : h <= g
  BY DEF SizesFit
<1>2. MaxGrowth \in Growths /\ \A h \in Growths : h <= MaxGrowth
  BY <1>1 DEF MaxGrowth
<1> QED
  BY <1>1, <1>2, LocksAssumption

\* Fewer threads in flight can add less.
LEMMA TimesMonotone ==
    ASSUME NEW a \in Nat, NEW b \in Nat, NEW m \in Nat, a <= b
    PROVE  a * m <= b * m /\ a * m \in Nat
BY SMT

\* One thread less in flight can add one growth less.
LEMMA TimesLess ==
    ASSUME NEW a \in Nat, NEW b \in Nat, NEW m \in Nat, a + 1 <= b
    PROVE  a * m + m <= b * m
<1>1. (a + 1) * m = a * m + m
  BY SMT
<1>2. (a + 1) * m <= b * m
  BY TimesMonotone
<1> QED
  BY <1>1, <1>2

\* The threads in flight are some of the threads, before a step and after it.
LEMMA FlyingFinite ==
    ASSUME SizesFit
    PROVE  /\ IsFiniteSet(Flying) /\ IsFiniteSet(Flying') /\ IsFiniteSet(Threads)
           /\ Cardinality(Flying) \in Nat
           /\ Cardinality(Flying') \in Nat /\ Cardinality(Flying') <= Cardinality(Threads)
           /\ Cardinality(Threads) \in Nat
<1>1. Flying \in SUBSET Threads /\ Flying' \in SUBSET Threads
  BY DEF Flying
<1>2. IsFiniteSet(Threads)
  BY DEF SizesFit
<1>3. IsFiniteSet(Flying) /\ IsFiniteSet(Flying') /\ Cardinality(Flying') <= Cardinality(Threads)
  BY <1>1, <1>2, FS_Subset
<1> QED
  BY <1>2, <1>3, FS_CardinalityType

(***************************************************************************)
(* The steps.                                                              *)
(***************************************************************************)

LEMMA CapacityInit == SizesFit /\ Init => CapacityInv
<1> SUFFICES ASSUME SizesFit, Init PROVE CapacityInv
  OBVIOUS
<1>1. \A t \in Threads : DOMAIN todo[t] = {} /\ pc[t] = "idle"
  BY DEF Init
<1>2. Flying = {}
  BY <1>1 DEF Flying, InFlight, BeforeWrite
<1>3. Cardinality(Flying) = 0
  BY <1>2, FS_EmptySet
<1>4. counters["noccupied_slots"] = 0
  BY DEF Init, Counters
<1>5. Cardinality(Threads) * MaxGrowth \in Nat
  BY FlyingFinite, GrowthBound, TimesMonotone
<1>6. Cardinality(Flying) * MaxGrowth = 0
  BY <1>3, GrowthBound
<1>7. \A t \in Threads : CountsOnce(t)
  BY <1>1 DEF CountsOnce
<1> HIDE DEF Flying
<1> QED
  BY <1>4, <1>5, <1>6, <1>7, LocksAssumption DEF CapacityInv, SizesFit

\* A thread that keeps its place, its call and what it has to count.
LEMMA FlightKept ==
    ASSUME NEW u \in Threads, pc'[u] = pc[u], call'[u] = call[u], todo'[u] = todo[u]
    PROVE  (CountsOnce(u)' <=> CountsOnce(u)) /\ (InFlight(u)' <=> InFlight(u))
BY DEF CountsOnce, InFlight, Counts

\* A step that counts nothing and takes no thread into flight.
LEMMA NoneTakesOff ==
    ASSUME SizesFit, TypeInv, CapacityInv, NEW t \in Threads,
           \A u \in Threads \ {t} : pc'[u] = pc[u] /\ call'[u] = call[u] /\ todo'[u] = todo[u],
           counters' = counters, CountsOnce(t)', InFlight(t)' => InFlight(t)
    PROVE  CapacityInv'
<1>1. \A u \in Threads : CountsOnce(u)'
  BY DEF CapacityInv, CountsOnce, Counts
<1>2. Flying' \in SUBSET Flying
  BY DEF Flying, InFlight, Counts
<1>3. Cardinality(Flying') <= Cardinality(Flying)
  BY <1>2, FlyingFinite, FS_Subset
<1>4. Cardinality(Flying') * MaxGrowth <= Cardinality(Flying) * MaxGrowth
      /\ Cardinality(Flying') * MaxGrowth \in Nat /\ Cardinality(Flying) * MaxGrowth \in Nat
      /\ Cardinality(Threads) * MaxGrowth \in Nat
  BY <1>3, FlyingFinite, GrowthBound, TimesMonotone
<1>5. counters["noccupied_slots"] \in Int
  BY DEF TypeInv, TypeOK, Counters
<1> QED
  BY <1>1, <1>4, <1>5, LocksAssumption DEF CapacityInv

\* A step of the capacity check: whoever is in flight after it, the check has found
\* room for the slots that are counted.
LEMMA OneTakesOff ==
    ASSUME SizesFit, TypeInv, CapacityInv, NEW t \in Threads,
           UNCHANGED << counters, todo >>, counters["noccupied_slots"] <= NSlots - 2
    PROVE  CapacityInv'
<1>1. \A u \in Threads : CountsOnce(u)'
  BY DEF CapacityInv, CountsOnce, Counts
<1>2. Cardinality(Flying') * MaxGrowth <= Cardinality(Threads) * MaxGrowth
      /\ Cardinality(Flying') * MaxGrowth \in Nat /\ Cardinality(Threads) * MaxGrowth \in Nat
  BY FlyingFinite, GrowthBound, TimesMonotone
<1>3. counters["noccupied_slots"] \in Int
  BY DEF TypeInv, TypeOK, Counters
<1> QED
  BY <1>1, <1>2, <1>3, LocksAssumption DEF CapacityInv

\* The list of what is to be counted, after its first entry has been.
LEMMA TailOfTodo ==
    ASSUME TypeInv, NEW t \in Threads, todo[t] # << >>, todo'[t] = Tail(todo[t])
    PROVE  /\ 1 \in DOMAIN todo[t] /\ todo[t][1] = Head(todo[t])
           /\ todo[t][1][1] \in Counters /\ todo[t][1][2] \in Int
           /\ \A i \in DOMAIN todo'[t] : /\ i + 1 \in DOMAIN todo[t] /\ i + 1 # 1
                                         /\ todo'[t][i] = todo[t][i + 1]
           /\ \A i, j \in DOMAIN todo'[t] : i + 1 = j + 1 => i = j
<1>1. todo[t] \in Seq(Counters \X Int)
  BY DEF TypeInv, TypeOK
<1>2. /\ Len(todo[t]) \in Nat /\ Len(todo[t]) >= 1 /\ DOMAIN todo[t] = 1 .. Len(todo[t])
      /\ DOMAIN todo'[t] = 1 .. Len(todo[t]) - 1
      /\ \A i \in 1 .. Len(todo[t]) - 1 : todo'[t][i] = todo[t][i + 1]
  BY <1>1
<1>3. todo[t][1] \in Counters \X Int /\ todo[t][1] = Head(todo[t])
  BY <1>1, <1>2
<1> QED
  BY <1>2, <1>3

LEMMA CountsOnceTail ==
    ASSUME TypeInv, CapacityInv, NEW t \in Threads, todo[t] # << >>, todo'[t] = Tail(todo[t])
    PROVE  CountsOnce(t)'
<1>1. CountsOnce(t)
  BY DEF CapacityInv
<1>2. ASSUME NEW i \in DOMAIN todo'[t], todo'[t][i][1] = "noccupied_slots"
      PROVE  /\ todo'[t][i][2] <= MaxGrowth
             /\ \A j \in DOMAIN todo'[t] : todo'[t][j][1] = "noccupied_slots" => i = j
  <2>1. i + 1 \in DOMAIN todo[t] /\ Counts(t, i + 1) /\ todo'[t][i] = todo[t][i + 1]
    BY <1>2, TailOfTodo DEF Counts
  <2>2. \A j \in DOMAIN todo'[t] : todo'[t][j][1] = "noccupied_slots" =>
              j + 1 \in DOMAIN todo[t] /\ Counts(t, j + 1)
    BY TailOfTodo DEF Counts
  <2> QED
    BY <1>1, <2>1, <2>2, TailOfTodo DEF CountsOnce
<1> QED
  BY <1>2 DEF CountsOnce, Counts

\* A thread that counts the slots it has taken lands.
LEMMA OneLands ==
    ASSUME SizesFit, TypeInv, MetadataInv, CapacityInv, NEW t \in Threads, MetaWrite(t)
    PROVE  CapacityInv'
<1> DEFINE c == Head(todo[t])[1]
           n == Head(todo[t])[2]
<1>1. /\ pc[t] = "meta_write" /\ todo[t] # << >> /\ todo'[t] = Tail(todo[t])
      /\ pc'[t] = "meta_unlock"
      /\ \A u \in Threads \ {t} : pc'[u] = pc[u] /\ call'[u] = call[u] /\ todo'[u] = todo[u]
  BY DEF MetaWrite, Goto, TypeInv, TypeOK, Started
<1>2. c \in Counters /\ n \in Int /\ counters[c] \in Int
      /\ counters' = [counters EXCEPT ![c] = counters[c] + n]
  <2>1. todo[t][1] = Head(todo[t]) /\ c \in Counters /\ n \in Int
    BY <1>1, TailOfTodo
  <2>2. tmp[t] = counters[c]
    BY <1>1 DEF MetadataInv, CountersExclusive
  <2> QED
    BY <2>1, <2>2 DEF MetaWrite, TypeInv, TypeOK
<1>3. CountsOnce(t)'
  BY <1>1, CountsOnceTail
<1>4. InFlight(t)' => InFlight(t)
  <2>1. SUFFICES ASSUME InFlight(t)' PROVE InFlight(t)
    OBVIOUS
  <2>2. PICK i \in DOMAIN todo'[t] : todo'[t][i][1] = "noccupied_slots" /\ todo'[t][i][2] > 0
    BY <1>1, <2>1 DEF InFlight, Counts, BeforeWrite
  <2>3. i + 1 \in DOMAIN todo[t] /\ todo[t][i + 1] = todo'[t][i]
    BY <1>1, TailOfTodo
  <2> QED
    BY <2>2, <2>3 DEF InFlight, Counts
<1>5. counters["noccupied_slots"] \in Int
  BY DEF TypeInv, TypeOK, Counters
<1>6. \A u \in Threads : CountsOnce(u)'
  BY <1>1, <1>3, FlightKept DEF CapacityInv
<1>7. Flying' \in SUBSET Flying
  BY <1>1, <1>4, FlightKept DEF Flying
<1>8. Cardinality(Flying') <= Cardinality(Flying)
  BY <1>7, FlyingFinite, FS_Subset
<1>9. /\ Cardinality(Flying') * MaxGrowth <= Cardinality(Flying) * MaxGrowth
      /\ Cardinality(Flying') * MaxGrowth \in Nat /\ Cardinality(Flying) * MaxGrowth \in Nat
      /\ Cardinality(Threads) * MaxGrowth \in Nat
  BY <1>8, FlyingFinite, GrowthBound, TimesMonotone
<1>10. CASE c # "noccupied_slots"
  <2>1. counters'["noccupied_slots"] = counters["noccupied_slots"]
    BY <1>2, <1>10 DEF TypeInv, TypeOK, Counters
  <2> QED
    BY <1>5, <1>6, <1>9, <2>1, LocksAssumption DEF CapacityInv
<1>11. CASE c = "noccupied_slots"
  <2>1. counters'["noccupied_slots"] = counters["noccupied_slots"] + n
    BY <1>2, <1>11 DEF TypeInv, TypeOK
  <2>2. 1 \in DOMAIN todo[t] /\ todo[t][1] = Head(todo[t]) /\ Counts(t, 1)
    BY <1>1, <1>11, TailOfTodo DEF Counts
  <2>3. CASE n <= 0
    BY <1>2, <1>5, <1>6, <1>9, <2>1, <2>3, LocksAssumption DEF CapacityInv
  <2>4. CASE n > 0
    <3>1. n <= MaxGrowth
      BY <2>2 DEF CapacityInv, CountsOnce
    <3>2. InFlight(t)
      BY <2>2, <2>4 DEF InFlight
    <3>3. ~InFlight(t)'
      <4>1. ASSUME NEW i \in DOMAIN todo'[t], todo'[t][i][1] = "noccupied_slots"
            PROVE  FALSE
        <5>1. i + 1 \in DOMAIN todo[t] /\ Counts(t, i + 1) /\ i + 1 # 1
          BY <1>1, <4>1, TailOfTodo DEF Counts
        <5> QED
          BY <2>2, <5>1 DEF CapacityInv, CountsOnce
      <4> QED
        BY <1>1, <4>1 DEF InFlight, Counts, BeforeWrite
    <3>4. Flying' \in SUBSET (Flying \ {t}) /\ t \in Flying
      BY <1>7, <3>2, <3>3 DEF Flying
    <3>5. /\ IsFiniteSet(Flying \ {t})
          /\ Cardinality(Flying \ {t}) = Cardinality(Flying) - 1
      BY <3>4, FlyingFinite, FS_RemoveElement
    <3>6. Cardinality(Flying') <= Cardinality(Flying \ {t})
      BY <3>4, <3>5, FS_Subset
    <3>7. Cardinality(Flying') + 1 <= Cardinality(Flying)
      BY <3>5, <3>6, FlyingFinite
    <3>8. Cardinality(Flying') * MaxGrowth + MaxGrowth <= Cardinality(Flying) * MaxGrowth
      BY <3>7, FlyingFinite, GrowthBound, TimesLess
    <3> QED
      BY <1>2, <1>5, <1>6, <1>9, <2>1, <3>1, <3>8, GrowthBound, LocksAssumption DEF CapacityInv
  <2> QED
    BY <1>2, <2>3, <2>4
<1> QED
  BY <1>10, <1>11

\* A step that leaves what is to be counted as it is.
LEMMA SameTodo ==
    ASSUME CapacityInv, NEW t \in Threads, todo' = todo,
           pc'[t] \in BeforeWrite => pc[t] \in BeforeWrite /\ call'[t] = call[t]
    PROVE  CountsOnce(t)' /\ (InFlight(t)' => InFlight(t))
<1>1. CountsOnce(t)
  BY DEF CapacityInv
<1> QED
  BY <1>1 DEF CountsOnce, InFlight, Counts

\* What the operations give to be counted.
LEMMA TodoCounts ==
    ASSUME SizesFit, NEW t \in Threads, NEW n \in Int, n <= MaxGrowth, NEW m,
           \/ todo'[t] = Updates("noccupied_slots", n)
           \/ todo'[t] = << << "ndistinct_elts", 1 >>, << "noccupied_slots", n >> >>
           \/ todo'[t] = << << "ndistinct_elts", 1 >>, << "noccupied_slots", n >>,
                            << "nelts", m >> >>
    PROVE  /\ CountsOnce(t)'
           /\ n <= 0 => \A i \in DOMAIN todo'[t] : Counts(t, i)' => ~(todo'[t][i][2] > 0)
<1>1. CASE todo'[t] = Updates("noccupied_slots", n)
  BY <1>1 DEF Updates, CountsOnce, Counts
<1>2. CASE todo'[t] = << << "ndistinct_elts", 1 >>, << "noccupied_slots", n >> >>
  BY <1>2 DEF CountsOnce, Counts
<1>3. CASE todo'[t] = << << "ndistinct_elts", 1 >>, << "noccupied_slots", n >>, << "nelts", m >> >>
  BY <1>3 DEF CountsOnce, Counts
<1> QED
  BY <1>1, <1>2, <1>3

LEMMA CapacityStep ==
    ASSUME SizesFit, TypeInv, MetadataInv, CapacityInv, [Next]_vars
    PROVE  CapacityInv'
<1> DEFINE Others(t) == /\ \A u \in Threads \ {t} : /\ pc'[u] = pc[u] /\ call'[u] = call[u]
                                                    /\ todo'[u] = todo[u]
                        /\ counters' = counters
           Quiet(t) == Others(t) /\ CountsOnce(t)' /\ (InFlight(t)' => InFlight(t))
           Keeps(t) == /\ Others(t) /\ todo' = todo
                       /\ pc'[t] \in BeforeWrite => pc[t] \in BeforeWrite /\ call'[t] = call[t]
<1>1. ASSUME NEW t \in Threads, Quiet(t)
      PROVE  CapacityInv'
  BY <1>1, NoneTakesOff
<1>2. ASSUME NEW t \in Threads, Keeps(t)
      PROVE  CapacityInv'
  BY <1>1, <1>2, SameTodo
<1>3. ASSUME NEW t \in Threads, Call(t)
      PROVE  CapacityInv'
  <2>1. PICK c \in Calls : /\ call' = [call EXCEPT ![t] = c]
                           /\ pc' = [pc EXCEPT ![t] = StartOf(c.kind)]
    BY <1>3 DEF Call, Goto
  <2>2. /\ StartOf(c.kind) \in {"check", "lock", "query"}
        /\ StartOf(c.kind) = "lock" => c.kind \notin Insertions
    BY LocksAssumption DEF Calls, StartOf, Operations, Insertions
  <2>3. Others(t) /\ todo' = todo /\ pc'[t] = StartOf(c.kind) /\ call'[t] = c
    BY <1>3, <2>1 DEF Call, TypeInv, TypeOK, table, metadata
  <2>4. CountsOnce(t)'
    BY <2>3 DEF CapacityInv, CountsOnce, Counts
  <2>5. InFlight(t)' => InFlight(t)
    BY <2>2, <2>3 DEF InFlight, Counts, BeforeWrite
  <2> QED
    BY <1>1, <2>3, <2>4, <2>5
<1>4. ASSUME NEW t \in Threads, Check(t)
      PROVE  CapacityInv'
  <2>1. CASE ReturnWith(t, "no_space")
    <3>1. Keeps(t)
      BY <1>4, <2>1 DEF Check, ReturnWith, Goto, TypeInv, TypeOK, BeforeWrite, table, metadata
    <3> QED
      BY <1>2, <3>1
  <2>2. CASE ~(counters["noccupied_slots"] + NewSlots(call[t].kind) >= NSlots)
    <3>1. NewSlots(call[t].kind) \in Int /\ NewSlots(call[t].kind) >= 1
      BY DivMod, LocksAssumption DEF NewSlots
    <3>2. counters["noccupied_slots"] \in Int
      BY DEF TypeInv, TypeOK, Counters
    <3>3. counters["noccupied_slots"] <= NSlots - 2
      BY <2>2, <3>1, <3>2, LocksAssumption
    <3> QED
      BY <1>4, <3>3, OneTakesOff DEF Check, metadata
  <2> QED
    BY <1>4, <2>1, <2>2 DEF Check
<1>5. ASSUME NEW t \in Threads, Lock(t)
      PROVE  Keeps(t)
  BY <1>5 DEF Lock, ReturnWith, Goto, TypeInv, TypeOK, BeforeWrite, table, metadata
<1>6. ASSUME NEW t \in Threads, LockNext(t)
      PROVE  Keeps(t)
  BY <1>6 DEF LockNext, Goto, TypeInv, TypeOK, BeforeWrite, table, metadata
<1>7. ASSUME NEW t \in Threads, BackOff(t)
      PROVE  Keeps(t)
  BY <1>7 DEF BackOff, ReturnWith, Goto, TypeInv, TypeOK, BeforeWrite, table, metadata
<1>8. ASSUME NEW t \in Threads, Read(t)
      PROVE  Keeps(t)
  BY <1>8 DEF Read, Goto, TypeInv, TypeOK, BeforeWrite, table, metadata
<1>9. ASSUME NEW t \in Threads, NEW n \in Int, n <= MaxGrowth,
             Others(t), pc[t] = "write", pc'[t] = "finish",
             n > 0 => call[t].kind \in Insertions,
             \/ todo' = [todo EXCEPT ![t] = Updates("noccupied_slots", n)]
             \/ todo' = [todo EXCEPT ![t] =
                           << << "ndistinct_elts", 1 >>, << "noccupied_slots", n >> >>]
             \/ todo' = [todo EXCEPT ![t] = << << "ndistinct_elts", 1 >>,
                                               << "noccupied_slots", n >>,
                                               << "nelts", ListLength >> >>]
      PROVE  CapacityInv'
  <2>1. \/ todo'[t] = Updates("noccupied_slots", n)
        \/ todo'[t] = << << "ndistinct_elts", 1 >>, << "noccupied_slots", n >> >>
        \/ todo'[t] = << << "ndistinct_elts", 1 >>, << "noccupied_slots", n >>,
                         << "nelts", ListLength >> >>
    BY <1>9 DEF TypeInv, TypeOK
  <2>2. /\ CountsOnce(t)'
        /\ n <= 0 => \A i \in DOMAIN todo'[t] : Counts(t, i)' => ~(todo'[t][i][2] > 0)
    BY <1>9, <2>1, TodoCounts
  <2>3. CASE n > 0
    <3>1. InFlight(t)
      BY <1>9, <2>3 DEF InFlight, BeforeWrite
    <3> QED
      BY <1>1, <1>9, <2>2, <3>1
  <2>4. CASE n <= 0
    <3>1. ~InFlight(t)'
      BY <1>9, <2>2, <2>4 DEF InFlight, BeforeWrite, Counts
    <3> QED
      BY <1>1, <1>9, <2>2, <3>1
  <2> QED
    BY <1>9, <2>3, <2>4
<1>10. ASSUME NEW t \in Threads, WriteSingle(t)
       PROVE  CapacityInv'
  <2>1. PICK n \in Int : /\ n <= MaxGrowth
                         /\ \/ todo' = [todo EXCEPT ![t] = Updates("noccupied_slots", n)]
                            \/ todo' = [todo EXCEPT ![t] =
                                 << << "ndistinct_elts", 1 >>, << "noccupied_slots", n >> >>]
    BY <1>10, GrowthBound, LocksAssumption DEF WriteSingle
  <2>2. /\ Others(t) /\ pc[t] = "write" /\ pc'[t] = "finish"
        /\ call[t].kind \in Insertions
    BY <1>10, <2>1 DEF WriteSingle, Goto, Insertions, TypeInv, TypeOK, metadata
  <2> QED
    BY <1>9, <2>1, <2>2
<1>11. ASSUME NEW t \in Threads, WriteMementos(t)
       PROVE  CapacityInv'
  <2>1. PICK n \in Growths : todo' = [todo EXCEPT ![t] = << << "ndistinct_elts", 1 >>,
                                                            << "noccupied_slots", n >>,
                                                            << "nelts", ListLength >> >>]
    BY <1>11 DEF WriteMementos
  <2>2. /\ Others(t) /\ pc[t] = "write" /\ pc'[t] = "finish"
        /\ call[t].kind \in Insertions
    BY <1>11, <2>1 DEF WriteMementos, Goto, Insertions, TypeInv, TypeOK, metadata
  <2>3. n \in Int /\ n <= MaxGrowth
    BY GrowthBound, LocksAssumption
  <2> QED
    BY <1>9, <2>1, <2>2, <2>3
<1>12. ASSUME NEW t \in Threads, WriteDelete(t)
       PROVE  CapacityInv'
  <2>1. CASE \E n \in Int : /\ n <= 0
                            /\ todo' = [todo EXCEPT ![t] = Updates("noccupied_slots", n)]
    <3>1. PICK n \in Int : /\ n <= 0
                           /\ todo' = [todo EXCEPT ![t] = Updates("noccupied_slots", n)]
      BY <2>1
    <3>2. Others(t) /\ pc[t] = "write" /\ pc'[t] = "finish"
      BY <1>12, <3>1 DEF WriteDelete, Goto, TypeInv, TypeOK, metadata
    <3>3. n <= MaxGrowth /\ ~(n > 0)
      BY <3>1, GrowthBound
    <3> QED
      BY <1>9, <3>1, <3>2, <3>3
  <2>2. CASE todo' = todo
    <3>1. Keeps(t)
      BY <1>12, <2>2 DEF WriteDelete, Goto, TypeInv, TypeOK, BeforeWrite, metadata
    <3> QED
      BY <1>2, <3>1
  <2>3. \A g \in Growths : 0 - g \in Int /\ 0 - g <= 0
    BY LocksAssumption
  <2> QED
    BY <1>12, <2>1, <2>2, <2>3 DEF WriteDelete
<1>13. ASSUME NEW t \in Threads, NoRoom(t)
      PROVE  Keeps(t)
  BY <1>13 DEF NoRoom, Goto, TypeInv, TypeOK, BeforeWrite, table, metadata
<1>14. ASSUME NEW t \in Threads, Query(t)
      PROVE  Keeps(t)
  BY <1>14 DEF Query, ReturnWith, Goto, TypeInv, TypeOK, BeforeWrite, table, metadata
<1>15. ASSUME NEW t \in Threads, MetaLock(t)
      PROVE  Keeps(t)
  BY <1>15 DEF MetaLock, Goto, TypeInv, TypeOK, BeforeWrite, table, metadata
<1>16. ASSUME NEW t \in Threads, MetaRead(t)
      PROVE  Keeps(t)
  BY <1>16 DEF MetaRead, Goto, TypeInv, TypeOK, BeforeWrite, table, metadata
<1>17. ASSUME NEW t \in Threads, MetaWrite(t)
       PROVE  CapacityInv'
  BY <1>17, OneLands
<1>18. ASSUME NEW t \in Threads, MetaUnlock(t)
      PROVE  Keeps(t)
  BY <1>18 DEF MetaUnlock, Goto, TypeInv, TypeOK, BeforeWrite, table, metadata
<1>19. ASSUME NEW t \in Threads, UnlockNext(t)
      PROVE  Keeps(t)
  BY <1>19 DEF UnlockNext, Goto, TypeInv, TypeOK, BeforeWrite, table, metadata
<1>20. ASSUME NEW t \in Threads, Unlock(t)
       PROVE  CapacityInv'
  <2>1. CASE todo' = todo
    <3>1. Keeps(t)
      BY <1>20, <2>1 DEF Unlock, Goto, TypeInv, TypeOK, BeforeWrite, table, metadata
    <3> QED
      BY <1>2, <3>1
  <2>2. CASE todo' = [todo EXCEPT ![t] = << << "nelts", 1 >> >>]
    <3>1. Others(t) /\ todo'[t] = << << "nelts", 1 >> >> /\ pc'[t] \notin BeforeWrite
      BY <1>20, <2>2 DEF Unlock, Goto, TypeInv, TypeOK, BeforeWrite, table, metadata
    <3>2. CountsOnce(t)' /\ ~InFlight(t)'
      BY <3>1 DEF CountsOnce, InFlight, Counts
    <3> QED
      BY <1>1, <3>1, <3>2
  <2> QED
    BY <1>20, <2>1, <2>2 DEF Unlock
<1>21. ASSUME NEW t \in Threads, Return(t)
      PROVE  Keeps(t)
  BY <1>21 DEF Return, Goto, TypeInv, TypeOK, BeforeWrite, table, metadata
<1>22. CASE UNCHANGED vars
  BY <1>22 DEF CapacityInv, CountsOnce, Counts, Flying, InFlight, vars
<1> HIDE DEF Others, Quiet, Keeps
<1> QED
  BY <1>2, <1>3, <1>4, <1>5, <1>6, <1>7, <1>8, <1>10, <1>11, <1>12, <1>13, <1>14, <1>15, <1>16,
     <1>17, <1>18, <1>19, <1>20, <1>21, <1>22 DEF Next, Step

\* The counted slots plus what the threads in flight can add stay within the
\* table and one growth for each thread.
LEMMA CapacityBounds ==
    ASSUME SizesFit, TypeInv, CapacityInv
    PROVE  OverfillBounded
<1>1. Cardinality(Flying) * MaxGrowth \in Nat /\ Cardinality(Threads) * MaxGrowth \in Nat
  BY FlyingFinite, GrowthBound, TimesMonotone
<1>2. counters["noccupied_slots"] \in Int
  BY DEF TypeInv, TypeOK, Counters
<1> QED
  BY <1>1, <1>2, LocksAssumption DEF CapacityInv, OverfillBounded

\* The capacity check is made without a lock, so the insertions may pass its limit,
\* but by no more than one growth for each thread, whatever the interleaving.
THEOREM OverfillCorrect == SizesFit => (Spec => []OverfillBounded)
<1> SUFFICES ASSUME SizesFit PROVE Spec => []OverfillBounded
  OBVIOUS
<1>1. Init => TypeInv /\ MetadataInv /\ CapacityInv
  BY TypeInit, MetadataInit, CapacityInit
<1>2. TypeInv /\ MetadataInv /\ CapacityInv /\ [Next]_vars
        => (TypeInv /\ MetadataInv /\ CapacityInv)'
  BY TypeStep, MetadataStep, CapacityStep
<1>3. TypeInv /\ CapacityInv => OverfillBounded
  BY CapacityBounds
<1> QED
  BY <1>1, <1>2, <1>3, PTL DEF Spec
=================================================================================
