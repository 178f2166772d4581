----------------------- MODULE MementoLocksProperties_proof -----------------------
(***************************************************************************)
(* What the counter of slots in use says of the table, for any number of   *)
(* threads: the two are changed under different locks, the counter later.  *)
(* And that the locks cannot deadlock.                                     *)
(***************************************************************************)
EXTENDS MementoLocksProperties, MementoLocks_proof

Updating == Seq(Counters \X Int)

CountsSlots(updates, i) == updates[i][1] = "noccupied_slots"

\* A call counts its slots once.
CountedOnce(updates) ==
    \A i, j \in DOMAIN updates : CountsSlots(updates, i) /\ CountsSlots(updates, j) => i = j

\* Where a call may have modify_metadata calls ahead.
Counting == {"finish", "count", "meta_read", "meta_write", "meta_unlock"}

\* The counts ahead of a thread are those of its own call.
Accounts ==
    \A t \in Threads : /\ CountedOnce(todo[t])
                       /\ pc[t] \notin Counting => todo[t] = << >>

CountersInv == Accounts /\ SlotsBalanced

(***************************************************************************)
(* The sums over lists of updates.                                         *)
(***************************************************************************)

Terms(updates) ==
    [i \in DOMAIN updates |-> IF CountsSlots(updates, i) THEN updates[i][2] ELSE 0]

LEMMA SlotsInTerms ==
    ASSUME NEW s \in Updating
    PROVE  /\ SlotsIn(s) = SumFunctionOnSet(Terms(s), DOMAIN s)
           /\ IsFiniteSet(DOMAIN s)
           /\ \A i \in DOMAIN s : Terms(s)[i] \in Int /\ s[i][2] \in Int
<1>1. SlotsIn(s) = SumFunctionOnSet(Terms(s), DOMAIN s)
  BY DEF SlotsIn, SumFunction, Terms, CountsSlots
<1>2. Len(s) \in Nat /\ DOMAIN s = 1 .. Len(s)
  BY DEF Updating
<1>3. IsFiniteSet(DOMAIN s)
  BY <1>2, FS_Interval
<1>4. \A i \in DOMAIN s : s[i] \in Counters \X Int
  BY DEF Updating
<1> QED
  BY <1>1, <1>3, <1>4 DEF Terms

LEMMA SlotsInType ==
    ASSUME NEW s \in Updating
    PROVE  SlotsIn(s) \in Int
BY SlotsInTerms, SumType

\* Updates of the other counters take no slots.
LEMMA NoSlots ==
    ASSUME NEW s \in Updating, \A i \in DOMAIN s : ~CountsSlots(s, i)
    PROVE  SlotsIn(s) = 0 /\ CountedOnce(s)
<1>1. \A i \in DOMAIN s : Terms(s)[i] = 0
  BY DEF Terms
<1> QED
  BY <1>1, SlotsInTerms, SumZero DEF CountedOnce

\* The one update that counts slots gives all of them.
LEMMA OneUpdate ==
    ASSUME NEW s \in Updating, CountedOnce(s), NEW k \in DOMAIN s, CountsSlots(s, k)
    PROVE  SlotsIn(s) = s[k][2]
<1> DEFINE none == [i \in DOMAIN s |-> 0]
           terms == Terms(s)
<1>1. /\ \A i \in DOMAIN s : none[i] \in Int /\ terms[i] \in Int
      /\ none[k] = 0 /\ terms[k] = s[k][2] /\ s[k][2] \in Int
      /\ IsFiniteSet(DOMAIN s)
  <2>1. terms[k] = s[k][2] /\ none[k] = 0
    BY DEF Terms
  <2>2. \A i \in DOMAIN s : none[i] \in Int
    OBVIOUS
  <2>3. /\ \A i \in DOMAIN s : terms[i] \in Int /\ s[i][2] \in Int
        /\ IsFiniteSet(DOMAIN s)
    BY SlotsInTerms
  <2> HIDE DEF none, terms
  <2> QED
    BY <2>1, <2>2, <2>3
<1>2. \A i \in DOMAIN s \ {k} : terms[i] = none[i]
  BY DEF Terms, CountedOnce
<1>3. \A i \in DOMAIN s : none[i] = 0
  OBVIOUS
<1>4. SlotsIn(s) = SumFunctionOnSet(terms, DOMAIN s)
  BY SlotsInTerms
<1> HIDE DEF none, terms
<1>5. SumFunctionOnSet(none, DOMAIN s) = 0
  BY <1>1, <1>3, SumZero
<1>6. SumFunctionOnSet(terms, DOMAIN s)
        = SumFunctionOnSet(none, DOMAIN s) + terms[k] - none[k]
  BY <1>1, <1>2, SumUpdate
<1> QED
  BY <1>1, <1>4, <1>5, <1>6

\* What the operations have to count.
LEMMA NoUpdates == << >> \in Updating /\ CountedOnce(<< >>) /\ SlotsIn(<< >>) = 0
<1>1. << >> \in Updating /\ \A i \in DOMAIN << >> : ~CountsSlots(<< >>, i)
  BY TodoTypes DEF Updating
<1> QED
  BY <1>1, NoSlots

LEMMA ElementUpdate ==
    ASSUME NEW m \in Int, NEW s, s = << << "nelts", m >> >>
    PROVE  s \in Updating /\ CountedOnce(s) /\ SlotsIn(s) = 0
<1>1. s \in Updating
  BY TodoTypes DEF Updating
<1>2. \A i \in DOMAIN s : ~CountsSlots(s, i)
  BY DEF CountsSlots
<1> QED
  BY <1>1, <1>2, NoSlots

LEMMA GrowthUpdate ==
    ASSUME NEW n \in Int, NEW s, s = Updates("noccupied_slots", n)
    PROVE  s \in Updating /\ CountedOnce(s) /\ SlotsIn(s) = n
<1>1. s \in Updating
  BY TodoTypes DEF Updating
<1>2. CASE n = 0
  BY <1>2, NoUpdates DEF Updates
<1>3. CASE n # 0
  <2>1. s = << << "noccupied_slots", n >> >>
    BY <1>3 DEF Updates
  <2>2. 1 \in DOMAIN s /\ CountsSlots(s, 1) /\ s[1][2] = n /\ CountedOnce(s)
    BY <2>1 DEF CountsSlots, CountedOnce
  <2> QED
    BY <1>1, <2>2, OneUpdate
<1> QED
  BY <1>2, <1>3

LEMMA BoxUpdate ==
    ASSUME NEW n \in Int, NEW s, s = << << "ndistinct_elts", 1 >>, << "noccupied_slots", n >> >>
    PROVE  s \in Updating /\ CountedOnce(s) /\ SlotsIn(s) = n
<1>1. s \in Updating
  BY TodoTypes DEF Updating
<1>2. 2 \in DOMAIN s /\ CountsSlots(s, 2) /\ s[2][2] = n /\ CountedOnce(s)
  BY DEF CountsSlots, CountedOnce
<1> QED
  BY <1>1, <1>2, OneUpdate

LEMMA ListUpdate ==
    ASSUME NEW n \in Int, NEW m \in Int, NEW s,
           s = << << "ndistinct_elts", 1 >>, << "noccupied_slots", n >>, << "nelts", m >> >>
    PROVE  s \in Updating /\ CountedOnce(s) /\ SlotsIn(s) = n
<1>1. s \in Updating
  BY TodoTypes DEF Updating
<1>2. 2 \in DOMAIN s /\ CountsSlots(s, 2) /\ s[2][2] = n /\ CountedOnce(s)
  BY DEF CountsSlots, CountedOnce
<1> QED
  BY <1>1, <1>2, OneUpdate

\* After the first update has been made.
LEMMA UpdatesAfterOne ==
    ASSUME NEW s \in Updating, s # << >>, CountedOnce(s)
    PROVE  /\ Tail(s) \in Updating /\ CountedOnce(Tail(s))
           /\ SlotsIn(Tail(s)) \in Int /\ SlotsIn(s) \in Int
           /\ Head(s)[1] \in Counters /\ Head(s)[2] \in Int
           /\ Head(s)[1] = "noccupied_slots"
                => SlotsIn(s) = Head(s)[2] /\ SlotsIn(Tail(s)) = 0
           /\ Head(s)[1] # "noccupied_slots" => SlotsIn(Tail(s)) = SlotsIn(s)
<1> DEFINE r == Tail(s)
<1>1. /\ r \in Updating
      /\ 1 \in DOMAIN s /\ s[1] = Head(s) /\ s[1] \in Counters \X Int
      /\ \A i \in DOMAIN r : i + 1 \in DOMAIN s /\ i + 1 # 1 /\ r[i] = s[i + 1] /\ i \in Nat
      /\ \A i \in DOMAIN s : i # 1 => i - 1 \in DOMAIN r /\ r[i - 1] = s[i] /\ i \in Nat
  <2>1. s \in Seq(Counters \X Int) /\ Len(s) \in Nat /\ Len(s) >= 1 /\ DOMAIN s = 1 .. Len(s)
    BY DEF Updating
  <2>2. r \in Seq(Counters \X Int) /\ DOMAIN r = 1 .. Len(s) - 1
        /\ \A i \in 1 .. Len(s) - 1 : r[i] = s[i + 1]
    BY <2>1
  <2>3. s[1] = Head(s) /\ s[1] \in Counters \X Int
    BY <2>1
  <2> HIDE DEF r
  <2>4. r \in Updating
    BY <2>2 DEF Updating
  <2>5. \A i \in DOMAIN r : i + 1 \in DOMAIN s /\ i + 1 # 1 /\ r[i] = s[i + 1] /\ i \in Nat
    BY <2>1, <2>2
  <2>6. ASSUME NEW i \in DOMAIN s, i # 1
        PROVE  i - 1 \in DOMAIN r /\ r[i - 1] = s[i] /\ i \in Nat
    <3>1. i \in Nat /\ i - 1 \in 1 .. Len(s) - 1 /\ (i - 1) + 1 = i
      BY <2>1, <2>6
    <3> QED
      BY <2>2, <3>1
  <2> QED
    BY <2>1, <2>3, <2>4, <2>5, <2>6
<1> HIDE DEF r
<1>2. CountedOnce(r)
  <2>1. SUFFICES ASSUME NEW i \in DOMAIN r, NEW j \in DOMAIN r,
                        CountsSlots(r, i), CountsSlots(r, j)
                 PROVE  i = j
    BY DEF CountedOnce
  <2>2. i + 1 = j + 1
    BY <1>1, <2>1 DEF CountedOnce, CountsSlots
  <2> QED
    BY <1>1, <2>2
<1>3. CASE Head(s)[1] = "noccupied_slots"
  <2>1. SlotsIn(s) = Head(s)[2]
    BY <1>1, <1>3, OneUpdate DEF CountsSlots
  <2>2. \A i \in DOMAIN r : ~CountsSlots(r, i)
    BY <1>1, <1>3 DEF CountsSlots, CountedOnce
  <2>3. SlotsIn(r) = 0
    BY <1>1, <2>2, NoSlots
  <2> QED
    BY <1>1, <1>2, <1>3, <2>1, <2>3, SlotsInType DEF r
<1>4. CASE Head(s)[1] # "noccupied_slots"
  <2>1. CASE \E k \in DOMAIN s : CountsSlots(s, k)
    <3>1. PICK k \in DOMAIN s : CountsSlots(s, k)
      BY <2>1
    <3>2. k - 1 \in DOMAIN r /\ CountsSlots(r, k - 1) /\ r[k - 1] = s[k]
      BY <1>1, <1>4, <3>1 DEF CountsSlots
    <3>3. SlotsIn(s) = s[k][2] /\ SlotsIn(r) = r[k - 1][2]
      BY <1>1, <1>2, <3>1, <3>2, OneUpdate
    <3> QED
      BY <1>1, <1>2, <1>4, <3>2, <3>3, SlotsInType DEF r
  <2>2. CASE \A k \in DOMAIN s : ~CountsSlots(s, k)
    <3>1. \A k \in DOMAIN r : ~CountsSlots(r, k)
      BY <1>1, <2>2 DEF CountsSlots
    <3>2. SlotsIn(s) = 0 /\ SlotsIn(r) = 0
      BY <1>1, <2>2, <3>1, NoSlots
    <3> QED
      BY <1>1, <1>2, <1>4, <3>2, SlotsInType DEF r
  <2> QED
    BY <2>1, <2>2
<1> QED
  BY <1>3, <1>4

(***************************************************************************)
(* The counter and the table.                                              *)
(***************************************************************************)

\* What every thread has still to count.
Owed == [t \in Threads |-> Uncounted(t)]

OwedTypes ==
    /\ \A t \in Threads : /\ todo[t] \in Updating /\ Owed[t] = SlotsIn(todo[t])
                          /\ Owed[t] \in Int
    /\ SumFunction(Owed) = SumFunctionOnSet(Owed, Threads)
    /\ SumFunction(used) = SumFunctionOnSet(used, Regions)
    /\ counters["noccupied_slots"] \in Int
    /\ \A r \in Regions : used[r] \in Int

LEMMA OwedTyped == TypeInv => OwedTypes
<1> SUFFICES ASSUME TypeInv PROVE OwedTypes
  OBVIOUS
<1>1. \A t \in Threads : todo[t] \in Updating
  BY DEF TypeInv, TypeOK, Updating
<1>2. SumFunction(Owed) = SumFunctionOnSet(Owed, Threads)
  BY DEF SumFunction, Owed
<1>3. SumFunction(used) = SumFunctionOnSet(used, Regions)
  <2>1. DOMAIN used = Regions
    BY DEF TypeInv, TypeOK
  <2> QED
    BY <2>1 DEF SumFunction
<1>4. \A t \in Threads : Owed[t] = SlotsIn(todo[t])
  BY DEF Owed, Uncounted
<1>5. counters["noccupied_slots"] \in Int /\ \A r \in Regions : used[r] \in Int
  BY DEF TypeInv, TypeOK, Counters
<1> QED
  BY <1>1, <1>2, <1>3, <1>4, <1>5, SlotsInType DEF OwedTypes

\* A step of t that changes what t has still to count by as much as the table and
\* the counter drift apart.
LEMMA StaysBalanced ==
    ASSUME IsFiniteSet(Threads), TypeInv, TypeInv', CountersInv, NEW t \in Threads,
           \A u \in Threads \ {t} : pc'[u] = pc[u] /\ todo'[u] = todo[u],
           CountedOnce(todo'[t]), pc'[t] \notin Counting => todo'[t] = << >>,
           NEW d \in Int, SumFunction(used') = SumFunction(used) + d,
           counters'["noccupied_slots"] + SlotsIn(todo'[t])
             = counters["noccupied_slots"] + SlotsIn(todo[t]) + d
    PROVE  CountersInv'
<1>1. Accounts'
  BY DEF CountersInv, Accounts
<1>2. OwedTypes /\ OwedTypes'
  BY OwedTyped, PTL
<1>3. /\ \A u \in Threads : Owed[u] \in Int /\ Owed'[u] \in Int
      /\ \A u \in Threads \ {t} : Owed'[u] = Owed[u]
      /\ Owed[t] = SlotsIn(todo[t]) /\ Owed'[t] = SlotsIn(todo'[t])
  BY <1>2 DEF OwedTypes
<1> DEFINE before == Owed
           after == Owed'
<1>4. SumFunctionOnSet(after, Threads)
        = SumFunctionOnSet(before, Threads) + after[t] - before[t]
  <2>1. /\ \A u \in Threads : before[u] \in Int /\ after[u] \in Int
        /\ \A u \in Threads \ {t} : after[u] = before[u]
    BY <1>3
  <2> HIDE DEF before, after
  <2> QED
    BY <2>1, SumUpdate
<1>5. SumFunctionOnSet(before, Threads) \in Int
  BY <1>3, SumType
<1>6. /\ SumFunction(Owed') = SumFunction(Owed) + Owed'[t] - Owed[t]
      /\ SumFunction(Owed) \in Int
  BY <1>2, <1>4, <1>5 DEF OwedTypes
<1>7. SumFunction(used) = counters["noccupied_slots"] + SumFunction(Owed)
  BY DEF CountersInv, SlotsBalanced, Owed
<1>8. SumFunction(used') = counters'["noccupied_slots"] + SumFunction(Owed')
  <2>1. /\ counters["noccupied_slots"] \in Int /\ counters'["noccupied_slots"] \in Int
        /\ SlotsIn(todo[t]) \in Int /\ SlotsIn(todo'[t]) \in Int
    BY <1>2, <1>3 DEF OwedTypes
  <2>2. SumFunction(Owed') = SumFunction(Owed) + SlotsIn(todo'[t]) - SlotsIn(todo[t])
    BY <1>3, <1>6
  <2> QED
    BY <1>6, <1>7, <2>1, <2>2
<1>9. SlotsBalanced'
  BY <1>8 DEF SlotsBalanced, Owed
<1> QED
  BY <1>1, <1>9 DEF CountersInv

\* A call adds what it changes to the slots of its bucket's region.
LEMMA RewriteSums ==
    ASSUME ShortReaches, TypeInv, TypeInv', NoLostUpdate, NEW t \in Threads, NEW n \in Int,
           pc[t] = "write", Rewrite(t, n)
    PROVE  /\ SumFunction(used') = SumFunction(used) + n
           /\ Home(t) \in Regions /\ seen[t][Home(t)] = used[Home(t)]
           /\ \A r \in Regions : used'[r] = IF r = Home(t) THEN used[r] + n ELSE used[r]
<1>1. Home(t) \in Rewritten(t) /\ Rewritten(t) \subseteq Regions
  BY RewrittenLocked DEF TypeInv, Started
<1>2. \A r \in Rewritten(t) : seen[t][r] = used[r]
  BY DEF NoLostUpdate
<1>3. \A r \in Regions : used'[r] = IF r = Home(t) THEN used[r] + n ELSE used[r]
  BY <1>1, <1>2 DEF Rewrite, TypeInv, TypeOK
<1>4. OwedTypes /\ OwedTypes'
  BY OwedTyped, PTL
<1>5. IsFiniteSet(Regions)
  BY FS_Interval, LocksAssumption DEF Regions
<1> DEFINE before == used
           after == used'
           home == Home(t)
<1>6. /\ \A r \in Regions : before[r] \in Int /\ after[r] \in Int
      /\ home \in Regions /\ after[home] = before[home] + n
      /\ \A r \in Regions \ {home} : after[r] = before[r]
  BY <1>1, <1>3, <1>4 DEF OwedTypes
<1>7. SumFunctionOnSet(after, Regions)
        = SumFunctionOnSet(before, Regions) + after[home] - before[home]
  <2>1. /\ home \in Regions /\ \A r \in Regions : before[r] \in Int /\ after[r] \in Int
        /\ \A r \in Regions \ {home} : after[r] = before[r]
    BY <1>6
  <2> HIDE DEF before, after, home
  <2> QED
    BY <1>5, <2>1, SumUpdate
<1>8. SumFunctionOnSet(before, Regions) \in Int
  BY <1>5, <1>6, SumType
<1>9. SumFunction(used') = SumFunction(used) + n
  <2>1. SumFunction(used) = SumFunctionOnSet(before, Regions)
    BY <1>4 DEF OwedTypes
  <2>2. SumFunction(used') = SumFunctionOnSet(after, Regions)
    BY <1>4 DEF OwedTypes
  <2> HIDE DEF before, after, home
  <2> QED
    BY <1>6, <1>7, <1>8, <2>1, <2>2
<1> QED
  BY <1>1, <1>2, <1>3, <1>9

(***************************************************************************)
(* The steps.                                                              *)
(***************************************************************************)

LEMMA CountersInit == IsFiniteSet(Threads) /\ Init => CountersInv
<1> SUFFICES ASSUME IsFiniteSet(Threads), Init PROVE CountersInv
  OBVIOUS
<1>1. \A t \in Threads : todo[t] = << >>
  BY DEF Init
<1>2. Accounts
  BY <1>1, NoUpdates DEF Accounts
<1>3. OwedTypes
  BY TypeInit, OwedTyped
<1>4. SumFunction(Owed) = 0
  <2>1. \A t \in Threads : Owed[t] = 0
    BY <1>1, <1>3, NoUpdates DEF OwedTypes
  <2> QED
    BY <1>3, <2>1, SumZero DEF OwedTypes
<1>5. SumFunction(used) = 0
  <2>1. \A r \in Regions : used[r] = 0
    BY DEF Init
  <2>2. IsFiniteSet(Regions)
    BY FS_Interval, LocksAssumption DEF Regions
  <2> QED
    BY <1>3, <2>1, <2>2, SumZero DEF OwedTypes
<1>6. counters["noccupied_slots"] = 0
  BY DEF Init, Counters
<1>7. SlotsBalanced
  BY <1>4, <1>5, <1>6 DEF SlotsBalanced, Owed
<1> QED
  BY <1>2, <1>7 DEF CountersInv

LEMMA CountersStep ==
    ASSUME IsFiniteSet(Threads), ShortReaches, TypeInv, MetadataInv, NoLostUpdate, CountersInv,
           [Next]_vars
    PROVE  CountersInv'
<1> DEFINE Others(t) == \A u \in Threads \ {t} : pc'[u] = pc[u] /\ todo'[u] = todo[u]
           Quiet(t) == /\ Others(t) /\ UNCHANGED << used, counters, todo >>
                       /\ pc'[t] \notin Counting => pc[t] \notin Counting \/ todo[t] = << >>
<1>1. TypeInv'
  BY TypeStep
<1>2. OwedTypes /\ OwedTypes'
  BY <1>1, OwedTyped, PTL
<1>3. \A t \in Threads : /\ todo[t] \in Updating /\ SlotsIn(todo[t]) \in Int
                         /\ SlotsIn(todo'[t]) \in Int /\ CountedOnce(todo[t])
                         /\ pc[t] \notin Counting => todo[t] = << >>
  BY <1>2, SlotsInType DEF OwedTypes, CountersInv, Accounts
<1>4. counters["noccupied_slots"] \in Int /\ SumFunction(used) \in Int
  <2>1. IsFiniteSet(Regions)
    BY FS_Interval, LocksAssumption DEF Regions
  <2> QED
    BY <1>2, <2>1, SumType DEF OwedTypes
<1>5. ASSUME NEW t \in Threads, Quiet(t)
      PROVE  CountersInv'
  <2>1. /\ CountedOnce(todo'[t]) /\ (pc'[t] \notin Counting => todo'[t] = << >>)
        /\ SumFunction(used') = SumFunction(used) + 0
        /\ counters'["noccupied_slots"] + SlotsIn(todo'[t])
              = counters["noccupied_slots"] + SlotsIn(todo[t]) + 0
    BY <1>3, <1>4, <1>5
  <2> QED
    BY <1>1, <1>5, <2>1, StaysBalanced
<1>6. ASSUME NEW t \in Threads, NEW n \in Int, Others(t), counters' = counters,
             pc[t] = "write", pc'[t] = "finish", Rewrite(t, n),
             CountedOnce(todo'[t]), SlotsIn(todo'[t]) = n
      PROVE  CountersInv'
  <2>1. todo[t] = << >> /\ SlotsIn(todo[t]) = 0
    BY <1>3, <1>6, NoUpdates DEF Counting
  <2>2. SumFunction(used') = SumFunction(used) + n
    BY <1>1, <1>6, RewriteSums
  <2>3. counters'["noccupied_slots"] + SlotsIn(todo'[t])
          = counters["noccupied_slots"] + SlotsIn(todo[t]) + n
    BY <1>4, <1>6, <2>1
  <2>4. pc'[t] \in Counting
    BY <1>6 DEF Counting
  <2> QED
    BY <1>1, <1>6, <2>2, <2>3, <2>4, StaysBalanced
<1>7. ASSUME NEW t \in Threads, Call(t)
      PROVE  Quiet(t)
  <2>1. PICK c \in Calls : pc' = [pc EXCEPT ![t] = StartOf(c.kind)]
    BY <1>7 DEF Call, Goto
  <2> QED
    BY <1>7, <2>1 DEF Call, Counting, TypeInv, TypeOK, table, metadata
<1>8. ASSUME NEW t \in Threads, Check(t)
      PROVE  Quiet(t)
  BY <1>8 DEF Check, ReturnWith, Goto, TypeInv, TypeOK, Counting, table, metadata
<1>9. ASSUME NEW t \in Threads, Lock(t)
      PROVE  Quiet(t)
  BY <1>9 DEF Lock, ReturnWith, Goto, TypeInv, TypeOK, Counting, table, metadata
<1>10. ASSUME NEW t \in Threads, LockNext(t)
      PROVE  Quiet(t)
  BY <1>10 DEF LockNext, Goto, TypeInv, TypeOK, Counting, table, metadata
<1>11. ASSUME NEW t \in Threads, BackOff(t)
      PROVE  Quiet(t)
  BY <1>11 DEF BackOff, ReturnWith, Goto, TypeInv, TypeOK, Counting, table, metadata
<1>12. ASSUME NEW t \in Threads, Read(t)
      PROVE  Quiet(t)
  BY <1>12 DEF Read, Goto, TypeInv, TypeOK, Counting, table, metadata
<1>13. ASSUME NEW t \in Threads, WriteSingle(t)
       PROVE  CountersInv'
  <2>1. Others(t) /\ counters' = counters /\ pc[t] = "write" /\ pc'[t] = "finish"
    BY <1>13 DEF WriteSingle, Goto, TypeInv, TypeOK, metadata
  <2>2. CASE /\ Rewrite(t, 1)
             /\ todo' = [todo EXCEPT ![t] =
                            << << "ndistinct_elts", 1 >>, << "noccupied_slots", 1 >> >>]
    <3>1. CountedOnce(todo'[t]) /\ SlotsIn(todo'[t]) = 1
      <4>1. todo'[t] = << << "ndistinct_elts", 1 >>, << "noccupied_slots", 1 >> >>
        BY <2>2 DEF TypeInv, TypeOK
      <4> QED
        BY <4>1, BoxUpdate
    <3> QED
      BY <1>6, <2>1, <2>2, <3>1
  <2>3. CASE \E growth \in Growths :
               /\ Rewrite(t, growth)
               /\ todo' = [todo EXCEPT ![t] = Updates("noccupied_slots", growth)]
    <3>1. PICK growth \in Growths :
               /\ Rewrite(t, growth)
               /\ todo' = [todo EXCEPT ![t] = Updates("noccupied_slots", growth)]
      BY <2>3
    <3>2. growth \in Int
      BY LocksAssumption
    <3>3. CountedOnce(todo'[t]) /\ SlotsIn(todo'[t]) = growth
      BY <3>1, <3>2, GrowthUpdate DEF TypeInv, TypeOK
    <3> QED
      BY <1>6, <2>1, <3>1, <3>2, <3>3
  <2> QED
    BY <1>13, <2>2, <2>3 DEF WriteSingle
<1>14. ASSUME NEW t \in Threads, WriteMementos(t)
       PROVE  CountersInv'
  <2>1. PICK growth \in Growths :
             /\ Rewrite(t, growth)
             /\ todo' = [todo EXCEPT ![t] = << << "ndistinct_elts", 1 >>,
                                               << "noccupied_slots", growth >>,
                                               << "nelts", ListLength >> >>]
    BY <1>14 DEF WriteMementos
  <2>2. Others(t) /\ counters' = counters /\ pc[t] = "write" /\ pc'[t] = "finish"
    BY <1>14 DEF WriteMementos, Goto, TypeInv, TypeOK, metadata
  <2>3. growth \in Int /\ ListLength \in Int
    BY LocksAssumption
  <2>4. CountedOnce(todo'[t]) /\ SlotsIn(todo'[t]) = growth
    BY <2>1, <2>3, ListUpdate DEF TypeInv, TypeOK
  <2> QED
    BY <1>6, <2>1, <2>2, <2>3, <2>4
<1>15. ASSUME NEW t \in Threads, WriteDelete(t)
       PROVE  CountersInv'
  <2>1. Others(t) /\ counters' = counters /\ pc[t] = "write" /\ pc'[t] = "finish"
    BY <1>15 DEF WriteDelete, Goto, TypeInv, TypeOK, metadata
  <2>2. CASE \E growth \in Growths :
               /\ Rewrite(t, 0 - growth)
               /\ todo' = [todo EXCEPT ![t] = Updates("noccupied_slots", 0 - growth)]
    <3>1. PICK growth \in Growths :
               /\ Rewrite(t, 0 - growth)
               /\ todo' = [todo EXCEPT ![t] = Updates("noccupied_slots", 0 - growth)]
      BY <2>2
    <3>2. 0 - growth \in Int
      BY LocksAssumption
    <3>3. CountedOnce(todo'[t]) /\ SlotsIn(todo'[t]) = 0 - growth
      BY <3>1, <3>2, GrowthUpdate DEF TypeInv, TypeOK
    <3> QED
      BY <1>6, <2>1, <3>1, <3>2, <3>3
  <2>3. CASE UNCHANGED << used, todo >>
    <3>1. Quiet(t)
      BY <2>1, <2>3 DEF Counting
    <3> QED
      BY <1>5, <3>1
  <2> QED
    BY <1>15, <2>2, <2>3 DEF WriteDelete
<1>16. ASSUME NEW t \in Threads, NoRoom(t)
      PROVE  Quiet(t)
  BY <1>16 DEF NoRoom, Goto, TypeInv, TypeOK, Counting, table, metadata
<1>17. ASSUME NEW t \in Threads, Query(t)
      PROVE  Quiet(t)
  BY <1>17 DEF Query, ReturnWith, Goto, TypeInv, TypeOK, Counting, table, metadata
<1>18. ASSUME NEW t \in Threads, MetaLock(t)
      PROVE  Quiet(t)
  BY <1>18 DEF MetaLock, Goto, TypeInv, TypeOK, Counting, table, metadata
<1>19. ASSUME NEW t \in Threads, MetaRead(t)
      PROVE  Quiet(t)
  BY <1>19 DEF MetaRead, Goto, TypeInv, TypeOK, Counting, table, metadata
<1>20. ASSUME NEW t \in Threads, MetaWrite(t)
       PROVE  CountersInv'
  <2> DEFINE c == Head(todo[t])[1]
             n == Head(todo[t])[2]
  <2>1. /\ Others(t) /\ pc[t] = "meta_write" /\ pc'[t] = "meta_unlock" /\ todo[t] # << >>
        /\ todo'[t] = Tail(todo[t]) /\ used' = used /\ tmp[t] = counters[c]
    BY <1>20 DEF MetaWrite, Goto, TypeInv, TypeOK, Started, MetadataInv, CountersExclusive, table
  <2>2. /\ CountedOnce(todo'[t]) /\ c \in Counters /\ n \in Int
        /\ c = "noccupied_slots" => SlotsIn(todo[t]) = n /\ SlotsIn(todo'[t]) = 0
        /\ c # "noccupied_slots" => SlotsIn(todo'[t]) = SlotsIn(todo[t])
    BY <1>3, <2>1, UpdatesAfterOne
  <2>3. counters' = [counters EXCEPT ![c] = counters[c] + n]
    BY <1>20, <2>1 DEF MetaWrite
  <2>4. counters'["noccupied_slots"] = IF c = "noccupied_slots"
                                       THEN counters["noccupied_slots"] + n
                                       ELSE counters["noccupied_slots"]
    BY <2>2, <2>3 DEF TypeInv, TypeOK, Counters
  <2>5. counters'["noccupied_slots"] + SlotsIn(todo'[t])
          = counters["noccupied_slots"] + SlotsIn(todo[t]) + 0
    BY <1>3, <1>4, <2>2, <2>4
  <2>6. SumFunction(used') = SumFunction(used) + 0
    BY <1>4, <2>1
  <2>7. pc'[t] \in Counting
    BY <2>1 DEF Counting
  <2> QED
    BY <1>1, <2>1, <2>2, <2>5, <2>6, <2>7, StaysBalanced
<1>21. ASSUME NEW t \in Threads, MetaUnlock(t)
      PROVE  Quiet(t)
  BY <1>21 DEF MetaUnlock, Goto, TypeInv, TypeOK, Counting, table, metadata
<1>22. ASSUME NEW t \in Threads, UnlockNext(t)
      PROVE  Quiet(t)
  BY <1>22 DEF UnlockNext, Goto, TypeInv, TypeOK, Counting, table, metadata
<1>23. ASSUME NEW t \in Threads, Unlock(t)
       PROVE  CountersInv'
  <2>1. /\ Others(t) /\ UNCHANGED << used, counters >>
        /\ pc[t] \in {"unlock", "finish"} /\ todo[t] = << >>
    BY <1>3, <1>23 DEF Unlock, Goto, TypeInv, TypeOK, Counting, table, metadata
  <2>2. CASE todo' = todo
    <3>1. Quiet(t)
      BY <2>1, <2>2
    <3> QED
      BY <1>5, <3>1
  <2>3. CASE todo' = [todo EXCEPT ![t] = << << "nelts", 1 >> >>] /\ Goto(t, "count")
    <3>1. CountedOnce(todo'[t]) /\ SlotsIn(todo'[t]) = 0 /\ SlotsIn(todo[t]) = 0
      <4>1. todo'[t] = << << "nelts", 1 >> >>
        BY <2>3 DEF TypeInv, TypeOK
      <4> QED
        BY <2>1, <4>1, NoUpdates, ElementUpdate
    <3>2. pc'[t] \in Counting
      BY <2>3 DEF Goto, Counting, TypeInv, TypeOK
    <3>3. /\ SumFunction(used') = SumFunction(used) + 0
          /\ counters'["noccupied_slots"] + SlotsIn(todo'[t])
                = counters["noccupied_slots"] + SlotsIn(todo[t]) + 0
      BY <1>4, <2>1, <3>1
    <3> QED
      BY <1>1, <2>1, <3>1, <3>2, <3>3, StaysBalanced
  <2> QED
    BY <1>23, <2>2, <2>3 DEF Unlock
<1>24. ASSUME NEW t \in Threads, Return(t)
      PROVE  Quiet(t)
  BY <1>3, <1>24 DEF Return, Goto, TypeInv, TypeOK, Counting, table, metadata
<1>25. CASE UNCHANGED vars
  BY <1>25 DEF CountersInv, Accounts, SlotsBalanced, Uncounted, vars
<1> HIDE DEF Others, Quiet
<1> QED
  BY <1>5, <1>7, <1>8, <1>9, <1>10, <1>11, <1>12, <1>13, <1>14, <1>15, <1>16, <1>17, <1>18,
     <1>19, <1>20, <1>21, <1>22, <1>23, <1>24, <1>25 DEF Next, Step

\* Whatever the interleaving of the calls and of their modify_metadata, the slots in
\* use are the counted ones and those the running calls have still to count.
THEOREM BalanceCorrect ==
    IsFiniteSet(Threads) /\ ShortReaches /\ SinglesFit => (Spec => []SlotsBalanced)
<1> SUFFICES ASSUME IsFiniteSet(Threads), ShortReaches, SinglesFit
             PROVE  Spec => []SlotsBalanced
  OBVIOUS
<1> DEFINE Inv == TypeInv /\ LocksInv /\ MetadataInv /\ NoLostUpdate /\ CountersInv
<1>1. Init => Inv
  BY TypeInit, LocksInit, MetadataInit, LostInit, CountersInit
<1>2. Inv /\ [Next]_vars => Inv'
  BY TypeStep, LocksStep, MetadataStep, LostStep, CountersStep
<1>3. Inv => SlotsBalanced
  BY DEF CountersInv
<1> QED
  BY <1>1, <1>2, <1>3, PTL DEF Spec

(***************************************************************************)
(* The counter never goes below zero: what a thread has taken and not yet  *)
(* counted is in its own region, which it still has locked, so a delete of *)
(* another thread cannot free it and be counted first.                     *)
(***************************************************************************)

CoveredInv ==
    /\ \A r \in Regions : used[r] >= 0
    /\ \A t \in Threads :
          SlotsIn(todo[t]) > 0 => Home(t) \in Held(t) /\ SlotsIn(todo[t]) <= used[Home(t)]

LEMMA CoveredInit == Init => CoveredInv
BY NoUpdates DEF Init, CoveredInv

\* A step that leaves the table alone and adds nothing to what is to be counted.
LEMMA StaysCovered ==
    ASSUME CoveredInv, NEW t \in Threads, used' = used,
           \A u \in Threads \ {t} : /\ pc'[u] = pc[u] /\ call'[u] = call[u]
                                   /\ back'[u] = back[u] /\ todo'[u] = todo[u],
           \/ ~(SlotsIn(todo'[t]) > 0)
           \/ /\ SlotsIn(todo'[t]) = SlotsIn(todo[t]) /\ call'[t] = call[t]
              /\ Home(t) \in Held(t) => Home(t)' \in Held(t)'
    PROVE  CoveredInv'
<1>1. ASSUME NEW u \in Threads, SlotsIn(todo'[u]) > 0
      PROVE  Home(u)' \in Held(u)' /\ SlotsIn(todo'[u]) <= used'[Home(u)']
  <2>1. CASE u = t
    BY <1>1, <2>1 DEF CoveredInv, Home
  <2>2. CASE u # t
    <3>1. Held(u)' = Held(u) /\ Home(u)' = Home(u)
      BY <2>2, HeldKept DEF Home
    <3> QED
      BY <1>1, <2>2, <3>1 DEF CoveredInv
  <2> QED
    BY <2>1, <2>2
<1> QED
  BY <1>1 DEF CoveredInv

\* A change to the table is made under the lock of its region, and by no thread
\* that has something else to count there.
LEMMA RewriteCovered ==
    ASSUME ShortReaches, TypeInv, TypeInv', LocksInv, NoLostUpdate, CoveredInv,
           NEW t \in Threads, NEW n \in Int, pc[t] = "write", Rewrite(t, n), Goto(t, "finish"),
           UNCHANGED << call, back >>, \A u \in Threads \ {t} : todo'[u] = todo[u],
           SlotsIn(todo'[t]) = n, 0 - n <= seen[t][Home(t)]
    PROVE  CoveredInv'
<1>1. /\ Home(t) \in Regions /\ seen[t][Home(t)] = used[Home(t)]
      /\ \A r \in Regions : used'[r] = IF r = Home(t) THEN used[r] + n ELSE used[r]
  BY RewriteSums
<1>2. \A r \in Regions : used[r] \in Int /\ used[r] >= 0
  BY DEF CoveredInv, TypeInv, TypeOK
<1>3. Held(t) = LockSet(t) /\ Home(t) \in LockSet(t)
  BY DEF Held, LockSet
<1>4. \A u \in Threads : Home(u)' = Home(u)
  BY DEF Home
<1>5. /\ SlotsIn(todo'[t]) > 0 => Home(t)' \in Held(t)'
      /\ SlotsIn(todo'[t]) <= used'[Home(t)]
  <2>1. pc'[t] = "finish"
    BY DEF Goto, TypeInv, TypeOK
  <2>2. Held(t)' = LockSet(t)'
    BY <2>1 DEF Held
  <2>3. Home(t)' \in LockSet(t)'
    BY DEF LockSet
  <2> QED
    BY <1>1, <1>2, <2>2, <2>3
<1>6. ASSUME NEW u \in Threads \ {t}, SlotsIn(todo'[u]) > 0
      PROVE  Home(u)' \in Held(u)' /\ SlotsIn(todo'[u]) <= used'[Home(u)]
  <2>1. pc'[u] = pc[u] /\ todo'[u] = todo[u] /\ Held(u)' = Held(u)
    BY <1>6, HeldKept DEF Goto, TypeInv, TypeOK
  <2>2. Home(u) \in Held(u) /\ SlotsIn(todo[u]) <= used[Home(u)]
    BY <1>6, <2>1 DEF CoveredInv
  <2>3. Home(u) # Home(t) /\ Home(u) \in Regions
    BY <1>3, <1>6, <2>2 DEF LocksInv, LocksExact, TypeInv, TypeOK
  <2> QED
    BY <1>1, <1>4, <2>1, <2>2, <2>3
<1>7. \A r \in Regions : used'[r] >= 0
  BY <1>1, <1>2
<1> QED
  BY <1>4, <1>5, <1>6, <1>7 DEF CoveredInv

LEMMA CoveredStep ==
    ASSUME ShortReaches, TypeInv, LocksInv, MetadataInv, NoLostUpdate, CountersInv, CoveredInv,
           [Next]_vars
    PROVE  CoveredInv'
<1> DEFINE Others(t) == \A u \in Threads \ {t} : /\ pc'[u] = pc[u] /\ call'[u] = call[u]
                                                /\ back'[u] = back[u] /\ todo'[u] = todo[u]
           \* A step at which t has nothing to count.
           Idle(t) == Others(t) /\ used' = used /\ todo'[t] = << >>
           \* A step inside modify_metadata.
           Within(t) == /\ Others(t) /\ used' = used /\ call' = call
                        /\ Home(t) \in Held(t) => Home(t)' \in Held(t)'
<1>1. TypeInv'
  BY TypeStep
<1>2. \A t \in Threads : /\ todo[t] \in Updating /\ CountedOnce(todo[t])
                         /\ pc[t] \notin Counting => todo[t] = << >>
  BY OwedTyped DEF OwedTypes, CountersInv, Accounts
<1>3. ASSUME NEW t \in Threads, Idle(t)
      PROVE  CoveredInv'
  <2>1. SlotsIn(todo'[t]) = 0
    BY <1>3, NoUpdates
  <2> QED
    BY <1>3, <2>1, StaysCovered
<1>4. ASSUME NEW t \in Threads, Within(t), todo' = todo
      PROVE  CoveredInv'
  BY <1>4, StaysCovered
<1>5. ASSUME NEW t \in Threads, NEW n \in Int, n >= 0 \/ 0 - n <= seen[t][Home(t)],
             Others(t), pc[t] = "write", Goto(t, "finish"), Rewrite(t, n),
             UNCHANGED << call, back >>, SlotsIn(todo'[t]) = n
      PROVE  CoveredInv'
  <2>1. Home(t) \in Regions /\ seen[t][Home(t)] = used[Home(t)]
    BY <1>1, <1>5, RewriteSums
  <2>2. 0 - n <= seen[t][Home(t)]
    BY <1>5, <2>1 DEF CoveredInv, TypeInv, TypeOK
  <2> QED
    BY <1>1, <1>5, <2>2, RewriteCovered
<1>6. ASSUME NEW t \in Threads, Call(t)
      PROVE  Idle(t)
  BY <1>2, <1>6 DEF Call, Goto, Counting, TypeInv, TypeOK, table, metadata
<1>7. ASSUME NEW t \in Threads, Check(t)
      PROVE  Idle(t)
  BY <1>2, <1>7 DEF Check, ReturnWith, Goto, TypeInv, TypeOK, Counting, table, metadata
<1>8. ASSUME NEW t \in Threads, Lock(t)
      PROVE  Idle(t)
  BY <1>2, <1>8 DEF Lock, ReturnWith, Goto, TypeInv, TypeOK, Counting, table, metadata
<1>9. ASSUME NEW t \in Threads, LockNext(t)
      PROVE  Idle(t)
  BY <1>2, <1>9 DEF LockNext, Goto, TypeInv, TypeOK, Counting, table, metadata
<1>10. ASSUME NEW t \in Threads, BackOff(t)
      PROVE  Idle(t)
  BY <1>2, <1>10 DEF BackOff, ReturnWith, Goto, TypeInv, TypeOK, Counting, table, metadata
<1>11. ASSUME NEW t \in Threads, Read(t)
      PROVE  Idle(t)
  BY <1>2, <1>11 DEF Read, Goto, TypeInv, TypeOK, Counting, table, metadata
<1>12. ASSUME NEW t \in Threads, WriteSingle(t)
       PROVE  CoveredInv'
  <2>1. Others(t) /\ pc[t] = "write" /\ Goto(t, "finish") /\ UNCHANGED << call, back >>
    BY <1>12 DEF WriteSingle, Goto, TypeInv, TypeOK, metadata
  <2>2. CASE /\ Rewrite(t, 1)
             /\ todo' = [todo EXCEPT ![t] =
                            << << "ndistinct_elts", 1 >>, << "noccupied_slots", 1 >> >>]
    <3>1. todo'[t] = << << "ndistinct_elts", 1 >>, << "noccupied_slots", 1 >> >>
      BY <2>2 DEF TypeInv, TypeOK
    <3>2. SlotsIn(todo'[t]) = 1
      BY <3>1, BoxUpdate
    <3> QED
      BY <1>5, <2>1, <2>2, <3>2
  <2>3. CASE \E growth \in Growths :
               /\ Rewrite(t, growth)
               /\ todo' = [todo EXCEPT ![t] = Updates("noccupied_slots", growth)]
    <3>1. PICK growth \in Growths :
               /\ Rewrite(t, growth)
               /\ todo' = [todo EXCEPT ![t] = Updates("noccupied_slots", growth)]
      BY <2>3
    <3>2. growth \in Int /\ growth >= 0
      BY LocksAssumption
    <3>3. SlotsIn(todo'[t]) = growth
      BY <3>1, <3>2, GrowthUpdate DEF TypeInv, TypeOK
    <3> QED
      BY <1>5, <2>1, <3>1, <3>2, <3>3
  <2> QED
    BY <1>12, <2>2, <2>3 DEF WriteSingle
<1>13. ASSUME NEW t \in Threads, WriteMementos(t)
       PROVE  CoveredInv'
  <2>1. PICK growth \in Growths :
             /\ Rewrite(t, growth)
             /\ todo' = [todo EXCEPT ![t] = << << "ndistinct_elts", 1 >>,
                                               << "noccupied_slots", growth >>,
                                               << "nelts", ListLength >> >>]
    BY <1>13 DEF WriteMementos
  <2>2. Others(t) /\ pc[t] = "write" /\ Goto(t, "finish") /\ UNCHANGED << call, back >>
    BY <1>13 DEF WriteMementos, Goto, TypeInv, TypeOK, metadata
  <2>3. growth \in Int /\ growth >= 0 /\ ListLength \in Int
    BY LocksAssumption
  <2>4. SlotsIn(todo'[t]) = growth
    BY <2>1, <2>3, ListUpdate DEF TypeInv, TypeOK
  <2> QED
    BY <1>5, <2>1, <2>2, <2>3, <2>4
<1>14. ASSUME NEW t \in Threads, WriteDelete(t)
       PROVE  CoveredInv'
  <2>1. /\ Others(t) /\ pc[t] = "write" /\ Goto(t, "finish") /\ UNCHANGED << call, back >>
    BY <1>14 DEF WriteDelete, Goto, TypeInv, TypeOK, metadata
  <2>2. CASE \E growth \in Growths :
               /\ growth <= seen[t][Home(t)] /\ Rewrite(t, 0 - growth)
               /\ todo' = [todo EXCEPT ![t] = Updates("noccupied_slots", 0 - growth)]
    <3>1. PICK growth \in Growths :
               /\ growth <= seen[t][Home(t)] /\ Rewrite(t, 0 - growth)
               /\ todo' = [todo EXCEPT ![t] = Updates("noccupied_slots", 0 - growth)]
      BY <2>2
    <3>2. 0 - growth \in Int /\ 0 - (0 - growth) = growth
      BY LocksAssumption
    <3>3. SlotsIn(todo'[t]) = 0 - growth
      BY <3>1, <3>2, GrowthUpdate DEF TypeInv, TypeOK
    <3> QED
      BY <1>5, <2>1, <3>1, <3>2, <3>3
  <2>3. CASE UNCHANGED << used, todo >>
    BY <1>2, <1>3, <2>1, <2>3 DEF Counting
  <2> QED
    BY <1>14, <2>2, <2>3 DEF WriteDelete
<1>15. ASSUME NEW t \in Threads, NoRoom(t)
      PROVE  Idle(t)
  BY <1>2, <1>15 DEF NoRoom, Goto, TypeInv, TypeOK, Counting, table, metadata
<1>16. ASSUME NEW t \in Threads, Query(t)
      PROVE  Idle(t)
  BY <1>2, <1>16 DEF Query, ReturnWith, Goto, TypeInv, TypeOK, Counting, table, metadata
<1>17. ASSUME NEW t \in Threads, MetaLock(t)
      PROVE  Within(t) /\ todo' = todo
  BY <1>17 DEF MetaLock, Goto, TypeInv, TypeOK, Held, InMetadata, LockSet, LocksNext, Home, table
<1>18. ASSUME NEW t \in Threads, MetaRead(t)
      PROVE  Within(t) /\ todo' = todo
  BY <1>18 DEF MetaRead, Goto, TypeInv, TypeOK, Held, InMetadata, LockSet, LocksNext, Home, table
<1>19. ASSUME NEW t \in Threads, MetaWrite(t)
       PROVE  CoveredInv'
  <2>1. Within(t)
    BY <1>19
    DEF MetaWrite, Goto, TypeInv, TypeOK, Held, InMetadata, LockSet, LocksNext, Home, table
  <2>2. todo[t] # << >> /\ todo'[t] = Tail(todo[t])
    BY <1>19 DEF MetaWrite, TypeInv, TypeOK, Started
  <2>3. SlotsIn(todo'[t]) = 0 \/ SlotsIn(todo'[t]) = SlotsIn(todo[t])
    BY <1>2, <2>2, UpdatesAfterOne
  <2> QED
    BY <2>1, <2>3, StaysCovered
<1>20. ASSUME NEW t \in Threads, MetaUnlock(t)
      PROVE  Within(t) /\ todo' = todo
  BY <1>20
  DEF MetaUnlock, Goto, TypeInv, TypeOK, Held, InMetadata, LockSet, LocksNext, Home, table
<1>21. ASSUME NEW t \in Threads, UnlockNext(t)
      PROVE  Idle(t)
  BY <1>2, <1>21 DEF UnlockNext, Goto, TypeInv, TypeOK, Counting, table, metadata
<1>22. ASSUME NEW t \in Threads, Unlock(t)
       PROVE  CoveredInv'
  <2>1. Others(t) /\ used' = used /\ todo[t] = << >>
    BY <1>2, <1>22 DEF Unlock, Goto, TypeInv, TypeOK, Counting, table, metadata
  <2>2. todo'[t] = << >> \/ todo'[t] = << << "nelts", 1 >> >>
    BY <1>22, <2>1 DEF Unlock, TypeInv, TypeOK
  <2>3. SlotsIn(todo'[t]) = 0
    <3>1. CASE todo'[t] = << >>
      BY <3>1, NoUpdates
    <3>2. CASE todo'[t] = << << "nelts", 1 >> >>
      BY <3>2, ElementUpdate
    <3> QED
      BY <2>2, <3>1, <3>2
  <2> QED
    BY <2>1, <2>3, StaysCovered
<1>23. ASSUME NEW t \in Threads, Return(t)
      PROVE  Idle(t)
  BY <1>2, <1>23 DEF Return, Goto, TypeInv, TypeOK, Counting, table, metadata
<1>24. CASE UNCHANGED vars
  BY <1>24 DEF CoveredInv, Held, InMetadata, LockSet, LocksNext, Home, vars
<1> HIDE DEF Others, Idle, Within
<1> QED
  BY <1>3, <1>4, <1>6, <1>7, <1>8, <1>9, <1>10, <1>11, <1>12, <1>13, <1>14, <1>15, <1>16, <1>17,
     <1>18, <1>19, <1>20, <1>21, <1>22, <1>23, <1>24 DEF Next, Step

\* What is still to be counted is no more than the slots in use.
LEMMA CoveredBounds ==
    ASSUME IsFiniteSet(Threads), TypeInv, LocksInv, CountersInv, CoveredInv
    PROVE  NoUnderflow
<1>1. OwedTypes
  BY OwedTyped
<1> DEFINE home == [t \in Threads |-> Home(t)]
<1>2. \A t \in Threads : Owed[t] > 0 => home[t] \in Regions /\ Owed[t] <= used[home[t]]
  BY <1>1 DEF OwedTypes, CoveredInv, LocksInv, LocksExact, TypeInv, TypeOK
<1>3. \A t, v \in Threads : Owed[t] > 0 /\ Owed[v] > 0 /\ home[t] = home[v] => t = v
  BY <1>1 DEF OwedTypes, CoveredInv, LocksInv, LocksExact
<1>4. /\ \A r \in Regions : used[r] \in Int /\ used[r] >= 0
      /\ \A t \in Threads : Owed[t] \in Int
  BY <1>1 DEF OwedTypes, CoveredInv
<1>5. IsFiniteSet(Regions)
  BY FS_Interval, LocksAssumption DEF Regions
<1>6. SumFunctionOnSet(Owed, Threads) <= SumFunctionOnSet(used, Regions)
  <2>1. Covers(home, Owed, Threads, used, Regions)
    BY <1>2, <1>3 DEF Covers
  <2>2. \A r \in Regions : used[r] \in Int /\ used[r] >= 0
    BY <1>4
  <2>3. \A t \in Threads : Owed[t] \in Int
    BY <1>4
  <2> HIDE DEF home
  <2> QED
    BY <1>5, <2>1, <2>2, <2>3, SumInjection
<1>7. SumFunctionOnSet(Owed, Threads) \in Int /\ SumFunctionOnSet(used, Regions) \in Int
  BY <1>4, <1>5, SumType
<1>8. SumFunction(used) = counters["noccupied_slots"] + SumFunction(Owed)
  BY DEF CountersInv, SlotsBalanced, Owed
<1> QED
  BY <1>1, <1>6, <1>7, <1>8 DEF OwedTypes, NoUnderflow

\* noccupied_slots, which is unsigned, never goes below zero: a delete is never
\* counted before the insertion that took its slots.
THEOREM UnderflowCorrect ==
    IsFiniteSet(Threads) /\ ShortReaches /\ SinglesFit => (Spec => []NoUnderflow)
<1> SUFFICES ASSUME IsFiniteSet(Threads), ShortReaches, SinglesFit
             PROVE  Spec => []NoUnderflow
  OBVIOUS
<1> DEFINE Inv == /\ TypeInv /\ LocksInv /\ MetadataInv /\ NoLostUpdate /\ CountersInv
                  /\ CoveredInv
<1>1. Init => Inv
  BY TypeInit, LocksInit, MetadataInit, LostInit, CountersInit, CoveredInit
<1>2. Inv /\ [Next]_vars => Inv'
  BY TypeStep, LocksStep, MetadataStep, LostStep, CountersStep, CoveredStep
<1>3. Inv => NoUnderflow
  BY CoveredBounds
<1> QED
  BY <1>1, <1>2, <1>3, PTL DEF Spec

(***************************************************************************)
(* No circular wait: a thread that waits for a region has its holder wait  *)
(* for a higher one, and regions end.                                      *)
(***************************************************************************)

\* The thread has its first region and waits for the second.
WaitsForNext(t) == pc[t] = "lock_next" /\ Home(t) + 1 \in locks

\* When every thread inside a call spins, the holder of a lock waits for its second
\* region.
LEMMA HolderWaits ==
    ASSUME LocksInv, \A t \in Threads : pc[t] # "idle" => Spinning(t), ~metadata_lock,
           NEW r \in locks
    PROVE  \E u \in Threads : WaitsForNext(u) /\ Home(u) = r
<1>1. PICK u \in Threads : r \in Held(u)
  BY DEF LocksInv, LocksExact
<1>2. pc[u] # "idle"
  BY <1>1 DEF Held, InMetadata
<1>3. pc[u] = "lock_next" /\ Home(u) + 1 \in locks
  BY <1>1, <1>2 DEF Spinning, Held, InMetadata
<1>4. Held(u) = {Home(u)}
  BY <1>3 DEF Held
<1> QED
  BY <1>1, <1>3, <1>4 DEF WaitsForNext

\* Then nobody waits for a second region: of those who do, the one whose own region
\* is highest would need a holder higher still.
LEMMA NobodyWaits ==
    ASSUME TypeInv, LocksInv, \A t \in Threads : pc[t] # "idle" => Spinning(t), ~metadata_lock
    PROVE  \A t \in Threads : ~WaitsForNext(t)
<1> DEFINE Above(t) == NRegions - Home(t)
           Waiting == {t \in Threads : WaitsForNext(t)}
           Distances == {Above(t) : t \in Waiting}
<1>1. \A t \in Waiting : Home(t) \in Nat /\ Above(t) \in Nat
  <2>1. \A t \in Waiting : call[t] \in Calls
    BY DEF WaitsForNext, TypeInv, Started
  <2> QED
    BY <2>1, HomeRegion, LocksAssumption DEF Regions
<1>2. SUFFICES ASSUME Waiting # {} PROVE FALSE
  OBVIOUS
<1>3. Distances \in SUBSET Nat /\ Distances # {}
  BY <1>1, <1>2
<1>4. PICK d \in Distances : \A e \in Distances : d <= e
  BY <1>3, LeastNatural
<1>5. PICK t \in Waiting : d = Above(t)
  BY <1>4
<1>6. PICK u \in Waiting : Home(u) = Home(t) + 1
  BY <1>5, HolderWaits DEF WaitsForNext
<1>7. Above(u) < Above(t)
  BY <1>1, <1>5, <1>6, LocksAssumption
<1>8. Above(t) <= Above(u)
  BY <1>4, <1>5, <1>6
<1>9. Above(t) \in Nat /\ Above(u) \in Nat
  BY <1>1, <1>5, <1>6
<1> QED
  BY <1>7, <1>8, <1>9

LEMMA StandstillImpossible == TypeInv /\ LocksInv /\ MetadataInv => NoStandstill
<1> SUFFICES ASSUME TypeInv, LocksInv, MetadataInv,
                    NEW t \in Threads, pc[t] # "idle",
                    \A u \in Threads : pc[u] # "idle" => Spinning(u)
             PROVE  FALSE
  BY DEF NoStandstill
\* A thread that is in modify_metadata does not spin.
<1>1. ~metadata_lock
  BY DEF MetadataInv, InMetadata, Spinning
<1>2. \A u \in Threads : ~WaitsForNext(u)
  BY <1>1, NobodyWaits
<1>3. locks = {}
  BY <1>1, <1>2, HolderWaits
<1> QED
  BY <1>1, <1>3 DEF Spinning

\* Whatever locks the calls hold, some thread inside a call is not waiting for one:
\* the locks of regions and metadata cannot deadlock.
THEOREM WaitingCorrect == SinglesFit => (Spec => []NoStandstill)
<1> SUFFICES ASSUME SinglesFit PROVE Spec => []NoStandstill
  OBVIOUS
<1>1. Init => TypeInv /\ LocksInv /\ MetadataInv
  BY TypeInit, LocksInit, MetadataInit
<1>2. TypeInv /\ LocksInv /\ MetadataInv /\ [Next]_vars => (TypeInv /\ LocksInv /\ MetadataInv)'
  BY TypeStep, LocksStep, MetadataStep
<1> QED
  BY <1>1, <1>2, StandstillImpossible, PTL DEF Spec
=================================================================================
