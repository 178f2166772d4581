--------------------------- MODULE MementoLocks_proof ---------------------------
(***************************************************************************)
(* Proofs about MementoLocks, for any number of threads, any lock and      *)
(* cluster sizes and any calls.                                            *)
(***************************************************************************)
EXTENDS MementoLocks, CountingTheorems, SequenceTheorems

(***************************************************************************)
(* Arithmetic of regions.                                                  *)
(***************************************************************************)

\* A call that reaches at most ClusterSize slots from its bucket stays inside the
\* regions it locks.
LEMMA RewrittenLocked ==
    ASSUME ShortReaches, NEW t \in Threads, call[t] \in Calls
    PROVE  /\ Home(t) \in Rewritten(t)
           /\ Rewritten(t) \subseteq LockSet(t)
           /\ LockSet(t) \subseteq Regions
<1> DEFINE b == call[t].bucket
           d == call[t].reach
           n == SlotsPerRegion
           h == b \div n
<1>1. /\ b \in CallBuckets /\ b \in Nat
      /\ d \in Reaches /\ d \in Nat /\ d <= ClusterSize
      /\ ClusterSize \in Nat /\ ClusterSize <= n
      /\ n \in Nat \ {0}
  BY LocksAssumption DEF Calls, ShortReaches
<1>2. h \in Nat /\ b % n \in 0 .. n - 1 /\ b = n * h + (b % n)
  BY <1>1, DivMod
<1>3. Home(t) = h
  BY DEF Home, Region
<1>4. Home(t) \in Rewritten(t)
  BY <1>1 DEF Home, Rewritten
<1>5. LockSet(t) \subseteq Regions
  <2>1. h + 1 \in Regions
    BY <1>1, LocksAssumption DEF Region
  <2>2. h \in Regions
    BY <1>2, <2>1, LocksAssumption DEF Regions
  <2> QED
    BY <1>3, <2>1, <2>2 DEF LockSet
<1>6. ASSUME NEW s \in b .. b + d
      PROVE  s \div n \in LockSet(t)
  <2> DEFINE m == b % n
             k == n * h
  <2>1. /\ s \in Nat /\ b <= s /\ s <= b + d
        /\ k \in Nat /\ b = k + m /\ m \in Nat
    BY <1>1, <1>2
  <2>2. n * (h + 1) = k + n
    BY <1>1, <1>2, SMT
  <2>3. k <= s /\ s < k + n => s \div n = h
    BY <1>1, <1>2, <2>1, DivUnique
  <2>4. k + n <= s /\ s < k + n + n => s \div n = h + 1
    <3> DEFINE q == h + 1
    <3>1. q \in Nat /\ n * q = k + n
      BY <1>2, <2>2
    <3> HIDE DEF q, k
    <3> QED
      BY <1>1, <2>1, <3>1, DivUnique DEF q
  <2>5. LockSet(t) = IF n - m <= ClusterSize THEN {h, h + 1} ELSE {h}
    BY <1>3 DEF LockSet, LocksNext
  <2> HIDE DEF b, d, h, m, k
  <2>6. CASE n - m <= ClusterSize
    <3>1. k <= s /\ s < k + n + n
      BY <1>1, <1>2, <2>1 DEF m
    <3>2. s \div n = h \/ s \div n = h + 1
      BY <1>1, <2>1, <2>3, <2>4, <3>1
    <3> QED
      BY <2>5, <2>6, <3>2
  <2>7. CASE ~(n - m <= ClusterSize)
    BY <1>1, <2>1, <2>3, <2>5, <2>7
  <2> QED
    BY <2>6, <2>7
<1> QED
  BY <1>4, <1>5, <1>6 DEF Rewritten, Region

(***************************************************************************)
(* Type correctness.                                                       *)
(***************************************************************************)

\* A thread inside a call has arguments, and one that changes a counter has a
\* change to make.
Started ==
    \A t \in Threads :
        /\ pc[t] # "idle" => call[t] \in Calls
        /\ pc[t] \in {"meta_read", "meta_write"} => todo[t] # << >>

TypeInv == TypeOK /\ Started

\* The buckets of calls are in regions that have a lock, the next one too.
LEMMA HomeRegion ==
    ASSUME NEW t \in Threads, call[t] \in Calls
    PROVE  Home(t) \in Regions /\ Home(t) + 1 \in Regions /\ Home(t) \in Nat
<1>1. call[t].bucket \in CallBuckets /\ call[t].bucket \in Nat
  BY LocksAssumption DEF Calls
<1>2. Home(t) \in Nat
  BY <1>1, DivMod, LocksAssumption DEF Home, Region
<1>3. Home(t) + 1 \in Regions
  BY <1>1, LocksAssumption DEF Home
<1> QED
  BY <1>2, <1>3, LocksAssumption DEF Regions

\* Lists of at most three elements.
LEMMA ShortSeqs ==
    ASSUME NEW S, NEW a \in S, NEW b \in S, NEW c \in S
    PROVE  /\ << >> \in Seq(S)
           /\ << a >> \in Seq(S)
           /\ << a, b >> \in Seq(S)
           /\ << a, b, c >> \in Seq(S)
OBVIOUS

\* The modify_metadata calls of the operations.
LEMMA TodoTypes ==
    ASSUME NEW n \in Int, NEW m \in Int
    PROVE  /\ << >> \in Seq(Counters \X Int)
           /\ Updates("noccupied_slots", n) \in Seq(Counters \X Int)
           /\ << << "nelts", n >> >> \in Seq(Counters \X Int)
           /\ << << "ndistinct_elts", 1 >>, << "noccupied_slots", n >> >> \in Seq(Counters \X Int)
           /\ << << "ndistinct_elts", 1 >>, << "noccupied_slots", n >>, << "nelts", m >> >>
                 \in Seq(Counters \X Int)
<1> DEFINE U == Counters \X Int
<1>1. /\ << "nelts", n >> \in U /\ << "nelts", m >> \in U
      /\ << "ndistinct_elts", 1 >> \in U
      /\ << "noccupied_slots", n >> \in U
  BY DEF Counters
<1> HIDE DEF U
<1>2. << >> \in Seq(U)
  BY <1>1, ShortSeqs
<1>3. << << "nelts", n >> >> \in Seq(U)
  BY <1>1, ShortSeqs
<1>4. << << "noccupied_slots", n >> >> \in Seq(U)
  BY <1>1, ShortSeqs
<1>5. << << "ndistinct_elts", 1 >>, << "noccupied_slots", n >> >> \in Seq(U)
  BY <1>1, ShortSeqs
<1>6. << << "ndistinct_elts", 1 >>, << "noccupied_slots", n >>, << "nelts", m >> >> \in Seq(U)
  BY <1>1, ShortSeqs
<1> QED
  BY <1>2, <1>3, <1>4, <1>5, <1>6 DEF U, Updates

\* A write keeps the types of what it changes in the table.
LEMMA RewriteTypes ==
    ASSUME TypeOK, NEW t \in Threads, NEW change \in Int, Rewrite(t, change)
    PROVE  /\ used' \in [Regions -> Int]
           /\ applied' \in [Regions -> Int]
           /\ seen' \in [Threads -> [Regions -> Int]]
<1>1. used' \in [Regions -> Int]
  <2>1. \A r \in Regions : seen[t][r] \in Int /\ seen[t][r] + change \in Int /\ used[r] \in Int
    BY DEF TypeOK
  <2> QED
    BY <2>1 DEF Rewrite
<1>2. applied' \in [Regions -> Int]
  <2>1. \A r \in Regions : applied[r] + change \in Int
    BY DEF TypeOK
  <2> QED
    BY <2>1 DEF Rewrite, TypeOK
<1>3. seen' \in [Threads -> [Regions -> Int]]
  BY DEF Rewrite, Forget, TypeOK
<1> QED
  BY <1>1, <1>2, <1>3

LEMMA TypeInit == Init => TypeInv
<1> SUFFICES ASSUME Init PROVE TypeInv
  OBVIOUS
<1>1. used \in [Regions -> Int] /\ applied \in [Regions -> Int] /\ seen \in [Threads -> [Regions -> Int]]
  BY DEF Init
<1>2. todo \in [Threads -> Seq(Counters \X Int)]
  BY TodoTypes DEF Init
<1>3. call \in [Threads -> Calls \cup {NoCall}] /\ pc \in [Threads -> Places]
  BY DEF Init, Places
<1>4. Started
  BY DEF Init, Started
<1>5. locks \subseteq Regions
  BY DEF Init
<1>6. metadata_lock \in BOOLEAN
  BY DEF Init
<1>7. /\ counters \in [Counters -> Int]
      /\ back \in [Threads -> {"finish", "count"}]
      /\ tmp \in [Threads -> Int]
      /\ ret \in [Threads -> Results]
  BY DEF Init, Results
<1> QED
  BY <1>1, <1>2, <1>3, <1>4, <1>5, <1>6, <1>7 DEF TypeInv, TypeOK

LEMMA TypeStep == TypeInv /\ [Next]_vars => TypeInv'
<1> SUFFICES ASSUME TypeInv, [Next]_vars
             PROVE  TypeInv'
  OBVIOUS
<1> USE DEF TypeInv
<1>1. ASSUME NEW t \in Threads, Call(t)
      PROVE  TypeInv'
  <2>1. PICK c \in Calls : /\ call' = [call EXCEPT ![t] = c]
                           /\ Goto(t, StartOf(c.kind))
    BY <1>1 DEF Call
  <2>2. StartOf(c.kind) \in {"check", "lock", "query"}
    BY LocksAssumption DEF Calls, StartOf, Operations, Insertions
  <2>3. TypeOK'
    BY <1>1, <2>1, <2>2 DEF Call, Goto, TypeOK, Places, table, metadata
  <2>4. Started'
    BY <1>1, <2>1, <2>2 DEF Call, Goto, Started, TypeOK, table, metadata
  <2> QED
    BY <2>3, <2>4
<1>2. ASSUME NEW t \in Threads, Check(t)
      PROVE  TypeInv'
  BY <1>2 DEF Check, ReturnWith, Goto, TypeOK, Started, Places, Results, table, metadata
<1>3. ASSUME NEW t \in Threads, Lock(t)
      PROVE  TypeInv'
  <2>1. Home(t) \in Regions
    BY <1>3, HomeRegion DEF Lock, Started
  <2> QED
    BY <1>3, <2>1 DEF Lock, ReturnWith, Goto, TypeOK, Started, Places, Results, table, metadata
<1>4. ASSUME NEW t \in Threads, LockNext(t)
      PROVE  TypeInv'
  <2>1. Home(t) + 1 \in Regions
    BY <1>4, HomeRegion DEF LockNext, Started
  <2> QED
    BY <1>4, <2>1 DEF LockNext, Goto, TypeOK, Started, Places, table, metadata
<1>5. ASSUME NEW t \in Threads, BackOff(t)
      PROVE  TypeInv'
  BY <1>5 DEF BackOff, ReturnWith, Goto, TypeOK, Started, Places, Results, table, metadata
<1>6. ASSUME NEW t \in Threads, Read(t)
      PROVE  TypeInv'
  BY <1>6 DEF Read, Goto, TypeOK, Started, Places, table, metadata
<1>7. ASSUME NEW t \in Threads, WriteSingle(t)
      PROVE  TypeInv'
  <2>1. PICK growth \in Int :
            /\ Rewrite(t, growth)
            /\ \/ /\ growth = 1
                  /\ todo' = [todo EXCEPT ![t] =
                       << << "ndistinct_elts", 1 >>, << "noccupied_slots", growth >> >>]
               \/ todo' = [todo EXCEPT ![t] = Updates("noccupied_slots", growth)]
    BY <1>7, LocksAssumption DEF WriteSingle
  <2>2. todo' \in [Threads -> Seq(Counters \X Int)]
    BY <2>1, TodoTypes DEF TypeOK
  <2> QED
    BY <1>7, <2>1, <2>2, RewriteTypes
    DEF WriteSingle, Goto, TypeOK, Started, Places, Results, metadata
<1>8. ASSUME NEW t \in Threads, WriteMementos(t)
      PROVE  TypeInv'
  <2>1. PICK growth \in Growths :
            /\ Rewrite(t, growth)
            /\ todo' = [todo EXCEPT ![t] = << << "ndistinct_elts", 1 >>,
                                              << "noccupied_slots", growth >>,
                                              << "nelts", ListLength >> >>]
    BY <1>8 DEF WriteMementos
  <2>2. growth \in Int /\ ListLength \in Int
    BY LocksAssumption
  <2>3. todo' \in [Threads -> Seq(Counters \X Int)]
    BY <2>1, <2>2, TodoTypes DEF TypeOK
  <2> QED
    BY <1>8, <2>1, <2>2, <2>3, RewriteTypes
    DEF WriteMementos, Goto, TypeOK, Started, Places, Results, metadata
<1>9. ASSUME NEW t \in Threads, WriteDelete(t)
      PROVE  TypeInv'
  <2>1. CASE \E growth \in Int :
                 /\ Rewrite(t, growth)
                 /\ todo' = [todo EXCEPT ![t] = Updates("noccupied_slots", growth)]
                 /\ ret' = [ret EXCEPT ![t] = "ok"]
    <3>1. todo' \in [Threads -> Seq(Counters \X Int)]
      BY <2>1, TodoTypes DEF TypeOK
    <3> QED
      BY <1>9, <2>1, <3>1, RewriteTypes
      DEF WriteDelete, Goto, TypeOK, Started, Places, Results, metadata
  <2>2. CASE /\ ret' = [ret EXCEPT ![t] = "doesnt_exist"]
             /\ Forget(t)
             /\ UNCHANGED << used, todo, applied >>
    BY <1>9, <2>2 DEF WriteDelete, Forget, Goto, TypeOK, Started, Places, Results, metadata
  <2>3. \A g \in Growths : 0 - g \in Int
    BY LocksAssumption
  <2> QED
    BY <1>9, <2>1, <2>2, <2>3 DEF WriteDelete
<1>10. ASSUME NEW t \in Threads, NoRoom(t)
       PROVE  TypeInv'
  BY <1>10 DEF NoRoom, Forget, Goto, TypeOK, Started, Places, Results, table, metadata
<1>11. ASSUME NEW t \in Threads, Query(t)
       PROVE  TypeInv'
  BY <1>11 DEF Query, ReturnWith, Goto, TypeOK, Started, Places, Results, table, metadata
<1>12. ASSUME NEW t \in Threads, MetaLock(t)
       PROVE  TypeInv'
  BY <1>12 DEF MetaLock, Goto, TypeOK, Started, Places, table, metadata
<1>13. ASSUME NEW t \in Threads, MetaRead(t)
       PROVE  TypeInv'
  BY <1>13, HeadTailProperties DEF MetaRead, Goto, TypeOK, Started, Places, table, metadata
<1>14. ASSUME NEW t \in Threads, MetaWrite(t)
       PROVE  TypeInv'
  BY <1>14, HeadTailProperties DEF MetaWrite, Goto, TypeOK, Started, Places, table, metadata
<1>15. ASSUME NEW t \in Threads, MetaUnlock(t)
       PROVE  TypeInv'
  BY <1>15 DEF MetaUnlock, Goto, TypeOK, Started, Places, table, metadata
<1>16. ASSUME NEW t \in Threads, UnlockNext(t)
       PROVE  TypeInv'
  BY <1>16 DEF UnlockNext, Goto, TypeOK, Started, Places, table, metadata
<1>17. ASSUME NEW t \in Threads, Unlock(t)
       PROVE  TypeInv'
  <2>1. todo' \in [Threads -> Seq(Counters \X Int)]
    <3>1. << "nelts", 1 >> \in Counters \X Int
      BY DEF Counters
    <3>2. << << "nelts", 1 >> >> \in Seq(Counters \X Int)
      BY <3>1, ShortSeqs
    <3> QED
      BY <1>17, <3>2 DEF Unlock, TypeOK
  <2> QED
    BY <1>17, <2>1 DEF Unlock, Goto, TypeOK, Started, Places, Counters, table, metadata
<1>18. ASSUME NEW t \in Threads, Return(t)
       PROVE  TypeInv'
  BY <1>18 DEF Return, Goto, TypeOK, Started, Places, Results, table, metadata
<1>19. CASE UNCHANGED vars
  BY <1>19 DEF TypeOK, Started, vars
<1> QED
  BY <1>1, <1>2, <1>3, <1>4, <1>5, <1>6, <1>7, <1>8, <1>9, <1>10, <1>11, <1>12, <1>13, <1>14,
     <1>15, <1>16, <1>17, <1>18, <1>19 DEF Next, Step

\* The state keeps its types, and every lock taken is one the filter allocated.
THEOREM TypeCorrect == Spec => []TypeOK
<1>1. Spec => []TypeInv
  BY TypeInit, TypeStep, PTL DEF Spec
<1> QED
  BY <1>1, PTL DEF TypeInv

(***************************************************************************)
(* The region locks.                                                       *)
(***************************************************************************)

\* The second lock is only asked for when the bucket is near the next region.
LocksInv == LocksExact /\ \A t \in Threads : pc[t] = "lock_next" => LocksNext(t)

\* A thread that keeps its place and its call keeps its locks.
LEMMA HeldKept ==
    ASSUME NEW u \in Threads,
           pc'[u] = pc[u], call'[u] = call[u], back'[u] = back[u]
    PROVE  Held(u)' = Held(u)
BY DEF Held, InMetadata, LockSet, LocksNext, Home

\* One thread takes a free lock, gives back one it holds, or does neither.
LEMMA OneThreadLocks ==
    ASSUME LocksExact, NEW t \in Threads, NEW x,
           \A u \in Threads \ {t} : Held(u)' = Held(u),
           \/ locks' = locks /\ Held(t)' = Held(t)
           \/ x \notin locks /\ locks' = locks \cup {x} /\ Held(t)' = Held(t) \cup {x}
           \/ x \in Held(t) /\ locks' = locks \ {x} /\ Held(t)' = Held(t) \ {x}
    PROVE  LocksExact'
<1>1. ASSUME NEW u \in Threads, NEW v \in Threads, u # v
      PROVE  Held(u)' \cap Held(v)' = {}
  <2>1. Held(u) \cap Held(v) = {} /\ Held(u) \subseteq locks /\ Held(v) \subseteq locks
    BY <1>1 DEF LocksExact
  <2> QED
    BY <1>1, <2>1
<1>2. \A r : r \in locks' <=> \E u \in Threads : r \in Held(u)'
  <2>1. \A r : r \in locks <=> \E u \in Threads : r \in Held(u)
    BY DEF LocksExact
  <2>2. \A u \in Threads \ {t} : Held(u) \cap Held(t) = {}
    BY DEF LocksExact
  <2> QED
    BY <2>1, <2>2
<1>3. locks' = UNION {Held(u)' : u \in Threads}
  BY <1>2
<1> QED
  BY <1>1, <1>3 DEF LocksExact

LEMMA LocksInit == Init => LocksInv
BY DEF Init, LocksInv, LocksExact, Held, InMetadata

LEMMA LocksStep ==
    ASSUME SinglesFit, TypeInv, LocksInv, [Next]_vars
    PROVE  LocksInv'
<1> USE DEF LocksInv
<1> DEFINE Others(t) == \A u \in Threads \ {t} :
                            pc'[u] = pc[u] /\ call'[u] = call[u] /\ back'[u] = back[u]
           NextNear(t) == pc'[t] = "lock_next" => LocksNext(t)'
           Same(t) == locks' = locks /\ Held(t)' = Held(t)
           Taken(t, x) == x \notin locks /\ locks' = locks \cup {x} /\ Held(t)' = Held(t) \cup {x}
           Given(t, x) == x \in Held(t) /\ locks' = locks \ {x} /\ Held(t)' = Held(t) \ {x}
<1>1. ASSUME NEW t \in Threads, NEW x, Others(t), NextNear(t), Same(t) \/ Taken(t, x) \/ Given(t, x)
      PROVE  LocksInv'
  <2>1. \A u \in Threads \ {t} : Held(u)' = Held(u)
    BY <1>1, HeldKept
  <2>2. LocksExact'
    BY <1>1, <2>1, OneThreadLocks
  <2>3. \A u \in Threads : pc'[u] = "lock_next" => LocksNext(u)'
    BY <1>1 DEF LocksNext
  <2> QED
    BY <2>2, <2>3
<1> HIDE DEF LocksInv
<1>2. ASSUME NEW t \in Threads, Call(t)
      PROVE  Others(t) /\ NextNear(t) /\ Same(t)
  <2>1. PICK c \in Calls : /\ call' = [call EXCEPT ![t] = c]
                           /\ pc' = [pc EXCEPT ![t] = StartOf(c.kind)]
    BY <1>2 DEF Call, Goto
  <2>2. StartOf(c.kind) \in {"check", "lock", "query"}
    BY LocksAssumption DEF Calls, StartOf, Operations, Insertions
  <2> QED
    BY <1>2, <2>1, <2>2 DEF Call, TypeInv, TypeOK, Held, InMetadata, table, metadata
<1>3. ASSUME NEW t \in Threads, Check(t)
      PROVE  Others(t) /\ NextNear(t) /\ Same(t)
  BY <1>3
  DEF Check, Goto, ReturnWith, TypeInv, TypeOK, Held, InMetadata, LockSet, LocksNext, Home, table, metadata
<1>4. ASSUME NEW t \in Threads, Lock(t)
      PROVE  Others(t) /\ NextNear(t) /\ (Same(t) \/ Taken(t, Home(t)))
  BY <1>4 DEF Lock, ReturnWith, Goto, TypeInv, TypeOK, Held, InMetadata, LockSet, LocksNext, Home,
              table, metadata
<1>5. ASSUME NEW t \in Threads, LockNext(t)
      PROVE  Others(t) /\ NextNear(t) /\ (Same(t) \/ Taken(t, Home(t) + 1))
  <2>1. LocksNext(t)
    BY <1>5 DEF LockNext, LocksInv
  <2> QED
    BY <1>5, <2>1 DEF LockNext, Goto, TypeInv, TypeOK, Held, InMetadata, LockSet, LocksNext, Home,
                      table, metadata
<1>6. ASSUME NEW t \in Threads, BackOff(t)
      PROVE  Others(t) /\ NextNear(t) /\ Given(t, Home(t))
  BY <1>6
  DEF BackOff, Goto, ReturnWith, TypeInv, TypeOK, Held, InMetadata, LockSet, LocksNext, Home, table, metadata
<1>7. ASSUME NEW t \in Threads, Read(t)
      PROVE  Others(t) /\ NextNear(t) /\ Same(t)
  BY <1>7
  DEF Read, Goto, TypeInv, TypeOK, Held, InMetadata, LockSet, LocksNext, Home, table, metadata
<1>8. ASSUME NEW t \in Threads, WriteSingle(t)
      PROVE  Others(t) /\ NextNear(t) /\ Same(t)
  BY <1>8
  DEF WriteSingle, Goto, TypeInv, TypeOK, Held, InMetadata, LockSet, LocksNext, Home, table, metadata
<1>9. ASSUME NEW t \in Threads, WriteMementos(t)
      PROVE  Others(t) /\ NextNear(t) /\ Same(t)
  BY <1>9
  DEF WriteMementos, Goto, TypeInv, TypeOK, Held, InMetadata, LockSet, LocksNext, Home, table, metadata
<1>10. ASSUME NEW t \in Threads, WriteDelete(t)
      PROVE  Others(t) /\ NextNear(t) /\ Same(t)
  BY <1>10
  DEF WriteDelete, Goto, TypeInv, TypeOK, Held, InMetadata, LockSet, LocksNext, Home, table, metadata
<1>11. ASSUME NEW t \in Threads, NoRoom(t)
      PROVE  Others(t) /\ NextNear(t) /\ Same(t)
  BY <1>11, SinglesFit
  DEF NoRoom, Goto, SinglesFit, Started, Calls, Insertions, TypeInv, TypeOK, Held, InMetadata, LockSet, LocksNext, Home, table, metadata
<1>12. ASSUME NEW t \in Threads, Query(t)
      PROVE  Others(t) /\ NextNear(t) /\ Same(t)
  BY <1>12
  DEF Query, Goto, ReturnWith, TypeInv, TypeOK, Held, InMetadata, LockSet, LocksNext, Home, table, metadata
<1>13. ASSUME NEW t \in Threads, MetaLock(t)
      PROVE  Others(t) /\ NextNear(t) /\ Same(t)
  BY <1>13
  DEF MetaLock, Goto, TypeInv, TypeOK, Held, InMetadata, LockSet, LocksNext, Home, table, metadata
<1>14. ASSUME NEW t \in Threads, MetaRead(t)
      PROVE  Others(t) /\ NextNear(t) /\ Same(t)
  BY <1>14
  DEF MetaRead, Goto, TypeInv, TypeOK, Held, InMetadata, LockSet, LocksNext, Home, table, metadata
<1>15. ASSUME NEW t \in Threads, MetaWrite(t)
      PROVE  Others(t) /\ NextNear(t) /\ Same(t)
  BY <1>15
  DEF MetaWrite, Goto, TypeInv, TypeOK, Held, InMetadata, LockSet, LocksNext, Home, table, metadata
<1>16. ASSUME NEW t \in Threads, MetaUnlock(t)
      PROVE  Others(t) /\ NextNear(t) /\ Same(t)
  BY <1>16
  DEF MetaUnlock, Goto, TypeInv, TypeOK, Held, InMetadata, LockSet, LocksNext, Home, table, metadata
<1>17. ASSUME NEW t \in Threads, UnlockNext(t)
      PROVE  Others(t) /\ NextNear(t) /\ Given(t, Home(t) + 1)
  <2>1. Home(t) \in Nat
    BY <1>17, HomeRegion DEF UnlockNext, TypeInv, Started
  <2>2. Home(t) # Home(t) + 1
    BY <2>1
  <2>3. Held(t) = {Home(t), Home(t) + 1} /\ Held(t)' = {Home(t)}
    BY <1>17 DEF UnlockNext, Goto, TypeInv, TypeOK, Held, LockSet, LocksNext, Home
  <2> QED
    BY <1>17, <2>2, <2>3 DEF UnlockNext, Goto, TypeInv, TypeOK, metadata
<1>18. ASSUME NEW t \in Threads, Unlock(t)
      PROVE  Others(t) /\ NextNear(t) /\ Given(t, Home(t))
  BY <1>18
  DEF Unlock, Goto, TypeInv, TypeOK, Held, InMetadata, LockSet, LocksNext, Home, table, metadata
<1>19. ASSUME NEW t \in Threads, Return(t)
      PROVE  Others(t) /\ NextNear(t) /\ Same(t)
  BY <1>19
  DEF Return, Goto, TypeInv, TypeOK, Held, InMetadata, LockSet, LocksNext, Home, table, metadata
<1>20. CASE UNCHANGED vars
  BY <1>20 DEF LocksInv, LocksExact, Held, InMetadata, LockSet, LocksNext, Home, vars
<1> HIDE DEF Others, NextNear, Same, Taken, Given
<1> QED
  BY <1>1, <1>2, <1>3, <1>4, <1>5, <1>6, <1>7, <1>8, <1>9, <1>10, <1>11, <1>12, <1>13, <1>14,
     <1>15, <1>16, <1>17, <1>18, <1>19, <1>20 DEF Next, Step

\* A region is locked exactly while one call is between taking and releasing its
\* lock, for any number of threads.
THEOREM LocksCorrect == SinglesFit => (Spec => []LocksExact)
<1> SUFFICES ASSUME SinglesFit PROVE Spec => []LocksExact
  OBVIOUS
<1>1. Init => TypeInv /\ LocksInv
  BY TypeInit, LocksInit
<1>2. TypeInv /\ LocksInv /\ [Next]_vars => (TypeInv /\ LocksInv)'
  BY TypeStep, LocksStep
<1>3. LocksInv => LocksExact
  BY DEF LocksInv
<1> QED
  BY <1>1, <1>2, <1>3, PTL DEF Spec

(***************************************************************************)
(* The metadata lock.                                                      *)
(***************************************************************************)

\* The metadata lock is taken exactly while a thread is in modify_metadata.
MetadataInv ==
    /\ CountersExclusive
    /\ metadata_lock <=> \E t \in Threads : InMetadata(t)

LEMMA MetadataInit == Init => MetadataInv
BY DEF Init, MetadataInv, CountersExclusive, InMetadata

\* A step outside modify_metadata.
LEMMA OutsideMetadata ==
    ASSUME MetadataInv, NEW t \in Threads,
           \A u \in Threads \ {t} : pc'[u] = pc[u] /\ todo'[u] = todo[u],
           ~InMetadata(t), ~InMetadata(t)',
           UNCHANGED << metadata_lock, counters, tmp >>
    PROVE  MetadataInv'
BY DEF MetadataInv, CountersExclusive, InMetadata

LEMMA MetadataStep ==
    ASSUME TypeInv, MetadataInv, [Next]_vars
    PROVE  MetadataInv'
<1> DEFINE Outside(t) == /\ \A u \in Threads \ {t} : pc'[u] = pc[u] /\ todo'[u] = todo[u]
                         /\ ~InMetadata(t) /\ ~InMetadata(t)'
                         /\ UNCHANGED << metadata_lock, counters, tmp >>
<1>1. ASSUME NEW t \in Threads, Outside(t)
      PROVE  MetadataInv'
  BY <1>1, OutsideMetadata
<1>2. ASSUME NEW t \in Threads, Call(t)
      PROVE  Outside(t)
  <2>1. PICK c \in Calls : pc' = [pc EXCEPT ![t] = StartOf(c.kind)]
    BY <1>2 DEF Call, Goto
  <2>2. StartOf(c.kind) \in {"check", "lock", "query"}
    BY LocksAssumption DEF Calls, StartOf, Operations, Insertions
  <2> QED
    BY <1>2, <2>1, <2>2 DEF Call, TypeInv, TypeOK, InMetadata, metadata
<1>3. ASSUME NEW t \in Threads, Check(t)
      PROVE  Outside(t)
  BY <1>3
  DEF Check, ReturnWith, Goto, TypeInv, TypeOK, InMetadata, table, metadata
<1>4. ASSUME NEW t \in Threads, Lock(t)
      PROVE  Outside(t)
  BY <1>4
  DEF Lock, ReturnWith, Goto, TypeInv, TypeOK, InMetadata, table, metadata
<1>5. ASSUME NEW t \in Threads, LockNext(t)
      PROVE  Outside(t)
  BY <1>5
  DEF LockNext, Goto, TypeInv, TypeOK, InMetadata, table, metadata
<1>6. ASSUME NEW t \in Threads, BackOff(t)
      PROVE  Outside(t)
  BY <1>6
  DEF BackOff, ReturnWith, Goto, TypeInv, TypeOK, InMetadata, table, metadata
<1>7. ASSUME NEW t \in Threads, Read(t)
      PROVE  Outside(t)
  BY <1>7
  DEF Read, Goto, TypeInv, TypeOK, InMetadata, table, metadata
<1>8. ASSUME NEW t \in Threads, WriteSingle(t)
      PROVE  Outside(t)
  BY <1>8
  DEF WriteSingle, Goto, TypeInv, TypeOK, InMetadata, table, metadata
<1>9. ASSUME NEW t \in Threads, WriteMementos(t)
      PROVE  Outside(t)
  BY <1>9
  DEF WriteMementos, Goto, TypeInv, TypeOK, InMetadata, table, metadata
<1>10. ASSUME NEW t \in Threads, WriteDelete(t)
      PROVE  Outside(t)
  BY <1>10
  DEF WriteDelete, Goto, TypeInv, TypeOK, InMetadata, table, metadata
<1>11. ASSUME NEW t \in Threads, NoRoom(t)
      PROVE  Outside(t)
  BY <1>11
  DEF NoRoom, Goto, TypeInv, TypeOK, InMetadata, table, metadata
<1>12. ASSUME NEW t \in Threads, Query(t)
      PROVE  Outside(t)
  BY <1>12
  DEF Query, ReturnWith, Goto, TypeInv, TypeOK, InMetadata, table, metadata
<1>13. ASSUME NEW t \in Threads, MetaLock(t)
      PROVE  MetadataInv'
  <2>1. \A u \in Threads : ~InMetadata(u)
    BY <1>13 DEF MetaLock, MetadataInv
  <2>2. /\ InMetadata(t)' /\ pc'[t] # "meta_write"
        /\ \A u \in Threads \ {t} : ~InMetadata(u)'
        /\ metadata_lock'
    BY <1>13, <2>1 DEF MetaLock, Goto, TypeInv, TypeOK, InMetadata
  <2> QED
    BY <2>2 DEF MetadataInv, CountersExclusive, InMetadata
<1>14. ASSUME NEW t \in Threads, MetaRead(t)
      PROVE  MetadataInv'
  <2>1. /\ \A u \in Threads : InMetadata(u)' <=> u = t
        /\ \A u \in Threads \ {t} : pc'[u] = pc[u] /\ ~InMetadata(u)
        /\ metadata_lock'
    BY <1>14 DEF MetaRead, Goto, TypeInv, TypeOK, InMetadata, MetadataInv, CountersExclusive
  <2>2. tmp'[t] = counters'[Head(todo'[t])[1]]
    BY <1>14 DEF MetaRead, TypeInv, TypeOK
  <2> QED
    BY <2>1, <2>2 DEF MetadataInv, CountersExclusive, InMetadata
<1>15. ASSUME NEW t \in Threads, MetaWrite(t)
      PROVE  MetadataInv'
  <2>1. /\ \A u \in Threads : InMetadata(u)' <=> u = t
        /\ pc'[t] # "meta_write"
        /\ metadata_lock'
    BY <1>15 DEF MetaWrite, Goto, TypeInv, TypeOK, InMetadata, MetadataInv, CountersExclusive
  <2> QED
    BY <2>1 DEF MetadataInv, CountersExclusive, InMetadata
<1>16. ASSUME NEW t \in Threads, MetaUnlock(t)
      PROVE  MetadataInv'
  <2>1. \A u \in Threads : ~InMetadata(u)'
    BY <1>16 DEF MetaUnlock, Goto, TypeInv, TypeOK, InMetadata, MetadataInv, CountersExclusive
  <2>2. ~metadata_lock'
    BY <1>16 DEF MetaUnlock
  <2> QED
    BY <2>1, <2>2 DEF MetadataInv, CountersExclusive, InMetadata
<1>17. ASSUME NEW t \in Threads, UnlockNext(t)
      PROVE  Outside(t)
  BY <1>17
  DEF UnlockNext, Goto, TypeInv, TypeOK, InMetadata, table, metadata
<1>18. ASSUME NEW t \in Threads, Unlock(t)
      PROVE  Outside(t)
  BY <1>18
  DEF Unlock, Goto, TypeInv, TypeOK, InMetadata, table, metadata
<1>19. ASSUME NEW t \in Threads, Return(t)
      PROVE  Outside(t)
  BY <1>19
  DEF Return, Goto, TypeInv, TypeOK, InMetadata, table, metadata
<1>20. CASE UNCHANGED vars
  BY <1>20 DEF MetadataInv, CountersExclusive, InMetadata, vars
<1> HIDE DEF Outside
<1> QED
  BY <1>1, <1>2, <1>3, <1>4, <1>5, <1>6, <1>7, <1>8, <1>9, <1>10, <1>11, <1>12, <1>13, <1>14,
     <1>15, <1>16, <1>17, <1>18, <1>19, <1>20 DEF Next, Step

\* modify_metadata is a critical section: no addition to a counter is lost.
THEOREM MetadataCorrect == Spec => []CountersExclusive
<1>1. Init => TypeInv /\ MetadataInv
  BY TypeInit, MetadataInit
<1>2. TypeInv /\ MetadataInv /\ [Next]_vars => (TypeInv /\ MetadataInv)'
  BY TypeStep, MetadataStep
<1>3. MetadataInv => CountersExclusive
  BY DEF MetadataInv
<1> QED
  BY <1>1, <1>2, <1>3, PTL DEF Spec

(***************************************************************************)
(* The table under the region locks.                                       *)
(***************************************************************************)

\* Two threads about to write rewrite different regions.
LEMMA WritersApart ==
    ASSUME ShortReaches, TypeInv, LocksInv,
           NEW t \in Threads, NEW u \in Threads, t # u, pc[t] = "write", pc[u] = "write"
    PROVE  Rewritten(t) \cap Rewritten(u) = {}
<1>1. Held(t) = LockSet(t) /\ Held(u) = LockSet(u)
  BY DEF Held
<1>2. LockSet(t) \cap LockSet(u) = {}
  BY <1>1 DEF LocksInv, LocksExact
<1>3. Rewritten(t) \subseteq LockSet(t) /\ Rewritten(u) \subseteq LockSet(u)
  BY RewrittenLocked DEF TypeInv, Started
<1> QED
  BY <1>2, <1>3

\* A write of what was read gives what would have been written at once.
LEMMA WriteKept ==
    ASSUME ShortReaches, TypeInv, LocksInv, NoLostUpdate,
           NEW t \in Threads, NEW change \in Int, pc[t] = "write", Rewrite(t, change),
           Goto(t, "finish"), call' = call
    PROVE  NoLostUpdate'
<1>1. Home(t) \in Rewritten(t) /\ Rewritten(t) \subseteq Regions
  BY RewrittenLocked DEF TypeInv, Started
<1>2. \A r \in Rewritten(t) : seen[t][r] = used[r]
  BY DEF NoLostUpdate
<1>3. \A r \in Regions : used'[r] = IF r = Home(t) THEN used[r] + change ELSE used[r]
  BY <1>1, <1>2 DEF Rewrite, TypeInv, TypeOK
<1>4. \A r \in Regions : applied'[r] = IF r = Home(t) THEN used[r] + change ELSE used[r]
  BY <1>1 DEF Rewrite, NoLostUpdate, TypeInv, TypeOK
<1>5. used' = applied'
  <2>1. used' = [r \in Regions |-> used'[r]] /\ applied' = [r \in Regions |-> applied'[r]]
    BY RewriteTypes DEF TypeInv
  <2> QED
    BY <1>3, <1>4, <2>1
<1>6. ASSUME NEW u \in Threads, pc'[u] = "write", NEW r \in Rewritten(u)'
      PROVE  seen'[u][r] = used'[r]
  <2>1. u # t /\ pc[u] = "write"
    BY <1>6 DEF Goto, TypeInv, TypeOK
  <2>2. r \in Rewritten(u) /\ r \in Regions
    BY <1>6, <2>1, RewrittenLocked DEF Rewritten, TypeInv, Started
  <2>3. r # Home(t)
    BY <1>1, <2>1, <2>2, WritersApart
  <2>4. seen'[u] = seen[u]
    BY <2>1 DEF Rewrite, Forget, TypeInv, TypeOK
  <2> QED
    BY <1>3, <2>1, <2>2, <2>3, <2>4 DEF NoLostUpdate
<1> QED
  BY <1>5, <1>6 DEF NoLostUpdate

LEMMA LostInit == Init => NoLostUpdate
BY DEF Init, NoLostUpdate

LEMMA LostStep ==
    ASSUME ShortReaches, TypeInv, LocksInv, NoLostUpdate, [Next]_vars
    PROVE  NoLostUpdate'
<1> DEFINE Aside(t) == /\ pc'[t] # "write"
                       /\ \A u \in Threads \ {t} : /\ pc'[u] = pc[u] /\ call'[u] = call[u]
                                                   /\ seen'[u] = seen[u]
                       /\ UNCHANGED << used, applied >>
<1>1. ASSUME NEW t \in Threads, Aside(t)
      PROVE  NoLostUpdate'
  BY <1>1 DEF NoLostUpdate, Rewritten
<1>2. ASSUME NEW t \in Threads, Call(t)
      PROVE  Aside(t)
  <2>1. PICK c \in Calls : /\ pc' = [pc EXCEPT ![t] = StartOf(c.kind)]
                           /\ call' = [call EXCEPT ![t] = c]
    BY <1>2 DEF Call, Goto
  <2>2. StartOf(c.kind) \in {"check", "lock", "query"}
    BY LocksAssumption DEF Calls, StartOf, Operations, Insertions
  <2> QED
    BY <1>2, <2>1, <2>2 DEF Call, TypeInv, TypeOK, table
<1>3. ASSUME NEW t \in Threads, Check(t)
      PROVE  Aside(t)
  BY <1>3 DEF Check, ReturnWith, Goto, TypeInv, TypeOK, table, metadata
<1>4. ASSUME NEW t \in Threads, Lock(t)
      PROVE  Aside(t)
  BY <1>4 DEF Lock, ReturnWith, Goto, TypeInv, TypeOK, table, metadata
<1>5. ASSUME NEW t \in Threads, LockNext(t)
      PROVE  Aside(t)
  BY <1>5 DEF LockNext, Goto, TypeInv, TypeOK, table, metadata
<1>6. ASSUME NEW t \in Threads, BackOff(t)
      PROVE  Aside(t)
  BY <1>6 DEF BackOff, ReturnWith, Goto, TypeInv, TypeOK, table, metadata
<1>7. ASSUME NEW t \in Threads, Read(t)
      PROVE  NoLostUpdate'
  <2>1. call[t] \in Calls
    BY <1>7 DEF Read, TypeInv, Started
  <2>2. Rewritten(t) \subseteq Regions
    BY <2>1, RewrittenLocked
  <2>3. /\ \A r \in Regions : r \in Rewritten(t) => seen'[t][r] = used[r]
        /\ \A u \in Threads \ {t} : seen'[u] = seen[u] /\ pc'[u] = pc[u]
        /\ UNCHANGED << used, applied, call >>
    BY <1>7 DEF Read, Goto, TypeInv, TypeOK
  <2> QED
    BY <2>2, <2>3 DEF NoLostUpdate, Rewritten
<1>8. ASSUME NEW t \in Threads, WriteSingle(t)
      PROVE  NoLostUpdate'
  BY <1>8, WriteKept, LocksAssumption DEF WriteSingle
<1>9. ASSUME NEW t \in Threads, WriteMementos(t)
      PROVE  NoLostUpdate'
  BY <1>9, WriteKept, LocksAssumption DEF WriteMementos
<1>10. ASSUME NEW t \in Threads, WriteDelete(t)
       PROVE  NoLostUpdate'
  <2>1. CASE \E growth \in Growths : Rewrite(t, 0 - growth)
    BY <1>10, <2>1, WriteKept, LocksAssumption DEF WriteDelete
  <2>2. CASE Forget(t) /\ UNCHANGED << used, applied >>
    <3>1. Aside(t)
      BY <1>10, <2>2 DEF WriteDelete, Forget, Goto, TypeInv, TypeOK
    <3> QED
      BY <1>1, <3>1
  <2> QED
    BY <1>10, <2>1, <2>2 DEF WriteDelete
<1>11. ASSUME NEW t \in Threads, NoRoom(t)
      PROVE  Aside(t)
  BY <1>11 DEF NoRoom, Forget, Goto, TypeInv, TypeOK, table, metadata
<1>12. ASSUME NEW t \in Threads, Query(t)
      PROVE  Aside(t)
  BY <1>12 DEF Query, ReturnWith, Goto, TypeInv, TypeOK, table, metadata
<1>13. ASSUME NEW t \in Threads, MetaLock(t)
      PROVE  Aside(t)
  BY <1>13 DEF MetaLock, Goto, TypeInv, TypeOK, table, metadata
<1>14. ASSUME NEW t \in Threads, MetaRead(t)
      PROVE  Aside(t)
  BY <1>14 DEF MetaRead, Goto, TypeInv, TypeOK, table, metadata
<1>15. ASSUME NEW t \in Threads, MetaWrite(t)
      PROVE  Aside(t)
  BY <1>15 DEF MetaWrite, Goto, TypeInv, TypeOK, table, metadata
<1>16. ASSUME NEW t \in Threads, MetaUnlock(t)
      PROVE  Aside(t)
  BY <1>16 DEF MetaUnlock, Goto, TypeInv, TypeOK, table, metadata
<1>17. ASSUME NEW t \in Threads, UnlockNext(t)
      PROVE  Aside(t)
  BY <1>17 DEF UnlockNext, Goto, TypeInv, TypeOK, table, metadata
<1>18. ASSUME NEW t \in Threads, Unlock(t)
      PROVE  Aside(t)
  BY <1>18 DEF Unlock, Goto, TypeInv, TypeOK, table, metadata
<1>19. ASSUME NEW t \in Threads, Return(t)
      PROVE  Aside(t)
  BY <1>19 DEF Return, Goto, TypeInv, TypeOK, table, metadata
<1>20. CASE UNCHANGED vars
  BY <1>20 DEF NoLostUpdate, Rewritten, vars
<1> HIDE DEF Aside
<1> QED
  BY <1>1, <1>2, <1>3, <1>4, <1>5, <1>6, <1>7, <1>8, <1>9, <1>10, <1>11, <1>12, <1>13, <1>14,
     <1>15, <1>16, <1>17, <1>18, <1>19, <1>20 DEF Next, Step

\* As long as no call reaches further than ClusterSize, the locks of its region
\* and the next are enough: no thread's change to the table is ever lost.
THEOREM UpdatesCorrect == ShortReaches /\ SinglesFit => (Spec => []NoLostUpdate)
<1> SUFFICES ASSUME ShortReaches, SinglesFit PROVE Spec => []NoLostUpdate
  OBVIOUS
<1>1. Init => TypeInv /\ LocksInv /\ NoLostUpdate
  BY TypeInit, LocksInit, LostInit
<1>2. TypeInv /\ LocksInv /\ NoLostUpdate /\ [Next]_vars
        => (TypeInv /\ LocksInv /\ NoLostUpdate)'
  BY TypeStep, LocksStep, LostStep
<1> QED
  BY <1>1, <1>2, PTL DEF Spec
=================================================================================
