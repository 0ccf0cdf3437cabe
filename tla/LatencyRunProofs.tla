--------------------------- MODULE LatencyRunProofs ---------------------------
(***************************************************************************)
(* Proofs about the histogram, from stats_record to the report, for any    *)
(* number of threads, any limit, any number of calls and any recorded      *)
(* histogram.                                                              *)
(* While the threads record, ExtremesExact becomes inductive with a        *)
(* recorded value outside min .. max always having a thread that is still  *)
(* to move min or max (LowCovered, HighCovered), and the copies that       *)
(* thread compares with being old values, which can only be further out    *)
(* (CopiesAreOld); count and data agree up to the threads between the two  *)
(* additions (Tally).  When main has joined them what is left of that is   *)
(* Whole, which each step of the correction keeps, and from which all that *)
(* is computed for the report follows.                                     *)
(***************************************************************************)
EXTENDS LatencyRun, SumTheorems

\* The instance brings its own copies of the library's operators.
LEMMA SameOperators ==
  ASSUME NEW f, NEW S
  PROVE  /\ Report!SumFunctionOnSet(f, S) = SumFunctionOnSet(f, S)
         /\ Report!SumFunction(f) = SumFunction(f)
         /\ Report!Min(S) = Min(S) /\ Report!Max(S) = Max(S)
         /\ Report!Cardinality(S) = Cardinality(S)
<1>1. Report!SumFunctionOnSet(f, S) = SumFunctionOnSet(f, S)
  BY Zenon DEF Report!SumFunctionOnSet, SumFunctionOnSet, Report!FoldFunctionOnSet, FoldFunctionOnSet, MapThenFoldSet, Report!MapThenFoldSet
<1>2. Report!SumFunction(f) = SumFunction(f)
  BY Zenon DEF Report!SumFunctionOnSet, SumFunctionOnSet, Report!FoldFunctionOnSet, FoldFunctionOnSet, MapThenFoldSet, Report!MapThenFoldSet, Report!SumFunction, SumFunction
<1>3. Report!Min(S) = Min(S) /\ Report!Max(S) = Max(S)
  BY Zenon DEF Report!Min, Min, Report!Max, Max
<1>4. Report!Cardinality(S) = Cardinality(S)
  BY Zenon DEF Report!Cardinality, Cardinality
<1> QED
  BY <1>1, <1>2, <1>3, <1>4

\* The slots are numbers below the limit.
LEMMA SlotFacts ==
  /\ Slots \subseteq Nat /\ UINT64_MAX \in Nat /\ 0 \in Slots /\ MaxCalls \in Nat
  /\ \A v \in Latencies : v < Limit => v \in Slots
  /\ \A v \in Slots : v < UINT64_MAX
BY LatencyAssumption DEF LatencyAssumption, Slots

\* There are finitely many slots, the same for the threads and for the report.
LEMMA FewSlots == IsFiniteSet(Slots) /\ Report!Slots = Slots
<1>1. Limit - 1 \in Int /\ 0 \in Int
  BY LatencyAssumption DEF LatencyAssumption
<1> QED
  BY <1>1, FS_Interval DEF Slots, Report!Slots

-----------------------------------------------------------------------------
(* The threads in stats_record. *)

InRecord(t) == pc[t] \notin {"idle", "data"}
StillToLower(t) == pc[t] \in {"count", "loadMin", "loadMax", "lower"}
StillToRaise(t) == pc[t] \in {"count", "loadMin", "loadMax", "lower", "raise"}

OwnSampleRecorded == \A t \in Threads : InRecord(t) => data[n[t]] > 0

CopiesAreOld ==
  \A t \in Threads :
    /\ pc[t] \in {"loadMax", "lower"} => min <= lmin[t]
    /\ pc[t] \in {"lower", "raise"} => lmax[t] <= max

LoweredFirst == \A t \in Threads : pc[t] = "raise" => min <= n[t]

LowCovered == \A v \in Recorded : min <= v \/ \E t \in Threads : StillToLower(t) /\ n[t] = v
HighCovered == \A v \in Recorded : v <= max \/ \E t \in Threads : StillToRaise(t) /\ n[t] = v

IInv == /\ TypeOK /\ ExtremesRecorded /\ OwnSampleRecorded /\ CopiesAreOld
        /\ LoweredFirst /\ LowCovered /\ HighCovered

\* What the types say of single values.
LEMMA NaturalValues ==
  ASSUME TypeOK
  PROVE  /\ min \in Nat /\ max \in Nat
         /\ \A v \in Slots : data[v] \in Nat
         /\ \A t \in Threads : /\ n[t] \in Slots /\ n[t] \in Nat
                               /\ lmin[t] \in Nat /\ lmax[t] \in Nat
<1>1. min \in Nat /\ max \in Nat /\ \A v \in Slots : data[v] \in Nat
  BY SlotFacts DEF TypeOK
<1>2. ASSUME NEW t \in Threads
      PROVE  n[t] \in Slots /\ lmin[t] \in Slots \union {UINT64_MAX} /\ lmax[t] \in Slots
  BY DEF TypeOK
<1> QED
  BY <1>1, <1>2, SlotFacts

\* Each instruction keeps the types.
LEMMA NextTypeOK == TypeOK /\ [Next]_vars => TypeOK'
<1> SUFFICES ASSUME TypeOK, [Next]_vars PROVE TypeOK'
  OBVIOUS
<1> USE SlotFacts DEF TypeOK, Goto, shared
<1>1. ASSUME NEW t \in Threads, NEW v \in Latencies, Reject(t, v) PROVE TypeOK'
  BY <1>1 DEF Reject
<1>2. ASSUME NEW t \in Threads, NEW v \in Latencies, Call(t, v) PROVE TypeOK'
  BY <1>2 DEF Call
<1>3. ASSUME NEW t \in Threads, AddData(t) PROVE TypeOK'
  <2>1. data' \in [Slots -> Nat]
    <3>1. data \in [Slots -> Nat]
      OBVIOUS
    <3>2. data' = [data EXCEPT ![n[t]] = @ + 1]
      BY <1>3 DEF AddData
    <3> HIDE DEF TypeOK
    <3>3. n[t] \in Slots /\ data[n[t]] + 1 \in Nat
      BY NaturalValues
    <3> QED
      BY <3>1, <3>2, <3>3
  <2>2. pc' \in [Threads -> {"idle", "data", "count", "loadMin", "loadMax",
                            "lower", "raise"}]
    BY <1>3 DEF AddData
  <2> QED
    BY <1>3, <2>1, <2>2 DEF AddData
<1>4. ASSUME NEW t \in Threads, AddCount(t) PROVE TypeOK'
  BY <1>4 DEF AddCount
<1>5. ASSUME NEW t \in Threads, LoadMin(t) PROVE TypeOK'
  BY <1>5 DEF LoadMin
<1>6. ASSUME NEW t \in Threads, LoadMax(t) PROVE TypeOK'
  BY <1>6 DEF LoadMax
<1>7. ASSUME NEW t \in Threads, LowerMin(t) PROVE TypeOK'
  BY <1>7 DEF LowerMin
<1>8. ASSUME NEW t \in Threads, MinDone(t) PROVE TypeOK'
  BY <1>8 DEF MinDone
<1>9. ASSUME NEW t \in Threads, RaiseMax(t) PROVE TypeOK'
  BY <1>9 DEF RaiseMax
<1>10. ASSUME NEW t \in Threads, Return(t) PROVE TypeOK'
  BY <1>10 DEF Return
<1>11. CASE UNCHANGED vars
  BY <1>11 DEF vars
<1> QED
  BY <1>1, <1>2, <1>3, <1>4, <1>5, <1>6, <1>7, <1>8, <1>9, <1>10, <1>11 DEF Next, Step

\* Every state of every behaviour has the types of the stats structure.
THEOREM Typing == Spec => []TypeOK
<1>1. Init => TypeOK
  BY SlotFacts DEF Init, TypeOK
<1> QED
  BY <1>1, NextTypeOK, PTL DEF Spec

-----------------------------------------------------------------------------
\* A step changes at most one thread's place, sample and copies, so the parts
\* of the invariant need only be looked at for that thread.
LEMMA InitIInv == Init => IInv
  BY SlotFacts DEF Init, IInv, TypeOK, ExtremesRecorded, Recorded, InRecord,
      OwnSampleRecorded, CopiesAreOld, LoweredFirst, LowCovered, HighCovered

LEMMA NextIInv == IInv /\ TypeOK' /\ [Next]_vars => IInv'
<1> SUFFICES ASSUME IInv, TypeOK', [Next]_vars PROVE IInv'
  OBVIOUS
<1>0. TypeOK
  BY DEF IInv
<1>0a. /\ min \in Nat /\ max \in Nat
       /\ \A t \in Threads : /\ n[t] \in Slots /\ n[t] \in Nat
                             /\ lmin[t] \in Nat /\ lmax[t] \in Nat
  BY <1>0, NaturalValues
<1> USE SlotFacts
    DEF IInv, TypeOK, ExtremesRecorded, Recorded, InRecord,
        OwnSampleRecorded, CopiesAreOld, LoweredFirst, LowCovered, HighCovered,
        StillToLower, StillToRaise, Goto, shared
<1>1. ASSUME NEW t \in Threads, NEW v \in Latencies, Reject(t, v) PROVE IInv'
  BY <1>1 DEF Reject
<1>2. ASSUME NEW t \in Threads, NEW v \in Latencies, Call(t, v) PROVE IInv'
  BY <1>2 DEF Call
<1>3. ASSUME NEW t \in Threads, AddData(t) PROVE IInv'
  <2>1. ExtremesRecorded'
    BY <1>3 DEF AddData
  <2>2. OwnSampleRecorded'
    <3>1. data \in [Slots -> Nat] /\ data' = [data EXCEPT ![n[t]] = @ + 1] /\ n' = n
      BY <1>3 DEF AddData
    <3>2. ASSUME NEW u \in Threads, u = t \/ InRecord(u) PROVE data'[n[u]] > 0
      <4>1. u = t \/ data[n[u]] > 0
        BY <3>2
      <4> HIDE DEF IInv, TypeOK, OwnSampleRecorded
      <4>2. data[n[u]] \in Nat /\ n[u] \in Slots /\ n[t] \in Slots
        BY <1>0, NaturalValues
      <4> QED
        BY <3>1, <4>1, <4>2
    <3>3. \A u \in Threads : InRecord(u)' => u = t \/ InRecord(u)
      BY <1>3 DEF AddData
    <3> QED
      BY <3>1, <3>2, <3>3
  <2>3. CopiesAreOld'
    BY <1>3 DEF AddData
  <2>4. LoweredFirst'
    BY <1>3 DEF AddData
  <2>5. LowCovered'
    BY <1>3 DEF AddData
  <2>6. HighCovered'
    BY <1>3 DEF AddData
  <2> QED
    BY <2>1, <2>2, <2>3, <2>4, <2>5, <2>6
<1>4. ASSUME NEW t \in Threads, AddCount(t) PROVE IInv'
  BY <1>4 DEF AddCount
<1>5. ASSUME NEW t \in Threads, LoadMin(t) PROVE IInv'
  BY <1>5 DEF LoadMin
<1>6. ASSUME NEW t \in Threads, LoadMax(t) PROVE IInv'
  BY <1>6 DEF LoadMax
<1>7. ASSUME NEW t \in Threads, LowerMin(t) PROVE IInv'
  <2>0. /\ min' <= min /\ min \in Nat /\ min' \in Nat
        /\ n[t] \in Nat /\ n[t] < lmin[t] /\ lmin[t] \in Nat
    <3>1. min' = (IF min = lmin[t] THEN n[t] ELSE min) /\ n[t] < lmin[t]
      BY <1>7 DEF LowerMin
    <3> HIDE DEF IInv, TypeOK
    <3> QED
      BY <3>1, <1>0a
  <2>1. ExtremesRecorded'
    BY <1>7 DEF LowerMin
  <2>2. OwnSampleRecorded'
    BY <1>7 DEF LowerMin
  <2>3. CopiesAreOld'
    <3>1. ASSUME NEW u \in Threads, pc[u] \in {"loadMax", "lower"} PROVE min' <= lmin'[u]
      <4>1. lmin'[u] = IF u = t THEN min ELSE lmin[u]
        BY <1>7 DEF LowerMin
      <4>2. min <= lmin[u] /\ lmin[u] \in Nat
        BY <3>1, <1>0a
      <4> QED
        BY <2>0, <4>1, <4>2
    <3>2. pc' = pc /\ lmax' = lmax /\ max' = max
      BY <1>7 DEF LowerMin
    <3> QED
      BY <3>1, <3>2
  <2>4. LoweredFirst'
    <3>1. ASSUME NEW u \in Threads, pc[u] = "raise" PROVE min' <= n[u]
      <4>1. min <= n[u] /\ n[u] \in Nat
        BY <3>1
      <4> QED
        BY <2>0, <4>1
    <3>2. pc' = pc /\ n' = n
      BY <1>7 DEF LowerMin
    <3> QED
      BY <3>1, <3>2
  <2>5. LowCovered'
    BY <1>7 DEF LowerMin
  <2>6. HighCovered'
    BY <1>7 DEF LowerMin
  <2> QED
    BY <2>1, <2>2, <2>3, <2>4, <2>5, <2>6
<1>8. ASSUME NEW t \in Threads, MinDone(t) PROVE IInv'
  <2>0. min <= n[t]
    <3>1. min \in Nat /\ n[t] \in Nat /\ lmin[t] \in Nat
      BY <1>0a
    <3>2. min <= lmin[t] /\ ~(n[t] < lmin[t])
      BY <1>8 DEF MinDone
    <3> QED
      BY <3>1, <3>2
  <2>1. ExtremesRecorded'
    BY <1>8 DEF MinDone
  <2>2. OwnSampleRecorded'
    BY <1>8 DEF MinDone
  <2>3. CopiesAreOld'
    BY <1>8 DEF MinDone
  <2>4. LoweredFirst'
    BY <1>8, <2>0 DEF MinDone
  <2>5. LowCovered'
    <3>1. ASSUME NEW v \in Recorded, ~(min <= v)
          PROVE  \E u \in Threads : StillToLower(u)' /\ n[u] = v
      <4>1. PICK u \in Threads : StillToLower(u) /\ n[u] = v
        BY <3>1
      <4>2. u # t
        BY <2>0, <3>1, <4>1
      <4> QED
        BY <1>8, <4>1, <4>2 DEF MinDone
    <3>2. data' = data /\ n' = n /\ min' = min
      BY <1>8 DEF MinDone
    <3> QED
      BY <3>1, <3>2
  <2>6. HighCovered'
    BY <1>8 DEF MinDone
  <2> QED
    BY <2>1, <2>2, <2>3, <2>4, <2>5, <2>6
<1>9. ASSUME NEW t \in Threads, RaiseMax(t) PROVE IInv'
  <2>1. ExtremesRecorded'
    BY <1>9 DEF RaiseMax
  <2>2. OwnSampleRecorded'
    BY <1>9 DEF RaiseMax
  <2>3. CopiesAreOld'
    <3>1. max <= max' /\ max \in Nat /\ max' \in Nat
      BY <1>9 DEF RaiseMax
    <3>2. ASSUME NEW u \in Threads, pc[u] \in {"lower", "raise"} PROVE lmax'[u] <= max'
      <4>1. lmax'[u] = IF u = t THEN max ELSE lmax[u]
        BY <1>9 DEF RaiseMax
      <4>2. lmax[u] <= max /\ lmax[u] \in Nat
        BY <3>2
      <4> QED
        BY <3>1, <4>1, <4>2
    <3>3. pc' = pc /\ lmin' = lmin /\ min' = min
      BY <1>9 DEF RaiseMax
    <3> QED
      BY <3>2, <3>3
  <2>4. LoweredFirst'
    BY <1>9 DEF RaiseMax
  <2>5. LowCovered'
    BY <1>9 DEF RaiseMax
  <2>6. HighCovered'
    BY <1>9 DEF RaiseMax
  <2> QED
    BY <2>1, <2>2, <2>3, <2>4, <2>5, <2>6
<1>10. ASSUME NEW t \in Threads, Return(t) PROVE IInv'
  <2>1. ExtremesRecorded'
    BY <1>10 DEF Return
  <2>2. OwnSampleRecorded'
    BY <1>10 DEF Return
  <2>3. CopiesAreOld'
    BY <1>10 DEF Return
  <2>4. LoweredFirst'
    BY <1>10 DEF Return
  <2>5. LowCovered'
    BY <1>10 DEF Return
  <2>6. HighCovered'
    <3>1. n[t] <= max
      <4>1. n[t] \in Nat /\ max \in Nat /\ lmax[t] \in Nat
        BY <1>0a
      <4>2. lmax[t] <= max /\ ~(n[t] > lmax[t])
        BY <1>10 DEF Return
      <4> QED
        BY <4>1, <4>2
    <3>2. ASSUME NEW v \in Recorded, ~(v <= max)
          PROVE  \E u \in Threads : StillToRaise(u)' /\ n[u] = v
      <4>1. PICK u \in Threads : StillToRaise(u) /\ n[u] = v
        BY <3>2
      <4>2. u # t
        BY <3>1, <3>2, <4>1
      <4> QED
        BY <1>10, <4>1, <4>2 DEF Return
    <3>3. data' = data /\ n' = n /\ max' = max
      BY <1>10 DEF Return
    <3> QED
      BY <3>2, <3>3
  <2> QED
    BY <2>1, <2>2, <2>3, <2>4, <2>5, <2>6
<1>11. CASE UNCHANGED vars
  BY <1>11 DEF vars
<1> QED
  BY <1>1, <1>2, <1>3, <1>4, <1>5, <1>6, <1>7, <1>8, <1>9, <1>10, <1>11 DEF Next, Step

\* The invariant of the threads in stats_record.
LEMMA Inductive == Spec => []IInv
<1>1. IInv /\ TypeOK' /\ [Next]_vars => IInv'
  BY NextIInv
<1> QED
  BY InitIInv, Typing, <1>1, PTL DEF Spec

\* Without threads on their way nothing covers a value outside min .. max.
LEMMA ExactWhenIdle ==
  ASSUME IInv, \A t \in Threads : pc[t] = "idle"
  PROVE  /\ \A v \in Recorded : min <= v /\ v <= max
         /\ Recorded # {} => min \in Recorded /\ max \in Recorded
<1>1. \A v \in Recorded : min <= v /\ v <= max
  BY DEF IInv, LowCovered, HighCovered, StillToLower, StillToRaise
<1>2. ASSUME NEW v \in Recorded PROVE min \in Recorded /\ max \in Recorded
  <2>1. v \in Slots /\ v \in Nat /\ v < UINT64_MAX /\ data[v] > 0
    BY SlotFacts DEF Recorded
  <2>2. min <= v /\ v <= max
    BY <1>1
  <2>3. min # UINT64_MAX /\ min \in Recorded
    BY <2>1, <2>2, SlotFacts DEF IInv, TypeOK, ExtremesRecorded
  <2>4. max = 0 => v = max
    BY <2>1, <2>2
  <2> QED
    BY <2>3, <2>4 DEF IInv, ExtremesRecorded
<1> QED
  BY <1>1, <1>2

\* When no thread is in stats_record, min and max are exact.
THEOREM ExtremesAreExact == Spec => []ExtremesExact
<1>1. IInv => ExtremesExact
  BY ExactWhenIdle DEF ExtremesExact
<1> QED
  BY Inductive, <1>1, PTL

\* min and max only ever hold recorded values.
THEOREM ExtremesAreRecorded == Spec => []ExtremesRecorded
<1>1. IInv => ExtremesRecorded
  BY DEF IInv
<1> QED
  BY Inductive, <1>1, PTL

\* No compare-and-swap undoes another thread's update.
THEOREM ExtremesOnlyWiden == Spec => ExtremesWiden
<1>1. IInv /\ [Next]_vars => [min' <= min /\ max' >= max]_vars
  <2> SUFFICES ASSUME IInv, Next PROVE min' <= min /\ max' >= max
    BY DEF vars
  <2>1. /\ min \in Nat /\ max \in Nat
        /\ \A t \in Threads : n[t] \in Nat /\ lmin[t] \in Nat /\ lmax[t] \in Nat
    BY NaturalValues DEF IInv
  <2>2. ASSUME NEW t \in Threads, LowerMin(t) PROVE min' <= min /\ max' >= max
    BY <2>1, <2>2 DEF LowerMin
  <2>3. ASSUME NEW t \in Threads, RaiseMax(t) PROVE min' <= min /\ max' >= max
    BY <2>1, <2>3 DEF RaiseMax
  <2>4. CASE min' = min /\ max' = max
    BY <2>1, <2>4
  <2>5. (\E t \in Threads : LowerMin(t) \/ RaiseMax(t)) \/ (min' = min /\ max' = max)
    BY DEF Next, Step, Reject, Call, AddData, AddCount, LoadMin, LoadMax, MinDone, Return, shared
  <2> QED
    BY <2>2, <2>3, <2>4, <2>5
<1> QED
  BY Inductive, <1>1, PTL DEF Spec, ExtremesWiden

\* A thread that returns has its own sample between min and max.
THEOREM OwnSampleIsCovered == Spec => OwnSampleCovered
<1>1. IInv /\ [Next]_vars
      => [\A t \in Threads : Return(t) => min <= n[t] /\ n[t] <= max]_vars
  BY DEF IInv, TypeOK, Slots, LoweredFirst, CopiesAreOld, Return
<1> QED
  BY Inductive, <1>1, PTL DEF Spec, OwnSampleCovered

-----------------------------------------------------------------------------
\* The threads at a place.
Those(p, l) == {t \in Threads : p[t] = l}

\* The threads at a place are finitely many.
LEMMA ThoseType ==
  ASSUME NEW p, NEW l
  PROVE  IsFiniteSet(Those(p, l)) /\ Cardinality(Those(p, l)) \in Nat
<1>1. IsFiniteSet(Threads) /\ Those(p, l) \in SUBSET Threads
  BY LatencyAssumption DEF LatencyAssumption, Those
<1> QED
  BY <1>1, FS_Subset, FS_CardinalityType

\* A thread that moves from one place to another changes the number at both.
LEMMA Moved ==
  ASSUME NEW p, NEW t \in Threads, NEW m, NEW q,
         \A u \in Threads : q[u] = IF u = t THEN m ELSE p[u], NEW l
  PROVE  /\ m = l /\ p[t] # l => Cardinality(Those(q, l)) = Cardinality(Those(p, l)) + 1
         /\ m # l /\ p[t] = l => Cardinality(Those(q, l)) = Cardinality(Those(p, l)) - 1
         /\ (m = l <=> p[t] = l) => Cardinality(Those(q, l)) = Cardinality(Those(p, l))
<1>1. IsFiniteSet(Those(p, l)) /\ Cardinality(Those(p, l)) \in Nat
  BY ThoseType
<1>2. CASE m = l /\ p[t] # l
  <2>1. Those(q, l) = Those(p, l) \union {t} /\ t \notin Those(p, l)
    BY <1>2 DEF Those
  <2> QED
    BY <1>1, <1>2, <2>1, FS_AddElement
<1>3. CASE m # l /\ p[t] = l
  <2>1. Those(q, l) = Those(p, l) \ {t} /\ t \in Those(p, l)
    BY <1>3 DEF Those
  <2> QED
    BY <1>1, <1>3, <2>1, FS_RemoveElement
<1>4. CASE m = l <=> p[t] = l
  <2>1. Those(q, l) = Those(p, l)
    BY <1>4 DEF Those
  <2> QED
    BY <1>4, <2>1
<1> QED
  BY <1>2, <1>3, <1>4

\* Between its two additions a thread's sample is in data but not in count, and
\* before them the call is in neither.
Tally ==
  /\ SumFunctionOnSet(data, Slots) = count + Cardinality(Those(pc, "count"))
  /\ calls = SumFunctionOnSet(data, Slots) + Cardinality(Those(pc, "data"))
             + SumFunctionOnSet(late, Threads)

\* Nothing has been recorded at first.
LEMMA TallyInit == Init => Tally
<1> SUFFICES ASSUME Init PROVE Tally
  OBVIOUS
<1>1. SumFunctionOnSet(data, Slots) = 0
  <2>1. \A v \in Slots : data[v] = 0
    BY DEF Init
  <2> QED
    BY <2>1, FewSlots, SumOfNothing
<1>2. SumFunctionOnSet(late, Threads) = 0
  <2>1. \A t \in Threads : late[t] = 0
    BY DEF Init
  <2> QED
    BY <2>1, LatencyAssumption, SumOfNothing DEF LatencyAssumption
<1>3. Those(pc, "count") = {} /\ Those(pc, "data") = {}
  BY DEF Init, Those
<1>4. Cardinality(Those(pc, "count")) = 0 /\ Cardinality(Those(pc, "data")) = 0
  BY <1>3, FS_EmptySet
<1>5. count = 0 /\ calls = 0
  BY DEF Init
<1> QED
  BY <1>1, <1>2, <1>4, <1>5 DEF Tally

\* One more in one place is one more in all.
LEMMA Raised ==
  ASSUME NEW S, IsFiniteSet(S), NEW f \in [S -> Nat], NEW y \in S, NEW g, g = [f EXCEPT ![y] = @ + 1]
  PROVE  SumFunctionOnSet(g, S) = SumFunctionOnSet(f, S) + 1
<1>1. (\A x \in S : f[x] \in Nat /\ g[x] \in Nat) /\ (\A x \in S : x # y => g[x] = f[x]) /\ g[y] = f[y] + 1
  OBVIOUS
<1>2. /\ SumFunctionOnSet(g, S) = SumFunctionOnSet(f, S) - f[y] + g[y]
      /\ SumFunctionOnSet(f, S) \in Nat
  <2>1. IsFiniteSet(S)
    OBVIOUS
  <2> QED
    BY ONLY <1>1, <2>1, SumChanged
<1>3. PICK a \in Nat : a = SumFunctionOnSet(f, S)
  BY <1>2
<1>4. PICK b \in Nat : b = f[y]
  OBVIOUS
<1> QED
  BY <1>1, <1>2, <1>3, <1>4

\* Each instruction changes the sums and the numbers of threads together.
LEMMA TallyNext == TypeOK /\ Tally /\ [Next]_vars => Tally'
<1> SUFFICES ASSUME TypeOK, Tally, [Next]_vars PROVE Tally'
  OBVIOUS
<1> DEFINE S == SumFunctionOnSet(data, Slots)
           C == Cardinality(Those(pc, "count"))
           D == Cardinality(Those(pc, "data"))
           L == SumFunctionOnSet(late, Threads)
<1>1. S \in Nat /\ C \in Nat /\ D \in Nat /\ L \in Nat /\ count \in Nat
  <2>1. (\A v \in Slots : data[v] \in Nat) /\ (\A t \in Threads : late[t] \in Nat) /\ count \in Nat
    BY DEF TypeOK
  <2>2. IsFiniteSet(Threads)
    BY LatencyAssumption DEF LatencyAssumption
  <2> QED
    BY <2>1, <2>2, FewSlots, SumType, ThoseType
<1>2. S = count + C /\ calls = S + D + L
  BY DEF Tally
<1>3. Tally' <=> S' = count' + C' /\ calls' = S' + D' + L'
  BY DEF Tally
<1>4. ASSUME NEW t \in Threads, NEW m, pc' = [pc EXCEPT ![t] = m], pc[t] # "data", m # "data",
             pc[t] # "count", m # "count"
      PROVE  C' = C /\ D' = D
  <2>1. \A u \in Threads : pc'[u] = IF u = t THEN m ELSE pc[u]
    BY <1>4 DEF TypeOK
  <2>0. m # "data" /\ m # "count" /\ pc[t] # "data" /\ pc[t] # "count"
    BY <1>4
  <2>2. Cardinality(Those(pc, "count"))' = Cardinality(Those(pc, "count"))
    BY <2>0, <2>1, Moved
  <2>3. Cardinality(Those(pc, "data"))' = Cardinality(Those(pc, "data"))
    BY <2>0, <2>1, Moved
  <2> QED
    BY <2>2, <2>3
<1>5. ASSUME data' = data PROVE S' = S
  BY <1>5, Zenon
<1>6. ASSUME late' = late PROVE L' = L
  BY <1>6, Zenon
<1>7. ASSUME pc' = pc PROVE C' = C /\ D' = D
  BY <1>7, Zenon
<1>8. ASSUME NEW t \in Threads, NEW v \in Latencies, Reject(t, v) PROVE Tally'
  <2>1. data' = data /\ pc' = pc /\ count' = count /\ calls' = calls + 1
    BY <1>8 DEF Reject, shared
  <2>2. L' = L + 1
    <3>1. late \in [Threads -> Nat] /\ late' = [late EXCEPT ![t] = @ + 1] /\ IsFiniteSet(Threads)
      BY <1>8, LatencyAssumption DEF Reject, TypeOK, LatencyAssumption
    <3> QED
      BY <3>1, Raised
  <2>3. S' = S /\ C' = C /\ D' = D
    BY <1>5, <1>7, <2>1
  <2> HIDE DEF S, C, D, L
  <2> QED
    BY <1>1, <1>2, <1>3, <2>1, <2>2, <2>3
<1>9. ASSUME NEW t \in Threads, NEW v \in Latencies, Call(t, v) PROVE Tally'
  <2>1. data' = data /\ late' = late /\ count' = count /\ calls' = calls + 1
    BY <1>9 DEF Call, shared
  <2>2. pc[t] = "idle" /\ pc' = [pc EXCEPT ![t] = "data"]
    BY <1>9 DEF Call, Goto
  <2>3. C' = C /\ D' = D + 1
    <3>1. \A u \in Threads : pc'[u] = IF u = t THEN "data" ELSE pc[u]
      BY <2>2 DEF TypeOK
    <3>0. pc[t] = "idle"
      BY <2>2
    <3>2. Cardinality(Those(pc, "count"))' = Cardinality(Those(pc, "count"))
      BY <3>0, <3>1, Moved
    <3>3. Cardinality(Those(pc, "data"))' = Cardinality(Those(pc, "data")) + 1
      BY <3>0, <3>1, Moved
    <3> QED
      BY <3>2, <3>3
  <2>4. S' = S /\ L' = L
    BY <1>5, <1>6, <2>1
  <2> HIDE DEF S, C, D, L
  <2> QED
    BY <1>1, <1>2, <1>3, <2>1, <2>3, <2>4
<1>10. ASSUME NEW t \in Threads, AddData(t) PROVE Tally'
  <2>1. late' = late /\ count' = count /\ calls' = calls
    BY <1>10 DEF AddData
  <2>2. pc[t] = "data" /\ pc' = [pc EXCEPT ![t] = "count"]
    BY <1>10 DEF AddData, Goto
  <2>3. C' = C + 1 /\ D' = D - 1
    <3>1. \A u \in Threads : pc'[u] = IF u = t THEN "count" ELSE pc[u]
      BY <2>2 DEF TypeOK
    <3>0. pc[t] = "data"
      BY <2>2
    <3>2. Cardinality(Those(pc, "count"))' = Cardinality(Those(pc, "count")) + 1
      BY <3>0, <3>1, Moved
    <3>3. Cardinality(Those(pc, "data"))' = Cardinality(Those(pc, "data")) - 1
      BY <3>0, <3>1, Moved
    <3> QED
      BY <3>2, <3>3
  <2>4. S' = S + 1
    <3>1. data \in [Slots -> Nat] /\ n[t] \in Slots
      BY DEF TypeOK
    <3>2. data' = [data EXCEPT ![n[t]] = @ + 1]
      BY <1>10 DEF AddData
    <3>3. PICK y \in Slots : y = n[t]
      BY <3>1
    <3>4. data' = [data EXCEPT ![y] = @ + 1]
      BY <3>2, <3>3
    <3> QED
      BY <3>1, <3>4, FewSlots, Raised
  <2>5. L' = L
    BY <1>6, <2>1
  <2> HIDE DEF S, C, D, L
  <2> QED
    BY <1>1, <1>2, <1>3, <2>1, <2>3, <2>4, <2>5
<1>11. ASSUME NEW t \in Threads, AddCount(t) PROVE Tally'
  <2>1. data' = data /\ late' = late /\ count' = count + 1 /\ calls' = calls
    BY <1>11 DEF AddCount
  <2>2. pc[t] = "count" /\ pc' = [pc EXCEPT ![t] = "loadMin"]
    BY <1>11 DEF AddCount, Goto
  <2>3. C' = C - 1 /\ D' = D
    <3>1. \A u \in Threads : pc'[u] = IF u = t THEN "loadMin" ELSE pc[u]
      BY <2>2 DEF TypeOK
    <3>0. pc[t] = "count"
      BY <2>2
    <3>2. Cardinality(Those(pc, "count"))' = Cardinality(Those(pc, "count")) - 1
      BY <3>0, <3>1, Moved
    <3>3. Cardinality(Those(pc, "data"))' = Cardinality(Those(pc, "data"))
      BY <3>0, <3>1, Moved
    <3> QED
      BY <3>2, <3>3
  <2>4. S' = S /\ L' = L
    BY <1>5, <1>6, <2>1
  <2> HIDE DEF S, C, D, L
  <2> QED
    BY <1>1, <1>2, <1>3, <2>1, <2>3, <2>4
<1>12. ASSUME data' = data, late' = late, count' = count, calls' = calls, C' = C, D' = D
       PROVE  Tally'
  <2>1. S' = S /\ L' = L
    BY <1>5, <1>6, <1>12
  <2> HIDE DEF S, C, D, L
  <2> QED
    BY <1>2, <1>3, <1>12, <2>1
<1>13. ASSUME NEW t \in Threads, LoadMin(t) \/ LoadMax(t) \/ MinDone(t) \/ Return(t) PROVE Tally'
  <2>1. data' = data /\ late' = late /\ count' = count /\ calls' = calls
    BY <1>13 DEF LoadMin, LoadMax, MinDone, Return, shared
  <2>2. PICK m \in {"loadMax", "lower", "raise", "idle"} : pc' = [pc EXCEPT ![t] = m]
    BY <1>13 DEF LoadMin, LoadMax, MinDone, Return, Goto
  <2>3. pc[t] # "data" /\ pc[t] # "count" /\ m # "data" /\ m # "count"
    BY <1>13 DEF LoadMin, LoadMax, MinDone, Return
  <2>4. C' = C /\ D' = D
    <3> HIDE DEF C, D
    <3> QED
      BY <1>4, <2>2, <2>3
  <2> HIDE DEF C, D
  <2> QED
    BY <1>12, <2>1, <2>4
<1>14. ASSUME NEW t \in Threads, LowerMin(t) \/ RaiseMax(t) PROVE Tally'
  <2>1. data' = data /\ late' = late /\ count' = count /\ calls' = calls /\ pc' = pc
    BY <1>14 DEF LowerMin, RaiseMax
  <2>2. C' = C /\ D' = D
    BY <1>7, <2>1
  <2> HIDE DEF C, D
  <2> QED
    BY <1>12, <2>1, <2>2
<1>15. CASE UNCHANGED vars
  <2>1. data' = data /\ late' = late /\ count' = count /\ calls' = calls /\ pc' = pc
    BY <1>15 DEF vars, shared
  <2>2. C' = C /\ D' = D
    BY <1>7, <2>1
  <2> HIDE DEF C, D
  <2> QED
    BY <1>12, <2>1, <2>2
<1> HIDE DEF S, C, D, L
<1> QED
  BY <1>8, <1>9, <1>10, <1>11, <1>13, <1>14, <1>15 DEF Next, Step

-----------------------------------------------------------------------------
(* The histogram that is reported. *)

\* What holds of the histogram once the threads are joined.
Whole ==
  /\ data \in [Slots -> Nat] /\ count = SumFunctionOnSet(data, Slots)
  /\ min \in Slots \union {UINT64_MAX} /\ max \in Slots
  /\ \A v \in Recorded : min <= v /\ v <= max
  /\ Recorded # {} => min \in Recorded /\ max \in Recorded

\* A histogram has samples where its count says so.
LEMMA WholeFacts ==
  ASSUME Whole
  PROVE  /\ count \in Nat /\ min \in Nat /\ max \in Nat /\ max \in Slots
         /\ \A v \in Slots : data[v] \in Nat /\ v \in Nat
         /\ count > 0 => Recorded # {}
         /\ \A v \in Recorded : count > 0
<1>1. \A v \in Slots : data[v] \in Nat /\ v \in Nat
  BY SlotFacts DEF Whole
<1>2. count \in Nat
  BY <1>1, FewSlots, SumType DEF Whole
<1>3. min \in Nat /\ max \in Nat /\ max \in Slots
  BY SlotFacts DEF Whole
<1>4. Recorded = {} => count = 0
  <2> SUFFICES ASSUME Recorded = {} PROVE count = 0
    OBVIOUS
  <2>1. \A v \in Slots : data[v] = 0
    BY <1>1 DEF Recorded
  <2> QED
    BY <2>1, FewSlots, SumOfNothing DEF Whole
<1>5. ASSUME NEW v \in Recorded PROVE count > 0
  <2>1. v \in Slots /\ data[v] > 0
    BY DEF Recorded
  <2>2. count = data[v] + SumFunctionOnSet(data, Slots \ {v}) /\ SumFunctionOnSet(data, Slots \ {v}) \in Nat
    BY <1>1, <2>1, FewSlots, SumSplit DEF Whole
  <2>3. PICK a \in Nat : a = SumFunctionOnSet(data, Slots \ {v})
    BY <2>2
  <2>4. PICK b \in Nat : b = data[v]
    BY <1>1, <2>1
  <2> QED
    BY <2>1, <2>2, <2>3, <2>4
<1> QED
  BY <1>1, <1>2, <1>3, <1>4, <1>5

-----------------------------------------------------------------------------
(* print_stats_latency_map and digit_ceil. *)

\* The powers of ten.
LEMMA Powers ==
  /\ Report!Power \in [Nat -> Nat \ {0}] /\ Report!Power[0] = 1
  /\ \A k \in Nat : Report!Power[k + 1] = 10 * Report!Power[k]
<1> DEFINE ten == [x \in Nat \ {0} |-> 10 * x]
           Eq(g) == g = [k \in Nat |-> IF k = 0 THEN 1 ELSE 10 * g[k - 1]]
<1>1. ten \in [Nat \ {0} -> Nat \ {0}] /\ 1 \in Nat \ {0}
  OBVIOUS
<1>2. PICK f \in [Nat -> Nat \ {0}] : f[0] = 1 /\ \A k \in Nat : f[k + 1] = ten[f[k]]
  <2> DEFINE P == Nat \ {0}
  <2>1. 1 \in P /\ \A x \in P : ten[x] \in P
    BY <1>1
  <2> HIDE DEF ten, P
  <2>2. \E f \in [Nat -> P] : f[0] = 1 /\ \A k \in Nat : f[k + 1] = ten[f[k]]
    BY <2>1, Iterated
  <2> QED
    BY <2>2 DEF P
<1>3. Eq(f)
  <2>1. ASSUME NEW k \in Nat PROVE f[k] = IF k = 0 THEN 1 ELSE 10 * f[k - 1]
    <3>1. k # 0 => k - 1 \in Nat /\ (k - 1) + 1 = k
      OBVIOUS
    <3>2. \A j \in Nat : f[j + 1] = 10 * f[j]
      BY <1>2
    <3> HIDE DEF ten
    <3> QED
      BY <1>2, <3>1, <3>2
  <2> HIDE DEF ten
  <2> QED
    BY <1>2, <2>1
<1>4. Report!Power = CHOOSE g : Eq(g)
  BY Zenon DEF Report!Power
<1>5. Eq(Report!Power)
  <2> HIDE DEF Eq
  <2> QED
    BY <1>3, <1>4
<1> DEFINE p == Report!Power
<1>6. p[0] = 1 /\ \A k \in Nat : p[k + 1] = 10 * p[k]
  <2> HIDE DEF p
  <2>1. p = [k \in Nat |-> IF k = 0 THEN 1 ELSE 10 * p[k - 1]]
    BY <1>5 DEF p
  <2>2. \A k \in Nat : p[k] = IF k = 0 THEN 1 ELSE 10 * p[k - 1]
    BY <2>1
  <2>3. \A k \in Nat : k + 1 \in Nat /\ k + 1 # 0 /\ (k + 1) - 1 = k
    OBVIOUS
  <2> QED
    BY <2>2, <2>3
<1>7. Nat \subseteq {k \in Nat : p[k] \in Nat \ {0}}
  <2> HIDE DEF p
  <2> DEFINE Q == {k \in Nat : p[k] \in Nat \ {0}}
  <2>1. 0 \in Q /\ \A k \in Nat : k \in Q => k + 1 \in Q
    BY <1>6
  <2> HIDE DEF Q
  <2>2. Nat \subseteq Q
    BY <2>1, NumbersByInduction
  <2> QED
    BY <2>2 DEF Q
<1>8. p = [k \in Nat |-> IF k = 0 THEN 1 ELSE 10 * p[k - 1]]
  BY <1>5
<1> HIDE DEF p
<1>9. p \in [Nat -> Nat \ {0}]
  BY <1>7, <1>8
<1> QED
  BY <1>6, <1>9 DEF p

\* A number has no more digits than its value.
LEMMA PowersGrow == \A k \in Nat : Report!Power[k] > k
<1> DEFINE p == Report!Power
           Q == {k \in Nat : p[k] > k}
<1>1. \A k \in Nat : p[k] \in Nat /\ p[k + 1] = 10 * p[k]
  BY Powers
<1>2. p[0] = 1
  BY Powers
<1> HIDE DEF p
<1>3. 0 \in Q /\ \A k \in Nat : k \in Q => k + 1 \in Q
  BY <1>1, <1>2
<1> HIDE DEF Q
<1>4. Nat \subseteq Q
  BY <1>3, NumbersByInduction
<1> QED
  BY <1>4 DEF Q, p

\* What is used of the integer division.
LEMMA Division ==
  ASSUME NEW x \in Nat, NEW d \in Nat \ {0}
  PROVE  /\ x \div d \in Nat /\ (x \div d) * d <= x
         /\ x < d => x \div d = 0
OBVIOUS

\* Above the first digit there is room for the same again.
LEMMA DigitCeil ==
  ASSUME NEW x \in Nat
  PROVE  /\ Report!digit_ceil(x) \in Nat
         /\ Report!digit_ceil(x) \div 20 > 0 => Report!digit_ceil(x) <= 2 * x
<1> DEFINE p == Report!Power
           Short(k) == x \div p[k] < 10
           len == IF x = 0 THEN 0
                  ELSE CHOOSE k \in 1 .. x : Short(k) /\ \A j \in 1 .. k - 1 : x \div p[j] >= 10
           c == (x \div p[len] + 1) * p[len]
<1>1. Report!digit_ceil(x) = c
  BY Zenon DEF Report!digit_ceil
<1>2. CASE x = 0
  <2>1. len = 0 /\ p[0] = 1
    BY <1>2, Powers
  <2>2. c = 1
    <3> HIDE DEF len, p
    <3> QED
      BY <1>2, <2>1
  <2> HIDE DEF c
  <2> QED
    BY <1>1, <2>2
<1>3. CASE x # 0
  <2>0. \A k \in Nat : p[k] \in Nat \ {0} /\ p[k + 1] = 10 * p[k] /\ p[k] > k
    BY Powers, PowersGrow
  <2>0a. p[0] = 1
    BY Powers
  <2> HIDE DEF p
  <2> DEFINE T == {k \in 1 .. x : Short(k)}
             m == Min(T)
  <2>1. x \in T
    <3>1. x < p[x] /\ p[x] \in Nat \ {0}
      BY <2>0
    <3>2. x \div p[x] = 0
      BY <3>1, Division
    <3> QED
      BY <1>3, <3>2
  <2>2. m \in T /\ \A y \in T : m <= y
    <3>1. T \subseteq Nat /\ T # {}
      BY <2>1
    <3> HIDE DEF T
    <3> QED
      BY <3>1, LeastNumber
  <2> HIDE DEF m
  <2>3. \A j \in 1 .. m - 1 : x \div p[j] >= 10
    <3> SUFFICES ASSUME NEW j \in 1 .. m - 1 PROVE x \div p[j] >= 10
      OBVIOUS
    <3>1. j \in 1 .. x /\ ~(m <= j)
      BY <2>2
    <3>2. ~Short(j)
      <4> HIDE DEF Short
      <4> QED
        BY <2>2, <3>1
    <3>3. x \div p[j] \in Nat
      BY <2>0, <3>1, Division
    <3> QED
      BY <3>2, <3>3
  <2>4. len \in 1 .. x /\ Short(len) /\ \A j \in 1 .. len - 1 : x \div p[j] >= 10
    <3> DEFINE Fit(k) == Short(k) /\ \A j \in 1 .. k - 1 : x \div p[j] >= 10
    <3>1. m \in 1 .. x /\ Fit(m)
      BY <2>2, <2>3
    <3>2. len = CHOOSE k \in 1 .. x : Fit(k)
      BY <1>3
    <3> HIDE DEF Fit, len
    <3>3. len \in 1 .. x /\ Fit(len)
      BY <3>1, <3>2
    <3> QED
      BY <3>3 DEF Fit
  <2> HIDE DEF len
  <2> DEFINE d == p[len]
             q == x \div d
  <2>5. d \in Nat \ {0} /\ q \in Nat /\ q * d <= x /\ (x < d => q = 0)
    <3>1. d \in Nat \ {0}
      BY <2>0, <2>4
    <3> HIDE DEF d
    <3> QED
      BY <3>1, Division
  <2>6. (q + 1) * d = q * d + d
    <3> HIDE DEF d, q
    <3>1. \A a, b \in Nat : (a + 1) * b = a * b + b
      OBVIOUS
    <3> QED
      BY <2>5, <3>1
  <2>7. q * d \in Nat
    <3> HIDE DEF d, q
    <3> QED
      BY <2>5
  <2>8. CASE len = 1
    <3>1. d = 10
      <4>1. p[0 + 1] = 10 * p[0]
        BY <2>0
      <4> QED
        BY <2>0a, <2>8, <4>1
    <3>2. CASE x < 10
      <4>1. q = 0
        BY <2>5, <3>1, <3>2
      <4>2. c = 10
        <5> HIDE DEF q
        <5> QED
          BY <3>1, <4>1 DEF q
      <4> HIDE DEF c
      <4> QED
        BY <1>1, <4>2
    <3>3. CASE x >= 10
      <4> HIDE DEF q
      <4>1. c = q * d + d
        BY <2>6 DEF q
      <4> HIDE DEF c, d
      <4> QED
        BY <1>1, <2>5, <2>7, <3>1, <3>3, <4>1
    <3> QED
      BY <3>2, <3>3
  <2>9. CASE len # 1
    <3>1. len - 1 \in 1 .. len - 1 /\ len - 1 \in Nat /\ (len - 1) + 1 = len
      BY <2>4, <2>9
    <3> DEFINE e == p[len - 1]
               r == x \div e
    <3>2. r >= 10 /\ e \in Nat \ {0} /\ r \in Nat /\ r * e <= x /\ d = 10 * e
      <4>1. p[(len - 1) + 1] = 10 * p[len - 1]
        BY <2>0, <3>1
      <4>2. d = 10 * e
        BY <3>1, <4>1
      <4>3. r >= 10
        BY <2>4, <3>1
      <4>4. e \in Nat \ {0}
        BY <2>0, <3>1
      <4> HIDE DEF d, e
      <4> QED
        BY <4>2, <4>3, <4>4, Division
    <3>3. d <= x
      <4> HIDE DEF d, e, r
      <4>1. \A a, b \in Nat : a >= 10 => 10 * b <= a * b
        OBVIOUS
      <4>2. 10 * e <= r * e /\ r * e \in Nat
        BY <3>2, <4>1
      <4> QED
        BY <3>2, <4>2
    <3>4. c = q * d + d
      <4> HIDE DEF q
      <4> QED
        BY <2>6 DEF q
    <3> HIDE DEF c, q, d
    <3> QED
      BY <1>1, <2>5, <2>7, <3>3, <3>4
  <2> QED
    BY <2>8, <2>9
<1> QED
  BY <1>2, <1>3

\* No sample is in two bars of the chart.
LEMMA BarsWithin ==
  ASSUME data \in [Slots -> Nat], NEW w \in Nat \ {0}, NEW d, NEW b,
         b = [i \in 0 .. 20 |->
                IF i = 20 THEN 0 ELSE Report!Samples({v \in 0 .. d - 1 : v \div w = i})]
  PROVE  SumFunction(b) <= SumFunctionOnSet(data, Slots)
<1> DEFINE part == [i \in 0 .. 20 |->
                      IF i = 20 THEN {} ELSE {v \in 0 .. d - 1 : v \div w = i} \intersect Slots]
           all == UNION {part[i] : i \in 0 .. 20}
<1>1. IsFiniteSet(0 .. 20) /\ IsFiniteSet({})
  <2>1. 0 \in Int /\ 20 \in Int
    OBVIOUS
  <2>2. IsFiniteSet(0 .. 20)
    BY <2>1, FS_Interval
  <2> QED
    BY <2>2, FS_EmptySet
<1>2. \A i \in 0 .. 20 : part[i] \subseteq Slots
  OBVIOUS
<1>3. \A i, j \in 0 .. 20 : i # j => part[i] \intersect part[j] = {}
  OBVIOUS
<1>4. ASSUME NEW i \in 0 .. 20 PROVE b[i] = SumFunctionOnSet(data, part[i])
  <2>1. CASE i = 20
    <3>1. b[i] = 0 /\ part[i] = {}
      BY <2>1
    <3>2. SumFunctionOnSet(data, {}) = 0
      BY <1>1, SumOfNothing
    <3> QED
      BY <3>1, <3>2
  <2>2. CASE i # 20
    <3> DEFINE X == {v \in 0 .. d - 1 : v \div w = i}
    <3>1. b[i] = Report!Samples(X) /\ part[i] = X \intersect Slots
      BY <2>2
    <3> HIDE DEF X, part
    <3> QED
      BY <3>1, FewSlots, SameOperators, Zenon DEF Report!Samples
  <2> QED
    BY <2>1, <2>2
<1>5. DOMAIN b = 0 .. 20
  OBVIOUS
<1>6. all \subseteq Slots
  BY <1>2
<1> HIDE DEF part
<1>7. SumFunctionOnSet(b, 0 .. 20) = SumFunctionOnSet(data, all)
  <2>1. \A v \in Slots : data[v] \in Nat
    OBVIOUS
  <2> DEFINE I == 0 .. 20
  <2>2. /\ IsFiniteSet(I) /\ \A i \in I : part[i] \subseteq Slots
        /\ \A i, j \in I : i # j => part[i] \intersect part[j] = {}
        /\ \A i \in I : b[i] = SumFunctionOnSet(data, part[i])
    BY <1>1, <1>2, <1>3, <1>4
  <2>3. \A x : x \in all <=> \E i \in I : x \in part[i]
    OBVIOUS
  <2> HIDE DEF I, all
  <2>4. SumFunctionOnSet(b, I) = SumFunctionOnSet(data, all)
    <3>1. IsFiniteSet(Slots)
      BY FewSlots
    <3> QED
      BY ONLY <2>1, <2>2, <2>3, <3>1, SumOfParts
  <2> QED
    BY <2>4 DEF I
<1> HIDE DEF all
<1>8. SumFunctionOnSet(data, all) <= SumFunctionOnSet(data, Slots)
  <2>1. IsFiniteSet(all)
    BY <1>6, FewSlots, FS_Subset
  <2>2. \A v \in Slots : data[v] \in Nat
    OBVIOUS
  <2> QED
    BY <1>6, <2>1, <2>2, FewSlots, SumMore
<1>9. SumFunction(b) = SumFunctionOnSet(b, 0 .. 20)
  BY <1>5 DEF SumFunction
<1> QED
  BY <1>7, <1>8, <1>9

-----------------------------------------------------------------------------
(* stats_correct. *)

\* The correction for a stall adds between min and max only, and to the count
\* what it adds to the slots.
LEMMA CorrectionKeeps ==
  ASSUME Whole, at \in Nat, at <= max, expected \in Nat, count > 0 => expected >= min,
         NEW d, NEW c,
         d = [v \in Slots |-> IF v \in Report!Missed(at) THEN data[v] + data[at] ELSE data[v]],
         c = count + data[at] * Cardinality(Report!Missed(at))
  PROVE  /\ d \in [Slots -> Nat] /\ c = SumFunctionOnSet(d, Slots)
         /\ \A v \in Slots : d[v] > 0 => min <= v /\ v <= max /\ count > 0
         /\ \A v \in Recorded : d[v] > 0
         /\ c > 0 => count > 0
<1> DEFINE M == Report!Missed(at)
           k == data[at]
<1>1. /\ at \in Slots /\ M \subseteq Slots /\ k \in Nat
      /\ \A m \in M : m \in Nat /\ expected < m /\ m < max
  <2>1. max \in Nat /\ max < Limit /\ \A v \in Slots : data[v] \in Nat
    BY WholeFacts, LatencyAssumption DEF Slots, LatencyAssumption
  <2>2. \A v \in Nat : v < Limit => v \in Slots
    BY LatencyAssumption DEF Slots, LatencyAssumption
  <2>3. at \in Slots
    <3>1. at < Limit
      BY <2>1, LatencyAssumption DEF LatencyAssumption
    <3> QED
      BY <2>2, <3>1
  <2>4. \A m \in M : m \in Nat /\ expected < m /\ m < at
    BY DEF Report!Missed
  <2>5. ASSUME NEW m \in M PROVE m \in Slots /\ m < max
    <3>1. m < max /\ m < Limit
      BY <2>1, <2>4, LatencyAssumption DEF LatencyAssumption
    <3> QED
      BY <2>2, <2>4, <3>1
  <2> QED
    BY <2>1, <2>3, <2>4, <2>5
<1> HIDE DEF M, k
<1>2. \A v \in Slots : data[v] \in Nat /\ v \in Nat
  BY WholeFacts
<1>3. d \in [Slots -> Nat] /\ \A v \in Slots : d[v] = IF v \in M THEN data[v] + k ELSE data[v]
  BY <1>1, <1>2 DEF M, k
<1>4. c = SumFunctionOnSet(d, Slots)
  <2>1. SumFunctionOnSet(d, Slots) = SumFunctionOnSet(data, Slots) + k * Cardinality(M)
    <3>1. M \in SUBSET Slots /\ k \in Nat /\ \A v \in Slots : data[v] \in Nat
      BY <1>1, <1>2
    <3>2. \A v \in Slots : d[v] = IF v \in M THEN data[v] + k ELSE data[v]
      BY <1>3
    <3>3. IsFiniteSet(Slots)
      BY FewSlots
    <3> QED
      BY ONLY <3>1, <3>2, <3>3, SumMarked
  <2>2. c = SumFunctionOnSet(data, Slots) + k * Cardinality(M)
    BY DEF Whole, M, k
  <2> QED
    BY <2>1, <2>2
<1>5. \A v \in Recorded : d[v] > 0
  <2> SUFFICES ASSUME NEW v \in Recorded PROVE d[v] > 0
    OBVIOUS
  <2>1. v \in Slots /\ data[v] > 0 /\ data[v] \in Nat
    BY <1>2 DEF Recorded
  <2> QED
    BY <1>1, <1>3, <2>1
<1>6. ASSUME NEW v \in Slots, d[v] > 0 PROVE min <= v /\ v <= max /\ count > 0
  <2>1. CASE data[v] > 0
    <3>1. v \in Recorded
      BY <2>1 DEF Recorded
    <3> QED
      BY <3>1, WholeFacts DEF Whole
  <2>2. CASE ~(data[v] > 0)
    <3>1. v \in M /\ k > 0
      BY <1>1, <1>2, <1>3, <1>6, <2>2
    <3>2. at \in Recorded
      BY <1>1, <3>1 DEF Recorded, k
    <3>3. count > 0 /\ min \in Nat /\ max \in Nat
      BY <3>2, WholeFacts
    <3>4. expected >= min /\ expected < v /\ v < max
      BY <1>1, <3>1, <3>3
    <3> QED
      BY <1>2, <3>3, <3>4
  <2> QED
    BY <2>1, <2>2
<1>7. c > 0 => count > 0
  <2> SUFFICES ASSUME c > 0, ~(count > 0) PROVE FALSE
    OBVIOUS
  <2>1. \A v \in Slots : d[v] = 0
    <3> SUFFICES ASSUME NEW v \in Slots PROVE d[v] = 0
      OBVIOUS
    <3>1. d[v] \in Nat
      BY <1>3
    <3> QED
      BY <1>6, <3>1
  <2>2. c = 0
    BY <1>4, <2>1, FewSlots, SumOfNothing
  <2> QED
    BY <2>2
<1> QED
  BY <1>3, <1>4, <1>5, <1>6, <1>7

-----------------------------------------------------------------------------
(* What the script and main are told. *)

\* How many samples there are between min and a slot.
LEMMA SamplesUpto ==
  ASSUME Whole
  PROVE  /\ \A X : Report!Samples(X) = SumFunctionOnSet(data, X \intersect Slots)
         /\ \A X : Report!Samples(X) \in Nat /\ Report!Samples(X) <= count
         /\ \A i \in Int : Report!Samples(0 .. i) = Report!Samples(Report!Upto(i))
         /\ \A i \in Int, j \in Int : i <= j =>
              Report!Samples(Report!Upto(i)) <= Report!Samples(Report!Upto(j))
         /\ \A i \in Nat : i \notin Recorded =>
              Report!Samples(Report!Upto(i)) = Report!Samples(Report!Upto(i - 1))
         /\ \A i \in Int, j \in Recorded : i < j =>
              Report!Samples(Report!Upto(i)) < Report!Samples(Report!Upto(j))
         /\ Report!Samples(Report!Upto(max)) = count
         /\ Report!Samples(Report!Upto(min - 1)) = 0
<1>1. \A X : Report!Samples(X) = SumFunctionOnSet(data, X \intersect Slots)
  BY FewSlots, SameOperators, Zenon DEF Report!Samples
<1>2. \A v \in Slots : data[v] \in Nat /\ v \in Nat
  BY WholeFacts
<1>3. ASSUME NEW X PROVE IsFiniteSet(X \intersect Slots)
  BY FewSlots, FS_Subset
<1>4. ASSUME NEW X, NEW Y, \A v \in X \intersect Slots : v \in Y \/ data[v] = 0
      PROVE  Report!Samples(X) <= Report!Samples(Y)
  <2> DEFINE A == X \intersect Slots
             B == Y \intersect Slots
  <2>1. IsFiniteSet(A) /\ IsFiniteSet(B)
    BY <1>3
  <2>2. (\A v \in B : data[v] \in Nat) /\ \A v \in A : v \in B \/ data[v] = 0
    BY <1>2, <1>4
  <2> HIDE DEF A, B
  <2>3. SumFunctionOnSet(data, A) <= SumFunctionOnSet(data, B)
    BY ONLY <2>1, <2>2, SumMore
  <2> QED
    BY <1>1, <2>3 DEF A, B
<1>5. ASSUME NEW X PROVE Report!Samples(X) \in Nat
  <2> DEFINE A == X \intersect Slots
  <2>1. IsFiniteSet(A) /\ \A v \in A : data[v] \in Nat
    BY <1>2, <1>3
  <2> HIDE DEF A
  <2>2. SumFunctionOnSet(data, A) \in Nat
    BY ONLY <2>1, SumType
  <2> QED
    BY <1>1, <2>2 DEF A
<1>6. Report!Samples(Slots) = count
  <2>1. Slots \intersect Slots = Slots
    OBVIOUS
  <2> QED
    BY <1>1, <2>1, Zenon DEF Whole
<1>7. ASSUME NEW X PROVE Report!Samples(X) <= count
  <2>1. \A v \in X \intersect Slots : v \in Slots \/ data[v] = 0
    OBVIOUS
  <2> QED
    BY <1>4, <1>6, <2>1
<1>8. ASSUME NEW X, NEW Y, \A v \in Recorded : v \in X <=> v \in Y
      PROVE  Report!Samples(X) = Report!Samples(Y)
  <2>1. \A v \in Slots : v \in Recorded \/ data[v] = 0
    BY <1>2 DEF Recorded
  <2>2. \A v \in X \intersect Slots : v \in Y \/ data[v] = 0
    BY <1>8, <2>1
  <2>3. \A v \in Y \intersect Slots : v \in X \/ data[v] = 0
    BY <1>8, <2>1
  <2>4. Report!Samples(X) <= Report!Samples(Y) /\ Report!Samples(Y) <= Report!Samples(X)
    BY <1>4, <2>2, <2>3
  <2>5. Report!Samples(X) \in Nat /\ Report!Samples(Y) \in Nat
    BY <1>5
  <2> QED
    BY <2>4, <2>5
<1>9. /\ min \in Nat /\ max \in Nat
      /\ \A v \in Recorded : v \in Nat /\ min <= v /\ v <= max /\ v \in Slots
  BY <1>2, WholeFacts DEF Whole, Recorded
<1>10. ASSUME NEW i \in Int PROVE Report!Samples(0 .. i) = Report!Samples(Report!Upto(i))
  <2>1. \A v \in Recorded : v \in 0 .. i <=> v \in min .. i
    BY <1>9
  <2> QED
    BY <1>8, <2>1, Zenon DEF Report!Upto
<1>11. ASSUME NEW i \in Int, NEW j \in Int, i <= j
       PROVE  Report!Samples(Report!Upto(i)) <= Report!Samples(Report!Upto(j))
  <2>1. \A v \in Report!Upto(i) \intersect Slots : v \in Report!Upto(j) \/ data[v] = 0
    BY <1>9, <1>11 DEF Report!Upto
  <2> QED
    BY <1>4, <2>1
<1>12. ASSUME NEW i \in Nat, i \notin Recorded
       PROVE  Report!Samples(Report!Upto(i)) = Report!Samples(Report!Upto(i - 1))
  <2>1. \A v \in Recorded : v \in Report!Upto(i) <=> v \in Report!Upto(i - 1)
    BY <1>9, <1>12 DEF Report!Upto
  <2> QED
    BY <1>8, <2>1
<1>13. ASSUME NEW i \in Int, NEW j \in Recorded, i < j
       PROVE  Report!Samples(Report!Upto(i)) < Report!Samples(Report!Upto(j))
  <2> DEFINE A == Report!Upto(i) \intersect Slots
             B == Report!Upto(j) \intersect Slots
  <2>1. IsFiniteSet(A) /\ IsFiniteSet(B) /\ \A v \in B : data[v] \in Nat
    BY <1>2, <1>3
  <2>2. j \in B /\ j \notin A /\ A \subseteq B
    BY <1>9, <1>13 DEF Report!Upto
  <2>3. data[j] > 0 /\ data[j] \in Nat
    BY <1>2, <1>9 DEF Recorded
  <2> HIDE DEF A, B
  <2>4. /\ SumFunctionOnSet(data, B) = data[j] + SumFunctionOnSet(data, B \ {j})
        /\ SumFunctionOnSet(data, B \ {j}) \in Nat
    BY ONLY <2>1, <2>2, SumSplit
  <2>5. SumFunctionOnSet(data, A) <= SumFunctionOnSet(data, B \ {j}) /\ SumFunctionOnSet(data, A) \in Nat
    <3>1. IsFiniteSet(B \ {j}) /\ (\A v \in B \ {j} : data[v] \in Nat)
          /\ \A v \in A : v \in B \ {j} \/ data[v] = 0
      BY <2>1, <2>2, FS_Subset
    <3> QED
      BY ONLY <2>1, <3>1, SumMore
  <2>6. SumFunctionOnSet(data, A) < SumFunctionOnSet(data, B)
    <3>1. PICK a \in Nat : a = SumFunctionOnSet(data, B \ {j})
      BY <2>4
    <3>2. PICK b \in Nat : b = data[j]
      BY <2>3
    <3>3. PICK c \in Nat : c = SumFunctionOnSet(data, A)
      BY <2>5
    <3> QED
      BY <2>3, <2>4, <2>5, <3>1, <3>2, <3>3
  <2>7. Report!Samples(Report!Upto(i)) = SumFunctionOnSet(data, A)
        /\ Report!Samples(Report!Upto(j)) = SumFunctionOnSet(data, B)
    BY <1>1 DEF A, B
  <2> QED
    BY <2>6, <2>7
<1>14. Report!Samples(Report!Upto(max)) = count
  <2>1. \A v \in Recorded : v \in Report!Upto(max) <=> v \in Slots
    BY <1>9 DEF Report!Upto
  <2> QED
    BY <1>6, <1>8, <2>1
<1>15. Report!Samples(Report!Upto(min - 1)) = 0
  <2>1. Report!Upto(min - 1) \intersect Slots = {}
    BY <1>9 DEF Report!Upto
  <2>2. SumFunctionOnSet(data, {}) = 0
    BY FS_EmptySet, SumOfNothing
  <2> QED
    BY <1>1, <2>1, <2>2
<1> QED
  BY <1>1, <1>5, <1>7, <1>10, <1>11, <1>12, <1>13, <1>14, <1>15

\* The rank is that of a sample, and no more than one sample beyond its part.
LEMMA RankWithin ==
  ASSUME count \in Nat, count > 0, NEW p \in Report!Percentiles
  PROVE  /\ Report!Rank(p) \in 1 .. count
         /\ 100 * Report!Rank(p) >= p * count
         /\ 100 * (Report!Rank(p) - 1) <= p * count
<1>1. p \in 1 .. 100
  BY DEF Report!Percentiles
<1>2. CASE p = 100
  BY <1>2 DEF Report!Rank
<1>3. CASE p # 100
  <2>1. p * count \in Nat /\ p * count <= 99 * count
    <3>1. \A a, b \in Nat : a <= 99 => a * b \in Nat /\ a * b <= 99 * b
      OBVIOUS
    <3> QED
      BY <1>1, <1>3, <3>1
  <2>2. Report!Rank(p) = (p * count) \div 100 + 1
    BY <1>3 DEF Report!Rank
  <2>3. PICK m \in Nat : m = p * count
    BY <2>1
  <2>4. Report!Rank(p) = m \div 100 + 1 /\ m <= 99 * count
    BY <2>1, <2>2, <2>3
  <2>5. m \div 100 + 1 \in 1 .. count /\ 100 * (m \div 100 + 1) >= m /\ 100 * (m \div 100) <= m
    BY <2>4
  <2>6. (m \div 100 + 1) - 1 = m \div 100
    BY <2>3
  <2> QED
    BY <2>3, <2>4, <2>5, <2>6
<1> QED
  BY <1>2, <1>3

\* The first slot at which a rank is reached.
LEMMA Percentile ==
  ASSUME Whole, count > 0, NEW p, Report!Rank(p) \in 1 .. count
  PROVE  LET v == Report!stats_percentile(p) IN
         /\ v \in Recorded
         /\ Report!Samples(0 .. v) >= Report!Rank(p)
         /\ Report!Samples(0 .. v - 1) < Report!Rank(p)
<1> DEFINE U(i) == Report!Samples(Report!Upto(i))
           reached == {i \in Report!Upto(max) : U(i) >= Report!Rank(p)}
           v == Min(reached)
           r == Report!Rank(p)
<1>1. /\ \A i \in Int : U(i) \in Nat /\ U(i) = Report!Samples(0 .. i)
      /\ U(max) = count /\ U(min - 1) = 0
      /\ \A i \in Nat : i \notin Recorded => U(i) = U(i - 1)
  BY SamplesUpto
<1>2. min \in Nat /\ max \in Nat /\ count \in Nat /\ min <= max
  <2>1. min \in Nat /\ max \in Nat /\ count \in Nat /\ Recorded # {}
    BY WholeFacts
  <2> QED
    BY <2>1 DEF Whole
<1> HIDE DEF U
<1>3. reached \subseteq Nat /\ max \in reached
  BY <1>1, <1>2 DEF Report!Upto
<1>4. v \in reached /\ \A i \in reached : v <= i
  <2> HIDE DEF reached
  <2> QED
    BY <1>3, LeastNumber
<1>5. Report!stats_percentile(p) = v
  <2>1. reached # {} /\ Report!Min(reached) = Min(reached)
    BY <1>3, SameOperators
  <2>2. Report!stats_percentile(p) = IF reached = {} THEN 0 ELSE Report!Min(reached)
    BY Zenon DEF Report!stats_percentile, U
  <2> QED
    BY <2>1, <2>2
<1> HIDE DEF v
<1>6. v \in Nat /\ min <= v /\ v <= max /\ U(v) >= r
  BY <1>2, <1>4 DEF Report!Upto
<1>7. U(v - 1) < r
  <2>a. r \in Nat /\ r > 0
    BY <1>2
  <2>b. v - 1 \in Int
    BY <1>6
  <2> HIDE DEF r
  <2>c. U(v - 1) \in Nat
    BY <1>1, <2>b
  <2>0. U(v - 1) \in Nat /\ r \in Nat /\ r > 0
    BY <2>a, <2>c
  <2>1. CASE v = min
    BY <1>1, <2>0, <2>1
  <2>2. CASE v # min
    <3>1. v - 1 \in Report!Upto(max) /\ ~(v <= v - 1)
      BY <1>2, <1>6, <2>2 DEF Report!Upto
    <3>2. ~(U(v - 1) >= r)
      BY <1>4, <3>1 DEF r
    <3> QED
      BY <2>0, <3>2
  <2> QED
    BY <2>1, <2>2
<1>8. v \in Recorded
  <2>a. r \in Nat
    BY <1>2
  <2>b. v \in Int /\ v - 1 \in Int
    BY <1>6
  <2> HIDE DEF r
  <2>1. U(v) \in Nat /\ U(v - 1) \in Nat /\ r \in Nat
    BY <1>1, <2>a, <2>b
  <2>2. U(v) # U(v - 1)
    <3>1. PICK a, b, c \in Nat : a = U(v) /\ b = U(v - 1) /\ c = r
      BY <2>1
    <3>2. a >= c /\ b < c
      BY <1>6, <1>7, <3>1
    <3> QED
      BY <3>1, <3>2
  <2> QED
    BY <1>1, <1>6, <2>2
<1>9. U(v) = Report!Samples(0 .. v) /\ U(v - 1) = Report!Samples(0 .. v - 1)
  BY <1>1, <1>6
<1> QED
  BY <1>5, <1>6, <1>7, <1>8, <1>9

\* Each percentile is a recorded value at its rank, and the hundredth is max.
LEMMA PercentilesAreSound ==
  ASSUME Whole, count > 0
  PROVE  Report!PercentilesSound /\ Report!stats_percentile(100) = max
<1>1. count \in Nat /\ max \in Nat
  BY WholeFacts
<1>2. Report!Values = Recorded
  BY FewSlots DEF Report!Values, Recorded
<1>3. ASSUME NEW p \in Report!Percentiles, NEW v, v = Report!stats_percentile(p)
      PROVE  /\ v \in Report!Values
             /\ 100 * Report!Samples(0 .. v) >= p * count
             /\ 100 * Report!Samples(0 .. v - 1) <= p * count
  <2>1. /\ Report!Rank(p) \in 1 .. count
        /\ 100 * Report!Rank(p) >= p * count
        /\ 100 * (Report!Rank(p) - 1) <= p * count
    BY <1>1, RankWithin
  <2>2. /\ v \in Recorded
        /\ Report!Samples(0 .. v) >= Report!Rank(p)
        /\ Report!Samples(0 .. v - 1) < Report!Rank(p)
    BY <1>3, <2>1, Percentile
  <2>3. Report!Samples(0 .. v) \in Nat /\ Report!Samples(0 .. v - 1) \in Nat
    BY SamplesUpto
  <2>4. p * count \in Nat
    <3>1. p \in Nat
      BY DEF Report!Percentiles
    <3> QED
      BY <1>1, <3>1
  <2>5. PICK a \in Nat, b \in Nat, r \in 1 .. count, m \in Nat :
          a = Report!Samples(0 .. v) /\ b = Report!Samples(0 .. v - 1) /\ r = Report!Rank(p) /\ m = p * count
    BY <2>1, <2>3, <2>4
  <2>6. 100 * a >= m /\ 100 * b <= m
    BY <1>1, <2>1, <2>2, <2>5
  <2> QED
    BY <1>2, <2>2, <2>5, <2>6
<1>4. Report!PercentilesSound
  BY <1>3 DEF Report!PercentilesSound
<1>5. Report!stats_percentile(100) = max
  <2>1. Report!Rank(100) = count /\ count \in 1 .. count
    BY <1>1 DEF Report!Rank
  <2> DEFINE v == Report!stats_percentile(100)
  <2>2. v \in Recorded /\ Report!Samples(0 .. v) >= count
    BY <2>1, Percentile
  <2> HIDE DEF v
  <2>3. v \in Nat /\ v <= max /\ max \in Recorded
    BY <2>2, WholeFacts DEF Whole, Recorded
  <2>4. ~(v < max)
    <3>1. Report!Samples(0 .. v) = Report!Samples(Report!Upto(v)) /\ Report!Samples(0 .. v) \in Nat
          /\ Report!Samples(Report!Upto(max)) = count
      BY <2>3, SamplesUpto
    <3>2. v < max => Report!Samples(Report!Upto(v)) < Report!Samples(Report!Upto(max))
      BY <2>3, SamplesUpto
    <3> QED
      BY <1>1, <2>2, <3>1, <3>2
  <2>5. v = max
    BY <1>1, <2>3, <2>4
  <2> QED
    BY <2>5 DEF v
<1> QED
  BY <1>4, <1>5

\* Each index is the place of one recorded value.
LEMMA ListingIsComplete ==
  ASSUME Whole
  PROVE  Report!ListingComplete
<1> DEFINE N == Cardinality(Recorded)
           at1(k) == Report!stats_value_at(k)
<1>1. Recorded \subseteq Nat /\ Recorded \subseteq Slots /\ IsFiniteSet(Recorded)
  <2>1. Recorded \subseteq Slots /\ Slots \subseteq Nat
    BY SlotFacts DEF Recorded
  <2> QED
    BY <2>1, FewSlots, FS_Subset
<1>2. Report!Found = Recorded /\ Report!Values = Recorded
  <2>1. Report!Values = Recorded
    BY FewSlots DEF Report!Values, Recorded
  <2>2. \A v \in Recorded : v \in min .. max
    BY <1>1, WholeFacts DEF Whole
  <2>3. min .. max \subseteq Slots
    <3>1. min \in Nat /\ max \in Nat /\ max < Limit /\ Limit \in Nat
      BY WholeFacts, LatencyAssumption DEF LatencyAssumption, Slots
    <3> QED
      BY <3>1 DEF Slots
  <2>4. Report!Found = Recorded
    BY <2>2, <2>3 DEF Report!Found, Report!Upto, Recorded
  <2> QED
    BY <2>1, <2>4
<1>3. Report!stats_popcount = N
  BY <1>2, SameOperators, Zenon DEF Report!stats_popcount
<1>4. /\ N \in Nat
      /\ \A v \in Recorded : Cardinality(Below(Recorded, v)) \in 0 .. N - 1
      /\ \A v, w \in Recorded : v < w => Cardinality(Below(Recorded, v)) < Cardinality(Below(Recorded, w))
      /\ \A k \in 0 .. N - 1 : \E v \in Recorded : Cardinality(Below(Recorded, v)) = k
  BY <1>1, Ranked, FS_CardinalityType
<1> HIDE DEF N
<1>5. ASSUME NEW v \in Recorded, NEW k, k = Cardinality(Below(Recorded, v))
      PROVE  Report!stats_value_at(k) = <<v, data[v]>>
  <2> DEFINE hits == {i \in Recorded : Cardinality(Below(Recorded, i)) = k}
  <2>1. hits = {v}
    <3> SUFFICES ASSUME NEW w \in Recorded, Cardinality(Below(Recorded, w)) = k PROVE w = v
      BY <1>5
    <3>1. v \in Nat /\ w \in Nat /\ k \in Int
      BY <1>1, <1>4, <1>5
    <3>2. ~(v < w) /\ ~(w < v)
      <4>1. v < w => k < k
        BY <1>4, <1>5
      <4>2. w < v => k < k
        BY <1>4, <1>5
      <4> QED
        BY <3>1, <4>1, <4>2
    <3> QED
      BY <3>1, <3>2
  <2>2. Report!stats_value_at(k) = IF hits = {} THEN <<0, Report!stats_popcount>>
                                   ELSE <<Report!Min(hits), data[Report!Min(hits)]>>
    BY <1>2, SameOperators, Zenon DEF Report!stats_value_at, Below
  <2>3. Report!Min(hits) = v
    <3>1. {v} \subseteq Nat /\ {v} # {}
      BY <1>1
    <3>2. Min({v}) \in {v}
      BY <3>1, LeastNumber
    <3> HIDE DEF hits
    <3> QED
      BY <2>1, <3>2, SameOperators
  <2> HIDE DEF hits
  <2> QED
    BY <2>1, <2>2, <2>3
<1>6. {Report!stats_value_at(i) : i \in 0 .. N - 1} = {<<v, data[v]>> : v \in Recorded}
  <2>1. ASSUME NEW i \in 0 .. N - 1
        PROVE  \E v \in Recorded : Report!stats_value_at(i) = <<v, data[v]>>
    <3>1. PICK v \in Recorded : Cardinality(Below(Recorded, v)) = i
      BY <1>4
    <3> QED
      BY <1>5, <3>1
  <2>2. ASSUME NEW v \in Recorded
        PROVE  \E i \in 0 .. N - 1 : Report!stats_value_at(i) = <<v, data[v]>>
    BY <1>4, <1>5
  <2> QED
    BY <2>1, <2>2
<1>7. ASSUME NEW i \in 1 .. N - 1
      PROVE  Report!stats_value_at(i - 1)[1] < Report!stats_value_at(i)[1]
  <2>1. i - 1 \in 0 .. N - 1 /\ i \in 0 .. N - 1 /\ i - 1 < i
    BY <1>4
  <2>2. PICK v \in Recorded : Cardinality(Below(Recorded, v)) = i - 1
    BY <1>4, <2>1
  <2>3. PICK w \in Recorded : Cardinality(Below(Recorded, w)) = i
    BY <1>4, <2>1
  <2>4. ~(w < v) /\ v # w
    <3>1. w < v => i < i - 1
      BY <1>4, <2>2, <2>3
    <3> QED
      BY <2>1, <2>2, <2>3, <3>1
  <2>5. v < w
    <3>1. v \in Nat /\ w \in Nat
      BY <1>1
    <3> QED
      BY <2>4, <3>1
  <2>6. Report!stats_value_at(i - 1) = <<v, data[v]>> /\ Report!stats_value_at(i) = <<w, data[w]>>
    BY <1>5, <2>2, <2>3
  <2> QED
    BY <2>5, <2>6
<1> QED
  BY <1>2, <1>3, <1>6, <1>7 DEF Report!ListingComplete

\* The sum of the samples is between the extremes' multiples of their number.
LEMMA MeanBetween ==
  ASSUME Whole, count > 0
  PROVE  min * count <= Report!stats_sum /\ Report!stats_sum <= max * count
<1> DEFINE g == [v \in Slots |-> data[v] * v]
           S == Report!Upto(max)
<1>1. min \in Nat /\ max \in Nat /\ \A v \in Slots : data[v] \in Nat /\ v \in Nat
  BY WholeFacts
<1>2. S \subseteq Slots
  <2>1. max < Limit /\ Limit \in Nat
    BY WholeFacts, LatencyAssumption DEF LatencyAssumption, Slots
  <2> QED
    BY <1>1, <2>1 DEF Slots, Report!Upto
<1>3. IsFiniteSet(S)
  BY <1>2, FewSlots, FS_Subset
<1>4. ASSUME NEW v \in S
      PROVE  /\ data[v] \in Nat /\ g[v] \in Nat
             /\ min * data[v] <= g[v] /\ g[v] <= max * data[v]
  <2>1. v \in Nat /\ min <= v /\ v <= max /\ data[v] \in Nat /\ g[v] = data[v] * v
    BY <1>1, <1>2 DEF Report!Upto
  <2>2. \A a, b, c, d \in Nat : a <= b /\ b <= c => d * b \in Nat /\ a * d <= d * b /\ d * b <= c * d
    OBVIOUS
  <2> HIDE DEF g
  <2> QED
    BY <1>1, <2>1, <2>2
<1> HIDE DEF g, S
<1>5. /\ min * SumFunctionOnSet(data, S) <= SumFunctionOnSet(g, S)
      /\ SumFunctionOnSet(g, S) <= max * SumFunctionOnSet(data, S)
  BY <1>1, <1>3, <1>4, SumBetween
<1>6. Report!stats_sum = SumFunctionOnSet(g, S)
  BY FewSlots, SameOperators, Zenon DEF Report!stats_sum, g, S
<1>7. SumFunctionOnSet(data, S) = count
  <2>1. Report!Samples(S) = count /\ Report!Samples(S) = SumFunctionOnSet(data, S \intersect Slots)
    BY SamplesUpto DEF S
  <2>2. S \intersect Slots = S
    BY <1>2
  <2> QED
    BY <2>1, <2>2
<1> QED
  BY <1>5, <1>6, <1>7

-----------------------------------------------------------------------------
(* The run. *)

Stages == {"recording", "recorded", "charted", "correcting", "corrected"}

\* From the joining on, the histogram is consistent, for as long as nothing is
\* added below min, as a correction by less than the shortest latency does.
RInv ==
  /\ stage \in Stages
  /\ stage = "recording" => IInv /\ Tally /\ bars = Report!NoBars
  /\ stage \in {"recorded", "charted"} =>
       Whole /\ late \in [Threads -> Nat] /\ calls = count + SumFunctionOnSet(late, Threads)
  /\ stage = "recorded" => bars = Report!NoBars
  /\ stage = "charted" => SumFunction(bars) <= count
  /\ stage \in {"correcting", "corrected"} /\ ~Pipelined => Whole
  /\ stage = "correcting" /\ ~Pipelined =>
       at \in Nat /\ expected \in Nat /\ (count > 0 => expected >= min)

\* No latency has been too large at first.
LEMMA NothingLate == late = [t \in Threads |-> 0] =>
                       late \in [Threads -> Nat] /\ SumFunctionOnSet(late, Threads) = 0
<1> SUFFICES ASSUME late = [t \in Threads |-> 0]
             PROVE  late \in [Threads -> Nat] /\ SumFunctionOnSet(late, Threads) = 0
  OBVIOUS
<1>1. IsFiniteSet(Threads) /\ \A t \in Threads : late[t] = 0
  BY LatencyAssumption DEF LatencyAssumption
<1>2. SumFunctionOnSet(late, Threads) = 0
  BY <1>1, SumOfNothing
<1> QED
  BY <1>2

\* A histogram as the run leaves it.
LEMMA InitWhole == Report!Init => Whole
<1> SUFFICES ASSUME Report!Init PROVE Whole
  OBVIOUS
<1>1. data \in [Slots -> Nat]
  BY ReportAssumption DEF ReportAssumption, Report!Init, Slots
<1>2. count = SumFunctionOnSet(data, Slots)
  <2>1. count = Report!Samples(Slots)
    BY FewSlots, Zenon DEF Report!Init
  <2>2. Report!Samples(Slots) = SumFunctionOnSet(data, Slots \intersect Slots)
    BY FewSlots, SameOperators, Zenon DEF Report!Samples
  <2>3. Slots \intersect Slots = Slots
    OBVIOUS
  <2> QED
    BY <2>1, <2>2, <2>3, Zenon
<1>3. /\ min = IF Recorded = {} THEN UINT64_MAX ELSE Min(Recorded)
      /\ max = IF Recorded = {} THEN 0 ELSE Max(Recorded)
  BY FewSlots, SameOperators, Zenon DEF Report!Init, Recorded
<1>4. Recorded \subseteq Slots /\ Recorded \subseteq Nat /\ Limit \in Nat /\ \A v \in Recorded : v <= Limit
  <2>1. Recorded \subseteq Slots
    BY DEF Recorded
  <2>2. \A v \in Slots : v \in Nat /\ v <= Limit
    BY LatencyAssumption DEF LatencyAssumption, Slots
  <2> QED
    BY <2>1, <2>2, LatencyAssumption DEF LatencyAssumption
<1>5. CASE Recorded = {}
  BY <1>1, <1>2, <1>3, <1>5, SlotFacts DEF Whole
<1>6. CASE Recorded # {}
  <2>1. min \in Recorded /\ \A v \in Recorded : min <= v
    BY <1>3, <1>4, <1>6, LeastNumber
  <2>2. max \in Recorded /\ \A v \in Recorded : v <= max
    BY <1>3, <1>4, <1>6, GreatestNumber
  <2> QED
    BY <1>1, <1>2, <1>4, <2>1, <2>2 DEF Whole
<1> QED
  BY <1>5, <1>6

\* Both kinds of initial states.
LEMMA InitRInv == RunInit => RInv
<1> SUFFICES ASSUME RunInit PROVE RInv
  OBVIOUS
<1>1. CASE Init /\ bars = Report!NoBars /\ expected = 0 /\ at = 0 /\ stage = "recording"
  <2>1. IInv /\ Tally
    BY <1>1, InitIInv, TallyInit
  <2> QED
    BY <1>1, <2>1 DEF RInv, Stages
<1>2. CASE Report!Init /\ late = [t \in Threads |-> 0] /\ calls = count
  <2>1. Whole /\ stage = "recorded" /\ bars = Report!NoBars
    BY <1>2, InitWhole DEF Report!Init
  <2>2. late \in [Threads -> Nat] /\ SumFunctionOnSet(late, Threads) = 0 /\ count \in Nat
    BY <1>2, <2>1, NothingLate, WholeFacts
  <2>3. calls = count + SumFunctionOnSet(late, Threads)
    BY <1>2, <2>2
  <2> QED
    BY <2>1, <2>2, <2>3 DEF RInv, Stages
<1> QED
  BY <1>1, <1>2 DEF RunInit

\* It is about the shared variables only.
LEMMA WholeStays == Whole /\ UNCHANGED shared => Whole'
  BY DEF Whole, shared, Recorded

\* Each step of the threads, of main's join and of the report.
LEMMA NextRInv == RInv /\ [RunNext]_<<vars, report>> => RInv'
<1> SUFFICES ASSUME RInv, [RunNext]_<<vars, report>> PROVE RInv'
  OBVIOUS
<1>1. CASE Recording
  <2>1. stage = "recording" /\ stage' = "recording" /\ bars' = bars /\ Next
    BY <1>1 DEF Recording, report
  <2>2. IInv /\ Tally /\ bars = Report!NoBars /\ TypeOK
    BY <2>1 DEF RInv, IInv
  <2>3. TypeOK'
    BY <2>1, <2>2, NextTypeOK
  <2>4. IInv'
    BY <2>1, <2>2, <2>3, NextIInv
  <2>5. Tally'
    BY <2>1, <2>2, TallyNext
  <2>6. bars' = Report!NoBars'
    BY <2>1, <2>2 DEF Report!NoBars
  <2> QED
    BY <2>1, <2>4, <2>5, <2>6 DEF RInv, Stages
<1>2. CASE Join
  <2>1. /\ stage = "recording" /\ stage' = "recorded" /\ bars' = bars /\ UNCHANGED shared
        /\ late' = late /\ calls' = calls /\ count' = count
        /\ \A t \in Threads : pc[t] = "idle"
    BY <1>2 DEF Join, shared, threads
  <2>2. IInv /\ Tally /\ bars = Report!NoBars /\ TypeOK
    BY <2>1 DEF RInv, IInv
  <2>3. Those(pc, "count") = {} /\ Those(pc, "data") = {}
    BY <2>1 DEF Those
  <2>4. Cardinality(Those(pc, "count")) = 0 /\ Cardinality(Those(pc, "data")) = 0
    BY <2>3, FS_EmptySet
  <2>5. data \in [Slots -> Nat] /\ count \in Nat /\ late \in [Threads -> Nat]
        /\ min \in Slots \union {UINT64_MAX} /\ max \in Slots
    BY <2>2 DEF TypeOK
  <2>6. count = SumFunctionOnSet(data, Slots)
    BY <2>2, <2>4, <2>5 DEF Tally
  <2>7. calls = count + SumFunctionOnSet(late, Threads)
    <3>1. calls = count + 0 + SumFunctionOnSet(late, Threads)
      BY <2>2, <2>4, <2>6, Zenon DEF Tally
    <3> QED
      BY <2>5, <3>1
  <2>8. Whole
    BY <2>1, <2>2, <2>5, <2>6, ExactWhenIdle DEF Whole
  <2>9. Whole'
    BY <2>1, <2>8, WholeStays
  <2>10. bars' = Report!NoBars'
    BY <2>1, <2>2 DEF Report!NoBars
  <2>11. late' \in [Threads -> Nat] /\ calls' = count' + SumFunctionOnSet(late', Threads)
    BY <2>1, <2>5, <2>7
  <2> QED
    BY <2>1, <2>9, <2>10, <2>11 DEF RInv, Stages
<1>3. CASE Reporting /\ Report!print_stats_latency_map
  <2>1. /\ stage = "recorded" /\ stage' = "charted" /\ UNCHANGED shared
        /\ late' = late /\ calls' = calls /\ count' = count
    BY <1>3 DEF Report!print_stats_latency_map, Report!stats, Reporting, threads, shared
  <2>2. /\ Whole /\ late \in [Threads -> Nat] /\ calls = count + SumFunctionOnSet(late, Threads)
        /\ bars = Report!NoBars
    BY <2>1 DEF RInv
  <2>3. Whole'
    BY <2>1, <2>2, WholeStays
  <2>4. late' \in [Threads -> Nat] /\ calls' = count' + SumFunctionOnSet(late', Threads)
    BY <2>1, <2>2
  <2>5. SumFunction(bars') <= count
    <3>1. CASE Report!Interval = 0
      <4>1. bars' = bars
        BY <1>3, <3>1 DEF Report!print_stats_latency_map
      <4> DEFINE I == 0 .. 20
      <4>2. DOMAIN bars' = I /\ \A i \in I : bars'[i] = 0
        BY <2>2, <4>1 DEF Report!NoBars
      <4>3. IsFiniteSet(I)
        <5>1. 0 \in Int /\ 20 \in Int
          OBVIOUS
        <5> QED
          BY <5>1, FS_Interval
      <4> HIDE DEF I
      <4>4. SumFunctionOnSet(bars', I) = 0
        BY <4>2, <4>3, SumOfNothing
      <4>5. SumFunction(bars') = 0
        BY <4>2, <4>4, Zenon DEF SumFunction
      <4>6. count \in Nat
        BY <2>2, WholeFacts
      <4> QED
        BY <4>5, <4>6
    <3>2. CASE Report!Interval # 0
      <4>1. PICK w \in Nat \ {0}, d \in Nat : w = Report!Interval /\ d = Report!digit_ceil(max)
        <5>1. max \in Nat
          BY <2>2, WholeFacts
        <5>2. Report!digit_ceil(max) \in Nat
          BY <5>1, DigitCeil
        <5>3. Report!Interval \in Nat
          BY <5>2 DEF Report!Interval
        <5> QED
          BY <3>2, <5>2, <5>3
      <4>2. PICK b : b = bars'
        OBVIOUS
      <4>3. b = [i \in 0 .. 20 |->
                   IF i = 20 THEN 0 ELSE Report!Samples({v \in 0 .. d - 1 : v \div w = i})]
        BY <1>3, <3>2, <4>1, <4>2, Zenon DEF Report!print_stats_latency_map
      <4>4. SumFunction(b) <= SumFunctionOnSet(data, Slots)
        BY <2>2, <4>3, BarsWithin DEF Whole
      <4> QED
        BY <2>2, <4>2, <4>4 DEF Whole
    <3> QED
      BY <3>1, <3>2
  <2>6. SumFunction(bars') <= count'
    BY <2>1, <2>5
  <2> QED
    BY <2>1, <2>3, <2>4, <2>6 DEF RInv, Stages
<1>4. CASE Reporting /\ Report!Correct
  <2>1. stage = "charted" /\ stage' = "correcting" /\ UNCHANGED shared
    BY <1>4 DEF Report!Correct, Report!stats, shared
  <2>2. Whole /\ Whole' /\ count' = count /\ min' = min
    BY <2>1, WholeStays DEF RInv, shared
  <2>3. PICK e \in Intervals : /\ count > 0 /\ ~Pipelined => e >= min
                               /\ expected' = e /\ at' = 2 * e
    BY <1>4 DEF Report!Correct
  <2>4. e \in Nat
    BY ReportAssumption DEF ReportAssumption
  <2>5. at' \in Nat /\ expected' \in Nat /\ (count' > 0 /\ ~Pipelined => expected' >= min')
    BY <2>2, <2>3, <2>4
  <2> QED
    BY <2>1, <2>2, <2>5 DEF RInv, Stages
<1>5. CASE Reporting /\ Report!NoCorrection
  <2>1. stage = "charted" /\ stage' = "corrected" /\ UNCHANGED shared
    BY <1>5 DEF Report!NoCorrection, Report!stats, shared
  <2>2. Whole'
    BY <2>1, WholeStays DEF RInv
  <2> QED
    BY <2>1, <2>2 DEF RInv, Stages
<1>6. CASE Reporting /\ Report!CorrectNext
  <2>1. stage = "correcting" /\ stage' = "correcting"
    BY <1>6 DEF Report!CorrectNext
  <2>2. CASE Pipelined
    BY <2>1, <2>2 DEF RInv, Stages
  <2>3. CASE ~Pipelined
    <3>1. Whole /\ at \in Nat /\ expected \in Nat /\ (count > 0 => expected >= min)
      BY <2>1, <2>3 DEF RInv
    <3>2. at <= max /\ at' = at + 1 /\ min' = min /\ max' = max /\ expected' = expected
      BY <1>6 DEF Report!CorrectNext
    <3>3. PICK d : d = data'
      OBVIOUS
    <3>4. PICK c : c = count'
      OBVIOUS
    <3>5. d = [v \in Slots |-> IF v \in Report!Missed(at) THEN data[v] + data[at] ELSE data[v]]
      BY <1>6, <3>3, FewSlots, Zenon DEF Report!CorrectNext
    <3>6. c = count + data[at] * Cardinality(Report!Missed(at))
      BY <1>6, <3>4, SameOperators, Zenon DEF Report!CorrectNext
    <3>7. /\ d \in [Slots -> Nat] /\ c = SumFunctionOnSet(d, Slots)
          /\ \A v \in Slots : d[v] > 0 => min <= v /\ v <= max /\ count > 0
          /\ \A v \in Recorded : d[v] > 0
          /\ c > 0 => count > 0
      BY <3>1, <3>2, <3>5, <3>6, CorrectionKeeps
    <3>8. Recorded' = {v \in Slots : d[v] > 0}
      BY <3>3 DEF Recorded
    <3>9. ASSUME Recorded' # {} PROVE min \in Recorded' /\ max \in Recorded'
      <4>1. count > 0
        BY <3>7, <3>8, <3>9
      <4>2. min \in Recorded /\ max \in Recorded
        BY <3>1, <4>1, WholeFacts DEF Whole
      <4>3. min \in Slots /\ max \in Slots
        BY <4>2 DEF Recorded
      <4> QED
        BY <3>7, <3>8, <4>2, <4>3
    <3>10. min \in Slots \union {UINT64_MAX} /\ max \in Slots
      BY <3>1 DEF Whole
    <3>11. \A v \in Recorded' : min <= v /\ v <= max
      BY <3>7, <3>8
    <3>12. data' \in [Slots -> Nat] /\ count' = SumFunctionOnSet(data', Slots)
      BY <3>3, <3>4, <3>7
    <3>13. Whole'
      BY <3>2, <3>9, <3>10, <3>11, <3>12 DEF Whole
    <3>14. at' \in Nat /\ expected' \in Nat /\ (count' > 0 => expected' >= min')
      BY <3>1, <3>2, <3>4, <3>7
    <3> QED
      BY <2>1, <3>13, <3>14 DEF RInv, Stages
  <2> QED
    BY <2>2, <2>3
<1>7. CASE Reporting /\ Report!Corrected
  <2>1. stage = "correcting" /\ stage' = "corrected" /\ UNCHANGED shared
    BY <1>7 DEF Report!Corrected, Report!stats, shared
  <2>2. ~Pipelined => Whole'
    BY <2>1, WholeStays DEF RInv
  <2> QED
    BY <2>1, <2>2 DEF RInv, Stages
<1>8. CASE UNCHANGED <<vars, report>>
  <2>1. UNCHANGED vars /\ UNCHANGED shared /\ stage' = stage /\ bars' = bars /\ at' = at /\ expected' = expected
        /\ late' = late /\ calls' = calls /\ count' = count /\ min' = min
    BY <1>8 DEF vars, report, shared
  <2>2. IInv /\ Tally => IInv' /\ Tally'
    <3>1. IInv => TypeOK
      BY DEF IInv
    <3> QED
      BY <2>1, <3>1, NextTypeOK, NextIInv, TallyNext
  <2>3. Whole => Whole'
    BY <2>1, WholeStays
  <2>4. Report!NoBars' = Report!NoBars
    BY DEF Report!NoBars
  <2> QED
    BY <2>1, <2>2, <2>3, <2>4 DEF RInv, Stages
<1> QED
  BY <1>1, <1>2, <1>3, <1>4, <1>5, <1>6, <1>7, <1>8 DEF RunNext, Reporting, Report!Next

\* The invariant of the whole run.
LEMMA RunInductive == RunSpec => []RInv
  BY InitRInv, NextRInv, PTL DEF RunSpec

\* Every call has been recorded or counted as a timeout.
CallsTold == stage \in {"recorded", "charted"} => calls = SumFunction(data) + SumFunction(late)

\* What does not depend on the correction.
LEMMA TellsOfCalls == RInv => Report!ChartInsideData /\ CallsTold
<1> SUFFICES ASSUME RInv PROVE Report!ChartInsideData /\ CallsTold
  OBVIOUS
<1>1. ASSUME stage \in {"recorded", "charted"} PROVE calls = SumFunction(data) + SumFunction(late)
  <2>1. Whole /\ late \in [Threads -> Nat] /\ calls = count + SumFunctionOnSet(late, Threads)
    BY <1>1 DEF RInv
  <2>2. DOMAIN data = Slots /\ DOMAIN late = Threads /\ count = SumFunctionOnSet(data, Slots)
    BY <2>1 DEF Whole
  <2> QED
    BY <2>1, <2>2, Zenon DEF SumFunction
<1>2. ASSUME stage = "recorded", Report!Interval > 0 PROVE Report!digit_ceil(max) <= 2 * Limit
  <2>1. max \in Nat /\ max < Limit /\ Limit \in Nat
    BY <1>2, WholeFacts, LatencyAssumption DEF RInv, Slots, LatencyAssumption
  <2>2. Report!digit_ceil(max) \in Nat /\ Report!digit_ceil(max) <= 2 * max
    BY <1>2, <2>1, DigitCeil DEF Report!Interval
  <2> QED
    BY <2>1, <2>2
<1>3. stage = "charted" => Report!SumFunction(bars) <= count
  BY SameOperators DEF RInv
<1> QED
  BY <1>1, <1>2, <1>3 DEF Report!ChartInsideData, CallsTold

\* What is computed after it.
LEMMA ReportsSoundly == RInv /\ ~Pipelined => Report!ReportSound
<1> SUFFICES ASSUME RInv, ~Pipelined, Report!Done PROVE
      /\ count = Report!Samples(Report!Slots) /\ Report!PercentilesSound
      /\ Report!stats_percentile(100) = max /\ Report!ListingComplete
      /\ min * count <= Report!stats_sum /\ Report!stats_sum <= max * count
  BY DEF Report!ReportSound
<1>1. Whole /\ count > 0
  BY DEF RInv, Report!Done
<1>2. count = Report!Samples(Report!Slots)
  <2>1. Report!Samples(Slots) = SumFunctionOnSet(data, Slots \intersect Slots)
    BY <1>1, SamplesUpto
  <2>2. Slots \intersect Slots = Slots /\ Report!Slots = Slots
    BY FewSlots
  <2> QED
    BY <1>1, <2>1, <2>2 DEF Whole
<1> QED
  BY <1>1, <1>2, PercentilesAreSound, ListingIsComplete, MeanBetween

\* What main prints and done() is given is sound, from the first call of
\* stats_record to the last slot that is corrected, when a cycle has one request:
\* the interval of the correction is then no less than the shortest latency.
THEOREM ReportIsSound == ~Pipelined => (RunSpec => []ReportSound)
<1> SUFFICES ASSUME ~Pipelined PROVE RunSpec => []ReportSound
  OBVIOUS
<1>1. RInv => ReportSound
  BY TellsOfCalls, ReportsSoundly DEF ReportSound, CallsTold
<1> QED
  BY RunInductive, <1>1, PTL

\* Also when requests are pipelined, every call of stats_record is in the
\* histogram or among the timeouts when main reads them, and the chart is made
\* of samples inside stats->data, none of them counted twice.
THEOREM CallsAreTold == RunSpec => [](Report!ChartInsideData /\ CallsTold)
  BY RunInductive, TellsOfCalls, PTL

\* min and max are exact whenever no thread is in stats_record, and stay so
\* through the correction, which does not touch them.
THEOREM RunExtremesAreExact == ~Pipelined => (RunSpec => []ExtremesExact)
<1> SUFFICES ASSUME ~Pipelined PROVE RunSpec => []ExtremesExact
  OBVIOUS
<1>1. Whole => ExtremesExact
  BY DEF Whole, ExtremesExact
<1>2. IInv => ExtremesExact
  BY ExactWhenIdle DEF ExtremesExact
<1>3. RInv => IInv \/ Whole
  BY DEF RInv, Stages
<1>4. RInv => ExtremesExact
  BY <1>1, <1>2, <1>3
<1> QED
  BY RunInductive, <1>4, PTL
=============================================================================
