---------------------------- MODULE LatencyStats ----------------------------
(***************************************************************************)
(* The latency histogram that all worker threads share (stats.c), one      *)
(* atomic instruction of stats_record at a time.                           *)
(***************************************************************************)
EXTENDS Integers, FiniteSets

CONSTANTS
  Threads,     \* the worker threads
  Limit,       \* stats->limit
  UINT64_MAX,  \* larger than every latency
  Latencies,   \* what now - c->start can be
  MaxCalls     \* bound: calls of stats_record in a behaviour

ASSUME LatencyAssumption ==
  /\ Limit \in Nat \ {0} /\ UINT64_MAX \in Nat /\ UINT64_MAX > Limit
  /\ Latencies \subseteq 0 .. UINT64_MAX - 1
  /\ MaxCalls \in Nat /\ IsFiniteSet(Threads)

VARIABLES
  data, count, min, max, \* stats
  pc,                    \* of each thread in stats_record
  n, lmin, lmax,         \* its argument and its local variables min and max
  late,                  \* errors.timeout of each thread
  calls                  \* auxiliary: calls so far

shared == <<data, count, min, max>>
vars == <<shared, pc, n, lmin, lmax, late, calls>>

Slots == 0 .. Limit - 1

\* stats_alloc.
Init ==
  /\ data = [v \in Slots |-> 0] /\ count = 0
  /\ min = UINT64_MAX /\ max = 0
  /\ pc = [t \in Threads |-> "idle"]
  /\ n = [t \in Threads |-> 0]
  /\ lmin = [t \in Threads |-> 0] /\ lmax = [t \in Threads |-> 0]
  /\ late = [t \in Threads |-> 0] /\ calls = 0

Goto(t, l) == pc' = [pc EXCEPT ![t] = l]

\* A latency beyond the limit is rejected; the caller counts it as a timeout.
\* Variant: the caller does not.
RejectUncounted(t, v) ==
  /\ pc[t] = "idle" /\ calls < MaxCalls /\ v >= Limit
  /\ calls' = calls + 1
  /\ UNCHANGED <<shared, pc, n, lmin, lmax, late>>

Reject(t, v) ==
  /\ pc[t] = "idle" /\ calls < MaxCalls /\ v >= Limit
  /\ late' = [late EXCEPT ![t] = @ + 1] /\ calls' = calls + 1
  /\ UNCHANGED <<shared, pc, n, lmin, lmax>>

Call(t, v) ==
  /\ pc[t] = "idle" /\ calls < MaxCalls /\ v < Limit
  /\ n' = [n EXCEPT ![t] = v] /\ calls' = calls + 1 /\ Goto(t, "data")
  /\ UNCHANGED <<shared, lmin, lmax, late>>

AddData(t) ==
  /\ pc[t] = "data" /\ Goto(t, "count")
  /\ data' = [data EXCEPT ![n[t]] = @ + 1]
  /\ UNCHANGED <<count, min, max, n, lmin, lmax, late, calls>>

AddCount(t) ==
  /\ pc[t] = "count" /\ Goto(t, "loadMin")
  /\ count' = count + 1
  /\ UNCHANGED <<data, min, max, n, lmin, lmax, late, calls>>

LoadMin(t) ==
  /\ pc[t] = "loadMin" /\ Goto(t, "loadMax")
  /\ lmin' = [lmin EXCEPT ![t] = min]
  /\ UNCHANGED <<shared, n, lmax, late, calls>>

LoadMax(t) ==
  /\ pc[t] = "loadMax" /\ Goto(t, "lower")
  /\ lmax' = [lmax EXCEPT ![t] = max]
  /\ UNCHANGED <<shared, n, lmin, late, calls>>

\* while (n < min): a compare-and-swap that returns the old value, also when
\* it has succeeded.
\* Variants: a plain store; the local copy is not refreshed.
LowerMinPlain(t) ==
  /\ pc[t] = "lower" /\ n[t] < lmin[t]
  /\ lmin' = [lmin EXCEPT ![t] = n[t]] /\ min' = n[t]
  /\ UNCHANGED <<data, count, max, pc, n, lmax, late, calls>>
LowerMinSpins(t) ==
  /\ pc[t] = "lower" /\ n[t] < lmin[t]
  /\ min' = IF min = lmin[t] THEN n[t] ELSE min
  /\ UNCHANGED <<data, count, max, pc, n, lmin, lmax, late, calls>>

LowerMin(t) ==
  /\ pc[t] = "lower" /\ n[t] < lmin[t]
  /\ lmin' = [lmin EXCEPT ![t] = min]
  /\ min' = IF min = lmin[t] THEN n[t] ELSE min
  /\ UNCHANGED <<data, count, max, pc, n, lmax, late, calls>>

MinDone(t) ==
  /\ pc[t] = "lower" /\ ~(n[t] < lmin[t]) /\ Goto(t, "raise")
  /\ UNCHANGED <<shared, n, lmin, lmax, late, calls>>

RaiseMax(t) ==
  /\ pc[t] = "raise" /\ n[t] > lmax[t]
  /\ lmax' = [lmax EXCEPT ![t] = max]
  /\ max' = IF max = lmax[t] THEN n[t] ELSE max
  /\ UNCHANGED <<data, count, min, pc, n, lmin, late, calls>>

Return(t) ==
  /\ pc[t] = "raise" /\ ~(n[t] > lmax[t]) /\ Goto(t, "idle")
  /\ UNCHANGED <<shared, n, lmin, lmax, late, calls>>

Step(t) == \/ AddData(t) \/ AddCount(t) \/ LoadMin(t) \/ LoadMax(t)
           \/ LowerMin(t) \/ MinDone(t) \/ RaiseMax(t) \/ Return(t)

Next == \E t \in Threads :
          Step(t) \/ \E v \in Latencies : Reject(t, v) \/ Call(t, v)

Spec == Init /\ [][Next]_vars

\* A thread inside stats_record is not stopped there: threads leave only
\* between rounds of their event loop.
FairSpec == Spec /\ \A t \in Threads : WF_vars(Step(t))

-----------------------------------------------------------------------------
Recorded == {v \in Slots : data[v] > 0}

TypeOK ==
  /\ data \in [Slots -> Nat] /\ count \in Nat
  /\ min \in Slots \union {UINT64_MAX} /\ max \in Slots
  /\ pc \in [Threads -> {"idle", "data", "count", "loadMin", "loadMax",
                         "lower", "raise"}]
  /\ n \in [Threads -> Slots]
  /\ lmin \in [Threads -> Slots \union {UINT64_MAX}] /\ lmax \in [Threads -> Slots]
  /\ late \in [Threads -> Nat] /\ calls \in 0 .. MaxCalls

\* Once no thread is in stats_record (main reads the histogram after it has
\* joined them), min and max are the extremes of what was recorded, whatever
\* the threads' compare-and-swaps did to each other.
ExtremesExact ==
  (\A t \in Threads : pc[t] = "idle") =>
    /\ \A v \in Recorded : min <= v /\ v <= max
    /\ Recorded # {} => min \in Recorded /\ max \in Recorded

\* At all times min and max are values somebody recorded, or initial.
ExtremesRecorded ==
  /\ min \in Recorded \union {UINT64_MAX}
  /\ max \in Recorded \union {0}

\* A thread may work on stale copies of min and max, but never undoes the
\* update of another one.
ExtremesWiden == [][min' <= min /\ max' >= max]_vars

\* Every return from stats_record leaves the thread's own sample between min
\* and max, whatever the others are doing.
OwnSampleCovered ==
  [][\A t \in Threads : Return(t) => min <= n[t] /\ n[t] <= max]_vars

\* The loops end: the values they compare with only move one way.
RecordReturns == \A t \in Threads : pc[t] # "idle" ~> pc[t] = "idle"

=============================================================================
