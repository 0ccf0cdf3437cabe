----------------------------- MODULE StatsReport -----------------------------
(***************************************************************************)
(* What main and the script's done() compute from the latency histogram    *)
(* after the run: the bars of the latency chart, the correction for        *)
(* coordinated omission (stats_correct, one slot at a time), and then mean,   *)
(* percentiles and raw values.                                             *)
(***************************************************************************)
EXTENDS Integers, FiniteSets, FiniteSetsExt

CONSTANTS
  Limit,       \* stats->limit
  UINT64_MAX,
  Histograms,  \* what the run may have recorded, in [0 .. Limit - 1 -> Nat]
  Intervals,   \* the runtime per request of a connection, in microseconds
  Pipelined    \* several requests are in one cycle

VARIABLES
  data, count, min, max,  \* the histogram
  bars,                   \* latency_array of the chart
  expected,               \* stats_correct's argument
  at,                     \* and its loop variable
  stage                   \* "recorded", "charted", "correcting" or "corrected"

stats == <<data, count, min, max>>
vars == <<stats, bars, expected, at, stage>>

\* There is room for twice as many, of which the second half stays 0.
Slots == 0 .. Limit - 1
Samples(S) == SumFunctionOnSet(data, S \intersect Slots)

NoBars == [i \in 0 .. 20 |-> 0]

Init ==
  /\ data \in Histograms
  /\ count = Samples(Slots)
  /\ LET seen == {v \in Slots : data[v] > 0} IN
     /\ min = IF seen = {} THEN UINT64_MAX ELSE Min(seen)
     /\ max = IF seen = {} THEN 0 ELSE Max(seen)
  /\ bars = NoBars /\ expected = 0 /\ at = 0 /\ stage = "recorded"

(***************************************************************************)
(* print_stats_latency_map                                                 *)
(***************************************************************************)
\* The first digit plus one, followed by zeros; the loop has divided once at
\* least, so that 1 .. 9 have no digit left.
Power[k \in Nat] == IF k = 0 THEN 1 ELSE 10 * Power[k - 1]
\* Variant: a division too many.
digit_ceil_far(x) ==
  LET len == IF x = 0 THEN 0
             ELSE CHOOSE k \in 1 .. x : x \div Power[k] < 10
                                         /\ \A j \in 1 .. k - 1 : x \div Power[j] >= 10
  IN  (x \div Power[len] + 1) * Power[len + 1]
digit_ceil(x) ==
  LET len == IF x = 0 THEN 0
             ELSE CHOOSE k \in 1 .. x : x \div Power[k] < 10
                                         /\ \A j \in 1 .. k - 1 : x \div Power[j] >= 10
  IN  (x \div Power[len] + 1) * Power[len]

Interval == digit_ceil(max) \div 20

print_stats_latency_map ==
  /\ stage = "recorded" /\ stage' = "charted"
  /\ bars' = IF Interval = 0 THEN bars
             ELSE [i \in 0 .. 20 |->
                     IF i = 20 THEN 0
                     ELSE Samples({v \in 0 .. digit_ceil(max) - 1 : v \div Interval = i})]
  /\ UNCHANGED <<stats, expected, at>>

(***************************************************************************)
(* stats_correct                                                           *)
(***************************************************************************)
\* main corrects when every connection has completed a request on average.
Correct ==
  /\ stage = "charted" /\ stage' = "correcting"
  /\ \E e \in Intervals : /\ count > 0 /\ ~Pipelined => e >= min
                          /\ expected' = e /\ at' = 2 * e
  /\ UNCHANGED <<stats, bars>>

NoCorrection ==
  /\ stage = "charted" /\ stage' = "corrected"
  /\ UNCHANGED <<stats, bars, expected, at>>

\* The requests a stall of x kept from being sent.
Missed(x) == {m \in expected + 1 .. x - 1 : (x - m) % expected = 0}

\* Variant: count is left alone.
CorrectNextUncounted ==
  /\ stage = "correcting" /\ at <= max
  /\ data' = [v \in Slots |-> IF v \in Missed(at) THEN data[v] + data[at] ELSE data[v]]
  /\ at' = at + 1
  /\ UNCHANGED <<count, min, max, bars, expected, stage>>

CorrectNext ==
  /\ stage = "correcting" /\ at <= max
  /\ data' = [v \in Slots |-> IF v \in Missed(at) THEN data[v] + data[at] ELSE data[v]]
  /\ count' = count + data[at] * Cardinality(Missed(at))
  /\ at' = at + 1
  /\ UNCHANGED <<min, max, bars, expected, stage>>

Corrected ==
  /\ stage = "correcting" /\ at > max /\ stage' = "corrected"
  /\ UNCHANGED <<stats, bars, expected, at>>

Next == print_stats_latency_map \/ Correct \/ NoCorrection \/ CorrectNext \/ Corrected

Spec == Init /\ [][Next]_vars

(***************************************************************************)
(* Reading the histogram: all loops run from min to max.                   *)
(***************************************************************************)
Upto(i) == min .. i

stats_sum == SumFunctionOnSet([v \in Slots |-> data[v] * v], Upto(max))

\* Variant: the rank is rounded down.
RankDown(p) == (p * count) \div 100
\* round(p / 100 * count + 0.5), for a whole p
Rank(p) == IF p = 100 THEN count ELSE (p * count) \div 100 + 1

stats_percentile(p) ==
  LET reached == {i \in Upto(max) : Samples(Upto(i)) >= Rank(p)}
  IN  IF reached = {} THEN 0 ELSE Min(reached)

Found == {i \in Upto(max) : data[i] > 0}
stats_popcount == Cardinality(Found)

\* The value at an index and its count.
stats_value_at(index) ==
  LET hits == {i \in Found : Cardinality({j \in Found : j < i}) = index}
  IN  IF hits = {} THEN <<0, stats_popcount>>
      ELSE <<Min(hits), data[Min(hits)]>>

-----------------------------------------------------------------------------
Done == stage = "corrected" /\ count > 0
Values == {v \in Slots : data[v] > 0}
Percentiles == {50, 66, 75, 80, 90, 95, 98, 99, 100}

\* A percentile is a recorded value, as many samples as it says are no
\* greater, and it is the least such value up to rounding.
PercentilesSound ==
  \A p \in Percentiles :
    LET v == stats_percentile(p) IN
    /\ v \in Values
    /\ 100 * Samples(0 .. v) >= p * count
    /\ 100 * Samples(0 .. v - 1) <= p * count

\* Walking latency(1) .. latency(#latency) lists every value and its count
\* once, in order.
ListingComplete ==
  /\ {stats_value_at(i) : i \in 0 .. stats_popcount - 1} = {<<v, data[v]>> : v \in Values}
  /\ \A i \in 1 .. stats_popcount - 1 : stats_value_at(i - 1)[1] < stats_value_at(i)[1]

\* What main prints and done() is given tells of what was recorded and added,
\* although all of it is computed between a min and a max that the correction
\* left alone: their number, percentiles, of which the hundredth is max (SCRIPTING), the
\* listing, and a mean between the extremes.
ReportSound ==
  Done => /\ count = Samples(Slots) /\ PercentilesSound /\ stats_percentile(100) = max
          /\ ListingComplete
          /\ min * count <= stats_sum /\ stats_sum <= max * count

\* The chart reads inside stats->data, beyond what was recorded, and no sample
\* is in two bars.
ChartInsideData ==
  /\ stage = "recorded" /\ Interval > 0 => digit_ceil(max) <= 2 * Limit
  /\ stage = "charted" => SumFunction(bars) <= count

=============================================================================
