----------------------------- MODULE LatencyRun -----------------------------
(***************************************************************************)
(* The histogram from its allocation to the report: the threads record     *)
(* into it (LatencyStats), main joins them, and then makes its charts and  *)
(* tables of it (StatsReport).                                             *)
(***************************************************************************)
EXTENDS LatencyStats, FiniteSetsExt

CONSTANTS
  Histograms,  \* what has been recorded before the calls that are followed
  Intervals,   \* the runtime per request of a connection, in microseconds
  Pipelined    \* several requests are in one cycle

\* One request per cycle: the runtime of a connection holds complete cycles,
\* so that the interval is no less than the shortest latency.
ASSUME ReportAssumption ==
  /\ Histograms \subseteq [0 .. Limit - 1 -> Nat]
  /\ Intervals \subseteq Nat \ {0} /\ Pipelined \in BOOLEAN

VARIABLES bars, expected, at, stage

report == <<bars, expected, at, stage>>
threads == <<pc, n, lmin, lmax, late, calls>>

Report == INSTANCE StatsReport

\* A run that is followed from the beginning, or one that is over.
RunInit ==
  \/ Init /\ bars = Report!NoBars /\ expected = 0 /\ at = 0 /\ stage = "recording"
  \/ /\ Report!Init
     /\ pc = [t \in Threads |-> "idle"]
     /\ n = [t \in Threads |-> 0] /\ late = [t \in Threads |-> 0]
     /\ lmin = [t \in Threads |-> 0] /\ lmax = [t \in Threads |-> 0]
     /\ calls = count

Recording == stage = "recording" /\ Next /\ UNCHANGED report

\* main has joined its threads: they leave between two calls only.
Join == /\ stage = "recording" /\ \A t \in Threads : pc[t] = "idle"
        /\ stage' = "recorded"
        /\ UNCHANGED <<shared, threads, bars, expected, at>>

Reporting == stage # "recording" /\ Report!Next /\ UNCHANGED threads

RunNext == Recording \/ Join \/ Reporting
RunSpec == RunInit /\ [][RunNext]_<<vars, report>>

\* A thread inside stats_record is not stopped there: threads leave only
\* between rounds of their event loop.
FairRunSpec ==
  RunSpec /\ \A t \in Threads : WF_<<vars, report>>(stage = "recording" /\ Step(t) /\ UNCHANGED report)
-----------------------------------------------------------------------------
\* What main prints and done() is given tells of every call of stats_record,
\* whichever order the threads' instructions came in: the samples and those that
\* were too late are the calls, until the correction adds some; and the report on
\* all of them, the chart included, is sound (StatsReport).
ReportSound ==
  /\ Report!ReportSound
  /\ Report!ChartInsideData
  /\ stage \in {"recorded", "charted"} => calls = SumFunction(data) + SumFunction(late)
=============================================================================
