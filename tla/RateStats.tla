------------------------------ MODULE RateStats ------------------------------
(***************************************************************************)
(* A run: main lets the server's collector start, creates the worker       *)
(* threads, starts them together, sleeps, stops and joins them, adds up    *)
(* their totals and ends the collection.  The threads count responses and  *)
(* flush their counts into shared slots per second every 50 ms             *)
(* (record_rate), one memory access at a time.                             *)
(***************************************************************************)
EXTENDS Integers, FiniteSets, Functions

CONSTANTS
  Threads,       \* the worker threads
  Duration,      \* cfg.duration in seconds
  MaxResponses   \* bound: responses a thread receives

ASSUME RateAssumption ==
  Duration \in Nat \ {0} /\ MaxResponses \in Nat /\ IsFiniteSet(Threads)

VARIABLES
  complete, requests, succ,  \* of each thread: in all, and not flushed yet
  pc, sec,                   \* in record_rate: where, and its time_interval
  perSec, okPerSec,          \* stats->requests and stats->success
  max_location, last_sec,    \* the last second of the chart, and printed
  printed,                   \* auxiliary: the seconds printed
  cutOff,                    \* auxiliary: seconds an overwritten max_location leaves out
  elapsed,                   \* the clock, since start_thread_time
  stop,                      \* the flag
  main, joined, total,       \* main: where, whom it joined, its complete
  thread_concurrency,        \* the flag that starts the threads together
  collector                  \* of the server: "off", "on", or "collected"

counts == <<complete, requests, succ>>
shared == <<perSec, okPerSec, max_location, last_sec, printed, cutOff>>
mainVars == <<main, joined, total, thread_concurrency, collector>>
vars == <<counts, pc, sec, shared, elapsed, stop, mainVars>>

Seconds == 0 .. Duration - 1

Init ==
  /\ complete = [t \in Threads |-> 0] /\ requests = [t \in Threads |-> 0]
  /\ succ = [t \in Threads |-> 0]
  /\ pc = [t \in Threads |-> "none"] /\ sec = [t \in Threads |-> 0]
  /\ perSec = [s \in Seconds |-> 0] /\ okPerSec = [s \in Seconds |-> 0]
  /\ max_location = 0 /\ last_sec = 0 /\ printed = {} /\ cutOff = {}
  /\ elapsed = 0 /\ stop = FALSE
  /\ main = "create" /\ joined = {} /\ total = 0
  /\ thread_concurrency = FALSE /\ collector \in {"off", "on"}

At(t, l) == pc[t] = l
Goto(t, l) == pc' = [pc EXCEPT ![t] = l]

\* response_complete counts a response.
Response(t, ok) ==
  /\ At(t, "loop") /\ complete[t] < MaxResponses
  /\ complete' = [complete EXCEPT ![t] = @ + 1]
  /\ requests' = [requests EXCEPT ![t] = @ + 1]
  /\ succ' = IF ok THEN [succ EXCEPT ![t] = @ + 1] ELSE succ
  /\ UNCHANGED <<pc, sec, shared, elapsed, stop, mainVars>>

(***************************************************************************)
(* record_rate, with stats_record_requests_per_sec and                     *)
(* stats_output_request_num inlined.                                       *)
(***************************************************************************)
\* The second is clamped to the run.
Second == IF elapsed < Duration THEN elapsed ELSE Duration - 1

\* Variant: the flag is looked at first.
RecordRateStopsFirst(t) ==
  /\ At(t, "loop") /\ sec' = [sec EXCEPT ![t] = Second]
  /\ Goto(t, IF stop THEN "lastPrint"
             ELSE IF succ[t] > 0 THEN "addSuccess" ELSE "addRequests")
  /\ UNCHANGED <<counts, shared, elapsed, stop, mainVars>>

RecordRate(t) ==
  /\ At(t, "loop") /\ sec' = [sec EXCEPT ![t] = Second]
  /\ Goto(t, IF succ[t] > 0 THEN "addSuccess" ELSE "addRequests")
  /\ UNCHANGED <<counts, shared, elapsed, stop, mainVars>>

AddSuccess(t) ==
  /\ At(t, "addSuccess") /\ Goto(t, "seenBySuccess")
  /\ okPerSec' = [okPerSec EXCEPT ![sec[t]] = @ + succ[t]]
  /\ succ' = [succ EXCEPT ![t] = 0]
  /\ UNCHANGED <<complete, requests, sec, perSec, max_location, last_sec, printed,
                 cutOff, elapsed, stop, mainVars>>

AddRequests(t) ==
  /\ At(t, "addRequests") /\ requests[t] > 0 /\ Goto(t, "print")
  /\ perSec' = [perSec EXCEPT ![sec[t]] = @ + requests[t]]
  /\ requests' = [requests EXCEPT ![t] = 0]
  /\ UNCHANGED <<complete, succ, sec, okPerSec, max_location, last_sec, printed,
                 cutOff, elapsed, stop, mainVars>>

NothingToAdd(t) ==
  /\ At(t, "addRequests") /\ requests[t] = 0 /\ Goto(t, "checkStop")
  /\ UNCHANGED <<counts, sec, shared, elapsed, stop, mainVars>>

\* if (sec > last_sec), and then, not atomically, print and last_sec = sec.
CheckPrint(t, s, from, line, next) ==
  /\ At(t, from) /\ Goto(t, IF s > last_sec THEN line ELSE next)
  /\ UNCHANGED <<counts, sec, shared, elapsed, stop, mainVars>>

\* Variant: the second that has just begun.
PrintThisLine(t, s, line, next) ==
  /\ At(t, line) /\ Goto(t, next)
  /\ printed' = printed \union {s} /\ last_sec' = s
  /\ UNCHANGED <<counts, sec, perSec, okPerSec, max_location, cutOff, elapsed, stop, mainVars>>

PrintLine(t, s, line, next) ==
  /\ At(t, line) /\ Goto(t, next)
  /\ printed' = printed \union {s - 1} /\ last_sec' = s
  /\ UNCHANGED <<counts, sec, perSec, okPerSec, max_location, cutOff, elapsed, stop, mainVars>>

\* if (sec > stats->max_location), and then the unguarded assignment.
CheckMax(t, from, set, next) ==
  /\ At(t, from) /\ Goto(t, IF sec[t] > max_location THEN set ELSE next)
  /\ UNCHANGED <<counts, sec, shared, elapsed, stop, mainVars>>

CutOffBy(end) == {s \in cutOff : s > end} \union (end + 1 .. max_location)
\* Variant: the chart ends with the second that has ended.
SetMaxToEnded(t, set, next) ==
  /\ At(t, set) /\ Goto(t, next)
  /\ max_location' = sec[t] - 1 /\ cutOff' = CutOffBy(sec[t] - 1)
  /\ UNCHANGED <<counts, sec, perSec, okPerSec, last_sec, printed, elapsed, stop, mainVars>>

SetMax(t, set, next) ==
  /\ At(t, set) /\ Goto(t, next)
  /\ max_location' = sec[t] /\ cutOff' = CutOffBy(sec[t])
  /\ UNCHANGED <<counts, sec, perSec, okPerSec, last_sec, printed, elapsed, stop, mainVars>>

CheckStop(t) ==
  /\ At(t, "checkStop") /\ Goto(t, IF stop THEN "lastPrint" ELSE "loop")
  /\ UNCHANGED <<counts, sec, shared, elapsed, stop, mainVars>>

Flush(t) ==
  \/ RecordRate(t) \/ AddSuccess(t) \/ AddRequests(t) \/ NothingToAdd(t)
  \/ CheckMax(t, "seenBySuccess", "setBySuccess", "addRequests")
  \/ SetMax(t, "setBySuccess", "addRequests")
  \/ CheckPrint(t, sec[t], "print", "printLine", "seenByRequests")
  \/ PrintLine(t, sec[t], "printLine", "seenByRequests")
  \/ CheckMax(t, "seenByRequests", "setByRequests", "checkStop")
  \/ SetMax(t, "setByRequests", "checkStop")
  \/ CheckStop(t)
  \/ CheckPrint(t, sec[t] + 1, "lastPrint", "lastLine", "exited")
  \/ PrintLine(t, sec[t] + 1, "lastLine", "exited")

(***************************************************************************)
(* main, the signal and the clock.                                         *)
(***************************************************************************)
\* pthread_create, which may fail: then main returns, and the process ends.
Create(t) ==
  /\ main = "create" /\ At(t, "none")
  /\ \/ Goto(t, "wait") /\ UNCHANGED main
     \/ pc' = [u \in Threads |-> "killed"] /\ main' = "exit"
  /\ UNCHANGED <<counts, sec, shared, elapsed, stop, joined, total,
                 thread_concurrency, collector>>

\* sigaction; until now SIGINT was ignored.
InstallHandler ==
  /\ main = "create" /\ main' = "handler" /\ \A t \in Threads : At(t, "wait")
  /\ UNCHANGED <<counts, pc, sec, shared, elapsed, stop, joined, total,
                 thread_concurrency, collector>>

\* start_thread_time and the flag are set, and main sleeps.
StartTogether ==
  /\ main = "handler" /\ main' = "sleep" /\ thread_concurrency' = TRUE
  /\ UNCHANGED <<counts, pc, sec, shared, elapsed, stop, joined, total, collector>>

\* thread_main waits for the flag.  Variant: it gives up when told to stop.
EnterLoopUnlessStopped(t) ==
  /\ At(t, "wait") /\ thread_concurrency /\ ~stop /\ Goto(t, "loop")
  /\ UNCHANGED <<counts, sec, shared, elapsed, stop, mainVars>>
EnterLoop(t) ==
  /\ At(t, "wait") /\ thread_concurrency /\ Goto(t, "loop")
  /\ UNCHANGED <<counts, sec, shared, elapsed, stop, mainVars>>

\* The handler; main's sleep may be cut short by it or may not have begun.
SigInt ==
  /\ main \in {"handler", "sleep"} /\ stop' = TRUE
  /\ main' \in {main} \union (IF main = "sleep" THEN {"join"} ELSE {})
  /\ UNCHANGED <<counts, pc, sec, shared, elapsed, joined, total,
                 thread_concurrency, collector>>

Wake ==
  /\ main = "sleep" /\ elapsed >= Duration
  /\ stop' = TRUE /\ main' = "join"
  /\ UNCHANGED <<counts, pc, sec, shared, elapsed, joined, total,
                 thread_concurrency, collector>>

Join(t) ==
  /\ main = "join" /\ t \notin joined /\ At(t, "exited")
  /\ joined' = joined \union {t} /\ total' = total + complete[t]
  /\ main' = IF joined' = Threads THEN "report" ELSE "join"
  /\ UNCHANGED <<counts, pc, sec, shared, elapsed, stop, thread_concurrency, collector>>

\* stop_collecting, after the report of the run itself.
StopCollecting ==
  /\ main = "report" /\ main' = "exit"
  /\ collector' = IF collector = "on" THEN "collected" ELSE collector
  /\ UNCHANGED <<counts, pc, sec, shared, elapsed, stop, joined, total, thread_concurrency>>

Tick ==
  /\ thread_concurrency /\ elapsed <= Duration /\ elapsed' = elapsed + 1
  /\ UNCHANGED <<counts, pc, sec, shared, stop, mainVars>>

Next ==
  \/ \E t \in Threads : \/ Create(t) \/ EnterLoop(t) \/ Flush(t) \/ Join(t)
                        \/ \E ok \in BOOLEAN : Response(t, ok)
  \/ InstallHandler \/ StartTogether \/ SigInt \/ Wake \/ StopCollecting \/ Tick

Spec == Init /\ [][Next]_vars

\* The 50 ms timer of every thread keeps firing, the clock runs, main runs.
Fairness ==
  /\ \A t \in Threads : /\ WF_vars(EnterLoop(t)) /\ WF_vars(Flush(t))
                        /\ WF_vars(Join(t)) /\ WF_vars(Create(t))
  /\ WF_vars(InstallHandler) /\ WF_vars(StartTogether) /\ WF_vars(Wake)
  /\ WF_vars(StopCollecting) /\ WF_vars(Tick)

FairSpec == Spec /\ Fairness

-----------------------------------------------------------------------------
Places == {"none", "wait", "loop", "addSuccess", "seenBySuccess", "setBySuccess",
           "addRequests", "print", "printLine", "seenByRequests", "setByRequests",
           "checkStop", "lastPrint", "lastLine", "exited", "killed"}

\* The counters keep their types; the slots of stats->requests and success are
\* only indexed inside the run.
TypeOK ==
  /\ complete \in [Threads -> 0 .. MaxResponses]
  /\ requests \in [Threads -> 0 .. MaxResponses] /\ succ \in [Threads -> 0 .. MaxResponses]
  /\ sec \in [Threads -> Seconds]
  /\ perSec \in [Seconds -> Nat] /\ okPerSec \in [Seconds -> Nat]
  /\ max_location \in Seconds /\ last_sec \in 0 .. Duration /\ printed \subseteq Seconds
  /\ elapsed \in 0 .. Duration + 1 /\ stop \in BOOLEAN /\ cutOff \subseteq Seconds
  /\ main \in {"create", "handler", "sleep", "join", "report", "exit"} /\ joined \subseteq Threads /\ total \in Nat
  /\ pc \in [Threads -> Places]

\* The real-time output shows a second only after it, or the run, has ended.
PrintsFinishedSeconds == \A s \in printed : s < elapsed \/ stop

\* What a thread that has ended counted is in the seconds: none of its responses
\* is left in the counters that it flushes.
NothingIsLeft == main = "report" => \A t \in Threads : requests[t] = 0 /\ succ[t] = 0

\* When main reports, all slots of stats->requests add up to the total it prints:
\* no response is left in a thread's unflushed counters, and none was flushed twice.
\* The successes of a flush go to the second of its requests: no second has more.
\* The chart shows the slots up to max_location, and a slot beyond that holds a
\* response only if one thread has overwritten the later second of another.
AllCounted ==
  main = "report" => /\ SumFunction(perSec) = total
                     /\ \A s \in Seconds : okPerSec[s] <= perSec[s]
                     /\ \A s \in Seconds : perSec[s] > 0 => s <= max_location \/ s \in cutOff

=============================================================================
