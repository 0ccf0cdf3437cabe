--------------------------- MODULE RateStatsProofs ---------------------------
(***************************************************************************)
(* Type correctness of RateStats, what the real-time output shows, what is *)
(* flushed, that no response is missing from the slots or in them twice    *)
(* when main reports, and which of them the chart may leave out, for every *)
(* finite set of threads and duration.                                     *)
(***************************************************************************)
EXTENDS RateStats, SumTheorems

USE RateAssumption

\* What a thread has not flushed is among what it has counted.
Within == \A t \in Threads : requests[t] <= complete[t] /\ succ[t] <= complete[t]

\* The second a thread works on has begun; the last line is for a run that ends.
Begun == /\ \A t \in Threads : sec[t] <= elapsed
         /\ \A t \in Threads : pc[t] \in {"lastPrint", "lastLine"} => stop
         /\ \A t \in Threads : pc[t] = "printLine" => sec[t] > 0

\* A thread that has passed its flush of a counter has nothing left in it, up to
\* its next response; main joins those that have ended and waits for all.
AfterSuccess == {"seenBySuccess", "setBySuccess", "addRequests"}
AfterRequests == {"print", "printLine", "seenByRequests", "setByRequests",
                  "checkStop", "lastPrint", "lastLine", "exited"}
Flushed == /\ \A t \in Threads : pc[t] \in AfterSuccess => succ[t] = 0
           /\ \A t \in Threads : pc[t] \in AfterRequests => requests[t] = 0 /\ succ[t] = 0
           /\ \A t \in joined : pc[t] = "exited"
           /\ main = "create" => joined = {}
           /\ main = "report" => joined = Threads

-----------------------------------------------------------------------------
LEMMA SecondInRun ==
  ASSUME TypeOK PROVE Second \in Seconds /\ Second <= elapsed
BY DEF TypeOK, Second, Seconds

\* A thread moves, the others stay where they are.
LEMMA Moved ==
  ASSUME pc \in [Threads -> Places], NEW t \in Threads, NEW l \in Places, Goto(t, l)
  PROVE  /\ pc' \in [Threads -> Places] /\ pc'[t] = l
         /\ \A u \in Threads : u # t => pc'[u] = pc[u]
BY DEF Goto

\* A second that was in the chart or cut off is in the chart that ends there, or cut off.
LEMMA CutOffFits ==
  ASSUME TypeOK, NEW end \in Seconds
  PROVE  /\ CutOffBy(end) \subseteq Seconds
         /\ \A s \in Seconds : s <= max_location \/ s \in cutOff => s <= end \/ s \in CutOffBy(end)
<1>1. cutOff \subseteq Seconds /\ max_location \in 0 .. Duration - 1 /\ Seconds = 0 .. Duration - 1
  BY DEF TypeOK, Seconds
<1>2. end + 1 .. max_location \subseteq Seconds
  BY <1>1
<1>3. \A s \in Seconds : s \in cutOff /\ s > end => s \in CutOffBy(end)
  BY DEF CutOffBy
<1>4. \A s \in Seconds : s <= max_location /\ s > end => s \in CutOffBy(end)
  BY <1>1 DEF CutOffBy
<1>5. \A s \in Seconds : s > end \/ s <= end
  BY <1>1
<1> QED
  BY <1>1, <1>2, <1>3, <1>4, <1>5 DEF CutOffBy

\* Each instruction of a thread keeps the types.
LEMMA FlushTyped ==
  ASSUME TypeOK, Within, Begun, NEW t \in Threads, Flush(t)
  PROVE  TypeOK' /\ Within'
<1> USE DEF counts, shared, mainVars
<1>a. pc \in [Threads -> Places] BY DEF TypeOK
<1>b. pc' \in [Threads -> Places]
  <2>1. \E l \in Places : Goto(t, l)
    <3>1. /\ RecordRate(t) => Goto(t, "addSuccess") \/ Goto(t, "addRequests")
          /\ AddSuccess(t) => Goto(t, "seenBySuccess")
          /\ AddRequests(t) => Goto(t, "print")
          /\ NothingToAdd(t) => Goto(t, "checkStop")
          /\ CheckStop(t) => Goto(t, "lastPrint") \/ Goto(t, "loop")
      BY DEF RecordRate, AddSuccess, AddRequests, NothingToAdd, CheckStop
    <3>2. \A s, from, line, next : /\ CheckPrint(t, s, from, line, next) => Goto(t, line) \/ Goto(t, next)
                                   /\ CheckMax(t, from, line, next) => Goto(t, line) \/ Goto(t, next)
                                   /\ PrintLine(t, s, line, next) => Goto(t, next)
                                   /\ SetMax(t, line, next) => Goto(t, next)
      BY DEF CheckPrint, CheckMax, PrintLine, SetMax
    <3>3. \A l \in Places : Goto(t, l) => \E k \in Places : Goto(t, k) OBVIOUS
    <3> QED BY <3>1, <3>2, <3>3 DEF Flush, Places
  <2> QED BY <1>a, <2>1, Moved
<1>c. /\ complete \in [Threads -> 0 .. MaxResponses]
      /\ requests \in [Threads -> 0 .. MaxResponses] /\ succ \in [Threads -> 0 .. MaxResponses]
      /\ perSec \in [Seconds -> Nat] /\ okPerSec \in [Seconds -> Nat] /\ sec[t] \in Seconds
  BY DEF TypeOK
<1>1. CASE RecordRate(t)
  <2>1. sec' \in [Threads -> Seconds] BY <1>1, SecondInRun DEF RecordRate, TypeOK
  <2> QED BY <1>1, <1>b, <2>1 DEF RecordRate, TypeOK, Within
<1>2. CASE AddSuccess(t)
  <2>1. okPerSec' \in [Seconds -> Nat] BY <1>2, <1>c DEF AddSuccess
  <2>2. succ' \in [Threads -> 0 .. MaxResponses] /\ Within'
    BY <1>2, <1>c DEF AddSuccess, Within
  <2> QED BY <1>2, <1>b, <2>1, <2>2 DEF AddSuccess, TypeOK
<1>3. CASE AddRequests(t)
  <2>1. perSec' \in [Seconds -> Nat] BY <1>3, <1>c DEF AddRequests
  <2>2. requests' \in [Threads -> 0 .. MaxResponses] /\ Within'
    BY <1>3, <1>c DEF AddRequests, Within
  <2> QED BY <1>3, <1>b, <2>1, <2>2 DEF AddRequests, TypeOK
<1>4. CASE NothingToAdd(t) \/ CheckStop(t)
  BY <1>4, <1>b DEF NothingToAdd, CheckStop, TypeOK, Within
<1>5. ASSUME NEW s, NEW from, NEW line, NEW next, CheckPrint(t, s, from, line, next)
      PROVE  TypeOK' /\ Within'
  BY <1>5, <1>b DEF CheckPrint, TypeOK, Within
<1>6. ASSUME NEW s \in 1 .. Duration, NEW line, NEW next, PrintLine(t, s, line, next)
      PROVE  TypeOK' /\ Within'
  <2>1. printed' \subseteq Seconds /\ last_sec' \in 0 .. Duration
    BY <1>6 DEF PrintLine, TypeOK, Seconds
  <2> QED BY <1>6, <1>b, <2>1 DEF PrintLine, TypeOK, Within
<1>7. ASSUME NEW from, NEW set, NEW next, CheckMax(t, from, set, next)
      PROVE  TypeOK' /\ Within'
  BY <1>7, <1>b DEF CheckMax, TypeOK, Within
<1>8. ASSUME NEW set, NEW next, SetMax(t, set, next)
      PROVE  TypeOK' /\ Within'
  <2>1. max_location' \in Seconds /\ cutOff' \subseteq Seconds
    BY <1>8, <1>c, CutOffFits DEF SetMax
  <2> QED BY <1>8, <1>b, <1>c, <2>1 DEF SetMax, TypeOK, Within
<1>9. /\ PrintLine(t, sec[t], "printLine", "seenByRequests") => sec[t] \in 1 .. Duration
      /\ sec[t] + 1 \in 1 .. Duration
  <2>1. PICK n \in 0 .. Duration - 1 : n = sec[t]
    BY <1>c DEF Seconds
  <2>2. n + 1 \in 1 .. Duration /\ (n > 0 => n \in 1 .. Duration)
    OBVIOUS
  <2>3. PrintLine(t, sec[t], "printLine", "seenByRequests") => sec[t] > 0
    BY DEF PrintLine, At, Begun
  <2> QED BY <2>1, <2>2, <2>3
<1>10. CASE \/ CheckPrint(t, sec[t], "print", "printLine", "seenByRequests")
            \/ CheckPrint(t, sec[t] + 1, "lastPrint", "lastLine", "exited")
  BY <1>5, <1>10
<1>11. CASE \/ PrintLine(t, sec[t], "printLine", "seenByRequests")
            \/ PrintLine(t, sec[t] + 1, "lastLine", "exited")
  BY <1>6, <1>9, <1>11
<1>12. CASE \/ CheckMax(t, "seenBySuccess", "setBySuccess", "addRequests")
            \/ CheckMax(t, "seenByRequests", "setByRequests", "checkStop")
  BY <1>7, <1>12
<1>13. CASE \/ SetMax(t, "setBySuccess", "addRequests")
            \/ SetMax(t, "setByRequests", "checkStop")
  BY <1>8, <1>13
<1> QED BY <1>1, <1>2, <1>3, <1>4, <1>10, <1>11, <1>12, <1>13 DEF Flush

LEMMA FlushBegun ==
  ASSUME TypeOK, Begun, NEW t \in Threads, Flush(t)
  PROVE  Begun'
<1> USE DEF At, Goto, counts, shared, mainVars
<1>1. CASE RecordRate(t) BY <1>1, SecondInRun DEF RecordRate, TypeOK, Begun
<1>2. CASE AddSuccess(t) \/ AddRequests(t) \/ NothingToAdd(t) \/ CheckStop(t)
  BY <1>2 DEF AddSuccess, AddRequests, NothingToAdd, CheckStop, TypeOK, Begun
<1>3. CASE \/ CheckMax(t, "seenBySuccess", "setBySuccess", "addRequests")
           \/ SetMax(t, "setBySuccess", "addRequests")
           \/ CheckMax(t, "seenByRequests", "setByRequests", "checkStop")
           \/ SetMax(t, "setByRequests", "checkStop")
  <2>1. /\ sec' = sec /\ elapsed' = elapsed /\ stop' = stop
        /\ \E l \in {"setBySuccess", "addRequests", "setByRequests", "checkStop"} :
             pc' = [pc EXCEPT ![t] = l]
    BY <1>3 DEF CheckMax, SetMax
  <2> QED BY <2>1 DEF TypeOK, Begun
<1>4. CASE CheckPrint(t, sec[t], "print", "printLine", "seenByRequests")
  <2>1. /\ sec' = sec /\ elapsed' = elapsed /\ stop' = stop
        /\ pc' = [pc EXCEPT ![t] = IF sec[t] > last_sec THEN "printLine" ELSE "seenByRequests"]
    BY <1>4 DEF CheckPrint
  <2>2. sec[t] > last_sec => sec[t] > 0
    BY DEF TypeOK, Seconds
  <2> QED BY <2>1, <2>2 DEF TypeOK, Begun
<1>5. CASE CheckPrint(t, sec[t] + 1, "lastPrint", "lastLine", "exited")
  BY <1>5 DEF CheckPrint, TypeOK, Begun
<1>6. CASE \/ PrintLine(t, sec[t], "printLine", "seenByRequests")
           \/ PrintLine(t, sec[t] + 1, "lastLine", "exited")
  BY <1>6 DEF PrintLine, TypeOK, Begun
<1> QED BY <1>1, <1>2, <1>3, <1>4, <1>5, <1>6 DEF Flush

LEMMA FlushFlushed ==
  ASSUME TypeOK, Flushed, NEW t \in Threads, Flush(t)
  PROVE  Flushed'
<1> USE DEF At, Goto, counts, shared, mainVars, AfterSuccess, AfterRequests
<1>1. CASE RecordRate(t) BY <1>1 DEF RecordRate, TypeOK, Flushed
<1>2. CASE AddSuccess(t) BY <1>2 DEF AddSuccess, TypeOK, Flushed
<1>3. CASE AddRequests(t) BY <1>3 DEF AddRequests, TypeOK, Flushed
<1>4. CASE NothingToAdd(t) \/ CheckStop(t)
  BY <1>4 DEF NothingToAdd, CheckStop, TypeOK, Flushed
<1>5. CASE \/ CheckMax(t, "seenBySuccess", "setBySuccess", "addRequests")
           \/ SetMax(t, "setBySuccess", "addRequests")
           \/ CheckMax(t, "seenByRequests", "setByRequests", "checkStop")
           \/ SetMax(t, "setByRequests", "checkStop")
  BY <1>5 DEF CheckMax, SetMax, TypeOK, Flushed
<1>6. CASE \/ CheckPrint(t, sec[t], "print", "printLine", "seenByRequests")
           \/ CheckPrint(t, sec[t] + 1, "lastPrint", "lastLine", "exited")
  BY <1>6 DEF CheckPrint, TypeOK, Flushed
<1>7. CASE \/ PrintLine(t, sec[t], "printLine", "seenByRequests")
           \/ PrintLine(t, sec[t] + 1, "lastLine", "exited")
  BY <1>7 DEF PrintLine, TypeOK, Flushed
<1> QED BY <1>1, <1>2, <1>3, <1>4, <1>5, <1>6, <1>7 DEF Flush

LEMMA FlushFinished ==
  ASSUME TypeOK, Begun, PrintsFinishedSeconds, NEW t \in Threads, Flush(t)
  PROVE  PrintsFinishedSeconds'
<1> USE DEF At, Goto, counts, shared, mainVars
<1>1. CASE printed' = printed /\ elapsed' = elapsed /\ stop' = stop
  BY <1>1 DEF PrintsFinishedSeconds
<1>2. CASE PrintLine(t, sec[t], "printLine", "seenByRequests")
  <2>1. printed' = printed \union {sec[t] - 1} /\ elapsed' = elapsed /\ stop' = stop
    BY <1>2 DEF PrintLine
  <2>2. sec[t] - 1 < elapsed
    BY DEF TypeOK, Begun, Seconds
  <2> QED BY <2>1, <2>2 DEF PrintsFinishedSeconds
<1>3. CASE PrintLine(t, sec[t] + 1, "lastLine", "exited")
  BY <1>3 DEF PrintLine, TypeOK, Begun, PrintsFinishedSeconds, Seconds
<1> QED BY <1>1, <1>2, <1>3 DEF Flush, RecordRate, AddSuccess, AddRequests, NothingToAdd,
                                CheckPrint, CheckMax, SetMax, CheckStop

-----------------------------------------------------------------------------
RateInv == TypeOK /\ Within /\ Begun /\ Flushed /\ PrintsFinishedSeconds

LEMMA InitInv == Init => RateInv
<1> SUFFICES ASSUME Init PROVE RateInv OBVIOUS
<1>1. TypeOK
  <2>1. 0 \in Seconds BY DEF Seconds
  <2>2. "none" \in Places BY DEF Places
  <2>3. /\ complete \in [Threads -> 0 .. MaxResponses] /\ requests \in [Threads -> 0 .. MaxResponses]
        /\ succ \in [Threads -> 0 .. MaxResponses] /\ sec \in [Threads -> Seconds]
        /\ perSec \in [Seconds -> Nat] /\ okPerSec \in [Seconds -> Nat] /\ pc \in [Threads -> Places]
    BY <2>1, <2>2 DEF Init
  <2>4. elapsed \in 0 .. Duration + 1 /\ last_sec \in 0 .. Duration BY DEF Init
  <2> QED BY <2>1, <2>3, <2>4 DEF Init, TypeOK
<1>2. Within /\ PrintsFinishedSeconds BY DEF Init, Within, PrintsFinishedSeconds
<1>3. Begun /\ Flushed BY DEF Init, Begun, Flushed, AfterSuccess, AfterRequests
<1> QED BY <1>1, <1>2, <1>3 DEF RateInv

\* What main does leaves the counters and the seconds as they are.
LEMMA MainKeeps ==
  ASSUME RateInv, UNCHANGED <<counts, sec, shared, elapsed>>, stop' \in BOOLEAN, stop => stop'
  PROVE  /\ Within' /\ PrintsFinishedSeconds'
         /\ pc' \in [Threads -> Places] /\ joined' \subseteq Threads /\ total' \in Nat
              /\ main' \in {"create", "handler", "sleep", "join", "report", "exit"} => TypeOK'
<1>1. Within' BY DEF RateInv, Within, counts
<1>2. PrintsFinishedSeconds' BY DEF RateInv, PrintsFinishedSeconds, shared
<1> QED BY <1>1, <1>2 DEF RateInv, TypeOK, counts, shared

LEMMA NextInv == RateInv /\ [Next]_vars => RateInv'
<1> SUFFICES ASSUME RateInv, [Next]_vars PROVE RateInv' OBVIOUS
<1> USE DEF RateInv
<1>a. /\ pc \in [Threads -> Places] /\ joined \subseteq Threads /\ total \in Nat
      /\ main \in {"create", "handler", "sleep", "join", "report", "exit"} /\ stop \in BOOLEAN
      /\ complete \in [Threads -> 0 .. MaxResponses]
      /\ requests \in [Threads -> 0 .. MaxResponses] /\ succ \in [Threads -> 0 .. MaxResponses]
  BY DEF TypeOK
<1>1. ASSUME NEW t \in Threads, Flush(t) PROVE RateInv'
  BY <1>1, FlushTyped, FlushBegun, FlushFlushed, FlushFinished
<1>2. ASSUME NEW t \in Threads, NEW ok \in BOOLEAN, Response(t, ok) PROVE RateInv'
  <2> USE DEF Response, At, shared, mainVars
  <2>1. /\ complete' \in [Threads -> 0 .. MaxResponses]
        /\ requests' \in [Threads -> 0 .. MaxResponses]
        /\ succ' \in [Threads -> 0 .. MaxResponses] /\ Within'
    BY <1>2, <1>a DEF Within
  <2>2. TypeOK' BY <1>2, <2>1 DEF TypeOK
  <2>3. Begun' /\ PrintsFinishedSeconds' BY <1>2 DEF Begun, PrintsFinishedSeconds
  <2>4. Flushed' BY <1>2, <1>a DEF Flushed, AfterSuccess, AfterRequests
  <2> QED BY <2>1, <2>2, <2>3, <2>4
<1>3. ASSUME NEW t \in Threads, Create(t) PROVE RateInv'
  <2> USE DEF Create, At, Goto
  <2>1. pc' \in [Threads -> Places] BY <1>3, <1>a DEF Places
  <2>2. Within' /\ PrintsFinishedSeconds' /\ TypeOK' BY <1>3, <1>a, <2>1, MainKeeps
  <2>3. Begun' BY <1>3, <1>a DEF Begun, shared
  <2>4. Flushed' BY <1>3, <1>a DEF Flushed, AfterSuccess, AfterRequests, counts
  <2> QED BY <2>2, <2>3, <2>4
<1>4. ASSUME NEW t \in Threads, EnterLoop(t) PROVE RateInv'
  <2> USE DEF EnterLoop, At, Goto, mainVars
  <2>1. pc' \in [Threads -> Places] BY <1>4, <1>a DEF Places
  <2>2. Within' /\ PrintsFinishedSeconds' /\ TypeOK' BY <1>4, <1>a, <2>1, MainKeeps
  <2>3. Begun' BY <1>4, <1>a DEF Begun, shared
  <2>4. Flushed' BY <1>4, <1>a DEF Flushed, AfterSuccess, AfterRequests, counts
  <2> QED BY <2>2, <2>3, <2>4
<1>5. ASSUME NEW t \in Threads, Join(t) PROVE RateInv'
  <2> USE DEF Join, At
  <2>1. complete[t] \in Nat BY <1>5, <1>a
  <2>2. Within' /\ PrintsFinishedSeconds' /\ TypeOK' BY <1>5, <1>a, <2>1, MainKeeps
  <2>3. Begun' BY <1>5 DEF Begun, shared
  <2>4. Flushed' BY <1>5, <1>a DEF Flushed, AfterSuccess, AfterRequests, counts
  <2> QED BY <2>2, <2>3, <2>4
<1>6. CASE InstallHandler \/ StartTogether \/ SigInt \/ Wake \/ StopCollecting
  <2> USE DEF InstallHandler, StartTogether, SigInt, Wake, StopCollecting
  <2>1. /\ UNCHANGED <<counts, sec, shared, elapsed>>
        /\ pc' = pc /\ joined' = joined /\ total' = total
    BY <1>6, Zenon
  <2>m. main' \in {"handler", "sleep", "join", "exit"} BY <1>6
  <2>s. stop' = stop \/ stop' = TRUE BY <1>6
  <2>2. Within' /\ PrintsFinishedSeconds' /\ TypeOK'
    <3>1. pc' \in [Threads -> Places] /\ joined' \subseteq Threads /\ total' \in Nat
      BY <1>a, <2>1
    <3>2. stop' \in BOOLEAN /\ (stop => stop') BY <1>a, <2>s
    <3> QED BY <2>1, <2>m, <3>1, <3>2, MainKeeps
  <2>3. sec' = sec /\ elapsed' = elapsed /\ requests' = requests /\ succ' = succ
    BY <2>1 DEF counts
  <2>4. Begun' BY <2>1, <2>s, <2>3 DEF Begun
  <2>5. Flushed'
    <3> HIDE DEF InstallHandler, StartTogether, SigInt, Wake, StopCollecting
    <3> QED BY <2>1, <2>m, <2>3 DEF Flushed
  <2> QED BY <2>2, <2>4, <2>5
<1>7. CASE Tick
  <2> USE DEF Tick, counts, shared, mainVars
  <2>1. TypeOK' /\ Within' BY <1>7 DEF TypeOK, Within
  <2>2. PrintsFinishedSeconds' BY <1>7 DEF PrintsFinishedSeconds, TypeOK, Seconds
  <2>3. Begun' BY <1>7 DEF Begun, TypeOK, Seconds
  <2>4. Flushed' BY <1>7 DEF Flushed, AfterSuccess, AfterRequests
  <2> QED BY <2>1, <2>2, <2>3, <2>4
<1>8. CASE UNCHANGED vars
  BY <1>8 DEF vars, counts, shared, mainVars, TypeOK, Within, Begun, Flushed, PrintsFinishedSeconds
<1> QED BY <1>1, <1>2, <1>3, <1>4, <1>5, <1>6, <1>7, <1>8 DEF Next

LEMMA Inductive == Spec => []RateInv
BY InitInv, NextInv, PTL DEF Spec

\* Every counter keeps its type: record_rate indexes the arrays inside the run,
\* for every duration and number of threads.
THEOREM Typing == Spec => []TypeOK
<1>1. RateInv => TypeOK BY DEF RateInv
<1> QED BY <1>1, Inductive, PTL

\* stats_output_request_num never shows a second that can still grow, although
\* the threads look at last_sec and set it in separate steps.
THEOREM FinishedSeconds == Spec => []PrintsFinishedSeconds
<1>1. RateInv => PrintsFinishedSeconds BY DEF RateInv
<1> QED BY <1>1, Inductive, PTL

\* Wherever the flag meets a thread, it has flushed all that it counted when main
\* has joined it and reports.
THEOREM AllFlushed == Spec => []NothingIsLeft
<1>1. RateInv => NothingIsLeft BY DEF RateInv, Flushed, AfterRequests, NothingIsLeft
<1> QED BY <1>1, Inductive, PTL

-----------------------------------------------------------------------------
(* Where the responses are: in the seconds, or with a thread that has not  *)
(* flushed them; those of a flush whose successes are in the second of s   *)
(* come to it next.                                                        *)

Adding(s) == {t \in Threads : sec[t] = s /\ pc[t] \in AfterSuccess}
Booked == SumFunctionOnSet(perSec, Seconds) + SumFunctionOnSet(requests, Threads) = SumFunctionOnSet(complete, Threads)
Succeeds == \A s \in Seconds : okPerSec[s] <= perSec[s] + SumFunctionOnSet(requests, Adding(s))
Sums == /\ \A t \in Threads : succ[t] <= requests[t]
        /\ Booked /\ Succeeds
        /\ total = SumFunctionOnSet(complete, joined)
\* A second with responses is in the chart, or cut off, or a thread is about to compare
\* it with max_location.
Noting(s) == {t \in Threads : sec[t] = s /\ pc[t] \in {"print", "printLine", "seenByRequests",
                                                     "setByRequests"}}
Charted == \A s \in Seconds :
             perSec[s] > 0 => s <= max_location \/ s \in cutOff \/ Noting(s) # {}
\* No thread is past its start while others are created.
Starting == /\ main \in {"create", "handler"} => ~thread_concurrency
            /\ main = "create" => \A t \in Threads : pc[t] \in {"none", "wait"}

\* What is summed is finite.
LEMMA SumTypes ==
  ASSUME RateInv
  PROVE  /\ IsFiniteSet(Threads) /\ IsFiniteSet(Seconds) /\ IsFiniteSet(joined)
         /\ \A s : IsFiniteSet(Adding(s)) /\ Adding(s) \subseteq Threads
         /\ \A t \in Threads : requests[t] \in Nat /\ complete[t] \in Nat /\ succ[t] \in Nat
         /\ \A s \in Seconds : perSec[s] \in Nat /\ okPerSec[s] \in Nat
         /\ joined \subseteq Threads /\ total \in Nat
         /\ \A t \in Threads : sec[t] \in Seconds /\ pc[t] \in Places
<1>1. IsFiniteSet(Threads) /\ IsFiniteSet(Seconds)
  BY FS_Interval DEF Seconds
<1>2. joined \subseteq Threads /\ total \in Nat
  BY DEF RateInv, TypeOK
<1>3. \A s : Adding(s) \subseteq Threads
  BY DEF Adding
<1>4. \A s : IsFiniteSet(Adding(s))
  BY <1>1, <1>3, FS_Subset
<1>5. IsFiniteSet(joined)
  BY <1>1, <1>2, FS_Subset
<1>6. /\ \A t \in Threads : requests[t] \in Nat /\ complete[t] \in Nat /\ succ[t] \in Nat
      /\ \A s \in Seconds : perSec[s] \in Nat /\ okPerSec[s] \in Nat
      /\ \A t \in Threads : sec[t] \in Seconds /\ pc[t] \in Places
  BY DEF RateInv, TypeOK
<1> QED
  BY <1>1, <1>2, <1>3, <1>4, <1>5, <1>6

\* A step that counts and flushes nothing.
LEMMA SumsStay ==
  ASSUME RateInv, RateInv', Sums, UNCHANGED <<counts, perSec, okPerSec, joined, total>>,
         \A s \in Seconds : \A t \in Adding(s) : t \in Adding(s)' \/ requests[t] = 0
  PROVE  Sums'
<1>1. /\ complete' = complete /\ requests' = requests /\ succ' = succ /\ perSec' = perSec
      /\ okPerSec' = okPerSec /\ joined' = joined /\ total' = total
  BY DEF counts
<1>2. ASSUME NEW s \in Seconds
      PROVE  okPerSec'[s] <= perSec'[s] + SumFunctionOnSet(requests', Adding(s)')
  <2>1. PICK S, T : S = Adding(s) /\ T = Adding(s)'
    OBVIOUS
  <2>2. S \subseteq Threads /\ T \subseteq Threads
    BY <2>1 DEF Adding
  <2>6. IsFiniteSet(S) /\ IsFiniteSet(T)
    BY <2>2, SumTypes, FS_Subset
  <2>3. SumFunctionOnSet(requests, S) <= SumFunctionOnSet(requests, T) /\ SumFunctionOnSet(requests, S) \in Nat
        /\ SumFunctionOnSet(requests, T) \in Nat
    <3>1. \A u \in T : requests[u] \in Nat
      BY <2>2, SumTypes
    <3>2. \A u \in S : u \in T \/ requests[u] = 0
      BY <2>1
    <3> QED
      BY <2>6, <3>1, <3>2, SumMore
  <2>4. okPerSec[s] <= perSec[s] + SumFunctionOnSet(requests, S) /\ okPerSec[s] \in Nat /\ perSec[s] \in Nat
    BY <2>1, SumTypes DEF Sums, Succeeds
  <2>5. okPerSec[s] <= perSec[s] + SumFunctionOnSet(requests, T)
    BY <2>3, <2>4
  <2> QED
    BY <1>1, <2>1, <2>5
<1> QED
  BY <1>1, <1>2 DEF Sums, Booked, Succeeds
-----------------------------------------------------------------------------
\* A thread that moves stays where its requests are awaited, or has none.
LEMMA AddingStays ==
  ASSUME pc \in [Threads -> Places], NEW t \in Threads, NEW l, Goto(t, l),
         \A u \in Threads : u # t => sec'[u] = sec[u],
         pc[t] \in AfterSuccess => (l \in AfterSuccess /\ sec'[t] = sec[t]) \/ requests[t] = 0
  PROVE  \A s \in Seconds : \A u \in Adding(s) : u \in Adding(s)' \/ requests[u] = 0
BY DEF Adding, Goto

\* The successes of a flush go to their second, their requests will follow.
LEMMA AddSuccessSums ==
  ASSUME RateInv, RateInv', Sums, NEW t \in Threads, AddSuccess(t)
  PROVE  Sums'
<1>1. /\ complete' = complete /\ requests' = requests /\ perSec' = perSec
      /\ sec' = sec /\ joined' = joined /\ total' = total
  BY DEF AddSuccess, mainVars
<1>2. /\ \A u \in Threads : succ'[u] <= requests'[u]
      /\ \A s \in Seconds : s # sec[t] => okPerSec'[s] = okPerSec[s]
      /\ okPerSec'[sec[t]] = okPerSec[sec[t]] + succ[t]
  BY <1>1 DEF AddSuccess, RateInv, TypeOK, Sums
<1>3. pc[t] = "addSuccess" /\ pc' = [pc EXCEPT ![t] = "seenBySuccess"]
  BY DEF AddSuccess, At, Goto
<1>a. PICK r \in Seconds : r = sec[t]
  BY SumTypes
<1>4. ASSUME NEW s \in Seconds, s # r
      PROVE  okPerSec'[s] <= perSec'[s] + SumFunctionOnSet(requests', Adding(s)')
  <2>1. Adding(s)' = Adding(s)
    BY <1>a, <1>1, <1>3, <1>4 DEF Adding, AfterSuccess, RateInv, TypeOK
  <2> QED
    BY <1>a, <1>1, <1>2, <1>4, <2>1 DEF Sums, Succeeds
<1>5. okPerSec'[r] <= perSec'[r] + SumFunctionOnSet(requests', Adding(r)')
  <2>1. PICK S, T : S = Adding(r) /\ T = Adding(r)'
    OBVIOUS
  <2>2. t \in T /\ T \ {t} = S
    BY <1>a, <1>1, <1>3, <2>1 DEF Adding, AfterSuccess, RateInv, TypeOK
  <2>3. T \subseteq Threads
    BY <2>1 DEF Adding
  <2>4. IsFiniteSet(T) /\ \A u \in T : requests[u] \in Nat
    BY <2>3, SumTypes, FS_Subset
  <2>5. SumFunctionOnSet(requests, T) = SumFunctionOnSet(requests, S) + requests[t] /\ SumFunctionOnSet(requests, S) \in Nat
    BY <2>2, <2>4, SumSplit
  <2>6. /\ okPerSec[r] <= perSec[r] + SumFunctionOnSet(requests, S)
        /\ okPerSec[r] \in Nat /\ perSec[r] \in Nat
    BY <2>1, SumTypes DEF Sums, Succeeds
  <2>7. succ[t] <= requests[t] /\ succ[t] \in Nat /\ requests[t] \in Nat
    BY SumTypes DEF Sums
  <2>8. okPerSec[r] + succ[t] <= perSec[r] + SumFunctionOnSet(requests, T)
    BY <2>5, <2>6, <2>7
  <2> QED
    BY <1>a, <1>1, <1>2, <2>1, <2>8
<1>6. Succeeds'
  <2>1. ASSUME NEW s \in Seconds
        PROVE  okPerSec'[s] <= perSec'[s] + SumFunctionOnSet(requests', Adding(s)')
    BY <1>4, <1>5
  <2> QED
    BY <2>1 DEF Succeeds, Seconds
<1> QED
  BY <1>1, <1>2, <1>6 DEF Sums, Booked

\* The requests of a flush go from the thread to the second.
LEMMA AddRequestsSums ==
  ASSUME RateInv, RateInv', Sums, NEW t \in Threads, AddRequests(t)
  PROVE  Sums'
<1>1. /\ complete' = complete /\ succ' = succ /\ okPerSec' = okPerSec
      /\ sec' = sec /\ joined' = joined /\ total' = total
  BY DEF AddRequests, mainVars
<1>2. /\ \A u \in Threads : u # t => requests'[u] = requests[u]
      /\ requests'[t] = 0
      /\ \A s \in Seconds : s # sec[t] => perSec'[s] = perSec[s]
      /\ perSec'[sec[t]] = perSec[sec[t]] + requests[t]
  BY DEF AddRequests, RateInv, TypeOK
<1>3. pc[t] = "addRequests" /\ pc' = [pc EXCEPT ![t] = "print"] /\ sec[t] \in Seconds
  BY SumTypes DEF AddRequests, At, Goto
<1>4. \A u \in Threads : requests'[u] \in Nat
  BY DEF RateInv, TypeOK
<1>5. \A s \in Seconds : perSec'[s] \in Nat
  BY DEF RateInv, TypeOK
<1>6. Booked'
  <2>1. /\ SumFunctionOnSet(requests', Threads) = SumFunctionOnSet(requests, Threads) - requests[t] + 0
        /\ SumFunctionOnSet(requests, Threads) \in Nat
    BY <1>2, <1>4, SumTypes, SumChanged
  <2>2. /\ SumFunctionOnSet(perSec', Seconds) = SumFunctionOnSet(perSec, Seconds) - perSec[sec[t]] + perSec'[sec[t]]
        /\ SumFunctionOnSet(perSec, Seconds) \in Nat
    BY <1>2, <1>3, <1>5, SumTypes, SumChanged
  <2>3. requests[t] \in Nat /\ perSec[sec[t]] \in Nat
    BY <1>3, SumTypes
  <2>4. SumFunctionOnSet(perSec, Seconds) + SumFunctionOnSet(requests, Threads) = SumFunctionOnSet(complete, Threads)
    BY DEF Sums, Booked
  <2>5. SumFunctionOnSet(perSec', Seconds) + SumFunctionOnSet(requests', Threads) = SumFunctionOnSet(complete, Threads)
    BY <1>2, <2>1, <2>2, <2>3, <2>4
  <2> QED
    BY <1>1, <2>5 DEF Booked, Seconds
<1>7. \A u \in Threads : succ'[u] <= requests'[u]
  <2>1. succ[t] = 0
    BY <1>3 DEF RateInv, Flushed, AfterSuccess
  <2> QED
    BY <1>1, <1>2, <2>1 DEF Sums
<1>a. PICK r \in Seconds : r = sec[t]
  BY <1>3
<1>8. ASSUME NEW s \in Seconds, s # r
      PROVE  okPerSec'[s] <= perSec'[s] + SumFunctionOnSet(requests', Adding(s)')
  <2>1. Adding(s)' = Adding(s)
    BY <1>a, <1>1, <1>3, <1>8 DEF Adding, AfterSuccess, RateInv, TypeOK
  <2>2. \A u \in Adding(s) : requests'[u] = requests[u]
    BY <1>2, <1>a, <1>8, <1>3 DEF Adding
  <2>3. SumFunctionOnSet(requests', Adding(s)) = SumFunctionOnSet(requests, Adding(s))
    <3>1. IsFiniteSet(Adding(s)) /\ \A u \in Adding(s) : requests[u] \in Nat
      BY SumTypes
    <3> QED
      BY <2>2, <3>1, SumSame
  <2> QED
    BY <1>a, <1>1, <1>2, <1>8, <2>1, <2>3 DEF Sums, Succeeds
<1>9. okPerSec'[r] <= perSec'[r] + SumFunctionOnSet(requests', Adding(r)')
  <2>1. PICK S, T : S = Adding(r) /\ T = Adding(r)'
    OBVIOUS
  <2>2. t \in S /\ S \ {t} = T
    BY <1>a, <1>1, <1>3, <2>1 DEF Adding, AfterSuccess, RateInv, TypeOK
  <2>3. S \subseteq Threads
    BY <2>1 DEF Adding
  <2>4. IsFiniteSet(S) /\ \A u \in S : requests[u] \in Nat
    BY <2>3, SumTypes, FS_Subset
  <2>5. SumFunctionOnSet(requests, S) = SumFunctionOnSet(requests, T) + requests[t] /\ SumFunctionOnSet(requests, T) \in Nat
    BY <2>2, <2>4, SumSplit
  <2>6. \A u \in T : requests'[u] = requests[u]
    BY <1>2, <2>2, <2>3
  <2>7. SumFunctionOnSet(requests', T) = SumFunctionOnSet(requests, T)
    <3>1. IsFiniteSet(T) /\ \A u \in T : requests[u] \in Nat
      BY <2>2, <2>4, FS_Subset
    <3> QED
      BY <2>6, <3>1, SumSame
  <2>8. /\ okPerSec[r] <= perSec[r] + SumFunctionOnSet(requests, S)
        /\ perSec[r] \in Nat /\ requests[t] \in Nat /\ okPerSec[r] \in Nat
    BY <1>3, <2>1, SumTypes DEF Sums, Succeeds
  <2>9. okPerSec[r] <= (perSec[r] + requests[t]) + SumFunctionOnSet(requests', T)
    BY <2>5, <2>7, <2>8
  <2> QED
    BY <1>a, <1>1, <1>2, <2>1, <2>9
<1>10. Succeeds'
  <2>1. ASSUME NEW s \in Seconds
        PROVE  okPerSec'[s] <= perSec'[s] + SumFunctionOnSet(requests', Adding(s)')
    BY <1>8, <1>9
  <2> QED
    BY <2>1 DEF Succeeds, Seconds
<1> QED
  BY <1>1, <1>6, <1>7, <1>10 DEF Sums

\* A response is counted, and waits for its flush.
LEMMA ResponseSums ==
  ASSUME RateInv, RateInv', Sums, NEW t \in Threads, NEW ok \in BOOLEAN, Response(t, ok)
  PROVE  Sums'
<1>1. /\ pc' = pc /\ sec' = sec /\ perSec' = perSec /\ okPerSec' = okPerSec
      /\ joined' = joined /\ total' = total
  BY DEF Response, shared, mainVars
<1>2. /\ \A u \in Threads : u # t => requests'[u] = requests[u] /\ complete'[u] = complete[u]
                                     /\ succ'[u] = succ[u]
      /\ requests'[t] = requests[t] + 1 /\ complete'[t] = complete[t] + 1
      /\ succ'[t] = succ[t] \/ succ'[t] = succ[t] + 1
  BY DEF Response, RateInv, TypeOK
<1>3. pc[t] = "loop"
  BY DEF Response, At
<1>4. \A u \in Threads : requests'[u] \in Nat /\ complete'[u] \in Nat
  BY DEF RateInv, TypeOK
<1>5. Booked'
  <2>a. /\ IsFiniteSet(Threads)
        /\ \A u \in Threads : requests[u] \in Nat /\ complete[u] \in Nat
    BY SumTypes
  <2>1. /\ SumFunctionOnSet(requests', Threads) = SumFunctionOnSet(requests, Threads) - requests[t] + requests'[t]
        /\ SumFunctionOnSet(requests, Threads) \in Nat
    BY ONLY <2>a, <1>2, <1>4, t \in Threads, SumChanged
  <2>2. /\ SumFunctionOnSet(complete', Threads) = SumFunctionOnSet(complete, Threads) - complete[t] + complete'[t]
        /\ SumFunctionOnSet(complete, Threads) \in Nat
    BY ONLY <2>a, <1>2, <1>4, t \in Threads, SumChanged
  <2>3. SumFunctionOnSet(perSec, Seconds) \in Nat /\ requests[t] \in Nat /\ complete[t] \in Nat
    BY SumTypes, SumType
  <2>4. SumFunctionOnSet(perSec, Seconds) + SumFunctionOnSet(requests', Threads) = SumFunctionOnSet(complete', Threads)
    BY <1>2, <2>1, <2>2, <2>3 DEF Sums, Booked
  <2> QED
    BY <1>1, <2>4 DEF Booked, Seconds
<1>6. \A u \in Threads : succ'[u] <= requests'[u]
  <2>1. \A u \in Threads : succ[u] <= requests[u] /\ succ[u] \in Nat /\ requests[u] \in Nat
    BY SumTypes DEF Sums
  <2> QED
    BY <1>2, <2>1
<1>7. ASSUME NEW s \in Seconds
      PROVE  okPerSec'[s] <= perSec'[s] + SumFunctionOnSet(requests', Adding(s)')
  <2>1. Adding(s)' = Adding(s)
    BY <1>1 DEF Adding
  <2>2. \A u \in Adding(s) : requests'[u] = requests[u]
    BY <1>2, <1>3 DEF Adding, AfterSuccess
  <2>3. SumFunctionOnSet(requests', Adding(s)) = SumFunctionOnSet(requests, Adding(s))
    <3>1. IsFiniteSet(Adding(s)) /\ \A u \in Adding(s) : requests[u] \in Nat
      BY SumTypes
    <3> QED
      BY <2>2, <3>1, SumSame
  <2> QED
    BY <1>1, <2>1, <2>3 DEF Sums, Succeeds
<1>8. total' = SumFunctionOnSet(complete', joined')
  <2>1. \A u \in joined : complete'[u] = complete[u]
    BY <1>2, <1>3 DEF RateInv, Flushed, TypeOK
  <2>2. SumFunctionOnSet(complete', joined) = SumFunctionOnSet(complete, joined)
    <3>1. IsFiniteSet(joined) /\ \A u \in joined : complete[u] \in Nat
      BY SumTypes
    <3> QED
      BY <2>1, <3>1, SumSame
  <2> QED
    BY <1>1, <2>2 DEF Sums
<1>9. Succeeds'
  BY <1>7 DEF Succeeds, Seconds
<1> QED
  BY <1>5, <1>6, <1>8, <1>9 DEF Sums

\* main adds what the thread it joins has counted.
LEMMA JoinSums ==
  ASSUME RateInv, RateInv', Sums, NEW t \in Threads, Join(t)
  PROVE  Sums'
<1>1. /\ complete' = complete /\ requests' = requests /\ succ' = succ /\ pc' = pc /\ sec' = sec
      /\ perSec' = perSec /\ okPerSec' = okPerSec
  BY DEF Join, counts, shared
<1>2. t \notin joined /\ joined' = joined \union {t} /\ total' = total + complete[t]
  BY DEF Join
<1>3. PICK J : J = joined'
  OBVIOUS
<1>4. t \in J /\ J \ {t} = joined /\ J \subseteq Threads
  BY <1>2, <1>3, SumTypes
<1>5. IsFiniteSet(J) /\ \A u \in J : complete[u] \in Nat
  BY <1>4, SumTypes, FS_Subset
<1>6. SumFunctionOnSet(complete, J) = SumFunctionOnSet(complete, joined) + complete[t]
  BY <1>4, <1>5, SumSplit
<1>7. total' = SumFunctionOnSet(complete', joined')
  BY <1>1, <1>2, <1>3, <1>6 DEF Sums
<1>8. \A s : Adding(s)' = Adding(s)
  BY <1>1 DEF Adding
<1> QED
  BY <1>1, <1>7, <1>8 DEF Sums, Booked, Succeeds
-----------------------------------------------------------------------------
\* Every instruction of a thread keeps the sums.
LEMMA FlushSums ==
  ASSUME RateInv, RateInv', Sums, NEW t \in Threads, Flush(t)
  PROVE  Sums'
<1>a. pc \in [Threads -> Places]
  BY DEF RateInv, TypeOK
<1>b. ASSUME NEW l, Goto(t, l), UNCHANGED <<counts, perSec, okPerSec, joined, total>>,
             \A u \in Threads : u # t => sec'[u] = sec[u],
             pc[t] \in AfterSuccess => (l \in AfterSuccess /\ sec'[t] = sec[t]) \/ requests[t] = 0
      PROVE  Sums'
  <2>1. \A s \in Seconds : \A u \in Adding(s) : u \in Adding(s)' \/ requests[u] = 0
    BY <1>a, <1>b, AddingStays
  <2> QED
    BY <1>b, <2>1, SumsStay
<1>1. CASE RecordRate(t)
  <2>1. /\ UNCHANGED <<counts, perSec, okPerSec, joined, total>>
        /\ \A u \in Threads : u # t => sec'[u] = sec[u]
    BY <1>1 DEF RecordRate, shared, mainVars, RateInv, TypeOK
  <2>2. pc[t] \notin AfterSuccess
    BY <1>1 DEF RecordRate, At, AfterSuccess
  <2>3. \E l : Goto(t, l)
    BY <1>1 DEF RecordRate
  <2> QED
    BY <1>b, <2>1, <2>2, <2>3
<1>2. ASSUME UNCHANGED <<counts, perSec, okPerSec, joined, total, sec>>,
             \E l : Goto(t, l) /\ (pc[t] \in AfterSuccess => l \in AfterSuccess \/ requests[t] = 0)
      PROVE  Sums'
  BY <1>b, <1>2
<1>3. CASE NothingToAdd(t) \/ CheckStop(t)
  <2>1. UNCHANGED <<counts, perSec, okPerSec, joined, total, sec>>
    BY <1>3 DEF NothingToAdd, CheckStop, shared, mainVars
  <2>2. \E l : Goto(t, l) /\ (pc[t] \in AfterSuccess => l \in AfterSuccess \/ requests[t] = 0)
    BY <1>3 DEF NothingToAdd, CheckStop, At, AfterSuccess
  <2> QED
    BY <1>2, <2>1, <2>2
<1>4. ASSUME NEW s, NEW from, NEW line, NEW next, from \notin AfterSuccess,
             CheckPrint(t, s, from, line, next) \/ PrintLine(t, s, from, next)
      PROVE  Sums'
  <2>1. UNCHANGED <<counts, perSec, okPerSec, joined, total, sec>>
    BY <1>4 DEF CheckPrint, PrintLine, shared, mainVars
  <2>2. (\E l : Goto(t, l)) /\ pc[t] \notin AfterSuccess
    BY <1>4 DEF CheckPrint, PrintLine, At
  <2> QED
    BY <1>2, <2>1, <2>2
<1>5. ASSUME NEW from, NEW set, NEW next,
             from \in AfterSuccess => set \in AfterSuccess /\ next \in AfterSuccess,
             CheckMax(t, from, set, next) \/ SetMax(t, from, next)
      PROVE  Sums'
  <2>1. UNCHANGED <<counts, perSec, okPerSec, joined, total, sec>>
    BY <1>5 DEF CheckMax, SetMax, shared, mainVars
  <2>2. pc[t] = from /\ (Goto(t, set) \/ Goto(t, next))
    BY <1>5 DEF CheckMax, SetMax, At
  <2>3. \E l : Goto(t, l) /\ (pc[t] \in AfterSuccess => l \in AfterSuccess \/ requests[t] = 0)
    BY <1>5, <2>2
  <2> QED
    BY <1>2, <2>1, <2>3
<1>6. /\ {"print", "printLine", "lastPrint", "lastLine",
         "seenByRequests", "setByRequests"} \cap AfterSuccess = {}
      /\ {"seenBySuccess", "setBySuccess", "addRequests"} \subseteq AfterSuccess
  BY DEF AfterSuccess
<1>7. CASE \/ CheckPrint(t, sec[t], "print", "printLine", "seenByRequests")
           \/ PrintLine(t, sec[t], "printLine", "seenByRequests")
           \/ CheckPrint(t, sec[t] + 1, "lastPrint", "lastLine", "exited")
           \/ PrintLine(t, sec[t] + 1, "lastLine", "exited")
  BY <1>4, <1>6, <1>7
<1>8. CASE \/ CheckMax(t, "seenBySuccess", "setBySuccess", "addRequests")
           \/ SetMax(t, "setBySuccess", "addRequests")
           \/ CheckMax(t, "seenByRequests", "setByRequests", "checkStop")
           \/ SetMax(t, "setByRequests", "checkStop")
  BY <1>5, <1>6, <1>8
<1>9. CASE AddSuccess(t) \/ AddRequests(t)
  BY <1>9, AddSuccessSums, AddRequestsSums
<1> QED
  BY <1>1, <1>3, <1>7, <1>8, <1>9 DEF Flush

\* No thread runs while main creates the others.
LEMMA StartingStays ==
  ASSUME RateInv, Starting, Next
  PROVE  Starting'
<1>a. pc \in [Threads -> Places]
  BY DEF RateInv, TypeOK
<1>1. ASSUME NEW t \in Threads, Flush(t) \/ (\E ok \in BOOLEAN : Response(t, ok)) \/ Join(t)
      PROVE  Starting'
  <2>1. pc[t] \notin {"none", "wait"}
    BY <1>1 DEF Flush, RecordRate, AddSuccess, AddRequests, NothingToAdd, CheckPrint, PrintLine,
                CheckMax, SetMax, CheckStop, Response, Join, At
  <2>2. main' = main \/ main' \in {"join", "report"}
    BY <1>1 DEF Flush, RecordRate, AddSuccess, AddRequests, NothingToAdd, CheckPrint, PrintLine,
                CheckMax, SetMax, CheckStop, Response, Join, mainVars
  <2>3. thread_concurrency' = thread_concurrency
    BY <1>1 DEF Flush, RecordRate, AddSuccess, AddRequests, NothingToAdd, CheckPrint, PrintLine,
                CheckMax, SetMax, CheckStop, Response, Join, mainVars
  <2> QED
    BY <2>1, <2>2, <2>3 DEF Starting
<1>2. ASSUME NEW t \in Threads, Create(t) PROVE Starting'
  BY <1>a, <1>2 DEF Starting, Create, At, Goto
<1>3. ASSUME NEW t \in Threads, EnterLoop(t) PROVE Starting'
  BY <1>3 DEF Starting, EnterLoop, mainVars
<1>4. CASE InstallHandler \/ StartTogether \/ SigInt \/ Wake \/ StopCollecting
  BY <1>4 DEF Starting, InstallHandler, StartTogether, SigInt, Wake, StopCollecting
<1>5. CASE Tick
  BY <1>5 DEF Starting, Tick, mainVars
<1> QED
  BY <1>1, <1>2, <1>3, <1>4, <1>5 DEF Next

LEMMA SumsInit == Init => Sums /\ Starting
<1> SUFFICES ASSUME Init PROVE Sums /\ Starting
  OBVIOUS
<1>1. /\ \A t \in Threads : requests[t] = 0 /\ succ[t] = 0 /\ complete[t] = 0 /\ pc[t] = "none"
      /\ \A s \in Seconds : perSec[s] = 0 /\ okPerSec[s] = 0
      /\ joined = {} /\ total = 0 /\ main = "create" /\ ~thread_concurrency
  BY DEF Init
<1>1a. /\ IsFiniteSet(Threads) /\ IsFiniteSet(Seconds) /\ IsFiniteSet(joined)
       /\ \A s : IsFiniteSet(Adding(s)) /\ Adding(s) \subseteq Threads
  BY InitInv, SumTypes
<1>2. /\ SumFunctionOnSet(perSec, Seconds) = 0 /\ SumFunctionOnSet(requests, Threads) = 0
      /\ SumFunctionOnSet(complete, Threads) = 0
  BY <1>1, <1>1a, SumOfNothing
<1>3. SumFunctionOnSet(complete, joined) = 0
  BY <1>1, <1>1a, SumOfNothing
<1>4. \A s \in Seconds : SumFunctionOnSet(requests, Adding(s)) = 0
  BY <1>1, <1>1a, SumOfNothing
<1>5. Succeeds
  BY <1>1, <1>4 DEF Succeeds
<1> QED
  BY <1>1, <1>2, <1>3, <1>5 DEF Sums, Booked, Starting

LEMMA SumsNext == RateInv /\ Sums /\ Starting /\ [Next]_vars => Sums' /\ Starting'
<1> SUFFICES ASSUME RateInv, Sums, Starting, [Next]_vars PROVE Sums' /\ Starting'
  OBVIOUS
<1>a. RateInv'
  BY NextInv
<1>b. pc \in [Threads -> Places]
  BY DEF RateInv, TypeOK
<1>c. ASSUME UNCHANGED <<counts, sec, perSec, okPerSec, joined, total, pc>> PROVE Sums'
  <2>1. \A s \in Seconds : \A u \in Adding(s) : u \in Adding(s)' \/ requests[u] = 0
    BY <1>c DEF Adding
  <2> QED
    BY <1>a, <1>c, <2>1, SumsStay
<1>1. CASE UNCHANGED vars
  BY <1>1, <1>c DEF vars, shared, mainVars, Starting
<1>2. CASE Next
  <2>1. Starting'
    BY <1>2, StartingStays
  <2>2. ASSUME NEW t \in Threads,
               Flush(t) \/ (\E ok \in BOOLEAN : Response(t, ok)) \/ Join(t)
        PROVE  Sums'
    BY <1>a, <2>2, FlushSums, ResponseSums, JoinSums
  <2>3. ASSUME NEW t \in Threads, Create(t) \/ EnterLoop(t)
        PROVE  Sums'
    <3>1. UNCHANGED <<counts, sec, perSec, okPerSec, joined, total>>
      BY <2>3 DEF Create, EnterLoop, shared, mainVars
    <3>2. \A s \in Seconds : \A u \in Adding(s) : u \in Adding(s)'
      <4>1. CASE EnterLoop(t)
        BY <1>b, <3>1, <4>1 DEF EnterLoop, At, Goto, Adding, AfterSuccess
      <4>2. CASE Create(t)
        <5>1. \A u \in Threads : pc[u] \notin AfterSuccess
          BY <4>2 DEF Create, Starting, AfterSuccess
        <5> QED
          BY <5>1 DEF Adding
      <4> QED
        BY <2>3, <4>1, <4>2
    <3> QED
      BY <1>a, <3>1, <3>2, SumsStay
  <2>4. CASE InstallHandler \/ StartTogether \/ SigInt \/ Wake \/ StopCollecting \/ Tick
    <3>1. UNCHANGED <<counts, sec, perSec, okPerSec, joined, total, pc>>
      BY <2>4 DEF InstallHandler, StartTogether, SigInt, Wake, StopCollecting, Tick, shared, mainVars
    <3> QED
      BY <2>1, <3>1, <1>c
  <2> QED
    BY <1>2, <2>1, <2>2, <2>3, <2>4 DEF Next
<1> QED
  BY <1>1, <1>2


\* Each instruction of a thread keeps the seconds with responses in sight.
LEMMA FlushCharted ==
  ASSUME TypeOK, Charted, NEW t \in Threads, Flush(t)
  PROVE  Charted'
<1> USE DEF At, Goto, Noting
<1>a. /\ pc \in [Threads -> Places] /\ sec \in [Threads -> Seconds] /\ Seconds \subseteq Nat
      /\ perSec \in [Seconds -> Nat] /\ max_location \in Seconds
  BY DEF TypeOK, Seconds
\* Nothing is added, and those that are about to compare still are.
<1>b. ASSUME perSec' = perSec, max_location' = max_location, cutOff' = cutOff,
             \A s \in Seconds : Noting(s) \subseteq Noting(s)'
      PROVE  Charted'
  BY <1>b DEF Charted
<1>1. CASE RecordRate(t)
  BY <1>1, <1>a, <1>b DEF RecordRate, shared
<1>2. CASE AddSuccess(t) \/ NothingToAdd(t) \/ CheckStop(t)
  BY <1>2, <1>a, <1>b DEF AddSuccess, NothingToAdd, CheckStop, counts, shared
<1>3. CASE AddRequests(t)
  <2>1. /\ max_location' = max_location /\ cutOff' = cutOff /\ sec' = sec
        /\ \A s \in Seconds \ {sec[t]} : perSec'[s] = perSec[s]
    BY <1>3, <1>a DEF AddRequests
  <2>2. t \in Noting(sec[t])' /\ \A s \in Seconds : Noting(s) \subseteq Noting(s)'
    BY <1>3, <1>a, <2>1 DEF AddRequests
  <2> QED
    BY <2>1, <2>2 DEF Charted
<1>4. ASSUME NEW s, CheckPrint(t, s, "print", "printLine", "seenByRequests")
                    \/ PrintLine(t, s, "printLine", "seenByRequests")
      PROVE  Charted'
  BY <1>4, <1>a, <1>b DEF CheckPrint, PrintLine, counts, shared
<1>5. ASSUME NEW s, CheckPrint(t, s, "lastPrint", "lastLine", "exited")
                    \/ PrintLine(t, s, "lastLine", "exited")
      PROVE  Charted'
  BY <1>5, <1>a, <1>b DEF CheckPrint, PrintLine, counts, shared
<1>6. CASE CheckMax(t, "seenBySuccess", "setBySuccess", "addRequests")
  BY <1>6, <1>a, <1>b DEF CheckMax, counts, shared
\* The comparison lets t go when its second is in the chart.
<1>7. CASE CheckMax(t, "seenByRequests", "setByRequests", "checkStop")
  <2>1. perSec' = perSec /\ max_location' = max_location /\ cutOff' = cutOff
    BY <1>7 DEF CheckMax, counts, shared
  <2>2. \A s \in Seconds : s <= max_location \/ Noting(s) \subseteq Noting(s)'
    BY <1>7, <1>a DEF CheckMax, counts
  <2> QED
    BY <2>1, <2>2 DEF Charted
\* What the assignment takes from the chart is cut off.
<1>8. ASSUME NEW set, NEW next, SetMax(t, set, next)
      PROVE  Charted'
  <2>1. /\ perSec' = perSec /\ sec' = sec /\ max_location' = sec[t] /\ cutOff' = CutOffBy(sec[t])
        /\ pc' = [pc EXCEPT ![t] = next]
    BY <1>8 DEF SetMax
  <2>2. \A s \in Seconds \ {sec[t]} : Noting(s) \subseteq Noting(s)'
    <3>1. \A u \in Threads : u # t => pc'[u] = pc[u]
      BY <1>a, <2>1
    <3> QED
      BY <2>1, <3>1
  <2>3. \A s \in Seconds : s <= max_location \/ s \in cutOff => s <= sec[t] \/ s \in CutOffBy(sec[t])
    BY <1>a, CutOffFits
  <2>4. sec[t] <= sec[t]
    BY SMT DEF TypeOK, Seconds
  <2> HIDE DEF Noting
  <2> QED
    BY <2>1, <2>2, <2>3, <2>4 DEF Charted
<1> QED
  BY <1>1, <1>2, <1>3, <1>4, <1>5, <1>6, <1>7, <1>8 DEF Flush

LEMMA ChartedNext == RateInv /\ Starting /\ Charted /\ [Next]_vars => Charted'
<1> SUFFICES ASSUME RateInv, Starting, Charted, [Next]_vars PROVE Charted'
  OBVIOUS
<1>a. TypeOK /\ pc \in [Threads -> Places]
  BY DEF RateInv, TypeOK
<1>b. ASSUME UNCHANGED <<perSec, max_location, cutOff>>,
             \A s \in Seconds : Noting(s) \subseteq Noting(s)'
      PROVE  Charted'
  BY <1>b DEF Charted
<1>1. ASSUME NEW t \in Threads, Flush(t) PROVE Charted'
  BY <1>1, <1>a, FlushCharted
<1>2. ASSUME NEW t \in Threads, Create(t) \/ EnterLoop(t) PROVE Charted'
  <2>1. UNCHANGED <<perSec, max_location, cutOff, sec>>
    BY <1>2 DEF Create, EnterLoop, shared
  <2>2. \A s \in Seconds : Noting(s) \subseteq Noting(s)'
    BY <1>2, <1>a, <2>1 DEF Create, EnterLoop, At, Goto, Noting, Starting
  <2> QED
    BY <1>b, <2>1, <2>2
<1>3. CASE UNCHANGED <<shared, sec, pc>>
  BY <1>3, <1>b DEF shared, Noting
<1>4. \/ UNCHANGED <<shared, sec, pc>>
      \/ \E t \in Threads : Flush(t) \/ Create(t) \/ EnterLoop(t)
  BY DEF Next, vars, Response, Join, InstallHandler, StartTogether, SigInt, Wake, StopCollecting,
         Tick, counts, mainVars
<1> QED
  BY <1>1, <1>2, <1>3, <1>4

\* When main reports, each response of every thread is in the slot of
\* stats->requests its flush went to, exactly once, and with it its success: all slots
\* add up to the total.  The chart reads the slots up to max_location; responses beyond
\* that are in seconds it had reached, before a thread that had compared an earlier
\* second with max_location overwrote it.
THEOREM EverythingCounted == Spec => []AllCounted
<1>1. RateInv /\ Sums /\ Charted => AllCounted
  <2> SUFFICES ASSUME RateInv, Sums, Charted, main = "report"
               PROVE  /\ SumFunction(perSec) = total
                      /\ \A s \in Seconds : okPerSec[s] <= perSec[s]
                      /\ \A s \in Seconds : perSec[s] > 0 => s <= max_location \/ s \in cutOff
    BY DEF AllCounted
  <2>1. joined = Threads /\ \A t \in Threads : requests[t] = 0 /\ pc[t] = "exited"
    BY DEF RateInv, Flushed, AfterRequests
  <2>2. SumFunctionOnSet(requests, Threads) = 0
    BY <2>1, SumTypes, SumOfNothing
  <2>3. SumFunctionOnSet(perSec, Seconds) \in Nat
    BY SumTypes, SumType
  <2>4. SumFunctionOnSet(perSec, Seconds) = total
    BY <2>1, <2>2, <2>3 DEF Sums, Booked
  <2>5. ASSUME NEW s \in Seconds PROVE okPerSec[s] <= perSec[s]
    <3>1. SumFunctionOnSet(requests, Adding(s)) = 0
      BY <2>1, SumTypes, SumOfNothing
    <3>2. perSec[s] \in Nat
      BY SumTypes
    <3> QED
      BY <3>1, <3>2 DEF Sums, Succeeds
  <2>6. DOMAIN perSec = Seconds
    BY DEF RateInv, TypeOK
  <2>7. \A s \in Seconds : perSec[s] > 0 => s <= max_location \/ s \in cutOff
    BY <2>1 DEF Charted, Noting
  <2> QED
    BY <2>4, <2>5, <2>6, <2>7, Zenon DEF SumFunction
<1>2. Init => Charted
  BY DEF Init, Charted
<1> QED
  BY <1>1, <1>2, ChartedNext, InitInv, NextInv, SumsInit, SumsNext, PTL DEF Spec
=============================================================================
