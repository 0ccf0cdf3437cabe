------------------------------ MODULE Effects ------------------------------
(***************************************************************************)
(* jQuery's effects, as the pages use them to let a button flicker:        *)
(* fadeIn() and fadeOut() wait in the fx queue of their element, the one   *)
(* in progress has an entry in jQuery.timers, and the tick of every frame  *)
(* goes through the timers.  The complete callback of a fade runs inside   *)
(* the tick and may begin fades, stop those of other elements or throw.    *)
(***************************************************************************)
EXTENDS Integers, Sequences, SequencesExt

CONSTANTS
  Elements,
  MaxFades,  \* bound: fades that are begun
  MaxFrames  \* bound: frames that a fade lasts

ASSUME EffectsAssumption == MaxFades \in Nat /\ MaxFrames \in Nat \ {0}

VARIABLES
  queue,      \* the fx queue of each element
  hidden,     \* elements with display none
  opacity,    \* of each element: "original", "partial" or "zero"
  saved,      \* fxshow: the opacity to return to, or "none"
  timers,     \* jQuery.timers
  ticking,    \* the index in the tick's loop, 0 outside
  running,    \* the timer whose complete callback runs, 0 if none
  inProgress,
  frames,     \* calls of schedule() that wait for a frame
  begun,      \* auxiliary: the fades that were begun
  last,       \* auxiliary: the number and kind of the last fade of each element
  stopped,    \* auxiliary: elements that were stopped
  threw,      \* auxiliary: elements whose complete callback threw
  spoilt      \* auxiliary: elements with a fadeOut whose timer may stay when it is over

visible == <<hidden, opacity, saved>>
clock == <<ticking, running, inProgress, frames>>
noted == <<begun, last, stopped, threw, spoilt>>
vars == <<queue, visible, timers, clock, noted>>

InProgress == [kind |-> "inprogress", id |-> 0]
Idle == ticking = 0
Live(e) == {i \in DOMAIN timers : timers[i].elem = e /\ ~timers[i].over}
RunningOn(e) == running # 0 /\ \E i \in DOMAIN timers : timers[i].id = running /\ timers[i].elem = e
UserTurn == Idle \/ running # 0

Init == /\ queue = [e \in Elements |-> <<>>] /\ hidden = {}
        /\ opacity = [e \in Elements |-> "original"] /\ saved = [e \in Elements |-> "none"]
        /\ timers = <<>> /\ ticking = 0 /\ running = 0 /\ inProgress = FALSE /\ frames = 0
        /\ begun = 0 /\ last = [e \in Elements |-> [kind |-> "in", id |-> 0]] /\ stopped = {} /\ threw = {}
        /\ spoilt = {}

(***************************************************************************)
(* The start of a fade: Animation() with defaultPrefilter(), over the      *)
(* timers ts.  A fade to what the element is already ends at its first     *)
(* tick, but a fadeIn after a stopped fade goes back to what it saved.     *)
(* The tween runs to "end", and "orig" is set when the fade is over.       *)
(***************************************************************************)
\* Variant: the opacity to return to is saved at every start.
SavedAnew(e) == opacity[e]
Saved(e) == IF saved[e] = "none" THEN opacity[e] ELSE saved[e]
\* A saved 0 counts as none.
Orig(e) == IF saved[e] \in {"none", "zero"} THEN opacity[e] ELSE saved[e]
Start(e, f, ts) ==
  LET tweened == IF f.kind = "in" THEN e \in hidden \/ saved[e] # "none" ELSE e \notin hidden
  IN  /\ \E left \in IF tweened THEN 1 .. MaxFrames ELSE {0} :
           timers' = Append(ts, [id |-> f.id, elem |-> e, kind |-> f.kind, left |-> left,
                                 tweened |-> tweened, over |-> FALSE, orig |-> Orig(e),
                                 end |-> IF f.kind = "in" THEN Saved(e) ELSE "zero"])
      /\ IF tweened THEN saved' = [saved EXCEPT ![e] = Saved(e)] /\ hidden' = hidden \ {e}
         ELSE UNCHANGED <<saved, hidden>>
      /\ UNCHANGED opacity

\* jQuery.fx.start(): the first tick comes at once.
fxStart == IF inProgress THEN UNCHANGED <<ticking, inProgress, frames>>
           ELSE inProgress' = TRUE /\ frames' = frames + 1 /\ ticking' = 1

\* jQuery.dequeue() of a queue q: the sentinel goes, the next fade begins.
\* Variant: nothing marks that a fade is in progress.
dequeueUnmarked(e, q, ts) ==
  IF q = <<>> THEN queue' = [queue EXCEPT ![e] = <<>>] /\ timers' = ts
                   /\ UNCHANGED visible
  ELSE queue' = [queue EXCEPT ![e] = Tail(q)] /\ Start(e, Head(q), ts)
dequeue(e, q, ts) ==
  LET waiting == IF q # <<>> /\ Head(q) = InProgress THEN Tail(q) ELSE q IN
  IF waiting = <<>>
  THEN /\ queue' = [queue EXCEPT ![e] = <<>>] /\ timers' = ts
       /\ UNCHANGED visible
  ELSE /\ queue' = [queue EXCEPT ![e] = <<InProgress>> \o Tail(waiting)]
       /\ Start(e, Head(waiting), ts)

(***************************************************************************)
(* The calls of the pages.                                                 *)
(***************************************************************************)
fade(e, kind) ==
  LET f == [kind |-> kind, id |-> begun + 1]
      q == Append(queue[e], f)
  IN  /\ UserTurn /\ begun < MaxFades /\ begun' = begun + 1
      /\ last' = [last EXCEPT ![e] = f] /\ UNCHANGED <<running, stopped, threw, spoilt>>
      /\ IF Head(q) = InProgress
         THEN /\ queue' = [queue EXCEPT ![e] = q]
              /\ UNCHANGED <<visible, timers, ticking, inProgress, frames>>
         ELSE dequeue(e, q, timers) /\ fxStart

\* The timer whose complete callback runs, and what it may spoil if it stays.
Calling == timers[CHOOSE i \in DOMAIN timers : timers[i].id = running]
Called == Calling.elem
Spoilt == IF Calling.tweened /\ Calling.kind = "out" THEN spoilt \union {Called} ELSE spoilt

\* stop(), which drops its timer and goes on with the queue or clears it first.
stop(e, clear) ==
  LET i == CHOOSE j \in Live(e) : TRUE IN
  /\ UserTurn /\ ~RunningOn(e) /\ Live(e) # {}
  /\ dequeue(e, IF clear THEN <<>> ELSE queue[e], RemoveAt(timers, i))
  /\ stopped' = stopped \union {e}
  /\ spoilt' = IF running # 0 /\ i < ticking THEN Spoilt ELSE spoilt
  /\ UNCHANGED <<clock, begun, last, threw>>

(***************************************************************************)
(* schedule() and jQuery.fx.tick(), whose loop has a step for each timer   *)
(* and one for the end of a complete callback.                             *)
(***************************************************************************)
Frame ==
  /\ Idle /\ frames > 0
  /\ IF inProgress THEN ticking' = 1 /\ UNCHANGED frames
     ELSE frames' = frames - 1 /\ UNCHANGED ticking
  /\ UNCHANGED <<queue, visible, timers, running, inProgress, noted>>

InLoop == ticking \in DOMAIN timers /\ running = 0
TickContinues ==
  /\ InLoop /\ ~timers[ticking].over /\ timers[ticking].left > 0
  /\ timers' = [timers EXCEPT ![ticking].left = @ - 1]
  /\ opacity' = [opacity EXCEPT ![timers[ticking].elem] = "partial"]
  /\ ticking' = ticking + 1
  /\ UNCHANGED <<queue, hidden, saved, running, inProgress, frames, noted>>

\* Variant: fadeOut does not hide in the end.
TickResolvesUnhidden ==
  LET t == timers[ticking] IN
  /\ InLoop /\ ~t.over /\ t.left = 0
  /\ timers' = [timers EXCEPT ![ticking].over = TRUE] /\ running' = t.id
  /\ IF t.tweened THEN opacity' = [opacity EXCEPT ![t.elem] = t.orig]
                       /\ saved' = [saved EXCEPT ![t.elem] = "none"]
     ELSE UNCHANGED <<opacity, saved>>
  /\ UNCHANGED <<queue, hidden, ticking, inProgress, frames, noted>>
\* The last tick: the element gets its end state, then the callback is called.
TickResolves ==
  LET t == timers[ticking] IN
  /\ InLoop /\ ~t.over /\ t.left = 0
  /\ timers' = [timers EXCEPT ![ticking].over = TRUE] /\ running' = t.id
  /\ IF t.tweened
     THEN /\ hidden' = IF t.kind = "out" THEN hidden \union {t.elem} ELSE hidden
          /\ opacity' = [opacity EXCEPT ![t.elem] = t.orig]
          /\ saved' = [saved EXCEPT ![t.elem] = "none"]
     ELSE UNCHANGED visible
  /\ UNCHANGED <<queue, ticking, inProgress, frames, noted>>

\* The callback is over: the next fade of the element begins, and the timer is
\* removed when it is still at its place.
AtItsPlace == ticking \in DOMAIN timers /\ timers[ticking].id = running
\* Variant: what is at its place is removed, whichever timer that is now.
CallbackReturnsUnchecked ==
  /\ running # 0 /\ running' = 0
  /\ dequeue(Called, queue[Called], IF ticking \in DOMAIN timers THEN RemoveAt(timers, ticking)
                                   ELSE timers)
  /\ UNCHANGED <<ticking, inProgress, frames, noted>>
CallbackReturns ==
  /\ running # 0 /\ running' = 0
  /\ dequeue(Called, queue[Called], IF AtItsPlace THEN RemoveAt(timers, ticking) ELSE timers)
  /\ ticking' = IF AtItsPlace THEN ticking ELSE ticking + 1
  /\ UNCHANGED <<inProgress, frames, noted>>
\* An exception ends the tick; the queue of the element stays in progress.
CallbackThrows ==
  /\ running # 0 /\ running' = 0 /\ ticking' = 0
  /\ threw' = threw \union {Called} /\ spoilt' = Spoilt
  /\ UNCHANGED <<queue, visible, timers, inProgress, frames, begun, last, stopped>>

\* A timer that is over, but was not removed, runs its tween to the end once more
\* before it goes: nothing is hidden or restored then, and no callback is called.
TickRemoves ==
  LET t == timers[ticking] IN
  /\ InLoop /\ t.over /\ timers' = RemoveAt(timers, ticking)
  /\ opacity' = IF t.tweened THEN [opacity EXCEPT ![t.elem] = t.end] ELSE opacity
  /\ UNCHANGED <<queue, hidden, saved, clock, noted>>
TickEnds ==
  /\ ticking > Len(timers) /\ running = 0
  /\ ticking' = 0 /\ inProgress' = (timers # <<>>)
  /\ UNCHANGED <<queue, visible, timers, running, frames, noted>>

Run == Frame \/ TickContinues \/ TickResolves \/ TickRemoves \/ TickEnds \/ CallbackReturns
Next == \/ Run \/ CallbackThrows
        \/ \E e \in Elements : \/ \E kind \in {"in", "out"} : fade(e, kind)
                               \/ \E clear \in BOOLEAN : stop(e, clear)

Spec == Init /\ [][Next]_vars
\* Frames come, and a tick goes on until its end.
FairSpec == Spec /\ WF_vars(Run)

-----------------------------------------------------------------------------
(***************************************************************************)
(* Properties.                                                             *)
(***************************************************************************)
Fade == [kind : {"in", "out", "inprogress"}, id : 0 .. MaxFades]
Opacity == {"original", "partial", "zero"}
TypeOK ==
  /\ queue \in [Elements -> Seq(Fade)] /\ hidden \subseteq Elements
  /\ opacity \in [Elements -> Opacity] /\ saved \in [Elements -> {"none"} \union Opacity]
  /\ timers \in Seq([id : 1 .. MaxFades, elem : Elements, kind : {"in", "out"},
                     left : 0 .. MaxFrames, tweened : BOOLEAN, over : BOOLEAN,
                     orig : Opacity, end : Opacity])
  /\ ticking \in Nat /\ running \in 0 .. MaxFades
  /\ inProgress \in BOOLEAN /\ frames \in Nat
  /\ begun \in 0 .. MaxFades
  /\ last \in [Elements -> [kind : {"in", "out"}, id : 0 .. MaxFades]]
  /\ stopped \subseteq Elements /\ threw \subseteq Elements /\ spoilt \subseteq Elements

\* The fades of an element never overlap, and none is lost: the queue is in
\* progress exactly while one of its timers lives or its complete callback runs,
\* also when callbacks stop other elements in the middle of the tick.
OneFadeAtATime ==
  \A e \in Elements :
    LET underway == {timers[i].id : i \in Live(e)} \union {n \in {running} : RunningOn(e)} IN
    /\ \A m, n \in underway : m = n
    /\ \A i \in DOMAIN queue[e] : queue[e][i] = InProgress => i = 1
    /\ e \notin threw => (queue[e] # <<>> <=> underway # {})

\* However fades are queued and stopped half way, and although timers that are over
\* may run again, the opacity that an element had in the beginning is not lost: it is
\* the present one or the one to return to.  Only a fadeOut can lose it, and only by
\* its own callback, when that throws or stops a fade with an earlier timer.
OpacityKept ==
  \A e \in Elements \ spoilt :
    saved[e] = "original" \/ (saved[e] = "none" /\ opacity[e] = "original")

\* When its queue is empty, an element is as its last fade leaves it: a button that
\* flickered with fadeOut().fadeIn() is there again, also when its timer ran once more
\* after the end because the callback of a fadeIn stopped other elements.
LastFadeWins ==
  \A e \in Elements \ (stopped \union threw \union spoilt) : queue[e] = <<>> =>
    opacity[e] = "original" /\ (e \in hidden <=> last[e].kind = "out")

\* While there is a timer, a frame will come that ticks it, also after a callback
\* threw in the middle of a tick.
Ticked == timers # <<>> => inProgress /\ frames > 0

\* Every queue empties, unless a callback of the element threw.
QueuesDrain == \A e \in Elements : queue[e] # <<>> ~> (queue[e] = <<>> \/ e \in threw)
=============================================================================
