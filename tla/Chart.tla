-------------------------------- MODULE Chart --------------------------------
(***************************************************************************)
(* Charts of Chart.js as the report's page makes them: one dataset of      *)
(* bars, the default options, a legend whose click hides the dataset, a    *)
(* container that is resized.  An action is one callback of the browser    *)
(* (mouse event, frame, scroll, start of a CSS animation) or one call of   *)
(* the page; the callbacks of different charts and of the animation        *)
(* service come in any order.                                              *)
(***************************************************************************)
EXTENDS AnimationService, FiniteSets

CONSTANTS
  Charts,
  Bars,       \* the elements of the dataset
  NoBar,      \* "none"
  Steps,      \* frames of a whole animation
  LazySteps,  \* frames of the animation of a hover
  MaxInputs,  \* bound: mouse events and calls of the page
  MaxSize     \* bound: the sizes of a container

ASSUME ChartAssumption ==
  /\ {Steps, LazySteps} \subseteq Nat \ {0} /\ {MaxInputs, MaxSize} \subseteq Nat
  /\ NoBar \notin Bars

VARIABLES
  chart,     \* the fields of each Chart, its tooltip and its canvas
  container, \* the size of the canvas's parent
  resizer,   \* "off", "waiting" for the canvas to be rendered, or "on"
  scrolled,  \* a scroll event of the resizer is to come
  ticking,   \* throttled(): a call waits for a frame
  inputs     \* inputs so far

platform == <<container, resizer, scrolled, ticking>>
vars == <<service, chart, platform, inputs>>

Blank ==
  [phase |-> "none", animating |-> FALSE, hidden |-> FALSE, width |-> 0,
   lastActive |-> NoBar, styled |-> {},     \* hover: its bar, the styled bars
   tipActive |-> NoBar, tip |-> NoBar,      \* tooltip: its bar, the bar it tells of
   tipMoves |-> FALSE,                      \* tooltip._start
   picture |-> {}]                          \* the canvas: {} unless complete

\* What the canvas shows when the views have reached the models.
Model(r) == [hidden |-> r.hidden, width |-> r.width, tip |-> r.tip,
             styled |-> IF r.hidden THEN {} ELSE r.styled]

\* draw() at the end of an animation or before; the transitions take the views
\* all the way or a part of it.
Draw(r, whole) == [r EXCEPT !.picture = IF whole THEN {Model(r)} ELSE {},
                            !.tipMoves = ~whole]

\* update() up to its render(): models are made anew, tooltip and hover with
\* them.  Variant: lastActive is kept.
updateKeepsHover(r) == [r EXCEPT !.styled = {}, !.tip = NoBar, !.tipActive = NoBar]
update(r) == [r EXCEPT !.styled = {}, !.tip = NoBar, !.tipActive = NoBar,
                       !.lastActive = NoBar]

Whole(c) == [chart |-> c, left |-> Steps, lazy |-> FALSE]
Lazy(c) == [chart |-> c, left |-> LazySteps, lazy |-> TRUE]

\* render() with a duration, not lazy.
render(c, r) == /\ addAnimation(Whole(c))
                /\ chart' = [chart EXCEPT ![c] = [r EXCEPT !.animating = TRUE]]

Init == /\ ServiceInit /\ chart = [c \in Charts |-> Blank]
        /\ container = [c \in Charts |-> 1] /\ resizer = [c \in Charts |-> "off"]
        /\ scrolled = [c \in Charts |-> FALSE] /\ ticking = [c \in Charts |-> FALSE]
        /\ inputs = 0

Alive(c) == chart[c].phase = "alive"
Input == inputs < MaxInputs /\ inputs' = inputs + 1

\* new Chart(): the first size is taken silently, and everything animated in.
construct(c) ==
  /\ chart[c].phase = "none" /\ Input
  /\ render(c, update([Blank EXCEPT !.phase = "alive", !.width = container[c]]))
  /\ resizer' = [resizer EXCEPT ![c] = "waiting"]
  /\ UNCHANGED <<container, scrolled, ticking>>

(***************************************************************************)
(* Mouse events.                                                           *)
(***************************************************************************)
\* handleEvent() of the chart, with the bar under the pointer.
hover(r, bar) == [r EXCEPT !.styled = (@ \ {r.lastActive}) \union ({bar} \ {NoBar}),
                           !.lastActive = bar]
\* handleEvent() of the tooltip, which pivots when its bar changes.
tooltip(r, bar) == IF bar = r.tipActive THEN r
                   ELSE [r EXCEPT !.tipActive = bar, !.tip = bar, !.tipMoves = TRUE]

\* While the tooltip moves, only the tooltip can ask for an animation.
changed(r, bar) == \/ bar # r.tipActive
                   \/ ~r.tipMoves /\ bar # r.lastActive

\* A hover is animated lazily, unless a whole animation is in progress: that
\* one will show it.
eventHandler(c, r, bar) ==
  LET next == tooltip(hover(r, bar), bar) IN
  /\ chart' = [chart EXCEPT ![c] = next]
  /\ IF changed(r, bar) /\ ~r.animating THEN restartAnimation(Lazy(c))
     ELSE UNCHANGED service

\* The pointer moves over a bar, over none or out of the canvas, or clicks there.
MouseEvent(c) ==
  /\ Alive(c) /\ Input
  /\ \E bar \in {NoBar} \union (IF chart[c].hidden THEN {} ELSE Bars) :
       eventHandler(c, chart[c], bar)
  /\ UNCHANGED platform

\* A click on the legend, where no bar is: the legend's onClick updates the
\* chart inside its event handler, which renders once at the end.
ClickLegend(c) ==
  /\ Alive(c) /\ Input
  /\ LET next == tooltip(hover(chart[c], NoBar), NoBar)
     IN  render(c, update([next EXCEPT !.hidden = ~@]))
  /\ UNCHANGED platform

\* A frame of the animation service.
AnimationFrame ==
  /\ \E n \in 1 .. Steps :
       /\ startDigest(n)
       /\ chart' = [c \in Charts |->
            IF AnimationsOf(c) = {} THEN chart[c]
            ELSE LET ends == AnimationsOf(c) \subseteq Ends(n)
                 IN  [Draw(chart[c], ends) EXCEPT !.animating = @ /\ ~ends]]
  /\ UNCHANGED <<platform, inputs>>

(***************************************************************************)
(* The size of the container.                                              *)
(***************************************************************************)
ContainerResizes(c) ==
  /\ Input /\ container' = [container EXCEPT ![c] = @ + 1] /\ container[c] < MaxSize
  /\ scrolled' = [scrolled EXCEPT ![c] = @ \/ resizer[c] = "on"]
  /\ UNCHANGED <<service, chart, resizer, ticking>>

\* watchForRender: the resizer is put into the container, and reset, since the
\* size may have changed in the meantime.  Variant: it is not reset.
attachOnly(c) == /\ resizer' = [resizer EXCEPT ![c] = "on"]
                 /\ UNCHANGED scrolled
attach(c) == /\ resizer' = [resizer EXCEPT ![c] = "on"]
             /\ scrolled' = [scrolled EXCEPT ![c] = TRUE]
Rendered(c) == /\ resizer[c] = "waiting" /\ attach(c)
               /\ UNCHANGED <<service, chart, container, ticking, inputs>>

\* onScroll: reset, and ask for a frame unless one is asked for.
Scroll(c) == /\ scrolled[c] /\ scrolled' = [scrolled EXCEPT ![c] = FALSE]
             /\ ticking' = [ticking EXCEPT ![c] = TRUE]
             /\ UNCHANGED <<service, chart, container, resizer, inputs>>

\* resize(): the canvas is drawn at once, whatever was being animated.
resize(c) ==
  IF chart[c].width = container[c] THEN UNCHANGED <<service, chart>>
  ELSE /\ cancelAnimation(c)
       /\ chart' = [chart EXCEPT ![c] =
            [Draw(update([@ EXCEPT !.width = container[c]]), TRUE)
               EXCEPT !.animating = FALSE]]

\* Only a listener that is still there is called.  Variant: any.
listened(c) == TRUE
listens(c) == resizer[c] # "off"
ResizeFrame(c) ==
  /\ ticking[c] /\ ticking' = [ticking EXCEPT ![c] = FALSE]
  /\ IF listens(c) THEN resize(c) ELSE UNCHANGED <<service, chart>>
  /\ UNCHANGED <<container, resizer, scrolled, inputs>>

\* destroy().  What waits for a frame or a scroll event is not taken back.
destroy(c) ==
  /\ Alive(c) /\ Input /\ cancelAnimation(c)
  /\ chart' = [chart EXCEPT ![c] = [@ EXCEPT !.phase = "destroyed", !.picture = {},
                                             !.animating = FALSE]]
  /\ resizer' = [resizer EXCEPT ![c] = "off"]
  /\ UNCHANGED <<container, scrolled, ticking>>

Browser(c) == Rendered(c) \/ Scroll(c) \/ ResizeFrame(c)
Page(c) == \/ construct(c) \/ MouseEvent(c) \/ ClickLegend(c)
           \/ ContainerResizes(c) \/ destroy(c)
Next == AnimationFrame \/ \E c \in Charts : Browser(c) \/ Page(c)

Spec == Init /\ [][Next]_vars

\* The browser delivers its events and frames in the end.
FairSpec == /\ Spec /\ WF_vars(AnimationFrame)
            /\ \A c \in Charts : /\ WF_vars(Rendered(c)) /\ WF_vars(Scroll(c))
                                 /\ WF_vars(ResizeFrame(c))

-----------------------------------------------------------------------------
Maybe == Bars \union {NoBar}
Pictures == [hidden : BOOLEAN, width : Nat, tip : Maybe, styled : SUBSET Bars]
ChartType ==
  [phase : {"none", "alive", "destroyed"}, animating : BOOLEAN, hidden : BOOLEAN,
   width : Nat, lastActive : Maybe, styled : SUBSET Bars, tipActive : Maybe,
   tip : Maybe, tipMoves : BOOLEAN, picture : SUBSET Pictures]
Animations == [chart : Charts, left : 1 .. Steps + LazySteps, lazy : BOOLEAN]

\* The fields stay in their types, and no animation is in the list that has
\* no frame left.
TypeOK ==
  /\ animations \subseteq Animations /\ request \in BOOLEAN
  /\ chart \in [Charts -> ChartType] /\ container \in [Charts -> Nat]
  /\ resizer \in [Charts -> {"off", "waiting", "on"}]
  /\ scrolled \in [Charts -> BOOLEAN] /\ ticking \in [Charts -> BOOLEAN]
  /\ inputs \in 0 .. MaxInputs

\* A chart has one animation, and as long as anybody has one a frame is asked
\* for, across stop(), restarts and the charts that share the service.
OneAnimationEach == \A a, b \in animations : a.chart = b.chart => a = b
FrameAskedFor == animations # {} => request

\* chart.animating, which keeps hovers from restarting an animation, is set
\* exactly as long as an animation that is not lazy is to come.
AnimatingIsWhole ==
  \A c \in Charts : chart[c].animating <=> \E a \in AnimationsOf(c) : ~a.lazy

\* Whatever changed the models of a chart, with no animation to come the
\* canvas shows them.
NothingUnseen ==
  \A c \in Charts : Alive(c) /\ AnimationsOf(c) = {} => chart[c].picture = {Model(chart[c])}

\* The tooltip tells of the one bar that is styled as hovered, through updates
\* that make both anew.
TooltipOfHovered ==
  \A c \in Charts : LET r == chart[c] IN
    /\ r.tip = r.lastActive /\ r.tipActive = r.lastActive
    /\ r.styled = {r.lastActive} \ {NoBar}

\* Only while the tooltip is animated may it keep a hover from asking for an
\* animation.
TooltipMovesAnimated ==
  \A c \in Charts : Alive(c) /\ chart[c].tipMoves => AnimationsOf(c) # {}

\* After destroy() nothing of the chart is drawn or animated, whatever frame or
\* event was still to come.
DestroyedIsSilent ==
  \A c \in Charts : chart[c].phase = "destroyed" =>
    AnimationsOf(c) = {} /\ chart[c].picture = {}

\* When the inputs end, every chart comes to rest, complete and as wide as its
\* container.
ComesToRest ==
  \A c \in Charts : <>[](Alive(c) => /\ AnimationsOf(c) = {}
                                     /\ chart[c].width = container[c]
                                     /\ chart[c].picture = {Model(chart[c])})

=============================================================================
