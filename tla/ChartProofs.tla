----------------------------- MODULE ChartProofs -----------------------------
(***************************************************************************)
(* The safety properties of Chart for any number of charts and bars, and   *)
(* what Drawing shows and hits, for any reports, places and displays.      *)
(***************************************************************************)
EXTENDS Chart, Drawing, TLAPS

AnimationsOK == animations \subseteq Animations /\ request \in BOOLEAN

PlatformOK ==
  /\ container \in [Charts -> Nat]
  /\ resizer \in [Charts -> {"off", "waiting", "on"}]
  /\ scrolled \in [Charts -> BOOLEAN] /\ ticking \in [Charts -> BOOLEAN]
  /\ inputs \in 0 .. MaxInputs

\* A chart's record r, the animations A that are its own, and its resizer z.
Hovered(r) == /\ r.tip = r.lastActive /\ r.tipActive = r.lastActive
              /\ r.styled = {r.lastActive} \ {NoBar}
Animated(r, A) ==
  /\ \A a, b \in A : a = b
  /\ r.animating <=> \E a \in A : ~a.lazy
  /\ r.phase = "alive" => /\ A = {} => r.picture = {Model(r)}
                          /\ r.tipMoves => A # {}
  /\ r.phase # "alive" => A = {} /\ r.picture = {}
Good(r, A, z) == /\ Hovered(r) /\ Animated(r, A)
                 /\ r.phase = "alive" <=> z # "off"

\* The inductive invariant: the resizer ties what still calls back to the
\* chart that is alive.
Inv == /\ AnimationsOK /\ PlatformOK /\ chart \in [Charts -> ChartType]
       /\ FrameAskedFor
       /\ \A c \in Charts : Good(chart[c], AnimationsOf(c), resizer[c])

-----------------------------------------------------------------------------
(***************************************************************************)
(* The operators on the record of a chart.                                 *)
(***************************************************************************)
LEMMA DrawTyped ==
  ASSUME NEW r \in ChartType, NEW whole \in BOOLEAN
  PROVE  /\ Draw(r, whole) \in ChartType
         /\ Model(Draw(r, whole)) = Model(r)
         /\ Draw(r, whole).picture = IF whole THEN {Model(r)} ELSE {}
         /\ Draw(r, whole).tipMoves = ~whole
         /\ Draw(r, whole).phase = r.phase /\ Draw(r, whole).animating = r.animating
         /\ Draw(r, whole).tip = r.tip /\ Draw(r, whole).tipActive = r.tipActive
         /\ Draw(r, whole).styled = r.styled
         /\ Draw(r, whole).lastActive = r.lastActive
<1>1. Model(r) \in Pictures
  BY DEF Model, ChartType, Pictures, Maybe
<1> QED BY <1>1 DEF Draw, Model, ChartType, Pictures, Maybe

LEMMA UpdateTyped ==
  ASSUME NEW r \in ChartType
  PROVE  /\ update(r) \in ChartType /\ Hovered(update(r))
         /\ update(r).phase = r.phase /\ update(r).animating = r.animating
         /\ update(r).picture = r.picture /\ update(r).tipMoves = r.tipMoves
BY DEF update, ChartType, Hovered, Maybe

\* What a mouse event makes of the record.
PointedAt(r, bar) == tooltip(hover(r, bar), bar)

LEMMA PointedTyped ==
  ASSUME NEW r \in ChartType, NEW bar \in Maybe, Hovered(r)
  PROVE  /\ PointedAt(r, bar) \in ChartType /\ Hovered(PointedAt(r, bar))
         /\ PointedAt(r, bar).phase = r.phase
         /\ PointedAt(r, bar).animating = r.animating
         /\ PointedAt(r, bar).hidden = r.hidden
         /\ bar = r.lastActive => PointedAt(r, bar) = r
         /\ changed(r, bar) <=> bar # r.lastActive
<1> DEFINE h == hover(r, bar)
<1>1. /\ h \in ChartType /\ h.lastActive = bar /\ h.styled = {bar} \ {NoBar}
      /\ h.tip = r.tip /\ h.tipActive = r.tipActive /\ h.phase = r.phase
      /\ h.animating = r.animating /\ h.hidden = r.hidden
      /\ bar = r.lastActive => h = r
  BY DEF hover, ChartType, Maybe, Hovered
<1> HIDE DEF h
<1>2. CASE bar = r.tipActive
  BY <1>1, <1>2 DEF tooltip, PointedAt, h, Hovered, changed
<1>3. CASE bar # r.tipActive
  <2>1. PointedAt(r, bar) = [h EXCEPT !.tipActive = bar, !.tip = bar, !.tipMoves = TRUE]
    BY <1>1, <1>3 DEF tooltip, PointedAt, h
  <2> QED BY <2>1, <1>1, <1>3 DEF Hovered, changed, ChartType, Maybe
<1> QED BY <1>2, <1>3

-----------------------------------------------------------------------------
(***************************************************************************)
(* The list of animations.                                                 *)
(***************************************************************************)
LEMMA Replaced ==
  ASSUME NEW c \in Charts, NEW X, \A a \in X : a.chart = c,
         animations' = (animations \ AnimationsOf(c)) \union X
  PROVE  /\ AnimationsOf(c)' = X
         /\ \A d \in Charts : d # c => AnimationsOf(d)' = AnimationsOf(d)
<1>1. AnimationsOf(c)' = X
  BY DEF AnimationsOf
<1>2. ASSUME NEW d \in Charts, d # c
      PROVE  AnimationsOf(d)' = AnimationsOf(d)
  BY <1>2 DEF AnimationsOf
<1> QED BY <1>1, <1>2

LEMMA NewAnimations ==
  ASSUME ChartAssumption, NEW c \in Charts
  PROVE  /\ Whole(c) \in Animations /\ Whole(c).chart = c /\ Whole(c).lazy = FALSE
         /\ Lazy(c) \in Animations /\ Lazy(c).chart = c /\ Lazy(c).lazy = TRUE
BY DEF Whole, Lazy, Animations, ChartAssumption

\* A step that changes one chart, and the animations of that chart only.
LEMMA OneChart ==
  ASSUME Inv, NEW c \in Charts, NEW r \in ChartType, NEW X \in SUBSET Animations,
         NEW z \in {"off", "waiting", "on"},
         \A a \in X : a.chart = c,
         animations' = (animations \ AnimationsOf(c)) \union X,
         chart' = [chart EXCEPT ![c] = r],
         resizer' = [resizer EXCEPT ![c] = z],
         request' \in BOOLEAN, FrameAskedFor', PlatformOK',
         Good(r, X, z)
  PROVE  Inv'
<1>1. AnimationsOK' /\ chart' \in [Charts -> ChartType]
  BY DEF AnimationsOK, Inv
<1>2. ASSUME NEW d \in Charts
      PROVE  Good(chart[d], AnimationsOf(d), resizer[d])'
  <2>1. chart \in [Charts -> ChartType] /\ resizer \in [Charts -> {"off", "waiting", "on"}]
    BY DEF Inv, PlatformOK
  <2>2. CASE d = c
    <3>1. AnimationsOf(c)' = X BY Replaced
    <3>2. chart'[d] = r /\ resizer'[d] = z /\ AnimationsOf(d)' = X
      BY <2>1, <2>2, <3>1
    <3> QED BY <3>2 DEF Good, Hovered, Animated, Model
  <2>3. CASE d # c
    <3>1. AnimationsOf(d)' = AnimationsOf(d) BY <2>3, Replaced
    <3>2. chart'[d] = chart[d] /\ resizer'[d] = resizer[d] BY <2>1, <2>3
    <3>3. PICK R, A, Z : R = chart[d] /\ A = AnimationsOf(d) /\ Z = resizer[d]
      OBVIOUS
    <3>4. Good(R, A, Z) /\ R \in ChartType BY <3>3, <2>1 DEF Inv
    <3>5. chart'[d] = R /\ AnimationsOf(d)' = A /\ resizer'[d] = Z
      BY <3>1, <3>2, <3>3
    <3>6. Hovered(chart[d])' BY <3>4, <3>5 DEF Good, Hovered
    <3>7. Animated(chart[d], AnimationsOf(d))'
      <4>1. Animated(R, A) BY <3>4 DEF Good
      <4>2. \A a, b \in AnimationsOf(d)' : a = b BY <4>1, <3>5 DEF Animated
      <4>3. chart'[d].animating <=> \E a \in AnimationsOf(d)' : ~a.lazy
        BY <4>1, <3>5 DEF Animated
      <4>4. Model(chart[d])' = Model(R) BY <3>5
      <4>5. chart'[d].phase = "alive" =>
              /\ AnimationsOf(d)' = {} => chart'[d].picture = {Model(chart[d])'}
              /\ chart'[d].tipMoves => AnimationsOf(d)' # {}
        BY <4>1, <4>4, <3>5 DEF Animated
      <4>6. chart'[d].phase # "alive" => AnimationsOf(d)' = {} /\ chart'[d].picture = {}
        BY <4>1, <3>5 DEF Animated
      <4> QED BY <4>2, <4>3, <4>5, <4>6 DEF Animated
    <3> QED BY <3>4, <3>5, <3>6, <3>7 DEF Good
  <2> QED BY <2>2, <2>3
<1> QED BY <1>1, <1>2 DEF Inv

LEMMA InitInv == ASSUME ChartAssumption, Init PROVE Inv
<1>1. Blank \in ChartType
  BY DEF Blank, ChartType, Maybe
<1>2. \A c \in Charts : AnimationsOf(c) = {}
  BY DEF Init, ServiceInit, AnimationsOf
<1>3. Good(Blank, {}, "off")
  BY DEF Good, Hovered, Animated, Blank
<1>4. AnimationsOK /\ FrameAskedFor
  BY DEF Init, ServiceInit, AnimationsOK, FrameAskedFor
<1>5. scrolled \in [Charts -> BOOLEAN] /\ ticking \in [Charts -> BOOLEAN]
  BY Zenon DEF Init
<1>6. PlatformOK
  BY <1>5 DEF Init, PlatformOK, ChartAssumption
<1> QED BY <1>1, <1>2, <1>3, <1>4, <1>6 DEF Init, Inv

-----------------------------------------------------------------------------
(***************************************************************************)
(* The steps.                                                              *)
(***************************************************************************)
\* render() of a chart whose record was updated to r.
LEMMA RenderStep ==
  ASSUME ChartAssumption, Inv, NEW c \in Charts, NEW r \in ChartType,
         NEW z \in {"waiting", "on"},
         Hovered(r), r.phase = "alive", render(c, r),
         resizer' = [resizer EXCEPT ![c] = z], PlatformOK'
  PROVE  Inv'
<1> DEFINE s == [r EXCEPT !.animating = TRUE]
           X == {Whole(c)}
<1>1. s \in ChartType /\ Hovered(s) /\ s.phase = "alive" /\ s.animating = TRUE
  BY DEF ChartType, Hovered
<1>2. X \in SUBSET Animations /\ \A a \in X : a.chart = c /\ a.lazy = FALSE
  BY NewAnimations
<1>3. /\ animations' = (animations \ AnimationsOf(c)) \union X
      /\ request' = (request \/ animations = {})
      /\ chart' = [chart EXCEPT ![c] = s]
  BY <1>2, NewAnimations DEF render, addAnimation
<1>4. request' \in BOOLEAN /\ FrameAskedFor'
  BY <1>3 DEF Inv, FrameAskedFor, AnimationsOK
<1>5. Good(s, X, z)
  <2>1. \A a, b \in X : a = b OBVIOUS
  <2>2. X # {} /\ \E a \in X : ~a.lazy BY <1>2
  <2> HIDE DEF s, X
  <2> QED BY <1>1, <2>1, <2>2 DEF Good, Animated
<1> HIDE DEF s, X
<1> QED BY <1>1, <1>2, <1>3, <1>4, <1>5, OneChart

LEMMA ConstructStep ==
  ASSUME ChartAssumption, Inv, NEW c \in Charts, construct(c)
  PROVE  Inv'
<1> DEFINE b == [Blank EXCEPT !.phase = "alive", !.width = container[c]]
<1>1. b \in ChartType /\ b.phase = "alive"
  BY DEF Inv, PlatformOK, Blank, ChartType, Maybe
<1>2. update(b) \in ChartType /\ Hovered(update(b)) /\ update(b).phase = "alive"
  BY <1>1, UpdateTyped
<1>3. PlatformOK' /\ resizer' = [resizer EXCEPT ![c] = "waiting"] /\ render(c, update(b))
  BY DEF Inv, PlatformOK, construct, Input
<1> QED BY <1>2, <1>3, RenderStep

LEMMA ClickLegendStep ==
  ASSUME ChartAssumption, Inv, NEW c \in Charts, ClickLegend(c)
  PROVE  Inv'
<1> DEFINE p == PointedAt(chart[c], NoBar)
           h == [p EXCEPT !.hidden = ~@]
<1>1. chart[c] \in ChartType /\ Hovered(chart[c]) /\ chart[c].phase = "alive"
      /\ resizer[c] \in {"waiting", "on"}
  BY DEF ClickLegend, Alive, Inv, Good, PlatformOK
<1>2. p \in ChartType /\ p.phase = "alive"
  BY <1>1, PointedTyped DEF Maybe
<1>3. h \in ChartType /\ h.phase = "alive"
  <2> HIDE DEF p
  <2> QED BY <1>2 DEF ChartType
<1>4. render(c, update(h)) /\ UNCHANGED platform /\ inputs' \in 0 .. MaxInputs
  BY DEF ClickLegend, PointedAt, Input, Inv, PlatformOK
<1>5. PlatformOK' /\ resizer' = [resizer EXCEPT ![c] = resizer[c]]
  BY <1>4 DEF Inv, PlatformOK, platform
<1> HIDE DEF h
<1>6. update(h) \in ChartType /\ Hovered(update(h)) /\ update(h).phase = "alive"
  BY <1>3, UpdateTyped
<1> QED BY <1>1, <1>4, <1>5, <1>6, RenderStep

LEMMA MouseStep ==
  ASSUME ChartAssumption, Inv, NEW c \in Charts, MouseEvent(c)
  PROVE  Inv'
<1>1. PICK bar \in Maybe : eventHandler(c, chart[c], bar)
  BY DEF MouseEvent, Maybe
<1>2. PICK r, A, z : r = chart[c] /\ A = AnimationsOf(c) /\ z = resizer[c]
  OBVIOUS
<1> DEFINE p == PointedAt(r, bar)
<1>3. /\ r \in ChartType /\ Hovered(r) /\ Animated(r, A) /\ r.phase = "alive"
      /\ z \in {"waiting", "on"} /\ A \subseteq animations
      /\ A \in SUBSET Animations /\ \A a \in A : a.chart = c
  BY <1>2 DEF MouseEvent, Alive, Inv, Good, PlatformOK, AnimationsOK, AnimationsOf
<1>4. /\ p \in ChartType /\ Hovered(p) /\ p.phase = "alive"
      /\ p.animating = r.animating
      /\ bar = r.lastActive => p = r
      /\ changed(r, bar) <=> bar # r.lastActive
  BY <1>3, PointedTyped
<1>5. UNCHANGED platform /\ inputs' \in 0 .. MaxInputs
  BY DEF MouseEvent, Input, Inv, PlatformOK
<1>6. PlatformOK' /\ resizer' = [resizer EXCEPT ![c] = z]
  BY <1>2, <1>5 DEF Inv, PlatformOK, platform
<1>7. /\ chart' = [chart EXCEPT ![c] = p]
      /\ IF bar # r.lastActive /\ ~r.animating THEN restartAnimation(Lazy(c))
         ELSE UNCHANGED service
  BY <1>1, <1>2, <1>4 DEF eventHandler, PointedAt
<1> HIDE DEF p
<1>8. CASE bar # r.lastActive /\ ~r.animating
  <2>1. restartAnimation(Lazy(c)) BY <1>7, <1>8
  <2> DEFINE X == {Lazy(c)}
  <2>2. X \in SUBSET Animations /\ \A a \in X : a.chart = c /\ a.lazy = TRUE
    BY NewAnimations
  <2>3. /\ animations' = (animations \ AnimationsOf(c)) \union X
        /\ request' = (request \/ animations \ AnimationsOf(c) = {})
    BY <2>1, NewAnimations DEF restartAnimation
  <2>4. request' \in BOOLEAN /\ FrameAskedFor'
    BY <2>3 DEF Inv, FrameAskedFor, AnimationsOK
  <2>5. Good(p, X, z)
    <3>1. \A a, b \in X : a = b OBVIOUS
    <3>2. X # {} /\ ~\E a \in X : ~a.lazy BY <2>2
    <3> HIDE DEF X
    <3> QED BY <1>3, <1>4, <1>8, <3>1, <3>2 DEF Good, Animated
  <2> HIDE DEF X
  <2> QED BY <1>3, <1>4, <1>6, <1>7, <2>2, <2>3, <2>4, <2>5, OneChart
<1>9. CASE ~(bar # r.lastActive /\ ~r.animating)
  <2>1. UNCHANGED service BY <1>7, <1>9
  <2>2. /\ animations' = (animations \ AnimationsOf(c)) \union A
        /\ request' \in BOOLEAN /\ FrameAskedFor'
    BY <1>2, <1>3, <2>1 DEF service, Inv, FrameAskedFor, AnimationsOK
  <2>3. Good(p, A, z)
    <3>1. CASE p = r BY <1>3, <3>1 DEF Good
    <3>2. CASE r.animating
      <4>1. A # {} BY <1>3, <3>2 DEF Animated
      <4> QED BY <1>3, <1>4, <4>1 DEF Good, Animated
    <3> QED BY <1>4, <1>9, <3>1, <3>2
  <2> QED BY <1>3, <1>4, <1>6, <1>7, <2>2, <2>3, OneChart
<1> QED BY <1>8, <1>9

\* A step of the platform that touches no chart and no animation.
LEMMA PlatformStep ==
  ASSUME Inv, PlatformOK', UNCHANGED <<service, chart>>,
         \A c \in Charts : resizer'[c] # "off" <=> resizer[c] # "off"
  PROVE  Inv'
<1>1. ASSUME NEW c \in Charts PROVE Good(chart[c], AnimationsOf(c), resizer[c])'
  <2>1. PICK R, A, Z : R = chart[c] /\ A = AnimationsOf(c) /\ Z = resizer[c]
    OBVIOUS
  <2>2. chart'[c] = R /\ AnimationsOf(c)' = A
    BY <2>1 DEF service, AnimationsOf
  <2>3. Hovered(R) /\ Animated(R, A) /\ (R.phase = "alive" <=> Z # "off")
    BY <2>1 DEF Inv, Good
  <2>4. Hovered(chart[c])' /\ Animated(chart[c], AnimationsOf(c))'
    BY <2>2, <2>3
  <2> QED BY <2>1, <2>2, <2>3, <2>4 DEF Good
<1>2. AnimationsOK' /\ FrameAskedFor' /\ chart' \in [Charts -> ChartType]
  BY DEF Inv, AnimationsOK, FrameAskedFor, service
<1> QED BY <1>1, <1>2 DEF Inv

LEMMA ContainerStep ==
  ASSUME ChartAssumption, Inv, NEW c \in Charts, ContainerResizes(c)
  PROVE  Inv'
<1>1. PlatformOK'
  <2>1. scrolled' \in [Charts -> BOOLEAN]
    <3>1. scrolled \in [Charts -> BOOLEAN] /\ (scrolled[c] \/ resizer[c] = "on") \in BOOLEAN
      BY DEF Inv, PlatformOK
    <3> QED BY <3>1 DEF ContainerResizes
  <2> QED BY <2>1 DEF Inv, PlatformOK, ContainerResizes, Input
<1> QED BY <1>1, PlatformStep DEF ContainerResizes

LEMMA RenderedStep ==
  ASSUME ChartAssumption, Inv, NEW c \in Charts, Rendered(c)
  PROVE  Inv'
<1>1. PlatformOK'
  BY DEF Inv, PlatformOK, Rendered, attach
<1>2. \A d \in Charts : resizer'[d] # "off" <=> resizer[d] # "off"
  BY DEF Inv, PlatformOK, Rendered, attach
<1> QED BY <1>1, <1>2, PlatformStep DEF Rendered

LEMMA ScrollStep ==
  ASSUME ChartAssumption, Inv, NEW c \in Charts, Scroll(c)
  PROVE  Inv'
<1>1. PlatformOK'
  BY DEF Inv, PlatformOK, Scroll
<1> QED BY <1>1, PlatformStep DEF Scroll

LEMMA ResizeStep ==
  ASSUME ChartAssumption, Inv, NEW c \in Charts, ResizeFrame(c)
  PROVE  Inv'
<1>1. PlatformOK' /\ UNCHANGED resizer
  BY DEF Inv, PlatformOK, ResizeFrame
<1>2. CASE UNCHANGED <<service, chart>>
  BY <1>1, <1>2, PlatformStep
<1>3. CASE ~UNCHANGED <<service, chart>>
  <2> DEFINE u == update([chart[c] EXCEPT !.width = container[c]])
             r == [Draw(u, TRUE) EXCEPT !.animating = FALSE]
  <2>1. listens(c) /\ cancelAnimation(c) /\ chart' = [chart EXCEPT ![c] = r]
    BY <1>3, Zenon DEF ResizeFrame, resize
  <2>2. chart[c] \in ChartType /\ container[c] \in Nat /\ resizer[c] \in {"waiting", "on"}
        /\ chart[c].phase = "alive"
    BY <2>1 DEF Inv, Good, PlatformOK, listens
  <2>3. /\ [chart[c] EXCEPT !.width = container[c]] \in ChartType
        /\ [chart[c] EXCEPT !.width = container[c]].phase = "alive"
    BY <2>2 DEF ChartType
  <2>4. u \in ChartType /\ Hovered(u) /\ u.phase = "alive"
    BY <2>3, UpdateTyped
  <2> HIDE DEF u
  <2> DEFINE d == Draw(u, TRUE)
  <2>5. /\ d \in ChartType /\ Hovered(d) /\ d.phase = "alive"
        /\ d.picture = {Model(d)} /\ d.tipMoves = FALSE
    BY <2>4, DrawTyped DEF Hovered
  <2> HIDE DEF d
  <2>6. r = [d EXCEPT !.animating = FALSE] BY DEF d
  <2>7. /\ r \in ChartType /\ Hovered(r) /\ r.phase = "alive"
        /\ r.picture = {Model(r)} /\ r.tipMoves = FALSE /\ r.animating = FALSE
    BY <2>5, <2>6 DEF ChartType, Hovered, Model
  <2> HIDE DEF r
  <2>8. Good(r, {}, resizer[c])
    BY <2>2, <2>7 DEF Good, Animated
  <2>9. /\ animations' = (animations \ AnimationsOf(c)) \union {}
        /\ request' \in BOOLEAN /\ FrameAskedFor'
    BY <2>1 DEF cancelAnimation, Inv, AnimationsOK, FrameAskedFor
  <2>10. resizer' = [resizer EXCEPT ![c] = resizer[c]]
    BY <1>1 DEF Inv, PlatformOK
  <2>11. {} \in SUBSET Animations /\ \A a \in {} : a.chart = c OBVIOUS
  <2>12. PICK q \in ChartType, z \in {"off", "waiting", "on"} : q = r /\ z = resizer[c]
    BY <2>2, <2>7
  <2>13. /\ PlatformOK' /\ chart' = [chart EXCEPT ![c] = q]
         /\ resizer' = [resizer EXCEPT ![c] = z] /\ Good(q, {}, z)
    BY <1>1, <2>1, <2>8, <2>10, <2>12
  <2> QED BY <2>9, <2>11, <2>12, <2>13, OneChart
<1> QED BY <1>2, <1>3

LEMMA DestroyStep ==
  ASSUME ChartAssumption, Inv, NEW c \in Charts, destroy(c)
  PROVE  Inv'
<1> DEFINE r == [chart[c] EXCEPT !.phase = "destroyed", !.picture = {}, !.animating = FALSE]
<1>1. chart[c] \in ChartType /\ Hovered(chart[c])
  BY DEF Inv, Good
<1>2. r \in ChartType /\ Hovered(r) /\ r.phase = "destroyed" /\ r.picture = {}
      /\ r.animating = FALSE
  BY <1>1 DEF ChartType, Hovered
<1>3. chart' = [chart EXCEPT ![c] = r] /\ resizer' = [resizer EXCEPT ![c] = "off"]
      /\ cancelAnimation(c)
  BY DEF destroy
<1> HIDE DEF r
<1>4. Good(r, {}, "off")
  BY <1>2 DEF Good, Animated
<1>5. PlatformOK'
  BY DEF Inv, PlatformOK, destroy, Input
<1>6. /\ animations' = (animations \ AnimationsOf(c)) \union {}
      /\ request' \in BOOLEAN /\ FrameAskedFor'
  BY <1>3 DEF cancelAnimation, Inv, AnimationsOK, FrameAskedFor
<1> QED BY <1>2, <1>3, <1>4, <1>5, <1>6, OneChart

\* A frame draws every chart that has an animation, entirely if it ends.
LEMMA FrameStep ==
  ASSUME ChartAssumption, Inv, AnimationFrame
  PROVE  Inv'
<1>1. PICK n \in 1 .. Steps :
        /\ startDigest(n)
        /\ chart' = [c \in Charts |->
             IF AnimationsOf(c) = {} THEN chart[c]
             ELSE LET ends == AnimationsOf(c) \subseteq Ends(n)
                  IN  [Draw(chart[c], ends) EXCEPT !.animating = @ /\ ~ends]]
  BY DEF AnimationFrame
<1>2. n \in Nat \ {0}
  BY DEF ChartAssumption
<1>3. animations' = {[a EXCEPT !.left = @ - n] : a \in animations \ Ends(n)}
  BY <1>1 DEF startDigest, advance
<1>4. \A a \in animations \ Ends(n) :
        /\ [a EXCEPT !.left = @ - n] \in Animations
        /\ [a EXCEPT !.left = @ - n].chart = a.chart
        /\ [a EXCEPT !.left = @ - n].lazy = a.lazy
  BY <1>2 DEF Inv, AnimationsOK, Animations, Ends, ChartAssumption
<1>5. AnimationsOK' /\ FrameAskedFor'
  BY <1>1, <1>3, <1>4 DEF AnimationsOK, FrameAskedFor, startDigest
<1>6. PlatformOK' /\ UNCHANGED resizer
  BY DEF Inv, PlatformOK, AnimationFrame, platform
<1>7. ASSUME NEW c \in Charts
      PROVE  chart'[c] \in ChartType /\ Good(chart[c], AnimationsOf(c), resizer[c])'
  <2>1. PICK R, A, Z : R = chart[c] /\ A = AnimationsOf(c) /\ Z = resizer[c]
    OBVIOUS
  <2>2. R \in ChartType /\ Hovered(R) /\ Animated(R, A) /\ (R.phase = "alive" <=> Z # "off")
    BY <2>1 DEF Inv, Good
  <2>3. PICK B : B = AnimationsOf(c)'
    OBVIOUS
  <2>4. B = {[a EXCEPT !.left = @ - n] : a \in A \ Ends(n)}
    BY <1>3, <1>4, <2>1, <2>3 DEF AnimationsOf
  <2>5. A \subseteq animations BY <2>1 DEF AnimationsOf
  <2>6. resizer'[c] = Z BY <1>6, <2>1
  <2>7. CASE A = {}
    <3>1. B = {} /\ chart'[c] = R BY <1>1, <2>1, <2>4, <2>7
    <3>2. B = A BY <2>7, <3>1
    <3>3. Hovered(chart[c])' /\ Animated(chart[c], AnimationsOf(c))'
      BY <2>2, <2>3, <3>1, <3>2
    <3> QED BY <2>2, <2>6, <3>1, <3>3 DEF Good
  <2>8. CASE A # {}
    <3> DEFINE ends == A \subseteq Ends(n)
               d == Draw(R, ends)
               r == [d EXCEPT !.animating = @ /\ ~ends]
    <3>1. chart'[c] = r BY <1>1, <2>1, <2>8
    <3>2. ends \in BOOLEAN OBVIOUS
    <3> HIDE DEF ends
    <3>3. /\ d \in ChartType /\ Hovered(d) /\ d.phase = R.phase /\ d.animating = R.animating
          /\ d.picture = (IF ends THEN {Model(d)} ELSE {}) /\ d.tipMoves = ~ends
      <4>1. /\ d \in ChartType /\ d.phase = R.phase /\ d.animating = R.animating
            /\ Model(d) = Model(R) /\ d.tipMoves = ~ends
            /\ d.picture = (IF ends THEN {Model(R)} ELSE {})
            /\ d.tip = R.tip /\ d.tipActive = R.tipActive
            /\ d.styled = R.styled /\ d.lastActive = R.lastActive
        BY <2>2, <3>2, DrawTyped
      <4> HIDE DEF d
      <4> QED BY <2>2, <4>1 DEF Hovered
    <3> HIDE DEF d
    <3>4. /\ r \in ChartType /\ Hovered(r) /\ r.phase = R.phase
          /\ r.picture = (IF ends THEN {Model(r)} ELSE {}) /\ r.tipMoves = ~ends
      BY <3>2, <3>3 DEF ChartType, Hovered, Model
    <3>5. r.animating = (R.animating /\ ~ends)
      BY <3>3 DEF ChartType
    <3> HIDE DEF r
    <3>6. R.phase = "alive" BY <2>2, <2>8 DEF Animated
    <3>7. CASE ends
      <4>1. B = {} BY <2>4, <3>7 DEF ends
      <4>2. Animated(r, B) BY <3>4, <3>5, <3>6, <3>7, <4>1 DEF Animated
      <4> QED BY <2>2, <2>3, <2>6, <3>1, <3>4, <4>2 DEF Good
    <3>8. CASE ~ends
      <4>1. PICK a \in A : a \notin Ends(n) BY <3>8 DEF ends
      <4>2. A = {a} BY <2>2, <4>1 DEF Animated
      <4> DEFINE b == [a EXCEPT !.left = @ - n]
      <4>3. B = {b} BY <2>4, <4>1, <4>2
      <4>4. b.lazy = a.lazy BY <1>4, <2>5, <4>1
      <4> HIDE DEF b
      <4>5. R.animating <=> ~a.lazy BY <2>2, <4>2 DEF Animated
      <4>6. Animated(r, B)
        <5>1. \A x, y \in B : x = y BY <4>3
        <5>2. (\E x \in B : ~x.lazy) <=> ~a.lazy BY <4>3, <4>4
        <5>3. B # {} BY <4>3
        <5> QED BY <3>4, <3>5, <3>6, <3>8, <4>5, <5>1, <5>2, <5>3 DEF Animated
      <4> QED BY <2>2, <2>3, <2>6, <3>1, <3>4, <4>6 DEF Good
    <3> QED BY <3>7, <3>8
  <2> QED BY <2>7, <2>8
<1>8. chart' \in [Charts -> ChartType]
  BY <1>1, <1>7
<1> QED BY <1>5, <1>6, <1>7, <1>8 DEF Inv

LEMMA NextInv == ASSUME ChartAssumption, Inv, [Next]_vars PROVE Inv'
<1>1. CASE UNCHANGED vars
  <2>1. PlatformOK' /\ UNCHANGED <<service, chart, resizer>>
    BY <1>1 DEF vars, platform, Inv, PlatformOK
  <2> QED BY <2>1, PlatformStep
<1>2. CASE AnimationFrame BY <1>2, FrameStep
<1>3. ASSUME NEW c \in Charts, Browser(c) PROVE Inv'
  BY <1>3, RenderedStep, ScrollStep, ResizeStep DEF Browser
<1>4. ASSUME NEW c \in Charts, Page(c) PROVE Inv'
  BY <1>4, ConstructStep, MouseStep, ClickLegendStep, ContainerStep, DestroyStep DEF Page
<1> QED BY <1>1, <1>2, <1>3, <1>4 DEF Next

\* The inductive invariant holds, for every number of charts and bars.
THEOREM Invariance == ASSUME ChartAssumption PROVE Spec => []Inv
<1>1. Init => Inv BY InitInv
<1>2. Inv /\ [Next]_vars => Inv' BY NextInv
<1> QED BY <1>1, <1>2, PTL DEF Spec

-----------------------------------------------------------------------------
\* Fields, animations and the platform keep their types (Chart.js fields, the
\* service's list); an animation in the list has frames left.
THEOREM Typing == ASSUME ChartAssumption PROVE Spec => []TypeOK
<1>1. Inv => TypeOK
  BY DEF Inv, TypeOK, AnimationsOK, PlatformOK
<1> QED BY <1>1, Invariance, PTL

\* addAnimation() replaces: a chart never has two animations.
THEOREM OneAnimation == ASSUME ChartAssumption PROVE Spec => []OneAnimationEach
<1>1. ASSUME Inv, NEW a \in animations, NEW b \in animations, a.chart = b.chart
      PROVE  a = b
  <2>1. a.chart \in Charts BY <1>1 DEF Inv, AnimationsOK, Animations
  <2>2. a \in AnimationsOf(a.chart) /\ b \in AnimationsOf(a.chart)
    BY <1>1 DEF AnimationsOf
  <2> QED BY <1>1, <2>1, <2>2 DEF Inv, Good, Animated
<1>2. Inv => OneAnimationEach BY <1>1 DEF OneAnimationEach
<1> QED BY <1>2, Invariance, PTL

\* The service never sleeps on an animation.
THEOREM FrameIsAskedFor == ASSUME ChartAssumption PROVE Spec => []FrameAskedFor
<1>1. Inv => FrameAskedFor BY DEF Inv
<1> QED BY <1>1, Invariance, PTL

\* chart.animating tells of an animation that is not lazy.
THEOREM AnimatingTellsOfWhole == ASSUME ChartAssumption PROVE Spec => []AnimatingIsWhole
<1>1. Inv => AnimatingIsWhole BY DEF Inv, Good, Animated, AnimatingIsWhole
<1> QED BY <1>1, Invariance, PTL

\* A chart without an animation to come shows what its models say.
THEOREM NothingIsUnseen == ASSUME ChartAssumption PROVE Spec => []NothingUnseen
<1>1. Inv => NothingUnseen BY DEF Inv, Good, Animated, NothingUnseen, Alive
<1> QED BY <1>1, Invariance, PTL

\* The tooltip and the hover style are about the same bar, and a tooltip that
\* holds back hovers is being animated.
THEOREM TooltipFollows ==
  ASSUME ChartAssumption PROVE Spec => [](TooltipOfHovered /\ TooltipMovesAnimated)
<1>1. Inv => TooltipOfHovered
  BY DEF Inv, Good, Hovered, TooltipOfHovered
<1>2. Inv => TooltipMovesAnimated
  BY DEF Inv, Good, Animated, TooltipMovesAnimated, Alive
<1> QED BY <1>1, <1>2, Invariance, PTL

\* destroy() silences a chart, whatever was still to come.
THEOREM DestroyedStaysSilent == ASSUME ChartAssumption PROVE Spec => []DestroyedIsSilent
<1>1. Inv => DestroyedIsSilent BY DEF Inv, Good, Animated, DestroyedIsSilent
<1> QED BY <1>1, Invariance, PTL

-----------------------------------------------------------------------------
(***************************************************************************)
(* Drawing: the way from the screen to the chart and back.                 *)
(***************************************************************************)
LEMMA RoundedNear ==
  ASSUME NEW n \in Int, NEW d \in Nat \ {0}
  PROVE  /\ Rounded(n, d) \in Int
         /\ 2 * (Rounded(n, d) * d) <= 2 * n + d
         /\ 2 * n - d < 2 * (Rounded(n, d) * d)
<1>1. PICK m \in Int : m = 2 * n + d
  OBVIOUS
<1>2. PICK k \in Nat \ {0} : k = 2 * d
  BY ONLY d \in Nat \ {0}
<1>3. PICK q \in Int : q = m \div k
  BY ONLY <1>1, <1>2
<1>4. /\ k * q <= m /\ m < k * q + k
  BY ONLY <1>1, <1>2, <1>3
<1>5. k * q = 2 * (q * d)
  BY ONLY <1>2, <1>3, d \in Nat \ {0}
<1>6. Rounded(n, d) = q
  BY ONLY <1>1, <1>2, <1>3 DEF Rounded
<1>7. PICK y \in Int : y = q * d
  BY <1>3
<1>8. 2 * y <= 2 * n + d /\ 2 * n - d < 2 * y
  BY ONLY <1>1, <1>2, <1>4, <1>5, <1>7, n \in Int, d \in Nat \ {0}
<1> QED BY ONLY <1>3, <1>6, <1>7, <1>8

LEMMA BitmapIsDense ==
  ASSUME NEW size \in Nat, NEW ratio \in Nat \ {0}, NEW shown \in Nat, NEW bits \in Nat,
         shown <= size, bits = (size * ratio) \div 100, bits >= 2
  PROVE  shown * ratio <= 198 * bits
<1>1. PICK a \in Nat : a = size * ratio
  OBVIOUS
<1>2. PICK b \in Nat : b = shown * ratio
  OBVIOUS
<1>3. PICK gap \in Nat : size = shown + gap
  BY ONLY shown \in Nat, size \in Nat, shown <= size
<1>4. PICK g \in Nat : g = gap * ratio
  BY <1>3
<1>5. a = b + g
  BY ONLY <1>1, <1>2, <1>3, <1>4, shown \in Nat, ratio \in Nat \ {0}
<1>6. a < 100 * bits + 100
  BY ONLY <1>1, bits = (size * ratio) \div 100
<1> QED BY ONLY <1>1, <1>2, <1>4, <1>5, <1>6, bits \in Nat, bits >= 2

\* A point x is shown where it is, up to a pixel.
ShownNear(x, bits, shown, ratio) ==
  /\ Rounded(x * bits * 100, shown * ratio) \in Int
  /\ (Rounded(x * bits * 100, shown * ratio) * ratio * shown) \div bits - 100 * x \in -100..100

LEMMA PixelIsShown ==
  ASSUME NEW size \in Nat, NEW ratio \in Nat \ {0}, NEW shown \in Nat \ {0}, NEW bits \in Nat,
         shown <= size, bits = (size * ratio) \div 100, bits >= 2, NEW x \in Int
  PROVE  ShownNear(x, bits, shown, ratio)
<1>1. PICK d \in Nat \ {0} : d = shown * ratio
  OBVIOUS
<1>2. PICK n \in Int : n = x * bits * 100
  OBVIOUS
<1>3. PICK e \in Int : e = Rounded(n, d)
  BY RoundedNear, <1>1, <1>2
<1>4. PICK y \in Int : y = e * d
  BY <1>1, <1>3
<1>5. 2 * y <= 2 * n + d /\ 2 * n - d < 2 * y
  BY ONLY RoundedNear, <1>1, <1>2, <1>3, <1>4
<1>6. d <= 198 * bits
  BY BitmapIsDense, <1>1
<1>7. e * ratio * shown = y
  BY ONLY <1>1, <1>3, <1>4, ratio \in Nat \ {0}, shown \in Nat \ {0}
<1>8. PICK q \in Int : q = y \div bits
  BY ONLY <1>4, bits \in Nat, bits >= 2
<1>9. bits * q <= y /\ y < bits * q + bits
  BY ONLY <1>4, <1>8, bits \in Nat, bits >= 2
<1>10. PICK u \in Int : u = q - 100 * x
  BY <1>8
<1>11. bits * q = n + bits * u
  <2>1. q = u + 100 * x
    BY ONLY <1>8, <1>10, x \in Int
  <2>2. PICK v \in Int : v = x * bits
    OBVIOUS
  <2>3. n = 100 * v
    BY ONLY <1>2, <2>2
  <2>4. bits * (u + 100 * x) = bits * u + 100 * (x * bits)
    BY ONLY <1>10, bits \in Nat, x \in Int
  <2> QED BY ONLY <2>1, <2>2, <2>3, <2>4, <1>2
<1>12. bits * u <= 99 * bits /\ bits * u > -100 * bits
  BY ONLY <1>1, <1>2, <1>4, <1>5, <1>6, <1>8, <1>9, <1>10, <1>11, bits \in Nat
<1>13. u <= 99
  <2> SUFFICES ASSUME u >= 100 PROVE FALSE
    BY <1>10
  <2>1. PICK v \in Nat : u = 100 + v
    BY ONLY <1>10, u >= 100
  <2>2. bits * u = 100 * bits + bits * v /\ bits * v \in Nat
    BY ONLY <2>1, bits \in Nat
  <2> QED BY ONLY <1>12, <2>2, <1>10, bits \in Nat, bits >= 2
<1>14. u >= -100
  <2> SUFFICES ASSUME u <= -101 PROVE FALSE
    BY <1>10
  <2>1. PICK v \in Nat : u = -101 - v
    BY ONLY <1>10, u <= -101
  <2>2. bits * u = -(101 * bits) - bits * v /\ bits * v \in Nat
    BY ONLY <2>1, bits \in Nat
  <2> QED BY ONLY <1>12, <2>2, <1>10, bits \in Nat, bits >= 2
<1>15. Rounded(x * bits * 100, shown * ratio) = e
  BY ONLY <1>1, <1>2, <1>3
<1>16. u \in -100..100
  BY ONLY <1>10, <1>13, <1>14
<1> QED BY ONLY <1>3, <1>7, <1>8, <1>10, <1>15, <1>16 DEF ShownNear

\* The sizes of a screen, and a screen s whose bitmap is as its ratio says, scaled
\* as often, and shown in the size of the chart unless there is nothing to scale.
Sizes == [width : Nat, height : Nat]
Screens == [size : Sizes, bitmap : Sizes, scale : Nat, ratio : Nat \ {0}, style : SUBSET Sizes]
Dense(size, ratio) == (size.width * ratio) \div 100 >= 2 /\ (size.height * ratio) \div 100 >= 2
ScreenFits(s) ==
  /\ s \in Screens
  /\ s.scale = s.ratio /\ Dense(s.size, s.ratio)
  /\ s.bitmap.width = (s.size.width * s.ratio) \div 100
  /\ s.bitmap.height = (s.size.height * s.ratio) \div 100
  /\ s.style = {s.size} \/ (s.style = {} /\ s.ratio = 100)

LEMMA PlaceFits ==
  ASSUME NEW p \in Places
  PROVE  /\ NewSize(p) \in Sizes /\ Dense(NewSize(p), p.ratio) /\ p.ratio \in Nat \ {0}
         /\ p.left \in Int /\ p.top \in Int /\ p.edge \in Int
<1>1. NewSize(p).width \in Nat /\ NewSize(p).height \in Nat
  BY DrawingAssumption
<1>2. NewSize(p) \in Sizes
  BY <1>1 DEF NewSize, Sizes
<1>3. Dense(NewSize(p), p.ratio)
  BY DrawingAssumption DEF Dense, Bitmap
<1> QED BY <1>2, <1>3, DrawingAssumption

\* A canvas that has the size of its bitmap.
Unscaled(s) == s \in Screens /\ s.scale = 100 /\ s.bitmap = s.size
               /\ (s.style = {s.size} \/ s.style = {})

LEMMA ScaledTyped ==
  ASSUME NEW s \in Screens, NEW ratio \in Nat \ {0}
  PROVE  retinaScale(s, ratio) \in Screens /\ retinaScale(s, ratio).size = s.size
<1>1. Bitmap(s.size, ratio) \in Sizes
  BY DEF Bitmap, Sizes, Screens
<1>2. s.size \in Sizes
  BY DEF Screens
<1> QED BY <1>1, <1>2 DEF retinaScale, Screens

LEMMA ScaledFits ==
  ASSUME NEW s, Unscaled(s), NEW ratio \in Nat \ {0}, Dense(s.size, ratio)
  PROVE  ScreenFits(retinaScale(s, ratio))
<1>1. s \in Screens /\ s.size \in Sizes
  BY DEF Unscaled, Screens
<1>2. retinaScale(s, ratio) \in Screens /\ retinaScale(s, ratio).size = s.size
  BY <1>1, ScaledTyped
<1>3. CASE ratio = 100
  <2> DEFINE r == [s EXCEPT !.ratio = ratio]
  <2>1. retinaScale(s, ratio) = r
    BY <1>3 DEF retinaScale
  <2>2. /\ r.size = s.size /\ r.bitmap = s.size /\ r.scale = 100 /\ r.ratio = 100
        /\ r.style = s.style
    BY <1>1, <1>3 DEF Unscaled, Screens
  <2>3. s.size.width \in Nat /\ s.size.height \in Nat
    BY <1>1 DEF Sizes
  <2>4. (s.size.width * 100) \div 100 = s.size.width
        /\ (s.size.height * 100) \div 100 = s.size.height
    BY <2>3
  <2>5. r.bitmap.width = (r.size.width * r.ratio) \div 100
        /\ r.bitmap.height = (r.size.height * r.ratio) \div 100
    BY <2>2, <2>4
  <2>6. Dense(r.size, r.ratio)
    BY <2>2, <1>3
  <2>7. r.style = {r.size} \/ (r.style = {} /\ r.ratio = 100)
    BY <2>2 DEF Unscaled
  <2>8. r \in Screens /\ r.scale = r.ratio
    BY <1>2, <2>1, <2>2
  <2>9. ScreenFits(r)
    BY <2>5, <2>6, <2>7, <2>8 DEF ScreenFits
  <2> QED BY <2>1, <2>9
<1>4. CASE ratio # 100
  <2> DEFINE r == retinaScale(s, ratio)
  <2>1. /\ r.size = s.size /\ r.bitmap = Bitmap(s.size, ratio) /\ r.scale = ratio
        /\ r.ratio = ratio /\ r.style = IF s.style = {} THEN {s.size} ELSE s.style
    BY <1>1, <1>4 DEF retinaScale, Screens
  <2>2. r.bitmap.width = (s.size.width * ratio) \div 100
        /\ r.bitmap.height = (s.size.height * ratio) \div 100
    BY <2>1 DEF Bitmap
  <2>3. r.style = {s.size}
    BY <2>1 DEF Unscaled
  <2> QED BY <1>2, <2>1, <2>2, <2>3 DEF ScreenFits
<1> QED BY <1>3, <1>4

LEMMA ResizedFits ==
  ASSUME NEW s \in Screens, NEW p \in Places, s.size = NewSize(p) => ScreenFits(s)
  PROVE  ScreenFits(resizeCanvas(s, p))
<1>1. CASE NewSize(p) = s.size
  BY <1>1 DEF resizeCanvas
<1>2. CASE NewSize(p) # s.size
  <2>1. PICK size \in Sizes : size = NewSize(p)
    BY PlaceFits
  <2> DEFINE r == [s EXCEPT !.size = size, !.bitmap = size, !.scale = 100, !.style = {size}]
  <2>2. Unscaled(r) /\ r.size = size
    BY <2>1 DEF Unscaled, Screens
  <2>3. ScreenFits(retinaScale(r, p.ratio))
    BY <2>1, <2>2, PlaceFits, ScaledFits
  <2> QED BY <1>2, <2>1, <2>3 DEF resizeCanvas
<1> QED BY <1>1, <1>2

LEMMA NewCanvasFits ==
  ASSUME NEW p \in Places
  PROVE  ScreenFits(NewCanvas(p))
<1> DEFINE s == [size |-> Attributes, bitmap |-> Attributes, scale |-> 100,
                 ratio |-> 100, style |-> {}]
           r == retinaScale(s, p.ratio)
<1>1. Attributes \in Sizes
  BY DEF Attributes, Sizes
<1>2. s \in Screens
  BY <1>1 DEF Screens
<1>3. Unscaled(s) /\ s.size = Attributes
  BY <1>2 DEF Unscaled
<1>4. r \in Screens /\ r.size = s.size
  BY <1>2, PlaceFits, ScaledTyped
<1>5. r.size = NewSize(p) => ScreenFits(r)
  BY <1>3, <1>4, PlaceFits, ScaledFits
<1> QED BY <1>4, <1>5, ResizedFits DEF NewCanvas

LEMMA Smallest ==
  ASSUME NEW w \in Nat \ {0}, NEW S, S = {} \/ \E m \in Nat \ {0} : S = {m}
  PROVE  Min({w} \union S) \in Nat \ {0} /\ Min({w} \union S) <= w
<1>1. CASE S = {}
  BY <1>1 DEF Min
<1>2. CASE \E m \in Nat \ {0} : S = {m}
  <2>1. PICK m \in Nat \ {0} : S = {m}
    BY <1>2
  <2>2. PICK k \in {w, m} : \A y \in {w, m} : k <= y
    OBVIOUS
  <2>3. {w} \union S = {w, m}
    BY <2>1
  <2>4. Min({w, m}) \in {w, m} /\ \A y \in {w, m} : Min({w, m}) <= y
    BY <2>2 DEF Min
  <2> QED BY <2>3, <2>4
<1> QED BY <1>1, <1>2

LEMMA ShownInPlace ==
  ASSUME NEW s, ScreenFits(s), NEW p \in Places
  PROVE  /\ DisplaySize(s, p).width \in Nat \ {0} /\ DisplaySize(s, p).width <= s.size.width
         /\ DisplaySize(s, p).height = s.size.height
         /\ s.size.height \in Nat \ {0} /\ s.size.width \in Nat
<1> DEFINE size == IF s.style = {} THEN s.bitmap ELSE Only(s.style)
           most == {parseMaxStyle(limit, p.client - p.padding) : limit \in p.own}
<1>1. /\ s \in Screens /\ s.size \in Sizes /\ s.ratio \in Nat \ {0} /\ s.bitmap \in Sizes
      /\ s.size.width \in Nat /\ s.size.height \in Nat
  BY DEF ScreenFits, Screens, Sizes
<1>2. s.size.width # 0 /\ s.size.height # 0
  BY <1>1 DEF ScreenFits, Dense
<1>3. size \in Sizes /\ size.width = s.size.width /\ size.height = s.size.height
  <2>1. CASE s.style = {}
    <3>1. s.ratio = 100
      BY <2>1 DEF ScreenFits
    <3>2. s.bitmap.width = (s.size.width * 100) \div 100
          /\ s.bitmap.height = (s.size.height * 100) \div 100
      BY <3>1 DEF ScreenFits
    <3> QED BY <1>1, <2>1, <3>2
  <2>2. CASE s.style # {}
    <3>1. s.style = {s.size}
      BY <2>2 DEF ScreenFits
    <3> QED BY <1>1, <2>2, <3>1 DEF Only
  <2> QED BY <2>1, <2>2
<1>4. most = {} \/ \E m \in Nat \ {0} : most = {m}
  <2>1. CASE p.own = {}
    BY <2>1
  <2>2. CASE p.own # {}
    <3>1. PICK limit \in p.own : TRUE
      BY <2>2
    <3>2. p.own = {limit} /\ parseMaxStyle(limit, p.client - p.padding) \in Nat \ {0}
      BY <3>1, DrawingAssumption
    <3> QED BY <3>2
  <2> QED BY <2>1, <2>2
<1>5. PICK w \in Nat \ {0} : w = size.width /\ w = s.size.width
  BY <1>1, <1>2, <1>3
<1>6. Min({w} \union most) \in Nat \ {0} /\ Min({w} \union most) <= w
  BY ONLY <1>4, Smallest, w \in Nat \ {0}
<1>7. DisplaySize(s, p).width = Min({w} \union most) /\ DisplaySize(s, p).height = size.height
  BY <1>3, <1>5 DEF DisplaySize, Sizes
<1> QED BY <1>1, <1>2, <1>3, <1>5, <1>6, <1>7

\* A place on the screen is shown where it is.
LEMMA SeenWhereItIs ==
  ASSUME NEW s, ScreenFits(s), NEW p \in Places, NEW x \in Int, NEW y \in Int
  PROVE  LET e == getRelativePosition(s, p, x, y)
             seen == ShownAt(s, p, e.x, e.y)
         IN  seen.x - 100 * x \in -100..100 /\ seen.y - 100 * y \in -100..100
<1> DEFINE e == getRelativePosition(s, p, x, y)
           seen == ShownAt(s, p, e.x, e.y)
<1>1. PICK w \in Nat \ {0} : w = DisplaySize(s, p).width /\ w <= s.size.width
  BY ShownInPlace
<1>2. PICK h \in Nat \ {0} : h = DisplaySize(s, p).height /\ h = s.size.height
  BY ShownInPlace
<1>3. PICK r \in Nat \ {0} : r = s.ratio /\ r = s.scale
  BY DEF ScreenFits, Screens
<1>4. PICK W \in Nat : W = s.size.width
  BY ShownInPlace
<1>5. PICK B \in Nat : B = s.bitmap.width /\ B = (W * r) \div 100 /\ B >= 2
  BY <1>3, <1>4 DEF ScreenFits, Dense
<1>6. PICK C \in Nat : C = s.bitmap.height /\ C = (h * r) \div 100 /\ C >= 2
  BY <1>2, <1>3 DEF ScreenFits, Dense
<1>7. PICK a \in Int : a = p.left + p.edge
  BY PlaceFits
<1>8. PICK b \in Int : b = p.top + p.edge
  BY PlaceFits
<1>9. PICK u \in Int : u = x - p.left - p.edge /\ u = x - a
  BY <1>7, PlaceFits
<1>10. PICK v \in Int : v = y - p.top - p.edge /\ v = y - b
  BY <1>8, PlaceFits
<1>11. e.x = Rounded(u * B * 100, w * r) /\ e.y = Rounded(v * C * 100, h * r)
  BY <1>1, <1>2, <1>3, <1>5, <1>6, <1>9, <1>10 DEF getRelativePosition
<1>12. seen.x = 100 * a + (e.x * r * w) \div B /\ seen.y = 100 * b + (e.y * r * h) \div C
  BY <1>1, <1>2, <1>3, <1>5, <1>6, <1>7, <1>8 DEF ShownAt
<1>13. ShownNear(u, B, w, r)
  <2>1. w <= W /\ w \in Nat \ {0}
    BY <1>1, <1>4
  <2> QED BY ONLY PixelIsShown, <2>1, <1>3, <1>4, <1>5, <1>9
<1>14. ShownNear(v, C, h, r)
  <2>1. h \in Nat /\ h <= h /\ h \in Nat \ {0}
    BY <1>2
  <2> QED BY ONLY PixelIsShown, <2>1, <1>3, <1>6, <1>10
<1>15. PICK m \in Int : m = (e.x * r * w) \div B /\ m - 100 * u \in -100..100
  <2>1. PICK k \in Int : k = e.x
    BY <1>11, <1>13 DEF ShownNear
  <2>2. (k * r * w) \div B - 100 * u \in -100..100
    BY ONLY <1>11, <1>13, <2>1, Zenon DEF ShownNear
  <2>3. (k * r * w) \div B \in Int
    BY ONLY <1>1, <1>3, <1>5, <2>1
  <2> QED BY ONLY <2>1, <2>2, <2>3, Zenon
<1>16. PICK n \in Int : n = (e.y * r * h) \div C /\ n - 100 * v \in -100..100
  <2>1. PICK k \in Int : k = e.y
    BY <1>11, <1>14 DEF ShownNear
  <2>2. (k * r * h) \div C - 100 * v \in -100..100
    BY ONLY <1>11, <1>14, <2>1, Zenon DEF ShownNear
  <2>3. (k * r * h) \div C \in Int
    BY ONLY <1>2, <1>3, <1>6, <2>1
  <2> QED BY ONLY <2>1, <2>2, <2>3, Zenon
<1>17. seen.x - 100 * x \in -100..100
  BY ONLY <1>7, <1>9, <1>12, <1>15, x \in Int
<1>18. seen.y - 100 * y \in -100..100
  BY ONLY <1>8, <1>10, <1>12, <1>16, y \in Int
<1> QED BY <1>17, <1>18
-----------------------------------------------------------------------------
DrawInv == ScreenFits(screen) /\ place \in Places /\ HoverShown /\ DOMAIN fill = DOMAIN picture.bars

LEMMA PlainShown ==
  ASSUME NEW bars, NEW c
  PROVE  /\ DOMAIN Plain(c, bars) = DOMAIN bars
         /\ \A b \in DOMAIN bars : Plain(c, bars)[b] = Read(c.fill[b[1]])
BY DEF Plain

LEMMA HoverMoves ==
  ASSUME HoverShown, DOMAIN fill = DOMAIN picture.bars, NEW now, now \subseteq DOMAIN picture.bars,
         hovering' = now, updateHoverStyle(now), UNCHANGED <<report, picture>>
  PROVE  HoverShown' /\ DOMAIN fill' = DOMAIN picture.bars'
<1> DEFINE off == removeHoverStyle(hovering, fill)
<1>1. /\ DOMAIN off = DOMAIN picture.bars
      /\ \A b \in DOMAIN picture.bars : off[b] = Read(report.fill[b[1]])
  BY DEF removeHoverStyle, HoverShown
<1>2. fill' = setHoverStyle(now, off)
  BY DEF updateHoverStyle
<1> HIDE DEF off
<1>3. /\ DOMAIN fill' = DOMAIN picture.bars
      /\ \A b \in DOMAIN picture.bars :
           fill'[b] = IF b \in now THEN getHoverColor(off[b]) ELSE off[b]
  BY <1>1, <1>2 DEF setHoverStyle
<1> QED BY <1>1, <1>3 DEF HoverShown

LEMMA Redrawn ==
  ASSUME NEW c, NEW s, Redraw(c, s)
  PROVE  HoverShown' /\ DOMAIN fill' = DOMAIN picture'.bars
<1>1. report' = c /\ fill' = Plain(c, picture'.bars) /\ hovering' = {}
  BY DEF Redraw
<1> QED BY <1>1, PlainShown DEF HoverShown

LEMMA DrawInvInit == DrawInit => DrawInv
<1> SUFFICES ASSUME DrawInit PROVE DrawInv
  OBVIOUS
<1>1. ScreenFits(screen) /\ place \in Places
  BY NewCanvasFits DEF DrawInit
<1>2. fill = Plain(report, picture.bars) /\ hovering = {}
  BY DEF DrawInit
<1> QED BY <1>1, <1>2, PlainShown DEF DrawInv, HoverShown

LEMMA DrawInvNext == DrawInv /\ [DrawNext]_drawVars => DrawInv'
<1> SUFFICES ASSUME DrawInv, [DrawNext]_drawVars PROVE DrawInv'
  OBVIOUS
<1> USE DEF DrawInv
<1>1. CASE Resize
  <2>1. PICK p \in Places \ {place} :
          /\ place' = p
          /\ IF resizeCanvas(screen, p) = screen
             THEN UNCHANGED <<report, screen, picture, hovering, fill, about>>
             ELSE Redraw(report, resizeCanvas(screen, p))
    BY <1>1 DEF Resize
  <2>2. screen \in Screens
    BY DEF ScreenFits
  <2>3. ScreenFits(resizeCanvas(screen, p))
    BY <2>2, ResizedFits
  <2>4. CASE resizeCanvas(screen, p) = screen
    BY <2>1, <2>4 DEF HoverShown
  <2>5. CASE resizeCanvas(screen, p) # screen
    <3>1. Redraw(report, resizeCanvas(screen, p))
      BY <2>1, <2>5
    <3>2. screen' = resizeCanvas(screen, p)
      BY <3>1 DEF Redraw
    <3> QED BY <2>1, <2>3, <3>1, <3>2, Redrawn
  <2> QED BY <2>4, <2>5
<1>2. CASE Move
  <2>1. PICK x, y : Point(x, y)
    BY <1>2 DEF Move
  <2>2. hovering' = indexMode(picture.bars, x, y) /\ updateHoverStyle(hovering')
        /\ UNCHANGED <<report, place, screen, picture>>
    BY <2>1 DEF Point
  <2>3. indexMode(picture.bars, x, y) \subseteq DOMAIN picture.bars
    BY DEF indexMode
  <2> QED BY <2>2, <2>3, HoverMoves
<1>3. CASE Click
  <2>1. PICK d : Toggle(d)
    BY <1>3 DEF Click
  <2>2. Redraw([report EXCEPT !.hidden[d] = ~@], screen) /\ UNCHANGED place
    BY <2>1 DEF Toggle
  <2>3. screen' = screen
    BY <2>2 DEF Redraw
  <2> QED BY <2>2, <2>3, Redrawn
<1>4. CASE Leave
  <2>1. hovering' = {} /\ updateHoverStyle({}) /\ UNCHANGED <<report, place, screen, picture>>
    BY <1>4 DEF Leave
  <2> QED BY <2>1, HoverMoves
<1>5. CASE UNCHANGED drawVars
  BY <1>5 DEF drawVars, HoverShown
<1> QED BY <1>1, <1>2, <1>3, <1>4, <1>5 DEF DrawNext

LEMMA HitsWhatFits == DrawInv => HitWhatIsSeen
<1> SUFFICES ASSUME DrawInv, NEW at \in OnScreen
             PROVE  LET e == getRelativePosition(screen, place, at.x, at.y)
                        seen == ShownAt(screen, place, e.x, e.y)
                    IN  seen.x - 100 * at.x \in -100..100 /\ seen.y - 100 * at.y \in -100..100
  BY DEF HitWhatIsSeen
<1> DEFINE size == DisplaySize(screen, place)
<1>1. ScreenFits(screen) /\ place \in Places
  BY DEF DrawInv
<1>2. PICK i \in 1..Columns, j \in 1..Rows :
        at = [x |-> place.left + place.edge + (size.width * i) \div (Columns + 1),
              y |-> place.top + place.edge + (size.height * j) \div (Rows + 1)]
  BY DEF OnScreen
<1>3. size.width \in Nat /\ size.height \in Nat
  BY <1>1, ShownInPlace
<1>4. Columns \in Nat /\ Rows \in Nat
  BY DrawingAssumption
<1> HIDE DEF size
<1>5. PICK m \in Int : m = (size.width * i) \div (Columns + 1)
  BY <1>3, <1>4
<1>6. PICK n \in Int : n = (size.height * j) \div (Rows + 1)
  BY <1>3, <1>4
<1>7. at.x \in Int /\ at.y \in Int
  BY <1>1, <1>2, <1>5, <1>6, PlaceFits
<1> QED BY <1>1, <1>7, SeenWhereItIs

THEOREM WhatIsSeenIsHit == DrawSpec => []PointsAtWhatIsSeen
<1>1. DrawInv => PointsAtWhatIsSeen
  BY HitsWhatFits DEF DrawInv, PointsAtWhatIsSeen
<1> QED BY <1>1, DrawInvInit, DrawInvNext, PTL DEF DrawSpec
=============================================================================
