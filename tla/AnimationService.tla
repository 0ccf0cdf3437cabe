--------------------------- MODULE AnimationService ---------------------------
(***************************************************************************)
(* Chart.animationService, the one object that animates all charts of a    *)
(* page: its list of animations and the one frame it asks for at a time.   *)
(* The list is a set here: its order is the order of drawing on canvases   *)
(* that have nothing to do with each other.                                *)
(***************************************************************************)
EXTENDS Naturals

VARIABLES
  animations, \* the animations to advance: of which chart, frames left, lazy
  request     \* a frame has been asked for

service == <<animations, request>>

ServiceInit == animations = {} /\ request = FALSE

AnimationsOf(c) == {a \in animations : a.chart = c}

\* An animation replaces the one its chart has; only the first of the list
\* has to ask for a frame.
addAnimation(a) ==
  /\ animations' = (animations \ AnimationsOf(a.chart)) \union {a}
  /\ request' = (request \/ animations = {})

\* stop() and then addAnimation(): the frame asked for stays asked for.
restartAnimation(a) ==
  LET others == animations \ AnimationsOf(a.chart)
  IN  animations' = others \union {a} /\ request' = (request \/ others = {})

cancelAnimation(c) == animations' = animations \ AnimationsOf(c) /\ UNCHANGED request

\* The list after n frames (more than one when frames were dropped), without
\* the animations that end.
Ends(n) == {a \in animations : a.left <= n}
\* Variant: the animation that ends last takes the rest of the list with it.
advanceDropping(n) ==
  animations' = IF Ends(n) # {} THEN {}
                ELSE {[a EXCEPT !.left = @ - n] : a \in animations}
advance(n) == animations' = {[a EXCEPT !.left = @ - n] : a \in animations \ Ends(n)}

\* The frame has come: it may ask for the next one.
startDigest(n) == request /\ advance(n) /\ request' = (animations' # {})

=============================================================================
