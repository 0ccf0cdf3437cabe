---------------------------- MODULE CallbackList ----------------------------
(***************************************************************************)
(* jQuery.Callbacks: a list of functions that is fired in order, where a   *)
(* function called by it may add to it, fire or disable it.  The           *)
(* operations are functions of the list; the loop of fire() is cut into    *)
(* the steps between which a called function runs.  The arguments of a     *)
(* firing are left out: queue counts the firings that wait for the one     *)
(* under way, memory says that there are arguments to remember.            *)
(***************************************************************************)
EXTENDS Integers, Sequences

\* index counts the functions called in this pass; open is FALSE once the list
\* is replaced by an empty string.
Callbacks(once, keeps) ==
  [list |-> <<>>, open |-> TRUE, queue |-> 0, index |-> 0,
   firing |-> FALSE, memory |-> FALSE, locked |-> FALSE,
   once |-> once, keeps |-> keeps]

fire(cb) == [cb EXCEPT !.locked = @ \/ cb.once, !.firing = TRUE, !.memory = TRUE]

\* A list with a memory calls at once what is added to it.
add(cb, fns) ==
  LET grown == [cb EXCEPT !.list = @ \o fns]
  IN  IF ~cb.open THEN cb
      ELSE IF cb.memory /\ ~cb.firing THEN fire([grown EXCEPT !.index = Len(cb.list)])
      ELSE grown

fireWith(cb) == IF cb.locked THEN cb
                ELSE IF cb.firing THEN [cb EXCEPT !.queue = @ + 1]
                ELSE fire(cb)

\* Variant: the list is emptied but can be fired.
emptied(cb) == [cb EXCEPT !.list = <<>>]
disable(cb) == [cb EXCEPT !.locked = TRUE, !.queue = 0, !.list = <<>>,
                          !.open = FALSE, !.memory = FALSE]

(***************************************************************************)
(* The loop: call the next function; after the last one, start the pass of *)
(* a queued firing or end.                                                 *)
(***************************************************************************)
HasCall(cb) == cb.index < Len(cb.list)
NextCall(cb) == cb.list[cb.index + 1]
AfterCall(cb) == [cb EXCEPT !.index = @ + 1]

\* Variant: the memory is lost with the list.
TurnForgetting(cb) ==
  IF cb.queue > 0 THEN [cb EXCEPT !.queue = @ - 1, !.index = 0, !.memory = TRUE]
  ELSE [cb EXCEPT !.index = 0, !.firing = FALSE, !.memory = FALSE,
                  !.list = IF cb.locked THEN <<>> ELSE @, !.open = @ /\ ~cb.locked]
Turn(cb) ==
  LET kept == cb.keeps /\ cb.memory
  IN  IF cb.queue > 0 THEN [cb EXCEPT !.queue = @ - 1, !.index = 0, !.memory = TRUE]
      ELSE [cb EXCEPT !.index = 0, !.firing = FALSE, !.memory = kept,
                      !.list = IF cb.locked THEN <<>> ELSE @,
                      !.open = @ /\ (cb.locked => kept)]
=============================================================================
