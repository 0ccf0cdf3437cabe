----------------------------- MODULE Settlement -----------------------------
(***************************************************************************)
(* What a promise is: it settles once, and from then on it calls, in the   *)
(* order in which they were registered, the callbacks of its outcome and   *)
(* none of the other.                                                      *)
(***************************************************************************)
EXTENDS Sequences, Naturals

CONSTANT Promises
VARIABLES outcome,    \* of each promise
          registered, \* its callbacks, per outcome, in order
          called      \* those that were called

Outcomes == {"done", "fail"}
Start == /\ outcome = [p \in Promises |-> "pending"]
         /\ registered = [p \in Promises |-> [o \in Outcomes |-> <<>>]]
         /\ called = [p \in Promises |-> [o \in Outcomes |-> <<>>]]

Settle(p) == /\ outcome[p] = "pending"
             /\ \E o \in Outcomes : outcome' = [outcome EXCEPT ![p] = o]
             /\ UNCHANGED <<registered, called>>

\* Anyone may register one callback more, for one outcome or for both.
LongerByOne(s, t) == Len(t) = Len(s) + 1 /\ SubSeq(t, 1, Len(s)) = s
Register(p) == /\ \A q \in Promises, o \in Outcomes :
                    \/ registered'[q][o] = registered[q][o]
                    \/ q = p /\ LongerByOne(registered[q][o], registered'[q][o])
               /\ UNCHANGED <<outcome, called>>

Call(p) == LET o == outcome[p]
               n == Len(called[p][o])
           IN  /\ o # "pending" /\ n < Len(registered[p][o])
               /\ called' = [called EXCEPT ![p][o] = Append(@, registered[p][o][n + 1])]
               /\ UNCHANGED <<outcome, registered>>

Step == \E p \in Promises : Settle(p) \/ Register(p) \/ Call(p)
Promise == Start /\ [][Step]_<<outcome, registered, called>>
=============================================================================
