----------------------------- MODULE ClosedLoop -----------------------------
(***************************************************************************)
(* The promise of a wrk connection: a closed loop.  A connection that is   *)
(* up starts a cycle by issuing Pipeline requests, takes exactly that many *)
(* responses and only then starts the next one; a cycle ends earlier only  *)
(* with its socket.                                                        *)
(***************************************************************************)
EXTENDS Naturals

CONSTANTS Conns, Pipeline

VARIABLES
  phase,  \* "down", "idle" or "busy" with a cycle
  due     \* responses the cycle still waits for

Init == phase = [c \in Conns |-> "down"] /\ due = [c \in Conns |-> 0]

Up(c) == /\ phase[c] = "down"
         /\ phase' = [phase EXCEPT ![c] = "idle"] /\ UNCHANGED due

Issue(c) == /\ phase[c] = "idle"
            /\ phase' = [phase EXCEPT ![c] = "busy"]
            /\ due' = [due EXCEPT ![c] = Pipeline]

Respond(c) == /\ phase[c] = "busy" /\ due[c] > 0
              /\ due' = [due EXCEPT ![c] = @ - 1]
              /\ phase' = [phase EXCEPT ![c] = IF due[c] = 1 THEN "idle" ELSE "busy"]

Down(c) == /\ phase[c] # "down"
           /\ phase' = [phase EXCEPT ![c] = "down"]
           /\ due' = [due EXCEPT ![c] = 0]

Next == \E c \in Conns : Up(c) \/ Issue(c) \/ Respond(c) \/ Down(c)

Spec == Init /\ [][Next]_<<phase, due>>

=============================================================================
