---------------------------- MODULE MCLatencyRun ----------------------------
(* An instance of LatencyRun for TLC. *)
EXTENDS LatencyRun

\* The histograms with up to two samples in each of at most three of the first
\* eleven slots.
Sparse == UNION {{[v \in 0 .. Limit - 1 |-> IF v \in used THEN m[v] ELSE 0] :
                     m \in [used -> 0 .. 2]} : used \in kSubset(3, 0 .. 10)}
=============================================================================
