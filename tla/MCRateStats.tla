----------------------------- MODULE MCRateStats -----------------------------
(* Properties of RateStats and its instances for TLC. *)
EXTENDS RateStats, TLC

Symmetry == Permutations(Threads)

\* The run ends: every thread sees the flag at its next timer, and main joins
\* them all and returns.
RunEnds == <>(main = "exit")

=============================================================================
