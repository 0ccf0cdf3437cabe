----------------------------- MODULE MCEffects -----------------------------
(* Instances of Effects for TLC. *)
EXTENDS Effects, TLC
Symmetry == Permutations(Elements)
=============================================================================
