---------------------------- MODULE MCDisplayLoop ----------------------------
(* Two interchangeable checks and small delays. *)
EXTENDS DisplayLoop, TLC

CONSTANTS c1, c2

MCChecks == {c1, c2}
Symmetry == Permutations(MCChecks)
=============================================================================
