------------------------- MODULE MCTrialPublication -------------------------
(* Two trials of one run share its manifest; two processes resume.         *)
EXTENDS TrialPublication, TLC

CONSTANTS t1, t2, r1, r2

Symmetry == Permutations({r1, r2}) \cup Permutations({t1, t2})
=============================================================================
