--------------------------- MODULE MCLifecycleRun ---------------------------
(* Two evidence requests, the second after the first.                      *)
EXTENDS LifecycleRun, TLC

CONSTANTS h1, h2, x, y

MCPrerequisites == [r \in {"survey", "test"} |-> IF r = "test" THEN {"survey"} ELSE {}]
Symmetry == Permutations({h1, h2}) \cup Permutations({x, y})
=============================================================================
