---------------------------- MODULE MCRunLaunch -----------------------------
(* Two versions of a plan with two trials each, two commands, one planner. *)
EXTENDS RunLaunch, TLC

CONSTANTS c1, c2, p

MCTrialsOf == <<<<"a", "b">>, <<"a", "c">>>>
=============================================================================
