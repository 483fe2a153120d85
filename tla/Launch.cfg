SPECIFICATION LaunchSpec
CONSTANTS
    c1 = c1  c2 = c2  p = p  Nobody = Nobody
    Callers = {c1, c2, p}  Commands = {c1, c2}  Planners = {p}
    Versions = {1, 2}  TrialsOf <- MCTrialsOf
    MaxKills = 2  MaxBoots = 2
INVARIANTS StartedIsWhole BrokenOffIsRepairable ExecutedIsStarted ExecutedIsEnqueued
PROPERTIES StartStands
CHECK_DEADLOCK FALSE
