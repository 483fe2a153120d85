SPECIFICATION LifecycleSpec
CONSTANTS
    h1 = h1  h2 = h2  Hosts = {h1}
    Checkpoints = 2  Requests = {"survey", "test"}  Prerequisites <- MCPrerequisites
    RequestBudget = 1  Contents = {x}  x = x  y = y  Nothing = Nothing
    MaxAttempts = 2  MaxActions = 1  MaxTransitions = 4  MaxKills = 1  MaxRuns = 2
    MaxDisturbances = 1
INVARIANTS InterruptedResumes
CHECK_DEADLOCK FALSE
