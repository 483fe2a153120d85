SPECIFICATION LifecycleSpec
CONSTANTS
    h1 = h1  h2 = h2  Hosts = {h1, h2}
    Checkpoints = 2  Requests = {"survey", "test"}  Prerequisites <- MCPrerequisites
    RequestBudget = 1  Contents = {x, y}  x = x  y = y  Nothing = Nothing
    MaxAttempts = 2  MaxActions = 2  MaxTransitions = 4  MaxKills = 2  MaxRuns = 2
    MaxDisturbances = 1
SYMMETRY Symmetry
INVARIANTS AlwaysLoadable BudgetKept InOrder ArchiveIntact AcceptedIntact
PROPERTIES AcceptedStands
CHECK_DEADLOCK FALSE
