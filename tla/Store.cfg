SPECIFICATION StoreSpec
CONSTANTS
    r1 = r1  p1 = p1  w1 = w1  gpu = gpu  job = job  other = other  None = None
    Runs = {r1}  Plans = {p1}  Work = {w1}
    RunOfPlan <- MCRunOfPlan  PlanOf <- MCPlanOf
    Owners = {"aec-bench"}
    LeaseIds = {1}  AttemptIds = {1, 2}  ExternalIds = {job, other}
    CandidateIndexes = {1}  MaxNumber = 2  MaxClock = 1  LeaseTTL = 1  GlobalLimit = 2
    Scopes = {gpu}  ScopesOf <- MCScopesOf  ScopeLimit <- MCScopeLimit
    Priority <- MCPriority  CreatedAt <- MCCreatedAt  Seniority <- MCSeniority
    AgingAfter = 1
    RunWrites = {"ready"}  PlanWrites = {"ready"}  TrialWrites = {"cancelled"}
    WorkWrites = {"failed"}  AttemptWrites = {"unknown"}
    SubmissionWrites = {"submitted"}  FailureWrites = {"unknown"}  ReconWrites = {"pending"}
INVARIANTS StoreTypeOK AttemptIdentity
PROPERTY HistoryFrozen
SYMMETRY JobsAlike
CHECK_DEADLOCK FALSE
