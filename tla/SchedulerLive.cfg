SPECIFICATION LiveSpec
CONSTANTS
    r1 = r1  p1 = p1  w1 = w1  w2 = w2  gpu = gpu  None = None
    proc1 = proc1  proc2 = proc2
    Runs = {r1}  Plans = {p1}  Work = {w1, w2}
    RunOfPlan <- MCRunOfPlan  PlanOf <- MCPlanOf
    Owners = {"aec-bench"}  Owner = "aec-bench"
    LeaseIds = {1, 2, 3, 4}  AttemptIds = {1, 2, 3, 4}  ExternalIds = {1, 2, 3, 4}
    CandidateIndexes = {1}  MaxNumber = 3
    MaxClock = 1  LeaseTTL = 1  GlobalLimit = 1
    Scopes = {gpu}  ScopesOf <- MCScopesOf  ScopeLimit <- MCScopeLimit
    Priority <- MCPriority  CreatedAt <- MCCreatedAt  Seniority <- MCSeniority
    AgingAfter = 1
    RunWrites = {}  PlanWrites = {}  TrialWrites = {}  WorkWrites = {}
    AttemptWrites = {}  SubmissionWrites = {}  FailureWrites = {}  ReconWrites = {}
    Procs = {proc1}  RunServed <- MCRunServed  Commands <- DispatchOnly
    HasBackend = TRUE  MaxAttempts = 2  Backoff = 0  RetryUnknown = TRUE  MaxCrashes = 0
PROPERTIES Settles CommandsReturn
CHECK_DEADLOCK FALSE
