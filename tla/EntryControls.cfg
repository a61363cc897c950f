CONSTANTS
  worker = worker
  extra = extra
  None = None
  Goals <- OneGoal
  GoalCount = 1
  Optional <- NoGoal
  MaxAttempts <- TwoAttempts
  OnFailure <- Repairs
  OnBlocked <- WaitsWhenBlocked
  MaxRevisions = 2
  Failures = {f1}
  BudgetCap = 2
  s1 = s1
  s2 = s2
  Syncs <- OneSync
  Offered = {"pause", "resume", "stop", "extend", "steer", "revise"}
  Lifecycle = {TRUE, FALSE}
  MaxControls = 2
  MaxCrashes = 1
SPECIFICATION EntrySpec
PROPERTY ImplementsKernel
CHECK_DEADLOCK FALSE
