CONSTANTS
  worker = worker
  extra = extra
  None = None
  Goals <- OneGoal
  GoalCount = 1
  Optional <- NoGoal
  MaxAttempts <- TwoAttempts
  OnFailure <- Repairs
  OnBlocked <- WaitsWhenBlocked
  MaxRevisions = 1
  Failures = {f1}
  BudgetCap = 2
  s1 = s1
  s2 = s2
  Syncs <- OneSync
  Offered = {}
  Lifecycle = {TRUE}
  MaxControls = 0
  MaxCrashes = 1
SPECIFICATION FairEntrySpec
PROPERTY LoopSettles
CHECK_DEADLOCK FALSE
