CONSTANTS
  worker = worker
  extra = extra
  None = None
  Goals <- TwoGoals
  GoalCount = 2
  Optional <- OneOptional
  MaxAttempts <- SingleAttempts
  OnFailure <- WaitThenFail
  OnBlocked <- WaitThenSkip
  MaxRevisions = 1
  Failures = {f1}
  BudgetCap = 2
  s1 = s1
  s2 = s2
  Syncs <- OneSync
  Offered = {}
  Lifecycle = {TRUE}
  MaxControls = 0
  MaxCrashes = 2
SPECIFICATION FairEntrySpec
PROPERTY LoopSettles
PROPERTY LoopCloses
CHECK_DEADLOCK FALSE
