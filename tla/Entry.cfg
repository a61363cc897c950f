CONSTANTS
  worker = worker
  extra = extra
  None = None
  Goals <- OneGoal
  GoalCount = 1
  Optional <- NoGoal
  MaxAttempts <- TwoAttempts
  OnFailure <- Repairs
  OnBlocked <- WaitsWhenBlocked
  MaxRevisions = 1
  Failures = {f1}
  BudgetCap = 2
  s1 = s1
  s2 = s2
  Syncs <- TwoSyncs
  Offered = {}
  Lifecycle = {TRUE, FALSE}
  MaxControls = 0
  MaxCrashes = 0
SYMMETRY SyncSymmetry
SPECIFICATION EntrySpec
INVARIANT JournalExplainsChains
PROPERTY ImplementsKernel
PROPERTY EvidenceIsFinal
CHECK_DEADLOCK FALSE
