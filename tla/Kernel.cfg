CONSTANTS
  worker = worker
  extra = extra
  None = None
  Goals <- TwoGoals
  GoalCount = 2
  Optional <- OneOptional
  MaxAttempts <- Attempts
  OnFailure <- FailurePolicy
  OnBlocked <- BlockedPolicy
  MaxRevisions = 2
  Failures = {f1, f2}
  BudgetCap = 3
SPECIFICATION Spec
INVARIANT TypeOK
INVARIANT PlanOrder
INVARIANT OneOpenAttempt
INVARIANT FinishedGoalsAreProven
INVARIANT RepairsFollowFailures
INVARIANT RepairBudgetPerGoal
INVARIANT SuccessIsWhole
PROPERTY AssuranceNeverWeakens
CHECK_DEADLOCK FALSE
