CONSTANTS
  Plans <- WorkPlans
  Budgets <- SmallBudgets
  Timeout = 2
  Due = 1
  MaxRepairs = 1
  MaxTime = 4
  MaxControls = 1
  MaxCrashes = 2
SPECIFICATION Spec
INVARIANT CallsWithinBudget
INVARIANT WorkWithinBudget
INVARIANT DeadlineKept
CHECK_DEADLOCK FALSE
