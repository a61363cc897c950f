CONSTANTS
  Plans <- GatedPlans
  Budgets <- SmallBudgets
  Timeout = 2
  Due = 1
  MaxRepairs = 0
  MaxTime = 2
  MaxControls = 0
  MaxCrashes = 0
SPECIFICATION Spec
INVARIANT HostNeverAtGate
CHECK_DEADLOCK FALSE
