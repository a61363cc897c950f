CONSTANTS
  None = None
  Absent = Absent
  Torn = Torn
  c1 = c1
  c2 = c2
  t1 = t1
  t2 = t2
  Calls <- TwoCalls
  Tokens <- TwoTokens
  Requests <- SomeRequests
  Validity = 0
  MaxTime = 1
  MaxEdits = 1
SYMMETRY PreparationSymmetry
SPECIFICATION Spec
INVARIANT LoadedIsOnePreparation
INVARIANT StartedIsConfirmed
INVARIANT StartedOnce
INVARIANT SkipsWereConfirmed
CHECK_DEADLOCK FALSE
