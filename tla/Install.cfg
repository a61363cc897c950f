CONSTANTS
  None = None
  Empty = Empty
  Partial = Partial
  r1 = r1
  r2 = r2
  r3 = r3
  m1 = m1
  m2 = m2
  Releases <- SomeReleases
  Manager <- SomeManagers
  MaxRuns = 5
  MaxEdits = 1
SYMMETRY InstallSymmetry
SPECIFICATION Spec
INVARIANT SettledIsManaged
INVARIANT PriorBytesKept
PROPERTY AllOrNothing
PROPERTY CommittedGoesForward
CHECK_DEADLOCK FALSE
