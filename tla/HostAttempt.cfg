CONSTANTS
  None = None
  Calls = {c1, c2}
  Startups = {c1}
  MaxCrashes = 1
  Replay = {"file_local", "non_replayable"}
  Recovery = {"resume"}
SPECIFICATION FairSpec
INVARIANT HostCalledOnce
INVARIANT OneHostAtATime
INVARIANT EvidenceIsOneRun
INVARIANT ObservedIsSealed
PROPERTY CallsEnd
PROPERTY BegunIsDecided
CHECK_DEADLOCK FALSE
