CONSTANTS
  None = None
  Outcomes = {"OBSERVED", "UNKNOWN"}
  Clients = {c1, c2}
  Ops = {o1, o2}
  Attempts = {a1}
SPECIFICATION FairSpec
INVARIANT TypeOK
INVARIANT JournalMatchesRevision
INVARIANT EventLogMatchesJournal
INVARIANT OutboxMatchesSnapshot
INVARIANT OneClaimPerAttempt
INVARIANT AnswersAreDurable
PROPERTY JournalImmutable
PROPERTY ImplementsExactlyOnce
PROPERTY CallsReturn
