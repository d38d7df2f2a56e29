CONSTANTS
  NoRow = NoRow
  t1 = t1
  t2 = t2
  s1 = s1
  s2 = s2
  Sessions = {s1}
  Threads = {t1, t2}
  Subject <- MCSubject
  Workflows <- SerialWorkflows
  Grants <- SerialGrants
  Registries <- SerialRegistries
  Outcomes <- SerialOutcomes
  Reviews <- SerialReviews
  InitialLedgers <- NoEvidence
  MaxTime = 2
  MaxResponses = 1
  MaxCalls = 5
SPECIFICATION Spec
INVARIANTS
  TypeOK
  EarlierStepsPassed
  SingleUseOneThread
  ResultsMatchJournal
  PassMeansAllRan
PROPERTIES
  EvidenceOnlyGrows
  TerminalIsFinal
  ImplementsLifecycle
CHECK_DEADLOCK FALSE
