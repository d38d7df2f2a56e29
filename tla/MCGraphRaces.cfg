CONSTANTS
  NoRow = NoRow
  t1 = t1
  t2 = t2
  s1 = s1
  s2 = s2
  Sessions = {s1, s2}
  Threads = {t1}
  Subject <- MCSubject
  Workflows <- RaceWorkflows
  Grants <- RaceGrants
  Registries <- SerialRegistries
  Outcomes <- RaceOutcomes
  Reviews <- RaceReviews
  InitialLedgers <- NoEvidence
  MaxTime = 1
  MaxResponses = 1
  MaxCalls = 5
SYMMETRY RaceSymmetry
SPECIFICATION Spec
INVARIANTS
  AtMostOnce
  EarlierStepsPassed
  GatedInTime
  ResponsesKeepTheirStep
  ResultsMatchJournal
PROPERTIES
  ImplementsLifecycle
CHECK_DEADLOCK FALSE
