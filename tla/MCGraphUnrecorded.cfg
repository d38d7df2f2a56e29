CONSTANTS
  NoRow = NoRow
  t1 = t1
  t2 = t2
  s1 = s1
  s2 = s2
  Sessions = {s1}
  Threads = {t1}
  Subject <- MCSubject
  Workflows <- SerialWorkflows
  Grants <- OneGrant
  Registries <- SerialRegistries
  Outcomes <- RaisingOutcomes
  Reviews <- SerialReviews
  InitialLedgers <- NoEvidence
  MaxTime = 0
  MaxResponses = 1
  MaxCalls = 4
SPECIFICATION CalmSpec
INVARIANT AttemptsAreRecorded
CHECK_DEADLOCK FALSE
