CONSTANTS
  NoRow = NoRow
  c1 = c1
  c2 = c2
  c3 = c3
  p1 = p1
  p2 = p2
  t1 = t1
  t2 = t2
  d1 = d1
  d2 = d2
  Callers <- MCCallers
  Processes <- MCProcesses
  Home <- MCHome
  Threads <- MCThreads
  Steps <- MCSteps
  Grants <- MCGrants
  Digests <- MCDigests
  Outcomes <- MCOutcomes
  Failures <- MCFailures
  MaxFaults = 1
SPECIFICATION SqlSpec
INVARIANTS
  TypeOK
  AtMostOnce
  AnswersAgree
  SingleUseOneThread
  FinishNeverRaises
  OrphansComeFromFaults
PROPERTIES
  InDoubtIsFinal
  RowsOnlyAdvance
  ImplementsLifecycle
  OrphansStoreNothing
  ImplementsJournal
  LockComesFree
CHECK_DEADLOCK FALSE
