CONSTANTS
  c1 = c1
  c2 = c2
  Callers = {c1, c2}
  Subject <- MCSubject
  Workflows <- MCWorkflows
  Grants <- SharedGrant
  Registry <- MCRegistry
  Outcomes <- OnePass
  InitialLedgers <- MCLedgers
  SharedKinds = {}
  MaxTime = 0
  MaxExecutions = 2
SPECIFICATION Spec
INVARIANT NoReplay
CHECK_DEADLOCK FALSE
