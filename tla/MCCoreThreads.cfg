CONSTANTS
  c1 = c1
  c2 = c2
  Callers = {c1, c2}
  Subject <- MCSubject
  Workflows <- AnyWorkflows
  Grants <- MCGrants
  Registry <- MCRegistry
  Outcomes <- MCOutcomes
  InitialLedgers <- MCLedgers
  SharedKinds = {"human.approval"}
  MaxTime = 1
  MaxExecutions = 2
SYMMETRY MCSymmetry
SPECIFICATION Spec
INVARIANTS
  TypeOK
  NoSerialReplay
  CallsSatisfyPolicy
  CallsFollowTheWorkflow
  ResultsAreTrue
CHECK_DEADLOCK FALSE
