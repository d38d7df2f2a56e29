CONSTANTS
  NoRow = NoRow
  t1 = t1
  t2 = t2
  s1 = s1
  s2 = s2
  Sessions = {s1}
  Threads = {t1}
  Subject <- MCSubject
  Workflows <- SerialWorkflows
  Grants <- ContractGrants
  Registries <- ContractRegistries
  Outcomes <- ContractOutcomes
  Reviews <- ContractReviews
  InitialLedgers <- ContractLedgers
  MaxTime = 1
  MaxResponses = 2
  MaxCalls = 3
SPECIFICATION FairSpec
INVARIANTS
  CallsSatisfyPolicy
  ClaimLasts
PROPERTY CallsEnd
CHECK_DEADLOCK FALSE
