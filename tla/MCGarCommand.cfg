CONSTANTS
  gar = gar
  Callers = {gar}
  Subject = "governed-runtime"
  Workflows = {}
  Grants = {}
  Registry <- BuiltinRegistry
  Outcomes = {}
  InitialLedgers = {}
  SharedKinds = {}
  MaxTime = 1
  MaxExecutions = 1
  MaxNesting = 2
  WorkflowFiles <- MCWorkflowFiles
  AuthorityFiles <- MCAuthorityFiles
  EvidenceOuts <- MCOut
SPECIFICATION GarSpec
INVARIANTS
  ExitTellsTheTruth
  ReloadsUnchanged
CHECK_DEADLOCK FALSE
