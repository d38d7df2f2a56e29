CONSTANTS
  gar = gar
  Callers = {gar}
  Subject = "governed-runtime"
  Workflows = {}
  Grants = {}
  Registry <- BuiltinRegistry
  Outcomes = {}
  InitialLedgers = {}
  SharedKinds = {}
  MaxTime = 1
  MaxExecutions = 1
  MaxNesting = 2
  WorkflowFiles <- MCOutsideSchema
  AuthorityFiles <- MCAuthority
  EvidenceOuts = {"none"}
SPECIFICATION GarSpec
INVARIANT SchemaIsEnforced
CHECK_DEADLOCK FALSE
