SPECIFICATION Spec
CONSTANTS
  Ops = {o1, o2}
  Clients = {c1, c2}
  NoClient = NoClient
  NoOp = NoOp
  Agents = 1
  RetryLimit = 2
  LateAttempts = TRUE
  StaleDispatch = TRUE
  MaxRuns = 2
  MaxFaults = 2
  MaxInput = 1
CHECK_DEADLOCK FALSE
SYMMETRY Symmetry
INVARIANT InputsFrozen
INVARIANT ArtifactOnce
PROPERTY ImplementsContract
PROPERTY OnlyLateStagesReopen
