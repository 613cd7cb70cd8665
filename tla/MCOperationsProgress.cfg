SPECIFICATION FairSpec
CONSTANTS
  Ops = {o1, o2}
  Clients = {c1, c2}
  NoClient = NoClient
  NoOp = NoOp
  Agents = 2
  RetryLimit = 3
  LateAttempts = FALSE
  StaleDispatch = FALSE
  MaxRuns = 1
  MaxFaults = 2
  MaxInput = 0
CHECK_DEADLOCK FALSE
PROPERTY FinishedStaysFinished
PROPERTY AcceptedIsFinished
