SPECIFICATION FairSearchSpec
CONSTANTS
  q1 = q1
  q2 = q2
  r1 = r1
  r2 = r2
  Queries <- TheQueries
  Results <- TheResults
  LateAttempts = TRUE
  MaxAttempts = 3
  MaxFailures = 1
INVARIANT NothingFoundIsLost
INVARIANT StatusTellsTheRuns
PROPERTY DiscoveryEnds
CHECK_DEADLOCK FALSE
