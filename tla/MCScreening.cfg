SPECIFICATION FairSpec
CONSTANTS
  w1 = w1
  w2 = w2
  Works <- TheWorks
  Verdicts <- TwoVerdicts
  HumanVerdicts <- TwoVerdicts
  BatchSize = 2
  LateAttempts = TRUE
  Revisions = 2
  MaxRounds = 2
  MaxHuman = 1
  MaxFaults = 1
INVARIANT FinalCorpusWasRead
PROPERTY HumanStands
PROPERTY AgentsFollowTheProtocol
PROPERTY RoundsEnd
CHECK_DEADLOCK FALSE
