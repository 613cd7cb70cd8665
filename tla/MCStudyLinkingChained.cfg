SPECIFICATION Spec
CONSTANTS
  a = a
  b = b
  c = c
  Works = {a, b, c}
  Registered <- TwoTrials
  Strong <- None
  Weak <- None
  Human = FALSE
  Excludes = FALSE
  MaxBuilds = 2
  MaxDecisions = 0
  MaxFaults = 0
INVARIANT CorpusKeepsReports
CHECK_DEADLOCK FALSE
