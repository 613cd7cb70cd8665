SPECIFICATION Spec
CONSTANTS
  a = a
  b = b
  c = c
  Works = {a, b, c}
  Registered <- Resembling
  Strong <- Similar
  Weak <- Distant
  Human = TRUE
  Excludes = TRUE
  MaxBuilds = 2
  MaxDecisions = 2
  MaxFaults = 1
INVARIANT OneStudyUnlessRaced
INVARIANT MovesAreExplained
CHECK_DEADLOCK FALSE
