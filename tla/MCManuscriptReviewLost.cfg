SPECIFICATION Spec
CONSTANTS
  NSections = 2
  NoSection = NoSection
  RetryLimit = 3
  Environments <- LostAnswers
  MaxVersions = 3
  MaxCouncils = 3
  MaxFaults = 1
INVARIANT ReadyIsReviewed
CHECK_DEADLOCK FALSE
