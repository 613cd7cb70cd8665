SPECIFICATION FairSpec
CONSTANTS
  NSections = 2
  NoSection = NoSection
  RetryLimit = 2
  Environments <- Surroundings
  MaxVersions = 3
  MaxCouncils = 2
  MaxFaults = 1
INVARIANT VersionsAreLinear
INVARIANT ReadyWasReviewed
PROPERTY CompleteVersionsImmutable
PROPERTY OperationEnds
INVARIANT TypeOK
CHECK_DEADLOCK FALSE
