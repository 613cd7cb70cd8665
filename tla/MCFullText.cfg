SPECIFICATION FairSpec
CONSTANTS
  w1 = w1
  w2 = w2
  good = good
  bad = bad
  Works <- TheWorks
  Contents <- TheContents
  Online <- TheOnline
  Located <- TheLocated
  Abstracts <- TheAbstracts
  Legible <- TheLegible
  BatchSize = 2
  Retries = 2
  Late = TRUE
  MaxOps = 2
  MaxUploads = 2
  MaxFaults = 1
INVARIANT AvailableIsHeld
INVARIANT OneAssetPerContent
PROPERTY NothingLastsForever
CHECK_DEADLOCK FALSE
