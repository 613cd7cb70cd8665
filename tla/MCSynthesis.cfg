SPECIFICATION Spec
CONSTANTS
  v1 = v1
  Values <- OneValue
  Candidates <- Two
  Retries = 2
  Late = TRUE
  MaxOps = 2
  MaxHuman = 1
  MaxFaults = 1
INVARIANT TypeOK
INVARIANT NewestIsActive
INVARIANT NothingIsOrphaned
INVARIANT ManuscriptsRestOnVerifiedClaims
PROPERTY ClaimsRestOnCurrentValues
CHECK_DEADLOCK FALSE
