SPECIFICATION Spec
CONSTANTS
  Records <- TheRecords
  Resembling <- TheResembling
  WorkIds <- FourIds
  None = "none"
  Retries = 2
  Late = TRUE
  MaxOps = 2
  MaxFound = 2
  MaxFaults = 2
INVARIANT TypeOK
INVARIANT OneWorkPerDoi
INVARIANT NoPublicationIsLost
PROPERTY KnownRecordsMakeNoWork
CHECK_DEADLOCK FALSE
