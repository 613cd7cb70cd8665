SPECIFICATION Spec
CONSTANTS
  s1 = s1
  s2 = s2
  Studies <- TheStudies
  Included <- TheIncluded
  FieldsOf <- TheFields
  Answers <- TheAnswers
  Verdicts <- TheVerdicts
  Designs <- TheDesigns
  Readable <- TheReadable
  BatchSize = 2
  Environments <- RetriedOrLate
  MaxOps = 2
  MaxHuman = 1
  MaxFaults = 1
INVARIANT TypeOK
INVARIANT CalmOneCurrentPerField
INVARIANT NoBrokenValueIsVerified
INVARIANT AppraisedOncePerTool
PROPERTY CorrectionsStand
PROPERTY CompletedMeansExtracted
CHECK_DEADLOCK FALSE
