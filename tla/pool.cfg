SPECIFICATION FairSpec
CONSTANTS
  File <- MCFile
  Order <- MCOrder
  Part <- MCPart
  Content <- MCContent
  Size <- MCSize
  Disk <- MCDisk
  Other = "other"
  Partial = "partial"
  None = None
  Workers = 2
  MaxAttempts = 2
  BatchBytes = 3
  BatchFiles = 2
  MaxFile = 5
  Headroom = 1
INVARIANTS TypeOK StagedIsVerified BatchesFit EveryFilePlanned
PROPERTIES FetchEnds
