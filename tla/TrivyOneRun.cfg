SPECIFICATION FairSpec
CONSTANTS
  None = None
  Torn = Torn
  file = file
  tgz = tgz
  c1 = c1
  c2 = c2
  Refs <- MCRefs
  Archives <- MCArchives
  Contents <- MCContents
  Reports <- AllReports
  ExitCodes = {0, 1}
  MaxRuns = 1
  OrphansSurvive = TRUE
  UnpackIsShared = FALSE
INVARIANTS
  EvidenceBacksReceipt
  SettledComplete
  MappingNeverRefuses
PROPERTIES
  OnlyTheScannerBlocks
  ExitLeadsToOutcome
CHECK_DEADLOCK FALSE
