SPECIFICATION FairSpec
CONSTANTS
  None = None
  Torn = Torn
  lockfile = lockfile
  c1 = c1
  c2 = c2
  Refs <- MCRefs
  Contents <- MCContents
  Reports <- MCReports
  ExitCodes = {0, 1, 128}
  MaxRuns = 2
INVARIANTS
  IInv
  SettledComplete
  MappingNeverRefuses
  RetainedReportIsFresh
  EvidenceInputIsOwn
PROPERTIES
  KeepsPromise
  ExitLeadsToOutcome
CHECK_DEADLOCK FALSE
