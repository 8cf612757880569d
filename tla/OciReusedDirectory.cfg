SPECIFICATION Spec
CONSTANTS
  None = None
  Malformed = Malformed
  Torn = Torn
  amd64 = amd64
  arm64 = arm64
  an_index = an_index
  m1 = m1
  m2 = m2
  Machines <- MCMachines
  Bodies <- MCBodies
  Document <- MCDocument
  Requested <- FewRequested
  Wishes <- MCWishes
  Reports <- FewReports
  ExitCodes = {0, 1}
  MaxRuns = 3
  MaxUpdates = 1
  OrphansSurvive = FALSE
INVARIANTS
  NothingDangles
  NothingStale
  FailureStandsAlone
PROPERTIES
  KeepsPromise
CHECK_DEADLOCK FALSE
