SPECIFICATION Spec
CONSTANTS
  None = None
  Malformed = Malformed
  Torn = Torn
  amd64 = amd64
  arm64 = arm64
  an_index = an_index
  m1 = m1
  m2 = m2
  Machines <- MCMachines
  Bodies <- MCBodies
  Document <- MCDocument
  Requested <- FewRequested
  Wishes <- MCWishes
  Reports <- FewReports
  ExitCodes = {0}
  MaxRuns = 2
  MaxUpdates = 0
  OrphansSurvive = TRUE
INVARIANTS
  OwnReportSatisfies
CHECK_DEADLOCK FALSE
