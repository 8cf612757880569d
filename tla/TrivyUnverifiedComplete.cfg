SPECIFICATION Spec
CONSTANTS
  None = None
  Torn = Torn
  file = file
  tgz = tgz
  c1 = c1
  c2 = c2
  Refs <- MCRefs
  Archives <- MCArchives
  Contents <- MCContents
  Reports <- FewReports
  ExitCodes = {0, 1}
  MaxRuns = 1
  OrphansSurvive = FALSE
  UnpackIsShared = FALSE
SYMMETRY Symmetry
INVARIANTS
  CompleteIsVerified
CHECK_DEADLOCK FALSE
