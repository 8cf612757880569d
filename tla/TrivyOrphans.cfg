SPECIFICATION Spec
CONSTANTS
  None = None
  Torn = Torn
  file = file
  tgz = tgz
  c1 = c1
  c2 = c2
  Refs <- MCRefs
  Archives <- MCArchives
  Contents <- MCContents
  Reports <- FewReports
  ExitCodes = {0, 1}
  MaxRuns = 2
  OrphansSurvive = TRUE
  UnpackIsShared = FALSE
SYMMETRY Symmetry
INVARIANTS
  ReceiptEarned
PROPERTIES
  KeepsPromise
CHECK_DEADLOCK FALSE
