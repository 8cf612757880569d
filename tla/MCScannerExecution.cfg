SPECIFICATION Spec
CONSTANTS
  None = None
  Names <- MCNames
  Observable <- MCObservable
INVARIANTS
  AcceptanceIsStatus
  CompleteIsCleanEligible
CHECK_DEADLOCK FALSE
