------------------------- MODULE ExecutionRecordProofs -------------------------
(***************************************************************************)
(* The record a producer branch makes, whatever it may observe.            *)
(***************************************************************************)
EXTENDS ExecutionRecord, ScannerExecutionProofs

LEMMA RecordedInvariance == Spec => []Recorded
<1>1. Init => Recorded
  BY DEF Init, Recorded
<1>2. Recorded /\ [Build]_vars => Recorded'
  BY DEF Recorded, Build, vars
<1> QED
  BY <1>1, <1>2, PTL DEF Spec

LEMMA ObservedAreFacts == Recorded => facts \in Facts(Names)
BY ObservableFacts DEF Recorded

(* Whatever was observed, the mapper accepts the record exactly when its
   status says complete. *)
THEOREM AcceptanceFollowsStatus == Spec => []AcceptanceIsStatus
<1>1. Recorded => AcceptanceIsStatus
  BY ObservedAreFacts, StatusAndAcceptanceAgree DEF Recorded, AcceptanceIsStatus
<1> QED
  BY <1>1, RecordedInvariance, PTL

(* And the status says complete only if all of CLEAN_ELIGIBLE was observed. *)
THEOREM CompleteRecordsAreEligible == Spec => []CompleteIsCleanEligible
<1>1. Recorded => CompleteIsCleanEligible
  BY ObservedAreFacts, CompletenessIsEarned
     DEF Recorded, CompleteIsCleanEligible, CompleteIsEligible
<1> QED
  BY <1>1, RecordedInvariance, PTL
=============================================================================
