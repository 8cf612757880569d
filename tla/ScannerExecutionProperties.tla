---------------------- MODULE ScannerExecutionProperties ----------------------
(***************************************************************************)
(* What the completeness record has to guarantee, for one set of facts f.  *)
(***************************************************************************)
EXTENDS ScannerExecution

(* A record x is accepted exactly when its status says complete and its exit
   code is one the mapper expects: the two implementations of completeness,
   make_execution_evidence and execution_is_complete, agree about it. *)
AcceptedIffComplete(x) ==
  /\ RecordIsComplete(x) <=> x.completeness_status = "complete"
  /\ ExecutionIsComplete(x, {0}) <=>
       x.completeness_status = "complete" /\ x.exit_code = 0

(* The conditions of CLEAN_ELIGIBLE
   (docs/scanner-execution-completeness.md:14-22), and that nothing failed. *)
CleanEligible(f) ==
  /\ f.invocation_started /\ f.process_completed /\ f.exit_state_valid
  /\ OutputExists(f) /\ f.output_present /\ f.output_size # None
  /\ f.output_size > 0 /\ f.output_parseable
  /\ f.required_components \subseteq f.completed_components
  /\ f.failed_components = {} /\ ~f.fatal_failure
  /\ f.result_semantics_consistent = TRUE

(* A complete record was earned. *)
CompleteIsEligible(f) ==
  MakeExecution(f).completeness_status = "complete" => CleanEligible(f)

(* Overwriting the status of a record that was not complete does not get it
   accepted ("a caller cannot force complete by writing a status string",
   docs/scanner-execution-completeness.md:63-64), unless the only thing that
   spoke against it was fatal_failure, which the record does not keep. *)
ForgeryIsRejected(f) ==
  RecordIsComplete(Forged(MakeExecution(f))) =>
    MakeExecution(f).completeness_status = "complete" \/ f.fatal_failure
=============================================================================
