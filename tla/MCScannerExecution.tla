-------------------------- MODULE MCScannerExecution --------------------------
(***************************************************************************)
(* Execution records built from every combination of observed facts over   *)
(* two components.                                                         *)
(***************************************************************************)
EXTENDS ExecutionRecord

Components == {"scanner_process", "result_sections"}

MCNames == Components \union {"trivy-fs-json-v1"}

MCObservable ==
  [invocation_started : BOOLEAN, process_completed : BOOLEAN,
   exit_code : {None, 0, 1}, exit_state_valid : BOOLEAN,
   output_present : BOOLEAN, output_parseable : BOOLEAN,
   output_exists : BOOLEAN \union {None}, output_size : {None, 0, 1},
   required_components : {Components, {"scanner_process"}},
   completed_components : {Components, {"result_sections"}},
   failed_components : {{}, {"result_sections"}},
   result_semantics_consistent : BOOLEAN \union {None},
   completeness_reason : {None}, scanner_contract : {"trivy-fs-json-v1"},
   fatal_failure : BOOLEAN]
=============================================================================
