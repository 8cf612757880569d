--------------------------- MODULE ScannerExecution ---------------------------
(***************************************************************************)
(* The completeness record of one scanner execution                        *)
(* (src/scanner_execution.py).  A producer reports the facts it observed   *)
(* of a run; MakeExecution derives the status from them, and a verdict may *)
(* be claimed only over a record ExecutionIsComplete accepts.              *)
(*                                                                         *)
(* Component lists are sets: _unique removes duplicates and nothing reads  *)
(* their order.  An absent value of the code (Python's None) is None.      *)
(***************************************************************************)
EXTENDS Absence

DefaultReasons == {"all_required_scanner_work_completed",
                   "required_scanner_work_not_completed"}

(***************************************************************************)
(* What a producer observed: the arguments of make_execution_evidence,     *)
(* over the names of components, reasons and contracts in words.           *)
(***************************************************************************)
Facts(words) ==
  [invocation_started : BOOLEAN, process_completed : BOOLEAN,
   exit_code : Int \union {None}, exit_state_valid : BOOLEAN,
   output_present : BOOLEAN, output_parseable : BOOLEAN,
   output_exists : BOOLEAN \union {None}, output_size : Int \union {None},
   required_components : SUBSET words, completed_components : SUBSET words,
   failed_components : SUBSET words,
   result_semantics_consistent : BOOLEAN \union {None},
   completeness_reason : words \union {None},
   scanner_contract : words, fatal_failure : BOOLEAN]

(***************************************************************************)
(* The record built from them.                                             *)
(***************************************************************************)
Executions(words) ==
  [scanner_contract : words,
   invocation_started : BOOLEAN, process_completed : BOOLEAN,
   exit_code : Int \union {None}, exit_state_valid : BOOLEAN,
   output_present : BOOLEAN, output_exists : BOOLEAN,
   output_size : Int \union {None}, output_parseable : BOOLEAN,
   required_components : SUBSET words, completed_components : SUBSET words,
   failed_components : SUBSET words,
   completeness_status : {"complete", "incomplete", "failed"},
   completeness_reason : words \union DefaultReasons,
   required_work_completed : BOOLEAN,
   result_semantics_consistent : BOOLEAN \union {None}]

OutputExists(f) ==
  IF f.output_exists = None THEN f.output_present ELSE f.output_exists

Positive(size) == size # None /\ size > 0

\* Mutant of WorkDone: a file that exists counts as output.
WorkDoneWithEmptyFile(f) ==
  /\ f.exit_state_valid /\ OutputExists(f) /\ f.output_parseable
  /\ f.required_components \subseteq f.completed_components
  /\ f.failed_components = {}
  /\ f.result_semantics_consistent = TRUE

WorkDone(f) ==
  /\ f.exit_state_valid /\ f.output_present /\ OutputExists(f)
  /\ Positive(f.output_size) /\ f.output_parseable
  /\ f.required_components \subseteq f.completed_components
  /\ f.failed_components = {}
  /\ f.result_semantics_consistent = TRUE

\* Mutant of Status: a failed component does not count.
StatusIgnoringFailures(f) ==
  IF ~f.invocation_started \/ ~f.process_completed \/ f.fatal_failure
  THEN "failed"
  ELSE IF WorkDone([f EXCEPT !.failed_components = {}])
       THEN "complete" ELSE "incomplete"

Status(f) ==
  IF ~f.invocation_started \/ ~f.process_completed \/ f.fatal_failure
  THEN "failed"
  ELSE IF WorkDone(f) THEN "complete" ELSE "incomplete"

Reason(f) ==
  IF f.completeness_reason # None THEN f.completeness_reason
  ELSE IF Status(f) = "complete" THEN "all_required_scanner_work_completed"
                                 ELSE "required_scanner_work_not_completed"

MakeExecution(f) ==
  [scanner_contract |-> f.scanner_contract,
   invocation_started |-> f.invocation_started,
   process_completed |-> f.process_completed,
   exit_code |-> f.exit_code, exit_state_valid |-> f.exit_state_valid,
   output_present |-> f.output_present, output_exists |-> OutputExists(f),
   output_size |-> f.output_size, output_parseable |-> f.output_parseable,
   required_components |-> f.required_components,
   completed_components |-> f.completed_components,
   failed_components |-> f.failed_components,
   completeness_status |-> Status(f), completeness_reason |-> Reason(f),
   required_work_completed |-> Status(f) = "complete",
   result_semantics_consistent |-> f.result_semantics_consistent]

(***************************************************************************)
(* The check a mapper makes before it claims anything.  It reads the       *)
(* recorded facts again and trusts the status field no further than that.  *)
(* RecordIsComplete is the check of a caller that names no exit codes.     *)
(***************************************************************************)
RecordIsComplete(x) ==
  /\ x.completeness_status = "complete" /\ x.required_work_completed = TRUE
  /\ x.invocation_started = TRUE /\ x.process_completed = TRUE
  /\ x.exit_state_valid = TRUE
  /\ x.output_present = TRUE /\ x.output_parseable = TRUE
  /\ x.output_exists = TRUE /\ Positive(x.output_size)
  /\ x.result_semantics_consistent = TRUE
  /\ x.failed_components = {}
  /\ x.required_components \subseteq x.completed_components

ExecutionIsComplete(x, codes) ==
  RecordIsComplete(x) /\ x.exit_code # None /\ x.exit_code \in codes

(***************************************************************************)
(* A record whose status somebody has overwritten (a manifest edited by    *)
(* hand): the fields ExecutionIsComplete could be fooled by.               *)
(***************************************************************************)
Forged(x) == [x EXCEPT !.completeness_status = "complete",
                       !.required_work_completed = TRUE]

(***************************************************************************)
(* The component an adapter's error is booked under.  The code tests       *)
(* substrings of the error; the sets list the errors of the adapters that  *)
(* contain them, in the order of the tests.                                *)
(***************************************************************************)
ArtifactErrors == {"artifact_ref_mismatch", "oci_artifact_ref_mismatch"}
SemanticsErrors == {"trivy_version_mismatch", "trivy_exit_code_invalid",
                    "unexpected_osv_exit_code", "osv_exit_verdict_mismatch"}
SourceErrors == {"unexpected_osv_source_type", "osv_no_packages_in_report"}

ComponentForError(error, scanner) ==
  IF scanner = "osv" /\ error = "artifact_ref_mismatch" THEN "source_binding"
  ELSE IF error \in ArtifactErrors THEN "artifact_binding"
  ELSE IF error \in SemanticsErrors THEN "result_semantics"
  ELSE IF error \in SourceErrors THEN "source_binding"
  ELSE "result_sections"
===============================================================================
