----------------------------- MODULE TrivyAdapter -----------------------------
(***************************************************************************)
(* How a Trivy filesystem report becomes a verdict (src/adapter.py).       *)
(*                                                                         *)
(* A report is abstracted to what the checks of validate_report tell       *)
(* apart.  "form" is what the file holds: "empty" no bytes, "garbage" no   *)
(* JSON, "not_object" JSON that is no object, "object" an object.  The     *)
(* other fields describe that object: "defect" is the first fault a walk   *)
(* over its result sections meets ("" for none), "findings" the number of  *)
(* vulnerabilities in all of them.                                         *)
(***************************************************************************)
EXTENDS ScannerExecution

MalformedReport == "malformed_trivy_report"

SectionDefects == {"", MalformedReport, "malformed_trivy_vulnerability",
                   "unsupported_severity"}

ReportSpace ==
  [form : {"empty", "garbage", "not_object", "object"},
   results : {"not_list", "empty", "not_sections", "sections"},
   version : {"malformed", "pinned", "other"},
   names : {"malformed", "target", "elsewhere"},
   defect : SectionDefects, findings : Nat]

\* Mutant of ValidateReport: "Results: []" passes as nothing found.
ValidateReportLax(report, bound, scanner_version, exit_code) ==
  IF report.form # "object" \/ report.results = "not_list" THEN MalformedReport
  ELSE IF report.version = "malformed" THEN MalformedReport
  ELSE IF report.version # scanner_version THEN "trivy_version_mismatch"
  ELSE IF ~bound THEN "artifact_ref_mismatch"
  ELSE report.defect

(***************************************************************************)
(* The first error validate_report raises, "" when it accepts.  bound says *)
(* whether the report's ArtifactName resolves to the artifact_ref asked    *)
(* for: the caller knows both paths.                                       *)
(***************************************************************************)
ValidateReport(report, bound, scanner_version, exit_code) ==
  IF report.form # "object" \/ report.results = "not_list" THEN MalformedReport
  ELSE IF report.results = "empty" THEN "trivy_result_sections_missing"
  ELSE IF report.version = "malformed" THEN MalformedReport
  ELSE IF report.version # scanner_version THEN "trivy_version_mismatch"
  ELSE IF report.names = "malformed" THEN MalformedReport
  ELSE IF ~bound THEN "artifact_ref_mismatch"
  ELSE IF report.results = "not_sections" THEN MalformedReport
  ELSE IF report.defect # "" THEN report.defect
  ELSE IF exit_code # None /\ exit_code # 0 THEN "trivy_exit_code_invalid"
  ELSE ""

(***************************************************************************)
(* map_report: the report is validated again, and the execution record     *)
(* must be complete under the one exit code Trivy is pinned to.            *)
(***************************************************************************)
MapError(report, bound, scanner_version, exit_code, execution) ==
  LET exit == IF exit_code = None THEN execution.exit_code ELSE exit_code
      error == ValidateReport(report, bound, scanner_version, exit)
  IN IF error # "" THEN error
     ELSE IF ExecutionIsComplete(execution, {0}) THEN ""
     ELSE "scanner_execution_incomplete"

Verdict(report) == IF report.findings > 0 THEN "findings" ELSE "clean"

Receipt(ref, digest, scanner_version, verdict, evidence_digest) ==
  [scanned_artifact_ref |-> ref, scanned_artifact_digest |-> digest,
   scanner_version |-> scanner_version, verdict |-> verdict,
   evidence_digest |-> evidence_digest]

MapReport(report, ref, digest, scanner_version, evidence_digest) ==
  Receipt(ref, digest, scanner_version, Verdict(report), evidence_digest)

InconclusiveReceipt(ref, digest, scanner_version, evidence_digest) ==
  Receipt(ref, digest, scanner_version, "inconclusive", evidence_digest)
===============================================================================
