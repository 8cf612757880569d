------------------------------ MODULE OciAdapter ------------------------------
(***************************************************************************)
(* How a Trivy image report becomes a verdict (src/oci_adapter.py).        *)
(*                                                                         *)
(* As in TrivyAdapter, a report is abstracted to what the checks tell      *)
(* apart: "form" is what the file holds, "results" its list of sections    *)
(* ("not_sections" for a list with a member that is no object, as for no   *)
(* list), "defect" the first fault a walk over the sections meets, and     *)
(* "findings" counts the vulnerabilities of all of them.  "names" says     *)
(* whether ArtifactName or RepoDigests name the image the scanner was      *)
(* given: by its exact reference, or by its digest in any repository.      *)
(***************************************************************************)
EXTENDS ScannerExecution

MalformedReport == "malformed_trivy_image_report"

SectionDefects == {"", MalformedReport, "malformed_trivy_vulnerability",
                   "unsupported_severity"}

ReportSpace ==
  [form : {"empty", "garbage", "not_object", "object"},
   results : {"not_sections", "empty", "sections"},
   version : {"pinned", "other"}, names : {"target", "elsewhere"},
   defect : SectionDefects, findings : Nat]

(***************************************************************************)
(* The first error validate_image_report raises, "" when it accepts; bound *)
(* is what _report_binds_exact_ref found.                                  *)
(***************************************************************************)
ValidateReport(report, bound, scanner_version, exit_code) ==
  IF report.form # "object" \/ report.results = "not_sections"
  THEN MalformedReport
  ELSE IF report.results = "empty" THEN "trivy_result_sections_missing"
  ELSE IF report.version # scanner_version THEN "trivy_version_mismatch"
  ELSE IF ~bound THEN "oci_artifact_ref_mismatch"
  ELSE IF report.defect # "" THEN report.defect
  ELSE IF exit_code # None /\ exit_code # 0 THEN "trivy_exit_code_invalid"
  ELSE ""

(***************************************************************************)
(* map_image_report: the report is validated again, and the execution      *)
(* record must be complete under exit code 0.                              *)
(***************************************************************************)
MapError(report, bound, scanner_version, exit_code, execution) ==
  LET exit == IF exit_code = None THEN execution.exit_code ELSE exit_code
      error == ValidateReport(report, bound, scanner_version, exit)
  IN IF error # "" THEN error
     ELSE IF ExecutionIsComplete(execution, {0}) THEN ""
     ELSE "scanner_execution_incomplete"

Verdict(report) == IF report.findings > 0 THEN "findings" ELSE "clean"

(* scanned_artifact_ref is the digest in the repository asked for. *)
Receipt(digest, scanner_version, verdict, evidence_digest) ==
  [scanned_artifact_digest |-> digest, scanner_version |-> scanner_version,
   verdict |-> verdict, evidence_digest |-> evidence_digest]

MapReport(report, digest, scanner_version, evidence_digest) ==
  Receipt(digest, scanner_version, Verdict(report), evidence_digest)

InconclusiveReceipt(digest, scanner_version, evidence_digest) ==
  Receipt(digest, scanner_version, "inconclusive", evidence_digest)
===============================================================================
