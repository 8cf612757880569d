------------------------------ MODULE OsvAdapter ------------------------------
(***************************************************************************)
(* How the output of OSV-Scanner becomes a verdict (src/osv_adapter.py).   *)
(*                                                                         *)
(* A report is abstracted to what the checks of validate_report tell       *)
(* apart.  "form" is what the bytes are: "empty" none, "garbage" no JSON,  *)
(* "not_object" JSON that is no object, "no_list" an object without a list *)
(* of results, "object" an object with one.  A section of that list says   *)
(* where its source path leads ("malformed" also for a section that has    *)
(* none), its source type, whether what it lists is malformed anywhere,    *)
(* and how many packages and vulnerabilities it lists.                     *)
(***************************************************************************)
EXTENDS ScannerExecution, Sequences

SectionSpace ==
  [source : {"malformed", "target", "elsewhere"},
   type : {"lockfile", "unknown", "other"}, malformed : BOOLEAN,
   packages : Nat, findings : Nat]

ReportSpace ==
  [form : {"empty", "garbage", "not_object", "no_list", "object"},
   results : Seq(SectionSpace)]

MalformedReport == "malformed_osv_report"
AllowedSourceTypes == {"lockfile", "unknown"}

SectionError(s) ==
  IF s.source = "malformed" THEN MalformedReport
  ELSE IF s.source = "elsewhere" THEN "artifact_ref_mismatch"
  ELSE IF s.type \notin AllowedSourceTypes THEN "unexpected_osv_source_type"
  ELSE IF s.malformed THEN MalformedReport
  ELSE ""

Sections(report) == {report.results[i] : i \in DOMAIN report.results}
Faulty(report) ==
  {i \in DOMAIN report.results : SectionError(report.results[i]) # ""}
FirstFaulty(report) ==
  CHOOSE i \in Faulty(report) : \A j \in Faulty(report) : i <= j

HasLockfile(report) == \E s \in Sections(report) : s.type = "lockfile"
HasPackages(report) == \E s \in Sections(report) : s.packages > 0
HasFindings(report) == \E s \in Sections(report) : s.findings > 0

(* OSV reports by its exit code whether it found anything. *)
ExitError(report, exit_code) ==
  IF exit_code \notin {0, 1} THEN "unexpected_osv_exit_code"
  ELSE IF HasFindings(report) # (exit_code = 1) THEN "osv_exit_verdict_mismatch"
  ELSE ""

(***************************************************************************)
(* The first error validate_report raises, "" when it accepts.             *)
(***************************************************************************)
ValidateReport(report, exit_code) ==
  IF report.form # "object" THEN MalformedReport
  ELSE IF Faulty(report) # {}
       THEN SectionError(report.results[FirstFaulty(report)])
  ELSE IF ~HasLockfile(report) \/ ~HasPackages(report)
       THEN "osv_no_packages_in_report"
  ELSE ExitError(report, exit_code)

(***************************************************************************)
(* map_report: the report is validated again, and the execution record     *)
(* must be complete under one of the two exit codes.  A missing exit code  *)
(* is taken from that record.                                              *)
(***************************************************************************)
MapError(report, exit_code, execution) ==
  LET exit == IF exit_code = None THEN execution.exit_code ELSE exit_code
      error == IF exit = None THEN "unexpected_osv_exit_code"
                              ELSE ValidateReport(report, exit)
  IN IF error # "" THEN error
     ELSE IF ExecutionIsComplete(execution, {0, 1}) THEN ""
     ELSE "scanner_execution_incomplete"

Verdict(report) == IF HasFindings(report) THEN "findings" ELSE "clean"

Receipt(ref, digest, scanner_version, verdict, evidence_digest) ==
  [scanned_artifact_ref |-> ref, scanned_artifact_digest |-> digest,
   scanner_version |-> scanner_version, verdict |-> verdict,
   evidence_digest |-> evidence_digest]

MapReport(report, ref, digest, scanner_version, evidence_digest) ==
  Receipt(ref, digest, scanner_version, Verdict(report), evidence_digest)

InconclusiveReceipt(ref, digest, scanner_version, evidence_digest) ==
  Receipt(ref, digest, scanner_version, "inconclusive", evidence_digest)
===============================================================================
