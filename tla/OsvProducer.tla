------------------------------ MODULE OsvProducer ------------------------------
(***************************************************************************)
(* The OSV lockfile producer (src/osv_producer.py): up to MaxRuns runs,    *)
(* one after the other, into the same output directory.                    *)
(*                                                                         *)
(* It differs from the Trivy producer in what passes between producer and  *)
(* scanner.  OSV-Scanner prints its report: the producer holds the other   *)
(* end of the pipe, and writes osv.raw.json itself once the scanner has    *)
(* exited, an empty one when subprocess.run raises.  A scanner that        *)
(* survives its producer has nowhere left to write.  Exit code 0 or 1 is   *)
(* part of the answer.  There are no archives.                             *)
(*                                                                         *)
(* A content stands for the bytes, their digest and their size; a file     *)
(* digest compared with a file is Sha256(file).  A scan, and the report it *)
(* printed, carry the number of the run that launched it.  Left out: the   *)
(* stderr log, time stamps, and the subject's own path after it was read.  *)
(***************************************************************************)
EXTENDS OsvAdapter

CONSTANTS
  Refs,        \* artifact paths the producer is called with
  Contents,    \* what a file may hold
  Reports,     \* what a scanner may print
  ExitCodes,   \* how a scanner process may exit by itself
  MaxRuns,     \* bound on the runs into one output directory
  Torn         \* a file whose write was cut short

ASSUME ProducerConstants ==
  /\ Reports \subseteq ReportSpace /\ ExitCodes \subseteq Nat /\ MaxRuns \in Nat
  /\ None \notin Refs \union Contents \union Reports
  /\ None # Torn /\ Torn \notin Int

VARIABLES
  rawFile,    \* out/osv.raw.json: the scan whose output it holds
  evidence,   \* out/evidence.json
  receipt,    \* out/receipt.json
  snapshot,   \* what the private copy of the artifact holds now
  meta,       \* the size in _SNAPSHOT_META, a variable of the process
  scans,      \* the scanner process each run launched, if it did
  runs,       \* how many runs were started; the number of the current one
  pc,         \* where the current run is
  ref,        \* its artifact
  captured,   \* snapshot.sha256 (artifact_hash), None before the capture
  version,    \* the scanner_version it reports
  execution,  \* its latest execution record
  draft       \* the receipt map_report returned

disk == <<rawFile, evidence, receipt>>
input == <<ref, captured>>
vars == <<disk, snapshot, meta, scans, runs, pc, input, version, execution, draft>>

RunIds == 1..MaxRuns
Killed == -9
EmptyFile == 0     \* osv.raw.json as the exception branch writes it
Sha256(file) == [sha256 |-> file]

Quiescent == {"idle", "exit0", "exit1", "crashed"}
(* The stretches during which the private copy is in use. *)
Exposed == {"binary", "version", "launch", "scan", "judge", "evidence", "map",
            "verify", "receipt"}

OsvComponents == {"scanner_process", "scanner_output", "result_sections",
                  "source_binding", "result_semantics"}
OsvContract == "osv-scanner-v2-lockfile-json-v1"

Running(k) == scans[k] # None /\ scans[k].exit = None

-----------------------------------------------------------------------------
(***************************************************************************)
(* What the producer knows and records.                                    *)
(***************************************************************************)
stdout == scans[runs].report
returncode == scans[runs].exit

OutputPresent == stdout.form # "empty"
OutputParseable == stdout.form \notin {"empty", "garbage"}
SizeOf(file) ==
  IF file \in RunIds THEN IF scans[file].report.form = "empty" THEN 0 ELSE 1
  ELSE IF file = EmptyFile THEN 0 ELSE None

Unstarted(reason) ==
  [invocation_started |-> FALSE, process_completed |-> FALSE,
   exit_code |-> None, exit_state_valid |-> FALSE, output_present |-> FALSE,
   output_parseable |-> FALSE, output_exists |-> FALSE, output_size |-> None,
   required_components |-> OsvComponents, completed_components |-> {},
   failed_components |-> {"scanner_process"},
   result_semantics_consistent |-> None, completeness_reason |-> reason,
   scanner_contract |-> OsvContract, fatal_failure |-> TRUE]

PreflightExecution(reason) == MakeExecution(Unstarted(reason))

ProcessFailure ==
  MakeExecution([Unstarted("scanner_process_failed") EXCEPT
    !.invocation_started = TRUE, !.output_exists = TRUE, !.output_size = 0])

(* The facts of a scanner that exited with 0 or 1 and printed an object; each
   branch below says where it differs. *)
Observed ==
  [invocation_started |-> TRUE, process_completed |-> TRUE,
   exit_code |-> returncode, exit_state_valid |-> TRUE, output_present |-> TRUE,
   output_parseable |-> TRUE, output_exists |-> TRUE,
   output_size |-> SizeOf(rawFile), required_components |-> OsvComponents,
   completed_components |-> {}, failed_components |-> {},
   result_semantics_consistent |-> TRUE, completeness_reason |-> None,
   scanner_contract |-> OsvContract, fatal_failure |-> FALSE]

ExitFailure ==
  MakeExecution([Observed EXCEPT
    !.exit_state_valid = FALSE, !.output_present = OutputPresent,
    !.output_parseable = OutputParseable,
    !.failed_components = {"scanner_process"},
    !.result_semantics_consistent = None,
    !.completeness_reason = "scanner_exit_state_invalid",
    !.fatal_failure = TRUE])

OutputReason ==
  CASE stdout.form = "empty" -> "scanner_output_empty"
    [] stdout.form = "garbage" -> "scanner_output_unparseable"
    [] stdout.form = "not_object" -> "scanner_result_not_object"
    [] OTHER -> ""

OutputFailure ==
  MakeExecution([Observed EXCEPT
    !.output_present = OutputPresent, !.output_parseable = OutputParseable,
    !.failed_components = IF OutputParseable THEN {"result_sections"}
                                             ELSE {"scanner_output"},
    !.result_semantics_consistent = IF OutputParseable THEN FALSE ELSE None,
    !.completeness_reason = OutputReason])

RejectedExecution(error) ==
  MakeExecution([Observed EXCEPT
    !.failed_components = {ComponentForError(error, "osv")},
    !.result_semantics_consistent = FALSE, !.completeness_reason = error])

CompleteExecution ==
  MakeExecution([Observed EXCEPT !.completed_components = OsvComponents])

DriftExecution ==
  MakeExecution([Observed EXCEPT
    !.completed_components = OsvComponents \ {"result_semantics"},
    !.failed_components = {"artifact_binding"},
    !.completeness_reason = "artifact_snapshot_changed",
    !.fatal_failure = TRUE])

(* evidence.json.  The raw report is digested when this is written, the
   context variable read at the same time. *)
EvidenceRecord ==
  [ref |-> ref, sha256 |-> captured, size |-> meta,
   scanner_version |-> version, execution |-> execution,
   raw_report |-> rawFile]

-----------------------------------------------------------------------------
Init ==
  /\ rawFile = None /\ evidence = None /\ receipt = None
  /\ snapshot = None /\ meta = None
  /\ scans = [k \in RunIds |-> None] /\ runs = 0 /\ pc = "idle"
  /\ ref = None /\ captured = None
  /\ version = "unavailable" /\ execution = None /\ draft = None

(* A copy that was altered stays altered until the run has looked at it. *)
DriftSnapshot ==
  /\ pc \in Exposed /\ snapshot = captured
  /\ snapshot' \in Contents \ {captured}
  /\ UNCHANGED <<disk, meta, scans, runs, pc, input, version, execution, draft>>

(* The scanner exits, having printed something or nothing. *)
ScannerExits(k) ==
  /\ Running(k)
  /\ \E printed \in Reports, exit \in ExitCodes :
       scans' = [scans EXCEPT ![k].report = printed, ![k].exit = exit]
  /\ UNCHANGED <<disk, snapshot, meta, runs, pc, input, version, execution,
                 draft>>

-----------------------------------------------------------------------------
(***************************************************************************)
(* A run up to the launch.                                                 *)
(***************************************************************************)

\* Mutant of Begin: the previous report is not removed.
BeginKeepingReport(r) ==
  /\ pc \in Quiescent /\ runs < MaxRuns
  /\ runs' = runs + 1 /\ pc' = "snapshot" /\ meta' \in {meta, None}
  /\ ref' = r /\ captured' = None /\ snapshot' = None
  /\ version' = "unavailable" /\ execution' = None /\ draft' = None
  /\ UNCHANGED <<disk, scans>>

(* The next run starts in this process or in a new one, whose meta is empty. *)
Begin(r) ==
  /\ pc \in Quiescent /\ runs < MaxRuns
  /\ runs' = runs + 1 /\ pc' = "snapshot" /\ meta' \in {meta, None}
  /\ rawFile' = None
  /\ ref' = r /\ captured' = None /\ snapshot' = None
  /\ version' = "unavailable" /\ execution' = None /\ draft' = None
  /\ UNCHANGED <<evidence, receipt, scans>>

Fail(x) == execution' = x /\ pc' = "finish"

Capture ==
  /\ pc = "snapshot"
  /\ \E c \in Contents : snapshot' = c /\ captured' = c /\ meta' = c
  /\ pc' = "binary"
  /\ UNCHANGED <<disk, scans, runs, ref, version, execution, draft>>

\* Mutant of CaptureFails: the context variable keeps the last run's data.
CaptureFailsKeepingMeta ==
  /\ pc = "snapshot"
  /\ Fail(PreflightExecution("artifact_snapshot_failed"))
  /\ UNCHANGED <<disk, snapshot, meta, scans, runs, input, version, draft>>

CaptureFails ==
  /\ pc = "snapshot"
  /\ meta' = None
  /\ Fail(PreflightExecution("artifact_snapshot_failed"))
  /\ UNCHANGED <<disk, snapshot, scans, runs, input, version, draft>>

CheckBinary ==
  /\ pc = "binary"
  /\ \/ pc' = "version" /\ UNCHANGED <<version, execution>>
     \/ /\ version' = "unverified"
        /\ Fail(PreflightExecution("scanner_binary_not_verified"))
  /\ UNCHANGED <<disk, snapshot, meta, scans, runs, input, draft>>

CheckVersion ==
  /\ pc = "version"
  /\ \/ version' = "pinned" /\ pc' = "launch" /\ UNCHANGED execution
     \/ /\ version' = "other"
        /\ Fail(PreflightExecution("scanner_version_mismatch"))
     \/ /\ version' = "unavailable"
        /\ Fail(PreflightExecution("scanner_version_unavailable"))
  /\ UNCHANGED <<disk, snapshot, meta, scans, runs, input, draft>>

(* What the scanner reads is what the copy holds at the launch: a copy altered
   between launch and read might as well have been altered before. *)
Launch ==
  /\ pc = "launch"
  /\ scans' = [scans EXCEPT ![runs] =
                 [read |-> snapshot, report |-> None, exit |-> None]]
  /\ pc' = "scan"
  /\ UNCHANGED <<disk, snapshot, meta, runs, input, version, execution, draft>>

(* The exception branch: nothing came of the launch, or reading what was
   printed raised (it is no UTF-8, say), the scanner being killed first. *)
ScanRaises ==
  /\ pc \in {"launch", "scan"}
  /\ scans' = IF Running(runs) THEN [scans EXCEPT ![runs].exit = Killed]
                               ELSE scans
  /\ rawFile' = EmptyFile
  /\ Fail(ProcessFailure)
  /\ UNCHANGED <<evidence, receipt, snapshot, meta, runs, input, version, draft>>

-----------------------------------------------------------------------------
(***************************************************************************)
(* From the scanner's exit to the exit of the run.                         *)
(***************************************************************************)
ScanReturns ==
  /\ pc = "scan" /\ ~Running(runs)
  /\ rawFile' = runs /\ pc' = "judge"
  /\ UNCHANGED <<evidence, receipt, snapshot, meta, scans, runs, input, version,
                 execution, draft>>

JudgedBy(x) ==
  /\ Fail(x)
  /\ UNCHANGED <<disk, snapshot, meta, scans, runs, input, version, draft>>

ExitValid == returncode \in {0, 1}
Validation == ValidateReport(stdout, returncode)

JudgeExit == pc = "judge" /\ ~ExitValid /\ JudgedBy(ExitFailure)

JudgeOutput ==
  pc = "judge" /\ ExitValid /\ OutputReason # "" /\ JudgedBy(OutputFailure)

JudgeReport ==
  /\ pc = "judge" /\ ExitValid /\ OutputReason = ""
  /\ IF Validation # "" THEN Fail(RejectedExecution(Validation))
     ELSE execution' = CompleteExecution /\ pc' = "evidence"
  /\ UNCHANGED <<disk, snapshot, meta, scans, runs, input, version, draft>>

WriteEvidence ==
  /\ pc = "evidence"
  /\ evidence' = EvidenceRecord /\ pc' = "map"
  /\ UNCHANGED <<rawFile, receipt, snapshot, meta, scans, runs, input, version,
                 execution, draft>>

\* Mutant of MappingError: the mapper is not told the scan target, so the paths
\* in the report are compared with the artifact's own.
MappingErrorOfArtifact ==
  IF Sections(stdout) # {} THEN "artifact_ref_mismatch"
  ELSE MapError(stdout, returncode, execution)

MappingError == MapError(stdout, returncode, execution)

\* Mutant of MapVerdict: the receipt is published before the input is verified.
MapVerdictPublishing ==
  /\ pc = "map" /\ MappingError = ""
  /\ draft' = MapReport(stdout, ref, captured, version, Sha256(evidence))
  /\ receipt' = draft' /\ pc' = "verify"
  /\ UNCHANGED <<rawFile, evidence, snapshot, meta, scans, runs, input, version,
                 execution>>

MapVerdict ==
  /\ pc = "map"
  /\ IF MappingError # "" THEN Fail(RejectedExecution(MappingError)) /\ UNCHANGED draft
     ELSE /\ draft' = MapReport(stdout, ref, captured, version, Sha256(evidence))
          /\ pc' = "verify" /\ UNCHANGED execution
  /\ UNCHANGED <<disk, snapshot, meta, scans, runs, input, version>>

Verify ==
  /\ pc = "verify" /\ snapshot = captured
  /\ pc' = "receipt"
  /\ UNCHANGED <<disk, snapshot, meta, scans, runs, input, version, execution,
                 draft>>

\* Mutant of VerifyFails: the evidence already written is left as it is.
VerifyFailsKeepingEvidence ==
  /\ pc = "verify" /\ pc' = "finish_receipt"
  /\ UNCHANGED <<disk, snapshot, meta, scans, runs, input, version, execution,
                 draft>>

\* Mutant of VerifyFails: the run tries again from the verdict on.
VerifyFailsRetrying ==
  /\ pc = "verify" /\ pc' = "map"
  /\ UNCHANGED <<disk, snapshot, meta, scans, runs, input, version, execution,
                 draft>>

(* A changed input, or one that can no longer be read. *)
VerifyFails ==
  /\ pc = "verify"
  /\ Fail(DriftExecution)
  /\ UNCHANGED <<disk, snapshot, meta, scans, runs, input, version, draft>>

WriteReceipt ==
  /\ pc = "receipt"
  /\ receipt' = draft /\ pc' = "exit0"
  /\ UNCHANGED <<rawFile, evidence, snapshot, meta, scans, runs, input, version,
                 execution, draft>>

(* _finish_inconclusive: evidence first, then a receipt, unless nothing was
   captured that a receipt could name. *)
FinishEvidence ==
  /\ pc = "finish"
  /\ evidence' = EvidenceRecord
  /\ pc' = IF captured = None THEN "exit1" ELSE "finish_receipt"
  /\ UNCHANGED <<rawFile, receipt, snapshot, meta, scans, runs, input, version,
                 execution, draft>>

\* Mutant of FinishReceipt: the receipt carries the digest of a verdict.
FinishReceiptOfDraft ==
  /\ pc = "finish_receipt"
  /\ receipt' = InconclusiveReceipt(ref, captured, version,
       IF draft = None THEN Sha256(evidence) ELSE draft.evidence_digest)
  /\ pc' = "exit1"
  /\ UNCHANGED <<rawFile, evidence, snapshot, meta, scans, runs, input, version,
                 execution, draft>>

FinishReceipt ==
  /\ pc = "finish_receipt"
  /\ receipt' = InconclusiveReceipt(ref, captured, version, Sha256(evidence))
  /\ pc' = "exit1"
  /\ UNCHANGED <<rawFile, evidence, snapshot, meta, scans, runs, input, version,
                 execution, draft>>

(* The producer dies between or inside two steps: killed, or by an exception
   run() does not catch.  A file it was writing may be left torn.  The scanner
   may survive it, and prints into a pipe nobody reads. *)
Crash ==
  /\ pc \notin Quiescent /\ pc' = "crashed"
  /\ rawFile' \in {rawFile} \union
                  (IF pc = "scan" /\ ~Running(runs) THEN {Torn} ELSE {})
  /\ evidence' \in {evidence} \union
                   (IF pc \in {"evidence", "finish"} THEN {Torn} ELSE {})
  /\ receipt' \in {receipt} \union
                  (IF pc \in {"receipt", "finish_receipt"} THEN {Torn} ELSE {})
  /\ \/ UNCHANGED scans
     \/ Running(runs) /\ scans' = [scans EXCEPT ![runs].exit = Killed]
  /\ UNCHANGED <<snapshot, meta, runs, input, version, execution, draft>>

-----------------------------------------------------------------------------
Judge == JudgeExit \/ JudgeOutput \/ JudgeReport

(* The steps nothing outside the producer can hold up. *)
OwnStep ==
  \/ Capture \/ CaptureFails \/ CheckBinary \/ Launch \/ Judge \/ WriteEvidence
  \/ MapVerdict \/ Verify \/ VerifyFails \/ WriteReceipt \/ FinishEvidence
  \/ FinishReceipt

Next ==
  \/ \E r \in Refs : Begin(r)
  \/ OwnStep \/ CheckVersion \/ ScanReturns \/ ScanRaises
  \/ Crash \/ DriftSnapshot \/ \E k \in RunIds : ScannerExits(k)

Spec == Init /\ [][Next]_vars

(***************************************************************************)
(* The producer keeps running and observes a scanner that has exited.      *)
(* Nothing says that a scanner, or its --version, ever exits or that       *)
(* another run is started: subprocess.run is called without a timeout.     *)
(***************************************************************************)
FairSpec == Spec /\ WF_vars(OwnStep) /\ WF_vars(ScanReturns)
=============================================================================
