----------------------------- MODULE TrivyProducer -----------------------------
(***************************************************************************)
(* The Trivy filesystem producer (src/producer.py): up to MaxRuns runs,    *)
(* one after the other, into the same output directory.                    *)
(*                                                                         *)
(* One action is one stretch of run() between two points at which the      *)
(* world can change: the artifact is captured, an archive is unpacked, the *)
(* scanner is pinned and launched, its exit is observed, its report is     *)
(* judged, evidence.json is written, the receipt is mapped, the scanned    *)
(* input is hashed again, receipt.json is written.  Beside the producer    *)
(* there are the scanner processes, which write trivy.raw.json, and        *)
(* whatever alters the temporary copies while a scan is on.                *)
(*                                                                         *)
(* Data.  A content is a member of Contents, which also stands for the     *)
(* digest and the size of those bytes; a file digest that has to be        *)
(* compared with a file is Sha256(file), an injective constructor.  A scan *)
(* is identified by the run that launched it, its report file by the same  *)
(* number: every run scans a path of its own (a fresh temporary directory) *)
(* and a report carries its creation time.                                 *)
(*                                                                         *)
(* Left out: stderr log, time stamps, the database metadata copied into    *)
(* the evidence, and the subject's own path, which is read once, by the    *)
(* step that captures it, and may hold anything at any other time.         *)
(***************************************************************************)
EXTENDS TrivyAdapter

CONSTANTS
  Refs,             \* artifact paths the producer is called with
  Archives,         \* those whose name ends in .tgz
  Contents,         \* what a file or an unpacked tree may hold
  Reports,          \* what a scanner may leave in its output file
  ExitCodes,        \* how a scanner process may exit by itself
  MaxRuns,          \* bound on the runs into one output directory
  OrphansSurvive,   \* a scanner may outlive a producer that is killed
  UnpackIsShared,   \* the view may be altered while it is being unpacked
  Torn              \* a file whose write was cut short

ASSUME ProducerConstants ==
  /\ Archives \subseteq Refs /\ Reports \subseteq ReportSpace
  /\ ExitCodes \subseteq Nat /\ MaxRuns \in Nat
  /\ OrphansSurvive \in BOOLEAN /\ UnpackIsShared \in BOOLEAN
  /\ None \notin Refs \union Contents \union Reports
  /\ None # Torn

VARIABLES
  rawFile,    \* out/trivy.raw.json: the scan that wrote it, or None
  evidence,   \* out/evidence.json
  receipt,    \* out/receipt.json
  snapshot,   \* what the private copy of the artifact holds now
  view,       \* what the unpacked package holds now
  meta,       \* _SNAPSHOT_META, a variable of the process, not of the run
  scans,      \* the scanner process each run launched, if it did
  runs,       \* how many runs were started; the number of the current one
  pc,         \* where the current run is
  ref,        \* its artifact
  captured,   \* snapshot.sha256 (artifact_hash), None before the capture
  manifest,   \* archive_view.manifest_sha256, None without an archive view
  version,    \* the scanner_version it reports
  raw,        \* the report file it read, None if there was none
  execution,  \* its latest execution record
  draft       \* the receipt map_report returned

disk == <<rawFile, evidence, receipt>>
inputs == <<snapshot, view>>
local == <<ref, captured, manifest, version, raw, execution, draft>>
vars == <<disk, inputs, meta, scans, runs, pc, local>>

RunIds == 1..MaxRuns
Killed == -9
NoMeta == [size |-> None, coverage |-> None, archive_view |-> None]
Sha256(file) == [sha256 |-> file]

Quiescent == {"idle", "exit0", "exit1", "crashed"}
(* The stretches during which the private copies are in use. *)
Exposed == {"archive", "manifest", "binary", "version", "launch", "scan",
            "judge", "evidence", "map", "verify", "receipt"}

Coverages == {"indeterminate", "no_supported_targets", "targets_present"}
TrivyComponents == {"scanner_process", "scanner_output", "result_sections",
                    "artifact_binding", "result_semantics"}
ArchiveComponents ==
  {"artifact_snapshot", "archive_validation", "archive_extraction",
   "derived_view_binding", "scanner_process", "scanner_output",
   "coverage_determination", "result_semantics"}
FileContract == "trivy-fs-json-v1"
PackageContract == "trivy-fs-npm-package-view-v1"

Running(k) == scans[k] # None /\ scans[k].exit = None

-----------------------------------------------------------------------------
(***************************************************************************)
(* What the producer knows and records.                                    *)
(***************************************************************************)
RequiredComponents ==
  IF manifest = None THEN TrivyComponents ELSE ArchiveComponents
ScannerContract == IF manifest = None THEN FileContract ELSE PackageContract

(* The scan target: the view of an archive, else the snapshot. *)
ScanTarget == IF manifest = None THEN snapshot ELSE view

Present(k) == k # None /\ scans[k].report.form # "empty"
Parseable(k) == Present(k) /\ scans[k].report.form # "garbage"
SizeOf(k) == IF k = None THEN None ELSE IF Present(k) THEN 1 ELSE 0

\* Mutant of Bound: the name of the target is compared, not its path.
BoundByName(k) == scans[k].report.names = "target"

(* A report is bound when it names this run's scan target. *)
Bound(k) == k = runs /\ scans[k].report.names = "target"

Unstarted(reason, failed, required, contract) ==
  [invocation_started |-> FALSE, process_completed |-> FALSE,
   exit_code |-> None, exit_state_valid |-> FALSE, output_present |-> FALSE,
   output_parseable |-> FALSE, output_exists |-> FALSE, output_size |-> None,
   required_components |-> required, completed_components |-> {},
   failed_components |-> failed, result_semantics_consistent |-> None,
   completeness_reason |-> reason, scanner_contract |-> contract,
   fatal_failure |-> TRUE]

PreflightExecution(reason) ==
  MakeExecution(Unstarted(reason, {"scanner_process"}, TrivyComponents,
                          FileContract))

ArchiveFailure(reason, component) ==
  MakeExecution(Unstarted(reason, {component}, ArchiveComponents,
                          PackageContract))

(* The facts of a scanner that exited with 0 and left a report that parses;
   each branch below says where it differs. *)
Observed ==
  [invocation_started |-> TRUE, process_completed |-> TRUE,
   exit_code |-> 0, exit_state_valid |-> TRUE, output_present |-> TRUE,
   output_parseable |-> TRUE, output_exists |-> TRUE,
   output_size |-> SizeOf(raw), required_components |-> RequiredComponents,
   completed_components |-> {}, failed_components |-> {},
   result_semantics_consistent |-> TRUE, completeness_reason |-> None,
   scanner_contract |-> ScannerContract, fatal_failure |-> FALSE]

ProcessFailure ==
  MakeExecution([Observed EXCEPT
    !.process_completed = FALSE, !.exit_code = None,
    !.exit_state_valid = FALSE, !.output_present = FALSE,
    !.output_parseable = FALSE, !.output_exists = rawFile # None,
    !.output_size = SizeOf(rawFile), !.failed_components = {"scanner_process"},
    !.result_semantics_consistent = None,
    !.completeness_reason = "scanner_process_failed", !.fatal_failure = TRUE])

ExitFailure ==
  MakeExecution([Observed EXCEPT
    !.exit_code = scans[runs].exit, !.exit_state_valid = FALSE,
    !.output_present = Present(raw), !.output_parseable = Parseable(raw),
    !.output_exists = raw # None, !.failed_components = {"scanner_process"},
    !.result_semantics_consistent = None,
    !.completeness_reason = "scanner_exit_state_invalid",
    !.fatal_failure = TRUE])

OutputReason ==
  IF raw = None THEN "scanner_output_missing"
  ELSE IF ~Present(raw) THEN "scanner_output_empty"
  ELSE IF ~Parseable(raw) THEN "scanner_output_unparseable"
  ELSE IF scans[raw].report.form = "not_object" THEN "scanner_result_not_object"
  ELSE ""

OutputFailure ==
  MakeExecution([Observed EXCEPT
    !.output_present = Present(raw), !.output_parseable = Parseable(raw),
    !.output_exists = raw # None,
    !.failed_components = IF OutputReason = "scanner_result_not_object"
                          THEN {"result_semantics"} ELSE {"scanner_output"},
    !.result_semantics_consistent = None,
    !.completeness_reason = OutputReason])

(* An archive without any result section: complete, yet never decisive, when
   the package was found to hold nothing Trivy would have reported on. *)
Uncovered == scans[raw].report.results \in {"not_list", "empty"}
NothingToCover == meta.coverage = "no_supported_targets"
UncoveredExecution ==
  MakeExecution([Observed EXCEPT
    !.completed_components = IF NothingToCover THEN RequiredComponents ELSE {},
    !.failed_components = IF NothingToCover THEN {} ELSE {"result_semantics"},
    !.result_semantics_consistent = NothingToCover,
    !.completeness_reason = IF NothingToCover
                            THEN "no_supported_dependency_targets"
                            ELSE "supported_target_result_missing"])

RejectedExecution(error) ==
  MakeExecution([Observed EXCEPT
    !.failed_components = {ComponentForError(error, "trivy")},
    !.result_semantics_consistent = FALSE, !.completeness_reason = error])

CompleteExecution ==
  MakeExecution([Observed EXCEPT !.completed_components = RequiredComponents])

DriftExecution ==
  MakeExecution([Observed EXCEPT
    !.output_size = SizeOf(rawFile),
    !.completed_components = {"scanner_process", "scanner_output",
                              "result_sections"},
    !.failed_components = {"artifact_binding"},
    !.completeness_reason = "artifact_snapshot_changed",
    !.fatal_failure = TRUE])

(* ArtifactSnapshot.verify_unchanged and PackageArchiveView.verify_unchanged. *)
SnapshotUnchanged == snapshot = captured
ViewUnchanged == manifest # None => view = manifest
\* Mutant of InputUnchanged: only the unpacked view is hashed again.
InputUnchangedForViews == manifest # None => view = manifest
InputUnchanged == ViewUnchanged /\ SnapshotUnchanged

(* evidence.json.  The raw report is digested when this is written, the
   context variable read at the same time. *)
EvidenceRecord ==
  [ref |-> ref, sha256 |-> captured, size |-> meta.size,
   coverage |-> meta.coverage, archive_view |-> meta.archive_view,
   scanner_version |-> version, execution |-> execution,
   raw_report |-> rawFile]

-----------------------------------------------------------------------------
Init ==
  /\ rawFile = None /\ evidence = None /\ receipt = None
  /\ snapshot = None /\ view = None /\ meta = NoMeta
  /\ scans = [k \in RunIds |-> None] /\ runs = 0 /\ pc = "idle"
  /\ ref = None /\ captured = None /\ manifest = None
  /\ version = "unavailable" /\ raw = None /\ execution = None /\ draft = None

(***************************************************************************)
(* The temporary copies and the scanner processes.                         *)
(***************************************************************************)

(* A copy that was altered stays altered until the run has looked at it. *)
DriftSnapshot ==
  /\ pc \in Exposed /\ snapshot = captured
  /\ snapshot' \in Contents \ {captured}
  /\ UNCHANGED <<disk, view, meta, scans, runs, pc, local>>

DriftView ==
  /\ pc \in Exposed
  /\ IF pc = "manifest" THEN UnpackIsShared /\ view = snapshot
                        ELSE manifest # None /\ view = manifest
  /\ view' \in Contents \ {view}
  /\ UNCHANGED <<disk, snapshot, meta, scans, runs, pc, local>>

(* Trivy exits, having written its report to --output or nothing at all. *)
ScannerExits(k) ==
  /\ Running(k)
  /\ \E report \in Reports \union {None}, exit \in ExitCodes :
       /\ scans' = [scans EXCEPT ![k].report = report, ![k].exit = exit]
       /\ rawFile' = IF report = None THEN rawFile ELSE k
  /\ UNCHANGED <<evidence, receipt, inputs, meta, runs, pc, local>>

-----------------------------------------------------------------------------
(***************************************************************************)
(* A run up to the launch.                                                 *)
(***************************************************************************)

\* Mutant of Begin: the previous report is not removed.
BeginKeepingReport(r) ==
  /\ pc \in Quiescent /\ runs < MaxRuns
  /\ runs' = runs + 1 /\ pc' = "snapshot" /\ meta' \in {meta, NoMeta}
  /\ ref' = r /\ captured' = None /\ manifest' = None
  /\ snapshot' = None /\ view' = None /\ version' = "unavailable"
  /\ raw' = None /\ execution' = None /\ draft' = None
  /\ UNCHANGED <<disk, scans>>

(* The context variable survives when the same process calls run() again. *)
Begin(r) ==
  /\ pc \in Quiescent /\ runs < MaxRuns
  /\ runs' = runs + 1 /\ pc' = "snapshot"
  /\ rawFile' = None
  /\ meta' \in {meta, NoMeta}
  /\ ref' = r /\ captured' = None /\ manifest' = None
  /\ snapshot' = None /\ view' = None
  /\ version' = "unavailable"
  /\ raw' = None /\ execution' = None /\ draft' = None
  /\ UNCHANGED <<evidence, receipt, scans>>

Fail(x) == execution' = x /\ pc' = "finish"

Capture ==
  /\ pc = "snapshot"
  /\ \E c \in Contents :
       /\ snapshot' = c /\ captured' = c
       /\ meta' = [NoMeta EXCEPT !.size = c]
  /\ pc' = IF ref \in Archives THEN "archive" ELSE "binary"
  /\ UNCHANGED <<disk, view, scans, runs, ref, manifest, version, raw,
                 execution, draft>>

\* Mutant of CaptureFails: the context variable keeps the last run's data.
CaptureFailsKeepingMeta ==
  /\ pc = "snapshot"
  /\ Fail(PreflightExecution("artifact_snapshot_failed"))
  /\ UNCHANGED <<disk, inputs, meta, scans, runs, ref, captured, manifest,
                 version, raw, draft>>

CaptureFails ==
  /\ pc = "snapshot"
  /\ meta' = NoMeta
  /\ Fail(PreflightExecution("artifact_snapshot_failed"))
  /\ UNCHANGED <<disk, inputs, scans, runs, ref, captured, manifest, version,
                 raw, draft>>

(* PackageArchiveView.create validates and unpacks the snapshot, or refuses
   it: the reason stands for all of its reasons. *)
ArchiveRejected ==
  /\ pc \in {"archive", "manifest"}
  /\ Fail(ArchiveFailure("archive_extraction_failed", "archive_validation"))
  /\ UNCHANGED <<disk, inputs, meta, scans, runs, ref, captured, manifest,
                 version, raw, draft>>

UnpackArchive ==
  /\ pc = "archive"
  /\ view' = snapshot /\ pc' = "manifest"
  /\ UNCHANGED <<disk, snapshot, meta, scans, runs, local>>

(* It then takes the manifest of what it finds unpacked. *)
TakeManifest ==
  /\ pc = "manifest"
  /\ manifest' = view
  /\ \E coverage \in Coverages :
       /\ meta' = [meta EXCEPT !.coverage = coverage, !.archive_view = view]
       /\ IF coverage = "indeterminate"
          THEN Fail(ArchiveFailure("coverage_inventory_failed",
                                   "coverage_determination"))
          ELSE pc' = "binary" /\ UNCHANGED execution
  /\ UNCHANGED <<disk, inputs, scans, runs, ref, captured, version, raw, draft>>

CheckBinary ==
  /\ pc = "binary"
  /\ \/ pc' = "version" /\ UNCHANGED <<version, execution>>
     \/ /\ version' = "unverified"
        /\ Fail(PreflightExecution("scanner_binary_not_verified"))
  /\ UNCHANGED <<disk, inputs, meta, scans, runs, ref, captured, manifest, raw,
                 draft>>

\* Mutant of CheckVersion: any version that can be read will do.
CheckVersionUnpinned ==
  /\ pc = "version"
  /\ \/ version' \in {"pinned", "other"} /\ pc' = "launch" /\ UNCHANGED execution
     \/ /\ version' = "unavailable"
        /\ Fail(PreflightExecution("scanner_version_unavailable"))
  /\ UNCHANGED <<disk, inputs, meta, scans, runs, ref, captured, manifest, raw,
                 draft>>

CheckVersion ==
  /\ pc = "version"
  /\ \/ version' = "pinned" /\ pc' = "launch" /\ UNCHANGED execution
     \/ /\ version' = "other"
        /\ Fail(PreflightExecution("scanner_version_mismatch"))
     \/ /\ version' = "unavailable"
        /\ Fail(PreflightExecution("scanner_version_unavailable"))
  /\ UNCHANGED <<disk, inputs, meta, scans, runs, ref, captured, manifest, raw,
                 draft>>

(* The scanner reads its target once it runs: what it reads is what the copy
   holds at the launch, since a copy altered between the launch and the read
   might as well have been altered before. *)
Launch ==
  /\ pc = "launch"
  /\ scans' = [scans EXCEPT ![runs] =
                 [read |-> ScanTarget, report |-> None, exit |-> None]]
  /\ pc' = "scan"
  /\ UNCHANGED <<disk, inputs, meta, runs, local>>

LaunchFails ==
  /\ pc = "launch"
  /\ Fail(ProcessFailure)
  /\ UNCHANGED <<disk, inputs, meta, scans, runs, ref, captured, manifest,
                 version, raw, draft>>

-----------------------------------------------------------------------------
(***************************************************************************)
(* From the scanner's exit to the exit of the run.                         *)
(***************************************************************************)

(* subprocess.run kills the scanner before it lets an exception through. *)
ScanRaises ==
  /\ pc = "scan"
  /\ scans' = IF Running(runs) THEN [scans EXCEPT ![runs].exit = Killed]
                               ELSE scans
  /\ Fail(ProcessFailure)
  /\ UNCHANGED <<disk, inputs, meta, runs, ref, captured, manifest, version,
                 raw, draft>>

ScanReturns ==
  /\ pc = "scan" /\ ~Running(runs)
  /\ raw' = rawFile /\ pc' = "judge"
  /\ UNCHANGED <<disk, inputs, meta, scans, runs, ref, captured, manifest,
                 version, execution, draft>>

JudgedBy(x) ==
  /\ Fail(x)
  /\ UNCHANGED <<disk, inputs, meta, scans, runs, ref, captured, manifest,
                 version, raw, draft>>

ExitValid == scans[runs].exit = 0
OutputUsable == ExitValid /\ OutputReason = ""
NoResultsOfArchive == manifest # None /\ Uncovered
\* Mutant of Validation: the binding is left to the mapper.
ValidationUnbound(exit_code) ==
  ValidateReport(scans[raw].report, TRUE, version, exit_code)

Validation(exit_code) ==
  ValidateReport(scans[raw].report, Bound(raw), version, exit_code)

JudgeExit == pc = "judge" /\ ~ExitValid /\ JudgedBy(ExitFailure)

\* Mutant of JudgeOutput: output that is missing is looked for again.
JudgeOutputPolling ==
  /\ pc = "judge" /\ ExitValid /\ OutputReason # ""
  /\ IF raw = None
     THEN /\ raw' = rawFile
          /\ UNCHANGED <<disk, inputs, meta, scans, runs, pc, ref, captured, manifest,
                         version, execution, draft>>
     ELSE JudgedBy(OutputFailure)

JudgeOutput ==
  pc = "judge" /\ ExitValid /\ OutputReason # "" /\ JudgedBy(OutputFailure)

JudgeUncovered ==
  pc = "judge" /\ OutputUsable /\ NoResultsOfArchive
    /\ JudgedBy(UncoveredExecution)

JudgeReport ==
  /\ pc = "judge" /\ OutputUsable /\ ~NoResultsOfArchive
  /\ IF Validation(0) # "" THEN Fail(RejectedExecution(Validation(0)))
     ELSE execution' = CompleteExecution /\ pc' = "evidence"
  /\ UNCHANGED <<disk, inputs, meta, scans, runs, ref, captured, manifest,
                 version, raw, draft>>

WriteEvidence ==
  /\ pc = "evidence"
  /\ evidence' = EvidenceRecord /\ pc' = "map"
  /\ UNCHANGED <<rawFile, receipt, inputs, meta, scans, runs, local>>

MappingError ==
  MapError(scans[raw].report, Bound(raw), version, 0, execution)

\* Mutant of MapVerdict: the receipt is published before the input is verified.
MapVerdictPublishing ==
  /\ pc = "map" /\ MappingError = ""
  /\ draft' = MapReport(scans[raw].report, ref, captured, version,
                        Sha256(evidence))
  /\ receipt' = draft' /\ pc' = "verify"
  /\ UNCHANGED <<rawFile, evidence, inputs, meta, scans, runs, ref, captured,
                 manifest, version, raw, execution>>

MapVerdict ==
  /\ pc = "map"
  /\ IF MappingError # "" THEN Fail(RejectedExecution(MappingError)) /\ UNCHANGED draft
     ELSE /\ draft' = MapReport(scans[raw].report, ref, captured, version,
                                Sha256(evidence))
          /\ pc' = "verify" /\ UNCHANGED execution
  /\ UNCHANGED <<disk, inputs, meta, scans, runs, ref, captured, manifest,
                 version, raw>>

Verify ==
  /\ pc = "verify" /\ InputUnchanged
  /\ pc' = "receipt"
  /\ UNCHANGED <<disk, inputs, meta, scans, runs, local>>

\* Mutant of VerifyFails: the evidence already written is left as it is.
VerifyFailsKeepingEvidence ==
  /\ pc = "verify" /\ pc' = "finish_receipt"
  /\ UNCHANGED <<disk, inputs, meta, scans, runs, local>>

\* Mutant of VerifyFails: the run just returns 1.
VerifyFailsSilently ==
  /\ pc = "verify" /\ pc' = "exit1"
  /\ UNCHANGED <<disk, inputs, meta, scans, runs, local>>

\* Mutant of VerifyFails: the run tries again from the verdict on.
VerifyFailsRetrying ==
  /\ pc = "verify" /\ pc' = "map"
  /\ UNCHANGED <<disk, inputs, meta, scans, runs, local>>

(* A changed input, or one that can no longer be read. *)
VerifyFails ==
  /\ pc = "verify"
  /\ Fail(DriftExecution)
  /\ UNCHANGED <<disk, inputs, meta, scans, runs, ref, captured, manifest,
                 version, raw, draft>>

WriteReceipt ==
  /\ pc = "receipt"
  /\ receipt' = draft /\ pc' = "exit0"
  /\ UNCHANGED <<rawFile, evidence, inputs, meta, scans, runs, local>>

(* _finish_inconclusive: evidence first, then a receipt, unless nothing was
   captured that a receipt could name. *)
FinishEvidence ==
  /\ pc = "finish"
  /\ evidence' = EvidenceRecord
  /\ pc' = IF captured = None THEN "exit1" ELSE "finish_receipt"
  /\ UNCHANGED <<rawFile, receipt, inputs, meta, scans, runs, local>>

FinishReceipt ==
  /\ pc = "finish_receipt"
  /\ receipt' = InconclusiveReceipt(ref, captured, version, Sha256(evidence))
  /\ pc' = "exit1"
  /\ UNCHANGED <<rawFile, evidence, inputs, meta, scans, runs, local>>

(* The producer dies between or inside two steps: killed, or by an exception
   run() does not catch.  A file it was writing may be left torn.  An exception
   takes the scanner down with it, a kill need not. *)
Crash ==
  /\ pc \notin Quiescent /\ pc' = "crashed"
  /\ evidence' \in {evidence} \union
                   (IF pc \in {"evidence", "finish"} THEN {Torn} ELSE {})
  /\ receipt' \in {receipt} \union
                  (IF pc \in {"receipt", "finish_receipt"} THEN {Torn} ELSE {})
  /\ \/ Running(runs) /\ scans' = [scans EXCEPT ![runs].exit = Killed]
     \/ (OrphansSurvive \/ ~Running(runs)) /\ UNCHANGED scans
  /\ UNCHANGED <<rawFile, inputs, meta, runs, local>>

-----------------------------------------------------------------------------
Judge == JudgeExit \/ JudgeOutput \/ JudgeUncovered \/ JudgeReport

(* The steps nothing outside the producer can hold up. *)
OwnStep ==
  \/ Capture \/ CaptureFails \/ ArchiveRejected \/ UnpackArchive \/ TakeManifest
  \/ CheckBinary \/ Launch \/ LaunchFails \/ Judge \/ WriteEvidence
  \/ MapVerdict \/ Verify \/ VerifyFails \/ WriteReceipt \/ FinishEvidence
  \/ FinishReceipt

Environment ==
  DriftSnapshot \/ DriftView \/ (\E k \in RunIds : ScannerExits(k))

Next ==
  \/ \E r \in Refs : Begin(r)
  \/ OwnStep \/ CheckVersion \/ ScanReturns \/ ScanRaises
  \/ Crash \/ Environment

Spec == Init /\ [][Next]_vars

(***************************************************************************)
(* The producer keeps running and observes a scanner that has exited.      *)
(* Nothing says that a scanner, or trivy --version, ever exits, that a     *)
(* captured exception occurs or that another run is started: run() calls   *)
(* subprocess.run without a timeout.                                       *)
(***************************************************************************)
FairSpec == Spec /\ WF_vars(OwnStep) /\ WF_vars(ScanReturns)
=============================================================================
