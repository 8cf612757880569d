------------------------------ MODULE OciProducer ------------------------------
(***************************************************************************)
(* The OCI image producer (src/oci_producer.py): up to MaxRuns runs, one   *)
(* after the other, into the same output directory.                        *)
(*                                                                         *)
(* A run first removes what is left of earlier ones, file by file, then    *)
(* resolves its image (any answer OciIdentity allows, which is what        *)
(* OciResolution can come to), stores the documents behind the answer, has *)
(* Trivy scan the manifest selected, and judges the report.  Before the    *)
(* launch a failure leaves oci-error.json and nothing else; afterwards it  *)
(* leaves inconclusive evidence and receipt.                               *)
(*                                                                         *)
(* dir is the output directory: of every file, which run wrote it and what *)
(* it holds, the raw report as the number of the scan that wrote it.       *)
(* Sha256 of a file is Sha256 of what it holds.  An image is a digest in   *)
(* one repository.  Left out: the stderr log, time stamps, and the         *)
(* scanner's version, which is the pinned one in every file that names it. *)
(***************************************************************************)
EXTENDS OciAdapter, OciIdentity

CONSTANTS
  Requested,        \* references the producer is called with
  Wishes,           \* platforms it is called with
  Reports,          \* what a scanner may write
  ExitCodes,        \* how a scanner process may exit by itself
  MaxRuns,          \* bound on the runs into one output directory
  MaxUpdates,       \* bound on the updates of the vulnerability database
  OrphansSurvive,   \* a scanner may outlive a producer that is killed
  Torn              \* a file whose write was cut short

ASSUME ProducerConstants ==
  /\ Requested \subseteq References /\ Wishes \subseteq Platforms
  /\ Reports \subseteq ReportSpace /\ ExitCodes \subseteq Nat
  /\ MaxRuns \in Nat /\ MaxUpdates \in Nat /\ OrphansSurvive \in BOOLEAN
  /\ None \notin Requested \union Reports \union Digests \union Bodies
  /\ None # Torn /\ Torn \notin Bodies

VARIABLES
  dir,        \* the output directory
  database,   \* which state Trivy's vulnerability database is in
  scans,      \* the scanner process each run launched, if it did
  runs,       \* how many runs were started; the number of the current one
  pc,         \* where the current run is
  cleaned,    \* how many of StaleNames it has removed
  image, wish,\* what it was called with
  resolved,   \* the record of its resolution
  code,       \* the error it failed with before the launch, if it did
  judged,     \* the scan whose report it read, None if the file was missing
  execution,  \* its latest execution record
  draft       \* the receipt map_image_report returned

arguments == <<image, wish>>
world == <<database, scans, runs>>
local == <<cleaned, arguments, resolved, code, judged, execution, draft>>
vars == <<dir, world, pc, local>>

RunIds == 1..MaxRuns
Killed == -9

Files == {"receipt", "evidence", "error", "identity", "index", "manifest", "raw"}

\* Mutant of StaleNames: an index is removed only where one is written.
StaleNamesButIndex ==
  <<"receipt", "evidence", "error", "identity", "manifest", "raw">>

\* Mutant of StaleNames: in the order in which the files are written.
StaleNamesAsWritten ==
  <<"identity", "index", "manifest", "raw", "evidence", "receipt", "error">>

\* Mutant of StaleNames: an error is left to be overwritten.
StaleNamesButError ==
  <<"receipt", "evidence", "identity", "index", "manifest", "raw">>

StaleNames ==
  <<"receipt", "evidence", "error", "identity", "index", "manifest", "raw">>

Quiescent == {"idle", "exit0", "exit1", "crashed"}

OciComponents == {"scanner_process", "scanner_output", "result_sections",
                  "artifact_binding", "result_semantics"}
OciContract == "trivy-oci-image-json-v1"

Running(k) == scans[k] # None /\ scans[k].exit = None

File(x) == [by |-> runs, holds |-> x]
Write(name, x) == dir' = [dir EXCEPT ![name] = File(x)]
Remove(name) == dir' = [dir EXCEPT ![name] = None]
RawReport == IF dir["raw"] = None THEN None ELSE dir["raw"].holds

-----------------------------------------------------------------------------
(***************************************************************************)
(* What the producer knows and records.                                    *)
(***************************************************************************)
exit_code == IF scans[runs] = None THEN None ELSE scans[runs].exit
raw == scans[judged].report

\* Mutant of Bound: any report that names an image is about this one.
BoundByName == raw.names = "target"

(* The report names the digest of the manifest selected, which it does when its
   scanner was launched with that and did as it was told. *)
Bound ==
  raw.names = "target" /\ scans[judged].target = resolved.manifest_digest

SizeOf(k) ==
  IF k = None THEN None ELSE IF scans[k].report.form = "empty" THEN 0 ELSE 1

RawExists == judged # None
RawPresent == RawExists /\ raw.form # "empty"
RawParseable == RawPresent /\ raw.form # "garbage"

(* The facts of a scanner that exited with 0 and left a JSON object; each
   branch below says where it differs. *)
Observed ==
  [invocation_started |-> TRUE, process_completed |-> TRUE,
   exit_code |-> exit_code, exit_state_valid |-> TRUE, output_present |-> TRUE,
   output_parseable |-> TRUE, output_exists |-> TRUE,
   output_size |-> SizeOf(judged), required_components |-> OciComponents,
   completed_components |-> {}, failed_components |-> {},
   result_semantics_consistent |-> TRUE, completeness_reason |-> None,
   scanner_contract |-> OciContract, fatal_failure |-> FALSE]

ProcessFailure ==
  MakeExecution([Observed EXCEPT
    !.process_completed = FALSE, !.exit_code = None, !.exit_state_valid = FALSE,
    !.output_present = FALSE, !.output_parseable = FALSE,
    !.output_exists = RawReport # None, !.output_size = SizeOf(RawReport),
    !.failed_components = {"scanner_process"},
    !.result_semantics_consistent = None,
    !.completeness_reason = "scanner_process_failed", !.fatal_failure = TRUE])

ExitFailure ==
  MakeExecution([Observed EXCEPT
    !.exit_state_valid = FALSE, !.output_present = RawPresent,
    !.output_parseable = RawParseable, !.output_exists = RawExists,
    !.failed_components = {"scanner_process"},
    !.result_semantics_consistent = None,
    !.completeness_reason = "scanner_exit_state_invalid",
    !.fatal_failure = TRUE])

OutputReason ==
  IF ~RawExists THEN "scanner_output_missing"
  ELSE IF ~RawPresent THEN "scanner_output_empty"
  ELSE IF ~RawParseable THEN "scanner_output_unparseable"
  ELSE IF raw.form = "not_object" THEN "scanner_result_not_object"
  ELSE ""

OutputFailure ==
  MakeExecution([Observed EXCEPT
    !.output_present = RawPresent, !.output_parseable = RawParseable,
    !.output_exists = RawExists,
    !.failed_components = IF RawParseable THEN {"result_sections"}
                                             ELSE {"scanner_output"},
    !.result_semantics_consistent = None,
    !.completeness_reason = OutputReason])

RejectedExecution(error) ==
  MakeExecution([Observed EXCEPT
    !.failed_components = {ComponentForError(error, "trivy")},
    !.result_semantics_consistent = FALSE, !.completeness_reason = error])

CompleteExecution ==
  MakeExecution([Observed EXCEPT !.completed_components = OciComponents])

(* evidence.json: files are digested, and the database is looked at, when it
   is written. *)
EvidenceRecord ==
  [requested_ref |-> image, manifest_digest |-> resolved.manifest_digest,
   manifest_size |-> Document[dir["manifest"].holds].size,
   identity_sha256 |-> Sha256(dir["identity"].holds),
   root_digest |-> resolved.root_digest, platform |-> resolved.platform,
   index_sha256 |->
     IF dir["index"] = None THEN None ELSE Sha256(dir["index"].holds),
   scanner_database |-> database, execution |-> execution,
   raw_report |-> RawReport]

-----------------------------------------------------------------------------
Init ==
  /\ dir = [f \in Files |-> None] /\ database = 0
  /\ scans = [k \in RunIds |-> None] /\ runs = 0 /\ pc = "idle"
  /\ cleaned = 0 /\ image = None /\ wish = None /\ resolved = None
  /\ code = "" /\ judged = None /\ execution = None /\ draft = None

(* Another process downloads a newer database. *)
UpdateDatabase ==
  /\ database < MaxUpdates /\ database' = database + 1
  /\ UNCHANGED <<dir, scans, runs, pc, local>>

(* The manifest on disk is not what was written: the one file that is compared
   with what it should hold. *)
SpoilManifest ==
  /\ pc = "check_manifest"
  /\ dir["manifest"].holds = resolved.manifest_digest.sha256
  /\ \E b \in Bodies \ {resolved.manifest_digest.sha256} : Write("manifest", b)
  /\ UNCHANGED <<world, pc, local>>

(* The scanner writes a report or none, and exits. *)
ScannerExits(k) ==
  /\ Running(k)
  /\ \E report \in Reports \union {None}, exit \in ExitCodes :
       /\ scans' = [scans EXCEPT ![k].report = report, ![k].exit = exit]
       /\ dir' = IF report = None THEN dir
                 ELSE [dir EXCEPT !["raw"] = [by |-> k, holds |-> k]]
  /\ UNCHANGED <<database, runs, pc, local>>

-----------------------------------------------------------------------------
(***************************************************************************)
(* A run up to the launch.                                                 *)
(***************************************************************************)
Begin(reference, platform) ==
  /\ pc \in Quiescent /\ runs < MaxRuns
  /\ runs' = runs + 1 /\ pc' = "clean" /\ cleaned' = 0
  /\ image' = reference /\ wish' = platform /\ resolved' = None /\ code' = ""
  /\ judged' = None /\ execution' = None /\ draft' = None
  /\ UNCHANGED <<dir, database, scans>>

Unlink ==
  /\ pc = "clean"
  /\ Remove(StaleNames[cleaned + 1]) /\ cleaned' = cleaned + 1
  /\ pc' = IF cleaned' = Len(StaleNames) THEN "reference" ELSE "clean"
  /\ UNCHANGED <<world, arguments, resolved, code, judged, execution, draft>>

(* return _fail(out, c, ...) *)
Fail(c) ==
  /\ pc' = "fail" /\ code' = c
  /\ UNCHANGED <<world, cleaned, arguments, resolved, judged, execution, draft>>

Advance(there) == pc' = there /\ UNCHANGED <<world, local>>

CheckReference ==
  /\ pc = "reference" /\ UNCHANGED dir
  /\ CASE image.kind = "malformed" -> Fail("oci_reference_invalid")
       [] image.kind = "tag" -> Fail("mutable_oci_reference_rejected")
       [] image.kind = "digest" -> Advance("binary")

CheckBinary ==
  /\ pc = "binary" /\ UNCHANGED dir
  /\ \/ Advance("version")
     \/ Fail("trivy_binary_unavailable") \/ Fail("trivy_binary_digest_mismatch")

CheckVersion ==
  /\ pc = "version" /\ UNCHANGED dir
  /\ \/ Advance("resolve")
     \/ Fail("trivy_version_unavailable") \/ Fail("trivy_version_mismatch")

ResolveImage ==
  /\ pc = "resolve" /\ UNCHANGED dir
  /\ \/ Fail("oci_identity_resolution_failed")
     \/ /\ resolved' \in Resolutions(image, wish) /\ pc' = "identity"
        /\ UNCHANGED <<world, cleaned, arguments, code, judged, execution, draft>>

WriteIdentity ==
  pc = "identity" /\ Write("identity", resolved) /\ Advance("manifest")

WriteManifest ==
  /\ pc = "manifest" /\ Write("manifest", resolved.manifest_digest.sha256)
  /\ Advance("index")

HasIndex == resolved.root_digest # resolved.manifest_digest

WriteIndex ==
  /\ pc = "index" /\ Advance("check_manifest")
  /\ IF HasIndex THEN Write("index", resolved.root_digest.sha256)
                 ELSE Remove("index")

\* Mutant of CheckManifest: what was written is believed to be there.
CheckManifestUnread ==
  pc = "check_manifest" /\ Remove("raw") /\ Advance("launch")

\* Mutant of CheckManifest: a manifest that is not as written is written again.
CheckManifestRewriting ==
  /\ pc = "check_manifest"
  /\ IF Sha256(dir["manifest"].holds) # resolved.manifest_digest
     THEN Advance("manifest") /\ UNCHANGED dir
     ELSE Remove("raw") /\ Advance("launch")

CheckManifest ==
  /\ pc = "check_manifest"
  /\ IF Sha256(dir["manifest"].holds) # resolved.manifest_digest
     THEN Fail("oci_manifest_persistence_mismatch") /\ UNCHANGED dir
     ELSE Remove("raw") /\ Advance("launch")

(* The scanner opens the database at once; one that updates it first finds it
   as UpdateDatabase left it before the launch. *)
Launch ==
  /\ pc = "launch"
  /\ scans' = [scans EXCEPT ![runs] =
                 [target |-> resolved.manifest_digest, database |-> database,
                  report |-> None, exit |-> None]]
  /\ pc' = "scan" /\ UNCHANGED <<dir, database, runs, local>>

-----------------------------------------------------------------------------
(***************************************************************************)
(* From the scanner's exit to the exit of the run.                         *)
(***************************************************************************)
Decline(x) ==
  /\ execution' = x /\ pc' = "finish"
  /\ UNCHANGED <<cleaned, arguments, resolved, code, judged, draft>>

(* Nothing came of the launch, or what was printed could not be read, the
   scanner being killed first. *)
ScanRaises ==
  /\ pc \in {"launch", "scan"}
  /\ scans' = IF Running(runs) THEN [scans EXCEPT ![runs].exit = Killed]
                               ELSE scans
  /\ Decline(ProcessFailure) /\ UNCHANGED <<dir, database, runs>>

ScanReturns ==
  /\ pc = "scan" /\ ~Running(runs)
  /\ judged' = RawReport /\ pc' = "judge"
  /\ UNCHANGED <<dir, world, cleaned, arguments, resolved, code, execution, draft>>

JudgedBy(x) == Decline(x) /\ UNCHANGED <<dir, world>>

\* Mutant of Validation: the exact reference is left to the mapper to check.
ValidationUnbound == ValidateReport(raw, TRUE, "pinned", 0)

Validation == ValidateReport(raw, Bound, "pinned", 0)

JudgeExit == pc = "judge" /\ exit_code # 0 /\ JudgedBy(ExitFailure)

\* Mutant of JudgeOutput: output that is missing is waited for.
JudgeOutputWaiting ==
  /\ pc = "judge" /\ exit_code = 0 /\ OutputReason # ""
  /\ pc' = "scan" /\ UNCHANGED <<dir, world, local>>

JudgeOutput ==
  /\ pc = "judge" /\ exit_code = 0 /\ OutputReason # ""
  /\ JudgedBy(OutputFailure)

JudgeReport ==
  /\ pc = "judge" /\ exit_code = 0 /\ OutputReason = ""
  /\ \/ Validation # "" /\ JudgedBy(RejectedExecution(Validation))
     \/ /\ Validation = ""
        /\ execution' = CompleteExecution /\ pc' = "evidence"
        /\ UNCHANGED <<dir, world, cleaned, arguments, resolved, code, judged,
                       draft>>

WriteEvidence ==
  pc = "evidence" /\ Write("evidence", EvidenceRecord) /\ Advance("map")

MappingError == MapError(raw, Bound, "pinned", 0, execution)

\* Mutant of MapVerdict: the receipt names the digest the caller asked for.
MapVerdictOfRoot ==
  /\ pc = "map" /\ MappingError = ""
  /\ draft' = MapReport(raw, resolved.root_digest, "pinned",
                        Sha256(dir["evidence"].holds))
  /\ pc' = "receipt"
  /\ UNCHANGED <<dir, world, cleaned, arguments, resolved, code, judged, execution>>

MapVerdict ==
  /\ pc = "map"
  /\ \/ /\ MappingError # ""
        /\ Decline(RejectedExecution(MappingError)) /\ UNCHANGED <<dir, world>>
     \/ /\ MappingError = ""
        /\ draft' = MapReport(raw, resolved.manifest_digest, "pinned",
                              Sha256(dir["evidence"].holds))
        /\ pc' = "receipt"
        /\ UNCHANGED <<dir, world, cleaned, arguments, resolved, code, judged,
                       execution>>

WriteReceipt == pc = "receipt" /\ Write("receipt", draft) /\ Advance("exit0")

(* _fail *)
WriteError == pc = "fail" /\ Write("error", code) /\ Advance("exit1")

(* _finish_inconclusive *)
FinishEvidence ==
  /\ pc = "finish" /\ Write("evidence", EvidenceRecord)
  /\ Advance("finish_receipt")

FinishReceipt ==
  /\ pc = "finish_receipt"
  /\ Write("receipt", InconclusiveReceipt(resolved.manifest_digest, "pinned",
                                          Sha256(dir["evidence"].holds)))
  /\ Advance("exit1")

(* The file a step writes, if it writes one. *)
Written ==
  CASE pc = "fail" -> {"error"}
    [] pc \in {"identity", "manifest"} -> {pc}
    [] pc = "index" /\ HasIndex -> {"index"}
    [] pc \in {"evidence", "finish"} -> {"evidence"}
    [] pc \in {"receipt", "finish_receipt"} -> {"receipt"}
    [] OTHER -> {}

(* The producer dies between or inside two steps: killed, or by an exception
   run() does not catch (the Uncaught of OciResolution among them).  A file it
   was writing may be left torn; its scanner dies too or lives on. *)
Crash ==
  /\ pc \notin Quiescent /\ pc' = "crashed"
  /\ UNCHANGED dir \/ \E name \in Written : Write(name, Torn)
  /\ \/ Running(runs) /\ scans' = [scans EXCEPT ![runs].exit = Killed]
     \/ (OrphansSurvive \/ ~Running(runs)) /\ UNCHANGED scans
  /\ UNCHANGED <<database, runs, local>>

-----------------------------------------------------------------------------
Judge == JudgeExit \/ JudgeOutput \/ JudgeReport

(* The steps nothing outside the producer can hold up. *)
OwnStep ==
  \/ Unlink \/ CheckReference \/ CheckBinary
  \/ WriteIdentity \/ WriteManifest \/ WriteIndex \/ CheckManifest \/ Launch
  \/ Judge \/ WriteEvidence \/ MapVerdict \/ WriteReceipt \/ WriteError
  \/ FinishEvidence \/ FinishReceipt

Next ==
  \/ \E r \in Requested, p \in Wishes : Begin(r, p)
  \/ OwnStep \/ CheckVersion \/ ResolveImage \/ ScanReturns \/ ScanRaises
  \/ Crash \/ UpdateDatabase \/ SpoilManifest \/ \E k \in RunIds : ScannerExits(k)

Spec == Init /\ [][Next]_vars

(***************************************************************************)
(* The producer keeps running and observes a scanner that has exited.      *)
(* Nothing says that a scanner, its --version or a registry's answer       *)
(* (OciResolution) comes to an end, or that another run is started.        *)
(***************************************************************************)
FairSpec == Spec /\ WF_vars(OwnStep) /\ WF_vars(ScanReturns)
===============================================================================
