------------------------ MODULE TrivyProducerProperties ------------------------
(***************************************************************************)
(* What the Trivy producer has to get right.                               *)
(***************************************************************************)
EXTENDS TrivyProducer

Versions == {"unavailable", "unverified", "other", "pinned"}
PCs == Quiescent \union Exposed \union {"snapshot", "finish", "finish_receipt"}

(* The names an execution record of this producer is made of. *)
Words ==
  TrivyComponents \union ArchiveComponents \union {"source_binding"}
    \union {FileContract, PackageContract} \union (SectionDefects \ {""}) \union
  {"artifact_snapshot_failed", "archive_extraction_failed",
   "coverage_inventory_failed", "scanner_binary_not_verified",
   "scanner_version_mismatch", "scanner_version_unavailable",
   "scanner_process_failed", "scanner_exit_state_invalid",
   "scanner_output_missing", "scanner_output_empty",
   "scanner_output_unparseable", "scanner_result_not_object",
   "no_supported_dependency_targets", "supported_target_result_missing",
   "artifact_snapshot_changed", "trivy_result_sections_missing",
   "trivy_version_mismatch", "artifact_ref_mismatch", "trivy_exit_code_invalid",
   "scanner_execution_incomplete"}

Metas == [size : Contents \union {None}, coverage : Coverages \union {None},
          archive_view : Contents \union {None}]
ScanRecords ==
  [read : Contents, report : Reports \union {None},
   exit : ExitCodes \union {None, Killed}]
EvidenceRecords ==
  [ref : Refs, sha256 : Contents \union {None},
   size : Contents \union {None}, coverage : Coverages \union {None},
   archive_view : Contents \union {None}, scanner_version : Versions,
   execution : Executions(Words), raw_report : RunIds \union {None}]
Receipts ==
  [scanned_artifact_ref : Refs, scanned_artifact_digest : Contents,
   scanner_version : Versions, verdict : {"clean", "findings", "inconclusive"},
   evidence_digest : [sha256 : EvidenceRecords]]

(* The marks of an absent and of a torn file are no records, nor is the first
   a word of one. *)
ASSUME MarksAreNoRecords ==
  /\ None \notin Coverages \union Words
  /\ None \notin ScanRecords /\ None \notin Executions(Words)
  /\ None \notin EvidenceRecords /\ Torn \notin EvidenceRecords
  /\ None \notin Receipts /\ Torn \notin Receipts

(* The variables hold what the code can put there: both files whole, absent or
   torn, every execution record one make_execution_evidence can return. *)
TypeOK ==
  /\ rawFile \in RunIds \union {None} /\ raw \in RunIds \union {None}
  /\ evidence \in EvidenceRecords \union {None, Torn}
  /\ receipt \in Receipts \union {None, Torn}
  /\ draft \in Receipts \union {None}
  /\ snapshot \in Contents \union {None} /\ view \in Contents \union {None}
  /\ captured \in Contents \union {None}
  /\ manifest \in Contents \union {None}
  /\ meta \in Metas /\ scans \in [RunIds -> ScanRecords \union {None}]
  /\ runs \in 0..MaxRuns /\ pc \in PCs /\ ref \in Refs \union {None}
  /\ version \in Versions /\ execution \in Executions(Words) \union {None}

-----------------------------------------------------------------------------
Whole(file) == file \notin {None, Torn}
Decisive(r) == r.verdict \in {"clean", "findings"}
Settled == pc \in {"exit0", "exit1"}

(* A scan on which a verdict may rest: the scanner exited with 0 and left a
   sound report, of the pinned version, about the target it was given. *)
Conclusive(scan) ==
  /\ scan # None /\ scan.exit = 0 /\ scan.report # None
  /\ scan.report.form = "object" /\ scan.report.results = "sections"
  /\ scan.report.version = "pinned" /\ scan.report.names = "target"
  /\ scan.report.defect = ""

(* Whatever is altered, killed or left over: a clean or findings receipt in
   the directory rests on a conclusive scan of exactly the bytes it names, and
   gives that scan's answer (run() validates, maps, hashes again, writes). *)
ReceiptEarned ==
  Whole(receipt) /\ Decisive(receipt) =>
    \E k \in RunIds :
      /\ Conclusive(scans[k])
      /\ scans[k].read = receipt.scanned_artifact_digest
      /\ receipt.verdict = Verdict(scans[k].report)

(* A receipt never says more than the evidence it binds: same artifact, same
   digest, same scanner, and a decisive one binds an execution recorded as
   complete by the pinned scanner with exit 0 (_write_evidence, map_report). *)
EvidenceBacksReceipt ==
  Whole(receipt) =>
    LET e == receipt.evidence_digest.sha256 IN
    /\ e.ref = receipt.scanned_artifact_ref
    /\ e.sha256 = receipt.scanned_artifact_digest
    /\ e.scanner_version = receipt.scanner_version
    /\ Decisive(receipt) =>
         e.scanner_version = "pinned" /\ ExecutionIsComplete(e.execution, {0})

(* The raw report a decisive receipt's evidence retains is the one the verdict
   was read from, although it is parsed and digested at different moments
   (lines 391 and 138).  Holds while no scanner outlives its producer. *)
RetainedReportIsJudged ==
  Whole(receipt) /\ Decisive(receipt) =>
    LET e == receipt.evidence_digest.sha256 IN
    /\ e.raw_report # None /\ Conclusive(scans[e.raw_report])
    /\ receipt.verdict = Verdict(scans[e.raw_report].report)

(* A run that returns leaves a pair: the receipt names this run's artifact,
   binds the evidence beside it, and is decisive exactly when the run returns
   0.  Only a run that captured nothing leaves the receipt alone. *)
SettledPair ==
  Settled /\ captured # None =>
    /\ Whole(receipt) /\ Whole(evidence)
    /\ receipt.evidence_digest = Sha256(evidence)
    /\ receipt.scanned_artifact_ref = ref
    /\ receipt.scanned_artifact_digest = captured
    /\ Decisive(receipt) <=> pc = "exit0"

(* The evidence describes its own run's input, although size, coverage and
   archive view reach it through a variable of the process that outlives the
   run (_SNAPSHOT_META): nothing of an earlier run of that process shows. *)
EvidenceInputIsOwn ==
  Whole(evidence) =>
    /\ evidence.size = evidence.sha256
    /\ evidence.archive_view # None => /\ evidence.ref \in Archives
                                       /\ evidence.sha256 # None
    /\ evidence.coverage # None <=> evidence.archive_view # None
    /\ evidence.execution.invocation_started =>
         (evidence.archive_view # None
            <=> evidence.execution.scanner_contract = PackageContract)

(* A report of an earlier run is never booked as this run's output ("A
   previous valid report must never be reused", line 219).  Holds while no
   scanner outlives its producer. *)
RetainedReportIsFresh ==
  pc \in {"map", "verify", "receipt", "finish_receipt"} \/ Settled =>
    evidence.raw_report \in
      {None} \union IF evidence.execution.invocation_started THEN {runs} ELSE {}

(* A run that found its input changed does not leave the complete evidence it
   had already written: complete evidence in a settled directory belongs to a
   decisive receipt, unless the package had nothing to scan. *)
SettledComplete ==
  /\ Settled /\ evidence.execution.completeness_status = "complete"
  /\ evidence.execution.completeness_reason # "no_supported_dependency_targets"
  => /\ pc = "exit0" /\ scans[runs].read = evidence.sha256
     /\ evidence.execution.failed_components = {}

(* What was validated and recorded as complete is never refused by the mapper,
   which judges it a second time: validate_report, make_execution_evidence and
   execution_is_complete agree. *)
MappingNeverRefuses == pc = "map" => MappingError = ""

-----------------------------------------------------------------------------
(***************************************************************************)
(* The promise of EvidencePromise, read off the producer's state.          *)
(***************************************************************************)
Exposure(scan) ==
  IF Conclusive(scan) THEN [content |-> scan.read, answer |-> Verdict(scan.report)]
  ELSE None

PromisedPhase ==
  IF pc \in {"idle", "exit0", "exit1"} THEN "settled"
  ELSE IF pc = "crashed" THEN "cut" ELSE "working"

PromisedExposure == IF runs = 0 THEN None ELSE Exposure(scans[runs])

PromisedClaim ==
  IF Whole(receipt) THEN [content |-> receipt.scanned_artifact_digest,
                          answer |-> receipt.verdict]
  ELSE receipt

Promise == INSTANCE EvidencePromise WITH
  phase <- PromisedPhase, exposed <- PromisedExposure, claim <- PromisedClaim

ASSUME MarksAreNoClaims == None \notin Promise!Claims /\ Torn \notin Promise!Claims

(* The producer keeps the promise: what a run concludes is the answer its own
   scanner gave about the bytes the receipt names. *)
KeepsPromise == Promise!Spec

-----------------------------------------------------------------------------
(* However runs are cut short or fail, a run always ends unless the scanner,
   or its version query, does not: there is no other place to be stuck. *)
OnlyTheScannerBlocks == []<>(pc \in Quiescent \union {"version", "scan"})

(* Once the scanner has exited, the run settles or dies, whatever is in its
   report and whatever has become of its input. *)
ExitLeadsToOutcome ==
  (pc = "scan" /\ ~Running(runs)) ~> (pc \in Quiescent)

-----------------------------------------------------------------------------
(***************************************************************************)
(* What the repository's documents say, and the code does not do.          *)
(***************************************************************************)

(* README.md:144-145: "For all modes, ... evidence_digest binds the retained
   producer evidence manifest."  So it should in any directory a run has
   returned from; CaptureFails replaces the evidence and leaves the receipt. *)
DigestBindsRetainedEvidence ==
  Settled /\ Whole(receipt) => receipt.evidence_digest = Sha256(evidence)

(* docs/design/package-archive-scan-view.md:17-18: "The archive snapshot and
   derived manifest are verified before and after scanning."  A run that ends
   for want of result sections is recorded as complete without either. *)
CompleteIsVerified ==
  Settled /\ evidence.execution.completeness_status = "complete" =>
    scans[runs].read = evidence.sha256
=============================================================================
