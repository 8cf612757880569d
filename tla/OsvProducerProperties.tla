-------------------------- MODULE OsvProducerProperties --------------------------
(***************************************************************************)
(* What the OSV producer has to get right, and the inductive invariants    *)
(* behind it.                                                              *)
(***************************************************************************)
EXTENDS OsvProducer

Versions == {"unavailable", "unverified", "other", "pinned"}
PCs == Quiescent \union Exposed \union {"snapshot", "finish", "finish_receipt"}

(* The names an execution record of this producer is made of. *)
Words ==
  OsvComponents \union
  {OsvContract, "artifact_binding", MalformedReport, "artifact_ref_mismatch",
   "unexpected_osv_source_type", "osv_no_packages_in_report",
   "unexpected_osv_exit_code", "osv_exit_verdict_mismatch",
   "artifact_snapshot_failed", "scanner_binary_not_verified",
   "scanner_version_mismatch", "scanner_version_unavailable",
   "scanner_process_failed", "scanner_exit_state_invalid",
   "scanner_output_empty", "scanner_output_unparseable",
   "scanner_result_not_object", "artifact_snapshot_changed",
   "scanner_execution_incomplete"}

RawFiles == RunIds \union {None, EmptyFile}
ScanRecords ==
  [read : Contents, report : Reports \union {None},
   exit : ExitCodes \union {None, Killed}]
EvidenceRecords ==
  [ref : Refs, sha256 : Contents \union {None}, size : Contents \union {None},
   scanner_version : Versions, execution : Executions(Words),
   raw_report : RawFiles]
Receipts ==
  [scanned_artifact_ref : Refs, scanned_artifact_digest : Contents,
   scanner_version : Versions, verdict : {"clean", "findings", "inconclusive"},
   evidence_digest : [sha256 : EvidenceRecords]]

(* The marks of an absent and of a torn file are no records. *)
ASSUME MarksAreNoRecords ==
  /\ None \notin ScanRecords /\ None \notin Executions(Words)
  /\ None \notin EvidenceRecords /\ Torn \notin EvidenceRecords
  /\ None \notin Receipts /\ Torn \notin Receipts

(* The variables hold what the code can put there: both files whole, absent or
   torn, every execution record one make_execution_evidence can return. *)
TypeOK ==
  /\ rawFile \in RawFiles \union {Torn}
  /\ evidence \in EvidenceRecords \union {None, Torn}
  /\ receipt \in Receipts \union {None, Torn}
  /\ draft \in Receipts \union {None}
  /\ snapshot \in Contents \union {None} /\ captured \in Contents \union {None}
  /\ meta \in Contents \union {None}
  /\ scans \in [RunIds -> ScanRecords \union {None}]
  /\ runs \in 0..MaxRuns /\ pc \in PCs /\ ref \in Refs \union {None}
  /\ version \in Versions /\ execution \in Executions(Words) \union {None}

-----------------------------------------------------------------------------
Whole(file) == file \notin {None, Torn}
Decisive(r) == r.verdict \in {"clean", "findings"}
Settled == pc \in {"exit0", "exit1"}

(* A report on which a verdict may rest: every section is about the target and
   well-formed, and a lockfile with packages is among them. *)
Sound(r) ==
  /\ r.form = "object" /\ HasLockfile(r) /\ HasPackages(r)
  /\ \A s \in Sections(r) :
       s.source = "target" /\ s.type \in AllowedSourceTypes /\ ~s.malformed

(* A scan on which a verdict may rest: the scanner printed a sound report, and
   its exit code says what the report says. *)
Conclusive(scan) ==
  /\ scan # None /\ scan.report # None /\ Sound(scan.report)
  /\ scan.exit = IF HasFindings(scan.report) THEN 1 ELSE 0

(* Whatever is altered, killed or left over: the raw report behind a clean or
   findings receipt is the output of a conclusive scan of exactly the bytes the
   receipt names, and the receipt gives its answer.  Not even a scanner that
   outlived its producer can change that (line 315 is the only writer). *)
ReceiptEarned ==
  Whole(receipt) /\ Decisive(receipt) =>
    LET k == receipt.evidence_digest.sha256.raw_report IN
    /\ k \in RunIds /\ Conclusive(scans[k])
    /\ scans[k].read = receipt.scanned_artifact_digest
    /\ receipt.verdict = Verdict(scans[k].report)

(* A receipt never says more than the evidence it binds: same artifact, same
   digest, same scanner, and a decisive one binds an execution recorded as
   complete by the pinned scanner whose exit code is the verdict. *)
EvidenceBacksReceipt ==
  Whole(receipt) =>
    LET e == receipt.evidence_digest.sha256 IN
    /\ e.ref = receipt.scanned_artifact_ref
    /\ e.sha256 = receipt.scanned_artifact_digest
    /\ e.scanner_version = receipt.scanner_version
    /\ Decisive(receipt) =>
         /\ e.scanner_version = "pinned" /\ RecordIsComplete(e.execution)
         /\ e.execution.exit_code = IF receipt.verdict = "findings" THEN 1 ELSE 0

(* A run that returns leaves a pair: the receipt names this run's artifact,
   binds the evidence beside it, and is decisive exactly when the run returns
   0.  Only a run that captured nothing leaves the receipt alone. *)
SettledPair ==
  Settled /\ captured # None =>
    /\ Whole(receipt) /\ Whole(evidence)
    /\ receipt.evidence_digest = Sha256(evidence)
    /\ receipt.scanned_artifact_ref = ref
    /\ receipt.scanned_artifact_digest = captured
    /\ Decisive(receipt) <=> pc = "exit0"

(* The evidence describes its own run's input, although the size reaches it
   through a variable of the process that outlives the run (_SNAPSHOT_META). *)
EvidenceInputIsOwn == Whole(evidence) => evidence.size = evidence.sha256

(* A report of an earlier run is never booked as this run's output: the old
   file is gone before anything can fail (line 202). *)
RetainedReportIsFresh ==
  pc \in {"map", "verify", "receipt", "finish_receipt"} \/ Settled =>
    IF evidence.execution.invocation_started
    THEN evidence.raw_report \in {runs, EmptyFile}
    ELSE evidence.raw_report = None

(* A run that found its input changed does not leave the complete evidence it
   had already written: complete evidence in a settled directory belongs to a
   decisive receipt, and its scan read the bytes it names. *)
SettledComplete ==
  Settled /\ evidence.execution.completeness_status = "complete" =>
    pc = "exit0" /\ scans[runs].read = evidence.sha256

(* What was validated and recorded as complete is never refused by the mapper,
   which is given the artifact and the scan target apart and judges again. *)
MappingNeverRefuses == pc = "map" => MappingError = ""

-----------------------------------------------------------------------------
(***************************************************************************)
(* The promise of EvidencePromise, read off the producer's state.          *)
(***************************************************************************)
Exposure(scan) ==
  IF Conclusive(scan) THEN [content |-> scan.read, answer |-> Verdict(scan.report)]
  ELSE None

PromisedPhase ==
  IF pc \in {"idle", "exit0", "exit1"} THEN "settled"
  ELSE IF pc = "crashed" THEN "cut" ELSE "working"

PromisedExposure == IF runs = 0 THEN None ELSE Exposure(scans[runs])

PromisedClaim ==
  IF Whole(receipt) THEN [content |-> receipt.scanned_artifact_digest,
                          answer |-> receipt.verdict]
  ELSE receipt

Promise == INSTANCE EvidencePromise WITH
  phase <- PromisedPhase, exposed <- PromisedExposure, claim <- PromisedClaim

ASSUME MarksAreNoClaims == None \notin Promise!Claims /\ Torn \notin Promise!Claims

(* The producer keeps the promise: what a run concludes is the answer its own
   scanner gave about the bytes the receipt names. *)
KeepsPromise == Promise!Spec

(* However runs are cut short or fail, a run always ends unless the scanner,
   or its version query, does not. *)
OnlyTheScannerBlocks == []<>(pc \in Quiescent \union {"version", "scan"})

(* Once the scanner has exited, the run settles or dies, whatever was printed
   and whatever has become of the input. *)
ExitLeadsToOutcome ==
  (pc = "scan" /\ ~Running(runs)) ~> (pc \in Quiescent)

-----------------------------------------------------------------------------
(***************************************************************************)
(* The inductive invariants.                                               *)
(***************************************************************************)
Launched == {"scan", "judge", "evidence", "map", "verify", "receipt"}
Accepted == {"evidence", "map", "verify", "receipt"}

(* What is set by the time the run has got to pc. *)
Shape ==
  /\ pc # "idle" => ref \in Refs /\ runs \in RunIds
  /\ pc = "idle" => runs = 0
  /\ pc \in Exposed \union {"finish_receipt"} => captured # None
  /\ pc \in Exposed => snapshot # None
  /\ pc \in Accepted \union {"finish"} => execution # None
  /\ pc \in {"map", "verify", "receipt", "finish_receipt"} => Whole(evidence)
  /\ pc \in {"verify", "receipt"} => draft # None
  /\ pc \in Launched \ {"scan"} => rawFile = runs /\ scans[runs].exit # None
  /\ pc \notin Quiescent => rawFile # Torn

(* A scan is recorded when it is launched, under the number of its run, and
   its report when it exits. *)
ScansByRun ==
  /\ \A k \in RunIds : k > runs => scans[k] = None
  /\ \A k \in RunIds : Running(k) => scans[k].report = None
  /\ \A k \in RunIds :
       scans[k] # None /\ scans[k].report = None => scans[k].exit \in {None, Killed}
  /\ pc \in {"snapshot", "binary", "version", "launch"} => scans[runs] = None
  /\ pc \in Launched => scans[runs] # None
  /\ pc \in Launched => scans[runs].exit # Killed
  /\ pc \in {"finish", "finish_receipt", "exit0", "exit1"} => ~Running(runs)
  /\ rawFile \in RunIds => scans[rawFile] # None /\ scans[rawFile].report # None

(* What the run has concluded by the time it has got to pc. *)
Progress ==
  /\ pc \in {"launch"} \union Launched => version = "pinned"
  /\ pc \in Launched /\ scans[runs].read # captured => snapshot # captured
  /\ pc = "receipt" => scans[runs].read = captured
  /\ pc \in Accepted => /\ Conclusive(scans[runs])
                        /\ RecordIsComplete(execution)
                        /\ execution.exit_code = scans[runs].exit

(* What stands on disk and in the draft agrees with what the run holds. *)
Prepared ==
  /\ pc \in {"map", "verify", "receipt", "finish_receipt"} =>
       /\ evidence.ref = ref /\ evidence.sha256 = captured
       /\ evidence.scanner_version = version
  /\ pc \in {"map", "verify", "receipt"} =>
       evidence.execution = execution /\ evidence.raw_report = runs
  /\ pc \in {"verify", "receipt"} =>
       draft = MapReport(stdout, ref, captured, version, Sha256(evidence))

(* What the evidence is going to be made of is this run's own: the size in the
   process variable, the report on disk, and a record that says complete only
   on the way to a verdict. *)
RecordIsOwn ==
  /\ pc = "snapshot" => captured = None
  /\ pc \in Exposed \union {"finish", "finish_receipt"} => meta = captured
  /\ pc \in {"snapshot", "binary", "version", "launch", "scan"} => rawFile = None
  /\ pc = "finish" =>
       /\ execution.completeness_status # "complete"
       /\ IF execution.invocation_started THEN rawFile \in {runs, EmptyFile}
                                          ELSE rawFile = None
  /\ pc = "finish_receipt" => evidence.execution.completeness_status # "complete"

(* An inductive invariant: it holds initially, every step preserves it, and it
   implies that receipts are earned and backed, that runs leave pairs, and
   that evidence is about its own run. *)
IInv ==
  /\ TypeOK /\ Shape /\ ScansByRun /\ Progress /\ Prepared
  /\ ReceiptEarned /\ EvidenceBacksReceipt /\ SettledPair
  /\ RecordIsOwn
  /\ EvidenceInputIsOwn /\ RetainedReportIsFresh /\ SettledComplete
=============================================================================
