------------------------- MODULE OciProducerProperties -------------------------
(***************************************************************************)
(* What the OCI producer has to get right, and the inductive invariants    *)
(* behind it.                                                              *)
(***************************************************************************)
EXTENDS OciProducer

Resolved == {"identity", "manifest", "index", "check_manifest"}
Launched == {"scan", "judge", "evidence", "map", "receipt"}
PCs == Quiescent \union Resolved \union Launched \union
       {"clean", "reference", "binary", "version", "resolve", "fail", "launch",
        "finish", "finish_receipt"}

Errors ==
  {"oci_reference_invalid", "mutable_oci_reference_rejected",
   "trivy_binary_unavailable", "trivy_binary_digest_mismatch",
   "trivy_version_unavailable", "trivy_version_mismatch",
   "oci_identity_resolution_failed", "oci_manifest_persistence_mismatch"}

(* The names an execution record of this producer is made of. *)
Words ==
  OciComponents \union SectionDefects \union
  {OciContract, "source_binding", "trivy_result_sections_missing",
   "trivy_version_mismatch", "oci_artifact_ref_mismatch",
   "trivy_exit_code_invalid", "scanner_process_failed",
   "scanner_exit_state_invalid", "scanner_output_missing",
   "scanner_output_empty", "scanner_output_unparseable",
   "scanner_result_not_object", "scanner_execution_incomplete"}

ScanRecords ==
  [target : Digests, database : 0..MaxUpdates, report : Reports \union {None},
   exit : ExitCodes \union {None, Killed}]
EvidenceRecords ==
  [requested_ref : References, manifest_digest : Digests,
   manifest_size : {Document[b].size : b \in Bodies},
   identity_sha256 : [sha256 : Identities], root_digest : Digests,
   platform : Platforms, index_sha256 : Digests \union {None},
   scanner_database : 0..MaxUpdates, execution : Executions(Words),
   raw_report : RunIds \union {None}]
Receipts ==
  [scanned_artifact_digest : Digests, scanner_version : {"pinned"},
   verdict : {"clean", "findings", "inconclusive"},
   evidence_digest : [sha256 : EvidenceRecords]]

Holdings(name) ==
  CASE name = "receipt" -> Receipts
    [] name = "evidence" -> EvidenceRecords
    [] name = "error" -> Errors
    [] name = "identity" -> Identities
    [] name \in {"index", "manifest"} -> Bodies
    [] name = "raw" -> RunIds

(* The marks of an absent and of a torn file are no records. *)
ASSUME MarksAreNoRecords ==
  /\ None \notin ScanRecords \union Executions(Words) \union Identities
  /\ None \notin Receipts /\ Torn \notin Receipts \union EvidenceRecords
  /\ Torn \notin Errors \union Identities \union RunIds
  /\ None \notin [by : RunIds, holds : Receipts \union EvidenceRecords
                     \union Errors \union Identities \union Bodies
                     \union RunIds \union {Torn}]

(* Every file is absent, torn or of its kind; no step of this producer writes
   the raw report, so that one is never torn. *)
DirectoryTyped ==
  /\ DOMAIN dir = Files
  /\ \A name \in Files : dir[name] # None =>
       /\ dir[name] = [by |-> dir[name].by, holds |-> dir[name].holds]
       /\ dir[name].by \in RunIds
       /\ dir[name].holds \in Holdings(name) \union {Torn}
  /\ dir["raw"] # None => dir["raw"].holds # Torn

(* The variables hold what the code can put there: every file what was written
   to it, every execution record one make_execution_evidence returns. *)
TypeOK ==
  /\ DirectoryTyped
  /\ database \in 0..MaxUpdates
  /\ scans \in [RunIds -> ScanRecords \union {None}]
  /\ runs \in 0..MaxRuns /\ pc \in PCs /\ cleaned \in 0..Len(StaleNames)
  /\ image \in Requested \union {None} /\ wish \in Wishes \union {None}
  /\ resolved \in Identities \union {None} /\ code \in Errors \union {""}
  /\ judged \in RunIds \union {None}
  /\ execution \in Executions(Words) \union {None}
  /\ draft \in Receipts \union {None}

-----------------------------------------------------------------------------
Whole(name) == dir[name] # None /\ dir[name].holds # Torn
Receipt_ == dir["receipt"].holds
Evidence_ == dir["evidence"].holds
Decisive(r) == r.verdict \in {"clean", "findings"}
Settled == pc \in {"exit0", "exit1"}

(* A report on which a verdict may rest, and a scan that gave one. *)
Sound(r) ==
  /\ r.form = "object" /\ r.results = "sections" /\ r.version = "pinned"
  /\ r.names = "target" /\ r.defect = ""
Conclusive(scan) == scan # None /\ scan.report # None /\ Sound(scan.report)

(* Whatever is left over, killed or alive: a clean or findings receipt gives
   the answer some scanner gave about exactly the manifest the receipt names,
   never about its index or about another image. *)
ReceiptEarned ==
  Whole("receipt") /\ Decisive(Receipt_) =>
    \E k \in RunIds :
      /\ Conclusive(scans[k])
      /\ scans[k].target = Receipt_.scanned_artifact_digest
      /\ Receipt_.verdict = Verdict(scans[k].report)

(* At no moment, not between two removals, not between two writes and not
   after a crash, does the directory show a receipt without the very evidence
   it binds, or evidence without the documents it binds. *)
NothingDangles ==
  /\ Whole("receipt") =>
       Whole("evidence") /\ Receipt_.evidence_digest = Sha256(Evidence_)
  /\ Whole("evidence") =>
       /\ Whole("identity") /\ Evidence_.identity_sha256 = Sha256(dir["identity"].holds)
       /\ Whole("manifest") /\ Evidence_.manifest_digest = Sha256(dir["manifest"].holds)
       /\ Evidence_.index_sha256 # None =>
            Whole("index") /\ Evidence_.index_sha256 = Sha256(dir["index"].holds)

(* oci_producer.py:194: "A reused output directory must never expose artifacts
   from a prior run."  Once a run has cleaned up, whichever of its steps fails
   and however it ends, every file is its own. *)
NothingStale ==
  pc \notin {"idle", "clean"} /\ cleaned = Len(StaleNames) =>
    \A name \in Files : dir[name] # None => dir[name].by = runs

(* A failure before the launch leaves neither a receipt nor evidence beside its
   error, and a run that gives a receipt leaves no error. *)
FailureStandsAlone ==
  Whole("error") => dir["evidence"] = None /\ dir["receipt"] = None

(* A run that returned without an error leaves the chain from the digest it was
   asked for to the digest it reports: identity, manifest and, exactly when the
   root is another document, index, each the bytes the digests name. *)
SettledChain ==
  Settled /\ code = "" =>
    LET identity == dir["identity"].holds IN
    /\ Whole("receipt") /\ (Decisive(Receipt_) <=> pc = "exit0")
    /\ Receipt_.scanned_artifact_digest = identity.manifest_digest
    /\ Chain(identity, image, wish)
    /\ Sha256(dir["manifest"].holds) = identity.manifest_digest
    /\ (dir["index"] = None) <=> (identity.root_digest = identity.manifest_digest)
    /\ dir["index"] # None => Sha256(dir["index"].holds) = image.digest

(* A receipt never says more than the evidence it binds. *)
EvidenceBacksReceipt ==
  Whole("receipt") =>
    LET e == Receipt_.evidence_digest.sha256 IN
    /\ e.manifest_digest = Receipt_.scanned_artifact_digest
    /\ Decisive(Receipt_) =>
         RecordIsComplete(e.execution) /\ e.execution.exit_code = 0

(* oci_producer.py:261: "Never let a previous report satisfy a new scan after a
   crash."  The report a run accepts is what its own scanner wrote. *)
OwnReportSatisfies ==
  pc \in {"evidence", "map", "receipt", "exit0"} => judged = runs

(* What was validated and recorded as complete the mapper does not refuse. *)
MappingNeverRefuses == pc = "map" => MappingError = ""

-----------------------------------------------------------------------------
(***************************************************************************)
(* The promise of EvidencePromise, read off the producer's state.          *)
(***************************************************************************)
Exposure(scan) ==
  IF Conclusive(scan)
  THEN [content |-> scan.target, answer |-> Verdict(scan.report)]
  ELSE None

PromisedPhase ==
  IF pc \in {"idle", "exit0", "exit1"} THEN "settled"
  ELSE IF pc = "crashed" THEN "cut" ELSE "working"

PromisedExposure == IF runs = 0 THEN None ELSE Exposure(scans[runs])

PromisedClaim ==
  IF dir["receipt"] = None THEN None
  ELSE IF Receipt_ = Torn THEN Torn
  ELSE [content |-> Receipt_.scanned_artifact_digest, answer |-> Receipt_.verdict]

Promise == INSTANCE EvidencePromise WITH
  Contents <- Digests, phase <- PromisedPhase, exposed <- PromisedExposure,
  claim <- PromisedClaim

(* The mark of an absent claim is none. *)
ASSUME MarksAreNoClaims == None \notin Promise!Claims

(* The producer keeps the promise every producer makes: what a run concludes is
   the answer its own scanner gave about the manifest the receipt names. *)
KeepsPromise == Promise!Spec

(* However runs are cut short or fail, a run always ends unless the registry,
   the scanner or its version query does not. *)
OnlyOthersBlock == []<>(pc \in Quiescent \union {"version", "resolve", "scan"})

(* Once its image is resolved, a run whose scanner exits settles or dies. *)
ExitLeadsToOutcome ==
  (pc = "scan" /\ ~Running(runs)) ~> (pc \in Quiescent)

-----------------------------------------------------------------------------
(***************************************************************************)
(* The inductive invariants.                                               *)
(***************************************************************************)
Working == PCs \ (Quiescent \union {"clean"})
Stored == {"launch", "finish", "finish_receipt"} \union Launched
Accepted == {"evidence", "map", "receipt"}
Holds(name, x) == dir[name] # None /\ dir[name].holds = x

(* What is set by the time the run has got to pc. *)
Shape ==
  /\ pc = "idle" => runs = 0 /\ \A name \in Files : dir[name] = None
  /\ pc # "idle" => runs \in RunIds /\ image \in Requested /\ wish \in Wishes
  /\ pc = "clean" => cleaned < Len(StaleNames)
  /\ pc \in Working \union {"exit0", "exit1"} => cleaned = Len(StaleNames)
  /\ pc = "fail" => code # ""
  /\ pc \notin {"fail", "exit1", "crashed"} => code = ""
  /\ pc \in {"binary", "version", "resolve"} => image.kind = "digest"
  /\ pc \in Resolved \union Stored =>
       image.kind = "digest" /\ resolved \in Resolutions(image, wish)
  /\ pc \in Accepted => judged # None /\ execution # None
  /\ pc = "finish" => execution # None
  /\ pc = "receipt" => draft # None

(* A scan is recorded when it is launched, under the number of its run, and
   its report when it exits. *)
ScansByRun ==
  /\ \A k \in RunIds : k > runs => scans[k] = None
  /\ \A k \in RunIds : Running(k) => scans[k].report = None
  /\ pc \notin Quiescent \union Stored \/ pc = "launch" => scans[runs] = None
  /\ pc \in Launched => scans[runs] # None
  /\ pc \in (Stored \ {"scan"}) \union {"exit0", "exit1"} => ~Running(runs)
  /\ judged # None => scans[judged] # None /\ scans[judged].report # None
  /\ dir["raw"] # None =>
       LET k == dir["raw"].holds IN
       k = dir["raw"].by /\ scans[k] # None /\ scans[k].report # None

(* What is removed stays away until this run writes it. *)
NotYet ==
  /\ pc = "clean" => \A i \in 1..cleaned : dir[StaleNames[i]] = None
  /\ pc \in Working => dir["error"] = None /\ dir["receipt"] = None
  /\ pc \in Working \ {"map", "receipt", "finish", "finish_receipt"} =>
       dir["evidence"] = None

(* The documents behind the answer are on disk once they have been written. *)
DocumentsStored ==
  /\ pc \in (Resolved \ {"identity"}) \union Stored => Holds("identity", resolved)
  /\ pc \in {"index", "check_manifest"} => Whole("manifest")
  /\ pc \in Stored => Holds("manifest", resolved.manifest_digest.sha256)
  /\ pc \in {"check_manifest"} \union Stored =>
       IF HasIndex THEN Holds("index", resolved.root_digest.sha256)
                   ELSE dir["index"] = None

(* What the run has concluded by the time it has got to pc. *)
Progress ==
  pc \in Accepted =>
    /\ Conclusive(scans[judged])
    /\ scans[judged].target = resolved.manifest_digest
    /\ RecordIsComplete(execution) /\ execution.exit_code = 0

(* What stands on disk and in the draft agrees with what the run holds. *)
Prepared ==
  /\ pc \in {"map", "receipt", "finish_receipt"} =>
       Whole("evidence") /\ Evidence_.manifest_digest = resolved.manifest_digest
  /\ pc \in {"map", "receipt"} => Evidence_.execution = execution
  /\ pc = "receipt" =>
       draft = MapReport(raw, resolved.manifest_digest, "pinned", Sha256(Evidence_))

(* An inductive invariant: it holds initially, every step preserves it, and it
   implies what the directory never shows and what its receipts are worth. *)
IInv ==
  /\ TypeOK /\ Shape /\ ScansByRun /\ NotYet /\ DocumentsStored
  /\ Progress /\ Prepared
  /\ ReceiptEarned /\ EvidenceBacksReceipt
  /\ NothingDangles /\ FailureStandsAlone /\ SettledChain

(* What else holds when no scanner outlives its producer: the only one running
   is that of the current run, which reads no report but its own. *)
NoOrphans ==
  /\ \A k \in RunIds : Running(k) => k = runs /\ pc = "scan"
  /\ judged # None => judged = runs
===============================================================================
