------------------------ MODULE TrivyProducerInvariant ------------------------
(***************************************************************************)
(* The inductive invariants behind the producer's safety properties.       *)
(***************************************************************************)
EXTENDS TrivyProducerProperties

Launched == {"scan", "judge", "evidence", "map", "verify", "receipt"}
Accepted == {"evidence", "map", "verify", "receipt"}

(* The scan whose report file is k did write one. *)
Reported(k) == scans[k] # None /\ scans[k].report # None

(* What is set by the time the run has got to pc. *)
Shape ==
  /\ pc # "idle" => ref \in Refs /\ runs \in RunIds
  /\ pc \in Exposed \union {"finish_receipt"} => captured # None
  /\ pc \in Exposed => snapshot # None
  /\ pc = "manifest" \/ manifest # None => view # None
  /\ pc \in Accepted \union {"finish"} => execution # None
  /\ pc \in {"map", "verify", "receipt", "finish_receipt"} => Whole(evidence)
  /\ pc \in {"verify", "receipt"} => draft # None
  /\ rawFile # None => Reported(rawFile)
  /\ raw # None => Reported(raw)
  /\ pc \in Launched => scans[runs] # None
  /\ pc \in Launched \ {"scan"} => scans[runs].exit # None
  /\ pc \in Accepted => raw # None

(* A scan is recorded when it is launched, under the number of its run, and
   its report when it exits. *)
ScansByRun ==
  /\ \A k \in RunIds : k > runs => scans[k] = None
  /\ \A k \in RunIds : Running(k) => scans[k].report = None
  /\ pc \in {"snapshot"} \union (Exposed \ Launched) => scans[runs] = None

(* Copies drift one way: as long as a run can still look, it can see that what
   was unpacked or scanned is not what was captured. *)
DriftShows ==
  /\ pc \in {"snapshot", "archive", "manifest"} => manifest = None
  /\ pc = "manifest" /\ view # captured => snapshot # captured
  /\ pc \in Exposed /\ manifest # None /\ manifest # captured
       => snapshot # captured
  /\ pc \in Launched /\ scans[runs].read # captured => ~InputUnchanged
  /\ pc = "receipt" => scans[runs].read = captured

(* What the run has concluded by the time it has got to pc. *)
Progress ==
  /\ pc \in {"launch"} \union Launched => version = "pinned"
  /\ pc \in Accepted => raw = runs /\ Conclusive(scans[runs])
  /\ pc \in {"verify", "receipt"} =>
       /\ draft.verdict = Verdict(scans[runs].report)
       /\ draft.scanned_artifact_digest = captured

(* An inductive invariant of every run whose unpacking nobody interferes with:
   it holds initially, every step preserves it, and it implies that a decisive
   receipt rests on a conclusive scan of the bytes it names. *)
IInv ==
  /\ TypeOK /\ Shape /\ ScansByRun /\ DriftShows /\ Progress
  /\ ReceiptEarned

(* What stands on disk and in the draft agrees with what the run holds. *)
Prepared ==
  /\ pc \in Accepted => ExecutionIsComplete(execution, {0})
  /\ pc \in {"map", "verify", "receipt", "finish_receipt"} =>
       /\ evidence.ref = ref /\ evidence.sha256 = captured
       /\ evidence.scanner_version = version
  /\ pc \in {"map", "verify", "receipt"} => evidence.execution = execution
  /\ pc \in {"verify", "receipt"} =>
       /\ draft.evidence_digest = Sha256(evidence)
       /\ draft.scanned_artifact_ref = ref /\ draft.scanner_version = version

(* A run that is past its scan has no scanner running any more, so a scan
   that still comes to an end belongs to a run at work or cut short. *)
Exited ==
  /\ pc = "idle" => runs = 0
  /\ pc \in {"finish", "finish_receipt", "exit0", "exit1"} => ~Running(runs)

(* A record without a verdict says complete only of a package in which there
   was nothing to scan. *)
Unverdicted(x) ==
  x.completeness_status = "complete" =>
    x.completeness_reason = "no_supported_dependency_targets"

(* What the evidence is going to be made of is this run's own: the process
   variable holds what this run captured and unpacked, and the record names
   the contract this run is under. *)
RecordIsOwn ==
  /\ pc = "snapshot" => captured = None
  /\ pc \in {"snapshot", "archive", "manifest"} => manifest = None
  /\ pc \in {"archive", "manifest"} \/ manifest # None => ref \in Archives
  /\ pc \in Exposed \union {"finish"} =>
       /\ meta.size = captured /\ meta.archive_view = manifest
       /\ meta.coverage # None <=> manifest # None
       /\ manifest # None => captured # None
  /\ pc \in Accepted \union {"finish"} /\ execution.invocation_started =>
       execution.scanner_contract = ScannerContract
  /\ pc = "finish" => Unverdicted(execution)
  /\ pc = "finish_receipt" => Unverdicted(evidence.execution)

(* The inductive invariant behind EvidenceBacksReceipt, SettledPair,
   MappingNeverRefuses and EvidenceInputIsOwn.  It needs no assumption about
   the copies. *)
PairInv ==
  /\ TypeOK /\ Shape /\ ScansByRun /\ Progress
  /\ Prepared /\ EvidenceBacksReceipt /\ SettledPair
  /\ Exited /\ RecordIsOwn /\ EvidenceInputIsOwn

(* The raw report on disk, and in the evidence under way, is this run's. *)
ReportIsOwn ==
  /\ pc \in {"snapshot"} \union (Exposed \ Launched) => rawFile = None
  /\ pc \in Launched => rawFile \in {None, runs}
  /\ pc \in Launched \ {"scan"} => raw = rawFile
  /\ pc = "finish" =>
       rawFile \in {None} \union IF execution.invocation_started THEN {runs} ELSE {}
  /\ pc \in {"map", "verify", "receipt"} => evidence.raw_report = runs

(* While no scanner outlives its producer, the only one that can be running is
   that of the current run, so nobody else writes trivy.raw.json. *)
Attended ==
  (\A k \in RunIds : Running(k) => k = runs /\ pc = "scan") /\ ReportIsOwn

(* The inductive invariant behind RetainedReportIsFresh and
   RetainedReportIsJudged. *)
AttendedInv ==
  /\ PairInv /\ Attended
  /\ RetainedReportIsFresh /\ RetainedReportIsJudged
=============================================================================
