---------------------------- MODULE TrivyPairProofs ----------------------------
(***************************************************************************)
(* That evidence and receipt belong together: what a receipt says is what  *)
(* the evidence it binds says, a run that returns leaves such a pair, and  *)
(* the evidence is about that run's input, report and verification.        *)
(***************************************************************************)
EXTENDS TrivyProducerProofs

(* An accepted report maps: its scan is conclusive and its record complete. *)
LEMMA AcceptedMaps ==
  ASSUME TypeOK, Shape, Progress, Prepared
  PROVE  MappingNeverRefuses
<1> SUFFICES ASSUME pc = "map" PROVE MappingError = ""
  BY DEF MappingNeverRefuses
<1>1. /\ raw = runs /\ Conclusive(scans[raw]) /\ version = "pinned"
      /\ ExecutionIsComplete(execution, {0})
  BY DEF Progress, Prepared, Accepted, Launched
<1>2. Bound(raw)
  BY <1>1 DEF Bound, Conclusive
<1>3. ValidateReport(scans[raw].report, Bound(raw), version, 0) = ""
  BY <1>1, <1>2 DEF ValidateReport, Conclusive
<1>4. 0 # None
  BY NoneIsNoValue
<1> QED
  BY <1>1, <1>3, <1>4 DEF MappingError, MapError

(* The record of an accepted report is complete under exit code 0. *)
LEMMA CompleteExecutionIsComplete ==
  ASSUME raw # None, OutputUsable
  PROVE  ExecutionIsComplete(CompleteExecution, {0})
<1>1. Present(raw) /\ SizeOf(raw) = 1
  BY DEF OutputUsable, OutputReason, Present, SizeOf
<1>2. 0 # None /\ 1 # None
  BY NoneIsNoValue
<1>3. Positive(SizeOf(raw))
  BY <1>1, <1>2 DEF Positive
<1> DEFINE f == [Observed EXCEPT !.completed_components = RequiredComponents]
<1>4. /\ f.invocation_started = TRUE /\ f.process_completed = TRUE
      /\ f.exit_code = 0 /\ f.exit_state_valid = TRUE /\ f.output_present = TRUE
      /\ f.output_parseable = TRUE /\ f.output_exists = TRUE
      /\ f.output_size = SizeOf(raw)
      /\ f.required_components = RequiredComponents
      /\ f.completed_components = RequiredComponents
      /\ f.failed_components = {} /\ f.result_semantics_consistent = TRUE
      /\ f.fatal_failure = FALSE
  BY DEF Observed
<1> HIDE DEF f
<1>5. OutputExists(f) = TRUE
  BY <1>4 DEF OutputExists
<1>6. WorkDone(f)
  BY <1>3, <1>4, <1>5 DEF WorkDone
<1>7. Status(f) = "complete"
  BY <1>4, <1>6 DEF Status
<1>8. ExecutionIsComplete(MakeExecution(f), {0})
  BY <1>2, <1>3, <1>4, <1>5, <1>7 DEF ExecutionIsComplete, RecordIsComplete, MakeExecution
<1> QED
  BY <1>8 DEF CompleteExecution, f

LEMMA PreparedStep ==
  ASSUME TypeOK, Shape, Progress, Prepared, Next
  PROVE  Prepared'
<1> USE Distinct, MarksAreNoRecords
<1> USE DEF Quiescent, Exposed, Accepted, Launched, disk, inputs, local
<1>1. CASE JudgeReport
  <2>1. raw # None /\ OutputUsable /\ pc' \in {"evidence", "finish"}
    BY <1>1 DEF JudgeReport, Fail, OutputUsable, OutputReason
  <2>2. pc' = "evidence" => execution' = CompleteExecution
    BY <1>1 DEF JudgeReport, Fail
  <2> QED
    BY <2>1, <2>2, CompleteExecutionIsComplete DEF Prepared
<1>2. CASE WriteEvidence \/ FinishEvidence
  BY <1>2 DEF WriteEvidence, FinishEvidence, EvidenceRecord, Prepared
<1>3. CASE MapVerdict
  <2>1. pc = "map" /\ MappingError = ""
    BY <1>3, AcceptedMaps DEF MapVerdict, MappingNeverRefuses
  <2>2. /\ draft' = MapReport(scans[raw].report, ref, captured, version,
                             Sha256(evidence))
        /\ pc' = "verify" /\ UNCHANGED <<evidence, ref, captured, version, execution>>
    BY <1>3, <2>1 DEF MapVerdict
  <2>3. /\ draft'.evidence_digest = Sha256(evidence)
        /\ draft'.scanned_artifact_ref = ref /\ draft'.scanner_version = version
    BY <2>2 DEF MapReport, Receipt
  <2> QED
    BY <2>1, <2>2, <2>3 DEF Prepared, Sha256
<1>4. CASE Verify \/ Environment
  BY <1>4 DEF Verify, Environment, DriftSnapshot, DriftView, ScannerExits, Prepared
<1>5. CASE pc' \notin Accepted \union {"finish_receipt"}
  BY <1>5 DEF Prepared
<1> QED
  BY <1>1, <1>2, <1>3, <1>4, <1>5
     DEF Next, OwnStep, Judge, Begin, Capture, CaptureFails, ArchiveRejected,
         UnpackArchive, TakeManifest, CheckBinary, CheckVersion, Launch,
         LaunchFails, ScanRaises, ScanReturns, JudgeExit, JudgeOutput,
         JudgeUncovered, JudgedBy, VerifyFails, WriteReceipt, FinishReceipt,
         Crash, Fail

LEMMA ReceiptUnchanged ==
  ASSUME Next, ~WriteReceipt, ~FinishReceipt
  PROVE  UNCHANGED receipt \/ receipt' = Torn
<1> USE DEF disk, inputs, local
<1>1. CASE (\E r \in Refs : Begin(r)) \/ Environment \/ Crash
  BY <1>1 DEF Begin, Environment, DriftSnapshot, DriftView, ScannerExits, Crash
<1>2. CASE \/ Capture \/ CaptureFails \/ ArchiveRejected \/ UnpackArchive
           \/ TakeManifest \/ CheckBinary \/ CheckVersion \/ Launch \/ LaunchFails
  BY <1>2 DEF Capture, CaptureFails, ArchiveRejected, UnpackArchive,
       TakeManifest, CheckBinary, CheckVersion, Launch, LaunchFails
<1>3. CASE ScanRaises \/ ScanReturns \/ Judge
  BY <1>3 DEF ScanRaises, ScanReturns, Judge, JudgeExit, JudgeOutput,
       JudgeUncovered, JudgeReport, JudgedBy
<1>4. CASE \/ WriteEvidence \/ MapVerdict \/ Verify \/ VerifyFails \/ FinishEvidence
  BY <1>4 DEF WriteEvidence, MapVerdict, Verify, VerifyFails, FinishEvidence
<1> QED
  BY <1>1, <1>2, <1>3, <1>4 DEF Next, OwnStep

LEMMA BacksStep ==
  ASSUME TypeOK, Shape, Progress, Prepared, EvidenceBacksReceipt, Next
  PROVE  EvidenceBacksReceipt'
<1> USE Distinct, MarksAreNoRecords
<1>1. CASE WriteReceipt
  <2>1. /\ receipt' = draft /\ version = "pinned"
        /\ ExecutionIsComplete(execution, {0})
        /\ draft.evidence_digest = Sha256(evidence)
        /\ draft.scanned_artifact_ref = ref /\ draft.scanner_version = version
        /\ draft.scanned_artifact_digest = captured
        /\ evidence.ref = ref /\ evidence.sha256 = captured
        /\ evidence.scanner_version = version /\ evidence.execution = execution
    BY <1>1 DEF WriteReceipt, Progress, Prepared, Accepted, Launched
  <2> QED
    BY <2>1 DEF EvidenceBacksReceipt, Sha256
<1>2. CASE FinishReceipt
  <2>1. /\ receipt' = InconclusiveReceipt(ref, captured, version, Sha256(evidence))
        /\ evidence.ref = ref /\ evidence.sha256 = captured
        /\ evidence.scanner_version = version
    BY <1>2 DEF FinishReceipt, Prepared
  <2> QED
    BY <2>1 DEF EvidenceBacksReceipt, InconclusiveReceipt, Receipt, Sha256, Decisive
<1>3. CASE UNCHANGED receipt
  BY <1>3 DEF EvidenceBacksReceipt, Whole, Decisive
<1>4. CASE receipt' = Torn
  BY <1>4 DEF EvidenceBacksReceipt, Whole
<1> QED
  BY <1>1, <1>2, <1>3, <1>4, ReceiptUnchanged

LEMMA PairStep ==
  ASSUME TypeOK, Shape, Progress, Prepared, SettledPair, Next
  PROVE  SettledPair'
<1> USE Distinct, MarksAreNoRecords
<1> USE DEF Settled, Exposed, Quiescent, disk, inputs, local
<1>1. CASE WriteReceipt
  <2>1. /\ pc' = "exit0" /\ receipt' = draft
        /\ UNCHANGED <<evidence, ref, captured>>
        /\ draft \in Receipts /\ Whole(evidence)
        /\ draft.evidence_digest = Sha256(evidence)
        /\ draft.scanned_artifact_ref = ref
        /\ draft.scanned_artifact_digest = captured
        /\ draft.verdict \in {"clean", "findings"}
    BY <1>1 DEF WriteReceipt, Progress, Prepared, TypeOK, Shape, Verdict
  <2> QED
    BY <2>1 DEF SettledPair, Whole, Decisive, Sha256
<1>2. CASE FinishReceipt
  <2>1. /\ pc' = "exit1" /\ UNCHANGED <<evidence, ref, captured>>
        /\ receipt' = InconclusiveReceipt(ref, captured, version, Sha256(evidence))
        /\ Whole(evidence)
    BY <1>2 DEF FinishReceipt, Shape
  <2>2. /\ evidence \in EvidenceRecords /\ ref \in Refs
        /\ captured \in Contents /\ version \in Versions
    BY <1>2 DEF FinishReceipt, TypeOK, Shape, Whole
  <2>3. receipt' \in Receipts
    BY <2>1, <2>2 DEF InconclusiveReceipt, Receipt, Receipts, Sha256
  <2> QED
    BY <2>1, <2>3 DEF SettledPair, Whole, InconclusiveReceipt, Receipt, Decisive, Sha256
<1>3. CASE Environment
  BY <1>3 DEF Environment, DriftSnapshot, DriftView, ScannerExits, SettledPair,
       Whole, Decisive
<1>4. CASE FinishEvidence
  BY <1>4 DEF FinishEvidence, SettledPair
<1>5. CASE pc' \notin {"exit0", "exit1"}
  BY <1>5 DEF SettledPair
<1> QED
  BY <1>1, <1>2, <1>3, <1>4, <1>5
     DEF Next, OwnStep, Judge, Begin, Capture, CaptureFails, ArchiveRejected,
         UnpackArchive, TakeManifest, CheckBinary, CheckVersion, Launch,
         LaunchFails, ScanRaises, ScanReturns, JudgeExit, JudgeOutput,
         JudgeUncovered, JudgeReport, JudgedBy, WriteEvidence, MapVerdict,
         Verify, VerifyFails, Crash, Fail

-----------------------------------------------------------------------------
(***************************************************************************)
(* Evidence is about its own run.                                          *)
(***************************************************************************)
(* What _finish_inconclusive is given when no scanner was started. *)
LEMMA PreflightHandsOver ==
  \A reason, component :
    /\ PreflightExecution(reason).invocation_started = FALSE
    /\ ArchiveFailure(reason, component).invocation_started = FALSE
    /\ Unverdicted(PreflightExecution(reason))
    /\ Unverdicted(ArchiveFailure(reason, component))
<1> TAKE reason, component
<1>1. ASSUME NEW failed, NEW required, NEW contract
      PROVE  LET x == MakeExecution(Unstarted(reason, failed, required, contract)) IN
             x.invocation_started = FALSE /\ x.completeness_status = "failed"
  BY DEF Unstarted, MakeExecution, Status
<1> QED
  BY <1>1 DEF PreflightExecution, ArchiveFailure, Unverdicted

(* And when one was: the record names the contract of the run. *)
LEMMA FailureHandsOver ==
  /\ \A x \in {ProcessFailure, ExitFailure, OutputFailure, UncoveredExecution,
               DriftExecution} :
       /\ x.invocation_started = TRUE /\ x.scanner_contract = ScannerContract
       /\ Unverdicted(x)
  /\ \A error :
       /\ RejectedExecution(error).invocation_started = TRUE
       /\ RejectedExecution(error).scanner_contract = ScannerContract
       /\ Unverdicted(RejectedExecution(error))
<1> DEFINE P(x) == /\ x.invocation_started = TRUE
                   /\ x.scanner_contract = ScannerContract /\ Unverdicted(x)
<1> USE DEF Observed, MakeExecution, Status, WorkDone, Unverdicted
<1>1. P(ProcessFailure)
  BY DEF ProcessFailure
<1>2. P(ExitFailure)
  BY DEF ExitFailure
<1>3. P(OutputFailure)
  BY DEF OutputFailure
<1>4. P(UncoveredExecution)
  <2>1. "no_supported_dependency_targets" # None
    BY MarksAreNoRecords DEF Words
  <2>2. CASE NothingToCover
    BY <2>1, <2>2 DEF UncoveredExecution, Reason
  <2>3. CASE ~NothingToCover
    BY <2>3 DEF UncoveredExecution
  <2> QED
    BY <2>2, <2>3
<1>5. P(DriftExecution)
  BY DEF DriftExecution
<1>6. ASSUME NEW error
      PROVE  P(RejectedExecution(error))
  BY DEF RejectedExecution
<1> QED
  BY <1>1, <1>2, <1>3, <1>4, <1>5, <1>6, Zenon

LEMMA CompleteIsUnderContract == CompleteExecution.scanner_contract = ScannerContract
BY DEF CompleteExecution, Observed, MakeExecution

LEMMA OwnRecordStep ==
  ASSUME TypeOK, Shape, Prepared, RecordIsOwn, Next
  PROVE  RecordIsOwn'
<1> USE Distinct, MarksAreNoRecords
<1> USE DEF Quiescent, Exposed, Accepted, disk, inputs, local
<1>1. CASE (\E r \in Refs : Begin(r)) \/ Capture \/ CaptureFails
  BY <1>1, PreflightHandsOver DEF Begin, Capture, CaptureFails, Fail, NoMeta, RecordIsOwn
<1>2. CASE ArchiveRejected \/ UnpackArchive
  BY <1>2, PreflightHandsOver DEF ArchiveRejected, UnpackArchive, Fail, RecordIsOwn
<1>3. CASE TakeManifest
  <2>1. view # None /\ manifest' = view /\ ref \in Archives
    BY <1>3 DEF TakeManifest, Shape, RecordIsOwn
  <2>2. PICK coverage \in Coverages :
          /\ meta' = [meta EXCEPT !.coverage = coverage, !.archive_view = view]
          /\ \/ pc' = "binary"
             \/ /\ pc' = "finish"
                /\ execution' = ArchiveFailure("coverage_inventory_failed",
                                              "coverage_determination")
    BY <1>3 DEF TakeManifest, Fail
  <2>3. meta'.size = meta.size /\ meta'.coverage # None /\ meta'.archive_view = view
    BY <2>2 DEF TypeOK, Metas
  <2>4. meta.size = captured /\ captured # None /\ UNCHANGED <<ref, captured>>
    BY <1>3 DEF TakeManifest, RecordIsOwn, Shape
  <2> QED
    BY <2>1, <2>2, <2>3, <2>4, PreflightHandsOver DEF RecordIsOwn
<1>4. CASE CheckBinary \/ CheckVersion \/ Launch
  BY <1>4, PreflightHandsOver DEF CheckBinary, CheckVersion, Launch, Fail, RecordIsOwn
<1>5. CASE LaunchFails \/ ScanRaises \/ ScanReturns
  BY <1>5, FailureHandsOver DEF LaunchFails, ScanRaises, ScanReturns, Fail,
     RecordIsOwn, ScannerContract
<1>6. CASE JudgeExit \/ JudgeOutput \/ JudgeUncovered
  BY <1>6, FailureHandsOver DEF JudgeExit, JudgeOutput, JudgeUncovered, JudgedBy,
     Fail, RecordIsOwn, ScannerContract
<1>7. CASE JudgeReport
  BY <1>7, FailureHandsOver, CompleteIsUnderContract DEF JudgeReport, Fail,
     RecordIsOwn, ScannerContract
<1>8. CASE MapVerdict \/ VerifyFails
  BY <1>8, FailureHandsOver DEF MapVerdict, VerifyFails, Fail, RecordIsOwn,
     ScannerContract
<1>9. CASE WriteEvidence \/ Verify \/ WriteReceipt
  BY <1>9 DEF WriteEvidence, Verify, WriteReceipt, RecordIsOwn, ScannerContract
<1>10. CASE FinishEvidence \/ FinishReceipt \/ Crash
  BY <1>10 DEF FinishEvidence, EvidenceRecord, FinishReceipt, Crash, RecordIsOwn,
     Unverdicted, ScannerContract
<1>11. CASE Environment
  BY <1>11 DEF Environment, DriftSnapshot, DriftView, ScannerExits, RecordIsOwn,
     Unverdicted, ScannerContract
<1> QED
  BY <1>1, <1>2, <1>3, <1>4, <1>5, <1>6, <1>7, <1>8, <1>9, <1>10, <1>11
     DEF Next, OwnStep, Judge

(* Only two steps write evidence; a crash may tear it. *)
LEMMA EvidenceUnchanged ==
  ASSUME Next, ~WriteEvidence, ~FinishEvidence
  PROVE  UNCHANGED evidence \/ (evidence' = Torn /\ pc' = "crashed")
<1> USE DEF disk, inputs, local
<1>1. CASE (\E r \in Refs : Begin(r)) \/ Environment \/ Crash
  BY <1>1 DEF Begin, Environment, DriftSnapshot, DriftView, ScannerExits, Crash
<1>2. CASE \/ Capture \/ CaptureFails \/ ArchiveRejected \/ UnpackArchive
           \/ TakeManifest \/ CheckBinary \/ CheckVersion \/ Launch \/ LaunchFails
  BY <1>2 DEF Capture, CaptureFails, ArchiveRejected, UnpackArchive,
       TakeManifest, CheckBinary, CheckVersion, Launch, LaunchFails
<1>3. CASE ScanRaises \/ ScanReturns \/ Judge
  BY <1>3 DEF ScanRaises, ScanReturns, Judge, JudgeExit, JudgeOutput,
       JudgeUncovered, JudgeReport, JudgedBy
<1>4. CASE MapVerdict \/ Verify \/ VerifyFails \/ WriteReceipt \/ FinishReceipt
  BY <1>4 DEF MapVerdict, Verify, VerifyFails, WriteReceipt, FinishReceipt
<1> QED
  BY <1>1, <1>2, <1>3, <1>4 DEF Next, OwnStep

LEMMA InputOwnStep ==
  ASSUME TypeOK, RecordIsOwn, EvidenceInputIsOwn, Next
  PROVE  EvidenceInputIsOwn'
<1>1. CASE WriteEvidence \/ FinishEvidence
  <2>1. /\ evidence' = EvidenceRecord /\ pc \in {"evidence", "finish"}
    BY <1>1 DEF WriteEvidence, FinishEvidence
  <2>2. /\ evidence'.size = meta.size /\ evidence'.sha256 = captured
        /\ evidence'.archive_view = meta.archive_view /\ evidence'.ref = ref
        /\ evidence'.coverage = meta.coverage /\ evidence'.execution = execution
    BY <2>1 DEF EvidenceRecord
  <2>3. /\ meta.size = captured /\ meta.archive_view = manifest
        /\ meta.coverage # None <=> manifest # None
        /\ manifest # None => captured # None /\ ref \in Archives
        /\ execution.invocation_started =>
             execution.scanner_contract = ScannerContract
    BY <2>1 DEF RecordIsOwn, Exposed, Accepted
  <2>4. ScannerContract = PackageContract <=> manifest # None
    BY DEF ScannerContract, PackageContract, FileContract
  <2> QED
    BY <2>2, <2>3, <2>4 DEF EvidenceInputIsOwn
<1>2. CASE UNCHANGED evidence \/ evidence' = Torn
  BY <1>2 DEF EvidenceInputIsOwn, Whole
<1> QED
  BY <1>1, <1>2, EvidenceUnchanged

-----------------------------------------------------------------------------
(***************************************************************************)
(* Complete evidence in a settled directory is verified evidence.          *)
(***************************************************************************)
LEMMA CompleteStep ==
  ASSUME IInv, PairInv, SettledComplete, Next
  PROVE  SettledComplete'
<1> USE Distinct, MarksAreNoRecords
<1> USE DEF IInv, PairInv, Settled, disk, inputs, local
<1>1. CASE WriteReceipt
  <2>1. /\ UNCHANGED <<evidence, runs, scans>> /\ pc' = "exit0"
        /\ scans[runs].read = captured
    BY <1>1 DEF WriteReceipt, DriftShows
  <2>2. /\ evidence.sha256 = captured /\ evidence.execution = execution
        /\ execution.failed_components = {}
    BY <1>1 DEF WriteReceipt, Prepared, Accepted, ExecutionIsComplete, RecordIsComplete
  <2> QED
    BY <2>1, <2>2 DEF SettledComplete
<1>2. CASE FinishEvidence
  <2>1. evidence'.execution = execution /\ Unverdicted(execution)
    BY <1>2 DEF FinishEvidence, EvidenceRecord, RecordIsOwn
  <2> QED
    BY <2>1 DEF SettledComplete, Unverdicted
<1>3. CASE FinishReceipt
  BY <1>3 DEF FinishReceipt, RecordIsOwn, SettledComplete, Unverdicted
<1>4. CASE DriftSnapshot \/ DriftView
  BY <1>4 DEF DriftSnapshot, DriftView, SettledComplete
<1>5. CASE \E k \in RunIds : ScannerExits(k)
  <2>1. PICK k \in RunIds : ScannerExits(k)
    BY <1>5
  <2>2. Settled => k # runs /\ runs \in RunIds
    BY <2>1 DEF ScannerExits, Exited, Shape
  <2>3. Settled => scans'[runs] = scans[runs]
    BY <2>1, <2>2 DEF ScannerExits, TypeOK
  <2> QED
    BY <2>1, <2>3 DEF ScannerExits, SettledComplete
<1>6. CASE pc' \notin {"exit0", "exit1"}
  BY <1>6 DEF SettledComplete
<1>7. CASE \/ (\E r \in Refs : Begin(r)) \/ Capture \/ CaptureFails
           \/ ArchiveRejected \/ UnpackArchive \/ TakeManifest \/ CheckBinary
           \/ CheckVersion \/ Launch \/ LaunchFails \/ Crash
  BY <1>6, <1>7 DEF Begin, Capture, CaptureFails, ArchiveRejected,
     UnpackArchive, TakeManifest, CheckBinary, CheckVersion, Launch, LaunchFails,
     Crash, Fail
<1>8. CASE \/ ScanRaises \/ ScanReturns \/ Judge \/ WriteEvidence \/ MapVerdict
           \/ Verify \/ VerifyFails
  BY <1>6, <1>8 DEF ScanRaises, ScanReturns, Judge, JudgeExit, JudgeOutput,
     JudgeUncovered, JudgeReport, JudgedBy, WriteEvidence, MapVerdict, Verify,
     VerifyFails, Fail
<1> QED
  BY <1>1, <1>2, <1>3, <1>4, <1>5, <1>7, <1>8 DEF Next, OwnStep, Environment

-----------------------------------------------------------------------------
(***************************************************************************)
(* The raw report is the run's own, while no scanner outlives its producer. *)
(***************************************************************************)
(* Which scanners run after a step. *)
LEMMA RunningStep ==
  ASSUME ~OrphansSurvive, TypeOK, Shape, ScansByRun, Attended, Next,
         NEW k \in RunIds, Running(k)'
  PROVE  k = runs' /\ pc' = "scan"
<1> USE Distinct, MarksAreNoRecords
<1> USE DEF Quiescent, Exposed, disk, inputs, local
<1>1. CASE Launch
  BY <1>1 DEF Launch, Attended, Running, TypeOK, Shape
<1>2. CASE \E j \in RunIds : ScannerExits(j)
  BY <1>2 DEF ScannerExits, Attended, Running, TypeOK
<1>3. CASE ScanRaises
  <2>1. Running(runs) => ~Running(runs)'
    BY <1>3 DEF ScanRaises, Running, TypeOK, Shape
  <2>2. \A j \in RunIds : Running(j)' => Running(j)
    BY <1>3 DEF ScanRaises, Running, TypeOK, Shape
  <2> QED
    BY <1>3, <2>1, <2>2 DEF Attended, ScanRaises
<1>4. CASE Crash
  <2>1. runs \in RunIds
    BY <1>4 DEF Crash, Shape
  <2>2. CASE Running(runs) /\ scans' = [scans EXCEPT ![runs].exit = Killed]
    <3>1. ~Running(runs)' /\ runs' = runs
      BY <1>4, <2>1, <2>2 DEF Crash, Running, TypeOK
    <3>2. \A j \in RunIds : Running(j)' => Running(j)
      BY <2>1, <2>2 DEF Running, TypeOK
    <3> QED
      BY <2>1, <3>1, <3>2 DEF Attended
  <2>3. CASE ~Running(runs) /\ UNCHANGED scans
    BY <1>4, <2>1, <2>3 DEF Crash, Attended, Running
  <2> QED
    BY <1>4, <2>2, <2>3 DEF Crash
<1>5. CASE ScanReturns
  BY <1>5 DEF ScanReturns, Attended, Running
<1>6. ASSUME UNCHANGED scans, pc = "scan" => pc' = "scan" /\ UNCHANGED runs
      PROVE  k = runs' /\ pc' = "scan"
  BY <1>6 DEF Attended, Running
<1>7. CASE \/ (\E r \in Refs : Begin(r)) \/ DriftSnapshot \/ DriftView \/ Capture
           \/ CaptureFails \/ ArchiveRejected \/ UnpackArchive \/ TakeManifest
           \/ CheckBinary \/ CheckVersion \/ LaunchFails
  BY <1>6, <1>7 DEF Begin, DriftSnapshot, DriftView, Capture, CaptureFails,
     ArchiveRejected, UnpackArchive, TakeManifest, CheckBinary, CheckVersion,
     LaunchFails
<1>8. CASE \/ Judge \/ WriteEvidence \/ MapVerdict \/ Verify \/ VerifyFails
           \/ WriteReceipt \/ FinishEvidence \/ FinishReceipt
  BY <1>6, <1>8 DEF Judge, JudgeExit, JudgeOutput, JudgeUncovered, JudgeReport,
     JudgedBy, WriteEvidence, MapVerdict, Verify, VerifyFails, WriteReceipt,
     FinishEvidence, FinishReceipt
<1> QED
  BY <1>1, <1>2, <1>3, <1>4, <1>5, <1>7, <1>8 DEF Next, OwnStep, Environment

LEMMA ReportOwnStep ==
  ASSUME TypeOK, Shape, ScansByRun, Progress, Attended, Next
  PROVE  ReportIsOwn'
<1> USE Distinct, MarksAreNoRecords
<1> USE DEF Quiescent, Exposed, Launched, disk, inputs, local
<1>1. ReportIsOwn
  BY DEF Attended
<1>2. CASE (\E r \in Refs : Begin(r)) \/ Capture \/ UnpackArchive \/ Launch
  BY <1>1, <1>2 DEF Begin, Capture, UnpackArchive, Launch, ReportIsOwn
<1>3. CASE CaptureFails \/ ArchiveRejected \/ CheckBinary \/ CheckVersion
  BY <1>1, <1>3, PreflightHandsOver DEF CaptureFails, ArchiveRejected,
     CheckBinary, CheckVersion, Fail, ReportIsOwn
<1>4. CASE TakeManifest
  BY <1>1, <1>4, PreflightHandsOver DEF TakeManifest, Fail, ReportIsOwn
<1>5. CASE LaunchFails \/ ScanRaises
  BY <1>1, <1>5, FailureHandsOver DEF LaunchFails, ScanRaises, Fail, ReportIsOwn
<1>6. CASE ScanReturns \/ Verify
  BY <1>1, <1>6 DEF ScanReturns, Verify, ReportIsOwn
<1>7. CASE Judge
  BY <1>1, <1>7, FailureHandsOver DEF Judge, JudgeExit, JudgeOutput,
     JudgeUncovered, JudgeReport, JudgedBy, Fail, ReportIsOwn
<1>8. CASE WriteEvidence
  <2>1. raw = runs /\ raw = rawFile
    BY <1>1, <1>8 DEF WriteEvidence, Progress, Accepted, ReportIsOwn
  <2>2. evidence'.raw_report = rawFile /\ UNCHANGED <<runs, rawFile, raw>> /\ pc' = "map"
    BY <1>8 DEF WriteEvidence, EvidenceRecord
  <2> QED
    BY <2>1, <2>2 DEF ReportIsOwn
<1>9. CASE MapVerdict \/ VerifyFails
  BY <1>1, <1>9, FailureHandsOver DEF MapVerdict, VerifyFails, Fail, ReportIsOwn
<1>10. CASE DriftSnapshot \/ DriftView
  BY <1>1, <1>10 DEF DriftSnapshot, DriftView, ReportIsOwn
<1>11. CASE \E k \in RunIds : ScannerExits(k)
  <2>1. PICK k \in RunIds : ScannerExits(k)
    BY <1>11
  <2>2. k = runs /\ pc = "scan"
    BY <2>1 DEF ScannerExits, Attended
  <2>3. rawFile' \in {rawFile, runs} /\ UNCHANGED <<pc, runs>>
    BY <2>1, <2>2 DEF ScannerExits
  <2> QED
    BY <1>1, <2>2, <2>3 DEF ReportIsOwn
<1>12. CASE WriteReceipt \/ FinishEvidence \/ FinishReceipt \/ Crash
  BY <1>12 DEF WriteReceipt, FinishEvidence, FinishReceipt, Crash, ReportIsOwn
<1> QED
  BY <1>2, <1>3, <1>4, <1>5, <1>6, <1>7, <1>8, <1>9, <1>10, <1>11, <1>12
     DEF Next, OwnStep, Environment

LEMMA AttendedStep ==
  ASSUME ~OrphansSurvive, TypeOK, Shape, ScansByRun, Progress, Attended, Next
  PROVE  Attended'
BY RunningStep, ReportOwnStep DEF Attended

(* The stretches in which evidence.json is the run's own. *)
LEMMA EvidenceStands ==
  ASSUME Next, ~WriteEvidence, ~FinishEvidence,
         pc' \in {"map", "verify", "receipt", "finish_receipt"} \/ Settled'
  PROVE  /\ UNCHANGED <<evidence, runs>>
         /\ pc \in {"map", "verify", "receipt", "finish_receipt"} \/ Settled
<1> USE DEF disk, inputs, local, Settled
<1>1. CASE Environment
  BY <1>1 DEF Environment, DriftSnapshot, DriftView, ScannerExits
<1>2. CASE MapVerdict \/ Verify \/ WriteReceipt \/ FinishReceipt
  BY <1>2 DEF MapVerdict, Verify, WriteReceipt, FinishReceipt, Fail
<1>3. CASE \/ (\E r \in Refs : Begin(r)) \/ Capture \/ CaptureFails
           \/ ArchiveRejected \/ UnpackArchive \/ TakeManifest \/ CheckBinary
           \/ CheckVersion \/ Launch \/ LaunchFails \/ Crash
  BY <1>3 DEF Begin, Capture, CaptureFails, ArchiveRejected, UnpackArchive,
     TakeManifest, CheckBinary, CheckVersion, Launch, LaunchFails, Crash, Fail
<1>4. CASE ScanRaises \/ ScanReturns \/ Judge \/ VerifyFails
  BY <1>4 DEF ScanRaises, ScanReturns, Judge, JudgeExit, JudgeOutput,
     JudgeUncovered, JudgeReport, JudgedBy, VerifyFails, Fail
<1> QED
  BY <1>1, <1>2, <1>3, <1>4 DEF Next, OwnStep

LEMMA FreshStep ==
  ASSUME PairInv, Attended, RetainedReportIsFresh, Next
  PROVE  RetainedReportIsFresh'
<1>1. CASE WriteEvidence
  <2>1. /\ evidence'.execution = execution /\ evidence'.raw_report = rawFile
        /\ execution.invocation_started = TRUE /\ runs' = runs
        /\ rawFile \in {None, runs}
    BY <1>1 DEF WriteEvidence, EvidenceRecord, PairInv, Prepared, Accepted,
       ExecutionIsComplete, RecordIsComplete, Attended, ReportIsOwn, Launched
  <2> QED
    BY <2>1 DEF RetainedReportIsFresh
<1>2. CASE FinishEvidence
  <2>1. /\ evidence'.execution = execution /\ evidence'.raw_report = rawFile
        /\ runs' = runs
    BY <1>2 DEF FinishEvidence, EvidenceRecord
  <2> QED
    BY <1>2, <2>1 DEF FinishEvidence, Attended, ReportIsOwn, RetainedReportIsFresh
<1>3. CASE ~WriteEvidence /\ ~FinishEvidence
  BY <1>3, EvidenceStands DEF RetainedReportIsFresh
<1> QED
  BY <1>1, <1>2, <1>3

LEMMA JudgedStep ==
  ASSUME PairInv, Attended, RetainedReportIsJudged, Next
  PROVE  RetainedReportIsJudged'
<1> USE DEF PairInv
<1>1. CASE WriteReceipt
  <2>1. /\ receipt' = draft /\ UNCHANGED <<scans, runs>>
        /\ draft.evidence_digest = Sha256(evidence)
        /\ draft.verdict = Verdict(scans[runs].report)
        /\ Conclusive(scans[runs]) /\ evidence.raw_report = runs
        /\ runs \in RunIds
    BY <1>1 DEF WriteReceipt, Prepared, Progress, Accepted, Attended, ReportIsOwn,
       Shape
  <2>2. receipt'.evidence_digest.sha256 = evidence /\ runs # None
    BY <2>1, Distinct DEF Sha256
  <2> QED
    BY <2>1, <2>2 DEF RetainedReportIsJudged
<1>2. CASE FinishReceipt
  BY <1>2 DEF FinishReceipt, InconclusiveReceipt, Receipt, RetainedReportIsJudged,
     Decisive
<1>3. CASE receipt' = Torn
  BY <1>3 DEF RetainedReportIsJudged, Whole
<1>4. CASE UNCHANGED receipt
  <2> SUFFICES ASSUME Whole(receipt), Decisive(receipt)
               PROVE  LET e == receipt.evidence_digest.sha256 IN
                      /\ e.raw_report # None /\ Conclusive(scans'[e.raw_report])
                      /\ receipt.verdict = Verdict(scans'[e.raw_report].report)
    BY <1>4 DEF RetainedReportIsJudged, Whole, Decisive
  <2> DEFINE k == receipt.evidence_digest.sha256.raw_report
  <2>1. /\ k # None /\ Conclusive(scans[k])
        /\ receipt.verdict = Verdict(scans[k].report)
    BY DEF RetainedReportIsJudged
  <2>2. k \in RunIds
    <3>1. receipt \in Receipts
      BY DEF TypeOK, Whole
    <3>2. receipt.evidence_digest.sha256 \in EvidenceRecords
      BY <3>1 DEF Receipts
    <3> QED
      BY <2>1, <3>2 DEF EvidenceRecords
  <2>3. scans'[k] = scans[k]
    BY <2>1, <2>2, ConclusiveIsFinal
  <2> QED
    BY <2>1, <2>3
<1> QED
  BY <1>1, <1>2, <1>3, <1>4, ReceiptUnchanged

-----------------------------------------------------------------------------
LEMMA PairInit == Init => PairInv
<1> SUFFICES ASSUME Init
             PROVE  PairInv
  OBVIOUS
<1>1. TypeOK /\ Shape /\ ScansByRun /\ Progress
  BY InitInvariant DEF IInv
<1>2. Prepared /\ EvidenceBacksReceipt /\ SettledPair
  BY DEF Init, Prepared, EvidenceBacksReceipt, SettledPair, Accepted, Whole, Settled
<1>3. Exited /\ RecordIsOwn /\ EvidenceInputIsOwn
  BY DEF Init, Exited, RecordIsOwn, EvidenceInputIsOwn, Exposed, Accepted, Whole
<1> QED
  BY <1>1, <1>2, <1>3 DEF PairInv

LEMMA PairInvStep == PairInv /\ [Next]_vars => PairInv'
<1> SUFFICES ASSUME PairInv, [Next]_vars
             PROVE  PairInv'
  OBVIOUS
<1>1. CASE Next
  BY <1>1, ShapeStep, ScansStep, ProgressStep, PreparedStep, BacksStep, PairStep,
     ExitedStep, OwnRecordStep, InputOwnStep DEF PairInv
<1>2. CASE UNCHANGED vars
  <2>1. TypeOK' /\ Shape' /\ ScansByRun' /\ Progress'
    BY <1>2 DEF PairInv, vars, disk, inputs, local, TypeOK, Shape, Reported,
         ScansByRun, Running, Progress, Whole
  <2>2. Prepared' /\ EvidenceBacksReceipt' /\ SettledPair'
    BY <1>2 DEF PairInv, vars, disk, inputs, local, Prepared,
         EvidenceBacksReceipt, SettledPair, Whole, Settled
  <2>3. Exited' /\ RecordIsOwn' /\ EvidenceInputIsOwn'
    BY <1>2 DEF PairInv, Exited, Running, vars, disk, inputs, local, RecordIsOwn, Unverdicted,
         ScannerContract, EvidenceInputIsOwn, Whole
  <2> QED
    BY <2>1, <2>2, <2>3 DEF PairInv
<1> QED
  BY <1>1, <1>2

LEMMA PairInvariance == Spec => []PairInv
BY PairInit, PairInvStep, PTL DEF Spec

(* No receipt, decisive or not, says more than the evidence it binds, for any
   number of runs and whoever alters or kills what. *)
THEOREM EvidenceBacks == Spec => []EvidenceBacksReceipt
<1>1. PairInv => EvidenceBacksReceipt
  BY DEF PairInv
<1> QED
  BY <1>1, PairInvariance, PTL

(* Every run that captured its artifact and returned leaves its own receipt
   beside the evidence that receipt binds. *)
THEOREM SettledPairs == Spec => []SettledPair
<1>1. PairInv => SettledPair
  BY DEF PairInv
<1> QED
  BY <1>1, PairInvariance, PTL

(* map_report never refuses a report that run() has accepted, so the branch
   that would rewrite the evidence after a refusal is never taken. *)
THEOREM MapperAgrees == Spec => []MappingNeverRefuses
<1>1. PairInv => MappingNeverRefuses
  BY AcceptedMaps DEF PairInv
<1> QED
  BY <1>1, PairInvariance, PTL
(* The evidence describes its own run's input: nothing of the artifact before,
   in the same process, shows in its size, coverage or archive view. *)
THEOREM EvidenceInputs == Spec => []EvidenceInputIsOwn
<1>1. PairInv => EvidenceInputIsOwn
  BY DEF PairInv
<1> QED
  BY <1>1, PairInvariance, PTL

(* Evidence that says complete, in a directory a run has returned from, is
   that of a decisive run whose scan read the bytes it names, unless the
   package had nothing to scan. *)
THEOREM SettledIsVerified == ASSUME ~UnpackIsShared PROVE Spec => []SettledComplete
<1>1. Init => SettledComplete
  BY DEF Init, SettledComplete, Settled
<1>2. IInv /\ PairInv /\ SettledComplete /\ [Next]_vars => SettledComplete'
  <2>1. SettledComplete /\ UNCHANGED vars => SettledComplete'
    BY DEF SettledComplete, Settled, vars, disk, inputs, local
  <2> QED
    BY <2>1, CompleteStep
<1> QED
  BY <1>1, <1>2, Invariance, PairInvariance, PTL DEF Spec

LEMMA AttendedInvariance == ASSUME ~OrphansSurvive PROVE Spec => []AttendedInv
<1>1. Init => AttendedInv
  <2>1. Init => Attended /\ RetainedReportIsFresh /\ RetainedReportIsJudged
    BY DEF Init, Attended, ReportIsOwn, Running, Exposed, Launched, RetainedReportIsFresh,
       RetainedReportIsJudged, Settled, Whole
  <2> QED
    BY <2>1, PairInit DEF AttendedInv
<1>2. AttendedInv /\ [Next]_vars => AttendedInv'
  <2>1. AttendedInv /\ Next => AttendedInv'
    <3>1. AttendedInv /\ Next => Attended'
      BY AttendedStep DEF AttendedInv, PairInv
    <3> QED
      BY <3>1, PairInvStep, FreshStep, JudgedStep DEF AttendedInv
  <2>2. AttendedInv /\ UNCHANGED vars => AttendedInv'
    <3>1. Attended /\ UNCHANGED vars => Attended'
      BY DEF Attended, ReportIsOwn, Running, vars, disk, inputs, local
    <3>2. RetainedReportIsFresh /\ UNCHANGED vars => RetainedReportIsFresh'
      BY DEF RetainedReportIsFresh, Settled, vars, disk
    <3>3. RetainedReportIsJudged /\ UNCHANGED vars => RetainedReportIsJudged'
      BY DEF RetainedReportIsJudged, Whole, Decisive, vars, disk
    <3> QED
      BY <3>1, <3>2, <3>3, PairInvStep DEF AttendedInv
  <2> QED
    BY <2>1, <2>2
<1> QED
  BY <1>1, <1>2, PTL DEF Spec

(* While no scanner outlives its producer, the report booked as a run's output
   is that run's; without a scanner there is none (line 220). *)
THEOREM RetainedReportsAreFresh ==
  ASSUME ~OrphansSurvive PROVE Spec => []RetainedReportIsFresh
<1>1. AttendedInv => RetainedReportIsFresh
  BY DEF AttendedInv
<1> QED
  BY <1>1, AttendedInvariance, PTL

(* And the raw report a decisive receipt's evidence retains is the one the
   verdict was read from, though parsed and digested at different moments. *)
THEOREM RetainedReportsAreJudged ==
  ASSUME ~OrphansSurvive PROVE Spec => []RetainedReportIsJudged
<1>1. AttendedInv => RetainedReportIsJudged
  BY DEF AttendedInv
<1> QED
  BY <1>1, AttendedInvariance, PTL
=============================================================================
