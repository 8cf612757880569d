-------------------------- MODULE TrivyProducerProofs --------------------------
(***************************************************************************)
(* Proofs about the Trivy producer, for any artifacts, contents, reports,  *)
(* exit codes and number of runs: that receipts are earned, and that it    *)
(* implements EvidencePromise.                                             *)
(***************************************************************************)
EXTENDS TrivyProducerInvariant, ScannerExecutionProofs

-----------------------------------------------------------------------------
(***************************************************************************)
(* The execution records of run() are well typed.                          *)
(***************************************************************************)
LEMMA WordsCover ==
  /\ TrivyComponents \subseteq Words /\ ArchiveComponents \subseteq Words
  /\ FileContract \in Words /\ PackageContract \in Words
BY DEF Words

LEMMA SizeType ==
  ASSUME NEW k PROVE SizeOf(k) \in Int \union {None} /\ Present(k) \in BOOLEAN
                     /\ Parseable(k) \in BOOLEAN
BY DEF SizeOf, Present, Parseable

LEMMA ErrorComponent ==
  ASSUME NEW error PROVE {ComponentForError(error, "trivy")} \in SUBSET Words
BY DEF ComponentForError, Words, TrivyComponents, ArchiveComponents

LEMMA ValidateReportType ==
  ASSUME NEW report \in ReportSpace, NEW bound, NEW ver, NEW code
  PROVE  ValidateReport(report, bound, ver, code) \in Words \union {""}
BY DEF ValidateReport, ReportSpace, Words, SectionDefects, MalformedReport

LEMMA UnstartedType ==
  ASSUME NEW reason \in Words, NEW failed \in SUBSET Words,
         NEW required \in SUBSET Words, NEW contract \in Words
  PROVE  MakeExecution(Unstarted(reason, failed, required, contract))
           \in Executions(Words)
<1>1. Unstarted(reason, failed, required, contract) \in Facts(Words)
  BY DEF Unstarted, Facts
<1> QED
  BY <1>1, ExecutionType

LEMMA PreflightType ==
  \A reason \in {"artifact_snapshot_failed", "scanner_binary_not_verified",
                 "scanner_version_mismatch", "scanner_version_unavailable"} :
    PreflightExecution(reason) \in Executions(Words)
<1> SUFFICES ASSUME NEW reason \in
                      {"artifact_snapshot_failed", "scanner_binary_not_verified",
                       "scanner_version_mismatch", "scanner_version_unavailable"}
             PROVE  PreflightExecution(reason) \in Executions(Words)
  OBVIOUS
<1>1. reason \in Words /\ {"scanner_process"} \in SUBSET Words
  BY DEF Words, TrivyComponents
<1> QED
  BY <1>1, WordsCover, UnstartedType DEF PreflightExecution

LEMMA ArchiveFailureType ==
  /\ ArchiveFailure("archive_extraction_failed", "archive_validation")
       \in Executions(Words)
  /\ ArchiveFailure("coverage_inventory_failed", "coverage_determination")
       \in Executions(Words)
<1>1. /\ "archive_extraction_failed" \in Words
      /\ "coverage_inventory_failed" \in Words
      /\ {"archive_validation"} \in SUBSET Words
      /\ {"coverage_determination"} \in SUBSET Words
  BY DEF Words, ArchiveComponents
<1> QED
  BY <1>1, WordsCover, UnstartedType DEF ArchiveFailure

LEMMA Requirements ==
  /\ RequiredComponents \in SUBSET Words /\ ScannerContract \in Words
BY WordsCover DEF RequiredComponents, ScannerContract

LEMMA ObservedType == Observed \in Facts(Words)
BY Requirements, SizeType DEF Observed, Facts

LEMMA ProcessFailureType == ProcessFailure \in Executions(Words)
<1>1. "scanner_process_failed" \in Words /\ {"scanner_process"} \in SUBSET Words
  BY DEF Words, TrivyComponents
<1>2. (rawFile # None) \in BOOLEAN /\ SizeOf(rawFile) \in Int \union {None}
  BY SizeType
<1> QED
  BY <1>1, <1>2, Requirements, ExecutionType DEF ProcessFailure, Observed, Facts

LEMMA ExitFailureType ==
  ASSUME scans[runs].exit \in Int \union {None}
  PROVE  ExitFailure \in Executions(Words)
<1>1. "scanner_exit_state_invalid" \in Words
      /\ {"scanner_process"} \in SUBSET Words
  BY DEF Words, TrivyComponents
<1>2. /\ (raw # None) \in BOOLEAN /\ Present(raw) \in BOOLEAN
      /\ Parseable(raw) \in BOOLEAN /\ SizeOf(raw) \in Int \union {None}
  BY SizeType
<1> QED
  BY <1>1, <1>2, Requirements, ExecutionType DEF ExitFailure, Observed, Facts, Present, Parseable

LEMMA OutputFailureType ==
  OutputReason # "" => OutputFailure \in Executions(Words)
<1> SUFFICES ASSUME OutputReason # ""
             PROVE  OutputFailure \in Executions(Words)
  OBVIOUS
<1>1. OutputReason \in Words
  BY DEF OutputReason, Words
<1>2. /\ (raw # None) \in BOOLEAN /\ Present(raw) \in BOOLEAN
      /\ Parseable(raw) \in BOOLEAN /\ SizeOf(raw) \in Int \union {None}
  BY SizeType
<1>3. ASSUME NEW reason \in Words, NEW failed \in SUBSET Words,
             NEW present \in BOOLEAN, NEW parseable \in BOOLEAN,
             NEW exists \in BOOLEAN
      PROVE  [Observed EXCEPT
                !.output_present = present, !.output_parseable = parseable,
                !.output_exists = exists, !.failed_components = failed,
                !.result_semantics_consistent = None,
                !.completeness_reason = reason] \in Facts(Words)
  BY ObservedType DEF Facts
<1>4. {"result_semantics"} \in SUBSET Words /\ {"scanner_output"} \in SUBSET Words
  BY DEF Words, TrivyComponents
<1> DEFINE component == IF OutputReason = "scanner_result_not_object"
                        THEN {"result_semantics"} ELSE {"scanner_output"}
<1>5. component \in SUBSET Words
  BY <1>4
<1> HIDE DEF component
<1>6. [Observed EXCEPT
         !.output_present = Present(raw), !.output_parseable = Parseable(raw),
         !.output_exists = raw # None, !.failed_components = component,
         !.result_semantics_consistent = None,
         !.completeness_reason = OutputReason] \in Facts(Words)
  BY <1>1, <1>2, <1>3, <1>5
<1> QED
  BY <1>6, ExecutionType DEF OutputFailure, component

LEMMA UncoveredType == UncoveredExecution \in Executions(Words)
<1>1. /\ (IF NothingToCover THEN "no_supported_dependency_targets"
          ELSE "supported_target_result_missing") \in Words
      /\ (IF NothingToCover THEN {} ELSE {"result_semantics"}) \in SUBSET Words
  BY DEF Words, TrivyComponents
<1>2. (IF NothingToCover THEN RequiredComponents ELSE {}) \in SUBSET Words
  BY WordsCover DEF RequiredComponents
<1>3. NothingToCover \in BOOLEAN
  BY DEF NothingToCover
<1> QED
  BY <1>1, <1>2, <1>3, ObservedType, ExecutionType DEF UncoveredExecution, Facts

LEMMA RejectedType ==
  ASSUME NEW error \in Words PROVE RejectedExecution(error) \in Executions(Words)
BY ErrorComponent, ObservedType, ExecutionType DEF RejectedExecution, Facts

LEMMA CompleteType == CompleteExecution \in Executions(Words)
<1>1. RequiredComponents \in SUBSET Words
  BY WordsCover DEF RequiredComponents
<1> QED
  BY <1>1, ObservedType, ExecutionType DEF CompleteExecution, Facts

LEMMA DriftType == DriftExecution \in Executions(Words)
<1>1. /\ {"scanner_process", "scanner_output", "result_sections"} \in SUBSET Words
      /\ {"artifact_binding"} \in SUBSET Words
      /\ "artifact_snapshot_changed" \in Words
  BY DEF Words, TrivyComponents
<1> QED
  BY <1>1, SizeType, ObservedType, ExecutionType DEF DriftExecution, Facts

-----------------------------------------------------------------------------
(***************************************************************************)
(* Every step keeps the variables typed and in shape.                      *)
(***************************************************************************)
LEMMA Distinct ==
  /\ None \notin Refs /\ None \notin Contents /\ None \notin Reports
  /\ None \notin RunIds /\ None # Torn /\ Killed \in Int /\ Killed # 0
  /\ \A e \in ExitCodes : e \in Int /\ e # None
  /\ 0 # None /\ Killed # None /\ RunIds \subseteq Int /\ MaxRuns \in Nat
BY NoneIsNoValue, ProducerConstants DEF RunIds, Killed

LEMMA EvidenceType ==
  ASSUME TypeOK, ref # None, execution # None
  PROVE  EvidenceRecord \in EvidenceRecords
BY DEF TypeOK, EvidenceRecord, EvidenceRecords, Metas

LEMMA ShapeStep ==
  ASSUME TypeOK, Shape, ScansByRun, Next
  PROVE  TypeOK' /\ Shape'
<1> USE Distinct, MarksAreNoRecords
<1> USE DEF Quiescent, Exposed, Launched, Accepted, PCs, disk, inputs, local
<1>1. CASE \E r \in Refs : Begin(r)
  BY <1>1 DEF Begin, TypeOK, Shape, Metas, NoMeta, Versions, RunIds, Whole, Reported
<1>2. CASE Capture
  BY <1>2 DEF Capture, TypeOK, Shape, Metas, NoMeta, Whole, Reported
<1>3. CASE CaptureFails
  BY <1>3, PreflightType
     DEF CaptureFails, Fail, TypeOK, Shape, Metas, NoMeta, Whole, Reported
<1>4. CASE ArchiveRejected
  BY <1>4, ArchiveFailureType DEF ArchiveRejected, Fail, TypeOK, Shape, Whole, Reported
<1>5. CASE UnpackArchive
  BY <1>5 DEF UnpackArchive, TypeOK, Shape, Whole, Reported
<1>6. CASE TakeManifest
  <2> PICK coverage \in Coverages :
        /\ meta' = [meta EXCEPT !.coverage = coverage, !.archive_view = view]
        /\ IF coverage = "indeterminate"
           THEN Fail(ArchiveFailure("coverage_inventory_failed",
                                    "coverage_determination"))
           ELSE pc' = "binary" /\ UNCHANGED execution
    BY <1>6 DEF TakeManifest
  <2>1. view \in Contents /\ meta \in Metas
    BY <1>6 DEF TakeManifest, TypeOK, Shape
  <2>2. meta' \in Metas
    BY <2>1 DEF Metas
  <2> QED
    BY <1>6, <2>1, <2>2, ArchiveFailureType
       DEF TakeManifest, Fail, TypeOK, Shape, Whole, Reported
<1>7. CASE CheckBinary
  BY <1>7, PreflightType
     DEF CheckBinary, Fail, TypeOK, Shape, Versions, Whole, Reported
<1>8. CASE CheckVersion
  BY <1>8, PreflightType
     DEF CheckVersion, Fail, TypeOK, Shape, Versions, Whole, Reported
<1>9. CASE Launch
  BY <1>9 DEF Launch, ScanTarget, TypeOK, Shape, ScansByRun, ScanRecords, Whole, Reported
<1>10. CASE LaunchFails
  BY <1>10, ProcessFailureType DEF LaunchFails, Fail, TypeOK, Shape, Whole, Reported
<1>11. CASE ScanRaises
  BY <1>11, ProcessFailureType
     DEF ScanRaises, Fail, TypeOK, Shape, Running, ScanRecords, Whole, Reported
<1>12. CASE ScanReturns
  BY <1>12 DEF ScanReturns, TypeOK, Shape, Running, Whole, Reported
<1>13. CASE JudgeExit
  BY <1>13, ExitFailureType
     DEF JudgeExit, JudgedBy, Fail, TypeOK, Shape, ScanRecords, Whole, Reported
<1>14. CASE JudgeOutput
  BY <1>14, OutputFailureType
     DEF JudgeOutput, JudgedBy, Fail, TypeOK, Shape, Whole, Reported
<1>15. CASE JudgeUncovered
  BY <1>15, UncoveredType
     DEF JudgeUncovered, JudgedBy, Fail, TypeOK, Shape, Whole, Reported
<1>16. CASE JudgeReport
  <2>1. raw # None /\ scans[raw].report \in ReportSpace
    BY <1>16, ProducerConstants
       DEF JudgeReport, OutputUsable, OutputReason, TypeOK, Shape, ScanRecords, Reported
  <2>2. Validation(0) # "" => RejectedExecution(Validation(0)) \in Executions(Words)
    BY <2>1, ValidateReportType, RejectedType DEF Validation
  <2> QED
    BY <1>16, <2>1, <2>2, CompleteType
       DEF JudgeReport, Fail, TypeOK, Shape, Whole, Reported
<1>17. CASE WriteEvidence
  BY <1>17, EvidenceType DEF WriteEvidence, TypeOK, Shape, Whole, Reported
<1>18. CASE MapVerdict
  <2>1. raw # None /\ scans[raw].report \in ReportSpace
    BY <1>18, ProducerConstants
       DEF MapVerdict, TypeOK, Shape, ScanRecords, Reported
  <2>2. CASE MappingError # ""
    <3>1. MappingError \in Words
      <4>1. "scanner_execution_incomplete" \in Words
        BY DEF Words
      <4> QED
        BY <2>1, <2>2, <4>1, ValidateReportType DEF MappingError, MapError
    <3>2. RejectedExecution(MappingError) \in Executions(Words)
      BY <3>1, RejectedType
    <3> QED
      BY <1>18, <2>2, <3>2 DEF MapVerdict, Fail, TypeOK, Shape, Whole, Reported
  <2>3. CASE MappingError = ""
    <3>1. /\ draft' = MapReport(scans[raw].report, ref, captured, version,
                               Sha256(evidence))
          /\ evidence \in EvidenceRecords /\ ref \in Refs
          /\ captured \in Contents /\ version \in Versions
      BY <1>18, <2>3 DEF MapVerdict, TypeOK, Shape, Whole
    <3>2. draft' \in Receipts
      BY <3>1 DEF MapReport, Receipt, Verdict, Receipts, Sha256
    <3> QED
      BY <1>18, <2>3, <3>2 DEF MapVerdict, TypeOK, Shape, Whole, Reported
  <2> QED
    BY <2>2, <2>3
<1>19. CASE Verify
  BY <1>19 DEF Verify, TypeOK, Shape, Whole, Reported
<1>20. CASE VerifyFails
  BY <1>20, DriftType DEF VerifyFails, Fail, TypeOK, Shape, Whole, Reported
<1>21. CASE WriteReceipt
  BY <1>21 DEF WriteReceipt, TypeOK, Shape, Whole, Reported
<1>22. CASE FinishEvidence
  BY <1>22, EvidenceType DEF FinishEvidence, TypeOK, Shape, Whole, Reported
<1>23. CASE FinishReceipt
  <2>1. /\ evidence \in EvidenceRecords /\ ref \in Refs
        /\ captured \in Contents /\ version \in Versions
    BY <1>23 DEF FinishReceipt, TypeOK, Shape, Whole
  <2>2. receipt' \in Receipts
    BY <1>23, <2>1
       DEF FinishReceipt, InconclusiveReceipt, Receipt, Receipts, Sha256
  <2> QED
    BY <1>23, <2>2 DEF FinishReceipt, TypeOK, Shape, Whole, Reported
<1>24. CASE Crash
  BY <1>24 DEF Crash, TypeOK, Shape, Running, ScanRecords, Whole, Reported
<1>25. CASE DriftSnapshot
  BY <1>25 DEF DriftSnapshot, TypeOK, Shape, Whole, Reported
<1>26. CASE DriftView
  BY <1>26 DEF DriftView, TypeOK, Shape, Whole, Reported
<1>27. CASE \E k \in RunIds : ScannerExits(k)
  BY <1>27 DEF ScannerExits, TypeOK, Shape, Running, ScansByRun, ScanRecords, Whole, Reported
<1> QED
  BY <1>1, <1>2, <1>3, <1>4, <1>5, <1>6, <1>7, <1>8, <1>9, <1>10, <1>11, <1>12,
     <1>13, <1>14, <1>15, <1>16, <1>17, <1>18, <1>19, <1>20, <1>21, <1>22,
     <1>23, <1>24, <1>25, <1>26, <1>27 DEF Next, OwnStep, Judge, Environment

-----------------------------------------------------------------------------
(***************************************************************************)
(* Every step keeps what the scans, the copies and the verdict have to do  *)
(* with each other.                                                        *)
(***************************************************************************)
LEMMA ScansStep ==
  ASSUME TypeOK, Shape, ScansByRun, Next
  PROVE  ScansByRun'
<1> USE Distinct, MarksAreNoRecords
<1> USE DEF Quiescent, Exposed, Launched, disk, inputs, local, ScansByRun
<1>1. CASE \E r \in Refs : Begin(r)
  BY <1>1 DEF Begin, TypeOK, Running, RunIds
<1>2. CASE Launch
  BY <1>2 DEF Launch, TypeOK, Shape, Running, RunIds
<1>3. CASE \E k \in RunIds : ScannerExits(k)
  <2> PICK k \in RunIds, exit \in ExitCodes, report \in Reports \union {None} :
        /\ Running(k) /\ UNCHANGED <<runs, pc>>
        /\ scans' = [scans EXCEPT ![k].report = report, ![k].exit = exit]
    BY <1>3 DEF ScannerExits
  <2>1. scans[k] # None /\ scans[k] \in ScanRecords
    BY DEF Running, TypeOK
  <2>2. scans'[k].exit # None
    BY <2>1 DEF TypeOK, ScanRecords
  <2>3. \A j \in RunIds : j # k => scans'[j] = scans[j]
    BY DEF TypeOK
  <2>4. \A j \in RunIds : Running(j)' => j # k /\ Running(j)
    BY <2>2, <2>3 DEF Running
  <2>5. pc \in {"snapshot"} \union (Exposed \ Launched) =>
          runs \in RunIds /\ runs # k
    BY <2>1 DEF Shape
  <2>6. \A j \in RunIds : Running(j)' => scans'[j].report = None
    BY <2>3, <2>4
  <2> QED
    BY <2>1, <2>3, <2>5, <2>6
<1>4. CASE ScanRaises
  BY <1>4 DEF ScanRaises, Fail, TypeOK, Shape, Running
<1>5. CASE Crash
  <2>1. CASE UNCHANGED scans
    BY <1>5, <2>1 DEF Crash, Running
  <2>2. CASE scans' = [scans EXCEPT ![runs].exit = Killed]
    BY <1>5, <2>2 DEF Crash, TypeOK, Shape, Running
  <2> QED
    BY <1>5, <2>1, <2>2 DEF Crash
<1>6. ASSUME UNCHANGED <<scans, runs>>,
             pc' \in {"snapshot"} \union (Exposed \ Launched)
               => pc \in {"snapshot"} \union (Exposed \ Launched)
      PROVE  ScansByRun'
  BY <1>6 DEF Running
<1>7. CASE DriftSnapshot \/ DriftView
  BY <1>6, <1>7 DEF DriftSnapshot, DriftView
<1>8. CASE \/ Capture \/ CaptureFails \/ ArchiveRejected \/ UnpackArchive
           \/ TakeManifest \/ CheckBinary \/ CheckVersion \/ LaunchFails
  BY <1>6, <1>8 DEF Capture, CaptureFails, ArchiveRejected, UnpackArchive,
       TakeManifest, CheckBinary, CheckVersion, LaunchFails, Fail
<1>9. CASE ScanReturns \/ Judge
  BY <1>6, <1>9 DEF ScanReturns, Judge, JudgeExit, JudgeOutput, JudgeUncovered,
       JudgeReport, JudgedBy, Fail
<1>10. CASE \/ WriteEvidence \/ MapVerdict \/ Verify \/ VerifyFails
            \/ WriteReceipt \/ FinishEvidence \/ FinishReceipt
  BY <1>6, <1>10 DEF WriteEvidence, MapVerdict, Verify, VerifyFails,
       WriteReceipt, FinishEvidence, FinishReceipt, Fail
<1> QED
  BY <1>1, <1>2, <1>3, <1>4, <1>5, <1>7, <1>8, <1>9, <1>10
     DEF Next, OwnStep, Environment

(* A conclusive scan is over: no step alters it. *)
LEMMA ConclusiveIsFinal ==
  ASSUME TypeOK, Shape, ScansByRun, Next, NEW k \in RunIds, Conclusive(scans[k])
  PROVE  scans'[k] = scans[k]
<1> USE Distinct, MarksAreNoRecords
<1>1. scans[k] # None /\ scans[k].exit = 0 /\ ~Running(k)
  BY DEF Conclusive, Running
<1>2. CASE UNCHANGED scans
  BY <1>2
<1>3. CASE Launch
  BY <1>1, <1>3 DEF Launch, ScansByRun, Exposed, Launched, TypeOK
<1>4. CASE ScanRaises
  BY <1>1, <1>4 DEF ScanRaises, TypeOK
<1>5. CASE Crash
  BY <1>1, <1>5 DEF Crash, TypeOK
<1>6. CASE \E j \in RunIds : ScannerExits(j)
  BY <1>1, <1>6 DEF ScannerExits, TypeOK
<1>7. CASE (\E r \in Refs : Begin(r)) \/ DriftSnapshot \/ DriftView
  BY <1>2, <1>7 DEF Begin, DriftSnapshot, DriftView
<1>8. CASE \/ Capture \/ CaptureFails \/ ArchiveRejected \/ UnpackArchive
           \/ TakeManifest \/ CheckBinary \/ CheckVersion \/ LaunchFails
  BY <1>2, <1>8 DEF Capture, CaptureFails, ArchiveRejected, UnpackArchive,
       TakeManifest, CheckBinary, CheckVersion, LaunchFails
<1>9. CASE ScanReturns \/ Judge
  BY <1>2, <1>9 DEF ScanReturns, Judge, JudgeExit, JudgeOutput, JudgeUncovered,
       JudgeReport, JudgedBy
<1>10. CASE \/ WriteEvidence \/ MapVerdict \/ Verify \/ VerifyFails
            \/ WriteReceipt \/ FinishEvidence \/ FinishReceipt
  BY <1>2, <1>10 DEF WriteEvidence, MapVerdict, Verify, VerifyFails,
       WriteReceipt, FinishEvidence, FinishReceipt
<1> QED
  BY <1>3, <1>4, <1>5, <1>6, <1>7, <1>8, <1>9, <1>10
     DEF Next, OwnStep, Environment

(* What the scanner of the current run read does not change either. *)
LEMMA ReadIsFinal ==
  ASSUME TypeOK, Shape, ScansByRun, Next, pc \in Launched, pc' \in Launched
  PROVE  runs' = runs /\ scans'[runs] # None /\ scans'[runs].read = scans[runs].read
<1> USE Distinct, MarksAreNoRecords
<1> USE DEF Quiescent, Launched, disk, inputs, local
<1>1. runs \in RunIds /\ scans[runs] \in ScanRecords
  BY DEF Shape, TypeOK
<1>2. CASE \E k \in RunIds : ScannerExits(k)
  BY <1>1, <1>2 DEF ScannerExits, TypeOK, Running, ScanRecords
<1>3. CASE DriftSnapshot \/ DriftView
  BY <1>1, <1>3 DEF DriftSnapshot, DriftView
<1>4. CASE ScanReturns \/ JudgeReport \/ WriteEvidence \/ MapVerdict \/ Verify
  BY <1>1, <1>4 DEF ScanReturns, JudgeReport, WriteEvidence, MapVerdict, Verify, Fail
<1>5. CASE \/ (\E r \in Refs : Begin(r)) \/ Capture \/ CaptureFails \/ ArchiveRejected
           \/ UnpackArchive \/ TakeManifest \/ CheckBinary \/ CheckVersion
           \/ Launch \/ LaunchFails
  BY <1>5 DEF Begin, Capture, CaptureFails, ArchiveRejected, UnpackArchive,
       TakeManifest, CheckBinary, CheckVersion, Launch, LaunchFails
<1>6. CASE \/ ScanRaises \/ JudgeExit \/ JudgeOutput \/ JudgeUncovered
           \/ VerifyFails \/ WriteReceipt \/ FinishEvidence \/ FinishReceipt \/ Crash
  BY <1>6 DEF ScanRaises, JudgeExit, JudgeOutput, JudgeUncovered, JudgedBy, Fail,
       VerifyFails, WriteReceipt, FinishEvidence, FinishReceipt, Crash
<1> QED
  BY <1>2, <1>3, <1>4, <1>5, <1>6 DEF Next, OwnStep, Judge, Environment

LEMMA DriftStep ==
  ASSUME ~UnpackIsShared, TypeOK, Shape, ScansByRun, DriftShows, Next
  PROVE  DriftShows'
<1> USE Distinct, MarksAreNoRecords
<1> USE DEF Quiescent, Exposed, Launched, disk, inputs, local
<1>1. CASE (\E r \in Refs : Begin(r)) \/ Capture
  BY <1>1 DEF Begin, Capture, DriftShows, Shape
<1>2. CASE UnpackArchive \/ TakeManifest
  BY <1>2 DEF UnpackArchive, TakeManifest, DriftShows, Shape, Fail
<1>3. CASE Launch
  <2>1. scans'[runs].read = ScanTarget
    BY <1>3 DEF Launch, TypeOK, Shape
  <2>2. ScanTarget # captured => ~InputUnchanged
    BY <1>3 DEF Launch, DriftShows, ScanTarget, InputUnchanged, ViewUnchanged,
                SnapshotUnchanged
  <2> QED
    BY <1>3, <2>1, <2>2
       DEF Launch, DriftShows, InputUnchanged, ViewUnchanged, SnapshotUnchanged
<1>4. CASE DriftSnapshot \/ DriftView
  BY <1>4 DEF DriftSnapshot, DriftView, DriftShows, InputUnchanged, ViewUnchanged,
              SnapshotUnchanged
<1>5. CASE Verify
  BY <1>5 DEF Verify, DriftShows, InputUnchanged, ViewUnchanged, SnapshotUnchanged
<1>6. CASE \E k \in RunIds : ScannerExits(k)
  <2>1. pc \in Launched => scans'[runs].read = scans[runs].read
    BY <1>6, ReadIsFinal DEF ScannerExits
  <2> QED
    BY <1>6, <2>1 DEF ScannerExits, DriftShows, InputUnchanged, ViewUnchanged,
              SnapshotUnchanged
<1>7. CASE ScanReturns \/ JudgeReport \/ WriteEvidence \/ MapVerdict
  BY <1>7 DEF ScanReturns, JudgeReport, WriteEvidence, MapVerdict, Fail, DriftShows,
       InputUnchanged, ViewUnchanged, SnapshotUnchanged
<1>8. CASE CheckBinary \/ CheckVersion
  BY <1>8 DEF CheckBinary, CheckVersion, Fail, DriftShows
<1>9. CASE pc' \in {"finish", "finish_receipt", "exit0", "exit1", "crashed"}
  BY <1>9 DEF DriftShows
<1> QED
  BY <1>1, <1>2, <1>3, <1>4, <1>5, <1>6, <1>7, <1>8, <1>9
     DEF Next, OwnStep, Judge, Environment, CaptureFails, ArchiveRejected,
         LaunchFails, ScanRaises, JudgeExit, JudgeOutput, JudgeUncovered, JudgedBy,
         VerifyFails, WriteReceipt, FinishEvidence, FinishReceipt, Crash, Fail

(* What passes validation is a conclusive scan by the run that judges it. *)
LEMMA ValidIsConclusive ==
  ASSUME TypeOK, Shape, version = "pinned", scans[runs] # None,
         OutputUsable, Validation(0) = ""
  PROVE  raw = runs /\ Conclusive(scans[runs])
<1>1. raw # None /\ Reported(raw) /\ scans[raw].report \in ReportSpace
  BY ProducerConstants
     DEF OutputUsable, OutputReason, TypeOK, Shape, ScanRecords, Reported
<1> DEFINE report == scans[raw].report
<1>2. /\ Bound(raw) /\ report.form = "object"
      /\ report.results \notin {"not_list", "empty", "not_sections"}
      /\ report.version = "pinned" /\ report.defect = ""
  BY <1>1 DEF Validation, ValidateReport, MalformedReport
<1>3. report.results = "sections"
  BY <1>1, <1>2 DEF ReportSpace
<1> QED
  BY <1>1, <1>2, <1>3
     DEF Bound, Conclusive, Reported, OutputUsable, ExitValid

LEMMA ProgressStep ==
  ASSUME TypeOK, Shape, ScansByRun, Progress, Next
  PROVE  Progress'
<1> USE Distinct, MarksAreNoRecords
<1> USE DEF Quiescent, Exposed, Launched, Accepted, disk, inputs, local
<1>1. CASE JudgeReport
  <2>1. version = "pinned" /\ scans[runs] # None
    BY <1>1 DEF JudgeReport, Progress, Shape
  <2>2. CASE Validation(0) = ""
    BY <1>1, <2>1, <2>2, ValidIsConclusive DEF JudgeReport, Progress
  <2>3. CASE Validation(0) # ""
    BY <1>1, <2>3 DEF JudgeReport, Progress, Fail
  <2> QED
    BY <2>2, <2>3
<1>2. CASE MapVerdict
  <2>1. CASE MappingError = ""
    <3>1. /\ pc = "map" /\ pc' = "verify" /\ UNCHANGED <<version, raw, runs, scans, captured>>
          /\ draft' = MapReport(scans[raw].report, ref, captured, version,
                               Sha256(evidence))
      BY <1>2, <2>1 DEF MapVerdict
    <3>2. /\ draft'.verdict = Verdict(scans[raw].report)
          /\ draft'.scanned_artifact_digest = captured
      BY <3>1 DEF MapReport, Receipt
    <3>3. version = "pinned" /\ raw = runs /\ Conclusive(scans[runs])
      BY <3>1 DEF Progress
    <3>4. version' = "pinned" /\ raw' = runs' /\ Conclusive(scans'[runs'])
      BY <3>1, <3>3
    <3>5. draft'.verdict = Verdict(scans'[runs'].report)
      BY <3>1, <3>2, <3>3
    <3> QED
      BY <3>1, <3>2, <3>4, <3>5 DEF Progress
  <2>2. CASE MappingError # ""
    <3>1. pc' = "finish"
      BY <1>2, <2>2 DEF MapVerdict, Fail
    <3> QED
      BY <3>1 DEF Progress
  <2> QED
    BY <2>1, <2>2
<1>3. CASE \E k \in RunIds : ScannerExits(k)
  <2>1. pc \in Accepted => runs \in RunIds /\ Conclusive(scans[runs])
    BY DEF Progress, Shape
  <2>2. pc \in Accepted => scans'[runs] = scans[runs]
    BY <2>1, ConclusiveIsFinal
  <2> QED
    BY <1>3, <2>2 DEF ScannerExits, Progress
<1>4. CASE DriftSnapshot \/ DriftView
  BY <1>4 DEF DriftSnapshot, DriftView, Progress
<1>5. CASE WriteEvidence \/ Verify
  BY <1>5 DEF WriteEvidence, Verify, Progress
<1>6. CASE CheckVersion \/ Launch \/ ScanReturns
  BY <1>6 DEF CheckVersion, Launch, ScanReturns, Progress, Fail
<1>7. CASE pc' \notin {"launch"} \union Launched
  BY <1>7 DEF Progress
<1> QED
  BY <1>1, <1>2, <1>3, <1>4, <1>5, <1>6, <1>7
     DEF Next, OwnStep, Judge, Environment, Begin, Capture, CaptureFails,
         ArchiveRejected, UnpackArchive, TakeManifest, CheckBinary, LaunchFails,
         ScanRaises, JudgeExit, JudgeOutput, JudgeUncovered, JudgedBy,
         VerifyFails, WriteReceipt, FinishEvidence, FinishReceipt, Crash, Fail

(* A receipt that is earned stays earned, and one that is published is. *)
LEMMA EarnedStep ==
  ASSUME TypeOK, Shape, ScansByRun, DriftShows, Progress, ReceiptEarned, Next
  PROVE  ReceiptEarned'
<1> USE Distinct, MarksAreNoRecords
<1>1. \A k \in RunIds : Conclusive(scans[k]) => scans'[k] = scans[k]
  BY ConclusiveIsFinal
<1>2. CASE UNCHANGED receipt
  BY <1>1, <1>2 DEF ReceiptEarned, Whole, Decisive
<1>3. CASE WriteReceipt
  <2>1. /\ runs \in RunIds /\ Conclusive(scans[runs]) /\ receipt' = draft
        /\ draft.verdict = Verdict(scans[runs].report)
        /\ draft.scanned_artifact_digest = captured
        /\ scans[runs].read = captured
    BY <1>3 DEF WriteReceipt, Progress, DriftShows, Shape, Accepted
  <2>2. scans'[runs] = scans[runs]
    BY <1>1, <2>1
  <2> QED
    BY <2>1, <2>2 DEF ReceiptEarned
<1>4. CASE FinishReceipt
  BY <1>4 DEF FinishReceipt, InconclusiveReceipt, Receipt, ReceiptEarned, Decisive
<1>5. CASE Crash
  <2>1. CASE receipt' = Torn
    BY <2>1 DEF ReceiptEarned, Whole
  <2> QED
    BY <1>2, <1>5, <2>1 DEF Crash
<1>6. CASE (\E r \in Refs : Begin(r)) \/ Environment
  BY <1>2, <1>6 DEF Begin, Environment, DriftSnapshot, DriftView, ScannerExits, disk
<1>7. CASE \/ Capture \/ CaptureFails \/ ArchiveRejected \/ UnpackArchive
           \/ TakeManifest \/ CheckBinary \/ CheckVersion \/ Launch \/ LaunchFails
  BY <1>2, <1>7 DEF Capture, CaptureFails, ArchiveRejected, UnpackArchive,
       TakeManifest, CheckBinary, CheckVersion, Launch, LaunchFails, disk
<1>8. CASE ScanRaises \/ ScanReturns \/ Judge
  BY <1>2, <1>8 DEF ScanRaises, ScanReturns, Judge, JudgeExit, JudgeOutput,
       JudgeUncovered, JudgeReport, JudgedBy, disk
<1>9. CASE \/ WriteEvidence \/ MapVerdict \/ Verify \/ VerifyFails \/ FinishEvidence
  BY <1>2, <1>9 DEF WriteEvidence, MapVerdict, Verify, VerifyFails, FinishEvidence, disk
<1> QED
  BY <1>3, <1>4, <1>5, <1>6, <1>7, <1>8, <1>9 DEF Next, OwnStep

-----------------------------------------------------------------------------
LEMMA InitInvariant == Init => IInv
<1> SUFFICES ASSUME Init
             PROVE  IInv
  OBVIOUS
<1> USE Distinct, MarksAreNoRecords
<1> USE DEF Init, Quiescent, Exposed, Launched, Accepted
<1>1. TypeOK
  BY DEF TypeOK, Metas, NoMeta, PCs, Versions, RunIds
<1>2. Shape
  BY DEF Shape
<1>3. ScansByRun
  BY DEF ScansByRun, Running
<1>4. DriftShows /\ Progress /\ ReceiptEarned
  BY DEF DriftShows, Progress, ReceiptEarned, Whole
<1> QED
  BY <1>1, <1>2, <1>3, <1>4 DEF IInv

LEMMA StutterInvariant == IInv /\ UNCHANGED vars => IInv'
BY DEF IInv, vars, disk, inputs, local, TypeOK, Shape, Reported, ScansByRun, Running,
       DriftShows, InputUnchanged, ViewUnchanged, SnapshotUnchanged, Progress,
       ReceiptEarned, Whole

LEMMA StepInvariant == ~UnpackIsShared /\ IInv /\ [Next]_vars => IInv'
<1> SUFFICES ASSUME ~UnpackIsShared, IInv, [Next]_vars
             PROVE  IInv'
  OBVIOUS
<1>1. CASE Next
  BY <1>1, ShapeStep, ScansStep, DriftStep, ProgressStep, EarnedStep DEF IInv
<1>2. CASE UNCHANGED vars
  BY <1>2, StutterInvariant
<1> QED
  BY <1>1, <1>2

(* The inductive invariant, for any number of runs, contents, reports and exit
   codes, whether or not scanners outlive their producer. *)
THEOREM Invariance == ASSUME ~UnpackIsShared PROVE Spec => []IInv
<1>1. IInv /\ [Next]_vars => IInv'
  BY StepInvariant
<1> QED
  BY <1>1, InitInvariant, PTL DEF Spec

(* Types, whoever interferes with whatever: this part of the invariant does
   not need the unpacking to be private. *)
THEOREM TypeCorrect == Spec => []TypeOK
<1> DEFINE TInv == TypeOK /\ Shape /\ ScansByRun
<1>1. Init => TInv
  BY InitInvariant DEF IInv
<1>2. TInv /\ [Next]_vars => TInv'
  <2>1. TInv /\ Next => TInv'
    BY ShapeStep, ScansStep
  <2>2. TInv /\ UNCHANGED vars => TInv'
    BY DEF vars, disk, inputs, local, TypeOK, Shape, Reported, ScansByRun, Running, Whole
  <2> QED
    BY <2>1, <2>2
<1>3. TInv => TypeOK
  OBVIOUS
<1> QED
  BY <1>1, <1>2, <1>3, PTL DEF Spec

(* No run ever publishes a clean or findings receipt that a conclusive scan of
   exactly the bytes it names did not justify. *)
THEOREM ReceiptsAreEarned == ASSUME ~UnpackIsShared PROVE Spec => []ReceiptEarned
<1>1. IInv => ReceiptEarned
  BY DEF IInv
<1> QED
  BY <1>1, Invariance, PTL

-----------------------------------------------------------------------------
(***************************************************************************)
(* That the producer implements EvidencePromise.                           *)
(***************************************************************************)
(* A step that neither ends a scan of the current run conclusively, nor moves
   the run between working, cut and settled, nor writes the receipt. *)
LEMMA Stutter ==
  ASSUME PromisedPhase' = PromisedPhase, PromisedExposure' = PromisedExposure,
         UNCHANGED receipt
  PROVE  UNCHANGED Promise!vars
<1>1. PromisedClaim' = PromisedClaim
  BY DEF PromisedClaim, Whole
<1> QED
  BY <1>1 DEF Promise!vars

LEMMA InconclusiveIsUnexposed ==
  ASSUME NEW scan, ~Conclusive(scan) PROVE Exposure(scan) = None
BY DEF Exposure

LEMMA ExposureType ==
  ASSUME NEW scan \in ScanRecords \union {None}, Conclusive(scan)
  PROVE  Exposure(scan) \in Promise!Exposures /\ Exposure(scan) # None
<1>1. Exposure(scan) = [content |-> scan.read, answer |-> Verdict(scan.report)]
  BY DEF Exposure
<1>2. scan \in ScanRecords
  BY DEF Conclusive
<1>3. scan.read \in Contents /\ Verdict(scan.report) \in Promise!Answers
  BY <1>2 DEF ScanRecords, Verdict, Promise!Answers
<1>4. Exposure(scan) \in Promise!Exposures
  BY <1>1, <1>3 DEF Promise!Exposures
<1>5. Exposure(scan) \in Promise!Claims
  BY <1>1, <1>3 DEF Promise!Claims
<1> QED
  BY <1>4, <1>5, MarksAreNoClaims

(* An exit is that of one scan, of the current run or an earlier one. *)
LEMMA ExitOfOne ==
  ASSUME TypeOK, ScansByRun, NEW k \in RunIds, ScannerExits(k)
  PROVE  /\ runs \in RunIds /\ runs # 0 /\ runs' = runs /\ pc' = pc
         /\ receipt' = receipt /\ Running(k)
         /\ k # runs => scans'[runs] = scans[runs]
<1>1. Running(k) /\ UNCHANGED <<runs, pc, receipt>>
  BY DEF ScannerExits
<1>2. scans[k] # None
  BY <1>1 DEF Running
<1>3. ~(k > runs)
  BY <1>2 DEF ScansByRun
<1>4. runs \in RunIds /\ runs # 0
  BY <1>3, ProducerConstants DEF TypeOK, RunIds
<1>5. scans \in [RunIds -> ScanRecords \union {None}]
  BY DEF TypeOK
<1>6. PICK report \in Reports \union {None}, exit \in ExitCodes :
        scans' = [scans EXCEPT ![k].report = report, ![k].exit = exit]
  BY DEF ScannerExits
<1>7. k # runs => scans'[runs] = scans[runs]
  BY <1>4, <1>5, <1>6
<1> QED
  BY <1>1, <1>4, <1>7

LEMMA ExitedStep ==
  ASSUME TypeOK, Shape, ScansByRun, Exited, Next
  PROVE  Exited'
<1> DEFINE Over == pc \in {"finish", "finish_receipt", "exit0", "exit1"}
<1> USE Distinct
<1> USE DEF Quiescent, Exposed, Launched, Running, disk, inputs, local, RunIds
<1>1. CASE pc' \notin {"idle", "finish", "finish_receipt", "exit0", "exit1"}
  BY <1>1 DEF Exited
<1>2. CASE \/ CaptureFails \/ ArchiveRejected \/ TakeManifest \/ CheckBinary
           \/ CheckVersion \/ LaunchFails
  BY <1>2 DEF CaptureFails, ArchiveRejected, TakeManifest, CheckBinary,
       CheckVersion, LaunchFails, Fail, ScansByRun, Exited
<1>3. CASE ScanRaises
  BY <1>3 DEF ScanRaises, Fail, TypeOK, Shape, Killed, Exited
<1>4. CASE \/ Judge \/ MapVerdict \/ VerifyFails \/ WriteReceipt
  BY <1>4 DEF Judge, JudgeExit, JudgeOutput, JudgeUncovered, JudgeReport, JudgedBy,
       MapVerdict, VerifyFails, WriteReceipt, Fail, Shape, Exited
<1>5. CASE FinishEvidence \/ FinishReceipt
  BY <1>5 DEF FinishEvidence, FinishReceipt, Exited
<1>6. CASE DriftSnapshot \/ DriftView
  BY <1>6 DEF DriftSnapshot, DriftView, Exited
<1>7. ASSUME NEW k \in RunIds, ScannerExits(k)
      PROVE  Exited'
  <2>1. pc' = pc /\ runs' = runs
    BY <1>7 DEF ScannerExits
  <2>2. Over => k # runs
    BY <1>7 DEF ScannerExits, Exited
  <2>3. Over => scans'[runs] = scans[runs]
    BY <1>7, <2>2, ExitOfOne
  <2> QED
    BY <2>1, <2>3 DEF Exited
<1>8. CASE Environment
  BY <1>6, <1>7, <1>8 DEF Environment
<1> QED
  BY <1>1, <1>2, <1>3, <1>4, <1>5, <1>8
     DEF Next, OwnStep, Begin, Capture, UnpackArchive, Launch, ScanReturns,
         WriteEvidence, Verify, Crash

(* What the current scan exposes changes only when it exits conclusively, or
   with a new run. *)
LEMMA ExposureStays ==
  ASSUME TypeOK, Shape, ScansByRun, Next, runs' = runs,
         runs \in RunIds, Conclusive(scans'[runs]) => Conclusive(scans[runs])
  PROVE  PromisedExposure' = PromisedExposure
<1>1. runs # 0
  BY Distinct DEF RunIds
<1>2. CASE Conclusive(scans[runs])
  BY <1>1, <1>2, ConclusiveIsFinal DEF PromisedExposure
<1>3. CASE ~Conclusive(scans[runs])
  BY <1>1, <1>3, InconclusiveIsUnexposed DEF PromisedExposure
<1> QED
  BY <1>2, <1>3

LEMMA BeginStarts ==
  ASSUME IInv, NEW r \in Refs, Begin(r)
  PROVE  Promise!Start
<1>1. runs' \in RunIds /\ runs' > runs /\ scans' = scans /\ receipt' = receipt
  BY Distinct DEF Begin, IInv, TypeOK, RunIds
<1>2. scans'[runs'] = None
  BY <1>1 DEF IInv, ScansByRun
<1>3. PromisedExposure' = None
  BY <1>1, <1>2 DEF PromisedExposure, Exposure, Conclusive
<1>4. PromisedPhase \in {"settled", "cut"} /\ PromisedPhase' = "working"
  BY DEF Begin, Quiescent, PromisedPhase
<1>5. PromisedClaim' = PromisedClaim
  BY <1>1 DEF PromisedClaim, Whole
<1> QED
  BY <1>3, <1>4, <1>5 DEF Promise!Start

LEMMA ExitExposes ==
  ASSUME IInv, Exited, NEW k \in RunIds, ScannerExits(k)
  PROVE  Promise!Expose \/ UNCHANGED Promise!vars
<1>1. /\ UNCHANGED <<receipt, pc, runs>> /\ Running(k) /\ runs # 0
      /\ k # runs => scans'[runs] = scans[runs]
  BY ExitOfOne DEF IInv
<1>2. PromisedPhase' = PromisedPhase /\ PromisedClaim' = PromisedClaim
  BY <1>1 DEF PromisedPhase, PromisedClaim, Whole
<1>3. CASE k # runs \/ ~Conclusive(scans'[k])
  <2>1. PromisedExposure' = PromisedExposure
    <3>1. CASE k # runs
      BY <1>1, <3>1 DEF PromisedExposure, Exposure, Conclusive
    <3>2. CASE k = runs /\ ~Conclusive(scans'[k])
      <4>1. ~Conclusive(scans[runs]) /\ ~Conclusive(scans'[runs'])
        BY <1>1, <3>2, Distinct DEF Running, Conclusive
      <4> QED
        BY <1>1, <3>2, <4>1 DEF PromisedExposure, Exposure
    <3> QED
      BY <1>3, <3>1, <3>2
  <2> QED
    BY <1>2, <2>1 DEF Promise!vars
<1>4. CASE k = runs /\ Conclusive(scans'[k])
  <2>1. ~Conclusive(scans[k])
    BY <1>1, Distinct DEF Running, Conclusive
  <2>2. PromisedExposure = None
    BY <1>4, <2>1, InconclusiveIsUnexposed DEF PromisedExposure
  <2>3. PromisedExposure' \in Promise!Exposures
    <3>1. scans'[k] \in ScanRecords \union {None}
      BY ShapeStep DEF IInv, TypeOK, Next, Environment
    <3>2. PromisedExposure' = Exposure(scans'[k])
      BY <1>1, <1>4 DEF PromisedExposure
    <3> QED
      BY <1>4, <3>1, <3>2, ExposureType
  <2>4. PromisedPhase \in {"working", "cut"}
    BY <1>1, <1>4 DEF PromisedPhase, Exited
  <2> QED
    BY <1>2, <2>2, <2>3, <2>4 DEF Promise!Expose
<1> QED
  BY <1>3, <1>4

LEMMA ReceiptConcludes ==
  ASSUME IInv, Next, WriteReceipt
  PROVE  Promise!Conclude
<1>1. /\ receipt' = draft /\ draft \in Receipts /\ pc = "receipt" /\ pc' = "exit0"
      /\ UNCHANGED <<scans, runs>> /\ runs \in RunIds /\ Conclusive(scans[runs])
      /\ draft.verdict = Verdict(scans[runs].report)
      /\ draft.scanned_artifact_digest = captured
      /\ scans[runs].read = captured
      /\ scans[runs] \in ScanRecords \union {None}
  BY DEF WriteReceipt, IInv, TypeOK, Shape, Progress, DriftShows, Accepted
<1>2. runs # 0
  BY <1>1 DEF RunIds
<1>3. PromisedExposure = [content |-> draft.scanned_artifact_digest,
                          answer |-> draft.verdict]
  BY <1>1, <1>2 DEF PromisedExposure, Exposure
<1>4. PromisedClaim' = PromisedExposure
  BY <1>1, <1>3, MarksAreNoRecords DEF PromisedClaim, Whole
<1>5. PromisedExposure # None /\ PromisedExposure' = PromisedExposure
  BY <1>1, <1>2, ExposureType DEF PromisedExposure
<1>6. PromisedPhase = "working" /\ PromisedPhase' = "settled"
  BY <1>1 DEF PromisedPhase
<1> QED
  BY <1>4, <1>5, <1>6 DEF Promise!Conclude

LEMMA ReceiptDeclines ==
  ASSUME IInv, Next, FinishReceipt
  PROVE  Promise!Decline
<1>1. /\ receipt' = InconclusiveReceipt(ref, captured, version, Sha256(evidence))
      /\ evidence \in EvidenceRecords /\ ref \in Refs
      /\ captured \in Contents /\ version \in Versions
      /\ pc = "finish_receipt" /\ pc' = "exit1" /\ UNCHANGED <<scans, runs>>
  BY DEF FinishReceipt, IInv, TypeOK, Shape, Whole
<1>2. receipt' \in Receipts
  BY <1>1 DEF InconclusiveReceipt, Receipt, Receipts, Sha256
<1>3. PromisedClaim' = [content |-> captured, answer |-> "inconclusive"]
  BY <1>1, <1>2, MarksAreNoRecords
     DEF PromisedClaim, Whole, InconclusiveReceipt, Receipt
<1>4. PromisedClaim' \in [content : Contents, answer : {"inconclusive"}]
  BY <1>1, <1>3
<1>5. PromisedExposure' = PromisedExposure
  BY <1>1 DEF PromisedExposure
<1>6. PromisedPhase = "working" /\ PromisedPhase' = "settled"
  BY <1>1 DEF PromisedPhase
<1> QED
  BY <1>4, <1>5, <1>6 DEF Promise!Decline

LEMMA EvidenceAloneWithholds ==
  ASSUME FinishEvidence
  PROVE  Promise!Withhold \/ UNCHANGED Promise!vars
<1>1. /\ UNCHANGED <<receipt, scans, runs>> /\ pc = "finish"
      /\ pc' \in {"exit1", "finish_receipt"}
  BY DEF FinishEvidence
<1>2. PromisedClaim' = PromisedClaim /\ PromisedExposure' = PromisedExposure
  BY <1>1 DEF PromisedClaim, PromisedExposure, Whole
<1>3. PromisedPhase = "working" /\ PromisedPhase' \in {"working", "settled"}
  BY <1>1 DEF PromisedPhase
<1> QED
  BY <1>2, <1>3 DEF Promise!Withhold, Promise!vars

LEMMA CrashCuts ==
  ASSUME IInv, Next, Crash
  PROVE  Promise!Cut
<1> USE Distinct, MarksAreNoRecords
<1>1. pc \in PCs /\ pc \notin Quiescent /\ pc' = "crashed" /\ runs' = runs
  BY DEF Crash, IInv, TypeOK
<1>2. runs \in RunIds
  BY <1>1 DEF IInv, Shape, Quiescent
<1>3. PromisedPhase = "working" /\ PromisedPhase' = "cut"
  BY <1>1 DEF PromisedPhase, Quiescent
<1>4. Conclusive(scans'[runs]) => Conclusive(scans[runs])
  <2>1. CASE UNCHANGED scans
    BY <2>1
  <2>2. CASE Running(runs) /\ scans' = [scans EXCEPT ![runs].exit = Killed]
    <3>1. scans[runs] \in ScanRecords
      BY <1>2, <2>2 DEF IInv, TypeOK, Running
    <3>2. scans'[runs] = [scans[runs] EXCEPT !.exit = Killed]
      BY <1>2, <2>2 DEF IInv, TypeOK
    <3>3. scans'[runs].exit = Killed
      BY <3>1, <3>2 DEF ScanRecords
    <3> QED
      BY <3>3 DEF Conclusive, Killed
  <2> QED
    BY <2>1, <2>2 DEF Crash
<1>5. PromisedExposure' = PromisedExposure
  BY <1>1, <1>2, <1>4, ExposureStays DEF IInv
<1>6. receipt' = receipt \/ receipt' = Torn
  BY DEF Crash
<1>7. PromisedClaim' \in {PromisedClaim, Torn}
  BY <1>6 DEF PromisedClaim, Whole
<1> QED
  BY <1>3, <1>5, <1>7 DEF Promise!Cut

(* A step inside a run, of which a reader of the directory sees nothing. *)
LEMMA WorkIsSilent ==
  ASSUME IInv, Next, pc \notin Quiescent, pc' \notin Quiescent, runs' = runs,
         receipt' = receipt,
         Conclusive(scans'[runs]) => Conclusive(scans[runs])
  PROVE  UNCHANGED Promise!vars
<1>1. runs \in RunIds
  BY DEF IInv, Shape, Quiescent
<1>2. PromisedExposure' = PromisedExposure
  BY <1>1, ExposureStays DEF IInv
<1>3. PromisedPhase' = PromisedPhase
  BY DEF PromisedPhase, Quiescent
<1> QED
  BY <1>2, <1>3, Stutter

LEMMA PromiseInit == Init => Promise!Init
BY DEF Init, Promise!Init, PromisedPhase, PromisedExposure, PromisedClaim, Whole

(* A step of the producer is a step of the promise, or none. *)
LEMMA Simulation ==
  ASSUME IInv, Exited, Next
  PROVE  Promise!Next \/ UNCHANGED Promise!vars
<1> USE DEF disk, inputs, local
<1>1. ASSUME NEW r \in Refs, Begin(r)
      PROVE  Promise!Next
  BY <1>1, BeginStarts DEF Promise!Next
<1>2. CASE DriftSnapshot \/ DriftView
  <2>1. UNCHANGED <<receipt, scans, runs, pc>>
    BY <1>2 DEF DriftSnapshot, DriftView
  <2>2. PromisedPhase' = PromisedPhase /\ PromisedExposure' = PromisedExposure
    BY <2>1 DEF PromisedPhase, PromisedExposure
  <2> QED
    BY <2>1, <2>2, Stutter
<1>3. ASSUME NEW k \in RunIds, ScannerExits(k)
      PROVE  Promise!Next \/ UNCHANGED Promise!vars
  BY <1>3, ExitExposes DEF Promise!Next
<1>4. CASE WriteReceipt
  BY <1>4, ReceiptConcludes DEF Promise!Next
<1>5. CASE FinishReceipt
  BY <1>5, ReceiptDeclines DEF Promise!Next
<1>6. CASE FinishEvidence
  BY <1>6, EvidenceAloneWithholds DEF Promise!Next
<1>7. CASE Crash
  BY <1>7, CrashCuts DEF Promise!Next
<1>8. CASE Launch
  <2>1. /\ pc = "launch" /\ pc' = "scan" /\ UNCHANGED <<receipt, runs>>
        /\ runs \in RunIds /\ scans \in [RunIds -> ScanRecords \union {None}]
    BY <1>8 DEF Launch, IInv, TypeOK, Shape
  <2>2. scans'[runs] = [read |-> ScanTarget, report |-> None, exit |-> None]
    BY <1>8, <2>1 DEF Launch
  <2>3. ~Conclusive(scans'[runs])
    BY <2>2 DEF Conclusive
  <2> QED
    BY <2>1, <2>3, WorkIsSilent DEF Quiescent
<1>9. CASE ScanRaises
  <2>1. /\ pc = "scan" /\ pc' = "finish" /\ UNCHANGED <<receipt, runs>>
        /\ runs \in RunIds /\ scans \in [RunIds -> ScanRecords \union {None}]
        /\ scans[runs] \in ScanRecords
    BY <1>9 DEF ScanRaises, Fail, IInv, TypeOK, Shape, Launched
  <2>2. \/ scans' = scans
        \/ scans'[runs] = [scans[runs] EXCEPT !.exit = Killed]
    BY <1>9, <2>1 DEF ScanRaises
  <2>3. \/ scans' = scans
        \/ scans'[runs].exit = Killed
    BY <2>1, <2>2 DEF ScanRecords
  <2>4. Conclusive(scans'[runs]) => Conclusive(scans[runs])
    <3>1. CASE scans' = scans
      BY <3>1 DEF Conclusive
    <3>2. CASE scans'[runs].exit = Killed
      BY <3>2, Distinct DEF Conclusive
    <3> QED
      BY <2>3, <3>1, <3>2
  <2> QED
    BY <2>1, <2>4, WorkIsSilent DEF Quiescent
<1>10. CASE \/ Capture \/ CaptureFails \/ ArchiveRejected \/ UnpackArchive
            \/ TakeManifest \/ CheckBinary \/ CheckVersion \/ LaunchFails
  <2>1. /\ pc \notin Quiescent /\ pc' \notin Quiescent
        /\ UNCHANGED <<receipt, runs, scans>>
    BY <1>10 DEF Capture, CaptureFails, ArchiveRejected, UnpackArchive,
         TakeManifest, CheckBinary, CheckVersion, LaunchFails, Fail, Quiescent
  <2> QED
    BY <2>1, WorkIsSilent
<1>11. CASE \/ ScanReturns \/ Judge \/ WriteEvidence \/ MapVerdict \/ Verify
            \/ VerifyFails
  <2>1. /\ pc \notin Quiescent /\ pc' \notin Quiescent
        /\ UNCHANGED <<receipt, runs, scans>>
    BY <1>11 DEF ScanReturns, Judge, JudgeExit, JudgeOutput, JudgeUncovered,
         JudgeReport, JudgedBy, WriteEvidence, MapVerdict, Verify, VerifyFails,
         Fail, Quiescent
  <2> QED
    BY <2>1, WorkIsSilent
<1> QED
  BY <1>1, <1>2, <1>3, <1>4, <1>5, <1>6, <1>7, <1>8, <1>9, <1>10, <1>11
     DEF Next, OwnStep, Environment

LEMMA StutterPromise == UNCHANGED vars => UNCHANGED Promise!vars
<1> SUFFICES ASSUME UNCHANGED vars
             PROVE  UNCHANGED Promise!vars
  OBVIOUS
<1>1. UNCHANGED <<receipt, scans, runs, pc>>
  BY DEF vars, disk
<1>2. PromisedPhase' = PromisedPhase /\ PromisedExposure' = PromisedExposure
  BY <1>1 DEF PromisedPhase, PromisedExposure
<1> QED
  BY <1>1, <1>2, Stutter

LEMMA ExitedInvariance == ASSUME ~UnpackIsShared PROVE Spec => []Exited
<1>1. Init => Exited
  BY DEF Init, Exited
<1>2. IInv /\ Exited /\ [Next]_vars => Exited'
  <2>1. IInv /\ Exited /\ Next => Exited'
    BY ExitedStep DEF IInv
  <2>2. Exited /\ UNCHANGED vars => Exited'
    BY DEF vars, Exited, Running
  <2> QED
    BY <2>1, <2>2
<1> QED
  BY <1>1, <1>2, Invariance, PTL DEF Spec

(* The producer keeps the promise of EvidencePromise when nobody alters the
   package while it is being unpacked: every run, whatever its scanner, its
   files or the copies do, concludes with the answer its own scanner gave
   about the bytes it names, declines, withholds, or is cut short. *)
THEOREM ImplementsPromise == ASSUME ~UnpackIsShared PROVE Spec => KeepsPromise
<1>1. IInv /\ Exited /\ [Next]_vars => [Promise!Next]_(Promise!vars)
  BY Simulation, StutterPromise
<1> QED
  BY <1>1, PromiseInit, Invariance, ExitedInvariance, PTL
     DEF Spec, KeepsPromise, Promise!Spec
=============================================================================
