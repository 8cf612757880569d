--------------------------- MODULE OsvProducerProofs ---------------------------
(***************************************************************************)
(* Proofs about the OSV producer, for any artifacts, contents, reports,    *)
(* exit codes and number of runs: what it leaves on disk, and that it      *)
(* implements EvidencePromise.                                             *)
(***************************************************************************)
EXTENDS OsvProducerProperties, ScannerExecutionProofs, WellFoundedInduction

-----------------------------------------------------------------------------
(***************************************************************************)
(* The execution records of run() are well typed.                          *)
(***************************************************************************)
LEMMA Distinct ==
  /\ None \notin Refs /\ None \notin Contents /\ None \notin Reports
  /\ None \notin RunIds /\ None # Torn /\ Torn \notin RunIds
  /\ Killed \in Int /\ Killed \notin {0, 1} /\ Killed # None
  /\ \A e \in ExitCodes : e \in Int /\ e # None /\ e # Killed
  /\ 0 # None /\ 1 # None /\ EmptyFile = 0 /\ 0 \notin RunIds
  /\ EmptyFile # None /\ EmptyFile # Torn
  /\ RunIds \subseteq Int /\ MaxRuns \in Nat
BY NoneIsNoValue, ProducerConstants DEF RunIds, Killed, EmptyFile

LEMMA WordsCover ==
  /\ OsvComponents \in SUBSET Words /\ OsvContract \in Words
  /\ {"scanner_process"} \in SUBSET Words /\ {"scanner_output"} \in SUBSET Words
  /\ {"result_sections"} \in SUBSET Words /\ {"artifact_binding"} \in SUBSET Words
BY DEF Words, OsvComponents

LEMMA SizeType == ASSUME NEW k PROVE SizeOf(k) \in Int \union {None}
BY Distinct DEF SizeOf

LEMMA ErrorComponent ==
  ASSUME NEW error PROVE {ComponentForError(error, "osv")} \in SUBSET Words
BY DEF ComponentForError, Words, OsvComponents

(* The section that faults the report is the first of them. *)
LEMMA FirstIsFaulty ==
  ASSUME NEW report \in ReportSpace, Faulty(report) # {}
  PROVE  FirstFaulty(report) \in Faulty(report)
<1>1. Faulty(report) \subseteq Nat
  <2>1. report.results \in Seq(SectionSpace)
    BY DEF ReportSpace
  <2>2. DOMAIN report.results = 1..Len(report.results) /\ Len(report.results) \in Nat
    BY <2>1
  <2>3. Faulty(report) \subseteq DOMAIN report.results
    BY DEF Faulty
  <2>4. 1..Len(report.results) \subseteq Nat
    BY <2>2
  <2> QED
    BY <2>2, <2>3, <2>4
<1>2. PICK i \in Faulty(report) :
        \A j \in Faulty(report) : ~(<<j, i>> \in OpToRel(<, Nat))
  BY <1>1, WFMin, NatLessThanWellFounded
<1>3. ASSUME NEW j \in Faulty(report)
      PROVE  i <= j
  <2>1. i \in Nat /\ j \in Nat
    BY <1>1
  <2>2. ~(j < i)
    BY <1>2, <2>1, Zenon DEF OpToRel
  <2> QED
    BY <2>1, <2>2
<1> QED
  BY <1>3 DEF FirstFaulty

LEMMA ValidateReportType ==
  ASSUME NEW report \in ReportSpace, NEW code
  PROVE  ValidateReport(report, code) \in Words \union {""}
<1>1. ASSUME NEW s PROVE SectionError(s) \in Words \union {""}
  BY DEF SectionError, Words, MalformedReport
<1>2. ExitError(report, code) \in Words \union {""}
  BY DEF ExitError, Words
<1>3. MalformedReport \in Words /\ "osv_no_packages_in_report" \in Words
  BY DEF Words
<1> QED
  BY <1>1, <1>2, <1>3 DEF ValidateReport

LEMMA UnstartedType ==
  ASSUME NEW reason \in Words PROVE Unstarted(reason) \in Facts(Words)
BY WordsCover DEF Unstarted, Facts

LEMMA PreflightType ==
  \A reason \in {"artifact_snapshot_failed", "scanner_binary_not_verified",
                 "scanner_version_mismatch", "scanner_version_unavailable"} :
    PreflightExecution(reason) \in Executions(Words)
<1> SUFFICES ASSUME NEW reason \in
                      {"artifact_snapshot_failed", "scanner_binary_not_verified",
                       "scanner_version_mismatch", "scanner_version_unavailable"}
             PROVE  PreflightExecution(reason) \in Executions(Words)
  OBVIOUS
<1>1. reason \in Words
  BY DEF Words
<1> QED
  BY <1>1, UnstartedType, ExecutionType DEF PreflightExecution

LEMMA ProcessFailureType == ProcessFailure \in Executions(Words)
<1>1. "scanner_process_failed" \in Words
  BY DEF Words
<1>2. ASSUME NEW f \in Facts(Words), NEW started \in BOOLEAN,
             NEW exists \in BOOLEAN \union {None}, NEW size \in Int \union {None}
      PROVE  [f EXCEPT !.invocation_started = started, !.output_exists = exists,
                       !.output_size = size] \in Facts(Words)
  BY DEF Facts
<1>3. [Unstarted("scanner_process_failed") EXCEPT
         !.invocation_started = TRUE, !.output_exists = TRUE, !.output_size = 0]
        \in Facts(Words)
  <2>1. Unstarted("scanner_process_failed") \in Facts(Words)
    BY <1>1, UnstartedType
  <2>2. TRUE \in BOOLEAN /\ TRUE \in BOOLEAN \union {None} /\ 0 \in Int \union {None}
    OBVIOUS
  <2> QED
    BY <1>2, <2>1, <2>2, Zenon
<1> QED
  BY <1>3, ExecutionType DEF ProcessFailure

LEMMA ObservedType ==
  ASSUME scans[runs].exit \in Int \union {None} PROVE Observed \in Facts(Words)
BY WordsCover, SizeType DEF Observed, Facts, returncode

LEMMA ExitFailureType ==
  ASSUME scans[runs].exit \in Int \union {None}
  PROVE  ExitFailure \in Executions(Words)
<1>1. "scanner_exit_state_invalid" \in Words
  BY DEF Words
<1>2. OutputPresent \in BOOLEAN /\ OutputParseable \in BOOLEAN
  BY DEF OutputPresent, OutputParseable
<1>3. ASSUME NEW p \in BOOLEAN, NEW q \in BOOLEAN
      PROVE  [Observed EXCEPT
                !.exit_state_valid = FALSE, !.output_present = p,
                !.output_parseable = q, !.failed_components = {"scanner_process"},
                !.result_semantics_consistent = None,
                !.completeness_reason = "scanner_exit_state_invalid",
                !.fatal_failure = TRUE] \in Facts(Words)
  BY <1>1, ObservedType, WordsCover DEF Facts
<1>4. [Observed EXCEPT
         !.exit_state_valid = FALSE, !.output_present = OutputPresent,
         !.output_parseable = OutputParseable,
         !.failed_components = {"scanner_process"},
         !.result_semantics_consistent = None,
         !.completeness_reason = "scanner_exit_state_invalid",
         !.fatal_failure = TRUE] \in Facts(Words)
  BY <1>2, <1>3
<1> QED
  BY <1>4, ExecutionType DEF ExitFailure

LEMMA OutputFailureType ==
  ASSUME scans[runs].exit \in Int \union {None}, OutputReason # ""
  PROVE  OutputFailure \in Executions(Words)
<1>1. OutputReason \in Words
  BY DEF OutputReason, Words
<1>2. OutputPresent \in BOOLEAN /\ OutputParseable \in BOOLEAN
  BY DEF OutputPresent, OutputParseable
<1>3. ASSUME NEW p \in BOOLEAN, NEW q \in BOOLEAN, NEW failed \in SUBSET Words,
             NEW consistent \in BOOLEAN \union {None}, NEW reason \in Words
      PROVE  [Observed EXCEPT
                !.output_present = p, !.output_parseable = q,
                !.failed_components = failed,
                !.result_semantics_consistent = consistent,
                !.completeness_reason = reason] \in Facts(Words)
  BY ObservedType DEF Facts
<1> DEFINE failed == IF OutputParseable THEN {"result_sections"} ELSE {"scanner_output"}
           consistent == IF OutputParseable THEN FALSE ELSE None
<1>4. failed \in SUBSET Words /\ consistent \in BOOLEAN \union {None}
  BY WordsCover
<1> HIDE DEF failed, consistent
<1>5. [Observed EXCEPT
         !.output_present = OutputPresent, !.output_parseable = OutputParseable,
         !.failed_components = failed, !.result_semantics_consistent = consistent,
         !.completeness_reason = OutputReason] \in Facts(Words)
  BY <1>1, <1>2, <1>3, <1>4
<1> QED
  BY <1>5, ExecutionType DEF OutputFailure, failed, consistent

LEMMA RejectedType ==
  ASSUME scans[runs].exit \in Int \union {None}, NEW error \in Words
  PROVE  RejectedExecution(error) \in Executions(Words)
BY ErrorComponent, ObservedType, ExecutionType DEF RejectedExecution, Facts

LEMMA CompleteType ==
  ASSUME scans[runs].exit \in Int \union {None}
  PROVE  CompleteExecution \in Executions(Words)
BY WordsCover, ObservedType, ExecutionType DEF CompleteExecution, Facts

LEMMA DriftType ==
  ASSUME scans[runs].exit \in Int \union {None}
  PROVE  DriftExecution \in Executions(Words)
<1>1. OsvComponents \ {"result_semantics"} \in SUBSET Words
      /\ "artifact_snapshot_changed" \in Words
  BY WordsCover DEF Words
<1> QED
  BY <1>1, WordsCover, ObservedType, ExecutionType DEF DriftExecution, Facts

LEMMA EvidenceType ==
  ASSUME TypeOK, rawFile # Torn, ref # None, execution # None
  PROVE  EvidenceRecord \in EvidenceRecords
BY DEF TypeOK, EvidenceRecord, EvidenceRecords

-----------------------------------------------------------------------------
(***************************************************************************)
(* Every step keeps the variables typed and in shape.                      *)
(***************************************************************************)
LEMMA LaunchedExit ==
  ASSUME TypeOK, Shape, ScansByRun, pc \in Launched
  PROVE  /\ runs \in RunIds /\ scans[runs] # None /\ scans[runs] \in ScanRecords
         /\ scans[runs].exit \in Int \union {None}
BY Distinct DEF TypeOK, Shape, ScansByRun, ScanRecords, Launched, Quiescent

(* What a scanner that has been heard out printed is a report, or it was
   killed. *)
LEMMA LaunchedReport ==
  ASSUME TypeOK, Shape, ScansByRun, pc \in Launched \ {"scan"}
  PROVE  scans[runs].report \in Reports /\ scans[runs].report \in ReportSpace
BY LaunchedExit, Distinct, ProducerConstants
   DEF TypeOK, Shape, ScansByRun, ScanRecords, Launched

LEMMA ShapeStep ==
  ASSUME TypeOK, Shape, ScansByRun, Next
  PROVE  TypeOK' /\ Shape'
<1> USE Distinct, MarksAreNoRecords
<1> USE DEF Quiescent, Exposed, Launched, Accepted, PCs, disk, input
<1>1. CASE \E r \in Refs : Begin(r)
  BY <1>1 DEF Begin, TypeOK, Shape, Versions, RunIds, RawFiles, Whole
<1>2. CASE Capture
  BY <1>2 DEF Capture, TypeOK, Shape, Whole
<1>3. CASE CaptureFails
  BY <1>3, PreflightType DEF CaptureFails, Fail, TypeOK, Shape, Whole
<1>4. CASE CheckBinary
  BY <1>4, PreflightType DEF CheckBinary, Fail, TypeOK, Shape, Versions, Whole
<1>5. CASE CheckVersion
  BY <1>5, PreflightType DEF CheckVersion, Fail, TypeOK, Shape, Versions, Whole
<1>6. CASE Launch
  BY <1>6 DEF Launch, TypeOK, Shape, ScanRecords, Whole
<1>7. CASE ScanRaises
  <2>1. EmptyFile \in RawFiles
    BY DEF RawFiles
  <2>2. scans' \in [RunIds -> ScanRecords \union {None}]
    BY <1>7 DEF ScanRaises, TypeOK, Shape, Running, ScanRecords
  <2> QED
    BY <1>7, <2>1, <2>2, ProcessFailureType DEF ScanRaises, Fail, TypeOK, Shape, Whole
<1>8. CASE ScanReturns
  <2>1. runs \in RawFiles
    BY <1>8 DEF ScanReturns, Shape, RawFiles
  <2>2. scans[runs].exit # None
    BY <1>8, LaunchedExit DEF ScanReturns, Running
  <2> QED
    BY <1>8, <2>1, <2>2 DEF ScanReturns, TypeOK, Shape, Whole
<1>9. CASE JudgeExit
  BY <1>9, ExitFailureType, LaunchedExit
     DEF JudgeExit, JudgedBy, Fail, TypeOK, Shape, Whole
<1>10. CASE JudgeOutput
  BY <1>10, OutputFailureType, LaunchedExit
     DEF JudgeOutput, JudgedBy, Fail, TypeOK, Shape, Whole
<1>11. CASE JudgeReport
  <2>1. scans[runs].report \in ReportSpace /\ scans[runs].exit \in Int \union {None}
    BY <1>11, LaunchedReport, LaunchedExit DEF JudgeReport
  <2>2. Validation # "" => RejectedExecution(Validation) \in Executions(Words)
    BY <2>1, ValidateReportType, RejectedType DEF Validation, stdout
  <2> QED
    BY <1>11, <2>1, <2>2, CompleteType DEF JudgeReport, Fail, TypeOK, Shape, Whole
<1>12. CASE WriteEvidence
  BY <1>12, EvidenceType DEF WriteEvidence, TypeOK, Shape, Whole
<1>13. CASE MapVerdict
  <2>1. scans[runs].report \in ReportSpace /\ scans[runs].exit \in Int \union {None}
    BY <1>13, LaunchedReport, LaunchedExit DEF MapVerdict
  <2>2. CASE MappingError # ""
    <3>1. "scanner_execution_incomplete" \in Words /\ "unexpected_osv_exit_code" \in Words
      BY DEF Words
    <3>2. MappingError \in Words
      BY <2>1, <2>2, <3>1, ValidateReportType DEF MappingError, MapError, stdout
    <3>3. RejectedExecution(MappingError) \in Executions(Words)
      BY <2>1, <3>2, RejectedType
    <3> QED
      BY <1>13, <2>2, <3>3 DEF MapVerdict, Fail, TypeOK, Shape, Whole
  <2>3. CASE MappingError = ""
    <3>1. /\ draft' = MapReport(stdout, ref, captured, version, Sha256(evidence))
          /\ evidence \in EvidenceRecords /\ ref \in Refs
          /\ captured \in Contents /\ version \in Versions
      BY <1>13, <2>3 DEF MapVerdict, TypeOK, Shape, Whole
    <3>2. draft' \in Receipts
      BY <3>1 DEF MapReport, Receipt, Verdict, Receipts, Sha256
    <3> QED
      BY <1>13, <2>3, <3>2 DEF MapVerdict, TypeOK, Shape, Whole
  <2> QED
    BY <2>2, <2>3
<1>14. CASE Verify
  BY <1>14 DEF Verify, TypeOK, Shape, Whole
<1>15. CASE VerifyFails
  BY <1>15, DriftType, LaunchedExit DEF VerifyFails, Fail, TypeOK, Shape, Whole
<1>16. CASE WriteReceipt
  BY <1>16 DEF WriteReceipt, TypeOK, Shape, Whole
<1>17. CASE FinishEvidence
  BY <1>17, EvidenceType DEF FinishEvidence, TypeOK, Shape, Whole
<1>18. CASE FinishReceipt
  <2>1. /\ evidence \in EvidenceRecords /\ ref \in Refs
        /\ captured \in Contents /\ version \in Versions
    BY <1>18 DEF FinishReceipt, TypeOK, Shape, Whole
  <2>2. receipt' \in Receipts
    BY <1>18, <2>1
       DEF FinishReceipt, InconclusiveReceipt, Receipt, Receipts, Sha256
  <2> QED
    BY <1>18, <2>2 DEF FinishReceipt, TypeOK, Shape, Whole
<1>19. CASE Crash
  <2>1. scans' \in [RunIds -> ScanRecords \union {None}]
    BY <1>19 DEF Crash, TypeOK, Shape, Running, ScanRecords
  <2> QED
    BY <1>19, <2>1 DEF Crash, TypeOK, Shape, Whole
<1>20. CASE DriftSnapshot
  BY <1>20 DEF DriftSnapshot, TypeOK, Shape, Whole
<1>21. CASE \E k \in RunIds : ScannerExits(k)
  <2> PICK k \in RunIds, printed \in Reports, exit \in ExitCodes :
        /\ Running(k)
        /\ UNCHANGED <<disk, snapshot, meta, runs, pc, input, version, execution,
                       draft>>
        /\ scans' = [scans EXCEPT ![k].report = printed, ![k].exit = exit]
    BY <1>21 DEF ScannerExits
  <2>1. scans[k] # None /\ scans[k] \in ScanRecords
    BY DEF Running, TypeOK
  <2>2. scans' \in [RunIds -> ScanRecords \union {None}]
    BY <2>1 DEF TypeOK, ScanRecords
  <2>3. scans'[k].exit # None
    BY <2>1 DEF TypeOK, ScanRecords
  <2>4. TypeOK'
    BY <2>2 DEF TypeOK
  <2>5. pc \in Launched \ {"scan"} => runs \in RunIds /\ scans[runs].exit # None
    BY DEF Shape
  <2>6. pc \in Launched \ {"scan"} => scans'[runs].exit # None
    BY <2>3, <2>5 DEF TypeOK
  <2> QED
    BY <2>4, <2>6 DEF Shape, Whole
<1> QED
  BY <1>1, <1>2, <1>3, <1>4, <1>5, <1>6, <1>7, <1>8, <1>9, <1>10, <1>11, <1>12,
     <1>13, <1>14, <1>15, <1>16, <1>17, <1>18, <1>19, <1>20, <1>21
     DEF Next, OwnStep, Judge

-----------------------------------------------------------------------------
(***************************************************************************)
(* Every step keeps what the scans and the verdict have to do with each    *)
(* other.                                                                  *)
(***************************************************************************)
LEMMA ScansStep ==
  ASSUME TypeOK, Shape, ScansByRun, Next
  PROVE  ScansByRun'
<1> USE Distinct, MarksAreNoRecords
<1> USE DEF Quiescent, Exposed, Launched, disk, input
<1>1. CASE \E r \in Refs : Begin(r)
  BY <1>1 DEF Begin, TypeOK, Running, RunIds, ScansByRun
<1>2. CASE Launch
  <2>1. runs \in RunIds /\ scans[runs] = None
    BY <1>2 DEF Launch, Shape, ScansByRun
  <2>2. /\ scans'[runs] = [read |-> snapshot, report |-> None, exit |-> None]
        /\ \A k \in RunIds : k # runs => scans'[k] = scans[k]
    BY <1>2, <2>1 DEF Launch, TypeOK
  <2>3. scans'[runs] # None
    BY <1>2, <2>1, ShapeStep DEF Launch, TypeOK, Shape, ScanRecords
  <2> QED
    BY <1>2, <2>1, <2>2, <2>3 DEF Launch, ScansByRun, Running
<1>3. CASE \E k \in RunIds : ScannerExits(k)
  <2> PICK k \in RunIds, printed \in Reports, exit \in ExitCodes :
        /\ Running(k) /\ UNCHANGED <<rawFile, runs, pc>>
        /\ scans' = [scans EXCEPT ![k].report = printed, ![k].exit = exit]
    BY <1>3 DEF ScannerExits
  <2>1. scans[k] # None /\ scans[k] \in ScanRecords
    BY DEF Running, TypeOK
  <2>2. scans'[k].exit = exit /\ scans'[k].report = printed /\ scans'[k] # None
    BY <2>1 DEF TypeOK, ScanRecords
  <2>3. \A j \in RunIds : j # k => scans'[j] = scans[j]
    BY DEF TypeOK
  <2>4. printed # None /\ exit \notin {None, Killed}
    OBVIOUS
  <2>5. \A j \in RunIds : Running(j)' => j # k /\ Running(j)
    BY <2>2, <2>3, <2>4 DEF Running
  <2>6. pc \in {"snapshot", "binary", "version", "launch"} => runs # k
    BY <2>1 DEF ScansByRun
  <2>7. pc \notin Quiescent => runs \in RunIds
    BY DEF Shape
  <2>8. /\ \A j \in RunIds : j > runs => scans'[j] = None
        /\ \A j \in RunIds : Running(j)' => scans'[j].report = None
        /\ \A j \in RunIds :
             scans'[j] # None /\ scans'[j].report = None => scans'[j].exit \in {None, Killed}
    BY <2>1, <2>2, <2>3, <2>4, <2>5 DEF ScansByRun
  <2>9. pc \in {"finish", "finish_receipt", "exit0", "exit1"} => ~Running(runs)'
    BY <2>5 DEF ScansByRun, Shape
  <2>10. rawFile \in RunIds => scans'[rawFile] # None /\ scans'[rawFile].report # None
    BY <2>2, <2>3, <2>4 DEF ScansByRun
  <2>11. pc \in Launched => scans'[runs] # None /\ scans'[runs].exit # Killed
    BY <2>2, <2>3, <2>4, <2>7 DEF ScansByRun
  <2>12. pc \in {"snapshot", "binary", "version", "launch"} => scans'[runs] = None
    BY <2>3, <2>6, <2>7 DEF ScansByRun
  <2> QED
    BY <2>8, <2>9, <2>10, <2>11, <2>12, Zenon DEF ScansByRun, Running
<1>4. CASE ScanRaises
  BY <1>4 DEF ScanRaises, Fail, TypeOK, Shape, Running, ScansByRun
<1>5. CASE Crash
  <2>1. CASE UNCHANGED scans
    BY <1>5, <2>1 DEF Crash, Running, ScansByRun
  <2>2. CASE Running(runs) /\ scans' = [scans EXCEPT ![runs].exit = Killed]
    BY <1>5, <2>2 DEF Crash, TypeOK, Shape, Running, ScansByRun
  <2> QED
    BY <1>5, <2>1, <2>2 DEF Crash
<1>6. CASE ScanReturns
  <2>1. scans[runs] # None /\ scans[runs].report # None /\ runs \in RunIds
    BY <1>6, LaunchedExit DEF ScanReturns, Running, ScansByRun
  <2> QED
    BY <1>6, <2>1 DEF ScanReturns, Running, ScansByRun
<1>7. ASSUME UNCHANGED <<scans, runs, rawFile>>,
             pc' \in {"snapshot", "binary", "version", "launch"}
               => pc \in {"snapshot", "binary", "version", "launch"},
             pc' \in Launched => pc \in Launched,
             pc' \in {"finish", "finish_receipt", "exit0", "exit1"} => ~Running(runs)
      PROVE  ScansByRun'
  BY <1>7 DEF Running, ScansByRun
<1>8. CASE DriftSnapshot
  BY <1>7, <1>8 DEF DriftSnapshot, ScansByRun
<1>9. CASE Capture \/ CaptureFails \/ CheckBinary \/ CheckVersion
  BY <1>7, <1>9 DEF Capture, CaptureFails, CheckBinary, CheckVersion, Fail,
       ScansByRun, Running
<1>10. CASE \/ Judge \/ WriteEvidence \/ MapVerdict \/ Verify \/ VerifyFails
            \/ WriteReceipt
  <2>1. pc \in Launched \ {"scan"}
    BY <1>10 DEF Judge, JudgeExit, JudgeOutput, JudgeReport, WriteEvidence,
         MapVerdict, Verify, VerifyFails, WriteReceipt
  <2>2. ~Running(runs)
    BY <2>1 DEF Running, Shape
  <2>3. /\ UNCHANGED <<scans, runs, rawFile>>
        /\ pc' \in {"finish", "exit0"} \union Launched
    BY <1>10 DEF Judge, JudgeExit, JudgeOutput, JudgeReport, JudgedBy, Fail,
         WriteEvidence, MapVerdict, Verify, VerifyFails, WriteReceipt
  <2> QED
    BY <1>7, <2>1, <2>2, <2>3
<1>11. CASE FinishEvidence \/ FinishReceipt
  BY <1>7, <1>11 DEF FinishEvidence, FinishReceipt, ScansByRun
<1> QED
  BY <1>1, <1>2, <1>3, <1>4, <1>5, <1>6, <1>8, <1>9, <1>10, <1>11
     DEF Next, OwnStep

(* A conclusive scan is over: no step alters it. *)
LEMMA ConclusiveIsFinal ==
  ASSUME TypeOK, Shape, ScansByRun, Next, NEW k \in RunIds, Conclusive(scans[k])
  PROVE  scans'[k] = scans[k]
<1> USE Distinct, MarksAreNoRecords
<1>1. scans[k] # None /\ ~Running(k)
  BY DEF Conclusive, Running
<1>2. CASE UNCHANGED scans
  BY <1>2
<1>3. CASE Launch
  BY <1>1, <1>3 DEF Launch, ScansByRun, TypeOK
<1>4. CASE ScanRaises
  BY <1>1, <1>4 DEF ScanRaises, TypeOK
<1>5. CASE Crash
  BY <1>1, <1>5 DEF Crash, TypeOK
<1>6. CASE \E j \in RunIds : ScannerExits(j)
  BY <1>1, <1>6 DEF ScannerExits, TypeOK
<1>7. CASE (\E r \in Refs : Begin(r)) \/ DriftSnapshot
  BY <1>2, <1>7 DEF Begin, DriftSnapshot
<1>8. CASE Capture \/ CaptureFails \/ CheckBinary \/ CheckVersion \/ ScanReturns
  BY <1>2, <1>8 DEF Capture, CaptureFails, CheckBinary, CheckVersion, ScanReturns
<1>9. CASE Judge
  BY <1>2, <1>9 DEF Judge, JudgeExit, JudgeOutput, JudgeReport, JudgedBy
<1>10. CASE \/ WriteEvidence \/ MapVerdict \/ Verify \/ VerifyFails
            \/ WriteReceipt \/ FinishEvidence \/ FinishReceipt
  BY <1>2, <1>10 DEF WriteEvidence, MapVerdict, Verify, VerifyFails,
       WriteReceipt, FinishEvidence, FinishReceipt
<1> QED
  BY <1>3, <1>4, <1>5, <1>6, <1>7, <1>8, <1>9, <1>10 DEF Next, OwnStep

(* validate_report accepts exactly the reports on which a verdict may rest,
   under exactly the exit code that says what they say. *)
THEOREM AcceptanceIsSoundness ==
  \A report \in ReportSpace : \A code :
    ValidateReport(report, code) = "" <=>
      Sound(report) /\ code = IF HasFindings(report) THEN 1 ELSE 0
<1> SUFFICES ASSUME NEW report \in ReportSpace, NEW code
             PROVE  ValidateReport(report, code) = "" <=>
                      Sound(report) /\ code = IF HasFindings(report) THEN 1 ELSE 0
  OBVIOUS
<1> DEFINE InOrder(s) == s.source = "target" /\ s.type \in AllowedSourceTypes /\ ~s.malformed
<1>1. \A i \in DOMAIN report.results : report.results[i] \in SectionSpace
  BY DEF ReportSpace
<1>2. ASSUME NEW s \in SectionSpace PROVE SectionError(s) = "" <=> InOrder(s)
  BY DEF SectionError, SectionSpace, MalformedReport
<1>3. Faulty(report) = {} <=> \A s \in Sections(report) : InOrder(s)
  BY <1>1, <1>2 DEF Faulty, Sections
<1>4. Faulty(report) # {} => SectionError(report.results[FirstFaulty(report)]) # ""
  BY FirstIsFaulty DEF Faulty
<1>5. ExitError(report, code) = "" <=> code = IF HasFindings(report) THEN 1 ELSE 0
  <2>1. HasFindings(report) \in BOOLEAN
    BY DEF HasFindings
  <2> QED
    BY <2>1 DEF ExitError
<1>6. MalformedReport # ""
  BY DEF MalformedReport
<1>7. ValidateReport(report, code) = "" <=>
        /\ report.form = "object" /\ Faulty(report) = {}
        /\ HasLockfile(report) /\ HasPackages(report)
        /\ ExitError(report, code) = ""
  BY <1>4, <1>6 DEF ValidateReport
<1> QED
  BY <1>3, <1>5, <1>7 DEF Sound

(* What the scanner of the current run read does not change either. *)
LEMMA ReadIsFinal ==
  ASSUME TypeOK, Shape, ScansByRun, NEW k \in RunIds, ScannerExits(k),
         pc \in Launched
  PROVE  runs' = runs /\ scans'[runs].read = scans[runs].read
<1>1. runs \in RunIds /\ scans[runs] \in ScanRecords
  BY LaunchedExit
<1>2. Running(k) /\ scans[k] \in ScanRecords
  BY DEF ScannerExits, Running, TypeOK
<1>3. scans'[k].read = scans[k].read /\ \A j \in RunIds : j # k => scans'[j] = scans[j]
  BY <1>2 DEF ScannerExits, TypeOK, ScanRecords
<1> QED
  BY <1>1, <1>3 DEF ScannerExits

LEMMA OneIsPositive == Positive(1)
BY NoneIsNoValue DEF Positive

(* The record of an accepted report is complete, under the scanner's own exit
   code. *)
LEMMA CompleteExecutionIsComplete ==
  ASSUME TypeOK, Shape, ScansByRun, pc = "judge", ExitValid, OutputReason = ""
  PROVE  RecordIsComplete(CompleteExecution) /\ CompleteExecution.exit_code = returncode
<1>1. rawFile = runs /\ runs \in RunIds /\ stdout.form # "empty"
  BY DEF Shape, Launched, Quiescent, OutputReason
<1>2. SizeOf(rawFile) = 1 /\ 1 # None
  BY <1>1, Distinct DEF SizeOf, stdout
<1>3. Positive(SizeOf(rawFile))
  BY <1>2, OneIsPositive
<1> DEFINE f == [Observed EXCEPT !.completed_components = OsvComponents]
<1>4. /\ f.invocation_started = TRUE /\ f.process_completed = TRUE
      /\ f.exit_code = returncode /\ f.exit_state_valid = TRUE
      /\ f.output_present = TRUE /\ f.output_parseable = TRUE
      /\ f.output_exists = TRUE /\ f.output_size = SizeOf(rawFile)
      /\ f.required_components = OsvComponents
      /\ f.completed_components = OsvComponents
      /\ f.failed_components = {} /\ f.result_semantics_consistent = TRUE
      /\ f.fatal_failure = FALSE
  BY DEF Observed
<1> HIDE DEF f
<1>5. OutputExists(f) = TRUE
  BY <1>4 DEF OutputExists
<1>6. WorkDone(f)
  BY <1>3, <1>4, <1>5 DEF WorkDone
<1>7. Status(f) = "complete"
  BY <1>4, <1>6 DEF Status
<1>8. RecordIsComplete(MakeExecution(f)) /\ MakeExecution(f).exit_code = returncode
  BY <1>3, <1>4, <1>5, <1>7 DEF RecordIsComplete, MakeExecution
<1> QED
  BY <1>8 DEF CompleteExecution, f

LEMMA ProgressStep ==
  ASSUME TypeOK, Shape, ScansByRun, Progress, Next
  PROVE  Progress'
<1> USE Distinct, MarksAreNoRecords
<1> USE DEF Quiescent, Exposed, Launched, Accepted, disk, input
<1>1. CASE JudgeReport
  <2>1. CASE Validation = ""
    <3>1. scans[runs].report \in ReportSpace /\ scans[runs] # None
          /\ scans[runs].report # None
      BY <1>1, LaunchedReport, LaunchedExit DEF JudgeReport
    <3>2. Conclusive(scans[runs])
      BY <2>1, <3>1, AcceptanceIsSoundness DEF Conclusive, Validation, stdout, returncode
    <3>3. /\ pc = "judge" /\ pc' = "evidence" /\ execution' = CompleteExecution
          /\ UNCHANGED <<scans, runs, captured, snapshot, version>>
      BY <1>1, <2>1 DEF JudgeReport
    <3>4. RecordIsComplete(execution') /\ execution'.exit_code = scans[runs].exit
      BY <1>1, <3>3, CompleteExecutionIsComplete DEF JudgeReport, returncode
    <3> QED
      BY <3>2, <3>3, <3>4 DEF Progress
  <2>2. CASE Validation # ""
    BY <1>1, <2>2 DEF JudgeReport, Progress, Fail
  <2> QED
    BY <2>1, <2>2
<1>2. CASE MapVerdict
  BY <1>2 DEF MapVerdict, Progress, Fail
<1>3. CASE \E k \in RunIds : ScannerExits(k)
  <2>1. pc \in Accepted => runs \in RunIds /\ Conclusive(scans[runs])
    BY DEF Progress, Shape
  <2>2. pc \in Accepted => scans'[runs] = scans[runs]
    BY <2>1, ConclusiveIsFinal
  <2>3. /\ UNCHANGED <<runs, pc, version, captured, snapshot, execution>>
        /\ pc \in Launched => scans'[runs].read = scans[runs].read
    BY <1>3, ReadIsFinal DEF ScannerExits
  <2> QED
    BY <2>2, <2>3 DEF Progress
<1>4. CASE DriftSnapshot
  BY <1>4 DEF DriftSnapshot, Progress
<1>5. CASE WriteEvidence \/ Verify
  BY <1>5 DEF WriteEvidence, Verify, Progress
<1>6. CASE Launch
  <2>1. runs \in RunIds /\ scans'[runs].read = snapshot
    BY <1>6 DEF Launch, TypeOK, Shape
  <2> QED
    BY <1>6, <2>1 DEF Launch, Progress
<1>7. CASE CheckVersion \/ ScanReturns
  BY <1>7 DEF CheckVersion, ScanReturns, Progress, Fail
<1>8. CASE pc' \notin {"launch"} \union Launched
  BY <1>8 DEF Progress
<1> QED
  BY <1>1, <1>2, <1>3, <1>4, <1>5, <1>6, <1>7, <1>8
     DEF Next, OwnStep, Judge, Begin, Capture, CaptureFails, CheckBinary,
         ScanRaises, JudgeExit, JudgeOutput, JudgedBy,
         VerifyFails, WriteReceipt, FinishEvidence, FinishReceipt, Crash, Fail

-----------------------------------------------------------------------------
(***************************************************************************)
(* Every step keeps what evidence, draft and receipt have to do with each  *)
(* other.                                                                  *)
(***************************************************************************)
(* An accepted report maps. *)
LEMMA AcceptedMaps ==
  ASSUME TypeOK, Shape, ScansByRun, Progress
  PROVE  MappingNeverRefuses
<1> SUFFICES ASSUME pc = "map" PROVE MappingError = ""
  BY DEF MappingNeverRefuses
<1>1. /\ Conclusive(scans[runs]) /\ RecordIsComplete(execution)
      /\ execution.exit_code = scans[runs].exit
  BY DEF Progress, Accepted
<1>2. scans[runs].report \in ReportSpace
  BY LaunchedReport DEF Launched
<1>3. ValidateReport(stdout, returncode) = ""
  BY <1>1, <1>2, AcceptanceIsSoundness DEF Conclusive, stdout, returncode
<1>4. returncode \in {0, 1} /\ returncode # None
  BY <1>1, Distinct DEF Conclusive, returncode
<1> QED
  BY <1>1, <1>3, <1>4, Distinct DEF MappingError, MapError, ExecutionIsComplete, returncode

LEMMA PreparedStep ==
  ASSUME TypeOK, Shape, ScansByRun, Progress, Prepared, Next
  PROVE  Prepared'
<1> USE Distinct, MarksAreNoRecords
<1> USE DEF Quiescent, Exposed, Accepted, Launched, disk, input
<1>1. CASE WriteEvidence
  <2>1. /\ evidence'.ref = ref /\ evidence'.sha256 = captured
        /\ evidence'.scanner_version = version /\ evidence'.execution = execution
        /\ evidence'.raw_report = rawFile /\ rawFile = runs
    BY <1>1 DEF WriteEvidence, EvidenceRecord, Shape
  <2> QED
    BY <1>1, <2>1 DEF WriteEvidence, Prepared
<1>2. CASE FinishEvidence
  BY <1>2 DEF FinishEvidence, EvidenceRecord, Prepared
<1>3. CASE MapVerdict
  <2>1. pc = "map" /\ MappingError = ""
    BY <1>3, AcceptedMaps DEF MapVerdict, MappingNeverRefuses
  <2>2. /\ draft' = MapReport(stdout, ref, captured, version, Sha256(evidence))
        /\ pc' = "verify"
        /\ UNCHANGED <<evidence, ref, captured, version, execution, scans, runs>>
    BY <1>3, <2>1 DEF MapVerdict
  <2> QED
    BY <2>1, <2>2 DEF Prepared, stdout
<1>4. CASE Verify \/ DriftSnapshot
  BY <1>4 DEF Verify, DriftSnapshot, Prepared, stdout
<1>5. CASE \E k \in RunIds : ScannerExits(k)
  <2>1. pc \in Accepted => runs \in RunIds /\ Conclusive(scans[runs])
    BY DEF Progress, Shape
  <2>2. pc \in Accepted => scans'[runs] = scans[runs]
    BY <2>1, ConclusiveIsFinal
  <2> QED
    BY <1>5, <2>2 DEF ScannerExits, Prepared, stdout
<1>6. CASE pc' \notin {"map", "verify", "receipt", "finish_receipt"}
  BY <1>6 DEF Prepared
<1> QED
  BY <1>1, <1>2, <1>3, <1>4, <1>5, <1>6
     DEF Next, OwnStep, Judge, Begin, Capture, CaptureFails,
         CheckBinary, CheckVersion, Launch, ScanRaises, ScanReturns, JudgeExit,
         JudgeOutput, JudgeReport, JudgedBy, VerifyFails, WriteReceipt,
         FinishReceipt, Crash, Fail

LEMMA ReceiptUnchanged ==
  ASSUME Next, ~WriteReceipt, ~FinishReceipt
  PROVE  UNCHANGED receipt \/ receipt' = Torn
<1> USE DEF disk, input
<1>1. CASE (\E r \in Refs : Begin(r)) \/ DriftSnapshot \/ Crash
           \/ \E k \in RunIds : ScannerExits(k)
  BY <1>1 DEF Begin, DriftSnapshot, ScannerExits, Crash
<1>2. CASE Capture \/ CaptureFails \/ CheckBinary \/ CheckVersion \/ Launch
  BY <1>2 DEF Capture, CaptureFails, CheckBinary, CheckVersion, Launch
<1>3. CASE ScanRaises \/ ScanReturns \/ Judge
  BY <1>3 DEF ScanRaises, ScanReturns, Judge, JudgeExit, JudgeOutput,
       JudgeReport, JudgedBy
<1>4. CASE \/ WriteEvidence \/ MapVerdict \/ Verify \/ VerifyFails \/ FinishEvidence
  BY <1>4 DEF WriteEvidence, MapVerdict, Verify, VerifyFails, FinishEvidence
<1> QED
  BY <1>1, <1>2, <1>3, <1>4 DEF Next, OwnStep

(* What WriteReceipt publishes. *)
LEMMA Published ==
  ASSUME TypeOK, Shape, ScansByRun, Progress, Prepared, WriteReceipt
  PROVE  /\ receipt' = draft /\ draft \in Receipts /\ pc' = "exit0"
         /\ UNCHANGED <<evidence, ref, captured, scans>> /\ Whole(evidence)
         /\ draft.evidence_digest = Sha256(evidence)
         /\ draft.scanned_artifact_ref = ref
         /\ draft.scanned_artifact_digest = captured
         /\ draft.scanner_version = version
         /\ draft.verdict = Verdict(scans[runs].report)
         /\ evidence.ref = ref /\ evidence.sha256 = captured
         /\ evidence.scanner_version = version /\ evidence.execution = execution
         /\ evidence.raw_report = runs /\ runs \in RunIds
         /\ version = "pinned" /\ RecordIsComplete(execution)
         /\ execution.exit_code = scans[runs].exit
         /\ Conclusive(scans[runs]) /\ scans[runs].read = captured
<1>1. pc = "receipt"
  BY DEF WriteReceipt
<1>2. draft = MapReport(stdout, ref, captured, version, Sha256(evidence))
  BY <1>1 DEF Prepared
<1>3. /\ draft.evidence_digest = Sha256(evidence)
      /\ draft.scanned_artifact_ref = ref /\ draft.scanned_artifact_digest = captured
      /\ draft.scanner_version = version /\ draft.verdict = Verdict(stdout)
  BY <1>2 DEF MapReport, Receipt
<1>4. receipt' = draft /\ pc' = "exit0" /\ UNCHANGED <<evidence, ref, captured, scans>>
  BY DEF WriteReceipt, input
<1>5. draft \in Receipts /\ Whole(evidence) /\ runs \in RunIds
  BY <1>1 DEF TypeOK, Shape, Quiescent
<1> QED
  BY <1>1, <1>3, <1>4, <1>5 DEF Prepared, Progress, Accepted, Launched, stdout

(* A receipt that is earned stays earned, and one that is published is. *)
LEMMA EarnedStep ==
  ASSUME TypeOK, Shape, ScansByRun, Progress, Prepared, ReceiptEarned, Next
  PROVE  ReceiptEarned'
<1>1. \A k \in RunIds : Conclusive(scans[k]) => scans'[k] = scans[k]
  BY ConclusiveIsFinal
<1>2. CASE UNCHANGED receipt
  BY <1>1, <1>2 DEF ReceiptEarned, Whole, Decisive
<1>3. CASE WriteReceipt
  <2>1. /\ receipt'.evidence_digest.sha256.raw_report = runs
        /\ runs \in RunIds /\ Conclusive(scans'[runs])
        /\ scans'[runs].read = receipt'.scanned_artifact_digest
        /\ receipt'.verdict = Verdict(scans'[runs].report)
    BY <1>3, Published DEF Sha256
  <2> QED
    BY <2>1 DEF ReceiptEarned
<1>4. CASE FinishReceipt
  BY <1>4 DEF FinishReceipt, InconclusiveReceipt, Receipt, ReceiptEarned, Decisive
<1>5. CASE receipt' = Torn
  BY <1>5 DEF ReceiptEarned, Whole
<1> QED
  BY <1>2, <1>3, <1>4, <1>5, ReceiptUnchanged

LEMMA BacksStep ==
  ASSUME TypeOK, Shape, ScansByRun, Progress, Prepared, EvidenceBacksReceipt, Next
  PROVE  EvidenceBacksReceipt'
<1>1. CASE WriteReceipt
  <2>1. /\ receipt'.evidence_digest.sha256 = evidence
        /\ evidence.ref = receipt'.scanned_artifact_ref
        /\ evidence.sha256 = receipt'.scanned_artifact_digest
        /\ evidence.scanner_version = receipt'.scanner_version
        /\ evidence.scanner_version = "pinned"
        /\ RecordIsComplete(evidence.execution)
    BY <1>1, Published DEF Sha256
  <2>2. evidence.execution.exit_code = IF receipt'.verdict = "findings" THEN 1 ELSE 0
    BY <1>1, Published DEF Conclusive, Verdict
  <2> QED
    BY <2>1, <2>2 DEF EvidenceBacksReceipt
<1>2. CASE FinishReceipt
  <2>1. /\ receipt' = InconclusiveReceipt(ref, captured, version, Sha256(evidence))
        /\ evidence.ref = ref /\ evidence.sha256 = captured
        /\ evidence.scanner_version = version
    BY <1>2 DEF FinishReceipt, Prepared
  <2> QED
    BY <2>1 DEF EvidenceBacksReceipt, InconclusiveReceipt, Receipt, Sha256, Decisive
<1>3. CASE UNCHANGED receipt
  BY <1>3 DEF EvidenceBacksReceipt, Whole, Decisive
<1>4. CASE receipt' = Torn
  BY <1>4 DEF EvidenceBacksReceipt, Whole
<1> QED
  BY <1>1, <1>2, <1>3, <1>4, ReceiptUnchanged

LEMMA PairStep ==
  ASSUME TypeOK, Shape, ScansByRun, Progress, Prepared, SettledPair, Next
  PROVE  SettledPair'
<1> USE Distinct, MarksAreNoRecords
<1> USE DEF Settled, Exposed, Quiescent, disk, input
<1>1. CASE WriteReceipt
  BY <1>1, Published DEF SettledPair, Whole, Decisive, Sha256, Verdict
<1>2. CASE FinishReceipt
  <2>1. /\ pc' = "exit1" /\ UNCHANGED <<evidence, ref, captured>>
        /\ receipt' = InconclusiveReceipt(ref, captured, version, Sha256(evidence))
        /\ Whole(evidence)
    BY <1>2 DEF FinishReceipt, Shape
  <2>2. /\ evidence \in EvidenceRecords /\ ref \in Refs
        /\ captured \in Contents /\ version \in Versions
    BY <1>2 DEF FinishReceipt, TypeOK, Shape, Whole
  <2>3. receipt' \in Receipts
    BY <2>1, <2>2 DEF InconclusiveReceipt, Receipt, Receipts, Sha256
  <2> QED
    BY <2>1, <2>3 DEF SettledPair, Whole, InconclusiveReceipt, Receipt, Decisive, Sha256
<1>3. CASE DriftSnapshot \/ \E k \in RunIds : ScannerExits(k)
  BY <1>3 DEF DriftSnapshot, ScannerExits, SettledPair, Whole, Decisive
<1>4. CASE FinishEvidence
  BY <1>4 DEF FinishEvidence, SettledPair
<1>5. CASE pc' \notin {"exit0", "exit1"}
  BY <1>5 DEF SettledPair
<1> QED
  BY <1>1, <1>2, <1>3, <1>4, <1>5
     DEF Next, OwnStep, Judge, Begin, Capture, CaptureFails,
         CheckBinary, CheckVersion, Launch, ScanRaises, ScanReturns, JudgeExit,
         JudgeOutput, JudgeReport, JudgedBy, WriteEvidence, MapVerdict,
         Verify, VerifyFails, Crash, Fail

-----------------------------------------------------------------------------
(***************************************************************************)
(* Every step keeps evidence about its own run.                            *)
(***************************************************************************)
(* What _finish_inconclusive is given: no such record says complete, and only
   a preflight failure says that no scanner was started. *)
LEMMA FailuresAreIncomplete ==
  /\ \A reason : /\ PreflightExecution(reason).completeness_status # "complete"
                 /\ PreflightExecution(reason).invocation_started = FALSE
  /\ \A x \in {ProcessFailure, ExitFailure, OutputFailure, DriftExecution} :
       x.completeness_status # "complete" /\ x.invocation_started = TRUE
  /\ \A error : /\ RejectedExecution(error).completeness_status # "complete"
                /\ RejectedExecution(error).invocation_started = TRUE
<1>1. ASSUME NEW reason
      PROVE  /\ PreflightExecution(reason).completeness_status # "complete"
             /\ PreflightExecution(reason).invocation_started = FALSE
  BY DEF PreflightExecution, Unstarted, MakeExecution, Status
<1>2. ProcessFailure.completeness_status # "complete" /\ ProcessFailure.invocation_started = TRUE
  BY DEF ProcessFailure, Unstarted, MakeExecution, Status
<1>3. ExitFailure.completeness_status # "complete" /\ ExitFailure.invocation_started = TRUE
  BY DEF ExitFailure, Observed, MakeExecution, Status
<1>4. OutputFailure.completeness_status # "complete" /\ OutputFailure.invocation_started = TRUE
  BY DEF OutputFailure, Observed, MakeExecution, Status, WorkDone
<1>5. DriftExecution.completeness_status # "complete" /\ DriftExecution.invocation_started = TRUE
  BY DEF DriftExecution, Observed, MakeExecution, Status
<1>6. ASSUME NEW error
      PROVE  /\ RejectedExecution(error).completeness_status # "complete"
             /\ RejectedExecution(error).invocation_started = TRUE
  BY DEF RejectedExecution, Observed, MakeExecution, Status, WorkDone
<1> QED
  BY <1>1, <1>2, <1>3, <1>4, <1>5, <1>6

(* A step that fails the run hands over a record that says so. *)
LEMMA FailureHandsOver ==
  ASSUME TypeOK, Shape, ScansByRun, Progress, RecordIsOwn, Next, pc' = "finish"
  PROVE  /\ execution'.completeness_status # "complete"
         /\ IF execution'.invocation_started THEN rawFile' \in {runs', EmptyFile}
                                             ELSE rawFile' = None
<1>1. CASE CaptureFails \/ CheckBinary \/ CheckVersion
  BY <1>1, FailuresAreIncomplete DEF CaptureFails, CheckBinary, CheckVersion, Fail,
     disk, RecordIsOwn
<1>2. CASE ScanRaises
  BY <1>2, FailuresAreIncomplete DEF ScanRaises, Fail
<1>3. CASE Judge
  BY <1>3, FailuresAreIncomplete DEF Judge, JudgeExit, JudgeOutput, JudgeReport,
     JudgedBy, Fail, disk, Shape, Launched
<1>4. CASE MapVerdict \/ VerifyFails
  BY <1>4, FailuresAreIncomplete DEF MapVerdict, VerifyFails, Fail, disk, Shape,
     Launched
<1>5. CASE DriftSnapshot \/ \E k \in RunIds : ScannerExits(k)
  BY <1>5 DEF DriftSnapshot, ScannerExits, disk, RecordIsOwn, Exposed
<1>6. CASE \/ (\E r \in Refs : Begin(r)) \/ Capture \/ Launch \/ ScanReturns
           \/ WriteEvidence \/ Verify \/ WriteReceipt \/ FinishEvidence
           \/ FinishReceipt \/ Crash
  BY <1>6 DEF Begin, Capture, Launch, ScanReturns, WriteEvidence, Verify,
     WriteReceipt, FinishEvidence, FinishReceipt, Crash
<1> QED
  BY <1>1, <1>2, <1>3, <1>4, <1>5, <1>6 DEF Next, OwnStep

LEMMA OwnRecordStep ==
  ASSUME TypeOK, Shape, ScansByRun, Progress, Prepared, RecordIsOwn, Next
  PROVE  RecordIsOwn'
<1> USE DEF Exposed, Quiescent, disk, input
<1>1. CASE pc' = "finish"
  <2>1. meta' = captured'
    <3>1. CASE CaptureFails
      BY <3>1 DEF CaptureFails, RecordIsOwn
    <3>2. CASE CheckBinary \/ CheckVersion \/ ScanRaises
      BY <3>2 DEF CheckBinary, CheckVersion, ScanRaises, RecordIsOwn
    <3>3. CASE Judge
      BY <3>3 DEF Judge, JudgeExit, JudgeOutput, JudgeReport, JudgedBy, RecordIsOwn
    <3>4. CASE MapVerdict \/ VerifyFails
      BY <3>4 DEF MapVerdict, VerifyFails, RecordIsOwn
    <3>5. CASE DriftSnapshot \/ \E k \in RunIds : ScannerExits(k)
      BY <1>1, <3>5 DEF DriftSnapshot, ScannerExits, RecordIsOwn
    <3>6. CASE \/ (\E r \in Refs : Begin(r)) \/ Capture \/ Launch \/ ScanReturns
               \/ WriteEvidence \/ Verify \/ WriteReceipt \/ FinishEvidence
               \/ FinishReceipt \/ Crash
      BY <1>1, <3>6 DEF Begin, Capture, Launch, ScanReturns, WriteEvidence, Verify,
         WriteReceipt, FinishEvidence, FinishReceipt, Crash
    <3> QED
      BY <3>1, <3>2, <3>3, <3>4, <3>5, <3>6 DEF Next, OwnStep
  <2> QED
    BY <1>1, <2>1, FailureHandsOver DEF RecordIsOwn
<1>2. CASE (\E r \in Refs : Begin(r)) \/ Capture \/ Launch \/ ScanReturns
  BY <1>2 DEF Begin, Capture, Launch, ScanReturns, RecordIsOwn
<1>3. CASE FinishEvidence
  BY <1>3 DEF FinishEvidence, EvidenceRecord, RecordIsOwn
<1>4. CASE DriftSnapshot \/ \E k \in RunIds : ScannerExits(k)
  BY <1>4 DEF DriftSnapshot, ScannerExits, RecordIsOwn
<1>5. CASE CheckBinary \/ CheckVersion
  BY <1>1, <1>5 DEF CheckBinary, CheckVersion, Fail, RecordIsOwn
<1>6. CASE Judge \/ WriteEvidence \/ MapVerdict \/ Verify
  BY <1>1, <1>6 DEF Judge, JudgeExit, JudgeOutput, JudgeReport, JudgedBy,
     WriteEvidence, MapVerdict, Verify, Fail, RecordIsOwn
<1>7. CASE \/ CaptureFails \/ ScanRaises \/ VerifyFails \/ WriteReceipt
           \/ FinishReceipt \/ Crash
  BY <1>1, <1>7 DEF CaptureFails, ScanRaises, VerifyFails, WriteReceipt,
     FinishReceipt, Crash, Fail, RecordIsOwn
<1> QED
  BY <1>1, <1>2, <1>3, <1>4, <1>5, <1>6, <1>7 DEF Next, OwnStep

(* Only two steps write evidence; a crash may tear it. *)
LEMMA EvidenceUnchanged ==
  ASSUME Next, ~WriteEvidence, ~FinishEvidence
  PROVE  UNCHANGED evidence \/ (evidence' = Torn /\ pc' = "crashed")
<1> USE DEF disk, input
<1>1. CASE (\E r \in Refs : Begin(r)) \/ DriftSnapshot \/ Crash
           \/ \E k \in RunIds : ScannerExits(k)
  BY <1>1 DEF Begin, DriftSnapshot, ScannerExits, Crash
<1>2. CASE Capture \/ CaptureFails \/ CheckBinary \/ CheckVersion \/ Launch
  BY <1>2 DEF Capture, CaptureFails, CheckBinary, CheckVersion, Launch
<1>3. CASE ScanRaises \/ ScanReturns \/ Judge
  BY <1>3 DEF ScanRaises, ScanReturns, Judge, JudgeExit, JudgeOutput,
       JudgeReport, JudgedBy
<1>4. CASE MapVerdict \/ Verify \/ VerifyFails \/ WriteReceipt \/ FinishReceipt
  BY <1>4 DEF MapVerdict, Verify, VerifyFails, WriteReceipt, FinishReceipt
<1> QED
  BY <1>1, <1>2, <1>3, <1>4 DEF Next, OwnStep

LEMMA InputOwnStep ==
  ASSUME RecordIsOwn, EvidenceInputIsOwn, Next
  PROVE  EvidenceInputIsOwn'
<1>1. CASE WriteEvidence \/ FinishEvidence
  BY <1>1 DEF WriteEvidence, FinishEvidence, EvidenceRecord, RecordIsOwn, Exposed,
     EvidenceInputIsOwn
<1>2. CASE UNCHANGED evidence \/ evidence' = Torn
  BY <1>2 DEF EvidenceInputIsOwn, Whole
<1> QED
  BY <1>1, <1>2, EvidenceUnchanged

(* The stretches in which evidence.json is the run's own. *)
LEMMA EvidenceStands ==
  ASSUME Next, ~WriteEvidence, ~FinishEvidence,
         pc' \in {"map", "verify", "receipt", "finish_receipt"} \/ Settled'
  PROVE  /\ UNCHANGED <<evidence, runs, captured>>
         /\ pc \in {"map", "verify", "receipt", "finish_receipt"} \/ Settled
<1> USE DEF disk, input, Settled
<1>1. CASE DriftSnapshot \/ \E k \in RunIds : ScannerExits(k)
  BY <1>1 DEF DriftSnapshot, ScannerExits
<1>2. CASE MapVerdict \/ Verify \/ WriteReceipt \/ FinishReceipt
  BY <1>2 DEF MapVerdict, Verify, WriteReceipt, FinishReceipt, Fail
<1>3. CASE pc' \notin {"map", "verify", "receipt", "finish_receipt", "exit0", "exit1"}
  BY <1>3
<1> QED
  BY <1>1, <1>2, <1>3
     DEF Next, OwnStep, Judge, Begin, Capture, CaptureFails, CheckBinary,
         CheckVersion, Launch, ScanRaises, ScanReturns, JudgeExit, JudgeOutput,
         JudgeReport, JudgedBy, VerifyFails, Crash, Fail

LEMMA FreshStep ==
  ASSUME TypeOK, Shape, Progress, RecordIsOwn, RetainedReportIsFresh, Next
  PROVE  RetainedReportIsFresh'
<1>1. CASE WriteEvidence
  <2>1. /\ evidence'.execution = execution /\ evidence'.raw_report = rawFile
        /\ execution.invocation_started = TRUE /\ rawFile = runs /\ runs' = runs
    BY <1>1 DEF WriteEvidence, EvidenceRecord, Progress, Accepted, RecordIsComplete,
       Shape, Launched
  <2> QED
    BY <2>1 DEF RetainedReportIsFresh
<1>2. CASE FinishEvidence
  <2>1. /\ evidence'.execution = execution /\ evidence'.raw_report = rawFile
        /\ runs' = runs
    BY <1>2 DEF FinishEvidence, EvidenceRecord
  <2> QED
    BY <1>2, <2>1 DEF FinishEvidence, RecordIsOwn, RetainedReportIsFresh
<1>3. CASE ~WriteEvidence /\ ~FinishEvidence
  BY <1>3, EvidenceStands DEF RetainedReportIsFresh
<1> QED
  BY <1>1, <1>2, <1>3

LEMMA CompleteStep ==
  ASSUME TypeOK, Shape, ScansByRun, Progress, Prepared, RecordIsOwn,
         SettledComplete, Next
  PROVE  SettledComplete'
<1> USE DEF Settled, disk, input
<1>1. CASE WriteReceipt
  <2>1. /\ UNCHANGED <<evidence, runs, scans>> /\ pc' = "exit0"
        /\ scans[runs].read = evidence.sha256
    BY <1>1, Published DEF WriteReceipt
  <2> QED
    BY <2>1 DEF SettledComplete
<1>2. CASE FinishEvidence
  BY <1>2 DEF FinishEvidence, EvidenceRecord, RecordIsOwn, SettledComplete
<1>3. CASE FinishReceipt
  BY <1>3 DEF FinishReceipt, RecordIsOwn, SettledComplete
<1>4. CASE DriftSnapshot
  BY <1>4 DEF DriftSnapshot, SettledComplete
<1>5. CASE \E k \in RunIds : ScannerExits(k)
  <2>1. PICK k \in RunIds : ScannerExits(k)
    BY <1>5
  <2>2. Settled => ~Running(runs)
    BY DEF ScansByRun
  <2>3. Settled => k # runs /\ runs \in RunIds
    BY <2>1, <2>2 DEF ScannerExits, Shape
  <2>4. Settled => scans'[runs] = scans[runs]
    BY <2>1, <2>3 DEF ScannerExits, TypeOK
  <2> QED
    BY <2>1, <2>4 DEF ScannerExits, SettledComplete
<1>6. CASE pc' \notin {"exit0", "exit1"}
  BY <1>6 DEF SettledComplete
<1> QED
  BY <1>1, <1>2, <1>3, <1>4, <1>5, <1>6
     DEF Next, OwnStep, Judge, Begin, Capture, CaptureFails, CheckBinary,
         CheckVersion, Launch, ScanRaises, ScanReturns, JudgeExit, JudgeOutput,
         JudgeReport, JudgedBy, WriteEvidence, MapVerdict, Verify, VerifyFails,
         Crash, Fail

-----------------------------------------------------------------------------
LEMMA InitInvariant == Init => IInv
<1> SUFFICES ASSUME Init
             PROVE  IInv
  OBVIOUS
<1> USE Distinct, MarksAreNoRecords
<1> USE DEF Init, Quiescent, Exposed, Launched, Accepted
<1>1. TypeOK
  BY DEF TypeOK, PCs, Versions, RunIds, RawFiles
<1>2. Shape
  BY DEF Shape, Whole
<1>3. ScansByRun
  BY DEF ScansByRun, Running
<1>4. Progress /\ Prepared
  BY DEF Progress, Prepared
<1>5. ReceiptEarned /\ EvidenceBacksReceipt /\ SettledPair
  BY DEF ReceiptEarned, EvidenceBacksReceipt, SettledPair, Whole
<1>6. RecordIsOwn /\ EvidenceInputIsOwn /\ RetainedReportIsFresh /\ SettledComplete
  BY DEF RecordIsOwn, EvidenceInputIsOwn, RetainedReportIsFresh, SettledComplete,
     Whole, Settled
<1> QED
  BY <1>1, <1>2, <1>3, <1>4, <1>5, <1>6 DEF IInv

LEMMA StutterInvariant == IInv /\ UNCHANGED vars => IInv'
<1> SUFFICES ASSUME IInv, UNCHANGED vars
             PROVE  IInv'
  OBVIOUS
<1> USE DEF vars, disk, input
<1>1. TypeOK' /\ Shape' /\ ScansByRun'
  BY DEF IInv, TypeOK, Shape, ScansByRun, Running, Whole
<1>2. Progress' /\ Prepared'
  BY DEF IInv, Progress, Prepared, stdout
<1>3. ReceiptEarned' /\ EvidenceBacksReceipt' /\ SettledPair'
  BY DEF IInv, ReceiptEarned, EvidenceBacksReceipt, SettledPair, Whole, Decisive, Settled
<1>4. RecordIsOwn' /\ EvidenceInputIsOwn' /\ RetainedReportIsFresh' /\ SettledComplete'
  BY DEF IInv, RecordIsOwn, EvidenceInputIsOwn, RetainedReportIsFresh,
     SettledComplete, Whole, Settled
<1> QED
  BY <1>1, <1>2, <1>3, <1>4 DEF IInv

LEMMA StepInvariant == IInv /\ [Next]_vars => IInv'
<1> SUFFICES ASSUME IInv, [Next]_vars
             PROVE  IInv'
  OBVIOUS
<1>1. CASE Next
  BY <1>1, ShapeStep, ScansStep, ProgressStep, PreparedStep, EarnedStep, BacksStep,
     PairStep, OwnRecordStep, InputOwnStep, FreshStep, CompleteStep DEF IInv
<1>2. CASE UNCHANGED vars
  BY <1>2, StutterInvariant
<1> QED
  BY <1>1, <1>2

(* The inductive invariant, for any number of runs, contents, reports and exit
   codes, whether or not scanners outlive their producer. *)
THEOREM Invariance == Spec => []IInv
BY InitInvariant, StepInvariant, PTL DEF Spec

(* The variables keep their types. *)
THEOREM TypeCorrect == Spec => []TypeOK
<1>1. IInv => TypeOK
  BY DEF IInv
<1> QED
  BY <1>1, Invariance, PTL

(* No run ever publishes a clean or findings receipt that a conclusive scan of
   exactly the bytes it names did not justify, and the raw report the receipt
   binds is that scan's. *)
THEOREM ReceiptsAreEarned == Spec => []ReceiptEarned
<1>1. IInv => ReceiptEarned
  BY DEF IInv
<1> QED
  BY <1>1, Invariance, PTL

(* No receipt says more than the evidence it binds, and the exit code in the
   evidence of a decisive one is its verdict. *)
THEOREM EvidenceBacks == Spec => []EvidenceBacksReceipt
<1>1. IInv => EvidenceBacksReceipt
  BY DEF IInv
<1> QED
  BY <1>1, Invariance, PTL

(* Every run that captured its artifact and returned leaves its own receipt
   beside the evidence that receipt binds. *)
THEOREM SettledPairs == Spec => []SettledPair
<1>1. IInv => SettledPair
  BY DEF IInv
<1> QED
  BY <1>1, Invariance, PTL

(* map_report, which judges the report and its exit code again, never refuses
   what run() has accepted. *)
THEOREM MapperAgrees == Spec => []MappingNeverRefuses
<1>1. IInv => MappingNeverRefuses
  BY AcceptedMaps DEF IInv
<1> QED
  BY <1>1, Invariance, PTL
(* The size in the evidence is that of the bytes whose digest it names, though
   it passes through a variable that outlives the run (_SNAPSHOT_META). *)
THEOREM EvidenceInputs == Spec => []EvidenceInputIsOwn
<1>1. IInv => EvidenceInputIsOwn
  BY DEF IInv
<1> QED
  BY <1>1, Invariance, PTL

(* The report booked as a run's output is that run's, or the empty file its
   exception branch wrote; without a scanner there is none (line 202). *)
THEOREM RetainedReportsAreFresh == Spec => []RetainedReportIsFresh
<1>1. IInv => RetainedReportIsFresh
  BY DEF IInv
<1> QED
  BY <1>1, Invariance, PTL

(* Evidence that says complete, in a directory a run has returned from, is
   that of a decisive run whose scan read the bytes the evidence names: the
   evidence written before the verification is taken back when that fails. *)
THEOREM SettledIsVerified == Spec => []SettledComplete
<1>1. IInv => SettledComplete
  BY DEF IInv
<1> QED
  BY <1>1, Invariance, PTL

-----------------------------------------------------------------------------
(***************************************************************************)
(* That the producer implements EvidencePromise.                           *)
(***************************************************************************)
(* A step that neither ends a scan of the current run conclusively, nor moves
   the run between working, cut and settled, nor writes the receipt. *)
LEMMA Stutter ==
  ASSUME PromisedPhase' = PromisedPhase, PromisedExposure' = PromisedExposure,
         UNCHANGED receipt
  PROVE  UNCHANGED Promise!vars
<1>1. PromisedClaim' = PromisedClaim
  BY DEF PromisedClaim, Whole
<1> QED
  BY <1>1 DEF Promise!vars

LEMMA InconclusiveIsUnexposed ==
  ASSUME NEW scan, ~Conclusive(scan) PROVE Exposure(scan) = None
BY DEF Exposure

LEMMA ExposureType ==
  ASSUME NEW scan \in ScanRecords \union {None}, Conclusive(scan)
  PROVE  Exposure(scan) \in Promise!Exposures /\ Exposure(scan) # None
<1>1. Exposure(scan) = [content |-> scan.read, answer |-> Verdict(scan.report)]
  BY DEF Exposure
<1>2. scan \in ScanRecords
  BY DEF Conclusive
<1>3. scan.read \in Contents /\ Verdict(scan.report) \in Promise!Answers
  BY <1>2 DEF ScanRecords, Verdict, Promise!Answers
<1>4. Exposure(scan) \in Promise!Exposures
  BY <1>1, <1>3 DEF Promise!Exposures
<1>5. Exposure(scan) \in Promise!Claims
  BY <1>1, <1>3 DEF Promise!Claims
<1> QED
  BY <1>4, <1>5, MarksAreNoClaims

(* An exit is that of one scan, of the current run or an earlier one. *)
LEMMA ExitOfOne ==
  ASSUME TypeOK, ScansByRun, NEW k \in RunIds, ScannerExits(k)
  PROVE  /\ runs \in RunIds /\ runs # 0 /\ runs' = runs /\ pc' = pc
         /\ receipt' = receipt /\ Running(k)
         /\ k # runs => scans'[runs] = scans[runs]
<1>1. Running(k) /\ UNCHANGED <<runs, pc, receipt>>
  BY DEF ScannerExits, disk
<1>2. scans[k] # None
  BY <1>1 DEF Running
<1>3. ~(k > runs)
  BY <1>2 DEF ScansByRun
<1>4. runs \in RunIds /\ runs # 0
  BY <1>3, ProducerConstants DEF TypeOK, RunIds
<1>5. scans \in [RunIds -> ScanRecords \union {None}]
  BY DEF TypeOK
<1>6. PICK report \in Reports, exit \in ExitCodes :
        scans' = [scans EXCEPT ![k].report = report, ![k].exit = exit]
  BY DEF ScannerExits
<1>7. k # runs => scans'[runs] = scans[runs]
  BY <1>4, <1>5, <1>6
<1> QED
  BY <1>1, <1>4, <1>7

(* What the current scan exposes changes only when it exits conclusively, or
   with a new run. *)
LEMMA ExposureStays ==
  ASSUME TypeOK, Shape, ScansByRun, Next, runs' = runs,
         runs \in RunIds, Conclusive(scans'[runs]) => Conclusive(scans[runs])
  PROVE  PromisedExposure' = PromisedExposure
<1>1. runs # 0
  BY Distinct DEF RunIds
<1>2. CASE Conclusive(scans[runs])
  BY <1>1, <1>2, ConclusiveIsFinal DEF PromisedExposure
<1>3. CASE ~Conclusive(scans[runs])
  BY <1>1, <1>3, InconclusiveIsUnexposed DEF PromisedExposure
<1> QED
  BY <1>2, <1>3

LEMMA BeginStarts ==
  ASSUME IInv, NEW r \in Refs, Begin(r)
  PROVE  Promise!Start
<1>1. runs' \in RunIds /\ runs' > runs /\ scans' = scans /\ receipt' = receipt
  BY Distinct DEF Begin, IInv, TypeOK, RunIds
<1>2. scans'[runs'] = None
  BY <1>1 DEF IInv, ScansByRun
<1>3. PromisedExposure' = None
  BY <1>1, <1>2 DEF PromisedExposure, Exposure, Conclusive
<1>4. PromisedPhase \in {"settled", "cut"} /\ PromisedPhase' = "working"
  BY DEF Begin, Quiescent, PromisedPhase
<1>5. PromisedClaim' = PromisedClaim
  BY <1>1 DEF PromisedClaim, Whole
<1> QED
  BY <1>3, <1>4, <1>5 DEF Promise!Start

LEMMA ExitExposes ==
  ASSUME IInv, NEW k \in RunIds, ScannerExits(k)
  PROVE  Promise!Expose \/ UNCHANGED Promise!vars
<1>1. /\ UNCHANGED <<receipt, pc, runs>> /\ Running(k) /\ runs # 0
      /\ k # runs => scans'[runs] = scans[runs]
  BY ExitOfOne DEF IInv
<1>2. PromisedPhase' = PromisedPhase /\ PromisedClaim' = PromisedClaim
  BY <1>1 DEF PromisedPhase, PromisedClaim, Whole
<1>3. CASE k # runs \/ ~Conclusive(scans'[k])
  <2>1. PromisedExposure' = PromisedExposure
    <3>1. CASE k # runs
      BY <1>1, <3>1 DEF PromisedExposure, Exposure, Conclusive
    <3>2. CASE k = runs /\ ~Conclusive(scans'[k])
      <4>1. ~Conclusive(scans[runs]) /\ ~Conclusive(scans'[runs'])
        BY <1>1, <3>2, Distinct DEF Running, Conclusive
      <4> QED
        BY <1>1, <3>2, <4>1 DEF PromisedExposure, Exposure
    <3> QED
      BY <1>3, <3>1, <3>2
  <2> QED
    BY <1>2, <2>1 DEF Promise!vars
<1>4. CASE k = runs /\ Conclusive(scans'[k])
  <2>1. ~Conclusive(scans[k])
    BY <1>1, Distinct DEF Running, Conclusive
  <2>2. PromisedExposure = None
    BY <1>4, <2>1, InconclusiveIsUnexposed DEF PromisedExposure
  <2>3. PromisedExposure' \in Promise!Exposures
    <3>1. scans'[k] \in ScanRecords \union {None}
      BY ShapeStep DEF IInv, TypeOK, Next
    <3>2. PromisedExposure' = Exposure(scans'[k])
      BY <1>1, <1>4 DEF PromisedExposure
    <3> QED
      BY <1>4, <3>1, <3>2, ExposureType
  <2>4. PromisedPhase \in {"working", "cut"}
    BY <1>1, <1>4 DEF PromisedPhase, IInv, ScansByRun, Shape
  <2> QED
    BY <1>2, <2>2, <2>3, <2>4 DEF Promise!Expose
<1> QED
  BY <1>3, <1>4

LEMMA ReceiptConcludes ==
  ASSUME IInv, Next, WriteReceipt
  PROVE  Promise!Conclude
<1>1. /\ receipt' = draft /\ draft \in Receipts /\ pc = "receipt" /\ pc' = "exit0"
      /\ UNCHANGED <<scans, runs>> /\ runs \in RunIds /\ Conclusive(scans[runs])
      /\ draft.verdict = Verdict(scans[runs].report)
      /\ draft.scanned_artifact_digest = captured
      /\ scans[runs].read = captured
      /\ scans[runs] \in ScanRecords \union {None}
  <2>1. pc = "receipt" /\ UNCHANGED <<scans, runs>>
    BY DEF WriteReceipt
  <2>2. runs \in RunIds /\ scans \in [RunIds -> ScanRecords \union {None}]
    BY <2>1 DEF IInv, TypeOK, Shape, Quiescent
  <2> QED
    BY <2>1, <2>2, Published DEF IInv
<1>2. runs # 0
  BY <1>1 DEF RunIds
<1>3. PromisedExposure = [content |-> draft.scanned_artifact_digest,
                          answer |-> draft.verdict]
  BY <1>1, <1>2 DEF PromisedExposure, Exposure
<1>4. PromisedClaim' = PromisedExposure
  BY <1>1, <1>3, MarksAreNoRecords DEF PromisedClaim, Whole
<1>5. PromisedExposure # None /\ PromisedExposure' = PromisedExposure
  BY <1>1, <1>2, ExposureType DEF PromisedExposure
<1>6. PromisedPhase = "working" /\ PromisedPhase' = "settled"
  BY <1>1 DEF PromisedPhase
<1> QED
  BY <1>4, <1>5, <1>6 DEF Promise!Conclude

LEMMA ReceiptDeclines ==
  ASSUME IInv, Next, FinishReceipt
  PROVE  Promise!Decline
<1>1. /\ receipt' = InconclusiveReceipt(ref, captured, version, Sha256(evidence))
      /\ evidence \in EvidenceRecords /\ ref \in Refs
      /\ captured \in Contents /\ version \in Versions
      /\ pc = "finish_receipt" /\ pc' = "exit1" /\ UNCHANGED <<scans, runs>>
  BY DEF FinishReceipt, IInv, TypeOK, Shape, Whole, Exposed, Quiescent
<1>2. receipt' \in Receipts
  BY <1>1 DEF InconclusiveReceipt, Receipt, Receipts, Sha256
<1>3. PromisedClaim' = [content |-> captured, answer |-> "inconclusive"]
  BY <1>1, <1>2, MarksAreNoRecords
     DEF PromisedClaim, Whole, InconclusiveReceipt, Receipt
<1>4. PromisedClaim' \in [content : Contents, answer : {"inconclusive"}]
  BY <1>1, <1>3
<1>5. PromisedExposure' = PromisedExposure
  BY <1>1 DEF PromisedExposure
<1>6. PromisedPhase = "working" /\ PromisedPhase' = "settled"
  BY <1>1 DEF PromisedPhase
<1> QED
  BY <1>4, <1>5, <1>6 DEF Promise!Decline

LEMMA EvidenceAloneWithholds ==
  ASSUME FinishEvidence
  PROVE  Promise!Withhold \/ UNCHANGED Promise!vars
<1>1. /\ UNCHANGED <<receipt, scans, runs>> /\ pc = "finish"
      /\ pc' \in {"exit1", "finish_receipt"}
  BY DEF FinishEvidence
<1>2. PromisedClaim' = PromisedClaim /\ PromisedExposure' = PromisedExposure
  BY <1>1 DEF PromisedClaim, PromisedExposure, Whole
<1>3. PromisedPhase = "working" /\ PromisedPhase' \in {"working", "settled"}
  BY <1>1 DEF PromisedPhase
<1> QED
  BY <1>2, <1>3 DEF Promise!Withhold, Promise!vars

LEMMA CrashCuts ==
  ASSUME IInv, Next, Crash
  PROVE  Promise!Cut
<1> USE Distinct, MarksAreNoRecords
<1>1. pc \in PCs /\ pc \notin Quiescent /\ pc' = "crashed" /\ runs' = runs
  BY DEF Crash, IInv, TypeOK
<1>2. runs \in RunIds
  BY <1>1 DEF IInv, Shape, Quiescent
<1>3. PromisedPhase = "working" /\ PromisedPhase' = "cut"
  BY <1>1 DEF PromisedPhase, Quiescent
<1>4. Conclusive(scans'[runs]) => Conclusive(scans[runs])
  <2>1. CASE UNCHANGED scans
    BY <2>1
  <2>2. CASE Running(runs) /\ scans' = [scans EXCEPT ![runs].exit = Killed]
    <3>1. scans[runs] \in ScanRecords
      BY <1>2, <2>2 DEF IInv, TypeOK, Running
    <3>2. scans'[runs] = [scans[runs] EXCEPT !.exit = Killed]
      BY <1>2, <2>2 DEF IInv, TypeOK
    <3>3. scans'[runs].exit = Killed
      BY <3>1, <3>2 DEF ScanRecords
    <3> QED
      BY <3>3 DEF Conclusive, Killed
  <2> QED
    BY <2>1, <2>2 DEF Crash
<1>5. PromisedExposure' = PromisedExposure
  BY <1>1, <1>2, <1>4, ExposureStays DEF IInv
<1>6. receipt' = receipt \/ receipt' = Torn
  BY DEF Crash
<1>7. PromisedClaim' \in {PromisedClaim, Torn}
  BY <1>6 DEF PromisedClaim, Whole
<1> QED
  BY <1>3, <1>5, <1>7 DEF Promise!Cut

(* A step inside a run, of which a reader of the directory sees nothing. *)
LEMMA WorkIsSilent ==
  ASSUME IInv, Next, pc \notin Quiescent, pc' \notin Quiescent, runs' = runs,
         receipt' = receipt,
         Conclusive(scans'[runs]) => Conclusive(scans[runs])
  PROVE  UNCHANGED Promise!vars
<1>1. runs \in RunIds
  BY DEF IInv, Shape, Quiescent
<1>2. PromisedExposure' = PromisedExposure
  BY <1>1, ExposureStays DEF IInv
<1>3. PromisedPhase' = PromisedPhase
  BY DEF PromisedPhase, Quiescent
<1> QED
  BY <1>2, <1>3, Stutter

LEMMA PromiseInit == Init => Promise!Init
BY DEF Init, Promise!Init, PromisedPhase, PromisedExposure, PromisedClaim, Whole

(* A step of the producer is a step of the promise, or none. *)
LEMMA Simulation ==
  ASSUME IInv, Next
  PROVE  Promise!Next \/ UNCHANGED Promise!vars
<1> USE DEF disk, input
<1>1. ASSUME NEW r \in Refs, Begin(r)
      PROVE  Promise!Next
  BY <1>1, BeginStarts DEF Promise!Next
<1>2. CASE DriftSnapshot
  <2>1. UNCHANGED <<receipt, scans, runs, pc>>
    BY <1>2 DEF DriftSnapshot
  <2>2. PromisedPhase' = PromisedPhase /\ PromisedExposure' = PromisedExposure
    BY <2>1 DEF PromisedPhase, PromisedExposure
  <2> QED
    BY <2>1, <2>2, Stutter
<1>3. ASSUME NEW k \in RunIds, ScannerExits(k)
      PROVE  Promise!Next \/ UNCHANGED Promise!vars
  BY <1>3, ExitExposes DEF Promise!Next
<1>4. CASE WriteReceipt
  BY <1>4, ReceiptConcludes DEF Promise!Next
<1>5. CASE FinishReceipt
  BY <1>5, ReceiptDeclines DEF Promise!Next
<1>6. CASE FinishEvidence
  BY <1>6, EvidenceAloneWithholds DEF Promise!Next
<1>7. CASE Crash
  BY <1>7, CrashCuts DEF Promise!Next
<1>8. CASE Launch
  <2>1. /\ pc = "launch" /\ pc' = "scan" /\ UNCHANGED <<receipt, runs>>
        /\ runs \in RunIds /\ scans \in [RunIds -> ScanRecords \union {None}]
    BY <1>8 DEF Launch, IInv, TypeOK, Shape
  <2>2. scans'[runs] = [read |-> snapshot, report |-> None, exit |-> None]
    BY <1>8, <2>1 DEF Launch
  <2>3. ~Conclusive(scans'[runs])
    BY <2>2 DEF Conclusive
  <2> QED
    BY <2>1, <2>3, WorkIsSilent DEF Quiescent
<1>9. CASE ScanRaises
  <2>1. /\ pc \notin Quiescent /\ pc' \notin Quiescent
        /\ UNCHANGED <<receipt, runs>> /\ runs \in RunIds
        /\ scans \in [RunIds -> ScanRecords \union {None}]
    BY <1>9 DEF ScanRaises, Fail, IInv, TypeOK, Shape, Quiescent
  <2>2. \/ scans' = scans
        \/ scans[runs] \in ScanRecords
           /\ scans'[runs] = [scans[runs] EXCEPT !.exit = Killed]
    BY <1>9, <2>1 DEF ScanRaises, Running
  <2>3. Conclusive(scans'[runs]) => Conclusive(scans[runs])
    <3>1. CASE scans' = scans
      BY <3>1
    <3>2. CASE scans[runs] \in ScanRecords
               /\ scans'[runs] = [scans[runs] EXCEPT !.exit = Killed]
      <4>1. scans'[runs].exit = Killed
        BY <3>2 DEF ScanRecords
      <4> QED
        BY <4>1, Distinct DEF Conclusive
    <3> QED
      BY <2>2, <3>1, <3>2
  <2> QED
    BY <2>1, <2>3, WorkIsSilent
<1>10. CASE Capture \/ CaptureFails \/ CheckBinary \/ CheckVersion
  <2>1. /\ pc \notin Quiescent /\ pc' \notin Quiescent
        /\ UNCHANGED <<receipt, runs, scans>>
    BY <1>10 DEF Capture, CaptureFails, CheckBinary, CheckVersion, Fail, Quiescent
  <2> QED
    BY <2>1, WorkIsSilent
<1>11. CASE \/ ScanReturns \/ Judge \/ WriteEvidence \/ MapVerdict \/ Verify
            \/ VerifyFails
  <2>1. /\ pc \notin Quiescent /\ pc' \notin Quiescent
        /\ UNCHANGED <<receipt, runs, scans>>
    BY <1>11 DEF ScanReturns, Judge, JudgeExit, JudgeOutput, JudgeReport,
         JudgedBy, WriteEvidence, MapVerdict, Verify, VerifyFails,
         Fail, Quiescent
  <2> QED
    BY <2>1, WorkIsSilent
<1> QED
  BY <1>1, <1>2, <1>3, <1>4, <1>5, <1>6, <1>7, <1>8, <1>9, <1>10, <1>11
     DEF Next, OwnStep

LEMMA StutterPromise == UNCHANGED vars => UNCHANGED Promise!vars
<1> SUFFICES ASSUME UNCHANGED vars
             PROVE  UNCHANGED Promise!vars
  OBVIOUS
<1>1. UNCHANGED <<receipt, scans, runs, pc>>
  BY DEF vars, disk
<1>2. PromisedPhase' = PromisedPhase /\ PromisedExposure' = PromisedExposure
  BY <1>1 DEF PromisedPhase, PromisedExposure
<1> QED
  BY <1>1, <1>2, Stutter

(* The producer keeps the promise of EvidencePromise: every run, whatever its
   scanner, its files or the copy do, concludes with the answer its own scanner
   gave about the bytes it names, declines, withholds, or is cut short. *)
THEOREM ImplementsPromise == Spec => KeepsPromise
<1>1. IInv /\ [Next]_vars => [Promise!Next]_(Promise!vars)
  BY Simulation, StutterPromise
<1> QED
  BY <1>1, PromiseInit, Invariance, PTL DEF Spec, KeepsPromise, Promise!Spec
=============================================================================
