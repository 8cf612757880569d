--------------------------- MODULE OciProducerProofs ---------------------------
(***************************************************************************)
(* Proofs about the OCI producer, for any images, documents, reports, exit *)
(* codes, database updates and number of runs.                             *)
(***************************************************************************)
EXTENDS OciProducerProperties, ScannerExecutionProofs

-----------------------------------------------------------------------------
(***************************************************************************)
(* The constants, and the directory.                                       *)
(***************************************************************************)
LEMMA Distinct ==
  /\ None \notin Requested /\ None \notin Reports /\ None \notin Bodies
  /\ None \notin Digests /\ None \notin RunIds /\ None # Torn
  /\ Torn \notin RunIds /\ Torn \notin Bodies
  /\ Killed \in Int /\ Killed # 0 /\ Killed # None
  /\ \A e \in ExitCodes : e \in Int /\ e # None
  /\ 0 # None /\ RunIds \subseteq Int /\ MaxRuns \in Nat /\ MaxUpdates \in Nat
  /\ Requested \subseteq References /\ Wishes \subseteq Platforms
  /\ Reports \subseteq ReportSpace
BY NoneIsNoValue, ProducerConstants, MarksAreNoRecords DEF RunIds, Killed

LEMMA StaleOrder ==
  /\ Len(StaleNames) = 7
  /\ StaleNames[1] = "receipt" /\ StaleNames[2] = "evidence"
  /\ StaleNames[3] = "error" /\ StaleNames[4] = "identity"
  /\ StaleNames[5] = "index" /\ StaleNames[6] = "manifest" /\ StaleNames[7] = "raw"
  /\ \A i \in 1..7 : StaleNames[i] \in Files
BY DEF StaleNames, Files

LEMMA DigestNames == \A d \in Digests : d.sha256 \in Bodies /\ Sha256(d.sha256) = d
BY DEF Digests, Sha256

LEMMA RootNames ==
  ASSUME NEW r \in References, NEW p, NEW i \in Resolutions(r, p),
         r.kind = "digest"
  PROVE  /\ i \in Identities /\ Chain(i, r, p) /\ i # None
         /\ i.root_digest = r.digest /\ i.root_digest \in Digests
         /\ i.manifest_digest \in Digests
BY MarksAreNoRecords DEF Resolutions, Chain, Identities

LEMMA Writes ==
  ASSUME DOMAIN dir = Files, NEW name \in Files, NEW x, Write(name, x)
  PROVE  /\ DOMAIN dir' = Files /\ dir'[name] = File(x)
         /\ dir'[name].by = runs /\ dir'[name].holds = x
         /\ \A n \in Files : n # name => dir'[n] = dir[n]
BY DEF Write, File

LEMMA Removes ==
  ASSUME DOMAIN dir = Files, NEW name \in Files, Remove(name)
  PROVE  /\ DOMAIN dir' = Files /\ dir'[name] = None
         /\ \A n \in Files : n # name => dir'[n] = dir[n]
BY DEF Remove

LEMMA Holding ==
  ASSUME NEW name \in Files
  PROVE  Holdings(name) \subseteq Receipts \union EvidenceRecords \union Errors
           \union Identities \union Bodies \union RunIds
BY DEF Holdings, Files

LEMMA FileIsThere ==
  ASSUME runs \in RunIds, NEW name \in Files, NEW x \in Holdings(name) \union {Torn}
  PROVE  File(x) # None
BY Holding, MarksAreNoRecords DEF File

LEMMA WriteTyped ==
  ASSUME DirectoryTyped, runs \in RunIds, NEW name \in Files \ {"raw"},
         NEW x \in Holdings(name) \union {Torn}, Write(name, x)
  PROVE  DirectoryTyped' /\ dir'[name] # None
<1>1. /\ DOMAIN dir' = Files /\ dir'[name] = File(x)
      /\ \A n \in Files : n # name => dir'[n] = dir[n]
  BY Writes DEF DirectoryTyped
<1>2. File(x) # None
  BY FileIsThere
<1>3. "raw" \in Files
  BY DEF Files
<1>4. \A n : Holdings(n)' = Holdings(n)
  BY DEF Holdings
<1> QED
  BY <1>1, <1>2, <1>3, <1>4 DEF DirectoryTyped, File

LEMMA RemoveTyped ==
  ASSUME DirectoryTyped, NEW name \in Files, Remove(name)
  PROVE  DirectoryTyped'
<1>1. /\ DOMAIN dir' = Files /\ dir'[name] = None
      /\ \A n \in Files : n # name => dir'[n] = dir[n]
  BY Removes DEF DirectoryTyped
<1>2. "raw" \in Files
  BY DEF Files
<1>3. \A n : Holdings(n)' = Holdings(n)
  BY DEF Holdings
<1> QED
  BY <1>1, <1>2, <1>3 DEF DirectoryTyped

-----------------------------------------------------------------------------
(***************************************************************************)
(* The execution records of run() are well typed.                          *)
(***************************************************************************)
LEMMA WordsCover ==
  /\ OciComponents \in SUBSET Words /\ OciContract \in Words
  /\ {"scanner_process"} \in SUBSET Words /\ {"scanner_output"} \in SUBSET Words
  /\ {"result_sections"} \in SUBSET Words
BY DEF Words, OciComponents

LEMMA SizeType == ASSUME NEW k PROVE SizeOf(k) \in Int \union {None}
BY Distinct DEF SizeOf

LEMMA ErrorComponent ==
  ASSUME NEW error PROVE {ComponentForError(error, "trivy")} \in SUBSET Words
BY DEF ComponentForError, Words, OciComponents

LEMMA ValidateReportType ==
  ASSUME NEW report \in ReportSpace, NEW bound, NEW version, NEW c
  PROVE  ValidateReport(report, bound, version, c) \in Words \union {""}
BY DEF ValidateReport, ReportSpace, Words, SectionDefects, MalformedReport

LEMMA ExitCodeType ==
  ASSUME TypeOK, runs \in RunIds PROVE exit_code \in Int \union {None}
BY Distinct DEF TypeOK, ScanRecords, exit_code

LEMMA ObservedType ==
  ASSUME exit_code \in Int \union {None} PROVE Observed \in Facts(Words)
BY WordsCover, SizeType DEF Observed, Facts

LEMMA ProcessFailureType ==
  ASSUME exit_code \in Int \union {None}
  PROVE  ProcessFailure \in Executions(Words)
<1>1. "scanner_process_failed" \in Words
  BY DEF Words
<1>2. ASSUME NEW exists \in BOOLEAN, NEW size \in Int \union {None}
      PROVE  [Observed EXCEPT
                !.process_completed = FALSE, !.exit_code = None,
                !.exit_state_valid = FALSE, !.output_present = FALSE,
                !.output_parseable = FALSE, !.output_exists = exists,
                !.output_size = size, !.failed_components = {"scanner_process"},
                !.result_semantics_consistent = None,
                !.completeness_reason = "scanner_process_failed",
                !.fatal_failure = TRUE] \in Facts(Words)
  BY <1>1, ObservedType, WordsCover DEF Facts
<1>3. (RawReport # None) \in BOOLEAN /\ SizeOf(RawReport) \in Int \union {None}
  BY SizeType
<1> QED
  BY <1>2, <1>3, ExecutionType DEF ProcessFailure

LEMMA OutputFacts ==
  RawExists \in BOOLEAN /\ RawPresent \in BOOLEAN /\ RawParseable \in BOOLEAN
BY DEF RawExists, RawPresent, RawParseable

LEMMA ExitFailureType ==
  ASSUME exit_code \in Int \union {None}
  PROVE  ExitFailure \in Executions(Words)
<1>1. "scanner_exit_state_invalid" \in Words
  BY DEF Words
<1>2. ASSUME NEW p \in BOOLEAN, NEW q \in BOOLEAN, NEW r \in BOOLEAN
      PROVE  [Observed EXCEPT
                !.exit_state_valid = FALSE, !.output_present = p,
                !.output_parseable = q, !.output_exists = r,
                !.failed_components = {"scanner_process"},
                !.result_semantics_consistent = None,
                !.completeness_reason = "scanner_exit_state_invalid",
                !.fatal_failure = TRUE] \in Facts(Words)
  BY <1>1, ObservedType, WordsCover DEF Facts
<1> QED
  BY <1>2, OutputFacts, ExecutionType DEF ExitFailure

LEMMA OutputFailureType ==
  ASSUME exit_code \in Int \union {None}, OutputReason # ""
  PROVE  OutputFailure \in Executions(Words)
<1>1. OutputReason \in Words
  BY DEF OutputReason, Words
<1>2. ASSUME NEW p \in BOOLEAN, NEW q \in BOOLEAN, NEW r \in BOOLEAN,
             NEW failed \in SUBSET Words, NEW reason \in Words
      PROVE  [Observed EXCEPT
                !.output_present = p, !.output_parseable = q, !.output_exists = r,
                !.failed_components = failed, !.result_semantics_consistent = None,
                !.completeness_reason = reason] \in Facts(Words)
  BY ObservedType DEF Facts
<1> DEFINE failed == IF RawParseable THEN {"result_sections"} ELSE {"scanner_output"}
<1>3. failed \in SUBSET Words
  BY WordsCover
<1> HIDE DEF failed
<1>4. [Observed EXCEPT
         !.output_present = RawPresent, !.output_parseable = RawParseable,
         !.output_exists = RawExists, !.failed_components = failed,
         !.result_semantics_consistent = None,
         !.completeness_reason = OutputReason] \in Facts(Words)
  BY <1>1, <1>2, <1>3, OutputFacts
<1> QED
  BY <1>4, ExecutionType DEF OutputFailure, failed

LEMMA RejectedType ==
  ASSUME exit_code \in Int \union {None}, NEW error \in Words
  PROVE  RejectedExecution(error) \in Executions(Words)
BY ErrorComponent, ObservedType, ExecutionType DEF RejectedExecution, Facts

LEMMA CompleteType ==
  ASSUME exit_code \in Int \union {None}
  PROVE  CompleteExecution \in Executions(Words)
BY WordsCover, ObservedType, ExecutionType DEF CompleteExecution, Facts

(* evidence.json is of its type wherever it is written. *)
LEMMA EvidenceType ==
  ASSUME TypeOK, Shape, DocumentsStored, pc \in {"evidence", "finish"}
  PROVE  EvidenceRecord \in EvidenceRecords
<1> USE Distinct DEF Stored, Launched, Resolved, Accepted, Quiescent
<1>1. /\ image \in References /\ image.kind = "digest"
      /\ resolved \in Resolutions(image, wish)
      /\ execution \in Executions(Words) /\ database \in 0..MaxUpdates
  BY DEF TypeOK, Shape
<1>2. /\ resolved \in Identities /\ resolved.manifest_digest \in Digests
      /\ resolved.root_digest \in Digests /\ resolved.platform \in Platforms
  BY <1>1, RootNames DEF Identities
<1>3. /\ dir["identity"].holds = resolved
      /\ dir["manifest"].holds = resolved.manifest_digest.sha256
      /\ dir["manifest"].holds \in Bodies
      /\ dir["index"] # None => dir["index"].holds \in Bodies
  BY <1>2, DigestNames DEF DocumentsStored, Holds
<1>4. RawReport \in RunIds \union {None}
  BY DEF RawReport, TypeOK, DirectoryTyped, Files, Holdings
<1> QED
  BY <1>1, <1>2, <1>3, <1>4 DEF EvidenceRecord, EvidenceRecords, Sha256, Digests

-----------------------------------------------------------------------------
(***************************************************************************)
(* Every step keeps the directory and the variables typed and in shape.    *)
(***************************************************************************)
LEMMA DirectoryFrame == DirectoryTyped /\ UNCHANGED dir => DirectoryTyped'
BY DEF DirectoryTyped, Holdings

(* What a step of a run may rely on. *)
LEMMA AtWork ==
  ASSUME TypeOK, Shape, pc \in Working \union {"clean"}
  PROVE  /\ runs \in RunIds /\ image \in Requested /\ image \in References
         /\ wish \in Wishes
         /\ pc \in Resolved \union Stored =>
              /\ image.kind = "digest" /\ resolved \in Resolutions(image, wish)
              /\ resolved \in Identities /\ resolved # None
              /\ resolved.manifest_digest \in Digests
              /\ resolved.root_digest \in Digests
              /\ resolved.root_digest = image.digest
BY Distinct, RootNames
   DEF Shape, Working, Stored, Launched, Resolved, PCs, Quiescent

LEMMA ReceiptType ==
  ASSUME NEW d \in Digests, NEW e \in EvidenceRecords,
         NEW v \in {"clean", "findings", "inconclusive"}
  PROVE  Receipt(d, "pinned", v, Sha256(e)) \in Receipts
BY DEF Receipt, Receipts, Sha256

LEMMA DraftType ==
  ASSUME TypeOK, Shape, Prepared, pc \in {"map", "receipt", "finish_receipt"}
  PROVE  /\ dir["evidence"].holds \in EvidenceRecords
         /\ MapReport(raw, resolved.manifest_digest, "pinned",
                      Sha256(dir["evidence"].holds)) \in Receipts
         /\ InconclusiveReceipt(resolved.manifest_digest, "pinned",
                      Sha256(dir["evidence"].holds)) \in Receipts
<1>1. resolved.manifest_digest \in Digests
  BY AtWork DEF Working, Stored, Launched, PCs, Quiescent
<1>2. dir["evidence"].holds \in EvidenceRecords
  BY DEF Prepared, Whole, TypeOK, DirectoryTyped, Files, Holdings
<1>3. Verdict(raw) \in {"clean", "findings", "inconclusive"}
  BY DEF Verdict
<1> QED
  BY <1>1, <1>2, <1>3, ReceiptType DEF MapReport, InconclusiveReceipt

LEMMA DirectoryStep ==
  ASSUME TypeOK, Shape, ScansByRun, DocumentsStored, Prepared, Next
  PROVE  DirectoryTyped'
<1> USE DEF world, local, arguments
<1>0. DirectoryTyped
  BY DEF TypeOK
<1>1. CASE UNCHANGED dir
  BY <1>0, <1>1, DirectoryFrame
<1>2. CASE Unlink
  <2>1. cleaned + 1 \in 1..7
    <3>1. cleaned \in 0..Len(StaleNames) /\ cleaned < Len(StaleNames)
      BY <1>2 DEF Unlink, Shape, TypeOK
    <3> QED
      BY <3>1, StaleOrder
  <2> QED
    BY <1>0, <1>2, <2>1, StaleOrder, RemoveTyped DEF Unlink
<1>3. ASSUME NEW name \in Files \ {"raw"}, NEW x \in Holdings(name) \union {Torn},
             Write(name, x), pc \in Working
      PROVE  DirectoryTyped'
  BY <1>0, <1>3, AtWork, WriteTyped
<1>4. CASE WriteIdentity \/ WriteManifest \/ WriteIndex
  <2>1. pc \in Working /\ pc \in Resolved
    BY <1>4 DEF WriteIdentity, WriteManifest, WriteIndex, Working, PCs, Quiescent,
         Resolved, Launched
  <2>2. /\ resolved \in Identities /\ resolved.manifest_digest.sha256 \in Bodies
        /\ resolved.root_digest.sha256 \in Bodies
    BY <2>1, AtWork, DigestNames
  <2>3. CASE WriteIdentity
    BY <1>3, <2>1, <2>2, <2>3 DEF WriteIdentity, Holdings, Files
  <2>4. CASE WriteManifest
    BY <1>3, <2>1, <2>2, <2>4 DEF WriteManifest, Holdings, Files
  <2>5. CASE WriteIndex
    BY <1>0, <1>3, <2>1, <2>2, <2>5, RemoveTyped DEF WriteIndex, Holdings, Files
  <2> QED
    BY <1>4, <2>3, <2>4, <2>5
<1>5. CASE CheckManifest
  BY <1>0, <1>1, <1>5, RemoveTyped DEF CheckManifest, Files
<1>6. CASE WriteEvidence \/ FinishEvidence
  <2>1. pc \in Working /\ pc \in {"evidence", "finish"}
    BY <1>6 DEF WriteEvidence, FinishEvidence, Working, PCs, Quiescent, Launched
  <2>2. EvidenceRecord \in Holdings("evidence") /\ "evidence" \in Files \ {"raw"}
    BY <2>1, EvidenceType DEF Holdings, Files
  <2> QED
    BY <1>3, <1>6, <2>1, <2>2 DEF WriteEvidence, FinishEvidence
<1>7. CASE WriteReceipt
  <2>1. pc \in Working /\ draft \in Holdings("receipt") /\ "receipt" \in Files \ {"raw"}
    BY <1>7 DEF WriteReceipt, Working, PCs, Quiescent, Launched, TypeOK, Shape,
         Holdings, Files
  <2> QED
    BY <1>3, <1>7, <2>1 DEF WriteReceipt
<1>8. CASE FinishReceipt
  <2>1. /\ pc = "finish_receipt" /\ pc \in Working /\ "receipt" \in Files \ {"raw"}
    BY <1>8 DEF FinishReceipt, Working, PCs, Quiescent, Files
  <2>2. InconclusiveReceipt(resolved.manifest_digest, "pinned",
                            Sha256(dir["evidence"].holds)) \in Holdings("receipt")
    BY <2>1, DraftType DEF Holdings
  <2> QED
    BY <1>3, <1>8, <2>1, <2>2 DEF FinishReceipt
<1>9. CASE WriteError
  <2>1. pc \in Working /\ code \in Holdings("error") /\ "error" \in Files \ {"raw"}
    BY <1>9 DEF WriteError, Working, PCs, Quiescent, TypeOK, Shape, Holdings, Files
  <2> QED
    BY <1>3, <1>9, <2>1 DEF WriteError
<1>10. CASE Crash
  <2>1. CASE \E name \in Written : Write(name, Torn)
    <3>1. Written \subseteq Files \ {"raw"} /\ (Written # {} => pc \in Working)
      BY DEF Written, Files, Working, PCs, Quiescent, Resolved, Launched
    <3> QED
      BY <1>3, <2>1, <3>1
  <2> QED
    BY <1>1, <1>10, <2>1 DEF Crash
<1>11. CASE SpoilManifest
  BY <1>3, <1>11 DEF SpoilManifest, Holdings, Files, Working, PCs, Quiescent, Resolved
<1>12. CASE \E k \in RunIds : ScannerExits(k)
  <2> PICK k \in RunIds :
        UNCHANGED dir \/ dir' = [dir EXCEPT !["raw"] = [by |-> k, holds |-> k]]
    BY <1>12 DEF ScannerExits
  <2>1. [by |-> k, holds |-> k] # None
    BY MarksAreNoRecords
  <2>2. CASE dir' = [dir EXCEPT !["raw"] = [by |-> k, holds |-> k]]
    BY <1>0, <2>1, <2>2, Distinct DEF DirectoryTyped, Holdings, Files
  <2> QED
    BY <1>1, <2>2
<1>13. CASE \E r \in Requested, p \in Wishes : Begin(r, p)
  BY <1>1, <1>13 DEF Begin
<1>14. CASE CheckReference \/ CheckBinary \/ CheckVersion \/ ResolveImage \/ Launch
  BY <1>1, <1>14 DEF CheckReference, CheckBinary, CheckVersion, ResolveImage, Launch
<1>15. CASE ScanReturns \/ ScanRaises \/ Judge \/ MapVerdict \/ UpdateDatabase
  BY <1>1, <1>15 DEF ScanReturns, ScanRaises, Judge, JudgeExit, JudgeOutput,
       JudgeReport, JudgedBy, MapVerdict, UpdateDatabase
<1> QED
  BY <1>2, <1>4, <1>5, <1>6, <1>7, <1>8, <1>9, <1>10, <1>11, <1>12, <1>13, <1>14,
     <1>15 DEF Next, OwnStep

LEMMA ScansTyped ==
  ASSUME TypeOK, Shape, Next
  PROVE  scans' \in [RunIds -> ScanRecords \union {None}]
<1> USE DEF world, local, arguments
<1>0. scans \in [RunIds -> ScanRecords \union {None}]
  BY DEF TypeOK
<1>1. CASE UNCHANGED scans
  BY <1>0, <1>1
<1>2. CASE Launch
  <2>1. resolved.manifest_digest \in Digests /\ database \in 0..MaxUpdates
    BY <1>2, AtWork DEF Launch, TypeOK, Working, PCs, Quiescent, Stored
  <2> QED
    BY <1>0, <1>2, <2>1 DEF Launch, ScanRecords
<1>3. CASE scans' = [scans EXCEPT ![runs].exit = Killed] /\ Running(runs)
  <2>1. CASE runs \in RunIds
    <3>1. scans[runs] \in ScanRecords
      BY <1>0, <1>3, <2>1 DEF Running
    <3>2. [scans[runs] EXCEPT !.exit = Killed] \in ScanRecords
      BY <3>1 DEF ScanRecords
    <3> QED
      BY <1>0, <1>3, <3>2
  <2>2. CASE runs \notin RunIds
    BY <1>0, <1>3, <2>2
  <2> QED
    BY <2>1, <2>2
<1>4. CASE \E k \in RunIds : ScannerExits(k)
  <2> PICK k \in RunIds, report \in Reports \union {None}, exit \in ExitCodes :
        Running(k) /\ scans' = [scans EXCEPT ![k].report = report, ![k].exit = exit]
    BY <1>4 DEF ScannerExits
  <2>1. scans[k] \in ScanRecords
    BY <1>0 DEF Running
  <2> QED
    BY <1>0, <2>1 DEF ScanRecords
<1>5. CASE ScanRaises \/ Crash
  BY <1>1, <1>3, <1>5 DEF ScanRaises, Crash
<1>6. CASE (\E r \in Requested, p \in Wishes : Begin(r, p)) \/ Unlink
  BY <1>1, <1>6 DEF Begin, Unlink
<1>7. CASE CheckReference \/ CheckBinary \/ CheckVersion \/ ResolveImage
  <2>1. CheckReference => image.kind \in {"malformed", "tag", "digest"}
    BY AtWork DEF CheckReference, References, Working, PCs, Quiescent
  <2> QED
    BY <1>1, <1>7, <2>1 DEF CheckReference, CheckBinary, CheckVersion, ResolveImage,
         Fail, Advance
<1>8. CASE WriteIdentity \/ WriteManifest \/ WriteIndex \/ CheckManifest
  BY <1>1, <1>8 DEF WriteIdentity, WriteManifest, WriteIndex, CheckManifest, Fail, Advance
<1>9. CASE ScanReturns \/ Judge \/ MapVerdict
  BY <1>1, <1>9 DEF ScanReturns, Judge, JudgeExit, JudgeOutput, JudgeReport,
       JudgedBy, MapVerdict
<1>10. CASE WriteEvidence \/ WriteReceipt \/ WriteError \/ FinishEvidence \/ FinishReceipt
  BY <1>1, <1>10 DEF WriteEvidence, WriteReceipt, WriteError, FinishEvidence,
       FinishReceipt, Advance
<1>11. CASE UpdateDatabase \/ SpoilManifest
  BY <1>1, <1>11 DEF UpdateDatabase, SpoilManifest
<1> QED
  BY <1>2, <1>4, <1>5, <1>6, <1>7, <1>8, <1>9, <1>10, <1>11 DEF Next, OwnStep

(* A run that was heard out and judged is judged on a report there is. *)
LEMMA JudgedReport ==
  ASSUME TypeOK, ScansByRun, judged # None
  PROVE  judged \in RunIds /\ raw \in ReportSpace
BY Distinct DEF TypeOK, ScansByRun, ScanRecords, raw

LEMMA Numbers ==
  /\ 0 \notin RunIds /\ \A k \in RunIds : k > 0
  /\ \A n \in 0..MaxRuns : n < MaxRuns => n + 1 \in RunIds /\ n + 1 \in 0..MaxRuns
  /\ \A n \in 0..MaxUpdates : n < MaxUpdates => n + 1 \in 0..MaxUpdates
  /\ 0 \in 0..MaxRuns /\ 0 \in 0..MaxUpdates /\ 0 \in 0..7
<1>1. MaxRuns \in Nat /\ MaxUpdates \in Nat
  BY ProducerConstants
<1> QED
  BY <1>1 DEF RunIds

LEMMA ShapeStep ==
  ASSUME TypeOK, Shape, ScansByRun, DocumentsStored, Prepared, Next
  PROVE  TypeOK' /\ Shape'
<1> USE Distinct
<1> USE DEF Quiescent, Launched, Resolved, Stored, Accepted, Working, PCs, world,
            local, arguments
<1>0. DirectoryTyped' /\ scans' \in [RunIds -> ScanRecords \union {None}]
  BY DirectoryStep, ScansTyped
<1>1. CASE \E r \in Requested, p \in Wishes : Begin(r, p)
  <2>1. runs' \in RunIds /\ runs' \in 0..MaxRuns
    <3>1. runs \in 0..MaxRuns /\ runs < MaxRuns /\ runs' = runs + 1
      BY <1>1, Zenon DEF Begin, TypeOK
    <3> QED
      BY <3>1, Numbers
  <2>2. 0 < Len(StaleNames) /\ 0 \in 0..Len(StaleNames)
    BY StaleOrder
  <2> QED
    BY <1>0, <1>1, <2>1, <2>2 DEF Begin, TypeOK, Shape
<1>2. CASE Unlink
  <2>1. cleaned \in 0..Len(StaleNames) /\ cleaned < Len(StaleNames)
    BY <1>2 DEF Unlink, TypeOK, Shape
  <2>2. /\ cleaned' = cleaned + 1 /\ cleaned' \in 0..Len(StaleNames)
        /\ cleaned' # Len(StaleNames) => cleaned' < Len(StaleNames)
    BY <1>2, <2>1, StaleOrder DEF Unlink
  <2> QED
    BY <1>0, <1>2, <2>2 DEF Unlink, TypeOK, Shape
<1>3. ASSUME NEW c \in Errors, Fail(c), pc \in Working \ Stored
      PROVE  TypeOK' /\ Shape'
  <2>1. c # ""
    BY DEF Errors
  <2> QED
    BY <1>0, <1>3, <2>1 DEF Fail, TypeOK, Shape
<1>4. CASE CheckReference
  <2>1. image.kind \in {"malformed", "tag", "digest"}
    BY <1>4, AtWork DEF CheckReference, References
  <2>2. CASE image.kind = "digest"
    BY <1>0, <1>4, <2>2 DEF CheckReference, Advance, TypeOK, Shape
  <2>3. CASE image.kind # "digest"
    BY <1>3, <1>4, <2>1, <2>3 DEF CheckReference, Errors
  <2> QED
    BY <2>2, <2>3
<1>5. CASE CheckBinary
  <2>1. CASE Advance("version")
    BY <1>0, <1>5, <2>1 DEF CheckBinary, Advance, TypeOK, Shape
  <2> QED
    BY <1>3, <1>5, <2>1 DEF CheckBinary, Errors
<1>6. CASE CheckVersion
  <2>1. CASE Advance("resolve")
    BY <1>0, <1>6, <2>1 DEF CheckVersion, Advance, TypeOK, Shape
  <2> QED
    BY <1>3, <1>6, <2>1 DEF CheckVersion, Errors
<1>7. CASE ResolveImage
  <2>1. CASE resolved' \in Resolutions(image, wish) /\ pc' = "identity"
             /\ UNCHANGED <<world, cleaned, arguments, code, judged, execution, draft>>
    <3>1. resolved' \in Identities
      BY <2>1 DEF Resolutions
    <3> QED
      BY <1>0, <1>7, <2>1, <3>1 DEF ResolveImage, TypeOK, Shape
  <2> QED
    BY <1>3, <1>7, <2>1 DEF ResolveImage, Errors
<1>8. CASE WriteIdentity \/ WriteManifest \/ WriteIndex
  BY <1>0, <1>8 DEF WriteIdentity, WriteManifest, WriteIndex, Advance, TypeOK, Shape
<1>9. CASE CheckManifest
  <2>1. CASE Advance("launch")
    BY <1>0, <1>9, <2>1 DEF CheckManifest, Advance, TypeOK, Shape
  <2> QED
    BY <1>3, <1>9, <2>1 DEF CheckManifest, Errors
<1>10. CASE Launch
  BY <1>0, <1>10 DEF Launch, TypeOK, Shape
<1>11. ASSUME NEW x \in Executions(Words), Decline(x), pc \in Stored,
              UNCHANGED <<database, runs>>
       PROVE  TypeOK' /\ Shape'
  <2>1. x # None
    BY MarksAreNoRecords
  <2> QED
    BY <1>0, <1>11, <2>1 DEF Decline, TypeOK, Shape
<1>12. CASE ScanRaises
  <2>1. ProcessFailure \in Executions(Words)
    BY <1>12, AtWork, ExitCodeType, ProcessFailureType DEF ScanRaises
  <2> QED
    BY <1>11, <1>12, <2>1 DEF ScanRaises
<1>13. CASE ScanReturns
  <2>1. RawReport \in RunIds \union {None}
    BY DEF RawReport, TypeOK, DirectoryTyped, Files, Holdings
  <2> QED
    BY <1>0, <1>13, <2>1 DEF ScanReturns, TypeOK, Shape
<1>14. CASE Judge
  <2>1. exit_code \in Int \union {None} /\ pc = "judge"
    BY <1>14, AtWork, ExitCodeType DEF Judge, JudgeExit, JudgeOutput, JudgeReport
  <2>2. CASE JudgeExit
    BY <1>11, <2>1, <2>2, ExitFailureType DEF JudgeExit, JudgedBy
  <2>3. CASE JudgeOutput
    BY <1>11, <2>1, <2>3, OutputFailureType DEF JudgeOutput, JudgedBy
  <2>4. CASE JudgeReport
    <3>1. judged # None
      BY <2>4 DEF JudgeReport, OutputReason, RawExists
    <3>2. raw \in ReportSpace
      BY <3>1, JudgedReport
    <3>3. CASE Validation # "" /\ JudgedBy(RejectedExecution(Validation))
      <4>1. Validation \in Words
        BY <3>2, <3>3, ValidateReportType DEF Validation
      <4> QED
        BY <1>11, <2>1, <3>3, <4>1, RejectedType DEF JudgedBy
    <3>4. CASE /\ execution' = CompleteExecution /\ pc' = "evidence"
               /\ UNCHANGED <<dir, world, cleaned, arguments, resolved, code, judged,
                              draft>>
      <4>1. execution' \in Executions(Words) /\ execution' # None
        BY <2>1, <3>4, CompleteType, MarksAreNoRecords
      <4> QED
        BY <1>0, <2>1, <3>1, <3>4, <4>1 DEF TypeOK, Shape
    <3> QED
      BY <2>4, <3>3, <3>4 DEF JudgeReport
  <2> QED
    BY <1>14, <2>2, <2>3, <2>4 DEF Judge
<1>15. CASE WriteEvidence
  BY <1>0, <1>15 DEF WriteEvidence, Advance, TypeOK, Shape
<1>16. CASE MapVerdict
  <2>1. pc = "map" /\ exit_code \in Int \union {None}
    BY <1>16, AtWork, ExitCodeType DEF MapVerdict
  <2>2. raw \in ReportSpace
    BY <2>1, JudgedReport DEF Shape
  <2>3. CASE MappingError # "" /\ Decline(RejectedExecution(MappingError))
    <3>1. MappingError \in Words
      BY <2>2, <2>3, ValidateReportType DEF MappingError, MapError, Words
    <3> QED
      BY <1>11, <1>16, <2>1, <2>3, <3>1, RejectedType DEF MapVerdict
  <2>4. CASE /\ draft' = MapReport(raw, resolved.manifest_digest, "pinned",
                                   Sha256(dir["evidence"].holds))
             /\ pc' = "receipt"
             /\ UNCHANGED <<dir, world, cleaned, arguments, resolved, code, judged,
                            execution>>
    <3>1. draft' \in Receipts /\ draft' # None
      BY <2>1, <2>4, DraftType, MarksAreNoRecords
    <3> QED
      BY <1>0, <2>1, <2>4, <3>1 DEF TypeOK, Shape
  <2> QED
    BY <1>16, <2>3, <2>4 DEF MapVerdict
<1>17. CASE WriteReceipt \/ WriteError
  BY <1>0, <1>17 DEF WriteReceipt, WriteError, Advance, TypeOK, Shape
<1>18. CASE FinishEvidence \/ FinishReceipt
  BY <1>0, <1>18 DEF FinishEvidence, FinishReceipt, Advance, TypeOK, Shape
<1>19. CASE Crash
  BY <1>0, <1>19 DEF Crash, TypeOK, Shape
<1>20. CASE UpdateDatabase
  <2>1. database' \in 0..MaxUpdates
    <3>1. database \in 0..MaxUpdates /\ database < MaxUpdates /\ database' = database + 1
      BY <1>20, Zenon DEF UpdateDatabase, TypeOK
    <3> QED
      BY <3>1, Numbers
  <2>2. UNCHANGED <<dir, scans, runs, pc, local>>
    BY <1>20 DEF UpdateDatabase
  <2>3. TypeOK'
    BY <1>0, <2>1, <2>2 DEF TypeOK
  <2> QED
    BY <2>2, <2>3 DEF Shape
<1>21. CASE SpoilManifest
  BY <1>0, <1>21 DEF SpoilManifest, TypeOK, Shape
<1>22. CASE \E k \in RunIds : ScannerExits(k)
  <2>1. pc # "idle"
    <3>1. ASSUME pc = "idle" PROVE FALSE
      <4>1. runs = 0 /\ \A k \in RunIds : k > 0
        BY <3>1, Numbers DEF Shape
      <4> QED
        BY <1>22, <4>1 DEF ScannerExits, Running, ScansByRun
    <3> QED
      BY <3>1
  <2> QED
    BY <1>0, <1>22, <2>1 DEF ScannerExits, TypeOK, Shape
<1> QED
  BY <1>1, <1>2, <1>4, <1>5, <1>6, <1>7, <1>8, <1>9, <1>10, <1>12, <1>13, <1>14,
     <1>15, <1>16, <1>17, <1>18, <1>19, <1>20, <1>21, <1>22 DEF Next, OwnStep

-----------------------------------------------------------------------------
(***************************************************************************)
(* Every step keeps what scans, documents and the run have to do with each *)
(* other.                                                                  *)
(***************************************************************************)
(* A scan with a report is over: no step alters it. *)
LEMMA ReportedIsFinal ==
  ASSUME TypeOK, Shape, ScansByRun, Next, NEW k \in RunIds, scans[k] # None,
         scans[k].report # None
  PROVE  scans'[k] = scans[k]
<1> USE DEF world, local, arguments
<1>0. ~Running(k) /\ DOMAIN scans = RunIds
  BY DEF ScansByRun, TypeOK
<1>1. CASE UNCHANGED scans
  BY <1>1
<1>2. CASE Launch
  <2>1. runs \in RunIds /\ scans[runs] = None
    BY <1>2, AtWork DEF Launch, ScansByRun, Working, PCs, Quiescent, Stored
  <2> QED
    BY <1>0, <1>2, <2>1 DEF Launch
<1>3. CASE scans' = [scans EXCEPT ![runs].exit = Killed] /\ Running(runs)
  BY <1>0, <1>3
<1>4. CASE \E j \in RunIds : ScannerExits(j)
  BY <1>0, <1>4 DEF ScannerExits
<1>5. CASE ScanRaises \/ Crash
  BY <1>1, <1>3, <1>5 DEF ScanRaises, Crash
<1>6. CASE (\E r \in Requested, p \in Wishes : Begin(r, p)) \/ Unlink
  BY <1>1, <1>6 DEF Begin, Unlink
<1>7. CASE CheckReference \/ CheckBinary \/ CheckVersion \/ ResolveImage
  <2>1. CheckReference => image.kind \in {"malformed", "tag", "digest"}
    BY AtWork DEF CheckReference, References, Working, PCs, Quiescent
  <2> QED
    BY <1>1, <1>7, <2>1 DEF CheckReference, CheckBinary, CheckVersion, ResolveImage,
         Fail, Advance
<1>8. CASE WriteIdentity \/ WriteManifest \/ WriteIndex \/ CheckManifest
  BY <1>1, <1>8 DEF WriteIdentity, WriteManifest, WriteIndex, CheckManifest, Fail, Advance
<1>9. CASE ScanReturns \/ Judge \/ MapVerdict
  BY <1>1, <1>9 DEF ScanReturns, Judge, JudgeExit, JudgeOutput, JudgeReport,
       JudgedBy, MapVerdict
<1>10. CASE WriteEvidence \/ WriteReceipt \/ WriteError \/ FinishEvidence \/ FinishReceipt
  BY <1>1, <1>10 DEF WriteEvidence, WriteReceipt, WriteError, FinishEvidence,
       FinishReceipt, Advance
<1>11. CASE UpdateDatabase \/ SpoilManifest
  BY <1>1, <1>11 DEF UpdateDatabase, SpoilManifest
<1> QED
  BY <1>2, <1>4, <1>5, <1>6, <1>7, <1>8, <1>9, <1>10, <1>11 DEF Next, OwnStep

(* The parts of ScansByRun, which name the scans and where the run is, and the
   raw report. *)
LEMMA RawFrame ==
  ASSUME TypeOK, Shape, ScansByRun, Next, dir'["raw"] \in {dir["raw"], None}
  PROVE  dir'["raw"] # None =>
           LET k == dir'["raw"].holds IN
           k = dir'["raw"].by /\ scans'[k] # None /\ scans'[k].report # None
<1> SUFFICES ASSUME dir'["raw"] # None
             PROVE  LET k == dir["raw"].holds IN
                    k = dir["raw"].by /\ scans'[k] # None /\ scans'[k].report # None
  OBVIOUS
<1> DEFINE k == dir["raw"].holds
<1>1. k \in RunIds
  BY Distinct DEF TypeOK, DirectoryTyped, Files, Holdings
<1>2. k = dir["raw"].by /\ scans[k] # None /\ scans[k].report # None
  BY DEF ScansByRun
<1>3. scans'[k] = scans[k]
  BY <1>1, <1>2, ReportedIsFinal
<1> QED
  BY <1>2, <1>3

(* A step leaves every file alone but the one it writes or removes. *)
LEMMA FileStep ==
  ASSUME TypeOK, Shape, Next, NEW name \in Files, name \notin Written,
         name = "raw" => ~(\E k \in RunIds : ScannerExits(k)),
         name = "manifest" => ~SpoilManifest
  PROVE  \/ dir'[name] = dir[name]
         \/ /\ dir'[name] = None
            /\ \/ Unlink
               \/ name = "index" /\ WriteIndex
               \/ name = "raw" /\ CheckManifest
<1> USE DEF world, local, arguments
<1>0. DOMAIN dir = Files
  BY DEF TypeOK, DirectoryTyped
<1>1. CASE UNCHANGED dir
  BY <1>1
<1>2. ASSUME NEW other \in Files \ {name}, NEW x, Write(other, x)
      PROVE  dir'[name] = dir[name]
  BY <1>0, <1>2, Writes
<1>3. CASE Unlink
  <2>1. StaleNames[cleaned + 1] \in Files
    <3>1. cleaned \in 0..Len(StaleNames) /\ cleaned < Len(StaleNames)
      BY <1>3 DEF Unlink, TypeOK, Shape
    <3>2. cleaned + 1 \in 1..7
      BY <3>1, StaleOrder
    <3> QED
      BY <3>2, StaleOrder
  <2>2. Remove(StaleNames[cleaned + 1])
    BY <1>3 DEF Unlink
  <2>3. dir'[name] = None \/ dir'[name] = dir[name]
    BY <1>0, <2>1, <2>2, Removes
  <2> QED
    BY <1>3, <2>3
<1>4. CASE Crash
  <2>1. Written \subseteq Files
    BY DEF Written, Files
  <2> QED
    BY <1>1, <1>2, <1>4, <2>1 DEF Crash
<1>5. CASE WriteIdentity \/ WriteManifest
  BY <1>2, <1>5 DEF WriteIdentity, WriteManifest, Files, Written
<1>6. CASE WriteIndex
  <2>1. "index" \in Files
    BY DEF Files
  <2>2. CASE HasIndex
    BY <1>2, <1>6, <2>1, <2>2 DEF WriteIndex, Written
  <2>3. CASE ~HasIndex
    BY <1>0, <1>6, <2>1, <2>3, Removes DEF WriteIndex
  <2> QED
    BY <2>2, <2>3
<1>7. CASE CheckManifest
  <2>1. "raw" \in Files
    BY DEF Files
  <2> QED
    BY <1>0, <1>1, <1>7, <2>1, Removes DEF CheckManifest
<1>8. CASE SpoilManifest
  BY <1>2, <1>8 DEF SpoilManifest, Files
<1>9. CASE WriteEvidence \/ WriteReceipt \/ WriteError \/ FinishEvidence \/ FinishReceipt
  BY <1>2, <1>9 DEF WriteEvidence, WriteReceipt, WriteError, FinishEvidence,
       FinishReceipt, Files, Written
<1>10. CASE \E k \in RunIds : ScannerExits(k)
  BY <1>0, <1>10 DEF ScannerExits
<1>11. CASE (\E r \in Requested, p \in Wishes : Begin(r, p)) \/ UpdateDatabase \/ Launch
  BY <1>1, <1>11 DEF Begin, UpdateDatabase, Launch
<1>12. CASE CheckReference \/ CheckBinary \/ CheckVersion \/ ResolveImage
  BY <1>1, <1>12 DEF CheckReference, CheckBinary, CheckVersion, ResolveImage
<1>13. CASE ScanReturns \/ ScanRaises \/ Judge \/ MapVerdict
  BY <1>1, <1>13 DEF ScanReturns, ScanRaises, Judge, JudgeExit, JudgeOutput,
       JudgeReport, JudgedBy, MapVerdict
<1> QED
  BY <1>3, <1>4, <1>5, <1>6, <1>7, <1>8, <1>9, <1>10, <1>11, <1>12, <1>13
     DEF Next, OwnStep

LEMMA RawStep ==
  ASSUME TypeOK, Shape, Next, ~(\E k \in RunIds : ScannerExits(k))
  PROVE  dir'["raw"] \in {dir["raw"], None}
<1>1. "raw" \in Files /\ "raw" \notin Written
  BY DEF Files, Written
<1> QED
  BY <1>1, FileStep

LEMMA ScansStep ==
  ASSUME TypeOK, Shape, ScansByRun, DocumentsStored, Prepared, Next
  PROVE  ScansByRun'
<1> USE Distinct, MarksAreNoRecords
<1> USE DEF Quiescent, Launched, Stored, world, local, arguments
<1>0. /\ scans \in [RunIds -> ScanRecords \union {None}]
      /\ pc # "idle" => runs \in RunIds
      /\ judged \in RunIds \union {None}
  BY DEF TypeOK, Shape
<1>1. ASSUME ~(\E k \in RunIds : ScannerExits(k))
      PROVE  dir'["raw"] # None =>
               LET k == dir'["raw"].holds IN
               k = dir'["raw"].by /\ scans'[k] # None /\ scans'[k].report # None
  BY <1>1, RawStep, RawFrame
<1>2. judged # None => scans'[judged] # None /\ scans'[judged].report # None
  <2>1. judged # None => scans'[judged] = scans[judged]
    BY <1>0, ReportedIsFinal DEF ScansByRun
  <2> QED
    BY <2>1 DEF ScansByRun
<1>3. CASE \E r \in Requested, p \in Wishes : Begin(r, p)
  <2>1. /\ runs' = runs + 1 /\ pc' = "clean" /\ judged' = None
        /\ UNCHANGED <<dir, scans>> /\ runs \in 0..MaxRuns /\ runs < MaxRuns
    BY <1>3, Zenon DEF Begin, TypeOK
  <2>2. runs' \in RunIds /\ \A k \in RunIds : k > runs' => k > runs
    BY <2>1, Numbers
  <2>3. scans[runs'] = None
    BY <2>1, <2>2 DEF ScansByRun
  <2> QED
    BY <2>1, <2>2, <2>3 DEF ScansByRun, Running
<1>4. CASE Launch
  <2>1. runs \in RunIds /\ scans[runs] = None /\ pc = "launch" /\ pc' = "scan"
    BY <1>0, <1>4 DEF Launch, ScansByRun
  <2>2. /\ scans'[runs] = [target |-> resolved.manifest_digest, database |-> database,
                           report |-> None, exit |-> None]
        /\ \A k \in RunIds : k # runs => scans'[k] = scans[k]
        /\ UNCHANGED <<dir, runs, judged>>
    BY <1>0, <1>4, <2>1 DEF Launch
  <2>3. scans'[runs] # None
    <3>1. resolved.manifest_digest \in Digests /\ database \in 0..MaxUpdates
      BY <2>1, AtWork DEF TypeOK, Working, PCs
    <3>2. scans'[runs] \in ScanRecords
      BY <2>2, <3>1 DEF ScanRecords
    <3> QED
      BY <3>2
  <2>4. /\ \A k \in RunIds : k > runs => scans'[k] = None
        /\ \A k \in RunIds : Running(k)' => scans'[k].report = None
    <3>1. runs \in 0..MaxRuns
      BY DEF TypeOK
    <3>2. ASSUME NEW k \in RunIds, k > runs  PROVE scans'[k] = None
      <4>1. k # runs
        BY <3>1, <3>2, Numbers
      <4> QED
        BY <2>2, <3>2, <4>1 DEF ScansByRun
    <3>3. ASSUME NEW k \in RunIds, Running(k)'  PROVE scans'[k].report = None
      <4>1. CASE k = runs
        BY <2>2, <4>1
      <4>2. CASE k # runs
        <5>1. scans'[k] = scans[k]
          BY <2>2, <4>2
        <5> QED
          BY <3>3, <5>1 DEF ScansByRun, Running
      <4> QED
        BY <4>1, <4>2
    <3> QED
      BY <2>2, <3>2, <3>3
  <2>5. dir'["raw"] \in {dir["raw"], None}
    BY <2>2
  <2> QED
    BY <1>2, <2>1, <2>2, <2>3, <2>4, <2>5, RawFrame DEF ScansByRun
<1>5. ASSUME scans' = [scans EXCEPT ![runs].exit = Killed], Running(runs),
             pc \notin Quiescent, pc' \in {"finish", "crashed"},
             UNCHANGED <<runs, judged>>,
             ~(\E k \in RunIds : ScannerExits(k))
      PROVE  ScansByRun'
  <2>1. runs \in RunIds /\ scans[runs] \in ScanRecords /\ scans[runs] # None
    BY <1>0, <1>5 DEF Running
  <2>2. /\ scans'[runs] # None /\ scans'[runs].exit = Killed
        /\ \A k \in RunIds : k # runs => scans'[k] = scans[k]
    BY <1>0, <1>5, <2>1, ScansTyped DEF ScanRecords
  <2>3. \A k \in RunIds : k > runs => scans'[k] = None
    BY <1>5, <2>1, <2>2 DEF ScansByRun
  <2>4. ~Running(runs)' /\ \A k \in RunIds : Running(k)' => scans'[k].report = None
    BY <1>5, <2>1, <2>2 DEF ScansByRun, Running
  <2> QED
    BY <1>1, <1>2, <1>5, <2>3, <2>4 DEF ScansByRun
<1>6. ASSUME UNCHANGED <<scans, runs, judged>>,
             ~(\E k \in RunIds : ScannerExits(k)),
             pc' \notin Quiescent \union Stored \/ pc' = "launch"
               => pc \notin Quiescent \union Stored \/ pc = "launch",
             pc' \in Launched => pc \in Launched,
             pc' \in (Stored \ {"scan"}) \union {"exit0", "exit1"} => ~Running(runs)
      PROVE  ScansByRun'
  BY <1>1, <1>2, <1>6 DEF ScansByRun, Running
<1>7. CASE \E k \in RunIds : ScannerExits(k)
  <2> PICK k \in RunIds, report \in Reports \union {None}, exit \in ExitCodes :
        /\ Running(k) /\ UNCHANGED <<runs, pc, judged>>
        /\ scans' = [scans EXCEPT ![k].report = report, ![k].exit = exit]
        /\ dir' = IF report = None THEN dir
                  ELSE [dir EXCEPT !["raw"] = [by |-> k, holds |-> k]]
    BY <1>7 DEF ScannerExits
  <2>1. scans[k] \in ScanRecords /\ scans[k] # None
    BY <1>0 DEF Running
  <2>2. /\ scans'[k] # None /\ scans'[k].report = report /\ scans'[k].exit = exit
        /\ \A j \in RunIds : j # k => scans'[j] = scans[j]
    <3>1. [scans[k] EXCEPT !.report = report, !.exit = exit] \in ScanRecords
      BY <2>1 DEF ScanRecords
    <3>2. scans'[k] = [scans[k] EXCEPT !.report = report, !.exit = exit]
      BY <1>0
    <3>3. scans'[k] # None
      BY <3>1, <3>2
    <3>4. scans'[k].report = report /\ scans'[k].exit = exit
      BY <2>1, <3>2 DEF ScanRecords
    <3> QED
      BY <1>0, <3>3, <3>4
  <2>3. \A j \in RunIds : Running(j)' => j # k /\ Running(j)
    BY <2>2 DEF Running
  <2>4. /\ \A j \in RunIds : j > runs => scans'[j] = None
        /\ \A j \in RunIds : Running(j)' => scans'[j].report = None
    BY <2>1, <2>2, <2>3 DEF ScansByRun
  <2>5. pc \notin Quiescent \union Stored \/ pc = "launch" => scans'[runs] = None
    BY <1>0, <2>1, <2>2 DEF ScansByRun
  <2>6. pc \in Launched => scans'[runs] # None
    BY <1>0, <2>2 DEF ScansByRun
  <2>7. pc \in (Stored \ {"scan"}) \union {"exit0", "exit1"} => ~Running(runs)'
    BY <1>0, <2>3 DEF ScansByRun
  <2>8. dir'["raw"] # None =>
          LET j == dir'["raw"].holds IN
          j = dir'["raw"].by /\ scans'[j] # None /\ scans'[j].report # None
    <3>1. CASE report = None
      <4>1. dir'["raw"] \in {dir["raw"], None}
        BY <3>1
      <4> QED
        BY <4>1, RawFrame
    <3>2. CASE report # None
      <4>1. "raw" \in DOMAIN dir
        BY DEF TypeOK, DirectoryTyped, Files
      <4>2. dir'["raw"] = [by |-> k, holds |-> k]
        BY <3>2, <4>1
      <4>3. dir'["raw"].by = k /\ dir'["raw"].holds = k
        BY <4>2
      <4> QED
        BY <2>2, <3>2, <4>3
    <3> QED
      BY <3>1, <3>2
  <2> QED
    BY <1>2, <2>4, <2>5, <2>6, <2>7, <2>8 DEF ScansByRun
<1>8. CASE ScanReturns
  <2>1. /\ ~Running(runs) /\ pc = "scan" /\ pc' = "judge" /\ judged' = RawReport
        /\ UNCHANGED <<scans, runs, dir>>
    BY <1>8 DEF ScanReturns
  <2>2. judged' # None => scans[judged'] # None /\ scans[judged'].report # None
    BY <2>1 DEF RawReport, ScansByRun
  <2> QED
    BY <2>1, <2>2 DEF ScansByRun, Running
<1>9. CASE ScanRaises
  <2>1. CASE Running(runs)
    BY <1>5, <1>7, <1>9, <2>1 DEF ScanRaises, Decline
  <2>2. CASE ~Running(runs)
    BY <1>6, <1>7, <1>9, <2>2 DEF ScanRaises, Decline
  <2> QED
    BY <2>1, <2>2
<1>10. CASE Crash
  <2>1. CASE Running(runs) /\ scans' = [scans EXCEPT ![runs].exit = Killed]
    BY <1>5, <1>7, <1>10, <2>1 DEF Crash
  <2>2. CASE UNCHANGED scans
    BY <1>6, <1>7, <1>10, <2>2 DEF Crash
  <2> QED
    BY <1>10, <2>1, <2>2 DEF Crash
<1>11. CASE Unlink \/ CheckBinary \/ CheckVersion \/ ResolveImage
  BY <1>6, <1>7, <1>11 DEF Unlink, CheckBinary, CheckVersion, ResolveImage, Fail, Advance
<1>12. CASE CheckReference
  <2>1. image.kind \in {"malformed", "tag", "digest"}
    BY <1>12, AtWork DEF CheckReference, References, Working, PCs
  <2> QED
    BY <1>6, <1>7, <1>12, <2>1 DEF CheckReference, Fail, Advance
<1>13. CASE WriteIdentity \/ WriteManifest \/ WriteIndex \/ WriteError
  BY <1>6, <1>7, <1>13 DEF WriteIdentity, WriteManifest, WriteIndex, WriteError, Advance,
       ScansByRun, Running
<1>14. CASE CheckManifest
  BY <1>6, <1>7, <1>14 DEF CheckManifest, Fail, Advance, ScansByRun, Running
<1>15. CASE Judge \/ MapVerdict
  BY <1>6, <1>7, <1>15 DEF Judge, JudgeExit, JudgeOutput, JudgeReport, JudgedBy, Decline,
       MapVerdict, ScansByRun
<1>16. CASE WriteEvidence \/ WriteReceipt \/ FinishEvidence \/ FinishReceipt
  BY <1>6, <1>7, <1>16 DEF WriteEvidence, WriteReceipt, FinishEvidence, FinishReceipt,
       Advance, ScansByRun
<1>17. CASE UpdateDatabase \/ SpoilManifest
  BY <1>6, <1>7, <1>17 DEF UpdateDatabase, SpoilManifest, ScansByRun
<1> QED
  BY <1>3, <1>4, <1>7, <1>8, <1>9, <1>10, <1>11, <1>12, <1>13, <1>14, <1>15, <1>16,
     <1>17 DEF Next, OwnStep

LEMMA NotYetStep ==
  ASSUME TypeOK, Shape, NotYet, Next
  PROVE  NotYet'
<1> USE DEF Quiescent, Launched, Resolved, Stored, Working, PCs, world, local, arguments
<1>0. /\ DOMAIN dir = Files /\ {"error", "receipt", "evidence"} \subseteq Files
      /\ cleaned \in Nat /\ (pc = "clean" => cleaned < 7)
  <2>1. DOMAIN dir = Files /\ {"error", "receipt", "evidence"} \subseteq Files
    BY DEF TypeOK, DirectoryTyped, Files
  <2>2. cleaned \in 0..Len(StaleNames) /\ (pc = "clean" => cleaned < Len(StaleNames))
    BY DEF TypeOK, Shape
  <2> QED
    BY <2>1, <2>2, StaleOrder
<1>1. CASE \E r \in Requested, p \in Wishes : Begin(r, p)
  <2>1. cleaned' = 0 /\ pc' = "clean"
    BY <1>1 DEF Begin
  <2>2. 1..0 = {}
    OBVIOUS
  <2> QED
    BY <2>1, <2>2 DEF NotYet
<1>2. CASE Unlink
  <2>1. /\ cleaned + 1 \in 1..7 /\ pc = "clean" /\ cleaned' = cleaned + 1
        /\ Remove(StaleNames[cleaned + 1]) /\ pc' \in {"reference", "clean"}
        /\ pc' = "reference" => cleaned' = 7
    BY <1>0, <1>2, StaleOrder DEF Unlink
  <2>2. /\ dir'[StaleNames[cleaned + 1]] = None
        /\ \A n \in Files : dir[n] = None => dir'[n] = None
    BY <1>0, <2>1, StaleOrder, Removes
  <2>3. \A i \in 1..cleaned' : (i = cleaned + 1 \/ i \in 1..cleaned) /\ i \in 1..7
    BY <1>0, <2>1
  <2>4. \A i \in 1..cleaned' : dir'[StaleNames[i]] = None
    BY <2>1, <2>2, <2>3, StaleOrder DEF NotYet
  <2>5. pc' = "reference" =>
          dir'["receipt"] = None /\ dir'["evidence"] = None /\ dir'["error"] = None
    <3>1. ASSUME pc' = "reference"
          PROVE  \A i \in 1..7 : dir'[StaleNames[i]] = None
      BY <2>1, <2>4, <3>1
    <3>2. 1 \in 1..7 /\ 2 \in 1..7 /\ 3 \in 1..7
      OBVIOUS
    <3> QED
      BY <3>1, <3>2, StaleOrder
  <2> QED
    BY <2>1, <2>4, <2>5 DEF NotYet
<1>3. ASSUME \A n \in {"error", "receipt"} : dir[n] = None => dir'[n] = None,
             pc' # "clean", pc' \in Working => pc \in Working,
             pc' \in Working \ {"map", "receipt", "finish", "finish_receipt"} =>
               /\ pc \in Working \ {"map", "receipt", "finish", "finish_receipt"}
               /\ dir["evidence"] = None => dir'["evidence"] = None
      PROVE  NotYet'
  BY <1>3 DEF NotYet
<1>4. ASSUME NEW n \in {"error", "receipt", "evidence"}, n \notin Written
      PROVE  dir[n] = None => dir'[n] = None
  BY <1>0, <1>4, FileStep
<1>5. CASE \E k \in RunIds : ScannerExits(k)
  <2>1. \A n \in Files : n # "raw" => dir'[n] = dir[n]
    BY <1>0, <1>5 DEF ScannerExits
  <2>2. UNCHANGED <<pc, cleaned>>
    BY <1>5 DEF ScannerExits
  <2>3. \A i \in 1..6 : StaleNames[i] \in Files \ {"raw"}
    BY DEF StaleNames, Files
  <2>4. pc = "clean" => \A i \in 1..cleaned : i \in 1..6
    BY <1>0
  <2> QED
    BY <1>0, <2>1, <2>2, <2>3, <2>4 DEF NotYet
<1>6. CASE UpdateDatabase
  BY <1>6 DEF UpdateDatabase, NotYet
<1>7. CASE SpoilManifest
  <2>1. /\ UNCHANGED <<pc, cleaned>> /\ pc = "check_manifest"
        /\ \A n \in Files : n # "manifest" => dir'[n] = dir[n]
    BY <1>0, <1>7, Writes DEF SpoilManifest, Files
  <2> QED
    BY <1>0, <2>1 DEF NotYet
<1>8. CASE WriteEvidence \/ FinishEvidence
  <2>1. "error" \notin Written /\ "receipt" \notin Written
    BY <1>8 DEF WriteEvidence, FinishEvidence, Written
  <2> QED
    BY <1>3, <1>4, <1>8, <2>1 DEF WriteEvidence, FinishEvidence, Advance
<1>9. CASE pc' \in Quiescent
  BY <1>9 DEF NotYet
<1>10. CASE CheckBinary \/ CheckVersion \/ ResolveImage
  <2>1. Written = {} 
    BY <1>10 DEF CheckBinary, CheckVersion, ResolveImage, Written
  <2> QED
    BY <1>3, <1>4, <1>10, <2>1 DEF CheckBinary, CheckVersion, ResolveImage, Fail, Advance
<1>11. CASE CheckReference
  <2>1. Written = {} /\ image.kind \in {"malformed", "tag", "digest"}
    BY <1>11, AtWork DEF CheckReference, References, Written
  <2> QED
    BY <1>3, <1>4, <1>11, <2>1 DEF CheckReference, Fail, Advance
<1>12. CASE WriteIdentity \/ WriteManifest \/ WriteIndex
  <2>1. \A n \in {"error", "receipt", "evidence"} : n \notin Written
    BY <1>12 DEF WriteIdentity, WriteManifest, WriteIndex, Written
  <2> QED
    BY <1>3, <1>4, <1>12, <2>1 DEF WriteIdentity, WriteManifest, WriteIndex, Advance
<1>13. CASE CheckManifest \/ Launch
  <2>1. Written = {}
    BY <1>13 DEF CheckManifest, Launch, Written
  <2> QED
    BY <1>3, <1>4, <1>13, <2>1 DEF CheckManifest, Launch, Fail, Advance
<1>14. CASE ScanReturns \/ ScanRaises
  <2>1. Written = {}
    BY <1>14 DEF ScanReturns, ScanRaises, Written
  <2> QED
    BY <1>3, <1>4, <1>14, <2>1 DEF ScanReturns, ScanRaises, Decline
<1>15. CASE Judge \/ MapVerdict
  <2>1. Written = {}
    BY <1>15 DEF Judge, JudgeExit, JudgeOutput, JudgeReport, MapVerdict, Written
  <2> QED
    BY <1>3, <1>4, <1>15, <2>1 DEF Judge, JudgeExit, JudgeOutput, JudgeReport, JudgedBy,
         Decline, MapVerdict
<1>16. CASE WriteReceipt \/ WriteError \/ FinishReceipt \/ Crash
  BY <1>9, <1>16 DEF WriteReceipt, WriteError, FinishReceipt, Crash, Advance
<1> QED
  BY <1>1, <1>2, <1>5, <1>6, <1>7, <1>8, <1>10, <1>11, <1>12, <1>13, <1>14, <1>15,
     <1>16 DEF Next, OwnStep

(* The run's image and its resolution stay what they are once it is resolved. *)
LEMMA ResolvedStays ==
  ASSUME Next, pc \in Resolved \union Stored, image.kind = "digest"
  PROVE  /\ UNCHANGED <<image, wish, resolved, runs>>
         /\ pc' \notin {"idle", "clean", "reference", "binary", "version", "resolve",
                        "identity"} \/ UNCHANGED pc
<1> USE DEF Quiescent, Launched, Resolved, Stored, world, local, arguments
<1>1. CASE WriteIdentity \/ WriteManifest \/ WriteIndex \/ CheckManifest \/ Launch
  BY <1>1 DEF WriteIdentity, WriteManifest, WriteIndex, CheckManifest, Launch, Advance, Fail
<1>2. CASE ScanReturns \/ ScanRaises \/ Judge \/ MapVerdict
  BY <1>2 DEF ScanReturns, ScanRaises, Judge, JudgeExit, JudgeOutput, JudgeReport,
       JudgedBy, Decline, MapVerdict
<1>3. CASE WriteEvidence \/ WriteReceipt \/ FinishEvidence \/ FinishReceipt
  BY <1>3 DEF WriteEvidence, WriteReceipt, FinishEvidence, FinishReceipt, Advance
<1>4. CASE Crash \/ UpdateDatabase \/ SpoilManifest \/ \E k \in RunIds : ScannerExits(k)
  BY <1>4 DEF Crash, UpdateDatabase, SpoilManifest, ScannerExits
<1> QED
  BY <1>1, <1>2, <1>3, <1>4
     DEF Next, OwnStep, Begin, Unlink, CheckReference, CheckBinary, CheckVersion,
         ResolveImage, WriteError

LEMMA DocumentsStep ==
  ASSUME TypeOK, Shape, ScansByRun, DocumentsStored, Prepared, Next
  PROVE  DocumentsStored'
<1> USE Distinct DEF Quiescent, Launched, Resolved, Stored, world, local, arguments
<1>0. /\ DOMAIN dir = Files /\ {"identity", "manifest", "index"} \subseteq Files
      /\ Shape'
  BY ShapeStep DEF TypeOK, DirectoryTyped, Files
<1>1. ASSUME pc \in Resolved \union Stored, pc' \in Resolved \union Stored
      PROVE  /\ UNCHANGED resolved /\ resolved # None /\ resolved \in Identities
             /\ resolved.manifest_digest \in Digests /\ resolved.root_digest \in Digests
             /\ image.kind = "digest" /\ runs \in RunIds
  <2>1. /\ image.kind = "digest" /\ resolved \in Identities /\ resolved # None
        /\ resolved.manifest_digest \in Digests /\ resolved.root_digest \in Digests
        /\ runs \in RunIds
    BY <1>1, AtWork DEF Working, PCs
  <2> QED
    BY <1>1, <2>1, ResolvedStays
<1>2. CASE pc' \notin Resolved \union Stored
  BY <1>2 DEF DocumentsStored
<1>3. CASE ResolveImage
  BY <1>3 DEF ResolveImage, DocumentsStored, Fail
<1>4. CASE WriteIdentity
  <2>1. /\ pc = "identity" /\ pc' = "manifest" /\ Write("identity", resolved)
        /\ UNCHANGED resolved
    BY <1>4 DEF WriteIdentity, Advance
  <2>2. dir'["identity"].holds = resolved /\ dir'["identity"] # None
    <3>1. resolved \in Holdings("identity") /\ runs \in RunIds
      BY <1>1, <2>1 DEF Holdings
    <3> QED
      BY <1>0, <2>1, <3>1, Writes, WriteTyped DEF Files, TypeOK
  <2> QED
    BY <2>1, <2>2 DEF DocumentsStored, Holds
<1>5. CASE WriteManifest
  <2>1. /\ pc = "manifest" /\ pc' = "index" /\ UNCHANGED resolved
        /\ Write("manifest", resolved.manifest_digest.sha256)
    BY <1>5 DEF WriteManifest, Advance
  <2>2. /\ resolved.manifest_digest.sha256 \in Holdings("manifest") /\ runs \in RunIds
        /\ resolved.manifest_digest.sha256 # Torn
    BY <1>1, <2>1, DigestNames DEF Holdings
  <2>3. /\ dir'["manifest"].holds # Torn /\ dir'["manifest"] # None
        /\ dir'["identity"] = dir["identity"]
    BY <1>0, <2>1, <2>2, Writes, WriteTyped DEF Files, TypeOK
  <2> QED
    BY <2>1, <2>3 DEF DocumentsStored, Holds, Whole
<1>6. CASE WriteIndex
  <2>1. pc = "index" /\ pc' = "check_manifest" /\ UNCHANGED resolved
    BY <1>6 DEF WriteIndex, Advance
  <2>2. CASE HasIndex
    <3>1. Write("index", resolved.root_digest.sha256)
      BY <1>6, <2>2 DEF WriteIndex
    <3>2. resolved.root_digest.sha256 \in Holdings("index") /\ runs \in RunIds
      BY <1>1, <2>1, DigestNames DEF Holdings
    <3>3. /\ dir'["index"].holds = resolved.root_digest.sha256 /\ dir'["index"] # None
          /\ dir'["identity"] = dir["identity"] /\ dir'["manifest"] = dir["manifest"]
      BY <1>0, <3>1, <3>2, Writes, WriteTyped DEF Files, TypeOK
    <3> QED
      BY <2>1, <2>2, <3>3 DEF DocumentsStored, Holds, Whole, HasIndex
  <2>3. CASE ~HasIndex
    <3>1. Remove("index")
      BY <1>6, <2>3 DEF WriteIndex
    <3>2. /\ dir'["index"] = None
          /\ dir'["identity"] = dir["identity"] /\ dir'["manifest"] = dir["manifest"]
      BY <1>0, <3>1, Removes DEF Files
    <3> QED
      BY <2>1, <2>3, <3>2 DEF DocumentsStored, Holds, Whole, HasIndex
  <2> QED
    BY <2>2, <2>3
<1>7. CASE CheckManifest
  <2>1. CASE Sha256(dir["manifest"].holds) # resolved.manifest_digest
    BY <1>7, <2>1 DEF CheckManifest, Fail, DocumentsStored
  <2>2. CASE Sha256(dir["manifest"].holds) = resolved.manifest_digest
    <3>1. pc = "check_manifest" /\ pc' = "launch" /\ UNCHANGED resolved /\ Remove("raw")
      BY <1>7, <2>2 DEF CheckManifest, Advance
    <3>2. dir["manifest"].holds = resolved.manifest_digest.sha256
      BY <2>2 DEF Sha256
    <3>3. /\ dir'["index"] = dir["index"] /\ dir'["identity"] = dir["identity"]
          /\ dir'["manifest"] = dir["manifest"]
      BY <1>0, <3>1, Removes DEF Files
    <3> QED
      BY <3>1, <3>2, <3>3 DEF DocumentsStored, Holds, Whole, HasIndex
  <2> QED
    BY <2>1, <2>2
<1>8. CASE SpoilManifest
  <2> PICK b \in Bodies : Write("manifest", b)
    BY <1>8 DEF SpoilManifest
  <2>1. pc = "check_manifest" /\ UNCHANGED <<pc, resolved>>
    BY <1>8 DEF SpoilManifest
  <2>2. runs \in RunIds /\ b \in Holdings("manifest") /\ b # Torn
    BY <1>1, <2>1 DEF Holdings
  <2>3. /\ dir'["manifest"].holds # Torn /\ dir'["manifest"] # None
        /\ dir'["identity"] = dir["identity"] /\ dir'["index"] = dir["index"]
    BY <1>0, <2>2, Writes, WriteTyped DEF Files, TypeOK
  <2> QED
    BY <2>1, <2>3 DEF DocumentsStored, Holds, Whole, HasIndex
<1>9. ASSUME UNCHANGED resolved, pc \in Stored, pc' \in Stored,
             \A n \in {"identity", "manifest", "index"} : dir'[n] = dir[n]
      PROVE  DocumentsStored'
  BY <1>9 DEF DocumentsStored, Holds, Whole, HasIndex
<1>10. CASE UpdateDatabase \/ \E k \in RunIds : ScannerExits(k)
  <2>1. /\ UNCHANGED <<pc, resolved>>
        /\ \A n \in {"identity", "manifest", "index"} : dir'[n] = dir[n]
    BY <1>0, <1>10 DEF UpdateDatabase, ScannerExits
  <2> QED
    BY <2>1 DEF DocumentsStored, Holds, Whole, HasIndex
<1>11. CASE Launch \/ ScanReturns \/ ScanRaises \/ Judge \/ MapVerdict
  <2>1. UNCHANGED <<dir, resolved>> /\ pc \in Stored /\ pc' \in Stored
    BY <1>11 DEF Launch, ScanReturns, ScanRaises, Judge, JudgeExit, JudgeOutput,
         JudgeReport, JudgedBy, Decline, MapVerdict
  <2> QED
    BY <1>9, <2>1
<1>12. CASE WriteEvidence \/ FinishEvidence
  <2>1. /\ pc \in Stored /\ pc' \in Stored /\ UNCHANGED resolved
        /\ Write("evidence", EvidenceRecord)
    BY <1>12 DEF WriteEvidence, FinishEvidence, Advance
  <2>2. \A n \in {"identity", "manifest", "index"} : dir'[n] = dir[n]
    BY <1>0, <2>1, Writes DEF Files
  <2> QED
    BY <1>9, <2>1, <2>2
<1>13. CASE WriteReceipt \/ WriteError \/ FinishReceipt \/ Crash \/ Unlink
  BY <1>2, <1>13 DEF WriteReceipt, WriteError, FinishReceipt, Crash, Unlink, Advance
<1>14. CASE CheckBinary \/ CheckVersion \/ \E r \in Requested, p \in Wishes : Begin(r, p)
  BY <1>2, <1>14 DEF CheckBinary, CheckVersion, Begin, Fail, Advance
<1>15. CASE CheckReference
  <2>1. image.kind \in {"malformed", "tag", "digest"}
    BY <1>15, AtWork DEF CheckReference, References, Working, PCs
  <2> QED
    BY <1>2, <1>15, <2>1 DEF CheckReference, Fail, Advance
<1> QED
  BY <1>3, <1>4, <1>5, <1>6, <1>7, <1>8, <1>10, <1>11, <1>12, <1>13, <1>14, <1>15
     DEF Next, OwnStep

-----------------------------------------------------------------------------
(***************************************************************************)
(* Every step keeps what report, record, evidence, draft and receipt have  *)
(* to do with each other.                                                  *)
(***************************************************************************)
(* validate_image_report accepts exactly the reports on which a verdict may
   rest, about exactly the image they are bound to, of a scanner that exited
   with 0. *)
THEOREM AcceptanceIsSoundness ==
  \A report \in ReportSpace : \A bound \in BOOLEAN : \A c \in Int \union {None} :
    (bound => report.names = "target") =>
      (ValidateReport(report, bound, "pinned", c) = "" <=>
         Sound(report) /\ bound /\ c \in {None, 0})
<1>1. MalformedReport # ""
  BY DEF MalformedReport
<1> SUFFICES ASSUME NEW report \in ReportSpace, NEW bound \in BOOLEAN,
                    NEW c \in Int \union {None}, bound => report.names = "target"
             PROVE  ValidateReport(report, bound, "pinned", c) = "" <=>
                      Sound(report) /\ bound /\ c \in {None, 0}
  OBVIOUS
<1>2. /\ report.defect = "" \/ report.defect # ""
      /\ report.results \in {"not_sections", "empty", "sections"}
  BY DEF ReportSpace
<1>3. ValidateReport(report, bound, "pinned", c) = "" <=>
        /\ report.form = "object" /\ report.results \notin {"not_sections", "empty"}
        /\ report.version = "pinned" /\ bound /\ report.defect = ""
        /\ c = None \/ c = 0
  BY <1>1 DEF ValidateReport
<1> QED
  BY <1>2, <1>3 DEF Sound

LEMMA ZeroIsACode == 0 \in Int \union {None}
OBVIOUS

LEMMA Accepting ==
  ASSUME TypeOK, ScansByRun, judged # None, Validation = ""
  PROVE  /\ Conclusive(scans[judged]) /\ raw.form = "object"
         /\ scans[judged].target = resolved.manifest_digest
<1>1. raw \in ReportSpace /\ scans[judged] # None /\ scans[judged].report # None
  BY JudgedReport DEF ScansByRun
<1>2. 0 \in Int \union {None}
  BY ZeroIsACode
<1>3. Bound \in BOOLEAN /\ (Bound => raw.names = "target")
  BY Zenon DEF Bound
<1>4. Sound(raw) /\ Bound
  BY <1>1, <1>2, <1>3, AcceptanceIsSoundness DEF Validation
<1> QED
  BY <1>1, <1>4 DEF Conclusive, Sound, Bound, raw

LEMMA CompleteExecutionIsComplete ==
  ASSUME judged # None, raw.form = "object", exit_code = 0
  PROVE  RecordIsComplete(CompleteExecution) /\ CompleteExecution.exit_code = 0
<1>1. SizeOf(judged) = 1
  BY DEF SizeOf, raw
<1>2. Positive(SizeOf(judged))
  BY <1>1, NoneIsNoValue DEF Positive
<1> DEFINE f == [Observed EXCEPT !.completed_components = OciComponents]
<1>3. /\ f.invocation_started = TRUE /\ f.process_completed = TRUE
      /\ f.exit_code = exit_code /\ f.exit_state_valid = TRUE
      /\ f.output_present = TRUE /\ f.output_parseable = TRUE
      /\ f.output_exists = TRUE /\ f.output_size = SizeOf(judged)
      /\ f.required_components = OciComponents
      /\ f.completed_components = OciComponents
      /\ f.failed_components = {} /\ f.result_semantics_consistent = TRUE
      /\ f.fatal_failure = FALSE
  BY DEF Observed
<1> HIDE DEF f
<1>4. OutputExists(f) = TRUE
  BY <1>3, NoneIsNoValue DEF OutputExists
<1>5. WorkDone(f)
  BY <1>2, <1>3, <1>4 DEF WorkDone
<1>6. Status(f) = "complete"
  BY <1>3, <1>5 DEF Status
<1>7. RecordIsComplete(MakeExecution(f)) /\ MakeExecution(f).exit_code = exit_code
  BY <1>2, <1>3, <1>4, <1>6 DEF RecordIsComplete, MakeExecution
<1> QED
  BY <1>7 DEF CompleteExecution, f

LEMMA ProgressStep ==
  ASSUME TypeOK, Shape, ScansByRun, Progress, Next
  PROVE  Progress'
<1> USE DEF Quiescent, Launched, Stored, Accepted, world, local, arguments
<1>1. CASE JudgeReport
  <2>1. CASE Validation = "" /\ execution' = CompleteExecution
             /\ UNCHANGED <<dir, world, cleaned, arguments, resolved, code, judged,
                            draft>>
    <3>1. judged # None /\ exit_code = 0
      BY <1>1 DEF JudgeReport, OutputReason, RawExists
    <3>2. /\ Conclusive(scans[judged]) /\ raw.form = "object"
          /\ scans[judged].target = resolved.manifest_digest
      BY <2>1, <3>1, Accepting
    <3>3. RecordIsComplete(execution') /\ execution'.exit_code = 0
      BY <2>1, <3>1, <3>2, CompleteExecutionIsComplete
    <3> QED
      BY <2>1, <3>2, <3>3 DEF Progress
  <2>2. CASE JudgedBy(RejectedExecution(Validation))
    BY <2>2 DEF JudgedBy, Decline, Progress
  <2> QED
    BY <1>1, <2>1, <2>2 DEF JudgeReport
<1>2. ASSUME pc' \in Accepted, pc \in Accepted, UNCHANGED <<judged, resolved, execution>>
      PROVE  Progress'
  <2>1. judged \in RunIds /\ scans[judged] # None /\ scans[judged].report # None
    BY <1>2 DEF TypeOK, Shape, ScansByRun
  <2>2. scans'[judged] = scans[judged]
    BY <2>1, ReportedIsFinal
  <2> QED
    BY <1>2, <2>2 DEF Progress
<1>3. CASE pc' \notin Accepted
  BY <1>3 DEF Progress
<1>4. CASE WriteEvidence \/ WriteReceipt
  BY <1>2, <1>3, <1>4 DEF WriteEvidence, WriteReceipt, Advance
<1>5. CASE MapVerdict
  BY <1>2, <1>3, <1>5 DEF MapVerdict, Decline
<1>6. CASE UpdateDatabase \/ SpoilManifest \/ \E k \in RunIds : ScannerExits(k)
  BY <1>2, <1>3, <1>6 DEF UpdateDatabase, SpoilManifest, ScannerExits
<1>7. CASE (\E r \in Requested, p \in Wishes : Begin(r, p)) \/ Unlink \/ Crash
  BY <1>3, <1>7 DEF Begin, Unlink, Crash
<1>8. CASE CheckReference
  <2>1. image.kind \in {"malformed", "tag", "digest"}
    BY <1>8, AtWork DEF CheckReference, References, Working, PCs
  <2> QED
    BY <1>3, <1>8, <2>1 DEF CheckReference, Fail, Advance
<1>9. CASE CheckBinary \/ CheckVersion \/ ResolveImage \/ CheckManifest
  BY <1>3, <1>9 DEF CheckBinary, CheckVersion, ResolveImage, CheckManifest, Fail, Advance
<1>10. CASE WriteIdentity \/ WriteManifest \/ WriteIndex \/ WriteError
            \/ FinishEvidence \/ FinishReceipt
  BY <1>3, <1>10 DEF WriteIdentity, WriteManifest, WriteIndex, WriteError,
       FinishEvidence, FinishReceipt, Advance
<1>11. CASE Launch \/ ScanReturns \/ ScanRaises \/ JudgeExit \/ JudgeOutput
  BY <1>3, <1>11 DEF Launch, ScanReturns, ScanRaises, JudgeExit, JudgeOutput, JudgedBy,
       Decline
<1> QED
  BY <1>1, <1>4, <1>5, <1>6, <1>7, <1>8, <1>9, <1>10, <1>11 DEF Next, OwnStep, Judge

(* What JudgeReport has accepted, map_image_report accepts again. *)
LEMMA AcceptedMaps ==
  ASSUME TypeOK, Shape, ScansByRun, Progress
  PROVE  MappingNeverRefuses
<1> SUFFICES ASSUME pc = "map" PROVE MappingError = ""
  BY DEF MappingNeverRefuses
<1>1. /\ judged # None /\ Conclusive(scans[judged])
      /\ scans[judged].target = resolved.manifest_digest
      /\ RecordIsComplete(execution) /\ execution.exit_code = 0
  BY DEF Progress, Shape, Accepted
<1>2. raw \in ReportSpace /\ Sound(raw)
  BY <1>1, JudgedReport DEF Conclusive, raw
<1>3. Bound \in BOOLEAN /\ Bound /\ raw.names = "target" /\ 0 \in Int \union {None}
  <2>1. raw.names = "target" /\ Bound
    BY <1>1, <1>2 DEF Bound, Sound
  <2>2. Bound \in BOOLEAN
    BY Zenon DEF Bound
  <2> QED
    BY <2>1, <2>2
<1>4. ValidateReport(raw, Bound, "pinned", 0) = ""
  BY <1>2, <1>3, AcceptanceIsSoundness
<1> QED
  BY <1>1, <1>4, Distinct DEF MappingError, MapError, ExecutionIsComplete

LEMMA PreparedStep ==
  ASSUME TypeOK, Shape, ScansByRun, DocumentsStored, Progress, Prepared, Next
  PROVE  Prepared'
<1> USE DEF Quiescent, Launched, Stored, Accepted, world, local, arguments
<1>0. DOMAIN dir = Files /\ "evidence" \in Files /\ DirectoryTyped
  BY DEF TypeOK, DirectoryTyped, Files
<1>1. CASE WriteEvidence \/ FinishEvidence
  <2>1. /\ Write("evidence", EvidenceRecord) /\ pc \in {"evidence", "finish"}
        /\ pc' \in {"map", "finish_receipt"} /\ UNCHANGED <<resolved, execution>>
    BY <1>1 DEF WriteEvidence, FinishEvidence, Advance
  <2>2. runs \in RunIds /\ EvidenceRecord \in EvidenceRecords
    BY <2>1, AtWork, EvidenceType DEF Working, PCs
  <2>3. /\ dir'["evidence"].holds = EvidenceRecord /\ dir'["evidence"] # None
        /\ EvidenceRecord # Torn
    BY <1>0, <2>1, <2>2, Writes, WriteTyped, MarksAreNoRecords DEF Files, Holdings
  <2>4. /\ EvidenceRecord.manifest_digest = resolved.manifest_digest
        /\ EvidenceRecord.execution = execution
    BY DEF EvidenceRecord
  <2> QED
    BY <2>1, <2>3, <2>4 DEF Prepared, Whole, Evidence_
<1>2. CASE MapVerdict
  <2>1. pc = "map" /\ MappingError = ""
    BY <1>2, AcceptedMaps DEF MapVerdict, MappingNeverRefuses
  <2>2. /\ draft' = MapReport(raw, resolved.manifest_digest, "pinned",
                             Sha256(dir["evidence"].holds))
        /\ pc' = "receipt" /\ UNCHANGED <<dir, resolved, judged, execution, scans>>
    BY <1>2, <2>1 DEF MapVerdict
  <2> QED
    BY <2>1, <2>2 DEF Prepared, Whole, Evidence_, raw
<1>3. CASE UpdateDatabase \/ SpoilManifest \/ \E k \in RunIds : ScannerExits(k)
  <2>1. UNCHANGED <<pc, resolved, judged, execution, draft>>
    BY <1>3 DEF UpdateDatabase, SpoilManifest, ScannerExits
  <2>2. dir'["evidence"] = dir["evidence"]
    BY <1>0, <1>3, Writes DEF UpdateDatabase, SpoilManifest, ScannerExits, Files
  <2>3. pc = "receipt" => UNCHANGED raw
    <3>1. pc = "receipt" => judged \in RunIds /\ scans[judged] # None
                             /\ scans[judged].report # None
      BY DEF TypeOK, Shape, ScansByRun
    <3>2. pc = "receipt" => scans'[judged] = scans[judged]
      BY <3>1, ReportedIsFinal
    <3> QED
      BY <2>1, <3>2 DEF raw
  <2> QED
    BY <2>1, <2>2, <2>3 DEF Prepared, Whole, Evidence_
<1>4. CASE pc' \notin {"map", "receipt", "finish_receipt"}
  BY <1>4 DEF Prepared
<1>5. CASE (\E r \in Requested, p \in Wishes : Begin(r, p)) \/ Unlink \/ Crash
  BY <1>4, <1>5 DEF Begin, Unlink, Crash
<1>6. CASE CheckReference
  <2>1. image.kind \in {"malformed", "tag", "digest"}
    BY <1>6, AtWork DEF CheckReference, References, Working, PCs
  <2> QED
    BY <1>4, <1>6, <2>1 DEF CheckReference, Fail, Advance
<1>7. CASE CheckBinary \/ CheckVersion \/ ResolveImage \/ CheckManifest
  BY <1>4, <1>7 DEF CheckBinary, CheckVersion, ResolveImage, CheckManifest, Fail, Advance
<1>8. CASE WriteIdentity \/ WriteManifest \/ WriteIndex \/ WriteError
            \/ WriteReceipt \/ FinishReceipt
  BY <1>4, <1>8 DEF WriteIdentity, WriteManifest, WriteIndex, WriteError,
       WriteReceipt, FinishReceipt, Advance
<1>9. CASE Launch \/ ScanReturns \/ ScanRaises \/ Judge
  BY <1>4, <1>9 DEF Launch, ScanReturns, ScanRaises, Judge, JudgeExit, JudgeOutput,
       JudgeReport, JudgedBy, Decline
<1> QED
  BY <1>1, <1>2, <1>3, <1>5, <1>6, <1>7, <1>8, <1>9 DEF Next, OwnStep

(* A receipt appears where one is written, and is torn by a crash there. *)
LEMMA ReceiptStep ==
  ASSUME TypeOK, Shape, Next, ~WriteReceipt, ~FinishReceipt
  PROVE  \/ dir'["receipt"] \in {dir["receipt"], None}
         \/ dir'["receipt"].holds = Torn
<1>1. "receipt" \in Files /\ DOMAIN dir = Files
  BY DEF Files, TypeOK, DirectoryTyped
<1>2. CASE "receipt" \notin Written
  BY <1>1, <1>2, FileStep
<1>3. CASE "receipt" \in Written
  <2>1. pc \in {"receipt", "finish_receipt"} /\ Written = {"receipt"}
    BY <1>3 DEF Written
  <2>2. CASE Crash
    BY <1>1, <2>1, <2>2, Writes DEF Crash
  <2>3. CASE UpdateDatabase \/ \E k \in RunIds : ScannerExits(k)
    BY <1>1, <2>3 DEF UpdateDatabase, ScannerExits
  <2> QED
    BY <2>1, <2>2, <2>3
       DEF Next, OwnStep, Judge, Begin, Unlink, CheckReference, CheckBinary,
           CheckVersion, ResolveImage, WriteIdentity, WriteManifest, WriteIndex,
           CheckManifest, Launch, ScanReturns, ScanRaises, JudgeExit, JudgeOutput,
           JudgeReport, WriteEvidence, MapVerdict, WriteError, FinishEvidence,
           SpoilManifest, Quiescent
<1> QED
  BY <1>2, <1>3

(* What a run publishes with its receipt, of either kind. *)
LEMMA Published ==
  ASSUME TypeOK, Shape, ScansByRun, DocumentsStored, Prepared,
         WriteReceipt \/ FinishReceipt
  PROVE  /\ Whole("receipt")' /\ Whole("evidence") /\ code' = ""
         /\ \A n \in Files : n # "receipt" => dir'[n] = dir[n]
         /\ UNCHANGED <<scans, resolved, image, wish>>
         /\ dir'["receipt"].holds.evidence_digest = Sha256(Evidence_)
         /\ dir'["receipt"].holds.scanned_artifact_digest = resolved.manifest_digest
         /\ Evidence_.manifest_digest = resolved.manifest_digest
<1> USE DEF Stored, Launched, Quiescent, world, local, arguments
<1>1. pc \in {"receipt", "finish_receipt"} /\ UNCHANGED <<scans, resolved, image, wish, code>>
  BY DEF WriteReceipt, FinishReceipt, Advance
<1>2. /\ runs \in RunIds /\ code = ""
      /\ Whole("evidence") /\ Evidence_.manifest_digest = resolved.manifest_digest
  BY <1>1, AtWork DEF Shape, Prepared, Working, PCs
<1>3. PICK x \in Receipts :
        /\ Write("receipt", x) /\ x.evidence_digest = Sha256(Evidence_)
        /\ x.scanned_artifact_digest = resolved.manifest_digest
  <2>1. CASE WriteReceipt
    <3>1. pc = "receipt" /\ Write("receipt", draft)
      BY <2>1 DEF WriteReceipt
    <3>2. /\ draft = MapReport(raw, resolved.manifest_digest, "pinned", Sha256(Evidence_))
          /\ draft \in Receipts
      BY <3>1 DEF Prepared, TypeOK, Shape
    <3>3. /\ draft.evidence_digest = Sha256(Evidence_)
          /\ draft.scanned_artifact_digest = resolved.manifest_digest
      BY <3>2 DEF MapReport, Receipt
    <3> QED
      BY <3>1, <3>2, <3>3
  <2>2. CASE FinishReceipt
    <3> DEFINE x == InconclusiveReceipt(resolved.manifest_digest, "pinned",
                                        Sha256(dir["evidence"].holds))
    <3>1. pc = "finish_receipt" /\ Write("receipt", x)
      BY <2>2 DEF FinishReceipt
    <3>2. x \in Receipts
      BY <3>1, DraftType
    <3>3. /\ x.evidence_digest = Sha256(Evidence_)
          /\ x.scanned_artifact_digest = resolved.manifest_digest
      BY DEF InconclusiveReceipt, Receipt, Evidence_
    <3> QED
      BY <3>1, <3>2, <3>3
  <2> QED
    BY <2>1, <2>2
<1>4. /\ "receipt" \in Files \ {"raw"} /\ x \in Holdings("receipt") /\ x # Torn
      /\ DirectoryTyped /\ DOMAIN dir = Files
  BY MarksAreNoRecords DEF Files, Holdings, TypeOK, DirectoryTyped
<1>5. /\ dir'["receipt"] # None /\ dir'["receipt"].holds = x
      /\ \A n \in Files : n # "receipt" => dir'[n] = dir[n]
  BY <1>2, <1>3, <1>4, Writes, WriteTyped
<1> QED
  BY <1>1, <1>2, <1>3, <1>4, <1>5 DEF Whole

(* A decisive receipt names what the accepted report says. *)
LEMMA PublishedVerdict ==
  ASSUME TypeOK, Shape, Prepared, WriteReceipt
  PROVE  /\ pc = "receipt" /\ pc' = "exit0"
         /\ dir'["receipt"].holds.verdict = Verdict(raw)
         /\ Decisive(dir'["receipt"].holds)
<1>1. pc = "receipt" /\ pc' = "exit0" /\ Write("receipt", draft)
  BY DEF WriteReceipt, Advance
<1>2. DOMAIN dir = Files /\ "receipt" \in Files
  BY DEF TypeOK, DirectoryTyped, Files
<1>3. dir'["receipt"].holds = draft
  BY <1>1, <1>2, Writes
<1>4. draft = MapReport(raw, resolved.manifest_digest, "pinned", Sha256(Evidence_))
  BY <1>1 DEF Prepared
<1> QED
  BY <1>1, <1>3, <1>4 DEF MapReport, Receipt, Decisive, Verdict

LEMMA PublishedInconclusive ==
  ASSUME TypeOK, FinishReceipt
  PROVE  /\ pc' = "exit1" /\ ~Decisive(dir'["receipt"].holds)
<1>1. /\ pc' = "exit1"
      /\ Write("receipt", InconclusiveReceipt(resolved.manifest_digest, "pinned",
                                              Sha256(dir["evidence"].holds)))
  BY DEF FinishReceipt, Advance
<1>2. DOMAIN dir = Files /\ "receipt" \in Files
  BY DEF TypeOK, DirectoryTyped, Files
<1>3. dir'["receipt"].holds = InconclusiveReceipt(resolved.manifest_digest, "pinned",
                                                 Sha256(dir["evidence"].holds))
  BY <1>1, <1>2, Writes
<1> QED
  BY <1>1, <1>3 DEF InconclusiveReceipt, Receipt, Decisive

(* A receipt that is earned stays earned, and one that is published is. *)
LEMMA EarnedStep ==
  ASSUME TypeOK, Shape, ScansByRun, DocumentsStored, Progress, Prepared,
         ReceiptEarned, Next
  PROVE  ReceiptEarned'
<1>1. \A k \in RunIds : Conclusive(scans[k]) => scans'[k] = scans[k]
  BY ReportedIsFinal DEF Conclusive
<1>2. CASE dir'["receipt"] = dir["receipt"]
  BY <1>1, <1>2 DEF ReceiptEarned, Whole, Receipt_
<1>3. CASE WriteReceipt
  <2>1. /\ judged \in RunIds /\ Conclusive(scans[judged])
        /\ scans[judged].target = resolved.manifest_digest
    BY <1>3, PublishedVerdict DEF Progress, Shape, Accepted, TypeOK
  <2>2. /\ scans' = scans
        /\ dir'["receipt"].holds.scanned_artifact_digest = resolved.manifest_digest
        /\ dir'["receipt"].holds.verdict = Verdict(scans[judged].report)
    BY <1>3, Published, PublishedVerdict DEF raw
  <2> QED
    BY <2>1, <2>2 DEF ReceiptEarned, Receipt_
<1>4. CASE FinishReceipt
  BY <1>4, PublishedInconclusive DEF ReceiptEarned, Receipt_
<1>5. CASE dir'["receipt"] = None \/ dir'["receipt"].holds = Torn
  BY <1>5 DEF ReceiptEarned, Whole
<1> QED
  BY <1>2, <1>3, <1>4, <1>5, ReceiptStep

LEMMA BacksStep ==
  ASSUME TypeOK, Shape, ScansByRun, DocumentsStored, Progress, Prepared,
         EvidenceBacksReceipt, Next
  PROVE  EvidenceBacksReceipt'
<1>1. CASE dir'["receipt"] = dir["receipt"]
  BY <1>1 DEF EvidenceBacksReceipt, Whole, Receipt_
<1>2. CASE WriteReceipt \/ FinishReceipt
  <2>1. /\ dir'["receipt"].holds.evidence_digest.sha256 = Evidence_
        /\ dir'["receipt"].holds.scanned_artifact_digest = Evidence_.manifest_digest
    <3>1. Sha256(Evidence_).sha256 = Evidence_
      BY DEF Sha256
    <3>2. /\ dir'["receipt"].holds.evidence_digest = Sha256(Evidence_)
          /\ dir'["receipt"].holds.scanned_artifact_digest = resolved.manifest_digest
          /\ Evidence_.manifest_digest = resolved.manifest_digest
      BY <1>2, Published
    <3> QED
      BY <3>1, <3>2
  <2>2. Decisive(dir'["receipt"].holds) =>
          RecordIsComplete(Evidence_.execution) /\ Evidence_.execution.exit_code = 0
    BY <1>2, PublishedVerdict, PublishedInconclusive DEF Progress, Prepared, Accepted
  <2> QED
    BY <2>1, <2>2 DEF EvidenceBacksReceipt, Receipt_
<1>3. CASE dir'["receipt"] = None \/ dir'["receipt"].holds = Torn
  BY <1>3 DEF EvidenceBacksReceipt, Whole
<1> QED
  BY <1>1, <1>2, <1>3, ReceiptStep

(* The files a run cleans away first are still away while later ones go. *)
LEMMA CleanedInOrder ==
  ASSUME TypeOK, Shape, NotYet, Unlink
  PROVE  /\ \A n \in Files : dir'[n] \in {dir[n], None}
         /\ dir'["receipt"] = None
         /\ dir'["evidence"] # None =>
              \A n \in Files \ {"receipt"} : dir'[n] = dir[n]
         /\ dir'["error"] # dir["error"] => dir'["evidence"] = None
<1>1. pc = "clean" /\ Remove(StaleNames[cleaned + 1]) /\ DOMAIN dir = Files
  BY DEF Unlink, TypeOK, DirectoryTyped
<1>2. cleaned \in Nat /\ cleaned < 7
  <2>1. cleaned \in 0..Len(StaleNames) /\ cleaned < Len(StaleNames)
    BY <1>1 DEF TypeOK, Shape
  <2> QED
    BY <2>1, StaleOrder
<1>3. /\ dir'[StaleNames[cleaned + 1]] = None
      /\ \A n \in Files : n # StaleNames[cleaned + 1] => dir'[n] = dir[n]
  BY <1>1, <1>2, StaleOrder, Removes
<1>4. \A i \in 1..cleaned : dir[StaleNames[i]] = None
  BY <1>1 DEF NotYet
<1>5. {"receipt", "evidence", "error"} \subseteq Files
  BY DEF Files
<1>6. CASE cleaned = 0
  BY <1>3, <1>5, <1>6, StaleOrder
<1>7. CASE cleaned >= 1
  <2>1. dir["receipt"] = None
    BY <1>2, <1>4, <1>7, StaleOrder
  <2>2. CASE cleaned = 1
    BY <1>3, <1>5, <2>1, <2>2, StaleOrder
  <2>3. CASE cleaned >= 2
    <3>1. dir["evidence"] = None
      BY <1>2, <1>4, <2>3, StaleOrder
    <3> QED
      BY <1>3, <1>5, <2>1, <3>1
  <2> QED
    BY <1>2, <1>7, <2>2, <2>3
<1> QED
  BY <1>2, <1>6, <1>7

LEMMA DanglesStep ==
  ASSUME TypeOK, Shape, ScansByRun, NotYet, DocumentsStored, Prepared,
         NothingDangles, Next
  PROVE  NothingDangles'
<1> USE DEF Quiescent, Launched, Resolved, Stored, Working, PCs, world, local, arguments
<1> DEFINE documents == {"identity", "manifest", "index"}
<1>0. /\ DOMAIN dir = Files /\ documents \union {"receipt", "evidence"} \subseteq Files
      /\ NotYet'
  BY NotYetStep DEF TypeOK, DirectoryTyped, Files
<1>1. ASSUME \A n \in documents \union {"evidence"} : dir'[n] = dir[n],
             \/ dir'["receipt"] \in {dir["receipt"], None}
             \/ dir'["receipt"].holds = Torn
      PROVE  NothingDangles'
  BY <1>1 DEF NothingDangles, Whole, Receipt_, Evidence_
<1>2. ASSUME dir'["receipt"] = None, ~Whole("evidence")'
      PROVE  NothingDangles'
  BY <1>2 DEF NothingDangles, Whole
<1>3. ASSUME \A n \in documents \union {"evidence"} : n \notin Written,
             ~Unlink, ~WriteIndex, ~SpoilManifest, ~WriteReceipt, ~FinishReceipt
      PROVE  NothingDangles'
  <2>1. \A n \in documents \union {"evidence"} : dir'[n] = dir[n]
    BY <1>0, <1>3, FileStep
  <2> QED
    BY <1>1, <1>3, <2>1, ReceiptStep
<1>4. CASE Unlink
  <2>1. CASE dir'["evidence"] = None
    BY <1>2, <1>4, <2>1, CleanedInOrder DEF Whole
  <2>2. CASE dir'["evidence"] # None
    <3>1. \A n \in documents \union {"evidence"} : dir'[n] = dir[n]
      BY <1>0, <1>4, <2>2, CleanedInOrder
    <3> QED
      BY <1>1, <1>4, <3>1, CleanedInOrder
  <2> QED
    BY <2>1, <2>2
<1>5. ASSUME pc \in Resolved
      PROVE  NothingDangles'
  <2>1. /\ "evidence" \notin Written /\ "receipt" \notin Written
        /\ dir["evidence"] = None /\ dir["receipt"] = None
    BY <1>5 DEF Written, NotYet
  <2>2. dir'["evidence"] = None /\ dir'["receipt"] = None
    BY <1>0, <2>1, FileStep
  <2> QED
    BY <1>2, <2>2 DEF Whole
<1>6. CASE WriteReceipt \/ FinishReceipt
  <2>1. /\ Whole("evidence") /\ \A n \in Files : n # "receipt" => dir'[n] = dir[n]
        /\ dir'["receipt"].holds.evidence_digest = Sha256(Evidence_)
    BY <1>6, Published
  <2>2. \A n \in documents \union {"evidence"} : dir'[n] = dir[n]
    BY <1>0, <2>1
  <2> QED
    BY <2>1, <2>2 DEF NothingDangles, Whole, Receipt_, Evidence_
<1>7. CASE WriteEvidence \/ FinishEvidence
  <2>1. /\ pc \in {"evidence", "finish"} /\ Write("evidence", EvidenceRecord)
    BY <1>7 DEF WriteEvidence, FinishEvidence
  <2>2. dir["receipt"] = None
    BY <2>1 DEF NotYet
  <2>3. /\ dir'["evidence"].holds = EvidenceRecord /\ dir'["receipt"] = None
        /\ \A n \in documents : dir'[n] = dir[n]
    BY <1>0, <2>1, <2>2, Writes
  <2>4. /\ resolved \in Identities /\ resolved.manifest_digest \in Digests
        /\ resolved.root_digest \in Digests
    BY <2>1, AtWork
  <2>5. /\ Holds("identity", resolved)
        /\ Holds("manifest", resolved.manifest_digest.sha256)
        /\ IF HasIndex THEN Holds("index", resolved.root_digest.sha256)
                       ELSE dir["index"] = None
    BY <2>1 DEF DocumentsStored
  <2>6. /\ resolved # Torn /\ resolved.manifest_digest.sha256 # Torn
        /\ resolved.root_digest.sha256 # Torn
        /\ Sha256(resolved.manifest_digest.sha256) = resolved.manifest_digest
    BY <2>4, DigestNames, Distinct, MarksAreNoRecords
  <2>7. /\ EvidenceRecord.identity_sha256 = Sha256(dir["identity"].holds)
        /\ EvidenceRecord.manifest_digest = resolved.manifest_digest
        /\ EvidenceRecord.index_sha256 =
             IF dir["index"] = None THEN None ELSE Sha256(dir["index"].holds)
    BY DEF EvidenceRecord
  <2>8. /\ Whole("identity") /\ Whole("manifest")
        /\ EvidenceRecord.manifest_digest = Sha256(dir["manifest"].holds)
        /\ dir["index"] # None => Whole("index")
    BY <2>5, <2>6, <2>7 DEF Holds, Whole
  <2> QED
    BY <2>3, <2>7, <2>8 DEF NothingDangles, Whole, Evidence_
<1>8. CASE Crash
  <2>1. CASE pc \in {"evidence", "finish"}
    <3>1. dir["receipt"] = None /\ Written = {"evidence"}
      BY <2>1 DEF NotYet, Written
    <3>2. CASE UNCHANGED dir
      BY <1>1, <3>2
    <3>3. CASE Write("evidence", Torn)
      <4>1. dir'["evidence"].holds = Torn /\ dir'["receipt"] = None
        BY <1>0, <3>1, <3>3, Writes
      <4> QED
        BY <1>2, <4>1 DEF Whole
    <3> QED
      BY <1>8, <3>1, <3>2, <3>3 DEF Crash
  <2>2. CASE pc \notin {"evidence", "finish"} \union Resolved
    <3>1. \A n \in documents \union {"evidence"} : n \notin Written
      BY <2>2 DEF Written
    <3>2. ~Unlink /\ ~WriteReceipt /\ ~FinishReceipt /\ ~WriteIndex /\ ~SpoilManifest
      BY <1>8, <2>2 DEF Crash, Unlink, WriteReceipt, FinishReceipt, WriteIndex,
           SpoilManifest, Advance
    <3> QED
      BY <1>3, <3>1, <3>2
  <2> QED
    BY <1>5, <2>1, <2>2
<1>9. CASE UpdateDatabase \/ \E k \in RunIds : ScannerExits(k)
  <2>1. \A n \in documents \union {"evidence", "receipt"} : dir'[n] = dir[n]
    BY <1>0, <1>9 DEF UpdateDatabase, ScannerExits
  <2> QED
    BY <1>1, <2>1
<1>10. CASE WriteError
  <2>1. \A n \in documents \union {"evidence", "receipt"} : dir'[n] = dir[n]
    <3>1. Write("error", code) /\ "error" \in Files
      BY <1>10 DEF WriteError, Files
    <3> QED
      BY <1>0, <3>1, Writes
  <2> QED
    BY <1>1, <2>1
<1>11. CASE UNCHANGED dir
  BY <1>1, <1>11
<1>12. CASE (\E r \in Requested, p \in Wishes : Begin(r, p)) \/ Launch \/ MapVerdict
  BY <1>11, <1>12 DEF Begin, Launch, MapVerdict
<1>13. CASE CheckReference \/ CheckBinary \/ CheckVersion \/ ResolveImage
  BY <1>11, <1>13 DEF CheckReference, CheckBinary, CheckVersion, ResolveImage
<1>14. CASE ScanReturns \/ ScanRaises \/ Judge
  BY <1>11, <1>14 DEF ScanReturns, ScanRaises, Judge, JudgeExit, JudgeOutput, JudgeReport,
       JudgedBy
<1>15. CASE WriteIdentity \/ WriteManifest \/ WriteIndex \/ CheckManifest \/ SpoilManifest
  BY <1>5, <1>15 DEF WriteIdentity, WriteManifest, WriteIndex, CheckManifest, SpoilManifest
<1> QED
  BY <1>4, <1>6, <1>7, <1>8, <1>9, <1>10, <1>12, <1>13, <1>14, <1>15 DEF Next, OwnStep

LEMMA AloneStep ==
  ASSUME TypeOK, Shape, ScansByRun, NotYet, FailureStandsAlone, Next
  PROVE  FailureStandsAlone'
<1> USE DEF Quiescent, Launched, Resolved, Stored, Working, PCs, world, local, arguments
<1>0. DOMAIN dir = Files /\ {"error", "evidence", "receipt"} \subseteq Files
  BY DEF TypeOK, DirectoryTyped, Files
<1>1. ASSUME dir'["error"] \in {dir["error"], None},
             dir'["evidence"] \in {dir["evidence"], None},
             dir'["receipt"] \in {dir["receipt"], None}
      PROVE  FailureStandsAlone'
  BY <1>1 DEF FailureStandsAlone, Whole
<1>2. CASE Unlink
  BY <1>0, <1>1, <1>2, CleanedInOrder
<1>3. ASSUME pc \in Working, "error" \notin Written
      PROVE  FailureStandsAlone'
  <2>1. dir["error"] = None
    BY <1>3 DEF NotYet
  <2>2. dir'["error"] = None
    BY <1>0, <1>3, <2>1, FileStep
  <2> QED
    BY <2>2 DEF FailureStandsAlone, Whole
<1>4. CASE pc = "fail"
  <2>1. /\ dir["evidence"] = None /\ dir["receipt"] = None
        /\ "evidence" \notin Written /\ "receipt" \notin Written
    BY <1>4 DEF NotYet, Written
  <2>2. dir'["evidence"] = None /\ dir'["receipt"] = None
    BY <1>0, <2>1, FileStep
  <2> QED
    BY <2>2 DEF FailureStandsAlone
<1>5. CASE pc \in Working \ {"fail"}
  BY <1>3, <1>5 DEF Written
<1>6. CASE pc \in Quiescent \union {"clean"} /\ ~Unlink
  <2>1. \A n \in {"error", "evidence", "receipt"} : n \notin Written
    BY <1>6 DEF Written
  <2> QED
    BY <1>0, <1>1, <1>6, <2>1, FileStep
<1> QED
  BY <1>2, <1>4, <1>5, <1>6 DEF TypeOK

LEMMA ChainStep ==
  ASSUME TypeOK, Shape, ScansByRun, DocumentsStored, Prepared, SettledChain, Next
  PROVE  SettledChain'
<1> USE DEF Quiescent, Launched, Resolved, Stored, Settled, world, local, arguments
<1>0. /\ DOMAIN dir = Files
      /\ {"receipt", "identity", "manifest", "index"} \subseteq Files
  BY DEF TypeOK, DirectoryTyped, Files
<1>1. CASE WriteReceipt \/ FinishReceipt
  <2>1. /\ Whole("receipt")' /\ UNCHANGED <<resolved, image, wish>>
        /\ \A n \in {"identity", "manifest", "index"} : dir'[n] = dir[n]
        /\ dir'["receipt"].holds.scanned_artifact_digest = resolved.manifest_digest
    BY <1>0, <1>1, Published
  <2>2. pc' \in {"exit0", "exit1"} /\ (Decisive(dir'["receipt"].holds) <=> pc' = "exit0")
    BY <1>1, PublishedVerdict, PublishedInconclusive
  <2>3. /\ pc \in Stored /\ dir["identity"].holds = resolved
        /\ dir["manifest"].holds = resolved.manifest_digest.sha256
        /\ IF HasIndex THEN Holds("index", resolved.root_digest.sha256)
                       ELSE dir["index"] = None
    BY <1>1 DEF WriteReceipt, FinishReceipt, DocumentsStored, Holds
  <2>4. /\ Chain(resolved, image, wish) /\ resolved.root_digest = image.digest
        /\ Sha256(resolved.manifest_digest.sha256) = resolved.manifest_digest
        /\ Sha256(resolved.root_digest.sha256) = resolved.root_digest
    BY <2>3, AtWork, DigestNames DEF Resolutions, Working, PCs
  <2>5. /\ Sha256(dir["manifest"].holds) = resolved.manifest_digest
        /\ (dir["index"] = None) <=> (resolved.root_digest = resolved.manifest_digest)
        /\ dir["index"] # None => Sha256(dir["index"].holds) = image.digest
    BY <2>3, <2>4 DEF HasIndex, Holds
  <2> HIDE DEF Settled
  <2> QED
    BY <2>1, <2>2, <2>3, <2>4, <2>5 DEF SettledChain, Receipt_
<1>2. CASE WriteError
  BY <1>2 DEF WriteError, Advance, Shape, SettledChain
<1>3. CASE UpdateDatabase \/ SpoilManifest \/ \E k \in RunIds : ScannerExits(k)
  <2>1. UNCHANGED <<pc, code, image, wish>>
    BY <1>3 DEF UpdateDatabase, SpoilManifest, ScannerExits
  <2>2. Settled => \A n \in {"receipt", "identity", "manifest", "index"} : dir'[n] = dir[n]
    BY <1>0, <1>3 DEF UpdateDatabase, SpoilManifest, ScannerExits
  <2> QED
    BY <2>1, <2>2 DEF SettledChain, Whole, Receipt_
<1>4. CASE ~Settled'
  BY <1>4 DEF SettledChain
<1>5. CASE (\E r \in Requested, p \in Wishes : Begin(r, p)) \/ Unlink \/ Crash
  BY <1>4, <1>5 DEF Begin, Unlink, Crash
<1>6. CASE CheckReference
  <2>1. image.kind \in {"malformed", "tag", "digest"}
    BY <1>6, AtWork DEF CheckReference, References, Working, PCs
  <2> QED
    BY <1>4, <1>6, <2>1 DEF CheckReference, Fail, Advance
<1>7. CASE CheckBinary \/ CheckVersion \/ ResolveImage \/ CheckManifest
  BY <1>4, <1>7 DEF CheckBinary, CheckVersion, ResolveImage, CheckManifest, Fail, Advance
<1>8. CASE WriteIdentity \/ WriteManifest \/ WriteIndex \/ WriteEvidence \/ FinishEvidence
  BY <1>4, <1>8 DEF WriteIdentity, WriteManifest, WriteIndex, WriteEvidence,
       FinishEvidence, Advance
<1>9. CASE Launch \/ ScanReturns \/ ScanRaises \/ Judge \/ MapVerdict
  BY <1>4, <1>9 DEF Launch, ScanReturns, ScanRaises, Judge, JudgeExit, JudgeOutput,
       JudgeReport, JudgedBy, Decline, MapVerdict
<1> QED
  BY <1>1, <1>2, <1>3, <1>5, <1>6, <1>7, <1>8, <1>9 DEF Next, OwnStep

-----------------------------------------------------------------------------
LEMMA InitInvariant == Init => IInv
<1> SUFFICES ASSUME Init
             PROVE  IInv
  OBVIOUS
<1> USE DEF Init, Quiescent, Launched, Resolved, Stored, Accepted, Working
<1>0. \A n \in Files : dir[n] = None
  OBVIOUS
<1>1. DirectoryTyped
  BY <1>0 DEF DirectoryTyped, Files
<1>2. TypeOK
  <2>1. 0 \in 0..MaxUpdates /\ 0 \in 0..MaxRuns /\ 0 \in 0..Len(StaleNames)
    BY Numbers, StaleOrder, Zenon
  <2> QED
    BY <1>1, <2>1 DEF TypeOK, PCs
<1>3. Shape
  BY <1>0 DEF Shape
<1>4. ScansByRun
  BY <1>0 DEF ScansByRun, Running, Files
<1>5. NotYet /\ DocumentsStored /\ Progress /\ Prepared
  BY DEF NotYet, DocumentsStored, Progress, Prepared, PCs
<1>6. {"receipt", "evidence", "error"} \subseteq Files
  BY DEF Files
<1>7. ReceiptEarned /\ EvidenceBacksReceipt /\ NothingDangles
  BY <1>0, <1>6 DEF ReceiptEarned, EvidenceBacksReceipt, NothingDangles, Whole
<1>8. FailureStandsAlone /\ SettledChain
  BY <1>0, <1>6 DEF FailureStandsAlone, SettledChain, Settled, Whole
<1> QED
  BY <1>2, <1>3, <1>4, <1>5, <1>7, <1>8 DEF IInv

LEMMA StutterInvariant == IInv /\ UNCHANGED vars => IInv'
<1> SUFFICES ASSUME IInv, UNCHANGED vars
             PROVE  IInv'
  OBVIOUS
<1> USE DEF vars, world, local, arguments
<1>1. TypeOK'
  BY DirectoryFrame DEF IInv, TypeOK
<1>2. Shape' /\ ScansByRun'
  <2>1. Shape'
    BY DEF IInv, Shape
  <2>2. ScansByRun'
    BY DEF IInv, ScansByRun, Running
  <2> QED
    BY <2>1, <2>2
<1>3. NotYet' /\ DocumentsStored'
  BY DEF IInv, NotYet, DocumentsStored, Holds, Whole, HasIndex
<1>4. Progress' /\ Prepared'
  BY DEF IInv, Progress, Prepared, raw, Whole, Evidence_
<1>5. ReceiptEarned' /\ EvidenceBacksReceipt'
  BY DEF IInv, ReceiptEarned, EvidenceBacksReceipt, Whole, Receipt_
<1>6. NothingDangles' /\ FailureStandsAlone'
  BY DEF IInv, NothingDangles, FailureStandsAlone, Whole, Receipt_, Evidence_
<1>7. SettledChain'
  BY DEF IInv, SettledChain, Settled, Whole, Receipt_
<1> QED
  BY <1>1, <1>2, <1>3, <1>4, <1>5, <1>6, <1>7 DEF IInv

LEMMA StepInvariant == IInv /\ [Next]_vars => IInv'
<1> SUFFICES ASSUME IInv, [Next]_vars
             PROVE  IInv'
  OBVIOUS
<1>1. CASE Next
  BY <1>1, ShapeStep, ScansStep, NotYetStep, DocumentsStep, ProgressStep, PreparedStep,
     EarnedStep, BacksStep, DanglesStep, AloneStep, ChainStep DEF IInv
<1>2. CASE UNCHANGED vars
  BY <1>2, StutterInvariant
<1> QED
  BY <1>1, <1>2

(* The inductive invariant, for any images, documents, reports, exit codes and
   number of runs, whether or not scanners outlive their producer. *)
THEOREM Invariance == Spec => []IInv
BY InitInvariant, StepInvariant, PTL DEF Spec

(* The variables keep their types. *)
THEOREM TypeCorrect == Spec => []TypeOK
<1>1. IInv => TypeOK
  BY DEF IInv
<1> QED
  BY <1>1, Invariance, PTL

(* No run publishes a clean or findings receipt that a conclusive scan of
   exactly the manifest it names did not justify. *)
THEOREM ReceiptsAreEarned == Spec => []ReceiptEarned
<1>1. IInv => ReceiptEarned
  BY DEF IInv
<1> QED
  BY <1>1, Invariance, PTL

(* No receipt says more than the evidence it binds. *)
THEOREM EvidenceBacks == Spec => []EvidenceBacksReceipt
<1>1. IInv => EvidenceBacksReceipt
  BY DEF IInv
<1> QED
  BY <1>1, Invariance, PTL

(* The order in which run() removes and writes its files never leaves a receipt
   without its evidence or evidence without its documents. *)
THEOREM DirectoryIsClosed == Spec => []NothingDangles
<1>1. IInv => NothingDangles
  BY DEF IInv
<1> QED
  BY <1>1, Invariance, PTL

(* An error of _fail stands beside neither evidence nor receipt. *)
THEOREM FailuresStandAlone == Spec => []FailureStandsAlone
<1>1. IInv => FailureStandsAlone
  BY DEF IInv
<1> QED
  BY <1>1, Invariance, PTL

(* A run that returns a receipt leaves the whole chain from the digest it was
   asked for to the digest it reports. *)
THEOREM ChainsAreComplete == Spec => []SettledChain
<1>1. IInv => SettledChain
  BY DEF IInv
<1> QED
  BY <1>1, Invariance, PTL

(* map_image_report, which judges report and record again, never refuses what
   run() has accepted. *)
THEOREM MapperAgrees == Spec => []MappingNeverRefuses
<1>1. IInv => MappingNeverRefuses
  BY AcceptedMaps DEF IInv
<1> QED
  BY <1>1, Invariance, PTL

-----------------------------------------------------------------------------
(***************************************************************************)
(* When no scanner outlives its producer: every file is the run's own, and *)
(* the promise is kept.                                                    *)
(***************************************************************************)
Own == NoOrphans /\ NothingStale /\ OwnReportSatisfies

LEMMA DirectoryChange ==
  ASSUME TypeOK, Shape, Next, ~(\E k \in RunIds : ScannerExits(k))
  PROVE  \/ UNCHANGED dir \/ \E n \in Files : Remove(n)
         \/ \E n \in Files : \E x : Write(n, x)
<1> USE DEF world, local, arguments
<1>1. CASE Unlink
  <2>1. cleaned \in 0..Len(StaleNames) /\ cleaned < Len(StaleNames)
    BY <1>1 DEF Unlink, TypeOK, Shape
  <2>2. cleaned + 1 \in 1..7
    BY <2>1, StaleOrder
  <2>3. StaleNames[cleaned + 1] \in Files
    BY <2>2, StaleOrder
  <2> QED
    BY <1>1, <2>3 DEF Unlink
<1>2. CASE Crash
  <2>1. Written \subseteq Files
    BY DEF Written, Files
  <2> QED
    BY <1>2, <2>1 DEF Crash
<1>3. CASE WriteIdentity \/ WriteManifest
  BY <1>3 DEF WriteIdentity, WriteManifest, Files
<1>4. CASE WriteIndex \/ CheckManifest
  <2>1. {"index", "raw"} \subseteq Files
    BY DEF Files
  <2> QED
    BY <1>4, <2>1 DEF WriteIndex, CheckManifest
<1>5. CASE SpoilManifest
  <2>1. "manifest" \in Files
    BY DEF Files
  <2> QED
    BY <1>5, <2>1 DEF SpoilManifest
<1>6. CASE WriteEvidence \/ WriteReceipt \/ WriteError
  BY <1>6 DEF WriteEvidence, WriteReceipt, WriteError, Files
<1>7. CASE FinishEvidence \/ FinishReceipt
  <2>1. {"evidence", "receipt"} \subseteq Files
    BY DEF Files
  <2> QED
    BY <1>7, <2>1 DEF FinishEvidence, FinishReceipt
<1>8. CASE (\E r \in Requested, p \in Wishes : Begin(r, p)) \/ UpdateDatabase \/ Launch
  BY <1>8 DEF Begin, UpdateDatabase, Launch
<1>9. CASE CheckReference \/ CheckBinary \/ CheckVersion \/ ResolveImage
  BY <1>9 DEF CheckReference, CheckBinary, CheckVersion, ResolveImage
<1>10. CASE ScanReturns \/ ScanRaises \/ Judge \/ MapVerdict
  BY <1>10 DEF ScanReturns, ScanRaises, Judge, JudgeExit, JudgeOutput, JudgeReport,
       JudgedBy, MapVerdict
<1> QED
  BY <1>1, <1>2, <1>3, <1>4, <1>5, <1>6, <1>7, <1>8, <1>9, <1>10 DEF Next, OwnStep

(* A run cleans up once. *)
LEMMA CleanedStays ==
  ASSUME Next, ~Unlink, pc' \notin {"idle", "clean"}, TypeOK, Shape
  PROVE  UNCHANGED <<runs, cleaned>>
<1> USE DEF world, local, arguments, Quiescent
<1>1. CASE (\E r \in Requested, p \in Wishes : Begin(r, p)) \/ Crash \/ Launch
  BY <1>1 DEF Begin, Crash, Launch
<1>2. CASE UpdateDatabase \/ SpoilManifest \/ \E k \in RunIds : ScannerExits(k)
  BY <1>2 DEF UpdateDatabase, SpoilManifest, ScannerExits
<1>3. CASE CheckReference
  <2>1. image.kind \in {"malformed", "tag", "digest"}
    BY <1>3, AtWork DEF CheckReference, References, Working, PCs
  <2> QED
    BY <1>3, <2>1 DEF CheckReference, Fail, Advance
<1>4. CASE CheckBinary \/ CheckVersion \/ ResolveImage \/ CheckManifest
  BY <1>4 DEF CheckBinary, CheckVersion, ResolveImage, CheckManifest, Fail, Advance
<1>5. CASE WriteIdentity \/ WriteManifest \/ WriteIndex \/ WriteEvidence
           \/ FinishEvidence \/ FinishReceipt \/ WriteReceipt \/ WriteError
  BY <1>5 DEF WriteIdentity, WriteManifest, WriteIndex, WriteEvidence,
       FinishEvidence, FinishReceipt, WriteReceipt, WriteError, Advance
<1>6. CASE ScanReturns \/ ScanRaises \/ Judge \/ MapVerdict
  BY <1>6 DEF ScanReturns, ScanRaises, Judge, JudgeExit, JudgeOutput,
       JudgeReport, JudgedBy, Decline, MapVerdict
<1> QED
  BY <1>1, <1>2, <1>3, <1>4, <1>5, <1>6 DEF Next, OwnStep

LEMMA StaleStep ==
  ASSUME IInv, Own, Next
  PROVE  NothingStale'
<1>0. /\ TypeOK /\ Shape /\ NotYet /\ DOMAIN dir = Files /\ Len(StaleNames) = 7
      /\ Len(StaleNames)' = Len(StaleNames)
  BY StaleOrder DEF IInv, TypeOK, DirectoryTyped, StaleNames
<1> SUFFICES ASSUME pc' \notin {"idle", "clean"}, cleaned' = 7
             PROVE  \A n \in Files : dir'[n] # None => dir'[n].by = runs'
  BY <1>0 DEF NothingStale
<1>1. CASE Unlink
  <2>1. cleaned + 1 = 7 /\ pc = "clean" /\ Remove(StaleNames[7])
    <3>1. cleaned' = cleaned + 1 /\ pc = "clean" /\ Remove(StaleNames[cleaned + 1])
      BY <1>1 DEF Unlink
    <3>2. cleaned \in 0..7
      BY <1>0 DEF TypeOK
    <3> QED
      BY <3>1, <3>2
  <2>2. cleaned = 6
    <3>1. cleaned \in 0..7
      BY <1>0 DEF TypeOK
    <3> QED
      BY <2>1, <3>1
  <2>3. \A i \in 1..6 : dir[StaleNames[i]] = None
    BY <1>0, <2>1, <2>2 DEF NotYet
  <2>4. dir'["raw"] = None /\ \A n \in Files : n # "raw" => dir'[n] = dir[n]
    BY <1>0, <2>1, StaleOrder, Removes
  <2>5. \A n \in Files : n # "raw" => \E i \in 1..6 : n = StaleNames[i]
    <3>1. 1 \in 1..6 /\ 2 \in 1..6 /\ 3 \in 1..6 /\ 4 \in 1..6 /\ 5 \in 1..6 /\ 6 \in 1..6
      OBVIOUS
    <3> QED
      BY <3>1, StaleOrder DEF Files
  <2> QED
    BY <2>3, <2>4, <2>5
<1>2. CASE ~Unlink
  <2>1. /\ pc \notin {"idle", "clean"} /\ runs' = runs /\ cleaned = 7
    <3>1. pc = "clean" => cleaned # 7
      <4>1. pc = "clean" => cleaned < Len(StaleNames)
        BY <1>0 DEF Shape
      <4> QED
        BY <1>0, <4>1
    <3>2. pc = "idle" => pc' \in {"idle", "clean"}
      BY <1>2 DEF Next, OwnStep, Judge, Begin, CheckReference, CheckBinary, CheckVersion,
           ResolveImage, WriteIdentity, WriteManifest, WriteIndex, CheckManifest, Launch,
           ScanReturns, ScanRaises, JudgeExit, JudgeOutput, JudgeReport, WriteEvidence,
           MapVerdict, WriteReceipt, WriteError, FinishEvidence, FinishReceipt, Crash,
           UpdateDatabase, SpoilManifest, ScannerExits, Quiescent
    <3> QED
      BY <1>0, <1>2, <3>1, <3>2, CleanedStays
  <2>2. \A n \in Files : dir[n] # None => dir[n].by = runs
    BY <1>0, <2>1 DEF Own, NothingStale
  <2>3. CASE \E k \in RunIds : ScannerExits(k)
    <3> PICK k \in RunIds :
          /\ Running(k)
          /\ UNCHANGED dir \/ dir' = [dir EXCEPT !["raw"] = [by |-> k, holds |-> k]]
      BY <2>3 DEF ScannerExits
    <3>1. k = runs
      BY DEF Own, NoOrphans
    <3>2. CASE dir' = [dir EXCEPT !["raw"] = [by |-> k, holds |-> k]]
      <4>1. "raw" \in Files
        BY DEF Files
      <4>2. dir'["raw"] = [by |-> k, holds |-> k]
            /\ \A n \in Files : n # "raw" => dir'[n] = dir[n]
        BY <1>0, <3>2, <4>1
      <4>3. dir'["raw"].by = runs'
        BY <2>1, <3>1, <4>2
      <4> QED
        BY <2>1, <2>2, <4>2, <4>3
    <3> QED
      BY <2>1, <2>2, <3>2
  <2>4. CASE UNCHANGED dir
    BY <2>1, <2>2, <2>4
  <2>5. CASE \E n \in Files : Remove(n)
    BY <1>0, <2>1, <2>2, <2>5, Removes
  <2>6. CASE \E n \in Files : \E x : Write(n, x)
    <3> PICK n \in Files : \E x : Write(n, x)
      BY <2>6
    <3> PICK x : Write(n, x)
      OBVIOUS
    <3> QED
      BY <1>0, <2>1, <2>2, Writes
  <2> QED
    BY <1>0, <2>3, <2>4, <2>5, <2>6, DirectoryChange
<1> QED
  BY <1>1, <1>2

LEMMA RunningStep ==
  ASSUME ~OrphansSurvive, IInv, Own, Next
  PROVE  NoOrphans'
<1> USE Distinct
<1> USE DEF Quiescent, Launched, Stored, Working, PCs, world, local, arguments
<1>0. /\ TypeOK /\ Shape /\ ScansByRun /\ NoOrphans
      /\ scans \in [RunIds -> ScanRecords \union {None}]
      /\ pc # "idle" => runs \in RunIds
  BY DEF IInv, Own, TypeOK, Shape
<1>1. ASSUME \A k \in RunIds : Running(k)' => Running(k), UNCHANGED <<runs, judged>>,
             pc = "scan" /\ pc' # "scan" => ~Running(runs)'
      PROVE  NoOrphans'
  BY <1>0, <1>1 DEF NoOrphans
<1>2. CASE \E r \in Requested, p \in Wishes : Begin(r, p)
  BY <1>0, <1>2 DEF Begin, NoOrphans, Running
<1>3. CASE Launch
  BY <1>0, <1>3 DEF Launch, NoOrphans, Running
<1>4. CASE \E k \in RunIds : ScannerExits(k)
  <2> PICK k \in RunIds, report \in Reports \union {None}, exit \in ExitCodes :
        /\ Running(k) /\ UNCHANGED <<runs, judged, pc>>
        /\ scans' = [scans EXCEPT ![k].report = report, ![k].exit = exit]
    BY <1>4 DEF ScannerExits
  <2>1. \A j \in RunIds : Running(j)' => Running(j)
    BY <1>0 DEF Running, ScanRecords
  <2> QED
    BY <1>1, <2>1
<1>5. CASE ScanReturns
  <2>1. /\ pc = "scan" /\ ~Running(runs) /\ UNCHANGED <<scans, runs>>
        /\ judged' = RawReport
    BY <1>5 DEF ScanReturns
  <2>2. judged' # None => dir["raw"] # None /\ judged' = dir["raw"].by
    BY <1>0, <2>1 DEF RawReport, ScansByRun
  <2>3. dir["raw"] # None => dir["raw"].by = runs
    <3>1. cleaned = Len(StaleNames) /\ "raw" \in Files
      BY <1>0, <2>1 DEF Shape, Files
    <3> QED
      BY <2>1, <3>1 DEF Own, NothingStale
  <2> QED
    BY <1>0, <2>1, <2>2, <2>3 DEF NoOrphans, Running
<1>6. ASSUME scans' = [scans EXCEPT ![runs].exit = Killed], runs \in RunIds,
             UNCHANGED <<runs, judged>>
      PROVE  NoOrphans'
  <2>1. \A k \in RunIds : Running(k)' => Running(k) /\ k # runs
    BY <1>0, <1>6 DEF Running, ScanRecords
  <2> QED
    BY <1>0, <1>6, <2>1 DEF NoOrphans
<1>7. CASE ScanRaises
  <2>1. CASE Running(runs)
    BY <1>0, <1>6, <1>7, <2>1 DEF ScanRaises, Decline
  <2>2. CASE ~Running(runs)
    BY <1>0, <1>1, <1>7, <2>2 DEF ScanRaises, Decline, Running
  <2> QED
    BY <2>1, <2>2
<1>8. CASE Crash
  <2>1. CASE scans' = [scans EXCEPT ![runs].exit = Killed]
    BY <1>0, <1>6, <1>8, <2>1 DEF Crash
  <2>2. CASE ~Running(runs) /\ UNCHANGED scans
    BY <1>0, <1>1, <1>8, <2>2 DEF Crash, Running
  <2> QED
    BY <1>8, <2>1, <2>2 DEF Crash
<1>9. ASSUME UNCHANGED <<scans, runs, judged>>, pc # "scan" \/ pc' = "scan"
      PROVE  NoOrphans'
  BY <1>1, <1>9 DEF Running
<1>10. CASE UpdateDatabase \/ SpoilManifest \/ Unlink
  BY <1>9, <1>10 DEF UpdateDatabase, SpoilManifest, Unlink
<1>11. CASE CheckReference
  <2>1. image.kind \in {"malformed", "tag", "digest"}
    BY <1>0, <1>11, AtWork DEF CheckReference, References
  <2> QED
    BY <1>9, <1>11, <2>1 DEF CheckReference, Fail, Advance
<1>12. CASE CheckBinary \/ CheckVersion \/ ResolveImage \/ CheckManifest
  BY <1>9, <1>12 DEF CheckBinary, CheckVersion, ResolveImage, CheckManifest, Fail, Advance
<1>13. CASE WriteIdentity \/ WriteManifest \/ WriteIndex \/ WriteEvidence
            \/ FinishEvidence \/ FinishReceipt \/ WriteReceipt \/ WriteError
  BY <1>9, <1>13 DEF WriteIdentity, WriteManifest, WriteIndex, WriteEvidence,
       FinishEvidence, FinishReceipt, WriteReceipt, WriteError, Advance
<1>14. CASE Judge \/ MapVerdict
  BY <1>9, <1>14 DEF Judge, JudgeExit, JudgeOutput, JudgeReport, JudgedBy, Decline,
       MapVerdict
<1> QED
  BY <1>2, <1>3, <1>4, <1>5, <1>7, <1>8, <1>10, <1>11, <1>12, <1>13, <1>14
     DEF Next, OwnStep

LEMMA OwnReportStep ==
  ASSUME IInv, IInv', Own, NoOrphans', Next
  PROVE  OwnReportSatisfies'
<1> USE DEF world, local, arguments, Accepted, Quiescent
<1>1. CASE pc' \in Accepted
  BY <1>1 DEF IInv, Shape, NoOrphans, OwnReportSatisfies
<1>2. CASE pc' = "exit0" /\ pc \in {"receipt", "exit0"} /\ UNCHANGED <<judged, runs>>
  BY <1>2 DEF Own, OwnReportSatisfies
<1>3. CASE pc' \notin Accepted \union {"exit0"}
  BY <1>3 DEF OwnReportSatisfies
<1>4. CASE WriteReceipt
  BY <1>2, <1>4 DEF WriteReceipt, Advance
<1>5. CASE UpdateDatabase \/ SpoilManifest \/ \E k \in RunIds : ScannerExits(k)
  BY <1>1, <1>2, <1>3, <1>5 DEF UpdateDatabase, SpoilManifest, ScannerExits
<1>6. CASE CheckReference
  <2>1. image.kind \in {"malformed", "tag", "digest"}
    BY <1>6, AtWork DEF CheckReference, References, IInv, Working, PCs
  <2> QED
    BY <1>3, <1>6, <2>1 DEF CheckReference, Fail, Advance
<1>7. CASE Unlink \/ CheckBinary \/ CheckVersion \/ ResolveImage \/ CheckManifest \/ Launch
  BY <1>3, <1>7 DEF Unlink, CheckBinary, CheckVersion, ResolveImage, CheckManifest, Launch,
       Fail, Advance
<1>8. CASE WriteIdentity \/ WriteManifest \/ WriteIndex \/ WriteError
           \/ FinishEvidence \/ FinishReceipt \/ WriteEvidence
  BY <1>1, <1>3, <1>8 DEF WriteIdentity, WriteManifest, WriteIndex, WriteError, WriteEvidence,
       FinishEvidence, FinishReceipt, Advance
<1>9. CASE ScanReturns \/ ScanRaises \/ Judge \/ MapVerdict
  BY <1>1, <1>3, <1>9 DEF ScanReturns, ScanRaises, Judge, JudgeExit, JudgeOutput, JudgeReport,
       JudgedBy, Decline, MapVerdict
<1>10. CASE (\E r \in Requested, p \in Wishes : Begin(r, p)) \/ Crash
  BY <1>3, <1>10 DEF Begin, Crash
<1> QED
  BY <1>4, <1>5, <1>6, <1>7, <1>8, <1>9, <1>10 DEF Next, OwnStep

LEMMA OwnInvariance == ASSUME ~OrphansSurvive PROVE Spec => []Own
<1>1. Init => Own
  BY Distinct DEF Init, Own, NoOrphans, NothingStale, OwnReportSatisfies, Running
<1>2. IInv /\ IInv' /\ Own /\ [Next]_vars => Own'
  <2>1. IInv /\ IInv' /\ Own /\ Next => Own'
    BY StaleStep, RunningStep, OwnReportStep DEF Own
  <2>2. Own /\ UNCHANGED vars => Own'
    BY DEF vars, world, local, arguments, Own, NoOrphans, NothingStale,
           OwnReportSatisfies, Running
  <2> QED
    BY <2>1, <2>2
<1> QED
  BY <1>1, <1>2, Invariance, PTL DEF Spec

(* Once run() has removed the stale files, and whatever happens after that, no
   file is an earlier run's, unless its scanner may still write. *)
THEOREM NothingStays == ASSUME ~OrphansSurvive PROVE Spec => []NothingStale
<1>1. Own => NothingStale
  BY DEF Own
<1> QED
  BY <1>1, OwnInvariance, PTL

(* Removing the raw report before the launch does what its comment says, as long
   as no scanner outlives its producer. *)
THEOREM OwnReportsSatisfy == ASSUME ~OrphansSurvive PROVE Spec => []OwnReportSatisfies
<1>1. Own => OwnReportSatisfies
  BY DEF Own
<1> QED
  BY <1>1, OwnInvariance, PTL

-----------------------------------------------------------------------------
(***************************************************************************)
(* That the producer implements EvidencePromise.                           *)
(***************************************************************************)
LEMMA Silent ==
  ASSUME PromisedPhase' = PromisedPhase, PromisedExposure' = PromisedExposure,
         dir'["receipt"] = dir["receipt"]
  PROVE  UNCHANGED Promise!vars
<1>1. PromisedClaim' = PromisedClaim
  BY DEF PromisedClaim, Receipt_
<1> QED
  BY <1>1 DEF Promise!vars

LEMMA ExposureType ==
  ASSUME NEW scan \in ScanRecords \union {None}, Conclusive(scan)
  PROVE  /\ Exposure(scan) = [content |-> scan.target, answer |-> Verdict(scan.report)]
         /\ Exposure(scan) \in Promise!Exposures
<1>1. Exposure(scan) = [content |-> scan.target, answer |-> Verdict(scan.report)]
  BY DEF Exposure
<1>2. scan \in ScanRecords
  BY DEF Conclusive
<1>3. scan.target \in Digests /\ Verdict(scan.report) \in Promise!Answers
  BY <1>2 DEF ScanRecords, Verdict, Promise!Answers
<1> QED
  BY <1>1, <1>3 DEF Promise!Exposures

(* Nothing is exposed but by an exit. *)
LEMMA ExposureStays ==
  ASSUME TypeOK, Shape, ScansByRun, Next, runs' = runs, runs \in RunIds,
         ~(\E k \in RunIds : ScannerExits(k))
  PROVE  PromisedExposure' = PromisedExposure
<1> USE DEF world, local, arguments
<1>0. runs # 0 /\ scans \in [RunIds -> ScanRecords \union {None}]
  BY Numbers DEF TypeOK
<1>1. CASE Conclusive(scans[runs])
  <2>1. scans'[runs] = scans[runs]
    BY <1>1, ReportedIsFinal DEF Conclusive
  <2> QED
    BY <1>0, <2>1 DEF PromisedExposure
<1>2. CASE ~Conclusive(scans[runs])
  <2>1. ASSUME scans'[runs] = scans[runs] \/ ~Conclusive(scans'[runs])
        PROVE  PromisedExposure' = PromisedExposure
    BY <1>0, <1>2, <2>1 DEF PromisedExposure, Exposure
  <2>2. CASE Launch
    <3>1. scans'[runs].report = None
      BY <1>0, <2>2 DEF Launch
    <3> QED
      BY <2>1, <3>1 DEF Conclusive
  <2>3. CASE Running(runs) /\ scans' = [scans EXCEPT ![runs].exit = Killed]
    <3>1. scans[runs] \in ScanRecords /\ scans[runs].report = None
      BY <1>0, <2>3 DEF Running, ScansByRun
    <3>2. scans'[runs].report = None
      BY <1>0, <2>3, <3>1 DEF ScanRecords
    <3> QED
      BY <2>1, <3>2 DEF Conclusive
  <2>4. CASE UNCHANGED scans
    BY <2>1, <2>4
  <2>5. CASE ScanRaises \/ Crash
    BY <2>3, <2>4, <2>5 DEF ScanRaises, Crash
  <2>6. CASE (\E r \in Requested, p \in Wishes : Begin(r, p)) \/ Unlink
             \/ UpdateDatabase \/ SpoilManifest
    BY <2>4, <2>6 DEF Begin, Unlink, UpdateDatabase, SpoilManifest
  <2>7. CASE CheckReference
    <3>1. image.kind \in {"malformed", "tag", "digest"}
      BY <2>7, AtWork DEF CheckReference, References, Working, PCs, Quiescent
    <3> QED
      BY <2>4, <2>7, <3>1 DEF CheckReference, Fail, Advance
  <2>8. CASE CheckBinary \/ CheckVersion \/ ResolveImage \/ CheckManifest
    BY <2>4, <2>8 DEF CheckBinary, CheckVersion, ResolveImage, CheckManifest, Fail, Advance
  <2>9. CASE WriteIdentity \/ WriteManifest \/ WriteIndex \/ WriteEvidence
             \/ FinishEvidence \/ FinishReceipt \/ WriteReceipt \/ WriteError
    BY <2>4, <2>9 DEF WriteIdentity, WriteManifest, WriteIndex, WriteEvidence,
         FinishEvidence, FinishReceipt, WriteReceipt, WriteError, Advance
  <2>10. CASE ScanReturns \/ Judge \/ MapVerdict
    BY <2>4, <2>10 DEF ScanReturns, Judge, JudgeExit, JudgeOutput, JudgeReport,
         JudgedBy, MapVerdict
  <2> QED
    BY <2>2, <2>5, <2>6, <2>7, <2>8, <2>9, <2>10 DEF Next, OwnStep
<1> QED
  BY <1>1, <1>2

(* A step inside a run that leaves the receipt alone. *)
LEMMA WorkIsSilent ==
  ASSUME IInv, Next, pc \notin Quiescent, pc' \notin Quiescent, runs' = runs,
         dir'["receipt"] = dir["receipt"], ~(\E k \in RunIds : ScannerExits(k))
  PROVE  UNCHANGED Promise!vars
<1>1. runs \in RunIds
  BY DEF IInv, Shape, Quiescent
<1>2. PromisedExposure' = PromisedExposure
  BY <1>1, ExposureStays DEF IInv
<1>3. PromisedPhase' = PromisedPhase
  BY DEF PromisedPhase, Quiescent
<1> QED
  BY <1>2, <1>3, Silent

LEMMA BeginStarts ==
  ASSUME IInv, NEW r \in Requested, NEW p \in Wishes, Begin(r, p)
  PROVE  Promise!Start
<1>1. /\ runs' = runs + 1 /\ runs \in 0..MaxRuns /\ runs < MaxRuns
      /\ pc \in Quiescent /\ pc' = "clean" /\ UNCHANGED <<dir, scans>>
  BY Zenon DEF Begin, IInv, TypeOK
<1>2. runs' \in RunIds /\ runs' > runs /\ runs' # 0
  BY <1>1, Numbers
<1>3. scans'[runs'] = None
  BY <1>1, <1>2 DEF IInv, ScansByRun
<1>4. PromisedExposure' = None
  BY <1>2, <1>3 DEF PromisedExposure, Exposure, Conclusive
<1>5. PromisedPhase \in {"settled", "cut"} /\ PromisedPhase' = "working"
  BY <1>1 DEF Quiescent, PromisedPhase
<1>6. PromisedClaim' = PromisedClaim
  BY <1>1 DEF PromisedClaim, Receipt_
<1> QED
  BY <1>4, <1>5, <1>6 DEF Promise!Start

LEMMA UnlinkRetracts ==
  ASSUME IInv, Next, Unlink
  PROVE  Promise!Retract \/ UNCHANGED Promise!vars
<1> USE DEF world, local, arguments
<1>1. /\ pc = "clean" /\ pc' \in {"clean", "reference"} /\ UNCHANGED <<runs, scans>>
      /\ scans[runs] = None /\ runs \in RunIds
  BY DEF Unlink, IInv, Shape, ScansByRun, Quiescent, Stored, Launched
<1>2. PromisedPhase = "working" /\ PromisedPhase' = "working"
  BY <1>1 DEF PromisedPhase
<1>3. PromisedExposure = None /\ PromisedExposure' = None
  BY <1>1 DEF PromisedExposure, Exposure, Conclusive
<1>4. dir'["receipt"] = None
  BY CleanedInOrder DEF IInv
<1>5. PromisedClaim' = None
  BY <1>4 DEF PromisedClaim
<1> QED
  BY <1>2, <1>3, <1>5 DEF Promise!Retract

LEMMA ExitExposes ==
  ASSUME IInv, Own, Next, NEW k \in RunIds, ScannerExits(k)
  PROVE  Promise!Expose \/ UNCHANGED Promise!vars
<1>1. PICK report \in Reports \union {None}, exit \in ExitCodes :
        /\ Running(k) /\ UNCHANGED <<runs, pc>>
        /\ scans' = [scans EXCEPT ![k].report = report, ![k].exit = exit]
        /\ dir' = IF report = None THEN dir
                  ELSE [dir EXCEPT !["raw"] = [by |-> k, holds |-> k]]
  BY DEF ScannerExits, local
<1>2. /\ k = runs /\ pc = "scan" /\ runs # 0 /\ DOMAIN dir = Files
      /\ scans \in [RunIds -> ScanRecords \union {None}] /\ scans[k].report = None
  BY <1>1, Numbers DEF Own, NoOrphans, IInv, TypeOK, DirectoryTyped, ScansByRun
<1>3. dir'["receipt"] = dir["receipt"]
  BY <1>1, <1>2 DEF Files
<1>4. PromisedPhase = "working" /\ PromisedPhase' = "working"
  BY <1>1, <1>2 DEF PromisedPhase
<1>5. PromisedExposure = None
  BY <1>2 DEF PromisedExposure, Exposure, Conclusive
<1>6. PromisedClaim' = PromisedClaim
  BY <1>3 DEF PromisedClaim, Receipt_
<1>7. CASE Conclusive(scans'[k])
  <2>1. scans'[k] \in ScanRecords \union {None}
    BY ScansTyped DEF IInv
  <2>2. PromisedExposure' = Exposure(scans'[k])
    BY <1>1, <1>2 DEF PromisedExposure
  <2> QED
    BY <1>4, <1>5, <1>6, <1>7, <2>1, <2>2, ExposureType DEF Promise!Expose
<1>8. CASE ~Conclusive(scans'[k])
  <2>1. PromisedExposure' = PromisedExposure
    BY <1>1, <1>2, <1>5, <1>8 DEF PromisedExposure, Exposure
  <2> QED
    BY <1>3, <1>4, <2>1, Silent
<1> QED
  BY <1>7, <1>8

LEMMA ReceiptConcludes ==
  ASSUME IInv, Own, Next, WriteReceipt
  PROVE  Promise!Conclude
<1>1. /\ pc = "receipt" /\ pc' = "exit0" /\ runs \in RunIds /\ runs # 0
      /\ UNCHANGED <<scans, runs>>
  BY Numbers DEF WriteReceipt, Advance, world, IInv, Shape, Quiescent
<1>2. /\ judged = runs /\ Conclusive(scans[runs])
      /\ scans[runs].target = resolved.manifest_digest
      /\ scans[runs] \in ScanRecords \union {None}
  BY <1>1 DEF Own, OwnReportSatisfies, IInv, Progress, Accepted, TypeOK
<1>3. /\ Whole("receipt")' /\ dir'["receipt"].holds.verdict = Verdict(scans[runs].report)
      /\ dir'["receipt"].holds.scanned_artifact_digest = scans[runs].target
  BY <1>2, Published, PublishedVerdict DEF IInv, raw
<1>4. PromisedClaim' = [content |-> scans[runs].target,
                        answer |-> Verdict(scans[runs].report)]
  BY <1>3 DEF PromisedClaim, Whole, Receipt_
<1>5. /\ PromisedExposure = [content |-> scans[runs].target,
                             answer |-> Verdict(scans[runs].report)]
      /\ PromisedExposure' = PromisedExposure
  BY <1>1, <1>2, ExposureType DEF PromisedExposure
<1>6. PromisedExposure # None
  BY <1>1, <1>2, ExposureType, MarksAreNoClaims DEF PromisedExposure, Promise!Exposures,
     Promise!Claims
<1>7. PromisedPhase = "working" /\ PromisedPhase' = "settled"
  BY <1>1 DEF PromisedPhase
<1> QED
  BY <1>4, <1>5, <1>6, <1>7 DEF Promise!Conclude

LEMMA ReceiptDeclines ==
  ASSUME IInv, Next, FinishReceipt
  PROVE  Promise!Decline
<1>1. /\ pc = "finish_receipt" /\ pc' = "exit1" /\ UNCHANGED <<scans, runs>>
  BY DEF FinishReceipt, Advance, world
<1>2. PromisedExposure' = PromisedExposure
  BY <1>1 DEF PromisedExposure
<1>3. /\ DOMAIN dir = Files /\ "receipt" \in Files
      /\ resolved.manifest_digest \in Digests
  BY <1>1, AtWork DEF IInv, TypeOK, DirectoryTyped, Files, Stored, Working, PCs, Quiescent
<1>4. dir'["receipt"].holds.verdict = "inconclusive"
  <2>1. dir'["receipt"].holds = InconclusiveReceipt(resolved.manifest_digest, "pinned",
                                                   Sha256(dir["evidence"].holds))
    BY <1>3, Writes DEF FinishReceipt
  <2> QED
    BY <2>1 DEF InconclusiveReceipt, Receipt
<1>5. /\ Whole("receipt")'
      /\ dir'["receipt"].holds.scanned_artifact_digest = resolved.manifest_digest
  BY Published DEF IInv
<1>6. PromisedClaim' = [content |-> resolved.manifest_digest, answer |-> "inconclusive"]
  BY <1>4, <1>5 DEF PromisedClaim, Whole, Receipt_
<1>7. PromisedPhase = "working" /\ PromisedPhase' = "settled"
  BY <1>1 DEF PromisedPhase
<1> QED
  BY <1>2, <1>3, <1>6, <1>7 DEF Promise!Decline

LEMMA ErrorWithholds ==
  ASSUME IInv, Next, WriteError
  PROVE  Promise!Withhold
<1>1. /\ pc = "fail" /\ pc' = "exit1" /\ UNCHANGED <<scans, runs>>
      /\ Write("error", code)
  BY DEF WriteError, Advance, world
<1>2. dir'["receipt"] = dir["receipt"]
  BY <1>1, Writes DEF IInv, TypeOK, DirectoryTyped, Files
<1>3. PromisedExposure' = PromisedExposure
  BY <1>1 DEF PromisedExposure
<1>4. PromisedClaim' = PromisedClaim
  BY <1>2 DEF PromisedClaim, Receipt_
<1>5. PromisedPhase = "working" /\ PromisedPhase' = "settled"
  BY <1>1 DEF PromisedPhase
<1> QED
  BY <1>3, <1>4, <1>5 DEF Promise!Withhold

LEMMA CrashCuts ==
  ASSUME IInv, Next, Crash
  PROVE  Promise!Cut
<1>1. /\ pc \notin Quiescent /\ pc' = "crashed" /\ runs' = runs
      /\ UNCHANGED dir \/ \E name \in Written : Write(name, Torn)
  BY DEF Crash
<1>2. runs \in RunIds /\ DirectoryTyped /\ DOMAIN dir = Files
  BY <1>1 DEF IInv, Shape, Quiescent, TypeOK, DirectoryTyped
<1>3. PromisedExposure' = PromisedExposure
  <2>1. ~(\E k \in RunIds : ScannerExits(k))
    BY <1>1 DEF ScannerExits, Quiescent
  <2> QED
    BY <1>1, <1>2, <2>1, ExposureStays DEF IInv
<1>4. PromisedClaim' \in {PromisedClaim, Torn}
  <2>1. CASE dir'["receipt"] = dir["receipt"]
    BY <2>1 DEF PromisedClaim, Receipt_
  <2>2. ASSUME NEW name \in Written, Write(name, Torn)
        PROVE  PromisedClaim' \in {PromisedClaim, Torn}
    <3>1. name \in Files \ {"raw"}
      BY DEF Written, Files
    <3>2. CASE name = "receipt"
      <4>1. dir'["receipt"] # None
        BY <1>2, <2>2, <3>1, <3>2, WriteTyped
      <4>2. dir'["receipt"].holds = Torn
        BY <1>2, <2>2, <3>1, <3>2, Writes
      <4> QED
        BY <4>1, <4>2 DEF PromisedClaim, Receipt_
    <3>3. CASE name # "receipt"
      <4>1. "receipt" \in Files
        BY DEF Files
      <4>2. dir'["receipt"] = dir["receipt"]
        BY <1>2, <2>2, <3>1, <3>3, <4>1, Writes
      <4> QED
        BY <2>1, <4>2
    <3> QED
      BY <3>2, <3>3
  <2> QED
    BY <1>1, <2>1, <2>2
<1>5. PromisedPhase = "working" /\ PromisedPhase' = "cut"
  BY <1>1 DEF PromisedPhase, Quiescent
<1> QED
  BY <1>3, <1>4, <1>5 DEF Promise!Cut

(* The steps of a run between its first removal and its last file leave the
   receipt as it is. *)
LEMMA ReceiptUntouched ==
  ASSUME IInv, UNCHANGED dir
           \/ \E n \in Files \ {"receipt"} : Remove(n)
           \/ \E m \in Files \ {"receipt"} : \E x : Write(m, x)
  PROVE  dir'["receipt"] = dir["receipt"]
<1>1. DOMAIN dir = Files /\ "receipt" \in Files
  BY DEF IInv, TypeOK, DirectoryTyped, Files
<1>2. ASSUME NEW n \in Files \ {"receipt"}, Remove(n)
      PROVE  dir'["receipt"] = dir["receipt"]
  BY <1>1, <1>2, Removes
<1>3. ASSUME NEW n \in Files \ {"receipt"}, NEW x, Write(n, x)
      PROVE  dir'["receipt"] = dir["receipt"]
  BY <1>1, <1>3, Writes
<1> QED
  BY <1>2, <1>3

LEMMA PromiseInit == Init => Promise!Init
<1> SUFFICES ASSUME Init PROVE Promise!Init
  OBVIOUS
<1>1. PromisedPhase = "settled" /\ PromisedExposure = None
  BY DEF Init, PromisedPhase, PromisedExposure
<1>2. PromisedClaim = None
  BY DEF Init, PromisedClaim, Files
<1> QED
  BY <1>1, <1>2 DEF Promise!Init

(* A step of the producer is a step of the promise, or none. *)
LEMMA Simulation ==
  ASSUME IInv, Own, Next
  PROVE  Promise!Next \/ UNCHANGED Promise!vars
<1> USE DEF world, local, arguments
<1>1. ASSUME NEW r \in Requested, NEW p \in Wishes, Begin(r, p)
      PROVE  Promise!Next
  BY <1>1, BeginStarts DEF Promise!Next
<1>2. CASE Unlink
  BY <1>2, UnlinkRetracts DEF Promise!Next
<1>3. CASE \E k \in RunIds : ScannerExits(k)
  BY <1>3, ExitExposes DEF Promise!Next
<1>4. CASE WriteReceipt \/ FinishReceipt \/ WriteError \/ Crash
  BY <1>4, ReceiptConcludes, ReceiptDeclines, ErrorWithholds, CrashCuts DEF Promise!Next
<1>5. CASE UpdateDatabase \/ SpoilManifest
  <2>1. /\ UNCHANGED <<pc, scans, runs>>
        /\ UNCHANGED dir \/ \E x : Write("manifest", x)
    BY <1>5 DEF UpdateDatabase, SpoilManifest
  <2>2. dir'["receipt"] = dir["receipt"]
    BY <2>1, ReceiptUntouched DEF Files
  <2>3. PromisedPhase' = PromisedPhase /\ PromisedExposure' = PromisedExposure
    BY <2>1 DEF PromisedPhase, PromisedExposure
  <2> QED
    BY <2>2, <2>3, Silent
<1>6. ASSUME pc \notin Quiescent, pc' \notin Quiescent, runs' = runs,
             UNCHANGED dir
               \/ \E n \in Files \ {"receipt"} : Remove(n)
               \/ \E m \in Files \ {"receipt"} : \E x : Write(m, x),
             ~(\E k \in RunIds : ScannerExits(k))
      PROVE  UNCHANGED Promise!vars
  <2>1. dir'["receipt"] = dir["receipt"]
    BY <1>6, ReceiptUntouched
  <2> QED
    BY <1>6, <2>1, WorkIsSilent
<1>7. CASE CheckReference /\ ~(\E k \in RunIds : ScannerExits(k))
  <2>1. image.kind \in {"malformed", "tag", "digest"}
    BY <1>7, AtWork DEF CheckReference, References, IInv, Working, PCs, Quiescent
  <2>2. /\ pc = "reference" /\ pc' \in {"fail", "binary"} /\ UNCHANGED <<runs, dir>>
    BY <1>7, <2>1 DEF CheckReference, Fail, Advance
  <2> QED
    BY <1>6, <1>7, <2>2 DEF Quiescent
<1>8. CASE /\ CheckBinary \/ CheckVersion \/ ResolveImage \/ Launch \/ ScanReturns
              \/ ScanRaises \/ Judge \/ MapVerdict
           /\ ~(\E k \in RunIds : ScannerExits(k))
  <2>1. pc \notin Quiescent /\ pc' \notin Quiescent /\ UNCHANGED <<runs, dir>>
    BY <1>8 DEF CheckBinary, CheckVersion, ResolveImage, Launch, ScanReturns, ScanRaises,
         Judge, JudgeExit, JudgeOutput, JudgeReport, JudgedBy, MapVerdict, Decline, Fail,
         Advance, Quiescent
  <2> QED
    BY <1>6, <1>8, <2>1
<1>9. CASE /\ WriteIdentity \/ WriteManifest \/ WriteIndex \/ CheckManifest
              \/ WriteEvidence \/ FinishEvidence
           /\ ~(\E k \in RunIds : ScannerExits(k))
  <2>1. pc \notin Quiescent /\ pc' \notin Quiescent /\ runs' = runs
    BY <1>9 DEF WriteIdentity, WriteManifest, WriteIndex, CheckManifest, WriteEvidence,
         FinishEvidence, Fail, Advance, Quiescent
  <2>2. \/ UNCHANGED dir
        \/ \E n \in Files \ {"receipt"} : Remove(n)
        \/ \E n \in Files \ {"receipt"} : \E x : Write(n, x)
    BY <1>9 DEF WriteIdentity, WriteManifest, WriteIndex, CheckManifest, WriteEvidence,
         FinishEvidence, Files
  <2> QED
    BY <1>6, <1>9, <2>1, <2>2
<1> QED
  BY <1>1, <1>2, <1>3, <1>4, <1>5, <1>7, <1>8, <1>9 DEF Next, OwnStep

LEMMA StutterPromise == UNCHANGED vars => UNCHANGED Promise!vars
<1> SUFFICES ASSUME UNCHANGED vars
             PROVE  UNCHANGED Promise!vars
  OBVIOUS
<1>1. UNCHANGED <<dir, scans, runs, pc>>
  BY DEF vars, world
<1>2. PromisedPhase' = PromisedPhase /\ PromisedExposure' = PromisedExposure
  BY <1>1 DEF PromisedPhase, PromisedExposure
<1> QED
  BY <1>1, <1>2, Silent

(* The producer keeps the promise of EvidencePromise when no scanner outlives a
   producer that is killed: every run of run(), whatever its scanner, its files
   or the database do, concludes with the answer its own scanner gave about the
   manifest the receipt names, declines, withholds, or is cut short. *)
THEOREM ImplementsPromise == ASSUME ~OrphansSurvive PROVE Spec => KeepsPromise
<1>1. IInv /\ Own /\ [Next]_vars => [Promise!Next]_(Promise!vars)
  BY Simulation, StutterPromise
<1> QED
  BY <1>1, PromiseInit, Invariance, OwnInvariance, PTL
     DEF Spec, KeepsPromise, Promise!Spec
=============================================================================
