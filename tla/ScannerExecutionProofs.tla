------------------------ MODULE ScannerExecutionProofs ------------------------
(***************************************************************************)
(* The completeness record, for every set of observed facts.               *)
(***************************************************************************)
EXTENDS ScannerExecutionProperties, TLAPS

(* make_execution_evidence returns a record of the type its readers expect:
   output_exists is never left open and there is always a reason. *)
THEOREM ExecutionType == \A words : \A f \in Facts(words) : MakeExecution(f) \in Executions(words)
<1> SUFFICES ASSUME NEW words, NEW f \in Facts(words)
             PROVE  MakeExecution(f) \in Executions(words)
  OBVIOUS
<1>1. OutputExists(f) \in BOOLEAN
  BY DEF Facts, OutputExists
<1>2. Status(f) \in {"complete", "incomplete", "failed"}
  BY DEF Status
<1>3. Reason(f) \in words \union DefaultReasons
  BY DEF Facts, Reason, DefaultReasons
<1> QED
  BY <1>1, <1>2, <1>3 DEF Facts, Executions, MakeExecution

(* The status a record is given and the check a mapper makes of it agree, for
   every combination of facts (make_execution_evidence, execution_is_complete). *)
THEOREM StatusAndAcceptanceAgree == \A words : \A f \in Facts(words) : AcceptedIffComplete(MakeExecution(f))
<1> SUFFICES ASSUME NEW words, NEW f \in Facts(words)
             PROVE  AcceptedIffComplete(MakeExecution(f))
  OBVIOUS
<1> DEFINE x == MakeExecution(f)
<1>1. x.completeness_status = "complete" <=>
        f.invocation_started /\ f.process_completed /\ ~f.fatal_failure /\ WorkDone(f)
  BY DEF MakeExecution, Status
<1>2. RecordIsComplete(x) <=> x.completeness_status = "complete"
  <2>1. ASSUME RecordIsComplete(x)
        PROVE  x.completeness_status = "complete"
    BY <2>1 DEF RecordIsComplete
  <2>2. ASSUME x.completeness_status = "complete"
        PROVE  RecordIsComplete(x)
    BY <1>1, <2>2 DEF RecordIsComplete, MakeExecution, WorkDone, Facts, OutputExists
  <2> QED
    BY <2>1, <2>2
<1>3. x.exit_code # None /\ x.exit_code \in {0} <=> x.exit_code = 0
  BY NoneIsNoValue DEF MakeExecution
<1> QED
  BY <1>2, <1>3 DEF AcceptedIffComplete, ExecutionIsComplete

(* A record says complete only if every condition of the documented
   CLEAN_ELIGIBLE formula was observed. *)
THEOREM CompletenessIsEarned == \A words : \A f \in Facts(words) : CompleteIsEligible(f)
BY DEF CompleteIsEligible, CleanEligible, MakeExecution, Status, WorkDone, Positive, Facts,
       OutputExists

(* Overwriting the status does not make a mapper accept a record, unless the
   producer's fatal flag, which is not recorded, was the only obstacle. *)
THEOREM StatusAloneIsRejected == \A words : \A f \in Facts(words) : ForgeryIsRejected(f)
<1> SUFFICES ASSUME NEW words, NEW f \in Facts(words),
                    RecordIsComplete(Forged(MakeExecution(f))),
                    ~f.fatal_failure
             PROVE  MakeExecution(f).completeness_status = "complete"
  BY DEF ForgeryIsRejected
<1>1. WorkDone(f) /\ f.invocation_started /\ f.process_completed
  BY DEF RecordIsComplete, Forged, MakeExecution, WorkDone, OutputExists, Facts
<1> QED
  BY <1>1 DEF MakeExecution, Status
=============================================================================
