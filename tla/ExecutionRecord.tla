---------------------------- MODULE ExecutionRecord ----------------------------
(***************************************************************************)
(* One producer branch: it observes facts of a scanner execution and has   *)
(* make_execution_evidence (src/scanner_execution.py) record them.         *)
(***************************************************************************)
EXTENDS ScannerExecutionProperties

CONSTANTS
  Names,        \* of components, reasons and contracts
  Observable    \* the combinations of facts a producer may observe

ASSUME ObservableFacts == Observable \subseteq Facts(Names)

VARIABLES
  facts,      \* what was observed
  execution   \* the record, None before it is made

vars == <<facts, execution>>

Init == facts \in Observable /\ execution = None

Build == execution = None /\ execution' = MakeExecution(facts) /\ UNCHANGED facts

Spec == Init /\ [][Build]_vars

-----------------------------------------------------------------------------
(* A record says of its facts what make_execution_evidence says of them. *)
Recorded == facts \in Observable /\ execution \in {None, MakeExecution(facts)}

(* The record made is accepted exactly when its status says complete (and its
   exit code is the expected one): execution_is_complete, which reads the
   facts again, and make_execution_evidence agree. *)
AcceptanceIsStatus == execution # None => AcceptedIffComplete(execution)

(* A record says complete only if every condition of CLEAN_ELIGIBLE
   (docs/scanner-execution-completeness.md:14-22) was observed and nothing
   failed. *)
CompleteIsCleanEligible ==
  execution # None /\ execution.completeness_status = "complete" =>
    CleanEligible(facts)
=============================================================================
