---------------------------- MODULE EvidencePromise ----------------------------
(***************************************************************************)
(* What an evidence producer promises to whoever reads its output          *)
(* directory, whatever scanner it drives.  Runs use the directory one      *)
(* after the other.  In a run the pinned scanner may be shown some content *)
(* and give a conclusive answer about it: an exposure.  The run then       *)
(* either concludes, by publishing that very answer for that very content, *)
(* or declines, by publishing an inconclusive claim, or withholds, having  *)
(* nothing to name; or it is cut short, and the published claim is then    *)
(* the previous one or unreadable.                                         *)
(***************************************************************************)
CONSTANTS Contents, None, Torn

VARIABLES phase, exposed, claim

vars == <<phase, exposed, claim>>

Answers == {"clean", "findings"}
Exposures == [content : Contents, answer : Answers]
Claims == [content : Contents, answer : Answers \union {"inconclusive"}]

Init == phase = "settled" /\ exposed = None /\ claim = None

Start ==
  /\ phase \in {"settled", "cut"}
  /\ phase' = "working" /\ exposed' = None /\ UNCHANGED claim

(* What was claimed before may be taken away before anything new is known. *)
Retract ==
  /\ phase = "working" /\ exposed = None
  /\ claim' = None /\ UNCHANGED <<phase, exposed>>

(* A scanner may outlive the run that was cut short. *)
Expose ==
  /\ phase \in {"working", "cut"} /\ exposed = None
  /\ exposed' \in Exposures /\ UNCHANGED <<phase, claim>>

Conclude ==
  /\ phase = "working" /\ exposed # None
  /\ claim' = exposed /\ phase' = "settled" /\ UNCHANGED exposed

Decline ==
  /\ phase = "working"
  /\ claim' \in [content : Contents, answer : {"inconclusive"}]
  /\ phase' = "settled" /\ UNCHANGED exposed

Withhold ==
  /\ phase = "working"
  /\ phase' = "settled" /\ UNCHANGED <<exposed, claim>>

Cut ==
  /\ phase = "working"
  /\ phase' = "cut" /\ claim' \in {claim, Torn} /\ UNCHANGED exposed

Next == Start \/ Retract \/ Expose \/ Conclude \/ Decline \/ Withhold \/ Cut

Spec == Init /\ [][Next]_vars
=============================================================================
