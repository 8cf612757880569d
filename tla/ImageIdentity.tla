----------------------------- MODULE ImageIdentity -----------------------------
(***************************************************************************)
(* What resolving an image promises, whatever the registry sends: the one  *)
(* answer, if there is any, is an identity whose links are digests, from   *)
(* the digest asked for to the manifest selected.                          *)
(***************************************************************************)
EXTENDS OciIdentity

VARIABLES reference, platform, phase, answer

Init ==
  /\ reference \in References /\ platform \in Platforms
  /\ phase = "asked" /\ answer = None

Answer ==
  /\ phase = "asked" /\ phase' = "answered"
  /\ answer' \in Resolutions(reference, platform)
  /\ UNCHANGED <<reference, platform>>

Refuse ==
  /\ phase = "asked" /\ phase' = "refused"
  /\ UNCHANGED <<reference, platform, answer>>

Next == Answer \/ Refuse

Spec == Init /\ [][Next]_<<reference, platform, phase, answer>>
===============================================================================
