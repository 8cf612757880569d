-------------------------------- MODULE Absence --------------------------------
(***************************************************************************)
(* Python's None: an optional field, header or file that is not there.     *)
(***************************************************************************)
EXTENDS Integers

CONSTANT None

ASSUME NoneIsNoValue == None \notin Int /\ None \notin BOOLEAN
===============================================================================
