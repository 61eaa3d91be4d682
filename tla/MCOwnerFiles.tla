---------------------------- MODULE MCOwnerFiles ----------------------------
(* The instance of OwnerFiles whose calls overlap. *)
EXTENDS OwnerFiles

CONSTANTS d1, d2, o1
=============================================================================
