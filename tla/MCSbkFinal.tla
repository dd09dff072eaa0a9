---------------------------- MODULE MCSbkFinal ----------------------------
(* The instance of SbkFinal that TLC checks. *)
EXTENDS SbkFinal
===========================================================================
