----------------------------- MODULE MCSbkProxy -----------------------------
(* Model values for SbkProxy. *)
EXTENDS SbkProxy

CONSTANTS f1, f2, s1, s2
=============================================================================
