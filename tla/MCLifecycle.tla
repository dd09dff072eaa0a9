---------------------------- MODULE MCLifecycle ----------------------------
(* A process and one child, one page that can move. *)
EXTENDS Lifecycle

CONSTANTS parent, child, p1, b, pf, bg, reader
============================================================================
