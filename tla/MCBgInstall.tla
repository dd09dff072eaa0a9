---------------------------- MODULE MCBgInstall ----------------------------
(* The instance of BgInstall that TLC checks. *)
EXTENDS BgInstall

CONSTANTS p1, p2, p3, w1, demand
============================================================================
