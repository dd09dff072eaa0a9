---------------------------- MODULE MCSbkRegion ----------------------------
(* Small regions for TLC: the hot page comes last, so that the background   *)
(* order differs from the address order.                                    *)
EXTENDS SbkRegion, TLC

OrderHot == [j \in 0 .. N - 1 |-> N - 1 - j]
=============================================================================
