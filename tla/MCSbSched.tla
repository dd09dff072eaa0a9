----------------------------- MODULE MCSbSched -----------------------------
EXTENDS SbSched, TLC

CONSTANTS p1, p2, feeder, demand, c1, c2

(* feed_background submits background pages, source_demand the pages that  *)
(* faulted.                                                                *)
MCSubmits == (feeder :> {BACKGROUND}) @@ (demand :> {DEMAND})
MCMask == [c \in Claimers |-> Lanes]
Symmetry == Permutations(Pages) \cup Permutations(Claimers)
============================================================================
