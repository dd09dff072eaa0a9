----------------------------- MODULE MCSbkSlots -----------------------------
(* Model values and symmetry for SbkSlots. *)
EXTENDS SbkSlots, TLC

CONSTANTS r1, r2, r3, r4, s1, s2

Symmetry == Permutations(Readers) \cup Permutations(Slots)
=============================================================================
