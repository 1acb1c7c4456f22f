--------------------------- MODULE MCRegistration ---------------------------
(***************************************************************************)
(* A small instance of Registration for TLC.                               *)
(***************************************************************************)
EXTENDS Registration, TLC

Symmetry == Permutations(Texts) \cup Permutations(LateSlots)
===============================================================================
