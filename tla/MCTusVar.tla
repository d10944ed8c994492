------------------------------ MODULE MCTusVar ------------------------------
(***************************************************************************)
(* TusVar for TLC.  Slots are only ever compared for equality, so they may *)
(* be exchanged for one another.                                           *)
(***************************************************************************)
EXTENDS TusVar, TLC

Symmetry == Permutations(Slot)
=============================================================================
