----------------------------- MODULE MCTusData ------------------------------
(***************************************************************************)
(* TusData for TLC.  The two users differ in nothing, so they may be       *)
(* exchanged for one another.                                              *)
(***************************************************************************)
EXTENDS TusData, TLC

Symmetry == Permutations(UserId)
=============================================================================
