------------------------------- MODULE MCCBE -------------------------------
(***************************************************************************)
(* CBE for TLC.  Addresses, values and redshifts are only compared, so     *)
(* those of a kind may be exchanged.                                       *)
(***************************************************************************)
EXTENDS CBE, TLC

MCSymmetry ==
  Permutations(Cosmo) \cup Permutations(Prim) \cup Permutations(Value) \cup Permutations(Depth)
=============================================================================
