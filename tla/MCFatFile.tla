------------------------------ MODULE MCFatFile ------------------------------
(* Handles on one file; it does not matter which is which.                 *)
EXTENDS FatFile, TLC

Symmetry == Permutations(Handles)
=============================================================================
