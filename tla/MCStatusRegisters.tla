-------------------------- MODULE MCStatusRegisters --------------------------
(* StatusRegisters with two sessions and a receive loop whose device       *)
(* clears run *CLS beside them; the bounds are given in the .cfg files.    *)
EXTENDS StatusRegisters, TLC

Symmetry == Permutations(Sessions)
=============================================================================
