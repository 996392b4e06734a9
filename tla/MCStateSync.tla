------------------------------ MODULE MCStateSync ------------------------------
(* StateSync for TLC: devices and novels are model values and symmetric.   *)
EXTENDS StateSync, TLC

Symmetry == Permutations(Devices) \cup Permutations(Novels)
=============================================================================
