----------------------------- MODULE MCSessionAuth -----------------------------
(* SessionAuth for TLC: tokens are symmetric.                              *)
EXTENDS SessionAuth, TLC
CONSTANTS t1, t2, ann

Symmetry == Permutations(Tokens)
=============================================================================
