----------------------------- MODULE MCContentCache -----------------------------
EXTENDS ContentCache, TLC

CONSTANTS q1, q2, q3, k1, k2, f1, f2

FileOfTwo == (k1 :> f1) @@ (k2 :> f2)
FileOfOne == (k1 :> f1) @@ (k2 :> f1)
Growing   == [v \in Versions |-> v + 1]

Symmetry == Permutations(Requests)
=============================================================================
