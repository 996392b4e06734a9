------------------------ MODULE MCContentWorkerPool ------------------------
(* ContentWorkerPool on small sets of tasks and workers for TLC.           *)
EXTENDS ContentWorkerPool

\* Tasks are interchangeable in the safety run.
Symmetry == Permutations(Tasks)
=============================================================================
