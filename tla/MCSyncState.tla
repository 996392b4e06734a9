------------------------------ MODULE MCSyncState ------------------------------
(* SyncState for TLC: the constants are given in the .cfg files.           *)
EXTENDS SyncState
=============================================================================
