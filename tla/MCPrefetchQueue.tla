---------------------------- MODULE MCPrefetchQueue ----------------------------
\* Small instances of PrefetchQueue for TLC.
EXTENDS PrefetchQueue
CONSTANTS p1, p2, plain, tidy
MCPumps == {p1, p2}
MCOptions == {plain, tidy}
MCRadii == {1}
=============================================================================
