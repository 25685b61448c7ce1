---------------------------- MODULE MCSyncEngine ----------------------------
EXTENDS SyncEngine, TLC

CONSTANTS a1, a2

OneAgent == <<a1>>
TwoAgents == <<a1, a2>>

Symmetry == Permutations(Runs)
=============================================================================
