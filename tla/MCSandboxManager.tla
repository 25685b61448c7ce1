-------------------------- MODULE MCSandboxManager --------------------------
EXTENDS SandboxManager, TLC

Symmetry == Permutations(Callers) \union Permutations(Boxes)
=============================================================================
