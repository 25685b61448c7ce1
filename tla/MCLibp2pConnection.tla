------------------------- MODULE MCLibp2pConnection -------------------------
EXTENDS Libp2pConnection, TLC

Symmetry == Permutations(Sends) \union Permutations(Conns)
=============================================================================
