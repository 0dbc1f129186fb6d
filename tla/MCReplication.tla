--------------------------- MODULE MCReplication ---------------------------
EXTENDS Replication, TLC

CONSTANTS n1, n2, n3

MCSymmetry == Permutations(Peers)
=============================================================================
