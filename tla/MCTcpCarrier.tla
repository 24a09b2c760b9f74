---------------------------- MODULE MCTcpCarrier ----------------------------
EXTENDS TcpCarrier, TLC
Symmetry == Permutations(Sockets)
=============================================================================
