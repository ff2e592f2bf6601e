---------------------------- MODULE MCLobbyQueue ----------------------------
EXTENDS LobbyQueue, TLC

\* Connections are compared for equality only.
Symmetry == Permutations(Conns)
=============================================================================
