---------------------------- MODULE MCGameMain ----------------------------
EXTENDS GameMain, TLC

\* Ids are compared for equality only.
Symmetry == Permutations(Players)
=============================================================================
