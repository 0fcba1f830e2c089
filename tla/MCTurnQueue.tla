---------------------------- MODULE MCTurnQueue ----------------------------
\* Instances of TurnQueue for TLC.
EXTENDS TurnQueue, TLC

CONSTANTS m1, m2, n1

Symmetric == Permutations(Messages)
=============================================================================
