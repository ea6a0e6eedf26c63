---------------------------- MODULE MCVBoxController ----------------------------
EXTENDS VBoxController, TLC

CONSTANTS t1, t2, t3, v1

MCThreads == {t1, t2, t3}
Symmetry == Permutations(MCThreads)
=============================================================================
