---------------------------- MODULE MCHyosSpawn ----------------------------
EXTENDS HyosSpawn, TLC

CONSTANTS child, grandchild
MCSymmetry == Permutations({child, grandchild}) \cup Permutations(Modules)
=============================================================================
