--------------------------- MODULE MCInlineHook ----------------------------
EXTENDS InlineHook, TLC

MCSymmetry == Permutations(Threads) \cup Permutations(Targets)
=============================================================================
