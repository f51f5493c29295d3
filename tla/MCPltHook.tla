----------------------------- MODULE MCPltHook -----------------------------
EXTENDS PltHook, TLC

MCSymmetry == Permutations(Modules)
=============================================================================
