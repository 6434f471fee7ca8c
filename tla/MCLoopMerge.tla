---------------------------- MODULE MCLoopMerge -----------------------------
EXTENDS LoopMerge, TLC

CONSTANTS p1, p2, m1, m2

MCPulls == {p1, p2}
MCMergers == {m1, m2}
Alike == Permutations(MCPulls) \union Permutations(MCMergers)
=============================================================================
