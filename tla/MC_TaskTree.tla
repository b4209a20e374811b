----------------------------- MODULE MC_TaskTree -----------------------------
EXTENDS TaskTree, TLC

Symmetry == Permutations(Kids) \cup Permutations(Reqs)
==============================================================================
