-------------------------- MODULE MC_TaskPlacement ---------------------------
EXTENDS TaskPlacement, TLC

Symmetry == Permutations(Headless)
==============================================================================
