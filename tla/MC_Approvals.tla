----------------------------- MODULE MC_Approvals -----------------------------
EXTENDS Approvals, TLC

Symmetry ==
    Permutations(Workers) \cup Permutations(Jobs) \cup Permutations(Reqs) \cup Permutations(Resumers)
===============================================================================
