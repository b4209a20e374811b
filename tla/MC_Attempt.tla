------------------------------ MODULE MC_Attempt ------------------------------
EXTENDS HeadlessAttempt, TLC
Symmetry == Permutations(Sups) \cup Permutations(Clients)
===============================================================================
