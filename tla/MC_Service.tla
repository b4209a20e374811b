------------------------------ MODULE MC_Service ------------------------------
EXTENDS AgentTaskService, TLC

Symmetry == Permutations(Sessions) \cup Permutations(Cores) \cup Permutations(Ops)
===============================================================================
