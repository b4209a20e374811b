---------------------------- MODULE MC_PluginStore ----------------------------
EXTENDS PluginStore, TLC

Symmetry == Permutations(Versions)
===============================================================================
