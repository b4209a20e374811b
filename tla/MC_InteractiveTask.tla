------------------------- MODULE MC_InteractiveTask --------------------------
EXTENDS InteractiveTask, TLC
==============================================================================
