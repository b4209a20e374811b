-------------------------- MODULE MC_ContextMigration --------------------------
EXTENDS ContextMigration, TLC

Symmetry == Permutations(Migrators)
===============================================================================
