------------------------------ MODULE MCPages ------------------------------
EXTENDS Pages, TLC

Symmetry == Permutations(Items)
=============================================================================
