---------------------------- MODULE MCSessions ----------------------------
EXTENDS Sessions, TLC

Symmetry == Permutations(Requests) \cup Permutations(Users) \cup Permutations(Tokens)
=============================================================================
