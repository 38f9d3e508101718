---------------------------- MODULE MCAccounts ----------------------------
EXTENDS Accounts, TLC

Symmetry == Permutations(Requests) \cup Permutations(Names) \cup Permutations(Ids)
              \cup Permutations(Tokens)
=============================================================================
