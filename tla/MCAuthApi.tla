----------------------------- MODULE MCAuthApi -----------------------------
EXTENDS AuthApi, TLC

\* Permits, accounts and Gates are interchangeable; gids are ordered (ZRANK).
Symmetry == Permutations(Slots) \cup Permutations(Accounts) \cup Permutations(Gates)
=============================================================================
