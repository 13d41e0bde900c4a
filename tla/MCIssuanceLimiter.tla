---- MODULE MCIssuanceLimiter ----
EXTENDS IssuanceLimiter

Symmetry == Permutations(Clients)
====
