----------------------------- MODULE MCServerPool -----------------------------
EXTENDS ServerPool, TLC

Symmetry == Permutations(Clients) \cup Permutations(Managers)
=============================================================================
