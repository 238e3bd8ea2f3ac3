----------------------------- MODULE MCAppCache -----------------------------
EXTENDS AppCache, TLC
Symmetry == Permutations(Loaders) \cup Permutations(Getters) \cup Permutations(Publishers)
=============================================================================
