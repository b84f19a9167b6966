----------------------------- MODULE FrontendMC -----------------------------
EXTENDS Frontend, TLC
Symmetry == Permutations(Identity) \cup Permutations(Key)
=============================================================================
