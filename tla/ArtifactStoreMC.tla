--------------------------- MODULE ArtifactStoreMC ---------------------------
EXTENDS ArtifactStore, TLC

Symmetry == Permutations(Thread) \cup Permutations(Bytes) \cup Permutations(Backend)
==============================================================================
