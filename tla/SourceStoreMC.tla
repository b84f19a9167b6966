--------------------------- MODULE SourceStoreMC ---------------------------
EXTENDS SourceStore, TLC
Symmetry == Permutations(Digest) \cup Permutations(Thread)
            \cup Permutations(Configured) \cup Permutations(Ref \ Configured)
=============================================================================
