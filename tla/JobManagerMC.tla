---------------------------- MODULE JobManagerMC ----------------------------
EXTENDS JobManager, TLC
Symmetry == Permutations(Ref \ Configured) \cup Permutations(Admin)
BothClasses == {i \in [ref: Ref, safety: BOOLEAN] : i.safety <=> i.ref \in Configured}
=============================================================================
