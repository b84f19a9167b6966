-------------------------- MODULE ResidentWorkerMC --------------------------
EXTENDS ResidentWorker, TLC
Symmetry == Permutations(Key)
=============================================================================
