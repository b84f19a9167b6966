------------------------------ MODULE ConsoleMC ------------------------------
EXTENDS Console, TLC

Symmetry == Permutations(Daemon) \cup Permutations(Cli)
==============================================================================
