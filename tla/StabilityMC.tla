---------------------------- MODULE StabilityMC ----------------------------
EXTENDS Stability, TLC
Symmetry == Permutations(Run)

(* The third run joins others that, like it, get as far as the activation: *)
(* no checkpoint later than E0, no signal, and one profile for all.  Two   *)
(* runs are not bounded.                                                   *)
Brief(r) == /\ current[r] \in {"none", "E0"} /\ mem[r].stop = "no"
            /\ mem[r].profile = "smoke"
Bounded  == (\A r \in Run : pc[r] # "idle") => \A r \in Run : Brief(r)
=============================================================================
