-------------------------- MODULE MCTechScoutQueue --------------------------
(* Instances of TechScoutQueue for TLC.                                    *)
EXTENDS TechScoutQueue, TLC

Symmetry == Permutations(Processes) \cup Permutations(Runs)
=============================================================================
