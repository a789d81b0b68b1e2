--------------------------- MODULE MCRewardQueue ---------------------------
(* Model-checking instances of RewardQueue: see the cfg files.             *)
EXTENDS RewardQueue, TLC

\* The update goroutines are interchangeable.
CycleSymmetry == Permutations(Cycles)
=============================================================================
