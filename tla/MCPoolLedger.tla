---------------------------- MODULE MCPoolLedger ----------------------------
(* Model-checking instances of PoolLedger: see the cfg files.              *)
EXTENDS PoolLedger, TLC

CONSTANTS alice, fee, pool

MCKeyRank == [a \in Addr |-> IF a = alice THEN 1 ELSE 2]

\* A miner shares the window with the fee address (shares of invalid wallets
\* are the fee address's); the split has a rounding remainder.
MCOneWindow == {[a \in {alice, fee} |-> IF a = alice THEN 2 ELSE 1]}

\* The same, and a window without shares.
MCTwoWindows == MCOneWindow \cup {[a \in {} |-> 0]}

\* The update goroutines are interchangeable.
CycleSymmetry == Permutations(Cycles)
=============================================================================
