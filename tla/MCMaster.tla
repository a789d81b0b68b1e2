------------------------------ MODULE MCMaster ------------------------------
(***************************************************************************)
(* Model-checking instance of MasterStats and MasterLocks.  The two share  *)
(* no variable, so a behaviour moves only one of them: the states add up   *)
(* instead of multiplying, and neither loses one.                          *)
(***************************************************************************)
EXTENDS MasterStats

CONSTANT Rewards
VARIABLES at, leaked, side

Locks == INSTANCE MasterLocks

MCVars == <<vars, at, leaked, side>>

MCInit == Init /\ Locks!Init /\ side \in {"stats", "locks"}

MCNext ==
    \/ side = "stats" /\ Next /\ UNCHANGED <<at, leaked, side>>
    \/ side = "locks" /\ Locks!Next /\ UNCHANGED <<vars, side>>

MCSpec == MCInit /\ [][MCNext]_MCVars /\ (side = "locks" => Locks!Fairness)

\* A counted share is stored at last, whatever locks the threads of the master
\* take inside one another (master.go:176-203): see MasterLocks.
SharesAreStored == Locks!SharesAreStored
=============================================================================
