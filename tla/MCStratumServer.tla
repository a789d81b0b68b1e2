-------------------------- MODULE MCStratumServer --------------------------
(* Model-checking instance of StratumServer alone, for its stale shares.   *)
EXTENDS StratumServer
=============================================================================
