--------------------------- MODULE MCMinerSession ---------------------------
(* Model-checking instances of MinerSession: see the cfg files.            *)
EXTENDS MinerSession
=============================================================================
