---------------------------- MODULE MCShareRelay ----------------------------
(* Model-checking instances of ShareRelay: see the cfg files.              *)
EXTENDS ShareRelay
=============================================================================
