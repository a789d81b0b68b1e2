----------------------------- MODULE MCPayouts -----------------------------
(* Model-checking instances of Payouts: see the cfg files.                 *)
EXTENDS Payouts

CONSTANTS fee, pool, alice, bob, carol

\* Keys are stored in byte order of the addresses.
MCKeyRank ==
    [a \in Addr |-> CASE a = fee -> 1 [] a = bob -> 2 [] a = alice -> 3 [] a = carol -> 4]

\* Nothing is pending, or something for everybody.
MCPendings == {[a \in Addr |-> n] : n \in {0, 2}}
=============================================================================
