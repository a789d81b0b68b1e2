---------------------------- MODULE MCAlgorithms ----------------------------
(***************************************************************************)
(* Model-checking instance of the rules of the pool that are calculations: *)
(* RateLimiter and the three of Rules.  They share no variable; a behaviour*)
(* moves only one of them, so that their states add up.                    *)
(***************************************************************************)
EXTENDS RateLimiter, Rules, Sequences

VARIABLE side

-----------------------------------------------------------------------------
(* Bytes are below 4 and carry one bit of a varint, integers have two of   *)
(* them: 0 .. 15.  The records have their integers at the sizes where a    *)
(* byte is added.                                                          *)

Wallets == {<<>>, <<0>>, <<1, 2, 3>>}
Ints == {0, 1, 2, 15}

ShareSamples == [kind : {"share"}, Wallet : Wallets, Diff : Ints, Time : Ints]

AddrSamples == [kind : {"addr"}, Balance : Ints, BalancePending : Ints, Paid : Ints]

TxSamples ==
    [UnlockHeight : {1, 2}, TxnBlockHash : {<<3, 0, 2, 1>>},
     Bals : {<<>>, <<<<<<1, 2>>, 15>>>>, <<<<<<>>, 0>>, <<<<3>>, 2>>>>}]

PendingSamples ==
    [kind : {"pending"}, LastHeight : {0, 15},
     UnconfirmedTxs : {<<>>} \cup {<<t>> : t \in TxSamples}
                             \cup {<<t, u>> : t \in TxSamples, u \in TxSamples}]

WorkSamples ==
    [kind : {"work"}, Workhash : {<<0, 1, 2, 3>>}, ExtraNonce : {<<0, 0, 0, 0>>, <<3, 3, 3, 3>>},
     Publickey : {<<3, 2, 1, 0>>}, JobID : {<<1, 2>>}, PoolNonce : {<<0>>, <<2>>},
     Timestamp : Ints, Nonce : Ints]

MCSamples == ShareSamples \cup AddrSamples \cup PendingSamples \cup WorkSamples

-----------------------------------------------------------------------------
recordVars == <<phase, record, wire, whole, result>>
targetVars == <<hash, diff, accepted>>
windowVars == <<clock, rates, bucket, born, walk, split, excused>>
MCVars == <<vars, recordVars, targetVars, windowVars, side>>

Unmoved == <<0, 0, 0, 0>>

\* Only the side that moves has more than one initial state.
MCInit ==
    /\ side \in {"limiter", "records", "target", "window"}
    /\ Init /\ Window!Init
    /\ Format!Init /\ (side # "records" => record = CHOOSE r \in WorkSamples : TRUE)
    /\ Target!Init /\ (side # "target" => hash = Unmoved /\ diff = 0)

MCNext ==
    \/ side = "limiter" /\ Next /\ UNCHANGED <<recordVars, targetVars, windowVars, side>>
    \/ side = "records" /\ Format!Next /\ UNCHANGED <<vars, targetVars, windowVars, side>>
    \/ side = "target" /\ Target!Next /\ UNCHANGED <<vars, recordVars, windowVars, side>>
    \/ side = "window" /\ Window!Next /\ UNCHANGED <<vars, recordVars, targetVars, side>>

MCSpec == MCInit /\ [][MCNext]_MCVars
=============================================================================
