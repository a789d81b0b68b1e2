------------------------------ MODULE Payouts ------------------------------
(***************************************************************************)
(* The accounts of the miners (the ADDRESS_INFO bucket) and Withdraw(),    *)
(* which pays them.  Withdraw runs inside one bbolt write transaction and  *)
(* broadcasts the wallet transaction before that transaction commits, so   *)
(* the payment and its record can part: the reply can be lost, or the      *)
(* master killed, between the two.                                         *)
(*                                                                         *)
(* bbolt has one writer: while Withdraw's transaction is open nothing else *)
(* writes an account.  Credit and SetPending are what CheckWithdraw and    *)
(* UpdatePendingBals do to the accounts; PoolLedger joins them with the    *)
(* rest of those functions.                                                *)
(***************************************************************************)
EXTENDS Integers, FiniteSets

CONSTANTS
    Addr,            \* wallet addresses
    KeyRank,         \* KeyRank[a]: place of a in the bucket's key order
    FeeAddress,      \* cfg.FeeAddress
    PoolAddress,     \* cfg.PoolAddress
    Banned,          \* config.BANNED_ADDRESSES, compiled in
    OldBalance,      \* Balance of the banned accounts from before their ban
    MinWithdrawal,   \* cfg.Master.MinWithdrawal, in atomic units
    MaxDestinations, \* MAX_WITHDRAW_DESTINATIONS (25 in the code)
    MaxAttempts,     \* MAX_WITHDRAW_ATTEMPTS (10 in the code)
    Amounts,         \* amounts one reward may credit to one address
    Pendings,        \* pending balances UpdatePendingBals may compute
    MaxEarned,       \* bound: what an address may be credited in all
    MaxSent,         \* bound: what may be broadcast on behalf of an address in all
    ReplyMayBeLost,  \* the wallet's answer to a broadcast may be lost
    MayCrash         \* the master may be killed and restarted

ASSUME AddressAssumption ==
    /\ FeeAddress \in Addr
    /\ Banned \subseteq Addr /\ FeeAddress \notin Banned
    /\ KeyRank \in [Addr -> Nat]
    /\ \A a, b \in Addr : KeyRank[a] = KeyRank[b] => a = b
ASSUME FiniteAssumption == IsFiniteSet(Addr)
ASSUME LimitAssumption ==
    /\ MinWithdrawal \in Nat /\ OldBalance \in Nat
    /\ MaxDestinations \in Nat \ {0} /\ MaxAttempts \in Nat \ {0}
    /\ Amounts \subseteq Nat /\ Pendings \subseteq [Addr -> Nat]
    /\ MaxEarned \in Nat /\ MaxSent \in Nat
ASSUME FailureAssumption == ReplyMayBeLost \in BOOLEAN /\ MayCrash \in BOOLEAN

AddrInfo == [Balance : Nat, BalancePending : Nat, Paid : Nat]
NoInfo == [Balance |-> 0, BalancePending |-> 0, Paid |-> 0]

VARIABLES
    info,     \* info[a]: the AddrInfo of a, persisted
    known,    \* the addresses that have a key in the bucket
    tx,       \* "idle", "open" (Withdraw holds the writer lock), "sent"
    batch,    \* the addresses the open Withdraw is paying
    unpaid,   \* the named result of the open Withdraw
    attempts, \* Withdraw calls the running loop may still make; 0: no loop
    answer,   \* history: what the last Withdraw without error returned
    earned,   \* history: what was credited to a
    sent      \* history: what was broadcast on behalf of a

payVars == <<tx, batch, unpaid, attempts>>
vars == <<info, known, tx, batch, unpaid, attempts, answer, earned, sent>>

TypeOK ==
    /\ info \in [Addr -> AddrInfo]
    /\ known \subseteq Addr
    /\ tx \in {"idle", "open", "sent"}
    /\ batch \subseteq Addr
    /\ unpaid \in BOOLEAN
    /\ attempts \in 0 .. MaxAttempts
    /\ answer \in {"none", "paid", "unpaid"}
    /\ earned \in [Addr -> Nat]
    /\ sent \in [Addr -> Nat]

Init ==
    /\ info = [a \in Addr |->
                  IF a \in Banned THEN [NoInfo EXCEPT !.Balance = OldBalance] ELSE NoInfo]
    /\ known = Banned
    /\ tx = "idle"
    /\ batch = {}
    /\ unpaid = FALSE
    /\ attempts = 0
    /\ answer = "none"
    /\ earned = [a \in Addr |-> IF a \in Banned THEN OldBalance ELSE 0]
    /\ sent = [a \in Addr |-> 0]

-----------------------------------------------------------------------------
(* The writers that share the bucket with Withdraw.                        *)

\* Mutant of Credit: the share replaces the balance.
CreditOverwrites(share) ==
    /\ tx = "idle"
    /\ info' = [a \in Addr |->
           IF a \in DOMAIN share THEN [info[a] EXCEPT !.Balance = share[a]] ELSE info[a]]
    /\ known' = known \cup DOMAIN share
    /\ earned' = [a \in Addr |->
           IF a \in DOMAIN share THEN earned[a] + share[a] ELSE earned[a]]
    /\ answer' = "none"
    /\ UNCHANGED <<payVars, sent>>

\* CheckWithdraw credits the shares of one reward.  A banned address loses
\* what it has.
Credit(share) ==
    /\ tx = "idle"
    /\ info' = [a \in Addr |->
           IF a \notin DOMAIN share THEN info[a]
           ELSE IF a \in Banned
                THEN [Balance |-> 0, BalancePending |-> 0, Paid |-> info[a].Paid]
                ELSE [info[a] EXCEPT !.Balance = @ + share[a]]]
    /\ known' = known \cup DOMAIN share
    /\ earned' = [a \in Addr |->
           IF a \in DOMAIN share THEN earned[a] + share[a] ELSE earned[a]]
    /\ answer' = "none"
    /\ UNCHANGED <<payVars, sent>>

\* UpdatePendingBals overwrites BalancePending of every key in the bucket.
SetPending(pending) ==
    /\ tx = "idle"
    /\ info' = [a \in Addr |->
           IF a \in known THEN [info[a] EXCEPT !.BalancePending = pending[a]]
                          ELSE info[a]]
    /\ UNCHANGED <<known, payVars, answer, earned, sent>>

-----------------------------------------------------------------------------
(* Withdraw().                                                             *)

\* The pool's own and banned addresses are paid out to the fee address.
Destination(a) ==
    IF a = PoolAddress \/ a \in Banned THEN FeeAddress ELSE a

Due(a) == a \in known /\ info[a].Balance > MinWithdrawal

\* Mutants of Eligible: no test for the destination; a test against every known
\* address, due or not.
EligibleWheneverDue(a) == Due(a)
EligibleIfUnknown(a) ==
    /\ Due(a)
    /\ \A b \in known : KeyRank[b] < KeyRank[a] => Destination(b) # Destination(a)

\* a is due and no due address before it in key order has its destination.
Eligible(a) ==
    /\ Due(a)
    /\ \A b \in Addr :
         KeyRank[b] < KeyRank[a] /\ Due(b) => Destination(b) # Destination(a)

TakenBefore(a) == {b \in Addr : KeyRank[b] < KeyRank[a] /\ Eligible(b)}

\* destinations: the first MaxDestinations eligible addresses.
Destinations ==
    {a \in Addr : Eligible(a) /\ Cardinality(TakenBefore(a)) < MaxDestinations}

\* Mutant of KeysLeft: off by one.
KeysLeftTooLate == \E a \in known : Cardinality(TakenBefore(a)) > MaxDestinations

\* The loop stops at a further key once destinations is full.
KeysLeft == \E a \in known : Cardinality(TakenBefore(a)) >= MaxDestinations

\* The timer starts a loop of at most MaxAttempts calls.
StartLoop ==
    /\ attempts = 0
    /\ attempts' = MaxAttempts
    /\ UNCHANGED <<info, known, tx, batch, unpaid, answer, earned, sent>>

\* The transaction ends; the loop goes on only after an answer "unpaid".
EndWithdraw(again) ==
    /\ tx' = "idle" /\ batch' = {} /\ unpaid' = FALSE
    /\ attempts' = IF again THEN attempts - 1 ELSE 0

\* Fewer than MIN_WITHDRAW_DESTINATIONS = 1: nothing to do.
NothingDue ==
    /\ attempts > 0 /\ tx = "idle"
    /\ Destinations = {}
    /\ EndWithdraw(FALSE)
    /\ answer' = "paid"
    /\ UNCHANGED <<info, known, earned, sent>>

\* The accounts are read and the destinations chosen.
OpenWithdraw ==
    /\ attempts > 0 /\ tx = "idle"
    /\ Destinations # {}
    /\ tx' = "open"
    /\ batch' = Destinations
    /\ unpaid' = KeysLeft
    /\ UNCHANGED <<info, known, attempts, answer, earned, sent>>

\* BuildTransaction builds and broadcasts the payment.
Broadcast ==
    /\ tx = "open"
    /\ \A a \in batch : sent[a] + info[a].Balance <= MaxSent
    /\ tx' = "sent"
    /\ sent' = [a \in Addr |-> IF a \in batch THEN sent[a] + info[a].Balance
                                              ELSE sent[a]]
    /\ UNCHANGED <<info, known, batch, unpaid, attempts, answer, earned>>

\* BuildTransaction refuses: rolled back, unpaid = false.
TransferFails ==
    /\ tx = "open"
    /\ EndWithdraw(FALSE)
    /\ UNCHANGED <<info, known, answer, earned, sent>>

\* The broadcast happened but BuildTransaction returns an error.
ReplyLost ==
    /\ ReplyMayBeLost
    /\ tx = "sent"
    /\ EndWithdraw(FALSE)
    /\ UNCHANGED <<info, known, answer, earned, sent>>

\* Mutants of CommitWithdraw: the record commits before the broadcast; the
\* balance is not cleared.
CommitBeforeBroadcast ==
    /\ tx \in {"open", "sent"}
    /\ info' = [a \in Addr |->
           IF a \in batch
           THEN [info[a] EXCEPT !.Balance = 0, !.Paid = @ + info[a].Balance]
           ELSE info[a]]
    /\ answer' = IF unpaid THEN "unpaid" ELSE "paid"
    /\ EndWithdraw(unpaid)
    /\ UNCHANGED <<known, earned, sent>>
CommitKeepsBalance ==
    /\ tx = "sent"
    /\ info' = [a \in Addr |->
           IF a \in batch THEN [info[a] EXCEPT !.Paid = @ + info[a].Balance] ELSE info[a]]
    /\ answer' = IF unpaid THEN "unpaid" ELSE "paid"
    /\ EndWithdraw(unpaid)
    /\ UNCHANGED <<known, earned, sent>>

\* The transaction commits: Paid += Balance, Balance = 0.  The fee revenue is
\* added to a copy of the fee account that is not stored.
CommitWithdraw ==
    /\ tx = "sent"
    /\ info' = [a \in Addr |->
           IF a \in batch
           THEN [Balance |-> 0, BalancePending |-> info[a].BalancePending,
                 Paid |-> info[a].Paid + info[a].Balance]
           ELSE info[a]]
    /\ answer' = IF unpaid THEN "unpaid" ELSE "paid"
    /\ EndWithdraw(unpaid)
    /\ UNCHANGED <<known, earned, sent>>

\* The master is killed: an open transaction leaves no trace in the database.
Crash ==
    /\ MayCrash
    /\ attempts > 0
    /\ EndWithdraw(FALSE)
    /\ answer' = "none"
    /\ UNCHANGED <<info, known, earned, sent>>

-----------------------------------------------------------------------------
\* One reward credits the fee address and some miners, within the bound.
Shares ==
    {share \in UNION {[K -> Amounts] : K \in SUBSET Addr} :
        /\ FeeAddress \in DOMAIN share
        /\ \A a \in DOMAIN share : earned[a] + share[a] <= MaxEarned}

Withdraw ==
    NothingDue \/ OpenWithdraw \/ Broadcast \/ TransferFails \/ ReplyLost \/ CommitWithdraw

Next ==
    \/ \E share \in Shares : Credit(share)
    \/ \E pending \in Pendings : SetPending(pending)
    \/ StartLoop
    \/ Withdraw
    \/ Crash

\* The timer fires again and again, kills do not hit every call of Withdraw
\* before it has begun, and a wallet asked again and again accepts the payment
\* and answers.
Fairness ==
    /\ WF_vars(StartLoop)
    /\ WF_vars(Withdraw)
    /\ SF_vars(OpenWithdraw)
    /\ SF_vars(Broadcast)
    /\ SF_vars(CommitWithdraw)

Spec == Init /\ [][Next]_vars
FairSpec == Spec /\ Fairness

-----------------------------------------------------------------------------
(* Properties.                                                             *)

\* Crashes, lost replies and rollbacks included, the database never claims a
\* payment that was not broadcast (withdraw.go:299-327).
PaidWasSent == \A a \in Addr : info[a].Paid <= sent[a]

\* What an address that is not banned was credited is either still its Balance
\* or counted as Paid; a rolled back Withdraw loses nothing.
Conserved ==
    \A a \in Addr \ Banned : earned[a] = info[a].Balance + info[a].Paid

\* "Paid // amount that has been paid out so far" (database.go:152): outside
\* a Withdraw, Paid is what was really sent on behalf of the address.
PaidIsPaidOut == tx = "idle" => \A a \in Addr : info[a].Paid = sent[a]

\* "returns true if there are still unpaid wallets" (withdraw.go:214): after a
\* Withdraw that returned false without an error, only accounts that are paid
\* to the fee address can still be due.  Those are skipped when another account
\* with that destination is in the batch, and do not count as unpaid.
FalseMeansPaidOut ==
    answer = "paid" => \A a \in Addr : Due(a) => Destination(a) = FeeAddress

\* The payment that was broadcast and is not recorded yet.
InFlight ==
    [a \in Addr |-> IF tx = "sent" /\ a \in batch THEN info[a].Balance ELSE 0]

\* What one transaction may pay.
Batches == {S \in SUBSET Addr : S # {} /\ Cardinality(S) <= MaxDestinations}

\* From the broadcast on, the open transaction counts as if it had committed.
Book == INSTANCE AccountBook WITH
    Target <- [a \in Addr |-> Destination(a)],
    owed <- [a \in Addr |-> info[a].Balance - InFlight[a]],
    paid <- [a \in Addr |-> info[a].Paid + InFlight[a]],
    flight <- InFlight

\* Withdraw implements a plain book of accounts (withdraw.go:222-374): a payment
\* takes whole balances, of at most MaxDestinations accounts that are due and
\* go to different destinations, and a crash, a refusal or a lost reply takes
\* back all of it or nothing; no credit or pending balance slips in between.
ImplementsAccounts == Book!Spec

\* A payment was broadcast and its record rolled back.
RecordLost == tx # "sent" /\ \E a \in Addr : sent[a] # info[a].Paid

\* Every address that is due is eventually paid, also when it is skipped
\* because another account with its destination comes first, or because the
\* batch is full, and although refused transfers and kills end the loop early;
\* unless the record of a payment was lost.
EventuallyPaid == \A a \in Addr : Due(a) ~> ~Due(a) \/ RecordLost
=============================================================================
