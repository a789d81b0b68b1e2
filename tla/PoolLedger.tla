----------------------------- MODULE PoolLedger -----------------------------
(***************************************************************************)
(* The money of the pool: RewardQueue and Payouts joined through the one   *)
(* database and the one wallet they share, with the amounts: how a         *)
(* coinbase is split among the shares of the PPLNS window, how             *)
(* CheckWithdraw scales it to the reward the daemon reports and to the     *)
(* debt GetDebt computes, and what leaves the wallet.                      *)
(*                                                                         *)
(* A step of UpdatePendingBals or CheckWithdraw is a step of the queue and *)
(* of the accounts at once (they commit in one bbolt transaction), and     *)
(* waits while Withdraw holds the writer lock.                             *)
(***************************************************************************)
EXTENDS Integers, Sequences, FiniteSets, Functions

CONSTANTS
    StartHeight, MaxHeight, SafetyMargin, MinConfs, OrphanGrace, StableDepth,
    Cycles, WalletMayLag, WalletMayLead, RpcMayFail, MayCrash,
    Addr, KeyRank, FeeAddress, PoolAddress, Banned, OldBalance, MinWithdrawal,
    MaxDestinations, MaxAttempts, Amounts, Pendings, MaxEarned, MaxSent,
    ReplyMayBeLost,
    Reward,         \* coinbase of a normal block, in atomic units
    SideReward,     \* coinbase of a side block
    FeePercent,     \* cfg.Master.FeePercent
    WithdrawalFee,  \* cfg.Master.WithdrawalFee, in atomic units
    TxFee,          \* what the network takes for one payment transaction
    DebtHigh,       \* the 50 coins above which a block is paid twice
    DebtLow,        \* the 10 coins below which a block is paid half
    Windows         \* shares a PPLNS window may hold: address -> hashes

ASSUME AmountAssumption ==
    /\ Reward \in Nat \ {0} /\ SideReward \in 1 .. Reward
    /\ FeePercent \in 0 .. 100
    /\ WithdrawalFee \in 0 .. MinWithdrawal /\ TxFee \in Nat
    /\ DebtHigh \in Nat /\ DebtLow \in Nat
    /\ \A w \in Windows : DOMAIN w \subseteq Addr /\ \A a \in DOMAIN w : w[a] \in Nat \ {0}

VARIABLES
    chain, block, height, minHeight, lastHeight, unconfirmed, pc, transfers,
    recorded, credited, dropped, tops, ahead, missed,
    info, known, tx, batch, unpaid, attempts, answer, earned, sent,
    rewards,  \* rewards[c][h]: the coinbase reward listed for block h
    bals,     \* bals[i]: the Bals of UnconfirmedTxs[i]
    outgo,    \* history: what has left the wallet
    lost,     \* history: the part of outgo whose record was rolled back
    doubled   \* history: how often block h was credited twice its reward

Queue == INSTANCE RewardQueue
Accounts == INSTANCE Payouts

\* The constants are what the two parts assume of them.
ASSUME QueueAssumption == Queue!HeightAssumption /\ Queue!EnvironmentAssumption
ASSUME AccountsAssumption ==
    /\ Accounts!AddressAssumption /\ Accounts!FiniteAssumption
    /\ Accounts!LimitAssumption /\ Accounts!FailureAssumption

queueVars == <<chain, block, height, minHeight, lastHeight, unconfirmed, pc,
               transfers, recorded, credited, dropped, tops, ahead, missed>>
accountVars == <<info, known, tx, batch, unpaid, attempts, answer, earned, sent>>
ledger == <<outgo, lost, doubled>>
vars == <<queueVars, accountVars, rewards, bals, ledger>>

NoRewards == [h \in Queue!Heights |-> 0]

Init ==
    /\ Queue!Init
    /\ Accounts!Init
    /\ rewards = [c \in Cycles |-> NoRewards]
    /\ bals = << >>
    /\ outgo = 0 /\ lost = 0 /\ doubled = [h \in Queue!Heights |-> 0]

-----------------------------------------------------------------------------
(* Amounts.                                                                *)

RewardOf(kind) ==
    CASE kind = "normal" -> Reward [] kind = "side" -> SideReward [] OTHER -> 0

\* uint64(v * reward / totHashes), the fee taken off the reward first.
MinerShare(reward, w, a) ==
    IF a \in DOMAIN w
    THEN (w[a] * reward * (100 - FeePercent)) \div (100 * SumFunction(w))
    ELSE 0

TotalRewarded(reward, w) == SumFunction([a \in DOMAIN w |-> MinerShare(reward, w, a)])

\* Bals: the miners' shares; the fee address gets the fee and the rounding.
Bals(reward, w) ==
    [a \in DOMAIN w \cup {FeeAddress} |->
        MinerShare(reward, w, a)
        + (IF a = FeeAddress THEN reward - TotalRewarded(reward, w) ELSE 0)]

\* totalPendings: what this call adds, per address; Bals[FeeAddress], which
\* already holds the fee address's own share, is added on top of that share.
TotalPendings(c, w) ==
    [a \in Addr |->
        SumFunction([h \in Queue!Fresh(c) |->
            MinerShare(rewards[c][h], w, a)
            + (IF a = FeeAddress THEN Bals(rewards[c][h], w)[a] ELSE 0)])]

\* What the wallet holds: the coinbases of the chain less what was sent.
Funds == SumFunction([h \in Queue!Heights |-> RewardOf(block[h])]) - outgo

Owed == SumFunction([a \in Addr |-> info[a].Balance])
ShownPending == SumFunction([a \in Addr |-> info[a].BalancePending])

\* GetDebt; an error of the wallet makes it 0.
GetDebt == IF Funds < 1 THEN 0 ELSE Funds - Owed - ShownPending
Debts == {GetDebt} \cup (IF RpcMayFail THEN {0} ELSE {})

\* Twice the factor by which the debt scales the block.
Compensation(debt) == IF debt > DebtHigh THEN 4 ELSE IF debt < -DebtLow THEN 1 ELSE 2

\* Mutant of Credits: the balances are not scaled to the reward of the daemon.
CreditsUnscaled(b, minerReward, debt) ==
    [a \in DOMAIN b |-> (b[a] * Compensation(debt)) \div 2]

\* uint64(float64(v) * multiplier), with multiplier at most 1 before the
\* compensation.
Credits(b, minerReward, debt) ==
    LET total == SumFunction(b)
        capped == IF minerReward > total THEN total ELSE minerReward
    IN  [a \in DOMAIN b |-> (b[a] * capped * Compensation(debt)) \div (2 * total)]

-----------------------------------------------------------------------------
(* The steps.                                                              *)

WriterFree == tx = "idle"

Environment ==
    /\ Queue!Environment
    /\ UNCHANGED <<accountVars, rewards, bals, ledger>>

Poll(c) ==
    /\ Queue!Poll(c)
    /\ UNCHANGED <<accountVars, rewards, bals, ledger>>

ListTransactions(c, top) ==
    /\ Queue!ListTransactions(c, top)
    /\ rewards' = [rewards EXCEPT ![c] =
           [h \in Queue!Heights |->
               IF h \in transfers'[c] THEN RewardOf(block[h]) ELSE 0]]
    /\ UNCHANGED <<accountVars, bals, ledger>>

ListFails(c) ==
    /\ Queue!ListFails(c)
    /\ UNCHANGED <<accountVars, rewards, bals, ledger>>

\* The queue entry and its balances, and BalancePending of every account.
RecordPending(c, w) ==
    /\ WriterFree
    /\ Queue!RecordPending(c)
    /\ bals' = bals \o
           [i \in 1 .. Len(unconfirmed') - Len(unconfirmed) |->
               Bals(rewards[c][unconfirmed'[Len(unconfirmed) + i].block], w)]
    /\ Accounts!SetPending(TotalPendings(c, w))
    /\ rewards' = [rewards EXCEPT ![c] = NoRewards]
    /\ UNCHANGED ledger

RecordAborts(c) ==
    /\ WriterFree
    /\ Queue!RecordAborts(c)
    /\ rewards' = [rewards EXCEPT ![c] = NoRewards]
    /\ UNCHANGED <<accountVars, bals, ledger>>

CreditReward(c, debt) ==
    /\ WriterFree
    /\ Queue!CreditReward(c)
    /\ Accounts!Credit(Credits(Head(bals), RewardOf(block[Head(unconfirmed).block]), debt))
    /\ bals' = Tail(bals)
    /\ doubled' = [doubled EXCEPT ![Head(unconfirmed).block] =
           IF Compensation(debt) = 4 THEN @ + 1 ELSE @]
    /\ UNCHANGED <<rewards, outgo, lost>>

DropReward(c) ==
    /\ WriterFree
    /\ Queue!DropOrphan(c) \/ Queue!LookupFailsLate(c)
    /\ bals' = Tail(bals)
    /\ UNCHANGED <<accountVars, rewards, ledger>>

KeepReward(c) ==
    /\ WriterFree
    /\ Queue!NothingConfirmed(c) \/ Queue!LookupFailsEarly(c) \/ Queue!RewardMissing(c)
    /\ UNCHANGED <<accountVars, rewards, bals, ledger>>

\* BuildTransaction: the wallet must hold the payments and its own fee.
Payment == SumFunction([a \in batch |-> info[a].Balance - WithdrawalFee]) + TxFee

Broadcast ==
    /\ Funds >= Payment
    /\ Accounts!Broadcast
    /\ outgo' = outgo + Payment
    /\ UNCHANGED <<queueVars, rewards, bals, lost, doubled>>

Withdraw ==
    /\ \/ Accounts!StartLoop
       \/ Accounts!NothingDue
       \/ Accounts!OpenWithdraw
       \/ Accounts!TransferFails
       \/ Accounts!CommitWithdraw
    /\ UNCHANGED <<queueVars, rewards, bals, ledger>>

\* The database forgets a payment that is on its way.
Unrecorded == IF tx = "sent" THEN Payment ELSE 0

ReplyLost ==
    /\ Accounts!ReplyLost
    /\ lost' = lost + Unrecorded
    /\ UNCHANGED <<queueVars, rewards, bals, outgo, doubled>>

\* One kill ends the goroutines of both parts.
Crash ==
    /\ Queue!Crash \/ (height = 0 /\ UNCHANGED queueVars)
    /\ Accounts!Crash \/ (attempts = 0 /\ UNCHANGED accountVars)
    /\ rewards' = [c \in Cycles |-> NoRewards]
    /\ lost' = lost + Unrecorded
    /\ UNCHANGED <<bals, outgo, doubled>>

Next ==
    \/ Environment
    \/ Withdraw
    \/ Broadcast
    \/ ReplyLost
    \/ Crash
    \/ \E c \in Cycles :
         \/ Poll(c)
         \/ \E top \in Queue!WalletTops : ListTransactions(c, top)
         \/ ListFails(c)
         \/ \E w \in Windows : RecordPending(c, w)
         \/ RecordAborts(c)
         \/ \E debt \in Debts : CreditReward(c, debt)
         \/ DropReward(c)
         \/ KeepReward(c)

Spec == Init /\ [][Next]_vars

-----------------------------------------------------------------------------
(* Properties.                                                             *)

\* The accounts the wallet still has to cover: a broadcast batch is covered.
StillOwed ==
    SumFunction([a \in Addr |->
        IF tx = "sent" /\ a \in batch THEN 0 ELSE info[a].Balance])

\* The rewards of the blocks, n[h] times that of block h.
Rewards(n) == SumFunction([h \in Queue!Heights |-> n[h] * RewardOf(block[h])])

\* What was credited beyond one reward per block: by the compensation of a debt
\* above 50 coins, and for a block that was recorded twice.
Surplus ==
    Rewards([h \in Queue!Heights |->
                IF credited[h] = 0 THEN 0 ELSE credited[h] + doubled[h] - 1])

\* The wallet covers the confirmed balances, whatever is reorganised or fails,
\* but for the payments whose record was rolled back, the blocks that GetDebt
\* paid double (withdraw.go:142) and those recorded twice: nothing else, no side
\* block or orphan, no overlap of goroutines and no kill, makes it short.
Solvent == Funds + lost + Surplus >= StillOwed

\* "multiplier is used to avoid overpaying side blocks" (withdraw.go:124): each
\* time a block is credited, its miners get no more than what the daemon reports
\* as its reward, or twice that when the debt is above 50 coins
\* (withdraw.go:142-145); also after a block became a side block between its
\* listing and its confirmation, and across overlaps and restarts.
NotOverpaid ==
    SumFunction(earned) <= Rewards([h \in Queue!Heights |-> credited[h] + doubled[h]])
=============================================================================
