-------------------------- MODULE PoolLedgerProofs --------------------------
(***************************************************************************)
(* Machine-checked proofs about PoolLedger, for every chain length, set of *)
(* addresses, share window and amount, any number of update goroutines and *)
(* a wallet ahead of the master: what is credited is covered by the        *)
(* rewards of the blocks it was credited for, and the wallet covers the    *)
(* balances.  The queue's own invariants are those of RewardQueueProofs.   *)
(***************************************************************************)
EXTENDS PoolLedger, SumTheorems, SequenceTheorems, TLAPS

QueueProofs == INSTANCE RewardQueueProofs

LEMMA Constants ==
    /\ IsFiniteSet(Addr) /\ FeeAddress \in Addr
    /\ Queue!Heights = 1 .. MaxHeight /\ IsFiniteSet(Queue!Heights)
    /\ MinWithdrawal \in Nat /\ OldBalance \in Nat
    /\ MaxAttempts \in Nat \ {0}
    /\ Reward \in Nat \ {0} /\ SideReward \in 1 .. Reward
    /\ FeePercent \in 0 .. 100
    /\ WithdrawalFee \in 0 .. MinWithdrawal /\ TxFee \in Nat
    /\ DebtHigh \in Nat /\ DebtLow \in Nat
<1>1. IsFiniteSet(Addr)
    BY AccountsAssumption DEF Accounts!FiniteAssumption, Accounts!IsFiniteSet, IsFiniteSet
<1>2. IsFiniteSet(1 .. MaxHeight)
    BY QueueAssumption, FS_Interval DEF Queue!HeightAssumption
<1>3. QED
    BY <1>1, <1>2, AmountAssumption, AccountsAssumption
    DEF Queue!Heights, Accounts!AddressAssumption, Accounts!LimitAssumption

-----------------------------------------------------------------------------
(* Every step of the ledger is a step of the queue or leaves it alone.      *)

LEMMA QueueInit == Init => Queue!Init
    BY DEF Init

\* A step of the ledger is a step of the queue or leaves it alone.
LEMMA QueueNext == [Next]_vars => [Queue!Next]_(Queue!vars)
<1> SUFFICES ASSUME [Next]_vars PROVE Queue!Next \/ UNCHANGED Queue!vars
    OBVIOUS
<1>1. ASSUME Environment PROVE Queue!Next
    BY <1>1 DEF Environment, Queue!Next
<1>2. ASSUME UNCHANGED queueVars PROVE UNCHANGED Queue!vars
    BY <1>2 DEF queueVars, Queue!vars
<1>3. ASSUME Withdraw \/ Broadcast \/ ReplyLost PROVE UNCHANGED queueVars
    BY <1>3 DEF Withdraw, Broadcast, ReplyLost
<1>4. ASSUME Crash PROVE Queue!Next \/ UNCHANGED queueVars
    BY <1>4 DEF Crash, Queue!Next
<1>5. ASSUME NEW c \in Cycles,
             \/ Poll(c) \/ (\E top \in Queue!WalletTops : ListTransactions(c, top))
             \/ ListFails(c) \/ (\E w \in Windows : RecordPending(c, w)) \/ RecordAborts(c)
      PROVE  Queue!Next
    BY <1>5 DEF Poll, ListTransactions, ListFails, RecordPending, RecordAborts,
        Queue!Next, Queue!UpdatePendingBals
<1>6. ASSUME NEW c \in Cycles,
             (\E debt \in Debts : CreditReward(c, debt)) \/ DropReward(c) \/ KeepReward(c)
      PROVE  Queue!Next
    BY <1>6 DEF CreditReward, DropReward, KeepReward, Queue!Next, Queue!CheckWithdraw
<1>7. ASSUME UNCHANGED vars PROVE UNCHANGED queueVars
    BY <1>7 DEF vars
<1>8. QED
    BY <1>1, <1>2, <1>3, <1>4, <1>5, <1>6, <1>7 DEF Next

\* The instance of the proofs speaks of the same queue.
LEMMA SameQueue ==
    /\ Queue!Init => QueueProofs!Init
    /\ [Queue!Next]_(Queue!vars) => [QueueProofs!Next]_(QueueProofs!vars)
<1>1. Queue!Init => QueueProofs!Init
    BY DEF Queue!Init, QueueProofs!Init, Queue!Heights, QueueProofs!Heights
<1>2. Queue!Next <=> QueueProofs!Next
    BY DEF Queue!chainVars, QueueProofs!chainVars, Queue!pendingVars,
        QueueProofs!pendingVars, Queue!history, QueueProofs!history,
        Queue!excuses, QueueProofs!excuses, Queue!SkipAtStart, QueueProofs!SkipAtStart,
        Queue!Unscanned, QueueProofs!Unscanned,
        Queue!vars, QueueProofs!vars, Queue!Heights, QueueProofs!Heights,
        Queue!Rewarded, QueueProofs!Rewarded, Queue!ListFrom,
        QueueProofs!ListFrom, Queue!WalletTops, QueueProofs!WalletTops,
        Queue!Fresh, QueueProofs!Fresh, Queue!Ascending,
        QueueProofs!Ascending, Queue!NextHeight, QueueProofs!NextHeight,
        Queue!NextMinHeight, QueueProofs!NextMinHeight, Queue!Confirmed,
        QueueProofs!Confirmed, Queue!Return, QueueProofs!Return,
        Queue!DropHead, QueueProofs!DropHead, Queue!GraceOver,
        QueueProofs!GraceOver, Queue!TryAgain, QueueProofs!TryAgain,
        Queue!Cardinality, QueueProofs!Cardinality, Queue!MineBlock,
        QueueProofs!MineBlock, Queue!Reclassify, QueueProofs!Reclassify,
        Queue!Poll, QueueProofs!Poll, Queue!ListTransactions,
        QueueProofs!ListTransactions, Queue!ListFails,
        QueueProofs!ListFails, Queue!RecordPending,
        QueueProofs!RecordPending, Queue!RecordAborts,
        QueueProofs!RecordAborts, Queue!NothingConfirmed,
        QueueProofs!NothingConfirmed, Queue!CreditReward,
        QueueProofs!CreditReward, Queue!DropOrphan, QueueProofs!DropOrphan,
        Queue!LookupFailsLate, QueueProofs!LookupFailsLate,
        Queue!LookupFailsEarly, QueueProofs!LookupFailsEarly,
        Queue!RewardMissing, QueueProofs!RewardMissing, Queue!Crash,
        QueueProofs!Crash, Queue!CheckWithdraw, QueueProofs!CheckWithdraw,
        Queue!UpdatePendingBals, QueueProofs!UpdatePendingBals,
        Queue!Environment, QueueProofs!Environment, Queue!Next,
        QueueProofs!Next
<1>3. UNCHANGED Queue!vars <=> UNCHANGED QueueProofs!vars
    BY DEF Queue!vars, QueueProofs!vars
<1>4. QED
    BY <1>1, <1>2, <1>3

LEMMA SameActions ==
    \A c : /\ Queue!RecordPending(c) => QueueProofs!RecordPending(c)
           /\ Queue!CreditReward(c) => QueueProofs!CreditReward(c)
<1>1. ASSUME NEW c, Queue!RecordPending(c) PROVE QueueProofs!RecordPending(c)
    BY <1>1 DEF Queue!chainVars, QueueProofs!chainVars, Queue!RecordPending,
        QueueProofs!RecordPending, Queue!NextMinHeight,
        QueueProofs!NextMinHeight, Queue!Fresh, QueueProofs!Fresh,
        Queue!Ascending, QueueProofs!Ascending, Queue!NextHeight,
        QueueProofs!NextHeight, Queue!Heights, QueueProofs!Heights,
        Queue!Unscanned, QueueProofs!Unscanned,
        Queue!Cardinality, QueueProofs!Cardinality
<1>2. ASSUME NEW c, Queue!CreditReward(c) PROVE QueueProofs!CreditReward(c)
    BY <1>2 DEF Queue!chainVars, QueueProofs!chainVars, Queue!CreditReward,
        QueueProofs!CreditReward, Queue!Confirmed, QueueProofs!Confirmed,
        Queue!Return, QueueProofs!Return, Queue!excuses, QueueProofs!excuses
<1>3. QED
    BY <1>1, <1>2

QInv == QueueProofs!IInv /\ QueueProofs!CreditedDeep /\ QueueProofs!AwakeListed

LEMMA InitQInv == Init => QInv
<1>1. Init => QueueProofs!Init
    BY QueueInit, SameQueue
<1>2. QueueProofs!Init => QueueProofs!IInv
    BY QueueProofs!InitIInv, QueueAssumption
    DEF Queue!HeightAssumption, Queue!EnvironmentAssumption
<1>3. QueueProofs!Init => QueueProofs!CreditedDeep
    BY DEF QueueProofs!Init, QueueProofs!CreditedDeep
<1>4. QueueProofs!Init => QueueProofs!AwakeListed
    BY QueueProofs!InitAwakeListed, QueueAssumption
    DEF Queue!HeightAssumption, Queue!EnvironmentAssumption
<1>5. QED
    BY <1>1, <1>2, <1>3, <1>4 DEF QInv

LEMMA NextQInv == ASSUME StableDepth <= MinConfs, QInv, [Next]_vars PROVE QInv'
<1>1. [QueueProofs!Next]_(QueueProofs!vars)
    BY QueueNext, SameQueue
<1>2. QueueProofs!IInv'
    BY <1>1, QueueProofs!NextIInv, QueueAssumption
    DEF QInv, Queue!HeightAssumption, Queue!EnvironmentAssumption
<1>3. QueueProofs!CreditedDeep'
    BY <1>1, QueueProofs!NextCreditedDeep, QueueAssumption
    DEF QInv, Queue!HeightAssumption, Queue!EnvironmentAssumption
<1>4. QueueProofs!AwakeListed'
    BY <1>1, QueueProofs!NextAwakeListed, QueueAssumption
    DEF QInv, Queue!HeightAssumption, Queue!EnvironmentAssumption
<1>5. QED
    BY <1>2, <1>3, <1>4 DEF QInv

-----------------------------------------------------------------------------
(* The amounts.                                                            *)

\* The sum of a function is the sum over its domain.
LEMMA SumDomain == \A f : SumFunction(f) = SumFunctionOnSet(f, DOMAIN f)
    BY DEF SumFunction

LEMMA RewardType == \A kind : RewardOf(kind) \in Nat /\ (kind \in Queue!Rewarded => RewardOf(kind) > 0)
    BY Constants DEF RewardOf, Queue!Rewarded

\* The shares of the miners are natural numbers and add up to at most the reward.
LEMMA SharesWithin ==
    ASSUME NEW r \in Nat, NEW w \in Windows
    PROVE  /\ IsFiniteSet(DOMAIN w) /\ DOMAIN w \subseteq Addr
           /\ \A a : MinerShare(r, w, a) \in Nat
           /\ TotalRewarded(r, w) \in 0 .. r
<1> DEFINE D == DOMAIN w  W == SumFunction(w)  k == r * (100 - FeePercent)
           share == [a \in D |-> MinerShare(r, w, a)]
<1>1. IsFiniteSet(D) /\ D \subseteq Addr /\ \A a \in D : w[a] \in Nat \ {0}
    BY Constants, AmountAssumption, FS_Subset
<1>2. W = SumFunctionOnSet(w, D) /\ TotalRewarded(r, w) = SumFunctionOnSet(share, D)
    BY SumDomain DEF TotalRewarded
<1>3. k \in Nat /\ k <= r * 100
  <2>1. 100 - FeePercent \in 0 .. 100
    BY Constants
  <2>2. QED
    BY <2>1
<1>4. CASE D = {}
  <2>1. SumFunctionOnSet(share, D) = 0
    BY <1>4, SumEmpty
  <2>2. QED
    BY <1>1, <1>2, <1>4, <2>1 DEF MinerShare
<1>5. CASE D # {}
  <2>1. W \in Nat \ {0}
    <3>1. PICK a \in D : TRUE
      BY <1>5
    <3>2. W = w[a] + SumFunctionOnSet(w, D \ {a})
      BY <1>1, <1>2, SumRemove
    <3>3. SumFunctionOnSet(w, D \ {a}) \in Nat
      <4>1. IsFiniteSet(D \ {a})
        BY <1>1, FS_Subset
      <4>2. QED
        BY <1>1, <4>1, SumNat
    <3>4. QED
      BY <1>1, <3>2, <3>3
  <2>2. \A a \in D : w[a] \in Nat /\ share[a] = (w[a] * k) \div (100 * W)
    <3> SUFFICES ASSUME NEW a \in D PROVE share[a] = (w[a] * k) \div (100 * W)
      BY <1>1
    <3>1. share[a] = (w[a] * r * (100 - FeePercent)) \div (100 * W)
      BY DEF MinerShare
    <3>2. w[a] * r * (100 - FeePercent) = w[a] * k
      BY <1>1, Constants
    <3>3. QED
      BY <3>1, <3>2
  <2>3. 100 * W \in Nat \ {0}
    BY <2>1
  <2>4. SumFunctionOnSet(share, D) * (100 * W) <= W * k
    <3> HIDE DEF share, W, k, D
    <3>1. SumFunctionOnSet(share, D) * (100 * W) <= SumFunctionOnSet(w, D) * k
      BY <1>1, <1>3, <2>2, <2>3, SumOfShares
    <3>2. QED
      BY <1>2, <3>1
  <2>5. \A a : MinerShare(r, w, a) \in Nat
    <3> SUFFICES ASSUME NEW a \in D PROVE MinerShare(r, w, a) \in Nat
      BY DEF MinerShare
    <3> DEFINE n == w[a] * k
    <3>1. n \in Nat
      BY <1>1, <1>3
    <3>2. MinerShare(r, w, a) = n \div (100 * W)
      BY <2>2
    <3> HIDE DEF n
    <3>3. QED
      BY <2>3, <3>1, <3>2
  <2>6. SumFunctionOnSet(share, D) \in Nat
    <3>1. \A a \in D : share[a] \in Nat
      BY <2>5
    <3> HIDE DEF share
    <3>2. QED
      BY <1>1, <3>1, SumNat
  <2>7. SumFunctionOnSet(share, D) <= r
    <3> DEFINE T == SumFunctionOnSet(share, D)
    <3>1. T \in Nat /\ T * (100 * W) <= W * k
      BY <2>4, <2>6
    <3> HIDE DEF T, W, k
    <3>2. T * 100 <= k
      BY <1>3, <2>1, <3>1
    <3>3. T <= r
      BY <1>3, <3>1, <3>2
    <3>4. QED
      BY <3>3 DEF T
  <2>8. QED
    BY <1>1, <1>2, <2>5, <2>6, <2>7
<1>6. QED
    BY <1>4, <1>5

\* UpdatePendingBals splits the whole reward: the fee address gets what the
\* shares leave.
LEMMA SplitIsExact ==
    ASSUME NEW r \in Nat, NEW w \in Windows
    PROVE  /\ Bals(r, w) \in [DOMAIN w \cup {FeeAddress} -> Nat]
           /\ SumFunction(Bals(r, w)) = r
<1> DEFINE D == DOMAIN w  E == D \cup {FeeAddress}  T == TotalRewarded(r, w)
           share == [a \in E |-> MinerShare(r, w, a)]
           rest == [a \in E |-> IF a = FeeAddress THEN r - T ELSE 0]
           b == Bals(r, w)
<1>1. /\ IsFiniteSet(D) /\ T \in 0 .. r
      /\ \A a : MinerShare(r, w, a) \in Nat
    BY SharesWithin
<1>2. IsFiniteSet(E)
    BY <1>1, FS_AddElement
<1>3. \A a \in E : share[a] \in Nat /\ rest[a] \in Nat /\ b[a] = share[a] + rest[a]
    BY <1>1 DEF Bals
<1>4. SumFunctionOnSet(share, E) = T
  <2>1. \A a \in E \ D : share[a] = 0
    BY DEF MinerShare
  <2>2. D \in SUBSET E
    OBVIOUS
  <2>3. SumFunctionOnSet(share, E) = SumFunctionOnSet(share, D)
    <3> HIDE DEF share, rest, E, D
    <3>1. \A a \in E : share[a] \in Int
      BY <1>3
    <3>2. QED
      BY <1>2, <2>1, <2>2, <3>1, SumSupport
  <2> DEFINE mine == [a \in D |-> MinerShare(r, w, a)]
  <2>4. SumFunctionOnSet(share, D) = SumFunctionOnSet(mine, D)
    <3>1. \A a \in D : share[a] = mine[a]
      OBVIOUS
    <3> HIDE DEF share, mine, E, D
    <3>2. QED
      BY <1>1, <3>1, SumSame
  <2>5. T = SumFunctionOnSet(mine, D)
    BY SumDomain DEF TotalRewarded
  <2>6. QED
    BY <2>3, <2>4, <2>5
<1>5. SumFunctionOnSet(rest, E) = r - T
  <2>1. FeeAddress \in E
    OBVIOUS
  <2>2. SumFunctionOnSet(rest, E) = rest[FeeAddress] + SumFunctionOnSet(rest, E \ {FeeAddress})
    <3> HIDE DEF share, rest, E
    <3>1. \A a \in E : rest[a] \in Int
      BY <1>3
    <3>2. QED
      BY <1>2, <2>1, <3>1, SumRemove
  <2>3. SumFunctionOnSet(rest, E \ {FeeAddress}) = 0
    <3>1. \A a \in E \ {FeeAddress} : rest[a] = 0
      OBVIOUS
    <3>2. IsFiniteSet(E \ {FeeAddress})
      BY <1>2, FS_RemoveElement
    <3> HIDE DEF rest, E
    <3>3. QED
      BY <3>1, <3>2, SumZero
  <2>4. rest[FeeAddress] = r - T
    OBVIOUS
  <2> HIDE DEF rest, E, T
  <2>5. QED
    BY <1>1, <2>2, <2>3, <2>4
<1>6. SumFunctionOnSet(b, E) = SumFunctionOnSet(share, E) + SumFunctionOnSet(rest, E)
  <2> HIDE DEF b, share, rest, E
  <2>1. QED
    BY <1>2, <1>3, SumAdd
<1>7. b \in [E -> Nat]
  <2>1. b = [a \in E |-> b[a]]
    BY DEF Bals
  <2>2. \A a \in E : b[a] \in Nat
    <3> HIDE DEF b, share, rest, E
    <3>1. QED
      BY <1>3
  <2> HIDE DEF b, E
  <2>3. QED
    BY <2>1, <2>2
<1>8. SumFunction(b) = SumFunctionOnSet(b, E)
  <2>1. DOMAIN b = E
    BY <1>7
  <2> HIDE DEF b, E
  <2>2. QED
    BY <2>1, SumDomain
<1>9. SumFunction(b) = r
  <2> HIDE DEF b, E, share, rest, T
  <2>1. QED
    BY <1>1, <1>4, <1>5, <1>6, <1>8
<1>10. QED
    BY <1>7, <1>9

\* Balances that CheckWithdraw can scale.
GoodBals == {b \in UNION {[K -> Nat] : K \in SUBSET Addr} : SumFunction(b) > 0}

\* How often CheckWithdraw pays the reward of a block: twice in a high debt.
Times(debt) == IF Compensation(debt) = 4 THEN 2 ELSE 1

\* A block credits at most the reward that the daemon reports, or twice that
\* when the debt is high, whatever the listing said and however it rounds.
LEMMA CreditsWithin ==
    ASSUME NEW b \in GoodBals, NEW m \in Nat, NEW debt \in Int
    PROVE  /\ DOMAIN b \subseteq Addr
           /\ Credits(b, m, debt) \in [DOMAIN b -> Nat]
           /\ SumFunctionOnSet(Credits(b, m, debt), DOMAIN b) <= Times(debt) * m
<1> DEFINE D == DOMAIN b  total == SumFunction(b)
           capped == IF m > total THEN total ELSE m
           k == capped * Compensation(debt)
           g == Credits(b, m, debt)
           t == Times(debt) * m
<1>1. PICK K \in SUBSET Addr : b \in [K -> Nat]
    BY DEF GoodBals
<1>2. D \subseteq Addr /\ IsFiniteSet(D) /\ \A a \in D : b[a] \in Nat
    BY <1>1, Constants, FS_Subset
<1>3. total = SumFunctionOnSet(b, D) /\ total > 0
    BY SumDomain DEF GoodBals
<1>4. total \in Nat \ {0}
    BY <1>2, <1>3, SumNat
<1>5. capped \in Nat /\ capped <= m
    BY <1>4
<1>6. Compensation(debt) \in {1, 2, 4}
    BY DEF Compensation
<1>7. k \in Nat /\ t \in Nat /\ k <= 2 * t
  <2>1. (t = m /\ Compensation(debt) \in {1, 2}) \/ (t = 2 * m /\ Compensation(debt) = 4)
    BY <1>6 DEF Times
  <2> HIDE DEF capped, t
  <2>2. (t = m /\ (k = capped \/ k = capped * 2)) \/ (t = 2 * m /\ k = capped * 4)
    BY <1>5, <2>1
  <2> HIDE DEF k
  <2>3. QED
    BY <1>5, <2>2
<1>8. \A a \in D : g[a] = (b[a] * k) \div (2 * total)
  <2> SUFFICES ASSUME NEW a \in D PROVE g[a] = (b[a] * k) \div (2 * total)
    OBVIOUS
  <2>1. g[a] = (b[a] * capped * Compensation(debt)) \div (2 * total)
    BY DEF Credits
  <2>2. b[a] * capped * Compensation(debt) = b[a] * k
    <3> HIDE DEF capped
    <3>1. QED
      BY <1>2, <1>5, <1>6
  <2>3. QED
    BY <2>1, <2>2
<1>9. 2 * total \in Nat \ {0}
    BY <1>4
<1>10. \A a \in D : g[a] \in Nat
  <2> SUFFICES ASSUME NEW a \in D PROVE g[a] \in Nat
    OBVIOUS
  <2> DEFINE n == b[a] * k
  <2> HIDE DEF k, total, g
  <2>1. n \in Nat
    BY <1>2, <1>7
  <2>2. g[a] = n \div (2 * total)
    BY <1>8
  <2> HIDE DEF n
  <2>3. QED
    BY <1>9, <2>1, <2>2
<1>11. g \in [D -> Nat]
  <2>1. g = [a \in D |-> g[a]]
    BY DEF Credits
  <2> HIDE DEF g
  <2>2. QED
    BY <1>10, <2>1
<1>12. SumFunctionOnSet(g, D) <= t
  <2> DEFINE G == SumFunctionOnSet(g, D)
  <2> HIDE DEF g, k, t, total, D
  <2>1. G * (2 * total) <= SumFunctionOnSet(b, D) * k
    BY <1>2, <1>7, <1>8, <1>9, SumOfShares
  <2>2. G \in Nat
    BY <1>2, <1>10, SumNat
  <2>3. G * (2 * total) <= total * k
    BY <1>3, <2>1
  <2> HIDE DEF G
  <2>4. G * 2 <= k
    BY <1>4, <1>7, <2>2, <2>3
  <2>5. G <= t
    BY <1>7, <2>2, <2>4
  <2>6. QED
    BY <2>5 DEF G
<1>13. QED
    BY <1>2, <1>11, <1>12

-----------------------------------------------------------------------------
(* What the pool may spend: the rewards of the credited blocks.            *)

CreditedReward == [h \in Queue!Heights |-> (credited[h] + doubled[h]) * RewardOf(block[h])]
CreditedRewards == SumFunctionOnSet(CreditedReward, Queue!Heights)

\* A block that was paid double was credited.
DoubledCredited ==
    /\ doubled \in [Queue!Heights -> Nat]
    /\ \A h \in Queue!Heights : doubled[h] > 0 => credited[h] > 0

LEMMA CreditedTypes ==
    ASSUME QInv, DoubledCredited
    PROVE  /\ credited \in [Queue!Heights -> Nat] /\ doubled \in [Queue!Heights -> Nat]
           /\ \A h \in Queue!Heights : CreditedReward[h] \in Nat
           /\ CreditedRewards \in Nat
<1>1. credited \in [Queue!Heights -> Nat] /\ doubled \in [Queue!Heights -> Nat]
    BY DEF QInv, QueueProofs!IInv, QueueProofs!TypeOK, QueueProofs!Heights, Queue!Heights,
        DoubledCredited
<1>2. ASSUME NEW h \in Queue!Heights PROVE CreditedReward[h] \in Nat
  <2> DEFINE n == credited[h] + doubled[h]  r == RewardOf(block[h])
  <2>1. n \in Nat /\ r \in Nat
    BY <1>1, RewardType
  <2>2. CreditedReward[h] = n * r
    BY DEF CreditedReward
  <2> HIDE DEF n, r
  <2>3. QED
    BY <2>1, <2>2
<1>3. QED
    BY <1>1, <1>2, Constants, SumNat DEF CreditedRewards

\* No step but CreditReward changes it ...
LEMMA CreditedRewardsStay ==
    ASSUME QInv, DoubledCredited, [Next]_vars, credited' = credited, doubled' = doubled
    PROVE  CreditedRewards' = CreditedRewards
<1>1. [QueueProofs!Next]_(QueueProofs!vars)
    BY QueueNext, SameQueue
<1>2. \A h \in Queue!Heights : CreditedReward'[h] = CreditedReward[h]
  <2> SUFFICES ASSUME NEW h \in Queue!Heights PROVE CreditedReward'[h] = CreditedReward[h]
    OBVIOUS
  <2>1. h \in QueueProofs!Heights
    BY DEF Queue!Heights, QueueProofs!Heights
  <2>2. CASE credited[h] > 0
    <3>1. block'[h] = block[h]
      BY <1>1, <2>1, <2>2, QueueProofs!CreditedSettled, QueueAssumption
      DEF QInv, Queue!HeightAssumption, Queue!EnvironmentAssumption
    <3>2. QED
      BY <3>1 DEF CreditedReward
  <2>3. CASE ~(credited[h] > 0)
    <3>1. credited[h] + doubled[h] = 0
      BY <2>3, CreditedTypes DEF DoubledCredited
    <3>2. 0 * RewardOf(block[h]) = 0 /\ 0 * RewardOf(block'[h]) = 0
      BY RewardType
    <3>3. QED
      BY <3>1, <3>2 DEF CreditedReward
  <2>4. QED
    BY <2>2, <2>3
<1>3. QED
    BY <1>2, Constants, SumSame DEF CreditedRewards

\* ... and CreditReward adds the reward of the head, or twice that.
LEMMA CreditedRewardsGrow ==
    ASSUME StableDepth <= MinConfs, QInv, DoubledCredited,
           NEW c \in Cycles, NEW debt, CreditReward(c, debt)
    PROVE  /\ CreditedRewards' = CreditedRewards
                                 + Times(debt) * RewardOf(block[Head(unconfirmed).block])
           /\ DoubledCredited'
<1> DEFINE hd == Head(unconfirmed).block  r == RewardOf(block[hd])
           n == credited[hd] + doubled[hd]
<1>1. Queue!CreditReward(c) /\ QueueProofs!CreditReward(c)
    BY SameActions DEF CreditReward
<1>2. hd \in QueueProofs!Heights
    BY <1>1, QueueProofs!CreditIsDeep, QueueAssumption
    DEF QInv, Queue!HeightAssumption, Queue!EnvironmentAssumption
<1>3. hd \in Queue!Heights
    BY <1>2 DEF Queue!Heights, QueueProofs!Heights
<1>4. /\ block' = block
      /\ credited' = [credited EXCEPT ![hd] = @ + 1]
      /\ doubled' = [doubled EXCEPT ![hd] = IF Compensation(debt) = 4 THEN @ + 1 ELSE @]
    BY <1>1 DEF CreditReward, Queue!CreditReward, Queue!Return, Queue!chainVars
<1>5. credited \in [Queue!Heights -> Nat] /\ doubled \in [Queue!Heights -> Nat]
    BY CreditedTypes
<1> HIDE DEF hd
<1>6. /\ \A h \in Queue!Heights \ {hd} : credited'[h] = credited[h] /\ doubled'[h] = doubled[h]
      /\ credited'[hd] = credited[hd] + 1
      /\ doubled'[hd] = doubled[hd] + (Times(debt) - 1)
      /\ Times(debt) \in {1, 2}
      /\ doubled' \in [Queue!Heights -> Nat]
    BY <1>3, <1>4, <1>5 DEF Times
<1>7. DoubledCredited'
    BY <1>3, <1>5, <1>6 DEF DoubledCredited
<1>8. \A h \in Queue!Heights \ {hd} : CreditedReward[h] = CreditedReward'[h]
    BY <1>4, <1>6 DEF CreditedReward
<1>9. CreditedReward'[hd] = CreditedReward[hd] + Times(debt) * r
  <2>1. n \in Nat /\ r \in Nat
    BY <1>3, <1>5, RewardType
  <2>2. CreditedReward[hd] = n * r
    BY <1>3 DEF CreditedReward
  <2>3. CreditedReward'[hd] = (n + Times(debt)) * r
    <3>1. credited'[hd] + doubled'[hd] = n + Times(debt)
      BY <1>3, <1>5, <1>6
    <3>2. QED
      BY <1>3, <1>4, <3>1 DEF CreditedReward
  <2> HIDE DEF n, r
  <2>4. (n + Times(debt)) * r = n * r + Times(debt) * r
    BY <1>6, <2>1
  <2>5. QED
    BY <2>2, <2>3, <2>4
<1>10. \A h \in Queue!Heights : CreditedReward[h] \in Int /\ CreditedReward'[h] \in Int
  <2>1. r \in Nat
    BY RewardType
  <2>2. Times(debt) * r \in Nat
    <3> HIDE DEF r
    <3>1. QED
      BY <1>6, <2>1
  <2>3. \A h \in Queue!Heights : CreditedReward[h] \in Nat
    BY CreditedTypes
  <2> HIDE DEF r
  <2>4. QED
    BY <1>8, <1>9, <2>2, <2>3
<1>11. CreditedRewards' = CreditedRewards - CreditedReward[hd] + CreditedReward'[hd]
  <2> DEFINE f == CreditedReward  g == CreditedReward'  S == Queue!Heights
  <2>1. /\ IsFiniteSet(S) /\ hd \in S
        /\ \A y \in S : f[y] \in Int /\ g[y] \in Int
        /\ \A y \in S \ {hd} : f[y] = g[y]
    BY <1>3, <1>8, <1>10, Constants
  <2>2. CreditedRewards' = SumFunctionOnSet(g, S) /\ CreditedRewards = SumFunctionOnSet(f, S)
    BY DEF CreditedRewards
  <2> HIDE DEF f, g, S
  <2>3. SumFunctionOnSet(g, S) = SumFunctionOnSet(f, S) - f[hd] + g[hd]
    BY <2>1, SumUpdate
  <2>4. QED
    BY <2>2, <2>3 DEF f, g
<1>12. CreditedRewards' = CreditedRewards + Times(debt) * r
  <2> DEFINE q == CreditedReward[hd]  q1 == CreditedReward'[hd]  k == Times(debt) * r
             R == CreditedRewards  R1 == CreditedRewards'
  <2>1. q \in Int /\ q1 \in Int /\ R \in Int /\ q1 = q + k /\ R1 = R - q + q1
    BY <1>3, <1>9, <1>10, <1>11, CreditedTypes
  <2>2. k \in Int
    <3>1. r \in Nat
      BY RewardType
    <3> HIDE DEF r
    <3>2. QED
      BY <1>6, <3>1
  <2> HIDE DEF q, q1, k, R, R1
  <2>3. R1 = R + k
    BY <2>1, <2>2
  <2>4. QED
    BY <2>3 DEF R, R1, k
<1>13. QED
    BY <1>7, <1>12 DEF r, hd

-----------------------------------------------------------------------------
(* The inductive invariant: what the amounts are computed from.            *)

LedgerType ==
    /\ info \in [Addr -> Accounts!AddrInfo] /\ earned \in [Addr -> Nat]
    /\ batch \subseteq Addr /\ outgo \in Nat /\ lost \in Nat
    /\ rewards \in [Cycles -> [Queue!Heights -> Nat]]

\* A listed coinbase has a reward.
ListedRewards == \A c \in Cycles : \A h \in transfers[c] : rewards[c][h] > 0

\* Every entry of the queue has its balances, and they hold money.
BalsMatch == bals \in Seq(GoodBals) /\ Len(bals) = Len(unconfirmed)

\* The open Withdraw pays accounts that are due.
BatchDue == tx # "idle" => batch # {} /\ \A a \in batch : info[a].Balance > MinWithdrawal

LInv == QInv /\ DoubledCredited /\ LedgerType /\ ListedRewards /\ BalsMatch /\ BatchDue

LEMMA QueueTypes ==
    ASSUME QInv
    PROVE  /\ unconfirmed \in Seq(QueueProofs!UnconfTx)
           /\ transfers \in [Cycles -> SUBSET Queue!Heights]
           /\ Queue!Heights = QueueProofs!Heights
           /\ height = 0 => \A c \in Cycles : transfers[c] = {}
    BY DEF QInv, QueueProofs!IInv, QueueProofs!TypeOK, QueueProofs!AwakeListed,
        QueueProofs!Heights, Queue!Heights

LEMMA InitLInv == Init => LInv
<1> SUFFICES ASSUME Init PROVE LInv
    OBVIOUS
<1>1. QInv
    BY InitQInv
<1>2. info \in [Addr -> Accounts!AddrInfo] /\ earned \in [Addr -> Nat]
    BY Constants DEF Init, Accounts!Init, Accounts!NoInfo, Accounts!AddrInfo
<1>3. /\ batch \subseteq Addr /\ outgo \in Nat /\ lost \in Nat
      /\ rewards \in [Cycles -> [Queue!Heights -> Nat]]
    BY DEF Init, Accounts!Init, NoRewards
<1>4. ListedRewards
    BY DEF Init, Queue!Init, ListedRewards
<1>5. BalsMatch
    BY EmptySeq DEF Init, Queue!Init, BalsMatch
<1>6. BatchDue
    BY DEF Init, Accounts!Init, BatchDue
<1>7. DoubledCredited
    BY DEF Init, DoubledCredited
<1>8. QED
    BY <1>1, <1>2, <1>3, <1>4, <1>5, <1>6, <1>7 DEF LInv, LedgerType

\* What one payment costs the wallet.
LEMMA PaymentType ==
    ASSUME LInv, tx # "idle"
    PROVE  Payment \in Nat
<1> DEFINE pay == [a \in batch |-> info[a].Balance - WithdrawalFee]
<1>1. IsFiniteSet(batch)
    BY Constants, FS_Subset DEF LInv, LedgerType
<1>2. \A a \in batch : pay[a] \in Nat
    BY Constants DEF LInv, LedgerType, BatchDue, Accounts!AddrInfo
<1>3. SumFunction(pay) = SumFunctionOnSet(pay, batch)
    BY SumDomain
<1>4. SumFunctionOnSet(pay, batch) \in Nat
  <2> HIDE DEF pay
  <2>1. QED
    BY <1>1, <1>2, SumNat
<1>5. Payment = SumFunctionOnSet(pay, batch) + TxFee
    BY <1>3 DEF Payment
<1>6. QED
    BY <1>4, <1>5, Constants

\* The queue's entries that RecordPending adds are for listed blocks.
LEMMA RecordedAreListed ==
    ASSUME QInv, NEW c \in Cycles, Queue!RecordPending(c)
    PROVE  /\ unconfirmed' \in Seq(QueueProofs!UnconfTx)
           /\ Len(unconfirmed') - Len(unconfirmed) \in Nat
           /\ \A i \in 1 .. Len(unconfirmed') - Len(unconfirmed) :
                unconfirmed'[Len(unconfirmed) + i].block \in transfers[c]
<1>1. PICK e \in Seq(QueueProofs!UnconfTx) :
             /\ unconfirmed' = unconfirmed \o e
             /\ \A i \in 1 .. Len(e) : e[i].block \in QueueProofs!Fresh(c)
    BY SameActions, QueueProofs!RecordShape, QueueAssumption
    DEF QInv, Queue!HeightAssumption, Queue!EnvironmentAssumption
<1>2. /\ unconfirmed' \in Seq(QueueProofs!UnconfTx)
      /\ Len(unconfirmed') = Len(unconfirmed) + Len(e)
      /\ Len(e) \in Nat /\ Len(unconfirmed) \in Nat
      /\ \A i \in 1 .. Len(e) : unconfirmed'[Len(unconfirmed) + i] = e[i]
    BY <1>1, QueueTypes, ConcatProperties, LenProperties
<1>3. Len(unconfirmed') - Len(unconfirmed) = Len(e)
    BY <1>2
<1>4. QED
    BY <1>1, <1>2, <1>3 DEF QueueProofs!Fresh

\* What UpdatePendingBals shows as pending is an amount.
LEMMA PendingsType ==
    ASSUME LInv, NEW c \in Cycles, NEW w \in Windows
    PROVE  \A a \in Addr : TotalPendings(c, w)[a] \in Nat
<1> SUFFICES ASSUME NEW a \in Addr PROVE TotalPendings(c, w)[a] \in Nat
    OBVIOUS
<1> DEFINE F == Queue!Fresh(c)
           p == [h \in F |-> MinerShare(rewards[c][h], w, a)
                    + (IF a = FeeAddress THEN Bals(rewards[c][h], w)[a] ELSE 0)]
<1>1. F \subseteq Queue!Heights
    BY QueueTypes DEF LInv, Queue!Fresh
<1>2. IsFiniteSet(F)
    BY <1>1, Constants, FS_Subset
<1>3. \A h \in F : p[h] \in Nat
  <2> SUFFICES ASSUME NEW h \in F PROVE p[h] \in Nat
    OBVIOUS
  <2>1. rewards[c][h] \in Nat
    BY <1>1 DEF LInv, LedgerType
  <2>2. MinerShare(rewards[c][h], w, a) \in Nat
    BY <2>1, SharesWithin
  <2>3. a = FeeAddress => Bals(rewards[c][h], w)[a] \in Nat
    BY <2>1, SplitIsExact
  <2>4. QED
    BY <2>2, <2>3
<1>4. TotalPendings(c, w)[a] = SumFunctionOnSet(p, F)
    BY SumDomain DEF TotalPendings
<1>5. SumFunctionOnSet(p, F) \in Nat
  <2> HIDE DEF p, F
  <2>1. QED
    BY <1>2, <1>3, SumNat
<1>6. QED
    BY <1>4, <1>5

LEMMA RecordLedger ==
    ASSUME LInv, NEW c \in Cycles, NEW w \in Windows, RecordPending(c, w)
    PROVE  /\ LedgerType' /\ ListedRewards' /\ BalsMatch' /\ BatchDue'
           /\ \A a \in Addr : info'[a].Balance = info[a].Balance
<1> DEFINE n == Len(unconfirmed') - Len(unconfirmed)
           added(i) == unconfirmed'[Len(unconfirmed) + i].block
           new == [i \in 1 .. n |-> Bals(rewards[c][added(i)], w)]
<1>1. /\ unconfirmed' \in Seq(QueueProofs!UnconfTx) /\ n \in Nat
      /\ \A i \in 1 .. n : added(i) \in transfers[c]
    BY RecordedAreListed DEF LInv, RecordPending
<1>2. \A i \in 1 .. n : new[i] \in GoodBals
  <2> SUFFICES ASSUME NEW i \in 1 .. n PROVE new[i] \in GoodBals
    OBVIOUS
  <2> DEFINE r == rewards[c][added(i)]
  <2>1. added(i) \in transfers[c]
    BY <1>1
  <2>2. r \in Nat /\ r > 0
    BY <2>1, QueueTypes DEF LInv, LedgerType, ListedRewards
  <2>3. new[i] = Bals(r, w)
    OBVIOUS
  <2> HIDE DEF r, new, added
  <2>4. Bals(r, w) \in [DOMAIN w \cup {FeeAddress} -> Nat] /\ SumFunction(Bals(r, w)) = r
    BY <2>2, SplitIsExact
  <2>5. DOMAIN w \cup {FeeAddress} \in SUBSET Addr
    BY Constants, AmountAssumption
  <2>6. QED
    BY <2>2, <2>3, <2>4, <2>5 DEF GoodBals
<1>3. new \in Seq(GoodBals) /\ Len(new) = n
  <2> HIDE DEF n, added
  <2>1. \A i \in 1 .. n : new[i] \in GoodBals
    BY <1>2
  <2>2. new = [i \in 1 .. n |-> new[i]]
    OBVIOUS
  <2> HIDE DEF new
  <2>3. new \in [1 .. n -> GoodBals]
    BY <2>1, <2>2
  <2>4. QED
    BY <1>1, <2>3
<1>4. BalsMatch'
  <2>1. bals' = bals \o new
    BY DEF RecordPending
  <2>2. bals \in Seq(GoodBals) /\ Len(bals) = Len(unconfirmed)
    BY DEF LInv, BalsMatch
  <2>3. Len(unconfirmed') \in Nat /\ Len(unconfirmed) \in Nat
    BY <1>1, QueueTypes, LenProperties DEF LInv
  <2>4. Len(unconfirmed) + n = Len(unconfirmed')
    BY <2>3
  <2> HIDE DEF n, new
  <2>5. bals \o new \in Seq(GoodBals) /\ Len(bals \o new) = Len(bals) + Len(new)
    BY <1>3, <2>2, ConcatProperties
  <2>6. QED
    BY <1>3, <2>1, <2>2, <2>4, <2>5 DEF BalsMatch
<1>5. /\ tx = "idle" /\ tx' = tx /\ batch' = batch /\ earned' = earned
      /\ outgo' = outgo /\ lost' = lost
    BY DEF RecordPending, WriterFree, Accounts!SetPending, Accounts!payVars, ledger
<1>6. /\ info' \in [Addr -> Accounts!AddrInfo]
      /\ \A a \in Addr : info'[a].Balance = info[a].Balance
  <2> DEFINE pending == TotalPendings(c, w)
  <2>1. info' = [a \in Addr |-> IF a \in known THEN [info[a] EXCEPT !.BalancePending = pending[a]]
                                             ELSE info[a]]
    BY DEF RecordPending, Accounts!SetPending
  <2>2. \A a \in Addr : pending[a] \in Nat /\ info[a] \in Accounts!AddrInfo
    BY PendingsType DEF LInv, LedgerType
  <2> HIDE DEF pending
  <2>3. QED
    BY <2>1, <2>2 DEF Accounts!AddrInfo
<1>7. rewards' \in [Cycles -> [Queue!Heights -> Nat]] /\ ListedRewards'
  <2>1. rewards' = [rewards EXCEPT ![c] = NoRewards] /\ transfers' = [transfers EXCEPT ![c] = {}]
    BY DEF RecordPending, Queue!RecordPending
  <2>2. NoRewards \in [Queue!Heights -> Nat]
    BY DEF NoRewards
  <2>3. rewards \in [Cycles -> [Queue!Heights -> Nat]] /\ transfers \in [Cycles -> SUBSET Queue!Heights]
    BY QueueTypes DEF LInv, LedgerType
  <2>4. QED
    BY <2>1, <2>2, <2>3 DEF LInv, ListedRewards
<1>8. LedgerType'
    BY <1>5, <1>6, <1>7 DEF LInv, LedgerType
<1>9. BatchDue'
    BY <1>5 DEF BatchDue
<1>10. QED
    BY <1>4, <1>6, <1>7, <1>8, <1>9

\* What the wallet holds and what the database owes are numbers.
LEMMA TotalsType ==
    ASSUME LInv
    PROVE  Funds \in Int /\ Owed \in Nat /\ ShownPending \in Nat /\ GetDebt \in Int
<1> DEFINE coin == [h \in Queue!Heights |-> RewardOf(block[h])]
           bal == [a \in Addr |-> info[a].Balance]
           pend == [a \in Addr |-> info[a].BalancePending]
<1>1. /\ \A h \in Queue!Heights : coin[h] \in Nat
      /\ \A a \in Addr : bal[a] \in Nat /\ pend[a] \in Nat
    BY RewardType DEF LInv, LedgerType, Accounts!AddrInfo
<1>2. /\ SumFunction(coin) = SumFunctionOnSet(coin, Queue!Heights)
      /\ SumFunction(bal) = SumFunctionOnSet(bal, Addr)
      /\ SumFunction(pend) = SumFunctionOnSet(pend, Addr)
    BY SumDomain
<1>3. Funds = SumFunction(coin) - outgo /\ Owed = SumFunction(bal) /\ ShownPending = SumFunction(pend)
    BY DEF Funds, Owed, ShownPending
<1>4. outgo \in Nat
    BY DEF LInv, LedgerType
<1> HIDE DEF coin, bal, pend
<1>5. SumFunction(coin) \in Nat /\ SumFunction(bal) \in Nat /\ SumFunction(pend) \in Nat
    BY <1>1, <1>2, Constants, SumNat
<1>6. QED
    BY <1>3, <1>4, <1>5 DEF GetDebt

\* What crediting the head of the queue may give the accounts.
Gain(debt) == Times(debt) * RewardOf(block[Head(unconfirmed).block])

LEMMA GainType == \A debt : Gain(debt) \in Nat
    BY RewardType DEF Gain, Times

\* Crediting a reward: the accounts grow by at most what the daemon reports,
\* or twice that.
LEMMA CreditLedger ==
    ASSUME LInv, NEW c \in Cycles, NEW debt \in Debts, CreditReward(c, debt)
    PROVE  /\ LedgerType' /\ ListedRewards' /\ BalsMatch' /\ BatchDue'
           /\ SumFunctionOnSet(earned', Addr) <= SumFunctionOnSet(earned, Addr) + Gain(debt)
           /\ Owed' <= Owed + Gain(debt)
<1> DEFINE r == RewardOf(block[Head(unconfirmed).block])
           m == Gain(debt)
           b == Head(bals)
           g == Credits(b, r, debt)
           D == DOMAIN b
<1>1. r \in Nat /\ m \in Nat /\ m = Times(debt) * r
    BY RewardType, GainType DEF Gain
<1>2. debt \in Int
    BY TotalsType DEF Debts
<1>3. unconfirmed \in Seq(QueueProofs!UnconfTx) /\ unconfirmed # << >> /\ unconfirmed' = Tail(unconfirmed)
    BY QueueTypes DEF LInv, CreditReward, Queue!CreditReward, Queue!Confirmed
<1>4. bals \in Seq(GoodBals) /\ bals # << >> /\ bals' = Tail(bals)
  <2>1. bals \in Seq(GoodBals) /\ Len(bals) = Len(unconfirmed) /\ bals' = Tail(bals)
    BY DEF LInv, BalsMatch, CreditReward
  <2>2. Len(unconfirmed) # 0
    BY <1>3, EmptySeq
  <2>3. QED
    BY <2>1, <2>2, EmptySeq
<1>5. b \in GoodBals /\ BalsMatch'
  <2>1. b \in GoodBals /\ Tail(bals) \in Seq(GoodBals) /\ Len(Tail(bals)) = Len(bals) - 1
    BY <1>4, HeadTailProperties
  <2>2. Len(Tail(unconfirmed)) = Len(unconfirmed) - 1
    BY <1>3, HeadTailProperties
  <2>3. QED
    BY <1>3, <1>4, <2>1, <2>2 DEF LInv, BalsMatch
<1>6. D \subseteq Addr /\ g \in [D -> Nat] /\ SumFunctionOnSet(g, D) <= m
  <2> HIDE DEF r, m, b
  <2>1. QED
    BY <1>1, <1>2, <1>5, CreditsWithin
<1>7. DOMAIN g = D
    BY <1>6
<1>8. /\ Accounts!Credit(g) /\ tx = "idle" /\ transfers' = transfers
      /\ rewards' = rewards /\ outgo' = outgo /\ lost' = lost
    BY DEF CreditReward, WriterFree, Queue!CreditReward, Queue!Return, ledger
<1> DEFINE add == [a \in Addr |-> IF a \in D THEN g[a] ELSE 0]
<1> HIDE DEF r, m, b, g, D
<1>9. \A a \in Addr : add[a] \in Nat
    BY <1>6
<1>10. /\ info \in [Addr -> Accounts!AddrInfo] /\ earned \in [Addr -> Nat]
    BY DEF LInv, LedgerType
<1>11. /\ earned' \in [Addr -> Nat]
       /\ \A a \in Addr : earned'[a] = earned[a] + add[a]
    BY <1>6, <1>7, <1>8, <1>10 DEF Accounts!Credit
<1>12. /\ info' \in [Addr -> Accounts!AddrInfo]
       /\ \A a \in Addr : info'[a].Balance <= info[a].Balance + add[a]
  <2>1. info' = [a \in Addr |->
           IF a \notin D THEN info[a]
           ELSE IF a \in Banned
                THEN [Balance |-> 0, BalancePending |-> 0, Paid |-> info[a].Paid]
                ELSE [info[a] EXCEPT !.Balance = @ + g[a]]]
    BY <1>7, <1>8 DEF Accounts!Credit
  <2>2. \A a \in Addr : info'[a] \in Accounts!AddrInfo /\ info'[a].Balance <= info[a].Balance + add[a]
    <3> SUFFICES ASSUME NEW a \in Addr
        PROVE info'[a] \in Accounts!AddrInfo /\ info'[a].Balance <= info[a].Balance + add[a]
      OBVIOUS
    <3>1. info[a] \in Accounts!AddrInfo
      BY <1>10
    <3>2. CASE a \notin D
      BY <2>1, <3>1, <3>2 DEF Accounts!AddrInfo
    <3>3. CASE a \in D /\ a \in Banned
      BY <1>9, <2>1, <3>1, <3>3 DEF Accounts!AddrInfo
    <3>4. CASE a \in D /\ a \notin Banned
      BY <1>9, <2>1, <3>1, <3>4 DEF Accounts!AddrInfo
    <3>5. QED
      BY <3>2, <3>3, <3>4
  <2>3. QED
    BY <2>1, <2>2
<1>13. SumFunctionOnSet(add, Addr) <= m
  <2>1. \A a \in D : add[a] = g[a]
    BY <1>6
  <2>2. \A a \in Addr \ D : add[a] = 0
    OBVIOUS
  <2> HIDE DEF add
  <2>3. IsFiniteSet(D) /\ D \in SUBSET Addr
    BY <1>6, Constants, FS_Subset
  <2>4. SumFunctionOnSet(add, Addr) = SumFunctionOnSet(add, D)
    <3>1. \A a \in Addr : add[a] \in Int
      BY <1>9
    <3>2. QED
      BY <2>2, <2>3, <3>1, Constants, SumSupport
  <2>5. SumFunctionOnSet(add, D) = SumFunctionOnSet(g, D)
    BY <2>1, <2>3, SumSame
  <2>6. QED
    BY <1>6, <2>4, <2>5
<1>14. SumFunctionOnSet(add, Addr) \in Nat
  <2> HIDE DEF add
  <2>1. QED
    BY <1>9, Constants, SumNat
<1>15. SumFunctionOnSet(earned', Addr) <= SumFunctionOnSet(earned, Addr) + m
  <2> DEFINE e == earned'
  <2> HIDE DEF add
  <2>1. \A a \in Addr : earned[a] \in Int /\ add[a] \in Int /\ e[a] = earned[a] + add[a]
    BY <1>9, <1>10, <1>11
  <2>2. SumFunctionOnSet(earned, Addr) \in Nat
    BY <1>10, Constants, SumNat
  <2> HIDE DEF e
  <2>3. SumFunctionOnSet(e, Addr) = SumFunctionOnSet(earned, Addr) + SumFunctionOnSet(add, Addr)
    BY <2>1, Constants, SumAdd
  <2>4. SumFunctionOnSet(e, Addr) <= SumFunctionOnSet(earned, Addr) + m
    BY <1>1, <1>13, <1>14, <2>2, <2>3
  <2>5. QED
    BY <2>4 DEF e
<1>16. Owed' <= Owed + m
  <2> DEFINE old == [a \in Addr |-> info[a].Balance]
             new == [a \in Addr |-> info'[a].Balance]
             most == [a \in Addr |-> old[a] + add[a]]
  <2>1. Owed = SumFunctionOnSet(old, Addr) /\ Owed' = SumFunctionOnSet(new, Addr)
    BY SumDomain DEF Owed
  <2>2. \A a \in Addr : /\ old[a] \in Nat /\ new[a] \in Nat
                        /\ most[a] = old[a] + add[a] /\ new[a] <= most[a]
    BY <1>9, <1>10, <1>12 DEF Accounts!AddrInfo
  <2> HIDE DEF old, new, most, add
  <2>3. \A a \in Addr : old[a] \in Int /\ new[a] \in Int /\ add[a] \in Int /\ most[a] \in Int
    BY <1>9, <2>2
  <2>4. SumFunctionOnSet(most, Addr) = SumFunctionOnSet(old, Addr) + SumFunctionOnSet(add, Addr)
    BY <2>2, <2>3, Constants, SumAdd
  <2>5. SumFunctionOnSet(new, Addr) <= SumFunctionOnSet(most, Addr)
    BY <2>2, <2>3, Constants, SumMonotone
  <2>6. SumFunctionOnSet(new, Addr) \in Int /\ SumFunctionOnSet(old, Addr) \in Int
    BY <2>3, Constants, SumInt
  <2>7. QED
    BY <1>1, <1>13, <1>14, <2>1, <2>4, <2>5, <2>6
<1>17. LedgerType' /\ ListedRewards' /\ BatchDue'
    BY <1>8, <1>11, <1>12 DEF LInv, LedgerType, ListedRewards, BatchDue, Accounts!Credit, Accounts!payVars
<1>18. QED
    BY <1>5, <1>15, <1>16, <1>17 DEF m

\* The other steps of the queue.
LEMMA QueueLedger ==
    ASSUME LInv, NEW c \in Cycles,
           \/ Poll(c) \/ (\E top \in Queue!WalletTops : ListTransactions(c, top))
           \/ ListFails(c) \/ RecordAborts(c) \/ DropReward(c) \/ KeepReward(c)
    PROVE  LedgerType' /\ ListedRewards' /\ BalsMatch' /\ BatchDue'
<1>1. UNCHANGED accountVars /\ UNCHANGED ledger
    BY DEF Poll, ListTransactions, ListFails, RecordAborts, DropReward, KeepReward
<1>2. BatchDue'
    BY <1>1 DEF LInv, BatchDue, accountVars
<1>3. rewards \in [Cycles -> [Queue!Heights -> Nat]] /\ transfers \in [Cycles -> SUBSET Queue!Heights]
    BY QueueTypes DEF LInv, LedgerType
<1>4. CASE Poll(c) \/ ListFails(c) \/ KeepReward(c)
  <2>1. UNCHANGED <<rewards, bals, transfers, unconfirmed>>
    BY <1>4 DEF Poll, ListFails, KeepReward, Queue!Poll, Queue!ListFails,
        Queue!NothingConfirmed, Queue!LookupFailsEarly, Queue!RewardMissing,
        Queue!TryAgain, Queue!Return, Queue!pendingVars
  <2>2. QED
    BY <1>1, <1>2, <2>1 DEF LInv, LedgerType, ListedRewards, BalsMatch, accountVars, ledger
<1>5. ASSUME NEW top \in Queue!WalletTops, ListTransactions(c, top)
      PROVE  LedgerType' /\ ListedRewards' /\ BalsMatch'
  <2> DEFINE new == [h \in Queue!Heights |-> IF h \in transfers'[c] THEN RewardOf(block[h]) ELSE 0]
             listed == {h \in Queue!Heights : Queue!ListFrom <= h /\ h <= top /\ block[h] \in Queue!Rewarded}
  <2>1. /\ rewards' = [rewards EXCEPT ![c] = new]
        /\ transfers' = [transfers EXCEPT ![c] = listed]
        /\ UNCHANGED <<bals, unconfirmed>>
    BY <1>5 DEF ListTransactions, Queue!ListTransactions, Queue!pendingVars
  <2>2. new \in [Queue!Heights -> Nat]
    BY RewardType
  <2>3. \A h \in listed : new[h] > 0
    <3> SUFFICES ASSUME NEW h \in listed PROVE new[h] > 0
      OBVIOUS
    <3>1. h \in Queue!Heights /\ h \in transfers'[c] /\ block[h] \in Queue!Rewarded
      BY <1>3, <2>1
    <3>2. new[h] = RewardOf(block[h])
      BY <3>1
    <3>3. QED
      BY <3>1, <3>2, RewardType
  <2> HIDE DEF new, listed
  <2>4. rewards' \in [Cycles -> [Queue!Heights -> Nat]] /\ ListedRewards'
    BY <1>3, <2>1, <2>2, <2>3 DEF LInv, ListedRewards
  <2>5. QED
    BY <1>1, <2>1, <2>4 DEF LInv, LedgerType, BalsMatch, accountVars, ledger
<1>6. CASE RecordAborts(c)
  <2>1. /\ rewards' = [rewards EXCEPT ![c] = NoRewards] /\ transfers' = [transfers EXCEPT ![c] = {}]
        /\ UNCHANGED <<bals, unconfirmed>>
    BY <1>6 DEF RecordAborts, Queue!RecordAborts, Queue!pendingVars
  <2>2. NoRewards \in [Queue!Heights -> Nat]
    BY DEF NoRewards
  <2>3. rewards' \in [Cycles -> [Queue!Heights -> Nat]] /\ ListedRewards'
    BY <1>3, <2>1, <2>2 DEF LInv, ListedRewards
  <2>4. QED
    BY <1>1, <1>2, <2>1, <2>3 DEF LInv, LedgerType, BalsMatch, accountVars, ledger
<1>7. CASE DropReward(c)
  <2>1. /\ unconfirmed # << >> /\ unconfirmed' = Tail(unconfirmed) /\ bals' = Tail(bals)
        /\ UNCHANGED <<rewards, transfers>>
    BY <1>7 DEF DropReward, Queue!DropOrphan, Queue!LookupFailsLate, Queue!DropHead,
        Queue!Return, Queue!Confirmed
  <2>2. /\ unconfirmed \in Seq(QueueProofs!UnconfTx)
        /\ bals \in Seq(GoodBals) /\ Len(bals) = Len(unconfirmed)
    BY QueueTypes DEF LInv, BalsMatch
  <2>3. bals # << >>
    BY <2>1, <2>2, EmptySeq
  <2>4. Len(Tail(unconfirmed)) = Len(unconfirmed) - 1
    BY <2>1, <2>2, HeadTailProperties
  <2>5. Tail(bals) \in Seq(GoodBals) /\ Len(Tail(bals)) = Len(bals) - 1
    BY <2>2, <2>3, HeadTailProperties
  <2>6. BalsMatch'
    BY <2>1, <2>2, <2>4, <2>5 DEF BalsMatch
  <2>7. QED
    BY <1>1, <1>2, <2>1, <2>6 DEF LInv, LedgerType, ListedRewards, accountVars, ledger
<1>8. QED
    BY <1>2, <1>4, <1>5, <1>6, <1>7

\* The steps of Withdraw.
LEMMA WithdrawLedger ==
    ASSUME LInv, Withdraw \/ Broadcast \/ ReplyLost
    PROVE  LedgerType' /\ ListedRewards' /\ BalsMatch' /\ BatchDue'
<1>1. UNCHANGED <<rewards, bals, transfers, unconfirmed>>
    BY DEF Withdraw, Broadcast, ReplyLost, queueVars
<1>2. ListedRewards' /\ BalsMatch'
    BY <1>1 DEF LInv, ListedRewards, BalsMatch
<1>3. earned' = earned
    BY DEF Withdraw, Broadcast, ReplyLost, Accounts!StartLoop, Accounts!NothingDue,
        Accounts!OpenWithdraw, Accounts!TransferFails, Accounts!CommitWithdraw,
        Accounts!Broadcast, Accounts!ReplyLost
<1>4. CASE Accounts!StartLoop /\ UNCHANGED ledger
    BY <1>1, <1>2, <1>3, <1>4 DEF Accounts!StartLoop, ledger, LInv, LedgerType, BatchDue
<1>5. CASE (Accounts!NothingDue \/ Accounts!TransferFails) /\ UNCHANGED ledger
    BY <1>1, <1>2, <1>3, <1>5 DEF Accounts!NothingDue, Accounts!TransferFails,
        Accounts!EndWithdraw, ledger, LInv, LedgerType, BatchDue
<1>6. CASE Accounts!OpenWithdraw /\ UNCHANGED ledger
  <2>1. batch' \subseteq Addr /\ batch' # {} /\ \A a \in batch' : info[a].Balance > MinWithdrawal
    BY <1>6 DEF Accounts!OpenWithdraw, Accounts!Destinations, Accounts!Eligible, Accounts!Due
  <2>2. QED
    BY <1>1, <1>2, <1>3, <1>6, <2>1 DEF Accounts!OpenWithdraw, ledger, LInv, LedgerType, BatchDue
<1>7. CASE Accounts!CommitWithdraw /\ UNCHANGED ledger
  <2>1. info' \in [Addr -> Accounts!AddrInfo]
    BY <1>7 DEF Accounts!CommitWithdraw, LInv, LedgerType, Accounts!AddrInfo
  <2>2. QED
    BY <1>1, <1>2, <1>3, <1>7, <2>1 DEF Accounts!CommitWithdraw, Accounts!EndWithdraw,
        ledger, LInv, LedgerType, BatchDue
<1>8. CASE Broadcast
  <2>1. Payment \in Nat
    BY <1>8, PaymentType DEF Broadcast, Accounts!Broadcast
  <2>2. QED
    BY <1>1, <1>2, <1>3, <1>8, <2>1 DEF Broadcast, Accounts!Broadcast, LInv, LedgerType, BatchDue
<1>9. CASE ReplyLost
  <2>1. Unrecorded \in Nat
    BY PaymentType DEF Unrecorded
  <2>2. QED
    BY <1>1, <1>2, <1>3, <1>9, <2>1 DEF ReplyLost, Accounts!ReplyLost, Accounts!EndWithdraw,
        LInv, LedgerType, BatchDue
<1>10. QED
    BY <1>4, <1>5, <1>6, <1>7, <1>8, <1>9 DEF Withdraw

\* A kill ends the goroutines of both parts, and an open Withdraw.
LEMMA CrashLedger ==
    ASSUME LInv, Crash
    PROVE  LedgerType' /\ ListedRewards' /\ BalsMatch' /\ BatchDue'
<1>1. Unrecorded \in Nat
    BY PaymentType DEF Unrecorded
<1>2. /\ \/ attempts = 0 /\ UNCHANGED accountVars
         \/ Accounts!EndWithdraw(FALSE) /\ UNCHANGED <<info, earned>>
      /\ UNCHANGED <<bals, unconfirmed, outgo>> /\ lost' = lost + Unrecorded
      /\ rewards' = [x \in Cycles |-> NoRewards]
    BY DEF Crash, Accounts!Crash, Queue!Crash, Queue!pendingVars, queueVars
<1>3. \A c \in Cycles : transfers'[c] = {}
  <2>1. CASE Queue!Crash
    BY <2>1 DEF Queue!Crash
  <2>2. CASE height = 0 /\ UNCHANGED queueVars
    <3>1. \A c \in Cycles : transfers[c] = {}
      BY <2>2, QueueTypes DEF LInv
    <3>2. QED
      BY <2>2, <3>1 DEF queueVars
  <2>3. QED
    BY <2>1, <2>2 DEF Crash
<1>4. ListedRewards' /\ BalsMatch'
    BY <1>2, <1>3 DEF LInv, ListedRewards, BalsMatch
<1>5. NoRewards \in [Queue!Heights -> Nat]
    BY DEF NoRewards
<1>6. LedgerType' /\ BatchDue'
    BY <1>1, <1>2, <1>5 DEF LInv, LedgerType, BatchDue, Accounts!EndWithdraw, accountVars
<1>7. QED
    BY <1>4, <1>6

\* No step but CreditReward credits an account or a block.
LEMMA OnlyCreditCredits ==
    ASSUME [Next]_vars, ~ \E c \in Cycles : \E debt \in Debts : CreditReward(c, debt)
    PROVE  earned' = earned /\ credited' = credited /\ doubled' = doubled
<1>1. CASE Environment
    BY <1>1 DEF Environment, Queue!Environment, Queue!MineBlock, Queue!Reclassify,
        Queue!history, accountVars, ledger
<1>2. CASE Withdraw \/ Broadcast \/ ReplyLost
    BY <1>2 DEF Withdraw, Broadcast, ReplyLost, Accounts!StartLoop, Accounts!NothingDue,
        Accounts!OpenWithdraw, Accounts!TransferFails, Accounts!CommitWithdraw,
        Accounts!Broadcast, Accounts!ReplyLost, queueVars, ledger
<1>3. CASE Crash
    BY <1>3 DEF Crash, Queue!Crash, Accounts!Crash, Queue!history, queueVars, accountVars, ledger
<1>4. ASSUME NEW c \in Cycles,
             \/ Poll(c) \/ (\E top \in Queue!WalletTops : ListTransactions(c, top))
             \/ ListFails(c) \/ RecordAborts(c) \/ KeepReward(c)
      PROVE  earned' = earned /\ credited' = credited /\ doubled' = doubled
    BY <1>4 DEF Poll, ListTransactions, ListFails, RecordAborts, KeepReward, Queue!Poll,
        Queue!ListTransactions, Queue!ListFails, Queue!RecordAborts, Queue!NothingConfirmed,
        Queue!LookupFailsEarly, Queue!RewardMissing, Queue!TryAgain, Queue!history, accountVars, ledger
<1>5. ASSUME NEW c \in Cycles, DropReward(c)
      PROVE  earned' = earned /\ credited' = credited /\ doubled' = doubled
    BY <1>5 DEF DropReward, Queue!DropOrphan, Queue!LookupFailsLate, Queue!DropHead, accountVars, ledger
<1>6. ASSUME NEW c \in Cycles, NEW w \in Windows, RecordPending(c, w)
      PROVE  earned' = earned /\ credited' = credited /\ doubled' = doubled
    BY <1>6 DEF RecordPending, Queue!RecordPending, Accounts!SetPending, ledger
<1>7. CASE UNCHANGED vars
    BY <1>7 DEF vars, queueVars, accountVars, ledger
<1>8. QED
    BY <1>1, <1>2, <1>3, <1>4, <1>5, <1>6, <1>7 DEF Next

LEMMA NextLInv ==
    ASSUME StableDepth <= MinConfs, LInv, [Next]_vars
    PROVE  LInv'
<1>1. QInv'
    BY NextQInv DEF LInv
<1>2. ASSUME Environment PROVE LedgerType' /\ ListedRewards' /\ BalsMatch' /\ BatchDue'
  <2>1. UNCHANGED <<transfers, unconfirmed>>
    BY <1>2 DEF Environment, Queue!Environment, Queue!MineBlock, Queue!Reclassify, Queue!pendingVars
  <2>2. QED
    BY <1>2, <2>1 DEF Environment, LInv, LedgerType, ListedRewards, BalsMatch, BatchDue, accountVars, ledger
<1>3. ASSUME UNCHANGED vars PROVE LedgerType' /\ ListedRewards' /\ BalsMatch' /\ BatchDue'
    BY <1>3 DEF vars, LInv, LedgerType, ListedRewards, BalsMatch, BatchDue, queueVars, accountVars, ledger
<1>4. LedgerType' /\ ListedRewards' /\ BalsMatch' /\ BatchDue'
    BY <1>2, <1>3, WithdrawLedger, CrashLedger, QueueLedger, RecordLedger, CreditLedger DEF Next
<1>5. DoubledCredited'
  <2>1. ASSUME credited' = credited, doubled' = doubled PROVE DoubledCredited'
    BY <2>1 DEF LInv, DoubledCredited
  <2>2. QED
    BY <2>1, OnlyCreditCredits, CreditedRewardsGrow DEF LInv
<1>6. QED
    BY <1>1, <1>4, <1>5 DEF LInv

-----------------------------------------------------------------------------
(* Nothing is overpaid, and the wallet covers the accounts.                *)

\* What was credited in all is within the rewards of the credited blocks.
EarnedWithin == SumFunctionOnSet(earned, Addr) <= CreditedRewards

LEMMA EarnedIsNotOverpaid == LInv => (NotOverpaid <=> EarnedWithin)
<1> SUFFICES ASSUME LInv PROVE NotOverpaid <=> EarnedWithin
    OBVIOUS
<1> DEFINE n == [h \in Queue!Heights |-> credited[h] + doubled[h]]
           f == [h \in Queue!Heights |-> n[h] * RewardOf(block[h])]
<1>1. SumFunction(earned) = SumFunctionOnSet(earned, Addr)
  <2>1. DOMAIN earned = Addr
    BY DEF LInv, LedgerType
  <2>2. QED
    BY <2>1, SumDomain
<1>2. Rewards(n) = SumFunctionOnSet(f, Queue!Heights)
  <2>1. Rewards(n) = SumFunction(f) /\ DOMAIN f = Queue!Heights
    BY DEF Rewards
  <2> HIDE DEF f, n
  <2>2. QED
    BY <2>1, SumDomain
<1>3. f = CreditedReward
    BY DEF CreditedReward
<1>4. NotOverpaid <=> SumFunction(earned) <= Rewards(n)
    BY DEF NotOverpaid
<1> HIDE DEF f, n
<1>5. QED
    BY <1>1, <1>2, <1>3, <1>4 DEF EarnedWithin, CreditedRewards

\* At the start nothing is credited when no banned account has a balance.
LEMMA InitTotals ==
    ASSUME Init, OldBalance = 0
    PROVE  SumFunctionOnSet(earned, Addr) = 0 /\ Owed = 0
<1> DEFINE bal == [a \in Addr |-> info[a].Balance]
<1>1. \A a \in Addr : earned[a] = 0 /\ bal[a] = 0
    BY DEF Init, Accounts!Init, Accounts!NoInfo
<1>2. Owed = SumFunctionOnSet(bal, Addr)
    BY SumDomain DEF Owed
<1> HIDE DEF bal
<1>3. QED
    BY <1>1, <1>2, Constants, SumZero

LEMMA NextEarnedWithin ==
    ASSUME StableDepth <= MinConfs, LInv, EarnedWithin, [Next]_vars
    PROVE  EarnedWithin'
<1>1. ASSUME NEW c \in Cycles, NEW debt \in Debts, CreditReward(c, debt)
      PROVE  EarnedWithin'
  <2> DEFINE m == Gain(debt)
             e == earned'
  <2>1. SumFunctionOnSet(e, Addr) <= SumFunctionOnSet(earned, Addr) + m
    BY <1>1, CreditLedger
  <2>2. CreditedRewards' = CreditedRewards + m
    BY <1>1, CreditedRewardsGrow DEF LInv, Gain
  <2>3. SumFunctionOnSet(earned, Addr) \in Int
    BY Constants, SumInt DEF LInv, LedgerType
  <2>4. SumFunctionOnSet(e, Addr) \in Int
    <3>1. \A a \in Addr : e[a] \in Int
      BY <1>1, CreditLedger DEF LedgerType
    <3> HIDE DEF e
    <3>2. QED
      BY <3>1, Constants, SumInt
  <2>5. m \in Nat /\ CreditedRewards \in Nat
    BY GainType, CreditedTypes DEF LInv
  <2>6. SumFunctionOnSet(e, Addr) <= CreditedRewards'
    <3> HIDE DEF e, m
    <3>1. QED
      BY <2>1, <2>2, <2>3, <2>4, <2>5 DEF EarnedWithin
  <2>7. QED
    BY <2>6 DEF EarnedWithin
<1>2. ASSUME earned' = earned, credited' = credited, doubled' = doubled
      PROVE  EarnedWithin'
  <2>1. CreditedRewards' = CreditedRewards
    BY <1>2, CreditedRewardsStay DEF LInv
  <2>2. QED
    BY <1>2, <2>1 DEF EarnedWithin
<1>3. QED
    BY <1>1, <1>2, OnlyCreditCredits

\* All that was ever credited is within what the daemon reports for the blocks
\* it was credited for, once for each credit and once more for each credit that
\* a debt above 50 coins doubled: whatever the listing said, whichever way the
\* shares round, and across reorganisations, overlaps, failures and restarts.
THEOREM NotOverpaidCorrect ==
    ASSUME StableDepth <= MinConfs, OldBalance = 0
    PROVE  Spec => []NotOverpaid
<1>1. Init => LInv /\ EarnedWithin
  <2> SUFFICES ASSUME Init PROVE LInv /\ EarnedWithin
    OBVIOUS
  <2>1. SumFunctionOnSet(earned, Addr) = 0
    BY InitTotals
  <2>2. QED
    BY <2>1, InitLInv, CreditedTypes DEF EarnedWithin, LInv
<1>2. LInv /\ EarnedWithin /\ [Next]_vars => LInv' /\ EarnedWithin'
    BY NextLInv, NextEarnedWithin
<1>3. LInv /\ EarnedWithin => NotOverpaid
    BY EarnedIsNotOverpaid
<1>4. QED
    BY <1>1, <1>2, <1>3, PTL DEF Spec

\* The balances that the open Withdraw pays.
InBatch == [a \in Addr |-> IF a \in batch THEN info[a].Balance ELSE 0]
BatchTotal == SumFunctionOnSet(InBatch, Addr)

LEMMA BatchTotalType == LInv => BatchTotal \in Nat
<1> SUFFICES ASSUME LInv PROVE BatchTotal \in Nat
    OBVIOUS
<1>1. \A a \in Addr : InBatch[a] \in Nat
    BY DEF InBatch, LInv, LedgerType, Accounts!AddrInfo
<1>2. QED
    BY <1>1, Constants, SumNat DEF BatchTotal

\* The withdrawal fee of one account pays the network's fee of the whole
\* transaction: a payment takes no more than the balances it clears.
LEMMA PaymentWithin ==
    ASSUME LInv, tx # "idle", TxFee <= WithdrawalFee
    PROVE  Payment <= BatchTotal
<1> DEFINE pay == [a \in batch |-> info[a].Balance - WithdrawalFee]
           bal == InBatch
<1>1. IsFiniteSet(batch) /\ batch \in SUBSET Addr
    BY Constants, FS_Subset DEF LInv, LedgerType
<1>2. PICK x \in batch : TRUE
    BY DEF LInv, BatchDue
<1>3. \A a \in batch : /\ pay[a] \in Int /\ bal[a] \in Int
                       /\ pay[a] = bal[a] - WithdrawalFee /\ pay[a] <= bal[a]
    BY <1>1, Constants DEF LInv, LedgerType, InBatch, Accounts!AddrInfo
<1>4. /\ \A a \in Addr : bal[a] \in Int
      /\ \A a \in Addr \ batch : bal[a] = 0
    BY DEF LInv, LedgerType, InBatch, Accounts!AddrInfo
<1>5. Payment = SumFunctionOnSet(pay, batch) + TxFee /\ BatchTotal = SumFunctionOnSet(bal, Addr)
    BY SumDomain DEF Payment, BatchTotal
<1> DEFINE rest == batch \ {x}
<1>6. IsFiniteSet(rest)
    BY <1>1, FS_Subset
<1> HIDE DEF pay, bal
<1>7. SumFunctionOnSet(bal, Addr) = SumFunctionOnSet(bal, batch)
    BY <1>1, <1>4, Constants, SumSupport
<1>8. /\ SumFunctionOnSet(bal, batch) = bal[x] + SumFunctionOnSet(bal, rest)
      /\ SumFunctionOnSet(pay, batch) = pay[x] + SumFunctionOnSet(pay, rest)
    BY <1>1, <1>2, <1>3, SumRemove
<1>9. \A a \in rest : pay[a] \in Int /\ bal[a] \in Int /\ pay[a] <= bal[a]
    BY <1>3
<1>10. SumFunctionOnSet(pay, rest) <= SumFunctionOnSet(bal, rest)
    BY <1>6, <1>9, SumMonotone
<1>11. SumFunctionOnSet(pay, rest) \in Int /\ SumFunctionOnSet(bal, rest) \in Int
    BY <1>6, <1>9, SumInt
<1>12. pay[x] \in Int /\ bal[x] \in Int /\ pay[x] = bal[x] - WithdrawalFee
    BY <1>2, <1>3
<1>13. SumFunctionOnSet(pay, batch) + TxFee <= SumFunctionOnSet(bal, batch)
  <2> DEFINE P == SumFunctionOnSet(pay, rest)  B == SumFunctionOnSet(bal, rest)
  <2>1. P \in Int /\ B \in Int /\ P <= B /\ WithdrawalFee \in Nat /\ TxFee \in Nat
    BY <1>10, <1>11, Constants
  <2>2. SumFunctionOnSet(bal, batch) = bal[x] + B /\ SumFunctionOnSet(pay, batch) = pay[x] + P
    BY <1>8
  <2> HIDE DEF P, B, rest
  <2>3. QED
    BY <1>12, <2>1, <2>2
<1>14. QED
    BY <1>5, <1>7, <1>13

\* What is owed and what has left the wallet is within the rewards of the
\* credited blocks, up to payments whose record is lost or still to commit.
Covered == Owed + outgo <= CreditedRewards + lost + Unrecorded

\* What the open Withdraw pays and what it leaves make up all balances.
LEMMA OwedSplits ==
    ASSUME LInv
    PROVE  /\ tx = "sent" => StillOwed + BatchTotal = Owed
           /\ tx # "sent" => StillOwed = Owed
           /\ StillOwed \in Nat
<1> DEFINE bal == [a \in Addr |-> info[a].Balance]
           left == [a \in Addr |-> IF tx = "sent" /\ a \in batch THEN 0 ELSE info[a].Balance]
           paying == InBatch
<1>1. \A a \in Addr : bal[a] \in Nat /\ left[a] \in Nat /\ paying[a] \in Nat
    BY DEF LInv, LedgerType, InBatch, Accounts!AddrInfo
<1>2. tx = "sent" => \A a \in Addr : bal[a] = left[a] + paying[a]
    BY DEF LInv, LedgerType, InBatch, Accounts!AddrInfo
<1>3. tx # "sent" => \A a \in Addr : bal[a] = left[a]
    OBVIOUS
<1>4. /\ Owed = SumFunctionOnSet(bal, Addr) /\ StillOwed = SumFunctionOnSet(left, Addr)
      /\ BatchTotal = SumFunctionOnSet(paying, Addr)
    BY SumDomain DEF Owed, StillOwed, BatchTotal
<1> HIDE DEF bal, left, paying
<1>5. \A a \in Addr : bal[a] \in Int /\ left[a] \in Int /\ paying[a] \in Int
    BY <1>1
<1>6. CASE tx = "sent"
  <2>1. SumFunctionOnSet(bal, Addr) = SumFunctionOnSet(left, Addr) + SumFunctionOnSet(paying, Addr)
    BY <1>2, <1>5, <1>6, Constants, SumAdd
  <2>2. SumFunctionOnSet(left, Addr) \in Nat
    BY <1>1, Constants, SumNat
  <2>3. QED
    BY <1>4, <1>6, <2>1, <2>2
<1>7. CASE tx # "sent"
  <2>1. SumFunctionOnSet(bal, Addr) = SumFunctionOnSet(left, Addr)
    BY <1>3, <1>7, Constants, SumSame
  <2>2. SumFunctionOnSet(left, Addr) \in Nat
    BY <1>1, Constants, SumNat
  <2>3. QED
    BY <1>4, <1>7, <2>1, <2>2
<1>8. QED
    BY <1>6, <1>7

\* The wallet holds the rewards of the credited blocks, each once, and of others.
LEMMA FundsCoverCredited ==
    ASSUME LInv
    PROVE  /\ CreditedRewards - outgo <= Funds + Surplus
           /\ Surplus \in Int
<1> DEFINE S == Queue!Heights
           coin == [h \in S |-> RewardOf(block[h])]
           extra == [h \in S |-> IF credited[h] = 0 THEN 0 ELSE credited[h] + doubled[h] - 1]
           more == [h \in S |-> extra[h] * RewardOf(block[h])]
           all == [h \in S |-> coin[h] + more[h]]
           part == CreditedReward
<1>1. ASSUME NEW h \in S
      PROVE  /\ part[h] \in Int /\ coin[h] \in Int /\ more[h] \in Int
             /\ part[h] <= coin[h] + more[h]
  <2> DEFINE r == RewardOf(block[h])  n == credited[h] + doubled[h]  x == extra[h]
  <2>1. r \in Nat /\ n \in Nat /\ x \in Nat /\ (n = x + 1 \/ (n = 0 /\ x = 0))
    <3>1. /\ credited[h] \in Nat /\ doubled[h] \in Nat
          /\ doubled[h] > 0 => credited[h] > 0
      BY CreditedTypes DEF LInv, DoubledCredited
    <3>2. r \in Nat
      BY RewardType
    <3>3. QED
      BY <3>1, <3>2
  <2>2. part[h] = n * r /\ coin[h] = r /\ more[h] = x * r
    BY DEF CreditedReward
  <2> HIDE DEF r, n, x, part, coin, more, extra
  <2>3. x * r \in Nat /\ n * r \in Nat
    BY <2>1
  <2>4. CASE n = x + 1
    <3>1. (x + 1) * r = x * r + r
      BY <2>1
    <3>2. QED
      BY <2>1, <2>2, <2>3, <2>4, <3>1
  <2>5. CASE n = 0 /\ x = 0
    <3>1. 0 * r = 0
      BY <2>1
    <3>2. QED
      BY <2>1, <2>2, <2>5, <3>1
  <2>6. QED
    BY <2>1, <2>4, <2>5
<1>2. Funds = SumFunctionOnSet(coin, S) - outgo
    BY SumDomain DEF Funds
<1>3. CreditedRewards = SumFunctionOnSet(part, S)
    BY DEF CreditedRewards
<1>4. Surplus = SumFunctionOnSet(more, S)
  <2>1. Surplus = SumFunction(more) /\ DOMAIN more = S
    BY DEF Surplus, Rewards
  <2> HIDE DEF more, extra
  <2>2. QED
    BY <2>1, SumDomain
<1>5. \A h \in S : all[h] = coin[h] + more[h]
    OBVIOUS
<1>6. IsFiniteSet(S)
    BY Constants
<1>7. outgo \in Nat
    BY DEF LInv, LedgerType
<1> HIDE DEF S, coin, extra, more, part, all
<1>8. \A h \in S : all[h] \in Int /\ part[h] <= all[h]
    BY <1>1, <1>5
<1>9. SumFunctionOnSet(all, S) = SumFunctionOnSet(coin, S) + SumFunctionOnSet(more, S)
    BY <1>1, <1>5, <1>6, <1>8, SumAdd
<1>10. SumFunctionOnSet(part, S) <= SumFunctionOnSet(all, S)
    BY <1>1, <1>6, <1>8, SumMonotone
<1>11. /\ SumFunctionOnSet(part, S) \in Int /\ SumFunctionOnSet(coin, S) \in Int
       /\ SumFunctionOnSet(more, S) \in Int
    BY <1>1, <1>6, SumInt
<1>12. QED
    BY <1>2, <1>3, <1>4, <1>7, <1>9, <1>10, <1>11

LEMMA CoveredIsSolvent ==
    ASSUME LInv, Covered, TxFee <= WithdrawalFee
    PROVE  Solvent
<1>1. Unrecorded + StillOwed <= Owed /\ Unrecorded \in Nat /\ StillOwed \in Nat
  <2>1. CASE tx = "sent"
    BY <2>1, OwedSplits, PaymentWithin, PaymentType, BatchTotalType DEF Unrecorded
  <2>2. CASE tx # "sent"
    BY <2>2, OwedSplits DEF Unrecorded
  <2>3. QED
    BY <2>1, <2>2
<1>2. Funds \in Int /\ Owed \in Nat /\ CreditedRewards \in Nat /\ outgo \in Nat /\ lost \in Nat
    BY TotalsType, CreditedTypes DEF LInv, LedgerType
<1>3. QED
    BY <1>1, <1>2, FundsCoverCredited DEF Covered, Solvent

LEMMA NextCovered ==
    ASSUME StableDepth <= MinConfs, LInv, Covered, TxFee <= WithdrawalFee, [Next]_vars
    PROVE  Covered'
<1>1. /\ Owed \in Nat /\ CreditedRewards \in Nat /\ outgo \in Nat /\ lost \in Nat
      /\ Unrecorded \in Nat
    BY TotalsType, CreditedTypes, PaymentType DEF LInv, LedgerType, Unrecorded
<1>2. ASSUME NEW c \in Cycles, NEW debt \in Debts, CreditReward(c, debt)
      PROVE  Covered'
  <2> DEFINE m == Gain(debt)
  <2>1. Owed' <= Owed + m /\ Owed' \in Nat
    <3>1. Owed' <= Owed + m /\ LedgerType'
      BY <1>2, CreditLedger
    <3> DEFINE new == [a \in Addr |-> info'[a].Balance]
    <3>2. \A a \in Addr : new[a] \in Nat
      BY <3>1 DEF LedgerType, Accounts!AddrInfo
    <3>3. Owed' = SumFunctionOnSet(new, Addr)
      BY SumDomain DEF Owed
    <3> HIDE DEF new, m
    <3>4. QED
      BY <3>1, <3>2, <3>3, Constants, SumNat
  <2>2. CreditedRewards' = CreditedRewards + m /\ m \in Nat
    BY <1>2, CreditedRewardsGrow, GainType DEF LInv, Gain
  <2>3. outgo' = outgo /\ lost' = lost /\ Unrecorded = 0 /\ Unrecorded' = 0
    BY <1>2 DEF CreditReward, ledger, WriterFree, Unrecorded, Accounts!Credit, Accounts!payVars
  <2> DEFINE o == Owed  o1 == Owed'  r == CreditedRewards  r1 == CreditedRewards'
  <2>4. /\ o \in Nat /\ r \in Nat /\ o1 \in Nat /\ m \in Nat /\ outgo \in Nat /\ lost \in Nat
        /\ o1 <= o + m /\ r1 = r + m /\ o + outgo <= r + lost
    BY <1>1, <2>1, <2>2, <2>3 DEF Covered
  <2>5. o1 + outgo <= r1 + lost
    <3> HIDE DEF m, o, o1, r, r1
    <3>1. QED
      BY <2>4
  <2>6. Owed' + outgo' <= CreditedRewards' + lost' + Unrecorded'
    BY <1>1, <2>2, <2>3, <2>5
  <2>7. QED
    BY <2>6 DEF Covered
<1> SUFFICES ASSUME ~ \E c \in Cycles : \E debt \in Debts : CreditReward(c, debt)
    PROVE  Covered'
    BY <1>2
<1>3. CreditedRewards' = CreditedRewards
    BY OnlyCreditCredits, CreditedRewardsStay DEF LInv
\* It is enough that what is owed does not grow by more than what is forgotten.
<1>4. ASSUME Owed' + outgo' + lost + Unrecorded <= Owed + outgo + lost' + Unrecorded',
             Owed' \in Nat, outgo' \in Nat, lost' \in Nat, Unrecorded' \in Nat
      PROVE  Covered'
  <2> DEFINE o == Owed  o1 == Owed'  r == CreditedRewards  g == outgo  g1 == outgo'
             l == lost  l1 == lost'  u == Unrecorded  u1 == Unrecorded'
  <2>1. /\ o \in Nat /\ o1 \in Nat /\ r \in Nat /\ g \in Nat /\ g1 \in Nat
        /\ l \in Nat /\ l1 \in Nat /\ u \in Nat /\ u1 \in Nat
        /\ o + g <= r + l + u /\ o1 + g1 + l + u <= o + g + l1 + u1
    BY <1>1, <1>4 DEF Covered
  <2>2. o1 + g1 <= r + l1 + u1
    <3> HIDE DEF o, o1, r, g, g1, l, l1, u, u1
    <3>1. QED
      BY <2>1
  <2>3. Owed' + outgo' <= CreditedRewards' + lost' + Unrecorded'
    BY <1>3, <2>2
  <2>4. QED
    BY <2>3 DEF Covered
<1>5. ASSUME info' = info PROVE Owed' = Owed
    BY <1>5 DEF Owed
<1>6. ASSUME info' = info, batch' = batch PROVE Payment' = Payment
    BY <1>6 DEF Payment
<1>7. ASSUME UNCHANGED accountVars, UNCHANGED ledger PROVE Covered'
  <2>1. Owed' = Owed /\ Unrecorded' = Unrecorded /\ outgo' = outgo /\ lost' = lost
    BY <1>5, <1>6, <1>7 DEF accountVars, ledger, Unrecorded
  <2>2. QED
    BY <1>1, <1>4, <2>1
<1>8. ASSUME NEW c \in Cycles, NEW w \in Windows, RecordPending(c, w)
      PROVE  Covered'
  <2>1. Owed' = Owed
    <3>1. [a \in Addr |-> info[a].Balance] = [a \in Addr |-> info'[a].Balance]
      BY <1>8, RecordLedger
    <3>2. QED
      BY <3>1 DEF Owed
  <2>2. outgo' = outgo /\ lost' = lost /\ Unrecorded = 0 /\ Unrecorded' = 0
    BY <1>8 DEF RecordPending, ledger, WriterFree, Unrecorded, Accounts!SetPending, Accounts!payVars
  <2>3. QED
    BY <1>1, <1>4, <2>1, <2>2
<1>9. CASE Broadcast
  <2>1. Payment \in Nat
    BY <1>9, PaymentType DEF Broadcast, Accounts!Broadcast
  <2>2. /\ Owed' = Owed /\ outgo' = outgo + Payment /\ lost' = lost
        /\ Unrecorded = 0 /\ Unrecorded' = Payment
    BY <1>5, <1>6, <1>9 DEF Broadcast, Accounts!Broadcast, Unrecorded
  <2>3. QED
    BY <1>1, <1>4, <2>1, <2>2
<1>10. CASE ReplyLost
  <2>1. Owed' = Owed /\ outgo' = outgo /\ lost' = lost + Unrecorded /\ Unrecorded' = 0
    BY <1>5, <1>10 DEF ReplyLost, Accounts!ReplyLost, Accounts!EndWithdraw, Unrecorded
  <2>2. QED
    BY <1>1, <1>4, <2>1
<1>11. CASE Crash
  <2>1. Owed' = Owed /\ outgo' = outgo /\ lost' = lost + Unrecorded /\ Unrecorded' \in {0, Unrecorded}
    BY <1>5, <1>6, <1>11 DEF Crash, Accounts!Crash, Accounts!EndWithdraw, Unrecorded, accountVars
  <2>2. CASE Unrecorded' = 0
    BY <1>1, <1>4, <2>1, <2>2
  <2>3. CASE Unrecorded' = Unrecorded
    BY <1>1, <1>4, <2>1, <2>3
  <2>4. QED
    BY <2>1, <2>2, <2>3
<1>12. CASE Withdraw
  <2>1. outgo' = outgo /\ lost' = lost
    BY <1>12 DEF Withdraw, ledger
  <2>2. CASE Accounts!StartLoop
    <3>1. Owed' = Owed /\ Unrecorded' = Unrecorded
      BY <1>5, <1>6, <2>2 DEF Accounts!StartLoop, Unrecorded
    <3>2. QED
      BY <1>1, <1>4, <2>1, <3>1
  <2>3. CASE Accounts!NothingDue \/ Accounts!OpenWithdraw \/ Accounts!TransferFails
    <3>1. Owed' = Owed /\ Unrecorded = 0 /\ Unrecorded' = 0
      BY <1>5, <2>3 DEF Accounts!NothingDue, Accounts!OpenWithdraw, Accounts!TransferFails,
          Accounts!EndWithdraw, Unrecorded
    <3>2. QED
      BY <1>1, <1>4, <2>1, <3>1
  <2>4. CASE Accounts!CommitWithdraw
    <3>1. Owed' = StillOwed
      <4>1. [a \in Addr |-> info'[a].Balance]
              = [a \in Addr |-> IF tx = "sent" /\ a \in batch THEN 0 ELSE info[a].Balance]
        BY <2>4 DEF Accounts!CommitWithdraw
      <4>2. QED
        BY <4>1 DEF Owed, StillOwed
    <3>2. Unrecorded <= BatchTotal /\ tx = "sent" /\ Unrecorded' = 0
      BY <2>4, PaymentWithin DEF Unrecorded, Accounts!CommitWithdraw, Accounts!EndWithdraw
    <3>3. StillOwed + BatchTotal = Owed /\ StillOwed \in Nat /\ BatchTotal \in Nat
      BY <3>2, OwedSplits, BatchTotalType
    <3>4. QED
      BY <1>1, <1>4, <2>1, <3>1, <3>2, <3>3
  <2>5. QED
    BY <1>12, <2>2, <2>3, <2>4 DEF Withdraw
<1>13. QED
    BY <1>7, <1>8, <1>9, <1>10, <1>11, <1>12 DEF Next, vars, Environment, Poll,
        ListTransactions, ListFails, RecordAborts, DropReward, KeepReward

\* The wallet always covers the confirmed balances, but for payments whose record
\* was rolled back and for what was credited beyond one reward per block, when one
\* account's withdrawal fee pays the network fee of a transaction.
THEOREM SolventCorrect ==
    ASSUME StableDepth <= MinConfs, OldBalance = 0, TxFee <= WithdrawalFee
    PROVE  Spec => []Solvent
<1>1. Init => LInv /\ Covered
  <2> SUFFICES ASSUME Init PROVE LInv /\ Covered
    OBVIOUS
  <2>1. Owed = 0 /\ outgo = 0 /\ lost = 0 /\ Unrecorded = 0
    BY InitTotals DEF Init, Accounts!Init, Unrecorded
  <2>2. QED
    BY <2>1, InitLInv, CreditedTypes DEF Covered, LInv
<1>2. LInv /\ Covered /\ [Next]_vars => LInv' /\ Covered'
    BY NextLInv, NextCovered
<1>3. LInv /\ Covered => Solvent
    BY CoveredIsSolvent
<1>4. QED
    BY <1>1, <1>2, <1>3, PTL DEF Spec

=============================================================================
