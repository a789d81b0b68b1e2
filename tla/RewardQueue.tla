---------------------------- MODULE RewardQueue ----------------------------
(***************************************************************************)
(* How the master turns the coinbase transactions of its wallet into       *)
(* credited rewards: the poll loop of Updater(), the goroutine it starts   *)
(* on every new height (UpdatePendingBals, then CheckWithdraw), and the    *)
(* persisted record PendingBals {LastHeight, UnconfirmedTxs}.              *)
(*                                                                         *)
(* Amounts are left to PoolLedger; here a reward is the topoheight of its  *)
(* block.  The daemon and the wallet are external: `chain` and `block` are *)
(* what the daemon knows, and a wallet listing is any prefix of it that    *)
(* WalletMayLag and WalletMayLead allow.                                   *)
(***************************************************************************)
EXTENDS Integers, Sequences, FiniteSets

CONSTANTS
    StartHeight,    \* topoheight of the network when the pool is first started
    MaxHeight,      \* bound: topoheight at which the modelled chain stops
    SafetyMargin,   \* SAFETY_MARGIN (5 in the code)
    MinConfs,       \* cfg.Master.MinConfs
    OrphanGrace,    \* the 10 blocks CheckWithdraw waits for a failing lookup
    StableDepth,    \* the daemon reclassifies only the last StableDepth blocks
    Cycles,         \* bound: update goroutines that may be alive at once
    WalletMayLag,   \* the wallet may be behind MasterInfo.Height
    WalletMayLead,  \* the wallet may be ahead of MasterInfo.Height
    RpcMayFail,     \* wallet and daemon calls may return errors
    MayCrash        \* the master may be killed and restarted

ASSUME HeightAssumption ==
    /\ MaxHeight \in Nat /\ StartHeight \in 0 .. MaxHeight
    /\ SafetyMargin \in Nat /\ MinConfs \in Nat
    /\ OrphanGrace \in Nat /\ StableDepth \in Nat
ASSUME EnvironmentAssumption ==
    /\ WalletMayLag \in BOOLEAN /\ WalletMayLead \in BOOLEAN
    /\ RpcMayFail \in BOOLEAN /\ MayCrash \in BOOLEAN

Heights == 1 .. MaxHeight

\* What the block at a topoheight is to the pool: not (yet) one of its own, or
\* its own block with the daemon's block type.
BlockTypes == {"other", "normal", "side", "orphaned"}
Rewarded == {"normal", "side"}

UnconfTx == [block : Heights, UnlockHeight : Nat]

VARIABLES
    chain,       \* topoheight of the daemon
    block,       \* block[h]: type of the block at topoheight h
    height,      \* MasterInfo.Height
    minHeight,   \* the package variable minHeight
    lastHeight,  \* PendingBals.LastHeight, persisted
    unconfirmed, \* PendingBals.UnconfirmedTxs, persisted
    pc,          \* pc[c]: where update goroutine c is
    transfers,   \* transfers[c]: topoheights of the coinbases c was given
    recorded,    \* history: how often block h was appended to UnconfirmedTxs
    credited,    \* history: how often block h was credited to the miners
    dropped,     \* history: how often block h left the queue without credit
    tops,        \* history: how far the wallet had scanned when it listed transfers[c]
    ahead,       \* history: blocks recorded while above MasterInfo.Height
    missed       \* history: blocks that no listing was asked for or could hold

chainVars == <<chain, block>>
pendingVars == <<lastHeight, unconfirmed>>
excuses == <<tops, ahead, missed>>
history == <<recorded, credited, dropped, excuses>>
vars == <<chain, block, height, minHeight, lastHeight, unconfirmed, pc,
          transfers, recorded, credited, dropped, tops, ahead, missed>>

TypeOK ==
    /\ chain \in 0 .. MaxHeight
    /\ block \in [Heights -> BlockTypes]
    /\ height \in 0 .. MaxHeight
    /\ minHeight \in 0 .. MaxHeight
    /\ lastHeight \in 0 .. MaxHeight
    /\ unconfirmed \in Seq(UnconfTx)
    /\ pc \in [Cycles -> {"idle", "list", "record", "check"}]
    /\ transfers \in [Cycles -> SUBSET Heights]
    /\ recorded \in [Heights -> Nat]
    /\ credited \in [Heights -> Nat]
    /\ dropped \in [Heights -> Nat]
    /\ tops \in [Cycles -> 0 .. MaxHeight]
    /\ ahead \subseteq Heights
    /\ missed \subseteq Heights

Init ==
    /\ chain = StartHeight
    /\ block = [h \in Heights |-> "other"]
    /\ height = 0
    /\ minHeight = 0
    /\ lastHeight = 0
    /\ unconfirmed = << >>
    /\ pc = [c \in Cycles |-> "idle"]
    /\ transfers = [c \in Cycles |-> {}]
    /\ recorded = [h \in Heights |-> 0]
    /\ credited = [h \in Heights |-> 0]
    /\ dropped = [h \in Heights |-> 0]
    /\ tops = [c \in Cycles |-> 0]
    /\ ahead = {}
    /\ missed = {}

-----------------------------------------------------------------------------
(* The daemon.                                                             *)

\* A block is added to the chain, mined by the pool or by someone else.
MineBlock(kind) ==
    /\ chain < MaxHeight
    /\ chain' = chain + 1
    /\ block' = [block EXCEPT ![chain + 1] = kind]
    /\ UNCHANGED <<height, minHeight, pendingVars, pc, transfers, history>>

\* The daemon reorders its DAG: a recent block of the pool becomes a side
\* block, a normal block, or is orphaned for good.
Reclassify(h, kind) ==
    /\ h <= chain /\ chain - h <= StableDepth
    /\ block[h] \in Rewarded /\ kind # block[h]
    /\ block' = [block EXCEPT ![h] = kind]
    /\ UNCHANGED <<chain, height, minHeight, pendingVars, pc, transfers, history>>

-----------------------------------------------------------------------------
(* Updater().                                                              *)

\* One turn of the poll loop that sees a new topoheight: MasterInfo.Height is
\* stored and a goroutine started.  A turn whose GetInfo fails, or that sees
\* the height it already has, changes nothing.
Poll(c) ==
    /\ pc[c] = "idle"
    /\ chain # height
    /\ height' = chain
    /\ pc' = [pc EXCEPT ![c] = "list"]
    /\ UNCHANGED <<chainVars, minHeight, pendingVars, transfers, history>>

-----------------------------------------------------------------------------
(* UpdatePendingBals().                                                    *)

\* The first listing after a start begins SAFETY_MARGIN below the height.
ListFrom ==
    IF minHeight = 0 /\ height > SafetyMargin THEN height - SafetyMargin
                                              ELSE minHeight

\* Topoheights the wallet may be synchronised to when it answers.
WalletTops ==
    (IF WalletMayLag THEN 0 ELSE height) .. (IF WalletMayLead THEN chain ELSE height)

\* History: the first listing after a start does not reach back to LastHeight.
SkipAtStart ==
    missed' = missed \cup
        (IF minHeight = 0 THEN {h \in Heights : lastHeight < h /\ h < ListFrom} ELSE {})

\* ListTransactions, with minHeightMut held over the call.
ListTransactions(c, top) ==
    /\ pc[c] = "list"
    /\ minHeight' = ListFrom
    /\ SkipAtStart
    /\ tops' = [tops EXCEPT ![c] = top]
    /\ transfers' = [transfers EXCEPT ![c] =
           {h \in Heights : ListFrom <= h /\ h <= top /\ block[h] \in Rewarded}]
    /\ pc' = [pc EXCEPT ![c] = "record"]
    /\ UNCHANGED <<chainVars, height, pendingVars, recorded, credited, dropped, ahead>>

\* The wallet returns an error: UpdatePendingBals gives up, CheckWithdraw runs.
ListFails(c) ==
    /\ RpcMayFail
    /\ pc[c] = "list"
    /\ minHeight' = ListFrom
    /\ SkipAtStart
    /\ pc' = [pc EXCEPT ![c] = "check"]
    /\ UNCHANGED <<chainVars, height, pendingVars, transfers, recorded, credited,
                   dropped, tops, ahead>>

\* Mutant of NextMinHeight: the current height.
NextMinHeightCurrent == height

\* Inside the transaction minHeight follows the persisted LastHeight.
NextMinHeight ==
    IF lastHeight > SafetyMargin THEN lastHeight - SafetyMargin ELSE minHeight

\* Mutant of Fresh: off by one.
FreshInclusive(c) == {h \in transfers[c] : h >= lastHeight}

\* The transfers that are not "too old - gotta ignore it".
Fresh(c) == {h \in transfers[c] : h > lastHeight}

\* The ascending enumerations of S (there is one): sort.SliceStable.
Ascending(S) ==
    {s \in [1 .. Cardinality(S) -> S] :
        /\ \A i, j \in 1 .. Cardinality(S) : i < j => s[i] < s[j]
        /\ \A h \in S : \E i \in 1 .. Cardinality(S) : s[i] = h}

\* nextHeight: MasterInfo.Height as soon as one fresh transfer is taken.
NextHeight(c) == IF Fresh(c) = {} THEN lastHeight ELSE height

\* History: LastHeight passes blocks that the wallet had not scanned when it
\* made this listing.
Unscanned(c) ==
    IF Fresh(c) = {} THEN {} ELSE {h \in Heights : tops[c] < h /\ h <= height}

\* The transaction that appends one UnconfTx per fresh transfer.
RecordPending(c) ==
    /\ pc[c] = "record"
    /\ minHeight' = NextMinHeight
    /\ \E order \in Ascending(Fresh(c)) :
         unconfirmed' = unconfirmed \o
             [i \in 1 .. Cardinality(Fresh(c)) |->
                 [block |-> order[i], UnlockHeight |-> order[i] + MinConfs]]
    /\ lastHeight' = NextHeight(c)
    /\ recorded' = [h \in Heights |->
                       IF h \in Fresh(c) THEN recorded[h] + 1 ELSE recorded[h]]
    /\ pc' = [pc EXCEPT ![c] = "check"]
    /\ transfers' = [transfers EXCEPT ![c] = {}]
    /\ ahead' = ahead \cup {h \in Fresh(c) : h > height}
    /\ missed' = missed \cup Unscanned(c)
    /\ tops' = [tops EXCEPT ![c] = 0]
    /\ UNCHANGED <<chainVars, height, credited, dropped>>

\* A transfer whose hash is not 32 bytes of hex rolls the transaction back;
\* minHeight is not part of the transaction and keeps its new value.
RecordAborts(c) ==
    /\ RpcMayFail
    /\ pc[c] = "record" /\ Fresh(c) # {}
    /\ minHeight' = NextMinHeight
    /\ pc' = [pc EXCEPT ![c] = "check"]
    /\ transfers' = [transfers EXCEPT ![c] = {}]
    /\ tops' = [tops EXCEPT ![c] = 0]
    /\ UNCHANGED <<chainVars, height, pendingVars, recorded, credited, dropped,
                   ahead, missed>>

-----------------------------------------------------------------------------
(* CheckWithdraw(): one transaction that looks at the head of the queue.   *)

\* Mutant of Confirmed: one confirmation too few.
ConfirmedTooSoon == unconfirmed # << >> /\ Head(unconfirmed).UnlockHeight <= height

Confirmed == unconfirmed # << >> /\ Head(unconfirmed).UnlockHeight < height

Return(c) ==
    /\ pc' = [pc EXCEPT ![c] = "idle"]
    /\ UNCHANGED <<chainVars, height, minHeight, lastHeight, transfers, recorded, excuses>>

\* The queue is empty or its head has too few confirmations.
NothingConfirmed(c) ==
    /\ pc[c] = "check" /\ ~Confirmed
    /\ Return(c)
    /\ UNCHANGED <<unconfirmed, credited, dropped>>

\* Mutant of CreditReward: the head stays in the queue.
CreditRewardKeepsHead(c) ==
    /\ pc[c] = "check" /\ Confirmed
    /\ block[Head(unconfirmed).block] # "orphaned"
    /\ credited' = [credited EXCEPT ![Head(unconfirmed).block] = @ + 1]
    /\ Return(c)
    /\ UNCHANGED <<unconfirmed, dropped>>

\* The head leaves the queue and its balances are credited.
CreditReward(c) ==
    /\ pc[c] = "check" /\ Confirmed
    /\ block[Head(unconfirmed).block] # "orphaned"
    /\ unconfirmed' = Tail(unconfirmed)
    /\ credited' = [credited EXCEPT ![Head(unconfirmed).block] = @ + 1]
    /\ Return(c)
    /\ UNCHANGED dropped

\* The head leaves the queue without credit.
DropHead ==
    /\ unconfirmed' = Tail(unconfirmed)
    /\ dropped' = [dropped EXCEPT ![Head(unconfirmed).block] = @ + 1]
    /\ UNCHANGED credited

\* The daemon says that the block is orphaned.
DropOrphan(c) ==
    /\ pc[c] = "check" /\ Confirmed
    /\ block[Head(unconfirmed).block] = "orphaned"
    /\ DropHead
    /\ Return(c)

GraceOver == Head(unconfirmed).UnlockHeight + OrphanGrace < height

\* GetBlockByHash fails and the block is old: accounted as orphaned.
LookupFailsLate(c) ==
    /\ RpcMayFail
    /\ pc[c] = "check" /\ Confirmed /\ GraceOver
    /\ DropHead
    /\ Return(c)

\* The transaction is rolled back and the head is looked at again next time.
TryAgain(c) ==
    /\ Return(c)
    /\ UNCHANGED <<unconfirmed, credited, dropped>>

\* GetBlockByHash fails and the block is given more time.
LookupFailsEarly(c) ==
    /\ RpcMayFail
    /\ pc[c] = "check" /\ Confirmed /\ ~GraceOver
    /\ TryAgain(c)

\* The daemon returns the block without a MinerReward.
RewardMissing(c) ==
    /\ RpcMayFail
    /\ pc[c] = "check" /\ Confirmed
    /\ block[Head(unconfirmed).block] # "orphaned"
    /\ TryAgain(c)

-----------------------------------------------------------------------------
\* The master is killed and started again: only the database survives.
Crash ==
    /\ MayCrash
    /\ height # 0
    /\ height' = 0
    /\ minHeight' = 0
    /\ pc' = [c \in Cycles |-> "idle"]
    /\ transfers' = [c \in Cycles |-> {}]
    /\ tops' = [c \in Cycles |-> 0]
    /\ UNCHANGED <<chainVars, pendingVars, recorded, credited, dropped, ahead, missed>>

CheckWithdraw(c) ==
    \/ NothingConfirmed(c)
    \/ CreditReward(c)
    \/ DropOrphan(c)
    \/ LookupFailsLate(c)
    \/ LookupFailsEarly(c)
    \/ RewardMissing(c)

UpdatePendingBals(c) ==
    \/ \E top \in WalletTops : ListTransactions(c, top)
    \/ ListFails(c)
    \/ RecordPending(c)
    \/ RecordAborts(c)

Environment ==
    \/ \E kind \in {"other", "normal"} : MineBlock(kind)
    \/ \E h \in Heights : \E kind \in {"normal", "side", "orphaned"} :
          Reclassify(h, kind)

Next ==
    \/ Environment
    \/ Crash
    \/ \E c \in Cycles : Poll(c) \/ UpdatePendingBals(c) \/ CheckWithdraw(c)

Spec == Init /\ [][Next]_vars

-----------------------------------------------------------------------------
(* Properties.                                                             *)

\* Overlapping goroutines, stale listings, failed calls and restarts never put
\* the coinbase of a block into UnconfirmedTxs a second time (updater.go:217,
\* 305-317), except a block recorded while it was above MasterInfo.Height:
\* nextHeight becomes MasterInfo.Height, below that block, and the next listing
\* holds it again.
CountedOnce == \A h \in Heights : h \notin ahead => recorded[h] <= 1

\* How many entries of the queue are the coinbase of block h.
Waiting(h) == Cardinality({i \in 1 .. Len(unconfirmed) : unconfirmed[i].block = h})

\* Each recorded coinbase, one recorded twice included, is waiting in the queue,
\* or was credited to the miners, or was dropped: none is lost, and none is
\* both credited and still waiting (withdraw.go:77-197 removes only the head).
InOnePlace ==
    \A h \in Heights : recorded[h] = credited[h] + dropped[h] + Waiting(h)

\* LastHeight passes a block of the pool that is not orphaned only after its
\* coinbase was recorded, whatever goroutines overlap and calls fail: the
\* SAFETY_MARGIN listed again makes up for failed and empty listings
\* (updater.go:199-217,305-317).  It forgets a reward in two ways only: the
\* first listing after a start begins above LastHeight (updater.go:158), or
\* MasterInfo.Height is ahead of what the wallet had scanned when it answered.
NothingForgotten ==
    \A h \in Heights :
        h <= lastHeight /\ block[h] \in Rewarded => recorded[h] > 0 \/ h \in missed

\* What was credited stays earned: with at least StableDepth confirmations no
\* reorganisation of the daemon orphans a block after CheckWithdraw paid it,
\* however late or stale the goroutine's view of the height is.
CreditIsFinal == \A h \in Heights : credited[h] > 0 => block[h] # "orphaned"

\* No interleaving of goroutines, no wallet ahead of the daemon's last poll, and
\* no restart with its MasterInfo.Height of 0 moves the persisted LastHeight
\* back (updater.go:305-317).
LastHeightGrows == [][lastHeight' >= lastHeight]_vars
=============================================================================
