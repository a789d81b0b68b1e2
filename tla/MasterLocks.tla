---------------------------- MODULE MasterLocks ----------------------------
(***************************************************************************)
(* The locks of the master, and the threads that take one while they hold  *)
(* another: the one writer of the database (DB), Stats, MasterInfo and     *)
(* minHeightMut.  A lock that is taken and given back without waiting for  *)
(* anything in between is part of one step; a place of a thread is where   *)
(* it waits, for a lock, for the wallet or for the network.                *)
(*                                                                         *)
(* A difficulty that does not parse leaves MasterInfo locked.              *)
(***************************************************************************)
EXTENDS Integers

CONSTANT Rewards  \* bound: the goroutines that new heights start

VARIABLES
    at,     \* at[t]: where thread t is
    leaked  \* MasterInfo was left locked

vars == <<at, leaked>>

Thread == {"share", "block", "ban", "withdraw", "api"} \cup Rewards

Init == at = [t \in Thread |-> "idle"] /\ leaked = FALSE

-----------------------------------------------------------------------------
(* The places in which a lock is held.                                     *)

HoldsDB == {"limit", "scan", "scanned", "check", "pay", "paid"}
HoldsMinHeight == {"height", "wallet"}

\* Mutant of WritesStats: OnShareFound unlocks Stats when it returns.
WritesStatsAndStores == {"hook", "banning", "managing", "store"}

WritesStats == {"hook", "banning", "managing"}
ReadsStats == {"reading", "showing"}

Nobody(places) == \A t \in Thread : at[t] \notin places

DBFree == Nobody(HoldsDB)
MinHeightFree == Nobody(HoldsMinHeight)
StatsFree == Nobody(WritesStats \cup ReadsStats)
StatsReadable == Nobody(WritesStats)
InfoFree == ~leaked

Move(t, from, to) ==
    at[t] = from /\ at' = [at EXCEPT ![t] = to] /\ UNCHANGED leaked

-----------------------------------------------------------------------------
(* A slave's messages.  OnShareFound gives Stats back before it stores the *)
(* share; OnBlockFound keeps it while the webhook is called, and a ban is  *)
(* sent back to the slave with Stats locked.                               *)

CountShare == Move("share", "idle", "store") /\ StatsFree
StoreShare == Move("share", "store", "idle") /\ DBFree

BlockFound == Move("block", "idle", "hook") /\ StatsFree
WebhookDone == Move("block", "hook", "idle")

Ban == Move("ban", "idle", "banning") /\ StatsFree
BanSent == Move("ban", "banning", "idle")

-----------------------------------------------------------------------------
(* Updater().                                                              *)

\* A new height starts a goroutine.
Poll == \E r \in Rewards : Move(r, "idle", "begin") /\ InfoFree

\* The difficulty does not parse.
PollLeaks == InfoFree /\ leaked' = TRUE /\ UNCHANGED at

\* UpdatePendingBals asks the wallet with minHeightMut locked, and takes it
\* again inside its transaction.  An error of the wallet ends it.
UpdatePendingBals(r) ==
    \/ Move(r, "begin", "height") /\ MinHeightFree
    \/ Move(r, "height", "wallet") /\ InfoFree
    \/ Move(r, "wallet", "listed")
    \/ Move(r, "wallet", "confirm")
    \/ Move(r, "listed", "limit") /\ DBFree
    \/ Move(r, "limit", "scan") /\ MinHeightFree

\* Without a new reward neither Stats nor MasterInfo is looked at.
ScanShares(r) ==
    \/ Move(r, "scan", "confirm")
    \/ Move(r, "scan", "scanned") /\ StatsReadable
    \/ Move(r, "scanned", "confirm") /\ InfoFree

\* Without an unconfirmed reward MasterInfo is not looked at.
CheckWithdraw(r) ==
    \/ Move(r, "confirm", "idle") /\ DBFree
    \/ Move(r, "confirm", "check") /\ DBFree
    \/ Move(r, "check", "idle") /\ InfoFree

\* The wallet is called, and the withdrawal noted in Stats, inside the
\* transaction.
Withdraw ==
    \/ Move("withdraw", "idle", "pay") /\ DBFree
    \/ Move("withdraw", "pay", "idle")
    \/ Move("withdraw", "pay", "paid")
    \/ Move("withdraw", "paid", "idle") /\ StatsFree

\* /stats/:addr: the account, then Stats, under whose lock GetEstPendingBalance
\* reads MasterInfo.
ApiAddr ==
    \/ Move("api", "idle", "account")
    \/ Move("api", "account", "stats") /\ DBFree
    \/ Move("api", "stats", "reading") /\ StatsReadable
    \/ Move("api", "reading", "idle") /\ InfoFree

\* /stats reads MasterInfo before Stats; /ministats only Stats.
ApiStats ==
    \/ Move("api", "idle", "figures") /\ InfoFree
    \/ Move("api", "figures", "showing") /\ StatsReadable
    \/ Move("api", "idle", "showing") /\ StatsReadable
    \/ Move("api", "showing", "idle")

\* /admin: the accounts are summed up in a read transaction, which waits for
\* nobody, and the wallet is asked, before Stats is locked; the list of the
\* withdrawals only needs Stats.
ApiAdmin ==
    \/ Move("api", "idle", "sums")
    \/ Move("api", "sums", "managing") /\ StatsFree
    \/ Move("api", "idle", "managing") /\ StatsFree
    \/ Move("api", "managing", "idle")

Api == ApiAddr \/ ApiStats \/ ApiAdmin

-----------------------------------------------------------------------------
Goroutine(r) == UpdatePendingBals(r) \/ ScanShares(r) \/ CheckWithdraw(r)

Next ==
    \/ CountShare \/ StoreShare
    \/ BlockFound \/ WebhookDone
    \/ Ban \/ BanSent
    \/ Poll \/ PollLeaks
    \/ \E r \in Rewards : Goroutine(r)
    \/ Withdraw
    \/ Api

\* Go's mutexes pass to a waiter at last, and calls to the wallet, the webhook
\* and the network end.
Fairness ==
    /\ SF_vars(StoreShare) /\ WF_vars(WebhookDone) /\ WF_vars(BanSent)
    /\ \A r \in Rewards : SF_vars(Goroutine(r))
    /\ SF_vars(at["withdraw"] # "idle" /\ Withdraw)
    /\ SF_vars(at["api"] # "idle" /\ Api)

Spec == Init /\ [][Next]_vars
FairSpec == Spec /\ Fairness

-----------------------------------------------------------------------------
(* Properties.                                                             *)

\* A share that was counted is stored at last (master.go:176-203), whatever
\* locks the payouts, the rewards, the webhook, a ban and the API take inside
\* one another (withdraw.go:222-338, updater.go:156-308, block_found.go:42-73,
\* api.go:74-359): no two of them wait for each other.  The lock that a
\* difficulty leaves behind (updater.go:81) is the one thing that stops them.
SharesAreStored == at["share"] = "store" ~> at["share"] = "idle" \/ leaked
=============================================================================
