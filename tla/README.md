# A TLA+ verification of xelis-pool

xelis-pool is a mining pool for the Xelis network. A **master** keeps the
accounts: it stores the shares of the miners, splits the rewards of the pool's
blocks among them and pays them out. **Slaves** serve the miners over three
protocols (Xatum, GetWork, Stratum), verify their shares and send them to the
master over an encrypted TCP link. Both talk to a Xelis daemon, the master also
to a wallet.

This directory holds TLA+ modules for the parts of the pool that carry state
and concurrency, the TLC runs that check them, and TLAPS proofs of the central
properties. `PROJECT.json` is the machine-readable index: the runs, the mutants
that show that each property can fail, the map from definitions to source
lines, the findings, the hazards and the theorems.

    tlc -workers 2 -config MCPayoutsHostile.cfg MCPayouts     # one run
    tlapm RewardQueueProofs.tla                               # one module's proofs

## 1. Inventory

| Part | State | Operations | Talks to |
|---|---|---|---|
| Updater (`cmd/master/updater.go`) | `MasterInfo.Height`, `minHeight` | poll loop; one goroutine per new height: `UpdatePendingBals`, then `CheckWithdraw`; timer for `Withdraw` | daemon, wallet, database |
| Rewards (`updater.go`, `withdraw.go`) | `PendingBals {LastHeight, UnconfirmedTxs}`, persisted | record the coinbases of a wallet listing; credit or drop the head of the queue | wallet, daemon |
| Accounts and payouts (`withdraw.go`) | `AddrInfo {Balance, BalancePending, Paid}` per address, persisted | `CheckWithdraw` credits, `UpdatePendingBals` sets pending, `Withdraw` pays | wallet |
| Master link (`slave/client.go`, `slave/queue.go`, `cmd/master/handler.go`) | share cache, `conn`, `numConns`, `Stats.Workers` | cache, flush, statistics, block found; dial; `HandleSlave` | TCP |
| Miner session (`cmd/slave/handler.go`, `xatum.go`, `daemon_conn.go`) | `CData {Jobs, NextDiff, Score, Wallet}` | handshake, submit, verification goroutine, `SendJob`, `SubmitBlock` | miner, daemon |
| Xatum server (`xatum/server/server.go`) | `Connections`, channel `NewConnections`, slots per IP | accept, list, kick, ping | miners |
| Stratum server (`cmd/slave/stratum.go`) | `Conns`, one mutex per session | accept, ping, authorize, submit, broadcast and sweep | miners |
| GetWork server (`cmd/slave/getwork.go`) | `Conns`, `Alive` and a websocket per connection | request, list, upgrade, first job, read, broadcast and sweep | miners |
| Rate limiter (`rate_limit/`) | score and ban per IP, connections per IP | `CanDoAction`, `Ban`, `clearRl`, `CanConnect`, `Disconnect` | servers |
| Statistics (`cmd/master/stats.go`, `block_found.go`) | `Stats`, `stats.json` | count shares and blocks, chart, load, save, trim | updater, API, PPLNS |
| Shares (`master.go`, `updater.go`, `pplns_diff.go`) | bucket of shares, `NetHashrate`, `PoolHashrate` | store, clean up at a start, scan and delete for a reward | database, statistics |
| API, Discord, web interface | none | display; they take the locks of the master | browsers |
| Pure code (`pow`, `serializer`, `xatum` packets, `address`) | none | conversions and arithmetic | - |

What is hard here:

* **Overlap.** A goroutine per height, a goroutine per share and per job, locks
  that are released while a pointer is kept, or not taken at all.
* **Two sources of truth.** The daemon's height and the wallet's listing are
  read at different times; blocks turn into side blocks or are orphaned between
  being listed and being confirmed.
* **Money crosses a commit.** `Withdraw` broadcasts before its database
  transaction commits.
* **Frames without a lock.** A message is two writes to a shared variable that
  the reconnecting client replaces.
* **Locks that stay locked** on some of the early returns, and locks that are
  held across network calls and taken inside one another.
* **State before it is ready.** Slaves are served before the statistics are
  loaded, connections are listed before they have a websocket, and the PPLNS
  window is computed from rates that are still 0.

`PROJECT.json` lists these as 40 hazards at their lines, each with the
properties that catch it, or with a note when none does.

## 2. Modules

    RewardQueue --.
                   >-- PoolLedger          the money of the master
    Payouts ------'    Payouts implements AccountBook
    Pplns                                  the shares a reward is split over
    MasterStats, MasterLocks               statistics and locks of the master
    Records, BlockTarget                   bytes and targets
    ShareRelay                             slave -> master
    MinerSession                           one miner and its shares
    XatumServer, StratumServer,
    GetworkServer                          the tables of connections
    RateLimiter                            scores and bans

The modules with state of their own have an `MC...` module and its `.cfg` files.
MasterStats and MasterLocks share no variable and are checked side by side in
`MCMaster`; RateLimiter, Records, BlockTarget and Pplns in `MCAlgorithms`: a
behaviour moves only one side, so the states add up and no side loses one.
`Rules` puts Pplns, BlockTarget and Records, and `Servers` the three servers, side by side
as instances, states what is assumed of their constants, and gives their
properties names of their own; `MCServers` runs one server at a time (`MCStratumServer` is for the counterexample).
The modules `...Proofs` hold the theorems of the module they are named after:
`ServerProofs` those of Servers and RateLimiter, `MasterProofs` those of
MasterStats and Rules. `SumTheorems` has the lemmas about sums, the least element
and cardinality that several use. Operators commented
"Mutant of X" are variants of the operator below them; no specification uses them.

**RewardQueue** follows a coinbase through the master. A reward is the
topoheight of its block. `Poll` is a turn of the loop in `Updater`; each
goroutine `c` goes through `list` (`ListTransactions`, `ListFails`), `record`
(`RecordPending`, one database transaction, or `RecordAborts`) and `check` (the
branches of `CheckWithdraw`). `lastHeight` and `unconfirmed` survive `Crash`,
`height` and `minHeight` do not. The daemon mines (`MineBlock`) and reorganises
the last `StableDepth` blocks (`Reclassify`); the wallet answers with any prefix
of the chain that `WalletMayLag` and `WalletMayLead` allow, behind or ahead of
the polled height. `recorded`, `credited` and `dropped` are histories, and so are
three that say where the code itself breaks its promise: `ahead`, the blocks
recorded while above `MasterInfo.Height`; `missed`, the blocks below the first
listing after a start or beyond what the wallet had scanned (`tops`) when
`LastHeight` passed them.

**Payouts** is `AddrInfo` and `Withdraw`. The transaction is three steps:
`OpenWithdraw` (choose destinations in key order), `Broadcast` (the wallet sends)
and `CommitWithdraw`; between them come `TransferFails`, `ReplyLost` and `Crash`.
The pool's own address and banned ones are paid to the fee address
(`Destination`). bbolt has one writer, so the other writers wait (`tx = "idle"`).

**AccountBook** is what the pool promises its miners, without transactions,
loops or restarts: a balance is owed or was paid; a payment takes whole balances
above the minimum, of accounts with different destinations, in one step; then it
stands (`Settle`) or is taken back as a whole while the wallet remembers it
(`Forget`, the lost reply and the crash). Payouts implements it with
`Book == INSTANCE AccountBook WITH ...`: between `Broadcast` and
`CommitWithdraw` the amounts of the batch (`InFlight`) are counted as paid
although the database does not say so yet.

**PoolLedger** instantiates both and adds the amounts: the split of a coinbase
over a window of shares, the scaling to the daemon's reward, the debt
compensation, and what the wallet holds. One step of `UpdatePendingBals` or
`CheckWithdraw` is by definition a step of the queue and of the accounts, and so
what is proved of the queue holds here. Histories: `lost` is the money whose
record was rolled back, `doubled` how often a block was credited twice its reward
because of a debt above 50 coins. Amounts are small integers and floating point
is exact rational arithmetic rounded down.

**ShareRelay**: `cache`, `flushing` and `todo` are the flusher; `writing[g]` is a
goroutine inside `sendToConn` between its two `Write`s; `wire[k]` is a TCP
connection; `expect[k]` is what `HandleSlave` waits for. Encryption is its
effect: a read that does not cover one whole frame cannot be decrypted and ends
the connection. A statistics body has the size of a length, so these two can be
taken for each other and are modelled with what they decode to. `Panic` is the
write to a `conn` that became nil.

**MinerSession**: `reader` is `handleConn`; `task[i]` is the verification goroutine
of share `i`; `jobs` and `cap` are the slice with its capacity, because a pointer
kept across a reallocation (`detached`) is what makes a nonce be lost; `snapshot`
is the slice as read by the `SendJob` that does not lock. `leaked` is a mutex
that an early return left locked. What a hash is worth and what the miner claims
are choices. A difficulty is a level, chosen at the handshake (the suffix of the
address) and after each credited share. A verification keeps a pointer to its
job; since no code writes the `Diff` of a job that was sent, the model does not
copy it. `Verify` also returns for a hash that is blank or cannot be computed.
`raced` and `unserved` (the handshake met no template) are histories.

**GetworkServer**: a request takes its slot (`Admit`) before it is checked, is put
into `Conns` before it is upgraded to a websocket, gets the first job and is
read. `alive` is cleared only by a job that cannot be written, and only `Sweep`
gives the slot back. `session` is where the handler of a connection is, `sock`
its websocket; `senders` are the goroutines of a broadcast. Writing to a
connection without a websocket, or while the reader writes a job without the
lock, ends the slave (`SendPanics`); a panic of the reader is caught by gin.
`ListConn`, `KickConn` and `Sweep` wait for `statsSender` (`counting`). Templates
are numbered and the last one repeats, so that broadcasts never end.

**MasterStats** is `Stats` and `stats.json`: `CountShare`, `OnBlockFound` and
`UpdateStats` all go through `Cleanup`, which marshals, trims and writes.
`ReadFile` and `LoadStats` are two steps, because slaves are served meanwhile.
A goroutine is started for every announced block (`due`, a set): they sleep, ask
the daemon and call `OnBlockFound` in any order. `Unwritable` is an `Effort` that
JSON cannot hold. `Crash` may come at any step and ends all of them,
`CrashWriting` in the middle of the file. `spoilt` and `counted` (the blocks
`OnBlockFound` was called for, in that order) are histories.

**MasterLocks** is who waits for whom: the one writer of the database, `Stats`,
`MasterInfo` and `minHeightMut`, with the threads that take one inside another
(shares, blocks with the webhook, bans, rewards, payouts, every route of the API
that locks). A place of a thread is where it waits. That a Go writer keeps later
readers out is not modelled: no thread read-locks the same lock twice.

**Pplns** is the walk over the bucket of shares, by `DatabaseCleanup` at a start
and by `UpdatePendingBals` for a reward. `Windows` is `GetPplnsWindow` as a set,
because the conversion of NaN to `uint64` depends on the platform
(`NaNWindows`: 0 on arm64, 2^63 on amd64). It is evaluated for every share, while
the rates change. `Delete` may skip the next key: bbolt moves the keys under a
cursor when one is deleted.

**Records** is the serializer, the four records of the database and the layout
of `BlockMiner`; a record is written, loses any number of bytes from its end and
is read. **BlockTarget** is `GetTarget`, `GetTargetBytes` and `CheckDiff`. Both
are scaled: smaller bytes, shorter integers and hashes.

**XatumServer** and **StratumServer** are the tables of connections with their
locks, slots per IP and the loops that list, ping, sweep and kick. What runs
under a lock is one action, unless somebody works on the same state without the
lock: the Kick of the pinger (Xatum) and the append of the accept loop (Stratum)
are two, and so is the sweep of `sendJobs`, which reads `Conns` and then replaces
it (`SweepBegin`, `SweepEnd`). `raced` is a history: one fell into the other;
`overwritten` are the connections that were appended inside a sweep. Of Stratum,
`LastKnownJob` is stored after `sendJobs` was started (`StoreLastJob`), and a
miner that is answered with the older job is `behind` until the next one.
In all three servers `statsSender` is `CountBegin` and `CountEnd`: it locks
the three lists one after the other for reading. For Stratum, the last of them,
it gives the list back. For Xatum and GetWork it may keep theirs for ever, since
it may be waiting for the Stratum list. A session that `handleConnPacket` left
locked is a stuck reader in each server (`SubmitLeaks`, `SubmitStale`). The
slots of an IP are one counter in the code; each module has only its own server's.

**RateLimiter** counts in minutes. `granted` and `punished` are histories of
what was allowed and of bans.

## 3. Runs

A passing run checks everything that holds of its modules, in the most hostile
environment they have; a *violation* run shows a behaviour of the code that
contradicts a comment or message of the repository (the finding in
`PROJECT.json` quotes it). All of them end within a few minutes on two workers.

| Run | Environment | Shows |
|---|---|---|
| RewardQueueHostile | two goroutines, a wallet behind or ahead, failing calls, reorganisations, kills | `InOnePlace`, `CreditIsFinal`; `CountedOnce` but for blocks recorded above the polled height; `NothingForgotten` but for a restart or a slow wallet |
| PayoutsHostile | kills, refused transfers, lost replies, a banned account, full batches | `PaidWasSent`, `Conserved`, `FalseMeansPaidOut`, `EventuallyPaid`, `ImplementsAccounts` |
| PoolLedgerHostile | two goroutines, a wallet ahead, side blocks, orphans, failing calls, kills, lost replies, a debt that doubles | `NotOverpaid`; `Solvent` up to the doubled and twice recorded blocks and the records rolled back |
| ShareRelayHostile | one fault (a broken connection, or two sends at once) at any time, failed dials, a panic | `NothingInvented`, `NoGhostConns`; without a fault `NothingLost`, `EventuallyStored` |
| MinerSessionHostile | templates at any time, perhaps none at the handshake, a miner that sends anything | `BlocksVerified`, `TrustIsEarned`, `EventuallyDecided`; `FirstJobArrives` unless unserved; unless raced `NonceOnceUnlessRaced`, `WorksOnLatest` |
| ServersXatum | three connections for two slots, kicks by everyone, stuck readers, statistics | `XatumAcceptedIsHandled` unless `statsSender` keeps the list; unless raced `XatumSlotsAreExact`, `XatumServedIsListed`, `XatumSlotsComeBack` |
| ServersStratum | three connections, appends and sweeps that fall into each other, statistics, stale shares | `StratumMinersAreListed` but for those appended inside a sweep; unless raced `StratumSlotsAreExact`; without stale shares `StratumJobsReachMinersUnlessStale` |
| ServersGetwork | refused and failing requests, readers that end, panic or get stuck, unlocked writes, statistics, templates without end | `GetworkSlotsAreExact`, `GetworkSlotsComeBack` (until the slave panics, and unless `statsSender` keeps the list); `GetworkWorksOnLatest` unless an older job was written later |
| MasterHostile | several blocks waiting at once, kills, cut files, early saves, difficulties of 0; every thread of the master at once | `ChartAscends`; unless the file was spoilt `FoundKept`; unless `MasterInfo` was left locked `SharesAreStored` |
| Algorithms | resets during bursts and bans; every cut of every record; every hash; changing rates and restarts | `BurstBounded`, `BanHolds`, `ReadsWhatWasWritten`, `CheckDiffIsExact`, `SplitIsOverTheWindow` |
| *PayoutsLostReply* | a lost reply | a payment is sent twice (`PaidIsPaidOut`) |
| *StratumServerStale* | one stale share | no miner gets a job any more (`JobsReachMiners`) |

Where the code breaks a promise in one interleaving, the passing run still lets
that interleaving happen and the property excuses it by name, through a history
variable that the offending step sets: `ahead`, `missed`, `doubled`, `lost`,
`raced`, `leaked`, `unserved`, `overwritten`, `behind`, `faults`, `wasted`,
`crashed`, `spoilt`, `excused`; and three liveness properties by the condition that
`statsSender` keeps a list for ever (`<>[]counting`). So it is known which step each such
property needs to be spared, and that no other step breaks it. What is still
assumed of the constants: a confirmation depth that the daemon does not
reorganise (`StableDepth <= MinConfs`), in PoolLedger a wallet that is not behind
(`WalletMayLag = FALSE`; RewardQueue has one that is) and a withdrawal fee that
covers a network fee, and writes to a miner's connection that end.

**Bounds.** Two goroutines, connections or writers are enough for a race between
two, a third connection (`Conn = {m1, m2, m3}`) exceeds the limit of two per IP
(`MaxPerIp = 1`; the test is `>`), `MaxPastJobs = 2` and `InitialCap = 1` make the
slice both slide and reallocate. A chain that grows from height 2 to 5 (4 in
PoolLedger) with margins of 1 covers: before the first poll, inside the margin,
beyond it, confirmed, past the grace, and a block above the polled height that is
recorded twice. The two goroutines are interchangeable (`CycleSymmetry`). `MaxDestinations = 2` with 4 addresses, two of which
share a destination, fills a batch, skips an account and leaves some over. Rewards of 10 with a window of 2:1 and a fee of 10 % have a
rounding remainder; two of them exceed `DebtHigh = 15`, so that blocks are credited double. `MaxSent` lets a balance be
paid twice. In GetworkServer two connections and wasted slots fill the limit (`MaxPerIp = 1`)
and the next request is refused; two templates are enough for one to overtake
the other. `MaxRecent = 2` with three blocks trims the list, all of them can wait at once,
and a master that was restarted loads a list that is longer; `MaxLag = 2` with three intervals both catches up and
skips, two `Rewards` overlap. Records have
bytes below 4 with one bit of a varint each and integers at 0, 1, 2 and 15,
where bytes are added; targets have four bytes below 4 and difficulties beyond
the largest target. In Pplns the window takes all of its five cases, and two shares suffice for
one to be deleted and the other skipped. In ShareRelay `MaxFaults = 1` still reaches a message split over two
connections, a panic and frames taken for each other. `MaxEarned`, `MaxFound`,
`MaxWire`, `MaxTime` and the like only end the exploration; they are in the guards and say so. `CHECK_DEADLOCK FALSE` stands
where a bound stops the model or where the code can stop (a session whose mutex
is leaked); PayoutsHostile checks deadlock.

**Fairness.** Timers in the code are endless loops around `Sleep`, so their step is
weakly fair. A goroutine that is not blocked runs. Strong fairness is used for
waiting on a Go mutex (its starvation mode does not let a waiter be overtaken for
ever, and a reader does not overtake a waiting writer: the sweeps of StratumServer
and GetworkServer, the handlers of XatumServer and the threads of MasterLocks), for the flusher's `Write`s (the other writers do not keep the connection's
buffer full for ever), and in Payouts for the transfer: kills do not always hit
before `Withdraw` opens its transaction, and a wallet asked again and again
accepts the payment and answers. Calls to the wallet, the webhook
and the network end (MasterLocks; `CountEnd` of StratumServer). Nothing of the kind
is assumed of `statsSender` in XatumServer and GetworkServer. Of the daemon GetworkServer
assumes that it goes on sending templates: without one nothing notices a miner
that left. Nothing is assumed of miners.

## 4. Proofs

For every value of the constants that satisfies the named ASSUMEs:

* `RewardQueueProofs`: in every environment, also with a wallet ahead and any
  number of overlapping goroutines, `TypeCorrect`, `CountedOnceCorrect`,
  `InOnePlaceCorrect`, `LastHeightGrowsCorrect`, `NothingForgottenCorrect`; and
  with `StableDepth <= MinConfs`, `CreditIsFinalCorrect`. `CountedOnce` is not
  inductive: that a fresh transfer was not recorded before follows from
  `LastHeight` being at or above every recorded block that is not in `ahead`
  (`RecordedBelowLast`). `LastHeight` never moves back because a goroutine at work was
  started by a poll after `LastHeight` was written (`AwakeAbove`): a restart sets
  the height to 0, but it ends the goroutines too. `InOnePlace` counts entries,
  since a block above the polled height may be in the queue twice. The
  invariant of `NothingForgotten` (`FInv`) says that below the lowest topoheight
  that is listed nothing is left to record (`StartSkipped`), and that a listing still to
  be recorded holds every reward above `LastHeight` that the wallet had scanned
  (`ListingComplete`), however many goroutines move `LastHeight` meanwhile.
* `PayoutsProofs`: `TypeCorrect`, `PaidWasSentCorrect` (strengthened by what the
  open batch has broadcast), `ConservedCorrect`, without lost replies and
  crashes `PaidIsPaidOutCorrect`, and `ImplementsAccountsCorrect`: Payouts
  implements AccountBook. The last one needs that the accounts of an open
  batch were due, with their balances unchanged since (no other writer gets in),
  that no two of them share a destination, and that there are at most
  `MaxDestinations` of them. The bound follows from the walk in key order
  stopping at that many destinations, by an injection from the batch into the
  destinations. `FalseMeansPaidOutCorrect` adds what an open batch knows of the
  accounts it did not take (`UnpaidInv`).
* `PoolLedgerProofs` is about amounts. `NotOverpaidCorrect` and `SolventCorrect`, for
  any rewards, percentages, windows, debts and overlaps, with a wallet behind or
  ahead, if `StableDepth <= MinConfs` and `OldBalance = 0`; `Solvent` also needs
  that a withdrawal fee covers a network fee. The invariants of
  `RewardQueueProofs` are taken with `INSTANCE` (`QInv`), since each step of the
  composition is one of the queue or leaves it alone. `LInv` adds that every entry
  of the queue has its balances, which hold money and so can be scaled to the
  daemon's reward, that an open Withdraw pays accounts that are due, and that a
  block is doubled at most as often as it is credited; `EarnedWithin` that all
  credits are within the rewards of the credited blocks, doubled ones counted
  twice (a credited block is deep and keeps its reward); `Covered` that
  what is owed and what has left the wallet is within them too, up to what a
  rollback lost or an open transaction has not recorded. That scaling rounds
  down and never exceeds the reward, or twice it, is `CreditsWithin`.
* `ShareRelayProofs`: `NoGhostConnsCorrect`, `NothingInventedCorrect`,
  `NothingLostCorrect`, for any number of wallets, connections, faults and frames.
  Difficulty is weighed frame by frame (`WeightIn`, `Weight`), and `Flow` says for
  each action what goes from the cache to a writer's hand, to a wire and to the
  bucket. `NothingInvented` needs of the frames only their types, and that
  a writer sends messages of its own kind (`OwnKind`): even frames that are taken
  for each other carry no difficulty of their own. `NothingLost` needs that
  without a fault the wire holds whole messages, in step with what the reader
  expects and with what the writer has still to send (`Framed`, `Smooth`).
* `MinerSessionProofs`: `TypeCorrect`, for any slice lengths: it needs that a
  slice is never without capacity, and that each point of the score belongs to a
  credited share. `BlocksVerifiedCorrect` (`Proven`: a wrong claim of a block is
  never credited, and the daemon has heard only of tasks that came further) and
  `TrustIsEarnedCorrect` hold in every interleaving. The latter rests on `Earned`: a
  wrong hash that is about to count has found the score at `TrustScore`, and the
  score never exceeds the right shares before the first wrong one. Unless raced,
  `WorksOnLatestCorrect` rests on `Calm`: a packet is handled between templates,
  `jobToSend` is the newest one, and at most that one is still to be sent;
  `NonceOnceUnlessRacedCorrect` adds `Unique`: the pointer is into the current
  array, and every share that was accepted is in `SubmittedNonces` of its job.
* `ServerProofs`. Of the rate limiter `BanHoldsCorrect` (a ban that is not over is
  in the map, `BanKept`) and `BurstBoundedCorrect`: `Bursts` says what was allowed
  since the last reset, which the score bounds, and since the one before, which one
  more `MaxScore` bounds; a stretch of `ResetInterval` reaches no further back. Of
  the servers, for any number of connections, limit and queue:
  * Xatum: `XatumSlotsCorrect`, `XatumServedCorrect`. `SInv` adds that the channel
    holds each connection once and only ones that wait in it, that only served
    connections are pinged, and, unless raced, that an open connection is in the
    table from its listing on, none earlier, and that a pinger's Kick is the only
    one, has the current table in its hands and has given back the slot of its
    connection.
  * Stratum: `StratumSlotsCorrect`, `StratumListedCorrect`. The accept loop appends
    one connection at a time, not yet in `Conns` (`OneAppend`), and until an append
    and a sweep fall into each other the list an append read is the current
    one (`StratumSlots`). `ReadIsListed` holds through those races too: the
    connections that are alive, read and not themselves appended inside a sweep are
    in `Conns`, in the list an append will write and in the one a sweep will write.
  * GetWork: `GetworkTypeCorrect`, `GetworkSlotsCorrect` (the requests under way hold
    a slot each, and so does the list), and `GetworkWorksOnLatestCorrect`.
    `UnclosedIsListed` says that a connection whose websocket nobody closed is
    listed and alive, so that every sweep reaches it; `NewestIsComing` says for
    each such connection where the newest template is: in a broadcast to come, in
    a goroutine's hands, or already sent, unless an older one came later (`behind`).
* `MasterProofs`. Of the statistics, for any number of blocks, chart and crashes:
  `ChartAscendsCorrect` (`ChartsOK`: the file and what was read of it ascend as
  well) and `FoundKeptCorrect`. `FoundInv` turns on the file, not on `Stats`: at every
  step what stats.json says is right about the blocks that were counted
  (`BlocksAre`), and `Stats` says the same from `LoadStats` on, whichever of the
  waiting goroutines ends next or is killed. Of Rules:
  * `SplitIsOverTheWindowCorrect`: what is gone from the bucket was old or is let off
    by name (`GoneIsOld`), what the scan counted was in the window when the scan
    began (`CountedIsNew`), and what it has passed is counted, deleted or let off
    (`WalkedIsDecided`, `NextIsAhead`). It rests on two block times being at most
    each of the fixed windows, as in the code (an hour and two days),
    and NaN becoming 0 or a number beyond (`WindowConstants`).
  * `CheckDiffIsExactCorrect`: for every base of at least 2, length of a hash and
    difficulty, `bytes.Compare` with the padded quotient accepts exactly the hashes
    whose number times the difficulty is at most `maxBigInt`. The recursive
    functions of BlockTarget are shown to be tables (`ValuesExist`, `DigitsExist`);
    two strings of digits compare as their numbers do (`BytesCompare`, by the
    first digit in which they differ), the digits of a number stand for it
    (`DigitsStandFor`), and the division rounds on the right side
    (`QuotientIsExact`). Induction is over an interval (`IntervalInduction`).
  * `ReadsWhatWasWrittenCorrect`: for every size of a byte, an integer and a hash and
    every sample that can be written (`RecordsConstants`), a whole record is read
    back, and of one that lost its end nothing is taken for good unless the end
    was inside a varint. What the bytes of an integer are is shown of the tables
    behind `LittleEndian`, `AddUvarint` and `AddUint64` (`UvarintShape`,
    `Uint64Shape`). `OnWire` says that the bytes at hand are all of the record or
    begin it, `Holds` where a field stands in it, and `Reads` what one step of the
    deserializer does there: it takes the value and stands behind it, or it has
    failed because the bytes ended before (`UvarintReads`, `Uint64Reads`,
    `StringReads`). A reader that has failed stays so (`ReadersStayLost`). Lists are read entry by
    entry, by induction over the interval of their indexes (`AllBalsRead`,
    `AllTxsRead`, on `FlattenSeqHolds`), and a job by the three parts that its blob
    has (`MinerParts`, `StampedIs`, `FromBlobIs`).
* `SumTheorems`: the sum over a finite set is natural, monotone, additive,
  changes by the difference at one point, is the same over a renamed set, and is
  bounded when each share is rounded down. They are proved by induction on finite
  sets with the hypothesis stated as a set, which needs no operator parameter;
  `IntervalInduction` of MasterProofs has the same form.

Each inductive invariant was first checked by TLC on the constants of the
component's run. Every hypothesis of a theorem holds in that run, but the ones of
`PaidIsPaidOutCorrect`, whose violation without them is a finding. What is assumed
of the constants TLC evaluates in every run (`LimiterAssumption`,
`ServersAssumption`, `RulesAssumption` and their like).

Only model-checked are the liveness properties and the ENABLED they rest on, since
the prover has no fairness reasoning: `EventuallyPaid`, `EventuallyStored`,
`FirstJobArrives`, `EventuallyDecided`, `XatumAcceptedIsHandled`,
`XatumSlotsComeBack`, `GetworkSlotsComeBack`, `StratumJobsReachMinersUnlessStale`,
`SharesAreStored` (the only property of MasterLocks).

All other properties of the passing runs are theorems. `TypeOK` and
`LastHeightGrows` are theorems of RewardQueue, and `TypeOK` of Payouts, MinerSession and GetworkServer, and no run repeats them; type correctness
of ShareRelay, XatumServer, RateLimiter, MasterStats and Pplns is part of the
invariants of their proofs; `TypeOK` of the others documents their types. No module
declares a RECURSIVE operator.

## 5. Observed in the code, without a run

Met while modelling. Most of them happen in the passing runs and are excused there
by the history in parentheses:

* `updater.go:158`: after a restart `minHeight` is 0 and the first listing starts
  `SAFETY_MARGIN` below the height of the moment, not below the persisted
  `LastHeight`; a reward mined while the master was down for longer is never
  listed (`missed`).
* `handler.go:229` of the slave: `minerJob` points into `cdat.Jobs` after the
  unlock. A `SendJob` that reallocates the slice meanwhile makes the nonce be
  recorded in the old array, and it is accepted again (`NonceOnce`, as an
  invariant of MCMinerSessionHostile.cfg, is violated).
* `updater.go:307`: `LastHeight` becomes `MasterInfo.Height`, not the topoheight
  of the last recorded transfer. If the wallet already knows a block above it,
  that coinbase is recorded again by the next listing, and credited twice
  (`ahead`, `Surplus`).
* `updater.go:305`: with overlapping goroutines, or a wallet that is behind the
  daemon, `LastHeight` can pass a reward that the listing did not hold because the
  wallet had not scanned it yet (`missed`).
* `withdraw.go:99`: the grace of 10 blocks is counted from `UnlockHeight`, and one
  entry is looked at per height, so a late entry may be dropped at its first
  failing lookup.
* `withdraw.go:265`: an account skipped for a duplicate destination does not make
  `unpaid` true (`FalseMeansPaidOut` is about the others).
* `updater.go:342`, `withdraw.go:142`: `BalancePending` is overwritten by what one
  call adds, so `GetDebt` overestimates the surplus and a block may be credited
  twice out of money that is owed to others (`doubled`).
* `stratum.go:150,567-583`: an append between the read and the write of a sweep is
  overwritten: the miner gets no job any more and its slot is never given back
  (`overwritten`); a sweep inside an append is undone, and dead connections are
  counted off again by the next sweep (`raced`).
* `stratum.go:315`, `daemon_conn.go:121-132`: a miner that authorizes between the
  start of a broadcast and the store of `LastKnownJob` works on the older job until
  the next one (`behind`).
* `slave.go:90-101`: `statsSender` keeps the Xatum and GetWork lists read-locked
  while it waits for the Stratum list. After a stale share and the next ping
  (run StratumServerStale) that is for ever, and neither server lists or removes a
  connection any more (`<>[]counting`).
* `handler.go:125`: the blocks whose goroutines sleep when the master is killed
  are never counted.
* `handler.go:44` of the master: `Stats.Workers` keeps its value when the last
  slave goes.
* `xatum.go:101`: `SendJob` without the session's lock can drop a job from `Jobs`.
* `daemon_conn.go:183`: a miner that shakes hands before the first template is
  stored never gets a job (`unserved`).
* `handler.go:436` of the slave: the job for a changed difficulty is put into
  `jobToSend` after the reader has looked; `handler.go:418`: the test after the
  second `SubmitBlock` is inverted, so a block is announced when it was refused.
* `cmd/slave/slave.go:110`: the pinger's `Kick` does not lock the server.
* `rate_limit.go:24,40`: "max score of 2000 per minute" is per two minutes, and a
  reset allows it twice within one; `daemon_conn.go:192`: the ban of an idle
  miner is stored under an address with a port and never looked up.
* `getwork.go:175-229`: a slot of the IP is taken and not given back when the
  request is then refused (`wasted`); `getwork.go:246`: a broadcast between the
  listing and the upgrade writes through a nil websocket and ends the slave;
  `getwork.go:393`: a job is written without the session's lock, which panics when
  a broadcast writes too.
* `updater.go:81`: a difficulty that does not parse leaves `MasterInfo` locked;
  `updater.go:85-100` changes `Stats` without its lock.
* `stats.go:140,268`: a share or block that arrives before the file is loaded
  overwrites it or is overwritten, a kill while writing leaves no statistics, and
  with a difficulty of 0 `Effort` is infinite or NaN, after which `json.Marshal`
  fails and nothing is saved or trimmed until the block leaves the list.
* `stats.go:251-266`: "only keep the last 100 blocks found" holds of `Stats` but not
  of the file, which is written before the list is trimmed: a master that is
  restarted after every block, before it has counted another share, loads a
  list that grows by one each time. `FoundKept` therefore bounds it only from below.
* `stats.go:240-247`: `Cleanup` forgets addresses after 24 hours but not their
  `HashrateCharts`.
* `pplns_diff.go:25-36`: "PPLNS window is at most 1 hour", but with a `NetHashrate`
  of 0 it is two days; and with both rates 0 it is NaN, which `DatabaseCleanup`
  always meets, since it runs before any rate is known. "At most twice the block
  time" is at least. `updater.go:249`, `master.go:147`: deleting while the cursor
  walks may skip a share.
* `deserializer.go:85`: `binary.Uvarint` returns 0 bytes for a varint that is cut,
  and this is read as the value 0; `database.go:86`: an `UnconfTx` with a short
  hash panics.
* `target.go:35`: a difficulty of 0 accepts only the hash 0.
* `api.go:206`: a page view resets a balance above 2^63, the trace of an unsigned
  wrap, to 0; the amounts of the models do not wrap.

## 6. Not modelled

Difficulty adjustment (`GetNextDiff`; here a free choice of level), the averages
of the hash rates (`AddShare`, `GetHashrate`; the rates are choices in Pplns),
`UpdateReward`, packet parsing, the Xatum client (for miners, not used by the
pool), encryption as such, the proof-of-work hash, what the API, Discord and
the web interface show, logging, certificates and configuration. Of the
serializer, the formats that no record uses. The reconnection of the slave's
websocket to the daemon. Float rounding beyond truncation is not modelled, nor
is a configuration with a withdrawal fee above the minimum withdrawal, nor the
growth of bbolt's file under a long read transaction (`api.go:258`).

## 7. Plan

Done: the master's money (RewardQueue, Payouts, PoolLedger, AccountBook and the
refinements and proofs), its shares, statistics and locks (Pplns, MasterStats, MasterLocks),
the link (ShareRelay), the miner's session, the three servers, the rate limiter,
records and targets. Next:

1. `GetNextDiff` and the averages of the hash rates as pure algorithms.
2. The reconnection of the slave to the daemon.
