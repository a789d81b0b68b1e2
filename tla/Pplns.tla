------------------------------- MODULE Pplns -------------------------------
(***************************************************************************)
(* The shares that a reward is split over.  The window is computed anew    *)
(* for every share, from rates that other threads change, by the clean-up  *)
(* of the start and by the scan that UpdatePendingBals makes for a reward. *)
(* Either is one transaction: a master that dies in it deletes nothing,    *)
(* and no share is stored meanwhile.                                       *)
(*                                                                         *)
(* A share is its identifier, the key of the bucket: they are handed out   *)
(* in order.  Every share that is stored can be read (see Records).        *)
(***************************************************************************)
EXTENDS Integers, FiniteSets, FiniteSetsExt

CONSTANTS
    BlockTime,   \* cfg.Cfg.BlockTime
    OneHour,     \* the upper limit of the window
    TwoDays,     \* the window when NetHashrate is 0
    NaNWindows,  \* what uint64(NaN) may be: 2^63 on amd64, 0 on arm64
    Rates,       \* values of NetHashrate and PoolHashrate
    MaxShares,   \* bound: shares that are stored
    MaxTime      \* bound: time that passes

\* The window is at least two block times, whatever limits it; NaN becomes 0 or a
\* number that is beyond it.
WindowConstants ==
    /\ BlockTime \in Nat \ {0} /\ OneHour \in Nat /\ TwoDays \in Nat
    /\ 2 * BlockTime <= OneHour /\ 2 * BlockTime <= TwoDays
    /\ \A w \in NaNWindows : w = 0 \/ (w \in Nat /\ w >= 2 * BlockTime)
    /\ Rates \subseteq Nat /\ MaxShares \in Nat

VARIABLES
    now,      \* util.Time()
    rates,    \* Stats.NetHashrate and Stats.PoolHashrate
    bucket,   \* the shares of the database
    born,     \* Share.Time of the shares stored so far
    walk,     \* the transaction that walks the bucket: clean-up or scan,
              \* the next key, what it deleted and what it counted
    split,    \* history: the last split: when it began and ended, the
              \* shares it counted and those stored by then
    excused   \* history: shares deleted in a window of NaN, counted while
              \* NetHashrate was 0, or skipped by the cursor

vars == <<now, rates, bucket, born, walk, split, excused>>

Stored == DOMAIN born
NoSplit == [began |-> 0, ended |-> 0, counted |-> {}, known |-> {}]

\* The key that follows in the bucket; none: one that no share has.
KeyAfter(k) ==
    LET later == {s \in bucket : s > k} IN IF later = {} THEN MaxShares + 1 ELSE Min(later)

Walk(phase, time) ==
    [phase |-> phase, began |-> time, next |-> KeyAfter(0), deleted |-> {}, counted |-> {}]
Idle == [phase |-> "idle", began |-> 0, next |-> 0, deleted |-> {}, counted |-> {}]

Init ==
    /\ now = 0 /\ rates = [net |-> 0, pool |-> 0]
    /\ bucket = {} /\ born = <<>> /\ walk = Walk("cleanup", 0)
    /\ split = NoSplit
    /\ excused = [lost |-> {}, wide |-> {}, skipped |-> {}]

-----------------------------------------------------------------------------
(* GetPplnsWindow(): the quotient is 0, infinite or NaN when a rate is 0.  *)

\* Mutant of Windows: no lower limit.
WindowsShort ==
    LET interval == rates.net * BlockTime
    IN  IF rates.net = 0 THEN IF rates.pool = 0 THEN NaNWindows ELSE {TwoDays}
        ELSE IF interval > OneHour * rates.pool THEN {OneHour}
        ELSE {interval \div rates.pool}

Windows ==
    LET interval == rates.net * BlockTime
    IN  IF rates.net = 0 THEN IF rates.pool = 0 THEN NaNWindows ELSE {TwoDays}
        ELSE IF interval > OneHour * rates.pool THEN {OneHour}
        ELSE IF interval < 2 * BlockTime * rates.pool THEN {2 * BlockTime}
        ELSE {interval \div rates.pool}

-----------------------------------------------------------------------------
(* The walk.  The key after one that was deleted may be skipped: deleting  *)
(* moves the keys under the cursor.                                        *)

Walking == walk.phase \in {"cleanup", "scan"}
Here == walk.next
AtKey == Walking /\ Here \in bucket

Outdated(s, w) == born[s] + w < now

Delete ==
    /\ AtKey
    /\ \E w \in Windows :
        /\ Outdated(Here, w)
        /\ \E skipped \in {{}, {KeyAfter(Here)} \cap bucket} :
            /\ walk' = [walk EXCEPT !.deleted = @ \cup {Here},
                   !.next = KeyAfter(IF skipped = {} THEN Here ELSE KeyAfter(Here))]
            /\ excused' = [excused EXCEPT
                   !.lost = @ \cup IF rates.net = 0 /\ rates.pool = 0 /\ w = 0
                                   THEN {Here} ELSE {},
                   !.skipped = @ \cup skipped]
    /\ UNCHANGED <<now, rates, bucket, born, split>>

\* The clean-up only keeps it; the scan adds it to the hashes of its wallet.
Keep ==
    /\ AtKey
    /\ \E w \in Windows : ~Outdated(Here, w)
    /\ walk' = [walk EXCEPT !.next = KeyAfter(Here), !.counted = @ \cup {Here}]
    /\ excused' = [excused EXCEPT !.wide = @ \cup IF rates.net = 0 THEN {Here} ELSE {}]
    /\ UNCHANGED <<now, rates, bucket, born, split>>

AtEnd == Walking /\ Here \notin bucket

\* The clean-up commits, and the threads of the master start.
DatabaseCleanup ==
    /\ AtEnd /\ walk.phase = "cleanup"
    /\ bucket' = bucket \ walk.deleted /\ walk' = Idle
    /\ UNCHANGED <<now, rates, born, split, excused>>

\* UpdatePendingBals meets a reward.
BeginScan ==
    /\ walk.phase = "idle"
    /\ walk' = Walk("scan", now)
    /\ excused' = [excused EXCEPT !.wide = {}, !.skipped = {}]
    /\ UNCHANGED <<now, rates, bucket, born, split>>

EndScan ==
    /\ AtEnd /\ walk.phase = "scan"
    /\ bucket' = bucket \ walk.deleted /\ walk' = Idle
    /\ split' = [began |-> walk.began, ended |-> now,
                  counted |-> walk.counted, known |-> Stored]
    /\ UNCHANGED <<now, rates, born, excused>>

\* What was deleted is there again.
RolledBack ==
    /\ split' = NoSplit
    /\ excused' = [excused EXCEPT !.lost = @ \cap (Stored \ bucket)]

\* The hash of the transfer is bad, or another error: the reward is not split.
AbortScan ==
    /\ AtEnd /\ walk.phase = "scan"
    /\ walk' = Idle /\ RolledBack
    /\ UNCHANGED <<now, rates, bucket, born>>

-----------------------------------------------------------------------------
(* The other threads, and a restart.                                       *)

\* OnShareFound stores a share.
StoreShare ==
    /\ walk.phase = "idle" /\ Cardinality(Stored) < MaxShares
    /\ LET s == Cardinality(Stored) + 1
       IN  /\ born' = [i \in Stored \cup {s} |-> IF i = s THEN now ELSE born[i]]
           /\ bucket' = bucket \cup {s}
    /\ UNCHANGED <<now, rates, walk, split, excused>>

\* Updater follows the daemon; nothing holds it back while shares are scanned.
PollDifficulty ==
    /\ walk.phase # "cleanup"
    /\ \E r \in Rates : rates' = [rates EXCEPT !.net = r]
    /\ UNCHANGED <<now, bucket, born, walk, split, excused>>

\* Cleanup of the statistics sums up the miners.
UpdateRates ==
    /\ walk.phase # "cleanup"
    /\ \E r \in Rates : rates' = [rates EXCEPT !.pool = r]
    /\ UNCHANGED <<now, bucket, born, walk, split, excused>>

\* StatsServer loads stats.json; what it may do to the rates once, the two
\* others may do again and again.
LoadRates ==
    /\ walk.phase # "cleanup"
    /\ \E net, pool \in Rates : rates' = [net |-> net, pool |-> pool]
    /\ UNCHANGED <<now, bucket, born, walk, split, excused>>

Tick ==
    /\ now < MaxTime /\ now' = now + 1
    /\ UNCHANGED <<rates, bucket, born, walk, split, excused>>

\* The master is killed and started again.
Restart ==
    /\ rates' = [net |-> 0, pool |-> 0] /\ walk' = Walk("cleanup", 0)
    /\ RolledBack
    /\ UNCHANGED <<now, bucket, born>>

Next ==
    \/ Delete \/ Keep
    \/ DatabaseCleanup \/ BeginScan \/ EndScan \/ AbortScan
    \/ StoreShare \/ PollDifficulty \/ UpdateRates \/ LoadRates \/ Tick \/ Restart

Spec == Init /\ [][Next]_vars

-----------------------------------------------------------------------------
(* Properties.                                                             *)

\* Whatever the rates did and however often the master was started, a reward is
\* split over every share of the last two block times and over no share that is
\* older than an hour (pplns_diff.go:22-40, updater.go:239-258,
\* master.go:145-150).  Let off are: shares the clean-up or a scan deleted while
\* both rates were 0 and NaN became 0; old shares counted while NetHashrate was
\* 0; and the share that the cursor skipped.
SplitIsOverTheWindow ==
    walk.phase = "idle" =>
        /\ \A s \in split.known :
              born[s] + 2 * BlockTime >= split.ended =>
                  s \in split.counted \cup excused.lost \cup excused.skipped
        /\ \A s \in split.counted :
              born[s] + OneHour < split.began => s \in excused.wide
=============================================================================
