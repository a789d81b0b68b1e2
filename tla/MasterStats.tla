---------------------------- MODULE MasterStats ----------------------------
(***************************************************************************)
(* The statistics of the master: what OnShareFound, OnBlockFound and       *)
(* StatsServer keep in Stats, and stats.json, from which a restarted       *)
(* master goes on.  Every step holds the lock of Stats from its beginning  *)
(* to its end; MasterLocks is about who waits for it.                      *)
(*                                                                         *)
(* Time is counted in intervals of STATS_INTERVAL minutes.  Of Stats the   *)
(* model keeps the found blocks, the pool's chart and whether Difficulty   *)
(* is known.                                                               *)
(***************************************************************************)
EXTENDS Integers, Sequences

CONSTANTS
    MaxRecent,   \* blocks kept in BlocksFound (100 in the code)
    NumChart,    \* NUM_CHART_DATA (96 in the code)
    MaxLag,      \* intervals that the chart catches up with (10 in the code)
    MaxBlocks,   \* bound: blocks the slaves announce
    MaxTime      \* bound: intervals that pass

ASSUME StatsAssumption ==
    /\ MaxRecent \in Nat \ {0} /\ NumChart \in Nat \ {0} /\ MaxLag \in Nat \ {0}
    /\ MaxBlocks \in Nat /\ MaxTime \in Nat

VARIABLES
    stats,     \* Stats
    file,      \* stats.json
    boot,      \* StatsServer: "unread", "read" (not in Stats yet), "running"
    buffer,    \* statsData, read from the file
    due,       \* announced blocks whose goroutine has not called OnBlockFound yet
    now,       \* time
    announced, \* the number of the newest announced block
    counted,   \* history: the blocks OnBlockFound was called for, newest first
    spoilt     \* history: a block or a save came before Stats was loaded, a
               \* write was cut, or an Effort that JSON cannot hold was stored

vars == <<stats, file, boot, buffer, due, now, announced, counted, spoilt>>

NoStats == [NumFound |-> 0, BlocksFound |-> <<>>, Chart |-> <<>>, LastUpdate |-> 0,
            HasDiff |-> FALSE, Unwritable |-> FALSE]
NoFile == [NoStats EXCEPT !.Unwritable = TRUE]

Start == MaxLag + 2

Init ==
    /\ stats = NoStats /\ file = NoFile
    /\ boot = "unread" /\ buffer = NoFile
    /\ due = {} /\ now = Start /\ announced = 0 /\ counted = << >> /\ spoilt = FALSE

-----------------------------------------------------------------------------
(* Cleanup(): the statistics are marshalled, then trimmed, then written.   *)
(* A number that JSON cannot hold ends it before that.                     *)

\* Two at a time.
Trim(s) ==
    LET n == Len(s.BlocksFound)
        keep == IF n <= MaxRecent THEN n ELSE MaxRecent - ((n - MaxRecent) % 2)
    IN  IF s.Unwritable THEN s
        ELSE [s EXCEPT !.BlocksFound = SubSeq(@, 1, keep)]

Written(s) == IF s.Unwritable THEN file ELSE s

\* Stats becomes s, cleaned up; it is spoilt when it was not loaded yet.
Cleanup(s) ==
    /\ stats' = Trim(s)
    /\ file' = Written(s)
    /\ spoilt' = (spoilt \/ s.Unwritable \/ boot # "running")

\* OnShareFound.
CountShare ==
    /\ Cleanup(stats)
    /\ UNCHANGED <<boot, buffer, due, now, announced, counted>>

\* A slave announces a block: a goroutine is started for it, which sleeps for ten
\* seconds and asks the daemon before it locks Stats.
AnnounceBlock ==
    /\ announced < MaxBlocks
    /\ announced' = announced + 1
    /\ due' = due \cup {announced + 1}
    /\ UNCHANGED <<stats, file, boot, buffer, now, counted, spoilt>>

\* Effort is Hashes / Difficulty: infinite or NaN while Difficulty is 0.
FoundBlock(b) ==
    [stats EXCEPT !.BlocksFound = <<b>> \o @, !.NumFound = @ + 1,
                  !.Unwritable = @ \/ ~stats.HasDiff]

\* Mutant of OnBlockFound: saved before the block is counted.
OnBlockFoundSavedEarly(b) ==
    /\ b \in due /\ due' = due \ {b}
    /\ counted' = <<b>> \o counted
    /\ stats' = FoundBlock(b) /\ file' = Written(stats)
    /\ spoilt' = (spoilt \/ FoundBlock(b).Unwritable \/ boot # "running")
    /\ UNCHANGED <<boot, buffer, now, announced>>

\* The goroutines of several blocks end in any order.
OnBlockFound(b) ==
    /\ b \in due /\ due' = due \ {b}
    /\ counted' = <<b>> \o counted
    /\ Cleanup(FoundBlock(b))
    /\ UNCHANGED <<boot, buffer, now, announced>>

-----------------------------------------------------------------------------
(* StatsServer().                                                          *)

ReadFile ==
    /\ boot = "unread"
    /\ buffer' = file
    /\ boot' = "read"
    /\ UNCHANGED <<stats, file, due, now, announced, counted, spoilt>>

\* A file that is missing or cut leaves Stats as it is.
LoadStats ==
    /\ boot = "read"
    /\ stats' = IF buffer.Unwritable THEN stats ELSE buffer
    /\ boot' = "running" /\ buffer' = NoFile
    /\ UNCHANGED <<file, due, now, announced, counted, spoilt>>

\* The master was away for too long: the chart has a gap.
SkipAhead ==
    /\ boot = "running"
    /\ now - stats.LastUpdate > MaxLag
    /\ stats' = [stats EXCEPT !.LastUpdate = now - 1]
    /\ UNCHANGED <<file, boot, buffer, due, now, announced, counted, spoilt>>

LastOf(s, n) == IF Len(s) > n THEN SubSeq(s, Len(s) - n + 1, Len(s)) ELSE s

\* Mutant of UpdateStats: the statistics are saved at the end, before LastUpdate
\* has moved.
UpdateStatsSavedLate ==
    /\ boot = "running"
    /\ now - stats.LastUpdate \in 1 .. MaxLag
    /\ LET s == Trim([stats EXCEPT
                          !.Chart = LastOf(Append(@, stats.LastUpdate + 1), NumChart)])
       IN  /\ file' = Written(s)
           /\ stats' = [s EXCEPT !.LastUpdate = @ + 1]
    /\ UNCHANGED <<boot, buffer, due, now, announced, counted, spoilt>>

\* One more point for the chart; what is saved does not have it yet.
UpdateStats ==
    /\ boot = "running"
    /\ now - stats.LastUpdate \in 1 .. MaxLag
    /\ file' = Written(stats)
    /\ stats' = [Trim(stats) EXCEPT
                    !.LastUpdate = @ + 1,
                    !.Chart = LastOf(Append(@, stats.LastUpdate + 1), NumChart)]
    /\ UNCHANGED <<boot, buffer, due, now, announced, counted, spoilt>>

-----------------------------------------------------------------------------
(* The daemon, time and crashes.                                           *)

\* Updater: Difficulty follows the daemon, and may be 0.
Poll ==
    /\ \E known \in BOOLEAN : stats' = [stats EXCEPT !.HasDiff = known]
    /\ UNCHANGED <<file, boot, buffer, due, now, announced, counted, spoilt>>

Wait ==
    /\ now < Start + MaxTime
    /\ now' = now + 1
    /\ UNCHANGED <<stats, file, boot, buffer, due, announced, counted, spoilt>>

\* The master is killed, with all its goroutines, and started again.
Restart ==
    /\ stats' = NoStats /\ boot' = "unread" /\ buffer' = NoFile
    /\ due' = {}
    /\ UNCHANGED <<now, announced, counted>>

Crash == Restart /\ UNCHANGED <<file, spoilt>>

\* It is killed in the middle of os.WriteFile.
CrashWriting ==
    /\ ~stats.Unwritable
    /\ Restart
    /\ file' = NoFile /\ spoilt' = TRUE

Next ==
    \/ CountShare \/ AnnounceBlock
    \/ \E b \in due : OnBlockFound(b)
    \/ ReadFile \/ LoadStats \/ SkipAhead \/ UpdateStats
    \/ Poll \/ Wait \/ Crash \/ CrashWriting

Spec == Init /\ [][Next]_vars

-----------------------------------------------------------------------------
(* Properties.                                                             *)

\* NumFound and BlocksFound survive restarts at any moment (stats.go:139-152,
\* 251-268, block_found.go:56-65), whatever other goroutines of announced blocks
\* wait, end in between or are killed: every block that OnBlockFound was called
\* for is counted once, and BlocksFound has them in the order of the calls, newest
\* first, all of them until it may be trimmed and never fewer than one below
\* MaxRecent.  Not if the statistics were spoilt: nothing is kept of a file that a
\* save before the loading overwrote or a kill cut, or once Stats holds a number
\* that JSON cannot write.
FoundKept ==
    boot = "running" /\ ~spoilt =>
        LET kept == Len(stats.BlocksFound) IN
        /\ stats.NumFound = Len(counted)
        /\ kept = Len(counted) \/ kept \in MaxRecent - 1 .. Len(counted)
        /\ stats.BlocksFound = SubSeq(counted, 1, kept)

\* The chart's times ascend and lie in the past (stats.go:161-172,208), also
\* when a restarted master goes on from a file that is older than its memory was,
\* catches up with several intervals at once or skips the time it was away.
ChartAscends ==
    LET Times == stats.Chart IN
    /\ Len(Times) <= NumChart
    /\ \A i \in 1 .. Len(Times) :
           Times[i] <= stats.LastUpdate /\ (i > 1 => Times[i - 1] < Times[i])
    /\ stats.LastUpdate <= now
=============================================================================
