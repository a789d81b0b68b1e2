------------------------------- MODULE Rules -------------------------------
(***************************************************************************)
(* The rules of the pool that are calculations: the window of shares that  *)
(* a reward is split over, the test of a share, and the bytes of a record. *)
(* Each is an instance of its own module; they share no state.             *)
(***************************************************************************)
CONSTANTS
    BlockTime, OneHour, TwoDays, NaNWindows, Rates, MaxShares, MaxClock, \* Pplns
    Base, MaxDiff,                                                      \* BlockTarget
    Half, MaxVarint, IntLen, Samples,                                   \* Records
    HashLen                                                             \* both

VARIABLES
    clock, rates, bucket, born, walk, split, excused,  \* Pplns
    hash, diff, accepted,                              \* BlockTarget
    phase, record, wire, whole, result                 \* Records

Window == INSTANCE Pplns WITH now <- clock, MaxTime <- MaxClock
Target == INSTANCE BlockTarget
Format == INSTANCE Records

ASSUME RulesAssumption ==
    Window!WindowConstants /\ Target!TargetConstants /\ Format!RecordsConstants

-----------------------------------------------------------------------------
\* A reward is split over the shares of the window, through restarts and
\* changing rates (pplns_diff.go:22-40): see Pplns.
SplitIsOverTheWindow == Window!SplitIsOverTheWindow

\* CheckDiff takes exactly the hashes below 2^256 / difficulty
\* (target.go:34-60): see BlockTarget.
CheckDiffIsExact == Target!CheckDiffIsExact

\* What is written to the database or into a job is what is read from it
\* (database.go:28-179): see Records.
ReadsWhatWasWritten == Format!ReadsWhatWasWritten
=============================================================================
