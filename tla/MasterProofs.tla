---------------------------- MODULE MasterProofs ----------------------------
(***************************************************************************)
(* Machine-checked proofs about the master.  Its statistics, for every     *)
(* number of blocks, length of the chart and sequence of crashes: the      *)
(* chart's times ascend, and no found block is lost or counted twice.  Its *)
(* rules, for every window, base and length of a hash: a reward is split   *)
(* over the shares of the window, and the test of a share is exact.  Its   *)
(* records, for every size of an integer: what is written is what is read. *)
(***************************************************************************)
EXTENDS MasterStats, Rules, SequenceTheorems, SumTheorems, TLAPS

-----------------------------------------------------------------------------
(* Types.                                                                  *)

Statistics ==
    [NumFound : Nat, BlocksFound : Seq(Nat), Chart : Seq(Nat), LastUpdate : Nat,
     HasDiff : BOOLEAN, Unwritable : BOOLEAN]

TypeOK ==
    /\ stats \in Statistics /\ file \in Statistics /\ buffer \in Statistics
    /\ boot \in {"unread", "read", "running"}
    /\ due \subseteq Nat /\ spoilt \in BOOLEAN
    /\ now \in Nat /\ announced \in Nat /\ counted \in Seq(Nat)

\* A file that is not there has no blocks and no chart.
LEMMA NoFileFields ==
    /\ NoStats \in Statistics /\ NoFile \in Statistics
    /\ NoStats.NumFound = 0 /\ NoStats.BlocksFound = << >> /\ NoStats.Chart = << >>
    /\ NoStats.LastUpdate = 0 /\ NoStats.Unwritable = FALSE
    /\ NoFile.NumFound = 0 /\ NoFile.BlocksFound = << >> /\ NoFile.Chart = << >>
    /\ NoFile.LastUpdate = 0 /\ NoFile.Unwritable = TRUE
<1>1. << >> \in Seq(Nat)
    OBVIOUS
<1>2. QED
    BY <1>1 DEF NoStats, NoFile, Statistics

\* The blocks that are left when some are trimmed.
Kept(s) == LET n == Len(s.BlocksFound)
           IN  IF n <= MaxRecent THEN n ELSE MaxRecent - ((n - MaxRecent) % 2)

\* Trimming shortens the list of blocks by at most all but MaxRecent - 1, and
\* changes nothing else.
LEMMA TrimFields ==
    ASSUME NEW s \in Statistics
    PROVE  /\ Trim(s) \in Statistics
           /\ Trim(s).NumFound = s.NumFound /\ Trim(s).Chart = s.Chart
           /\ Trim(s).LastUpdate = s.LastUpdate /\ Trim(s).Unwritable = s.Unwritable
           /\ Len(Trim(s).BlocksFound) \in Nat
           /\ Len(Trim(s).BlocksFound) <= Len(s.BlocksFound)
           /\ Len(Trim(s).BlocksFound) = Len(s.BlocksFound) \/ Len(Trim(s).BlocksFound) >= MaxRecent - 1
           /\ \A i \in 1 .. Len(Trim(s).BlocksFound) : Trim(s).BlocksFound[i] = s.BlocksFound[i]
<1>1. s.BlocksFound \in Seq(Nat) /\ Len(s.BlocksFound) \in Nat
    BY DEF Statistics
<1> DEFINE n == Len(s.BlocksFound)
           k == Kept(s)
           kept == SubSeq(s.BlocksFound, 1, k)
<1>2. k \in Nat /\ k <= n /\ (k = n \/ k >= MaxRecent - 1)
  <2>1. MaxRecent \in Nat \ {0} /\ n \in Nat
    BY <1>1, StatsAssumption
  <2>2. CASE n <= MaxRecent
    BY <2>1, <2>2 DEF Kept
  <2>3. CASE ~(n <= MaxRecent)
    <3>1. k = MaxRecent - ((n - MaxRecent) % 2)
      BY <2>3 DEF Kept
    <3>2. (n - MaxRecent) % 2 \in {0, 1}
      <4>1. \A m \in Nat : m % 2 \in {0, 1}
        OBVIOUS
      <4> HIDE DEF n
      <4>2. n - MaxRecent \in Nat
        BY <2>1, <2>3
      <4>3. QED
        BY <4>1, <4>2
    <3>3. QED
      <4> HIDE DEF n, k
      <4> QED BY <2>1, <2>3, <3>1, <3>2
  <2>4. QED
    BY <2>2, <2>3
<1>3. kept \in Seq(Nat) /\ Len(kept) = k /\ \A i \in 1 .. k : kept[i] = s.BlocksFound[i]
  <2> HIDE DEF k
  <2> QED BY <1>1, <1>2
<1>4. CASE s.Unwritable
  <2>1. Trim(s) = s
    BY <1>4 DEF Trim
  <2>2. QED
    BY <1>1, <2>1
<1>5. CASE ~s.Unwritable
  <2>1. Trim(s) = [s EXCEPT !.BlocksFound = kept]
    BY <1>5 DEF Trim, Kept
  <2> HIDE DEF kept
  <2>2. /\ Trim(s) \in Statistics /\ Trim(s).NumFound = s.NumFound /\ Trim(s).Chart = s.Chart
        /\ Trim(s).LastUpdate = s.LastUpdate /\ Trim(s).Unwritable = s.Unwritable
        /\ Trim(s).BlocksFound = kept
    BY <1>3, <2>1 DEF Statistics
  <2>3. QED
    BY <1>2, <1>3, <2>2
<1>6. QED
    BY <1>4, <1>5

\* A found block is put in front of the others.
LEMMA FoundBlockFields ==
    ASSUME stats \in Statistics, NEW b \in Nat
    PROVE  /\ FoundBlock(b) \in Statistics
           /\ FoundBlock(b).NumFound = stats.NumFound + 1
           /\ FoundBlock(b).BlocksFound = <<b>> \o stats.BlocksFound
           /\ FoundBlock(b).Chart = stats.Chart /\ FoundBlock(b).LastUpdate = stats.LastUpdate
           /\ FoundBlock(b).Unwritable = FALSE => stats.Unwritable = FALSE
<1>1. stats.BlocksFound \in Seq(Nat) /\ stats.NumFound + 1 \in Nat
    BY DEF Statistics
<1>2. <<b>> \o stats.BlocksFound \in Seq(Nat)
    BY <1>1
<1>3. (stats.Unwritable \/ ~stats.HasDiff) \in BOOLEAN
    OBVIOUS
<1> DEFINE bad == stats.Unwritable \/ ~stats.HasDiff
           blocks == <<b>> \o stats.BlocksFound
<1>4. FoundBlock(b) = [stats EXCEPT !.BlocksFound = blocks, !.NumFound = stats.NumFound + 1,
                                 !.Unwritable = bad]
    BY DEF FoundBlock, Statistics
<1>5. bad = FALSE => stats.Unwritable = FALSE
    BY DEF Statistics
<1> HIDE DEF bad, blocks
<1>6. bad \in BOOLEAN /\ blocks \in Seq(Nat)
    BY <1>2, <1>3 DEF bad, blocks
<1>7. /\ FoundBlock(b) \in Statistics /\ FoundBlock(b).NumFound = stats.NumFound + 1
      /\ FoundBlock(b).BlocksFound = blocks /\ FoundBlock(b).Chart = stats.Chart
      /\ FoundBlock(b).LastUpdate = stats.LastUpdate /\ FoundBlock(b).Unwritable = bad
    BY <1>1, <1>4, <1>6 DEF Statistics
<1>8. QED
    BY <1>5, <1>7 DEF blocks

\* What UpdateStats leaves.
PointAdded ==
    [Trim(stats) EXCEPT !.LastUpdate = @ + 1,
                        !.Chart = LastOf(Append(@, stats.LastUpdate + 1), NumChart)]

\* The last n entries of a sequence, in its order.
LEMMA LastOfFields ==
    ASSUME NEW s \in Seq(Nat), NEW n \in Nat \ {0}
    PROVE  /\ LastOf(s, n) \in Seq(Nat) /\ Len(LastOf(s, n)) \in Nat /\ Len(LastOf(s, n)) <= n
           /\ \E k \in Nat :
                  \A i \in 1 .. Len(LastOf(s, n)) :
                      i + k \in 1 .. Len(s) /\ LastOf(s, n)[i] = s[i + k]
<1>1. Len(s) \in Nat
    OBVIOUS
<1>2. CASE Len(s) > n
  <2> DEFINE k == Len(s) - n
  <2>1. k \in Nat /\ k + 1 \in 1 .. Len(s) /\ k + n = Len(s) /\ Len(s) - n + 1 = k + 1
    BY <1>1, <1>2
  <2>2. LastOf(s, n) = SubSeq(s, k + 1, Len(s))
    BY <1>2 DEF LastOf
  <2> HIDE DEF k
  <2>3. /\ SubSeq(s, k + 1, Len(s)) \in Seq(Nat)
        /\ Len(SubSeq(s, k + 1, Len(s))) = n
        /\ \A i \in 1 .. n : SubSeq(s, k + 1, Len(s))[i] = s[k + i]
    <3>1. Len(SubSeq(s, k + 1, Len(s))) = n
      BY <1>1, <2>1
    <3>2. \A i \in 1 .. n : SubSeq(s, k + 1, Len(s))[i] = s[k + i]
      BY <1>1, <2>1
    <3>3. SubSeq(s, k + 1, Len(s)) \in Seq(Nat)
      BY <1>1, <2>1
    <3>4. QED
      BY <3>1, <3>2, <3>3
  <2>4. \A i \in 1 .. n : i + k \in 1 .. Len(s) /\ k + i = i + k
    BY <1>1, <2>1
  <2>5. LastOf(s, n) \in Seq(Nat) /\ Len(LastOf(s, n)) = n
    BY <2>2, <2>3
  <2>6. \A i \in 1 .. Len(LastOf(s, n)) : i + k \in 1 .. Len(s) /\ LastOf(s, n)[i] = s[i + k]
    BY <2>2, <2>3, <2>4, <2>5
  <2>7. Len(LastOf(s, n)) \in Nat /\ Len(LastOf(s, n)) <= n
    BY <2>5
  <2>8. QED
    BY <2>1, <2>5, <2>6, <2>7
<1>3. CASE ~(Len(s) > n)
  <2>1. LastOf(s, n) = s
    BY <1>3 DEF LastOf
  <2>2. 0 \in Nat /\ \A i \in 1 .. Len(s) : i + 0 \in 1 .. Len(s) /\ s[i] = s[i + 0]
    BY <1>1
  <2>3. QED
    BY <1>1, <1>3, <2>1, <2>2
<1>4. QED
    BY <1>2, <1>3

LEMMA PointAddedFields ==
    ASSUME stats \in Statistics
    PROVE  /\ PointAdded \in Statistics
           /\ PointAdded.NumFound = stats.NumFound
           /\ PointAdded.BlocksFound = Trim(stats).BlocksFound
           /\ PointAdded.LastUpdate = stats.LastUpdate + 1
           /\ PointAdded.Chart = LastOf(Append(stats.Chart, stats.LastUpdate + 1), NumChart)
           /\ PointAdded.Unwritable = stats.Unwritable
<1> DEFINE chart == LastOf(Append(stats.Chart, stats.LastUpdate + 1), NumChart)
           time == stats.LastUpdate + 1
           trimmed == Trim(stats)
<1>1. /\ Trim(stats) \in Statistics /\ Trim(stats).NumFound = stats.NumFound
      /\ Trim(stats).Chart = stats.Chart /\ Trim(stats).LastUpdate = stats.LastUpdate
      /\ Trim(stats).Unwritable = stats.Unwritable
    BY TrimFields
<1>2. stats.Chart \in Seq(Nat) /\ stats.LastUpdate \in Nat /\ NumChart \in Nat \ {0}
    BY StatsAssumption DEF Statistics
<1>3. Append(stats.Chart, stats.LastUpdate + 1) \in Seq(Nat)
    BY <1>2
<1>4. chart \in Seq(Nat)
    BY <1>2, <1>3, LastOfFields
<1>5. PointAdded = [trimmed EXCEPT !.LastUpdate = time, !.Chart = chart]
    BY <1>1 DEF PointAdded, Statistics
<1>6. time \in Nat /\ trimmed \in Statistics
    BY <1>1, <1>2
<1> HIDE DEF chart, time, trimmed
<1>7. /\ PointAdded \in Statistics /\ PointAdded.NumFound = trimmed.NumFound
      /\ PointAdded.BlocksFound = trimmed.BlocksFound
      /\ PointAdded.LastUpdate = time /\ PointAdded.Chart = chart
      /\ PointAdded.Unwritable = trimmed.Unwritable
    BY <1>4, <1>5, <1>6 DEF Statistics
<1>8. QED
    BY <1>1, <1>7 DEF chart, time, trimmed

\* What is written is what was there or the statistics of that moment.
LEMMA WrittenType ==
    ASSUME NEW s \in Statistics, file \in Statistics PROVE Written(s) \in {s, file}
    BY DEF Written

LEMMA NextType == TypeOK /\ [Next]_vars => TypeOK'
<1> SUFFICES ASSUME TypeOK, [Next]_vars PROVE TypeOK'
    OBVIOUS
<1>1. /\ stats \in Statistics /\ file \in Statistics /\ buffer \in Statistics
      /\ now \in Nat /\ announced \in Nat /\ counted \in Seq(Nat)
    BY DEF TypeOK
<1>2. due \subseteq Nat /\ spoilt \in BOOLEAN /\ boot \in {"unread", "read", "running"}
    BY DEF TypeOK
<1>3. ASSUME NEW s \in Statistics, Cleanup(s)
      PROVE  stats' \in Statistics /\ file' \in Statistics /\ spoilt' \in BOOLEAN
  <2>1. stats' \in Statistics
    BY <1>3, TrimFields DEF Cleanup
  <2>2. file' \in Statistics
    BY <1>1, <1>3, WrittenType DEF Cleanup
  <2>3. spoilt' \in BOOLEAN
    BY <1>3 DEF Cleanup
  <2>4. QED
    BY <2>1, <2>2, <2>3
<1>4. CASE CountShare
    BY <1>1, <1>2, <1>3, <1>4 DEF CountShare, TypeOK
<1>5. CASE AnnounceBlock
  <2>1. announced' \in Nat
    BY <1>1, <1>5 DEF AnnounceBlock
  <2>2. due' \subseteq Nat
    BY <1>1, <1>2, <1>5 DEF AnnounceBlock
  <2>3. QED
    BY <1>1, <1>2, <1>5, <2>1, <2>2 DEF AnnounceBlock, TypeOK
<1>6. ASSUME NEW b \in due, OnBlockFound(b) PROVE TypeOK'
  <2>1. b \in Nat
    BY <1>2
  <2>2. FoundBlock(b) \in Statistics /\ <<b>> \o counted \in Seq(Nat)
    <3>1. <<b>> \in Seq(Nat)
      BY <2>1
    <3>2. <<b>> \o counted \in Seq(Nat)
      BY <1>1, <3>1, ConcatProperties
    <3>3. QED
      BY <1>1, <2>1, <3>2, FoundBlockFields
  <2>3. due' \subseteq Nat /\ counted' \in Seq(Nat) /\ Cleanup(FoundBlock(b))
    BY <1>2, <1>6, <2>2 DEF OnBlockFound
  <2>4. QED
    BY <1>1, <1>2, <1>3, <1>6, <2>2, <2>3 DEF OnBlockFound, TypeOK
<1>7. CASE ReadFile
    BY <1>1, <1>2, <1>7 DEF ReadFile, TypeOK
<1>8. CASE LoadStats
    BY <1>1, <1>2, <1>8, NoFileFields DEF LoadStats, TypeOK
<1>9. CASE SkipAhead
  <2>1. now - 1 \in Nat
    <3>1. stats.LastUpdate \in Nat /\ MaxLag \in Nat \ {0}
      BY <1>1, StatsAssumption DEF Statistics
    <3>2. now - stats.LastUpdate > MaxLag
      BY <1>9 DEF SkipAhead
    <3>3. QED
      BY <1>1, <3>1, <3>2
  <2>2. stats' = [stats EXCEPT !.LastUpdate = now - 1]
    BY <1>9 DEF SkipAhead
  <2>3. stats' \in Statistics
    BY <1>1, <2>1, <2>2 DEF Statistics
  <2>4. QED
    BY <1>1, <1>2, <1>9, <2>3 DEF SkipAhead, TypeOK
<1>10. CASE UpdateStats
  <2>1. stats' = PointAdded /\ file' = Written(stats)
    BY <1>10 DEF UpdateStats, PointAdded
  <2>2. stats' \in Statistics /\ file' \in Statistics
    BY <1>1, <2>1, PointAddedFields, WrittenType
  <2>3. QED
    BY <1>1, <1>2, <1>10, <2>2 DEF UpdateStats, TypeOK
<1>11. CASE Poll
  <2>1. PICK known \in BOOLEAN : stats' = [stats EXCEPT !.HasDiff = known]
    BY <1>11 DEF Poll
  <2>2. stats' \in Statistics
    BY <1>1, <2>1 DEF Statistics
  <2>3. QED
    BY <1>1, <1>2, <1>11, <2>2 DEF Poll, TypeOK
<1>12. CASE Wait
  <2>1. now' \in Nat
    BY <1>1, <1>12 DEF Wait
  <2>2. QED
    BY <1>1, <1>2, <1>12, <2>1 DEF Wait, TypeOK
<1>13. CASE Crash \/ CrashWriting
  <2>1. stats' = NoStats /\ boot' = "unread" /\ buffer' = NoFile /\ due' = {}
        /\ UNCHANGED <<now, announced, counted>>
    BY <1>13 DEF Crash, CrashWriting, Restart
  <2>2. file' \in Statistics
    BY <1>1, <1>13, NoFileFields DEF Crash, CrashWriting
  <2>3. spoilt' \in BOOLEAN
    BY <1>2, <1>13 DEF Crash, CrashWriting
  <2>4. QED
    BY <1>1, <2>1, <2>2, <2>3, NoFileFields DEF TypeOK
<1>14. CASE UNCHANGED vars
    BY <1>14 DEF vars, TypeOK
<1>15. QED
    BY <1>4, <1>5, <1>6, <1>7, <1>8, <1>9, <1>10, <1>11, <1>12, <1>13, <1>14 DEF Next

LEMMA InitType == Init => TypeOK
<1> SUFFICES ASSUME Init PROVE TypeOK
    OBVIOUS
<1>1. now \in Nat
    BY StatsAssumption DEF Init, Start
<1>2. due \subseteq Nat /\ spoilt \in BOOLEAN /\ counted \in Seq(Nat)
  <2>1. << >> \in Seq(Nat)
    BY EmptySeq
  <2>2. QED
    BY <2>1 DEF Init
<1>3. QED
    BY <1>1, <1>2, NoFileFields DEF Init, TypeOK

-----------------------------------------------------------------------------
(* The chart.                                                              *)

\* The times of a chart ascend up to LastUpdate, which is not ahead of the clock.
ChartOK(s) ==
    /\ Len(s.Chart) <= NumChart
    /\ \A i \in 1 .. Len(s.Chart) : s.Chart[i] <= s.LastUpdate
    /\ \A i \in 1 .. Len(s.Chart) : \A j \in 1 .. Len(s.Chart) : i < j => s.Chart[i] < s.Chart[j]
    /\ s.LastUpdate <= now

\* The same for what a restarted master goes on from.
ChartsOK == ChartOK(stats) /\ ChartOK(file) /\ ChartOK(buffer)

LEMMA EmptyChart ==
    ASSUME now \in Nat PROVE ChartOK(NoStats) /\ ChartOK(NoFile)
<1>1. Len(<< >>) = 0 /\ 0 <= NumChart
    BY StatsAssumption
<1>2. QED
    BY <1>1, NoFileFields DEF ChartOK

\* The point that UpdateStats adds is later than all the others.
LEMMA PointAscends ==
    ASSUME stats \in Statistics, now \in Nat, ChartOK(stats), stats.LastUpdate + 1 <= now
    PROVE  ChartOK(PointAdded)
<1> DEFINE old == stats.Chart
           time == stats.LastUpdate + 1
           longer == Append(old, time)
           new == LastOf(longer, NumChart)
<1>1. old \in Seq(Nat) /\ Len(old) \in Nat /\ time \in Nat /\ NumChart \in Nat \ {0} /\ time <= now
    BY StatsAssumption DEF Statistics
<1>2. \A i \in 1 .. Len(old) : old[i] \in Nat
    BY <1>1
<1>3. /\ \A i \in 1 .. Len(old) : old[i] < time
      /\ \A i \in 1 .. Len(old) : \A j \in 1 .. Len(old) : i < j => old[i] < old[j]
  <2>1. stats.LastUpdate \in Nat
    BY DEF Statistics
  <2>2. QED
    BY <1>2, <2>1 DEF ChartOK
<1> HIDE DEF old, time
<1>4. /\ longer \in Seq(Nat) /\ Len(longer) = Len(old) + 1 /\ longer[Len(old) + 1] = time
      /\ \A i \in 1 .. Len(old) : longer[i] = old[i]
    BY <1>1, AppendProperties
<1> HIDE DEF longer
<1>5. \A i \in 1 .. Len(longer) : longer[i] <= time
  <2> TAKE i \in 1 .. Len(longer)
  <2>1. CASE i \in 1 .. Len(old)
    <3>1. longer[i] = old[i]
      BY <1>4, <2>1
    <3>2. old[i] < time /\ old[i] \in Nat
      BY <1>2, <1>3, <2>1
    <3>3. QED
      BY <1>1, <3>1, <3>2
  <2>2. CASE i = Len(old) + 1
    BY <1>1, <1>4, <2>2
  <2>3. QED
    BY <1>1, <1>4, <2>1, <2>2
<1>6. \A i \in 1 .. Len(longer) : \A j \in 1 .. Len(longer) : i < j => longer[i] < longer[j]
  <2> SUFFICES ASSUME NEW i \in 1 .. Len(longer), NEW j \in 1 .. Len(longer), i < j
               PROVE  longer[i] < longer[j]
      OBVIOUS
  <2>1. i \in 1 .. Len(old)
    BY <1>1, <1>4
  <2>2. CASE j \in 1 .. Len(old)
    BY <1>3, <1>4, <2>1, <2>2
  <2>3. CASE j = Len(old) + 1
    <3>1. longer[j] = time /\ longer[i] = old[i]
      BY <1>4, <2>1, <2>3
    <3>2. old[i] < time
      BY <1>3, <2>1
    <3>3. QED
      BY <3>1, <3>2
  <2>4. j \in 1 .. Len(old) \/ j = Len(old) + 1
    <3>1. Len(longer) = Len(old) + 1 /\ Len(old) \in Nat
      BY <1>1, <1>4
    <3>2. j \in 1 .. Len(longer)
      OBVIOUS
    <3>3. QED
      BY ONLY <3>1, <3>2
  <2>5. QED
    BY <2>2, <2>3, <2>4
<1>7. new \in Seq(Nat) /\ Len(new) \in Nat /\ Len(new) <= NumChart
    BY <1>1, <1>4, LastOfFields
<1>8. PICK k \in Nat :
          \A i \in 1 .. Len(new) : i + k \in 1 .. Len(longer) /\ new[i] = longer[i + k]
    BY <1>1, <1>4, LastOfFields
<1> HIDE DEF new
<1>9. \A i \in 1 .. Len(new) : new[i] <= time
    BY <1>5, <1>8
<1>10. \A i \in 1 .. Len(new) : \A j \in 1 .. Len(new) : i < j => new[i] < new[j]
  <2> SUFFICES ASSUME NEW i \in 1 .. Len(new), NEW j \in 1 .. Len(new), i < j
               PROVE  new[i] < new[j]
      OBVIOUS
  <2>1. i + k < j + k
    BY <1>7
  <2>2. QED
    BY <1>6, <1>8, <2>1
<1>11. PointAdded.Chart = new /\ PointAdded.LastUpdate = time
    BY PointAddedFields DEF new, longer, old, time
<1>12. QED
    BY <1>1, <1>7, <1>9, <1>10, <1>11 DEF ChartOK

LEMMA ChartsNext == TypeOK /\ ChartsOK /\ [Next]_vars => ChartsOK'
<1> SUFFICES ASSUME TypeOK, ChartsOK, [Next]_vars PROVE ChartsOK'
    OBVIOUS
<1>1. /\ stats \in Statistics /\ file \in Statistics /\ buffer \in Statistics
      /\ now \in Nat /\ announced \in Nat
    BY DEF TypeOK
<1>2. ChartOK(stats) /\ ChartOK(file) /\ ChartOK(buffer) /\ ChartOK(NoStats) /\ ChartOK(NoFile)
    BY <1>1, EmptyChart DEF ChartsOK
\* Only the chart, its last time and the clock matter.
<1>3. ASSUME NEW s, NEW r, ChartOK(s), r.Chart = s.Chart, r.LastUpdate = s.LastUpdate
      PROVE  ChartOK(r)
    BY <1>3 DEF ChartOK
<1>4. ASSUME now' = now, ChartOK(stats'), ChartOK(file'), ChartOK(buffer') PROVE ChartsOK'
    BY <1>4 DEF ChartsOK, ChartOK
<1>5. ASSUME NEW s \in Statistics, ChartOK(s), Cleanup(s), now' = now, buffer' = buffer
      PROVE  ChartsOK'
  <2>1. ChartOK(Trim(s))
    BY <1>3, <1>5, TrimFields
  <2>2. ChartOK(Written(s))
    BY <1>1, <1>2, <1>5, WrittenType
  <2>3. QED
    BY <1>2, <1>4, <1>5, <2>1, <2>2 DEF Cleanup
<1>6. CASE CountShare
    BY <1>1, <1>2, <1>5, <1>6 DEF CountShare
<1>7. ASSUME NEW b \in due, OnBlockFound(b) PROVE ChartsOK'
  <2>1. b \in Nat
    BY DEF TypeOK
  <2>2. FoundBlock(b) \in Statistics /\ ChartOK(FoundBlock(b))
    BY <1>1, <1>2, <1>3, <2>1, FoundBlockFields
  <2>3. QED
    BY <1>5, <1>7, <2>2 DEF OnBlockFound
<1>8. CASE AnnounceBlock \/ UNCHANGED vars
    BY <1>2, <1>4, <1>8 DEF AnnounceBlock, vars
<1>9. CASE ReadFile \/ LoadStats
    BY <1>2, <1>4, <1>9 DEF ReadFile, LoadStats
<1>10. CASE SkipAhead
  <2>1. /\ stats' = [stats EXCEPT !.LastUpdate = now - 1]
        /\ now - stats.LastUpdate > MaxLag /\ UNCHANGED <<file, buffer, now>>
    BY <1>10 DEF SkipAhead
  <2>2. stats'.Chart = stats.Chart /\ stats'.LastUpdate = now - 1 /\ stats.LastUpdate \in Nat
        /\ stats.Chart \in Seq(Nat)
    BY <1>1, <2>1 DEF Statistics
  <2>3. stats.LastUpdate <= now - 1 /\ now - 1 <= now /\ now - 1 \in Int
    BY <1>1, <2>1, <2>2, StatsAssumption, SMTT(30)
  <2>4. \A i \in 1 .. Len(stats.Chart) : stats.Chart[i] <= now - 1
    <3>1. \A i \in 1 .. Len(stats.Chart) : stats.Chart[i] \in Nat /\ stats.Chart[i] <= stats.LastUpdate
      BY <1>2, <2>2, SMTT(30) DEF ChartOK
    <3>2. QED
      BY <2>2, <2>3, <3>1
  <2>5. ChartOK(stats')
    BY <1>2, <2>2, <2>3, <2>4 DEF ChartOK
  <2>6. QED
    BY <1>2, <1>4, <2>1, <2>5
<1>11. CASE UpdateStats
  <2>1. /\ stats' = PointAdded /\ file' = Written(stats)
        /\ now - stats.LastUpdate \in 1 .. MaxLag /\ buffer' = buffer /\ now' = now
    BY <1>11 DEF UpdateStats, PointAdded
  <2>2. stats.LastUpdate \in Nat
    BY <1>1 DEF Statistics
  <2>3. stats.LastUpdate + 1 <= now
    BY <1>1, <2>1, <2>2
  <2>4. ChartOK(stats')
    BY <1>1, <1>2, <2>1, <2>3, PointAscends
  <2>5. ChartOK(file')
    BY <1>1, <1>2, <2>1, WrittenType
  <2>6. QED
    BY <1>2, <1>4, <2>1, <2>4, <2>5
<1>12. CASE Poll
  <2>1. PICK known \in BOOLEAN : stats' = [stats EXCEPT !.HasDiff = known]
    BY <1>12 DEF Poll
  <2>2. stats'.Chart = stats.Chart /\ stats'.LastUpdate = stats.LastUpdate
    BY <1>1, <2>1 DEF Statistics
  <2>3. ChartOK(stats')
    BY <1>2, <1>3, <2>2
  <2>4. QED
    BY <1>2, <1>4, <1>12, <2>3 DEF Poll
<1>13. CASE Wait
  <2>1. now' = now + 1 /\ UNCHANGED <<stats, file, buffer>>
    BY <1>13 DEF Wait
  <2>2. ASSUME NEW s \in Statistics, ChartOK(s)
        PROVE  s.LastUpdate <= now + 1
    <3>1. s.LastUpdate \in Nat /\ s.LastUpdate <= now
      BY <2>2 DEF ChartOK, Statistics
    <3>2. QED
      BY <1>1, <3>1
  <2>3. QED
    BY <1>1, <1>2, <2>1, <2>2 DEF ChartsOK, ChartOK
<1>14. CASE Crash \/ CrashWriting
  <2>1. stats' = NoStats /\ buffer' = NoFile /\ now' = now /\ file' \in {file, NoFile}
    BY <1>14 DEF Crash, CrashWriting, Restart
  <2>2. QED
    BY <1>2, <1>4, <2>1
<1>15. QED
    BY <1>6, <1>7, <1>8, <1>9, <1>10, <1>11, <1>12, <1>13, <1>14 DEF Next

LEMMA TypeAndChartsHold == Spec => [](TypeOK /\ ChartsOK)
<1>1. Init => ChartsOK
    BY InitType, EmptyChart DEF TypeOK, Init, ChartsOK
<1>2. QED
    BY <1>1, InitType, NextType, ChartsNext, PTL DEF Spec

\* The chart ascends and ends in the past, from whatever file a restarted master
\* goes on, for every length of the chart and every absence.
THEOREM ChartAscendsCorrect == Spec => []ChartAscends
<1>1. TypeOK /\ ChartsOK => ChartAscends
  <2> SUFFICES ASSUME TypeOK, ChartsOK PROVE ChartAscends
      OBVIOUS
  <2>1. ChartOK(stats) /\ Len(stats.Chart) \in Nat
    BY DEF ChartsOK, TypeOK, Statistics
  <2>2. ASSUME NEW i \in 1 .. Len(stats.Chart), i > 1 PROVE stats.Chart[i - 1] < stats.Chart[i]
    <3>1. i - 1 \in 1 .. Len(stats.Chart) /\ i - 1 < i
      BY <2>1, <2>2
    <3>2. QED
      BY <2>1, <3>1 DEF ChartOK
  <2>3. QED
    BY <2>1, <2>2 DEF ChartOK, ChartAscends
<1>2. QED
    BY <1>1, TypeAndChartsHold, PTL

-----------------------------------------------------------------------------
(* The found blocks.                                                       *)

\* s has counted the blocks of q, lists them in the same order, and none is
\* missing until it may have been trimmed.
BlocksAre(s, q) ==
    LET n == Len(s.BlocksFound) IN
    /\ s.NumFound = Len(q)
    /\ n <= Len(q) /\ (n = Len(q) \/ n >= MaxRecent - 1)
    /\ \A i \in 1 .. n : s.BlocksFound[i] = q[i]

\* What stats.json says is right at every step, and Stats says the same once it is
\* loaded; until then it is empty, and what is about to be loaded is the file.
FoundInv ==
    /\ BlocksAre(file, counted)
    /\ file.Unwritable => file.NumFound = 0 /\ file.BlocksFound = << >>
    /\ stats.Unwritable = FALSE
    /\ boot = "read" => buffer = file
    /\ boot = "running" => BlocksAre(stats, counted)
    /\ boot # "running" => stats.BlocksFound = << >> /\ stats.NumFound = 0

\* Only the blocks matter.
LEMMA BlocksKept ==
    ASSUME NEW s, NEW r, NEW q, r.NumFound = s.NumFound, r.BlocksFound = s.BlocksFound,
           BlocksAre(s, q)
    PROVE  BlocksAre(r, q)
    BY DEF BlocksAre

\* Trimming leaves the list right.
LEMMA TrimmedBlocks ==
    ASSUME NEW s \in Statistics, NEW q \in Seq(Nat), BlocksAre(s, q)
    PROVE  BlocksAre(Trim(s), q)
<1> DEFINE old == s.BlocksFound
           new == Trim(s).BlocksFound
<1>1. /\ Trim(s).NumFound = s.NumFound
      /\ Len(new) \in Nat /\ Len(new) <= Len(old)
      /\ Len(new) = Len(old) \/ Len(new) >= MaxRecent - 1
      /\ \A i \in 1 .. Len(new) : new[i] = old[i]
    BY TrimFields
<1>2. Len(q) \in Nat /\ Len(old) \in Nat /\ MaxRecent \in Nat
    BY StatsAssumption DEF Statistics
<1>3. /\ s.NumFound = Len(q) /\ Len(old) <= Len(q)
      /\ Len(old) = Len(q) \/ Len(old) >= MaxRecent - 1
      /\ \A i \in 1 .. Len(old) : old[i] = q[i]
    BY DEF BlocksAre
<1> HIDE DEF old, new
<1>4. Len(new) <= Len(q) /\ (Len(new) = Len(q) \/ Len(new) >= MaxRecent - 1)
    BY <1>1, <1>2, <1>3
<1>5. \A i \in 1 .. Len(new) : i \in 1 .. Len(old)
    BY <1>1, <1>2
<1>6. QED
    BY <1>1, <1>3, <1>4, <1>5 DEF BlocksAre, new

\* A block that is put in front of the list and of the history.
LEMMA FoundBlocks ==
    ASSUME stats \in Statistics, NEW b \in Nat, counted \in Seq(Nat), BlocksAre(stats, counted)
    PROVE  BlocksAre(FoundBlock(b), <<b>> \o counted)
<1> DEFINE old == stats.BlocksFound
           new == FoundBlock(b).BlocksFound
           more == <<b>> \o counted
           n == Len(old)
           m == Len(counted)
<1>1. old \in Seq(Nat) /\ n \in Nat /\ m \in Nat /\ MaxRecent \in Nat
    BY StatsAssumption DEF Statistics
<1>2. FoundBlock(b).NumFound = stats.NumFound + 1 /\ new = <<b>> \o old
    BY FoundBlockFields
<1>3. /\ stats.NumFound = m /\ n <= m /\ (n = m \/ n >= MaxRecent - 1)
      /\ \A i \in 1 .. n : old[i] = counted[i]
    BY DEF BlocksAre
<1>4. <<b>> \in Seq(Nat) /\ Len(<<b>>) = 1 /\ <<b>>[1] = b
    OBVIOUS
<1>5. /\ Len(new) = 1 + n
      /\ \A i \in 1 .. 1 + n : new[i] = IF i <= 1 THEN <<b>>[i] ELSE old[i - 1]
    BY <1>1, <1>2, <1>4, ConcatProperties
<1>6. /\ Len(more) = 1 + m
      /\ \A i \in 1 .. 1 + m : more[i] = IF i <= 1 THEN <<b>>[i] ELSE counted[i - 1]
    BY <1>1, <1>4, ConcatProperties
<1> HIDE DEF old, new, more, n, m
<1>7. \A i \in 1 .. 1 + n : new[i] = more[i]
  <2> TAKE i \in 1 .. 1 + n
  <2>1. i \in 1 .. 1 + m
    BY <1>1, <1>3
  <2>2. CASE i <= 1
    BY <1>5, <1>6, <2>1, <2>2
  <2>3. CASE ~(i <= 1)
    <3>1. i - 1 \in 1 .. n
      BY <1>1, <2>3
    <3>2. old[i - 1] = counted[i - 1]
      BY <1>3, <3>1
    <3>3. QED
      BY <1>5, <1>6, <2>1, <2>3, <3>2
  <2>4. QED
    BY <2>2, <2>3
<1>8. /\ FoundBlock(b).NumFound = Len(more)
      /\ Len(new) <= Len(more) /\ (Len(new) = Len(more) \/ Len(new) >= MaxRecent - 1)
    BY <1>1, <1>2, <1>3, <1>5, <1>6
<1>9. QED
    BY <1>5, <1>7, <1>8 DEF BlocksAre, new, more

LEMMA FoundNext ==
    TypeOK /\ TypeOK' /\ (~spoilt => FoundInv) /\ [Next]_vars => (~spoilt' => FoundInv')
<1> SUFFICES ASSUME TypeOK, TypeOK', ~spoilt => FoundInv, [Next]_vars, ~spoilt' PROVE FoundInv'
    OBVIOUS
<1>1. /\ stats \in Statistics /\ file \in Statistics /\ buffer \in Statistics
      /\ due \subseteq Nat /\ counted \in Seq(Nat)
    BY DEF TypeOK
<1>2. counted' \in Seq(Nat)
    BY DEF TypeOK
<1>3. ~spoilt
  <2>1. CASE CountShare \/ \E b \in due : OnBlockFound(b)
    BY <2>1 DEF CountShare, OnBlockFound, Cleanup
  <2>2. CASE AnnounceBlock \/ ReadFile \/ LoadStats \/ SkipAhead \/ UpdateStats \/ Poll \/ Wait
    BY <2>2 DEF AnnounceBlock, ReadFile, LoadStats, SkipAhead, UpdateStats, Poll, Wait
  <2>3. CASE Crash \/ CrashWriting
    BY <2>3 DEF Crash, CrashWriting
  <2>4. CASE UNCHANGED vars
    BY <2>4 DEF vars
  <2>5. QED
    BY <2>1, <2>2, <2>3, <2>4 DEF Next
<1>4. FoundInv
    BY <1>3
<1>5. /\ BlocksAre(file, counted)
      /\ (file.Unwritable => file.NumFound = 0 /\ file.BlocksFound = << >>)
      /\ stats.Unwritable = FALSE
      /\ (boot = "read" => buffer = file)
      /\ (boot = "running" => BlocksAre(stats, counted))
      /\ (boot # "running" => stats.BlocksFound = << >> /\ stats.NumFound = 0)
    BY <1>4 DEF FoundInv
\* Stats is saved and trimmed.
<1>6. ASSUME NEW s \in Statistics, NEW r, boot = "running", s.Unwritable = FALSE,
             BlocksAre(s, counted'), file' = s,
             r.NumFound = s.NumFound, r.BlocksFound = Trim(s).BlocksFound,
             r.Unwritable = FALSE, stats' = r, boot' = boot
      PROVE  FoundInv'
  <2>1. BlocksAre(Trim(s), counted')
    BY <1>2, <1>6, TrimmedBlocks
  <2>2. Trim(s).NumFound = s.NumFound
    BY <1>6, TrimFields
  <2>3. BlocksAre(stats', counted')
    BY <1>6, <2>1, <2>2, BlocksKept
  <2>4. QED
    BY <1>6, <2>3 DEF FoundInv
\* What the proof is about is not touched.
<1>7. ASSUME stats'.NumFound = stats.NumFound, stats'.BlocksFound = stats.BlocksFound,
             stats'.Unwritable = stats.Unwritable, UNCHANGED <<file, boot, buffer, counted>>
      PROVE  FoundInv'
  <2>1. boot = "running" => BlocksAre(stats', counted)
    BY <1>5, <1>7, BlocksKept
  <2>2. QED
    BY <1>5, <1>7, <2>1 DEF FoundInv
<1>8. CASE CountShare
  <2>1. boot = "running" /\ stats.Unwritable = FALSE /\ counted' = counted /\ boot' = boot
    BY <1>5, <1>8 DEF CountShare, Cleanup
  <2>2. stats' = Trim(stats) /\ file' = stats
    BY <1>8, <2>1 DEF CountShare, Cleanup, Written
  <2>3. Trim(stats).NumFound = stats.NumFound /\ Trim(stats).Unwritable = FALSE
    BY <1>1, <2>1, TrimFields
  <2>4. QED
    BY <1>1, <1>5, <1>6, <2>1, <2>2, <2>3
<1>9. CASE AnnounceBlock
    BY <1>7, <1>9 DEF AnnounceBlock
<1>10. ASSUME NEW b \in due, OnBlockFound(b) PROVE FoundInv'
  <2>1. counted' = <<b>> \o counted /\ Cleanup(FoundBlock(b)) /\ boot' = boot /\ b \in Nat
    BY <1>1, <1>10 DEF OnBlockFound
  <2>2. boot = "running" /\ ~FoundBlock(b).Unwritable
    BY <2>1 DEF Cleanup
  <2>3. FoundBlock(b) \in Statistics
    BY <1>1, <2>1, FoundBlockFields
  <2>4. FoundBlock(b).Unwritable = FALSE
    BY <2>2, <2>3 DEF Statistics
  <2>5. BlocksAre(FoundBlock(b), counted')
    BY <1>1, <1>5, <2>1, <2>2, FoundBlocks
  <2>6. stats' = Trim(FoundBlock(b)) /\ file' = FoundBlock(b)
    BY <2>1, <2>4 DEF Cleanup, Written
  <2>7. Trim(FoundBlock(b)).NumFound = FoundBlock(b).NumFound /\ Trim(FoundBlock(b)).Unwritable = FALSE
    BY <2>3, <2>4, TrimFields
  <2>8. QED
    BY <1>6, <2>1, <2>2, <2>3, <2>4, <2>5, <2>6, <2>7
<1>11. CASE ReadFile
  <2>1. boot = "unread" /\ boot' = "read" /\ buffer' = file /\ UNCHANGED <<stats, file, counted>>
    BY <1>11 DEF ReadFile
  <2>2. QED
    BY <1>5, <2>1 DEF FoundInv
<1>12. CASE LoadStats
  <2>1. boot = "read" /\ boot' = "running" /\ UNCHANGED <<file, counted>>
        /\ stats' = IF file.Unwritable THEN stats ELSE file
    BY <1>5, <1>12 DEF LoadStats
  <2>2. BlocksAre(stats', counted)
    <3>1. CASE file.Unwritable
      <4>1. stats'.NumFound = file.NumFound /\ stats'.BlocksFound = file.BlocksFound
        BY <1>5, <2>1, <3>1
      <4>2. QED
        BY <1>5, <4>1, BlocksKept
    <3>2. CASE ~file.Unwritable
      BY <1>5, <2>1, <3>2
    <3>3. QED
      BY <3>1, <3>2
  <2>3. stats'.Unwritable = FALSE
    BY <1>1, <1>5, <2>1 DEF Statistics
  <2>4. QED
    BY <1>5, <2>1, <2>2, <2>3 DEF FoundInv
<1>13. CASE SkipAhead
  <2>1. stats' = [stats EXCEPT !.LastUpdate = now - 1] /\ UNCHANGED <<file, boot, buffer, counted>>
    BY <1>13 DEF SkipAhead
  <2>2. stats'.NumFound = stats.NumFound /\ stats'.BlocksFound = stats.BlocksFound
        /\ stats'.Unwritable = stats.Unwritable
    BY <1>1, <2>1 DEF Statistics
  <2>3. QED
    BY <1>7, <2>1, <2>2
<1>14. CASE UpdateStats
  <2>1. boot = "running" /\ stats' = PointAdded /\ file' = stats /\ UNCHANGED <<boot, counted>>
    BY <1>5, <1>14 DEF UpdateStats, PointAdded, Written
  <2>2. PointAdded.NumFound = stats.NumFound /\ PointAdded.BlocksFound = Trim(stats).BlocksFound
        /\ PointAdded.Unwritable = FALSE
    BY <1>1, <1>5, PointAddedFields
  <2>3. QED
    BY <1>1, <1>5, <1>6, <2>1, <2>2
<1>15. CASE Poll
  <2>1. UNCHANGED <<file, boot, buffer, counted>>
    BY <1>15 DEF Poll
  <2>2. PICK known \in BOOLEAN : stats' = [stats EXCEPT !.HasDiff = known]
    BY <1>15 DEF Poll
  <2>3. stats'.NumFound = stats.NumFound /\ stats'.BlocksFound = stats.BlocksFound
        /\ stats'.Unwritable = stats.Unwritable
    BY <1>1, <2>2 DEF Statistics
  <2>4. QED
    BY <1>7, <2>1, <2>3
<1>16. CASE Wait \/ UNCHANGED vars
  <2>1. UNCHANGED <<stats, file, boot, buffer, counted>>
    BY <1>16 DEF Wait, vars
  <2>2. QED
    BY <1>7, <2>1
<1>17. CASE Crash
  <2>1. stats' = NoStats /\ boot' = "unread" /\ UNCHANGED <<file, counted>>
    BY <1>17 DEF Crash, Restart
  <2>2. QED
    BY <1>5, <2>1, NoFileFields DEF FoundInv
<1>18. CASE CrashWriting
    BY <1>18 DEF CrashWriting
<1>19. QED
    BY <1>8, <1>9, <1>10, <1>11, <1>12, <1>13, <1>14, <1>15, <1>16, <1>17, <1>18 DEF Next

\* Every block that OnBlockFound was called for is counted once and listed in the
\* order of the calls, for every number of goroutines that overlap, however often
\* and whenever the master is killed with them, unless the file was spoilt.
THEOREM FoundKeptCorrect == Spec => []FoundKept
<1>1. Init => (~spoilt => FoundInv)
  <2> SUFFICES ASSUME Init PROVE FoundInv
      OBVIOUS
  <2>1. Len(<< >>) = 0
    OBVIOUS
  <2>2. file = NoFile /\ stats = NoStats /\ counted = << >> /\ boot = "unread"
    BY DEF Init
  <2>3. BlocksAre(file, counted)
    BY <2>1, <2>2, NoFileFields DEF BlocksAre
  <2>4. QED
    BY <2>2, <2>3, NoFileFields DEF FoundInv
<1>2. TypeOK /\ (~spoilt => FoundInv) => FoundKept
  <2> DEFINE kept == Len(stats.BlocksFound)
  <2> SUFFICES ASSUME TypeOK, FoundInv, boot = "running"
               PROVE  /\ stats.NumFound = Len(counted)
                      /\ kept = Len(counted) \/ kept \in MaxRecent - 1 .. Len(counted)
                      /\ stats.BlocksFound = SubSeq(counted, 1, kept)
      BY DEF FoundKept
  <2>1. /\ stats.NumFound = Len(counted) /\ kept <= Len(counted)
        /\ kept = Len(counted) \/ kept >= MaxRecent - 1
        /\ \A i \in 1 .. kept : stats.BlocksFound[i] = counted[i]
    BY DEF FoundInv, BlocksAre
  <2>2. stats.BlocksFound \in Seq(Nat) /\ counted \in Seq(Nat) /\ kept \in Nat /\ Len(counted) \in Nat
        /\ MaxRecent \in Nat
    BY StatsAssumption DEF TypeOK, Statistics
  <2> HIDE DEF kept
  <2>3. kept = Len(counted) \/ kept \in MaxRecent - 1 .. Len(counted)
    BY <2>1, <2>2
  <2>4. /\ SubSeq(counted, 1, kept) \in Seq(Nat) /\ Len(SubSeq(counted, 1, kept)) = kept
        /\ \A i \in 1 .. kept : SubSeq(counted, 1, kept)[i] = counted[i]
    BY <2>1, <2>2
  <2>5. stats.BlocksFound = SubSeq(counted, 1, kept)
    BY <2>1, <2>2, <2>4, SeqEqual DEF kept
  <2>6. QED
    BY <2>1, <2>3, <2>5
<1>3. TypeOK /\ (~spoilt => FoundInv) /\ TypeOK' /\ [Next]_vars => (~spoilt => FoundInv)'
    BY FoundNext
<1>4. QED
    BY <1>1, <1>2, <1>3, InitType, NextType, PTL DEF Spec

-----------------------------------------------------------------------------
(* The shares that a reward is split over.                                 *)

\* A quotient lies between the bounds that its dividend was compared with.
LEMMA QuotientBounds ==
    ASSUME NEW a \in Nat, NEW p \in Nat \ {0}, NEW c \in Nat
    PROVE  /\ a \div p \in Nat
           /\ c * p <= a => c <= a \div p
           /\ a <= c * p => a \div p <= c
    OBVIOUS

\* The window is two block times at least, unless both rates are 0, and at most an
\* hour, unless NetHashrate is 0.
LEMMA WindowLength ==
    ASSUME Window!WindowConstants, rates \in [net : Nat, pool : Nat], NEW w \in Window!Windows
    PROVE  /\ w \in Nat
           /\ w >= 2 * BlockTime \/ (w = 0 /\ rates.net = 0 /\ rates.pool = 0)
           /\ rates.net # 0 => w <= OneHour
<1>1. /\ BlockTime \in Nat \ {0} /\ OneHour \in Nat /\ TwoDays \in Nat
      /\ 2 * BlockTime <= OneHour /\ 2 * BlockTime <= TwoDays
      /\ rates.net \in Nat /\ rates.pool \in Nat
    BY DEF Window!WindowConstants
<1> DEFINE interval == rates.net * BlockTime
           low == 2 * BlockTime
<1>2. interval \in Nat /\ low \in Nat
    BY <1>1
<1>3. CASE rates.net = 0
  <2>1. CASE rates.pool = 0
    <3>1. w \in NaNWindows
      BY <1>3, <2>1 DEF Window!Windows
    <3>2. QED
      BY <1>3, <2>1, <3>1 DEF Window!WindowConstants
  <2>2. CASE rates.pool # 0
    <3>1. w = TwoDays
      BY <1>3, <2>2 DEF Window!Windows
    <3>2. QED
      BY <1>1, <1>3, <3>1
  <2>3. QED
    BY <2>1, <2>2
<1>4. CASE rates.net # 0
  <2>1. w \in IF interval > OneHour * rates.pool THEN {OneHour}
              ELSE IF interval < low * rates.pool THEN {low}
              ELSE {interval \div rates.pool}
    BY <1>4 DEF Window!Windows
  <2>2. interval > 0
    BY <1>1, <1>4
  <2> HIDE DEF interval
  <2>3. low = 2 * BlockTime /\ low <= OneHour
    BY <1>1
  <2> HIDE DEF low
  <2>4. CASE interval > OneHour * rates.pool
    BY <1>1, <1>4, <2>1, <2>3, <2>4
  <2>5. CASE interval <= OneHour * rates.pool /\ interval < low * rates.pool
    <3>1. ~(interval > OneHour * rates.pool)
      <4>1. OneHour * rates.pool \in Nat
        BY <1>1
      <4>2. QED
        BY <1>2, <2>5, <4>1
    <3>2. w = low
      BY <2>1, <2>5, <3>1
    <3>3. QED
      BY <1>1, <1>2, <1>4, <2>3, <3>2
  <2>6. CASE interval <= OneHour * rates.pool /\ interval >= low * rates.pool
    <3>1. OneHour * rates.pool \in Nat /\ low * rates.pool \in Nat
      BY <1>1, <1>2
    <3>2. rates.pool # 0
      <4>1. rates.pool = 0 => OneHour * rates.pool = 0
        BY <1>1
      <4>2. QED
        BY <1>2, <2>2, <2>6, <4>1
    <3>3. w = interval \div rates.pool
      <4>1. ~(interval > OneHour * rates.pool) /\ ~(interval < low * rates.pool)
        BY <1>2, <2>6, <3>1
      <4>2. QED
        BY <2>1, <4>1
    <3>4. w \in Nat /\ low <= w /\ w <= OneHour
      BY <1>1, <1>2, <2>6, <3>2, <3>3, QuotientBounds
    <3>5. QED
      BY <1>1, <1>2, <1>4, <2>3, <3>4
  <2>7. QED
    <3>1. OneHour * rates.pool \in Nat /\ low * rates.pool \in Nat
      BY <1>1, <1>2
    <3>2. \/ interval > OneHour * rates.pool
          \/ interval <= OneHour * rates.pool /\ interval < low * rates.pool
          \/ interval <= OneHour * rates.pool /\ interval >= low * rates.pool
      BY <1>2, <3>1
    <3>3. QED
      BY <2>4, <2>5, <2>6, <3>2
<1>5. QED
    BY <1>3, <1>4

LEMMA SmallestOf ==
    ASSUME NEW S \in SUBSET Nat, IsFiniteSet(S), S # {}
    PROVE  \E m \in S : \A y \in S : m <= y
<1> DEFINE Good == {T \in SUBSET S : T # {} => \E m \in T : \A y \in T : m <= y}
<1>1. ASSUME NEW T \in SUBSET S, \A U \in SUBSET T : U # T => U \in Good
      PROVE  T \in Good
  <2> SUFFICES ASSUME T # {} PROVE \E m \in T : \A y \in T : m <= y
      OBVIOUS
  <2>1. PICK x \in T : TRUE
    OBVIOUS
  <2>2. T \ {x} \in Good
    BY <1>1, <2>1
  <2>3. x \in Nat
    BY <2>1
  <2>4. CASE T \ {x} = {}
    <3>1. \A y \in T : y = x
      BY <2>4
    <3>2. QED
      BY <2>1, <2>3, <3>1
  <2>5. CASE T \ {x} # {}
    <3>1. PICK m \in T \ {x} : \A y \in T \ {x} : m <= y
      BY <2>2, <2>5
    <3>2. m \in Nat /\ m \in T
      OBVIOUS
    <3>3. CASE x <= m
      <4>1. \A y \in T : x <= y
        <5>1. \A y \in T : y \in Nat /\ (y = x \/ m <= y)
          BY <3>1
        <5>2. QED
          BY <2>3, <3>2, <3>3, <5>1
      <4>2. QED
        BY <2>1, <4>1
    <3>4. CASE m <= x
      <4>1. \A y \in T : m <= y
        BY <3>1, <3>4
      <4>2. QED
        BY <3>2, <4>1
    <3>5. QED
      BY <2>3, <3>2, <3>3, <3>4
  <2>6. QED
    BY <2>4, <2>5
<1>2. \A T \in SUBSET S : T \in Good
  <2> HIDE DEF Good
  <2> QED BY <1>1, FiniteInduction
<1>3. S \in Good
    BY <1>2
<1>4. QED
    BY <1>3

\* Types of the window: shares are numbered as they are stored.
WindowType ==
    /\ clock \in Nat /\ rates \in [net : Nat, pool : Nat]
    /\ \E n \in Nat : n <= MaxShares /\ DOMAIN born = 1 .. n
    /\ \A s \in DOMAIN born : born[s] \in Nat
    /\ bucket \subseteq DOMAIN born
    /\ walk \in [phase : {"idle", "cleanup", "scan"}, began : Nat, next : Nat,
                 deleted : SUBSET Nat, counted : SUBSET Nat]
    /\ walk.deleted \subseteq DOMAIN born /\ walk.counted \subseteq DOMAIN born
    /\ excused \in [lost : SUBSET Nat, wide : SUBSET Nat, skipped : SUBSET Nat]

\* The key that follows: no key is left out.
LEMMA KeyAfterFacts ==
    ASSUME Window!WindowConstants, WindowType, NEW k \in Nat
    PROVE  /\ Window!KeyAfter(k) \in Nat
           /\ Window!KeyAfter(k) \in bucket \/ \A s \in bucket : s < Window!KeyAfter(k)
           /\ \A s \in bucket : s < Window!KeyAfter(k) => s <= k
<1> DEFINE later == {s \in bucket : s > k}
<1>1. PICK n \in Nat : n <= MaxShares /\ DOMAIN born = 1 .. n
    BY DEF WindowType
<1>2. bucket \subseteq 1 .. n /\ bucket \subseteq Nat /\ MaxShares \in Nat
  <2>1. bucket \subseteq 1 .. n
    BY <1>1 DEF WindowType
  <2>2. 1 .. n \subseteq Nat
    OBVIOUS
  <2>3. QED
    BY <2>1, <2>2 DEF Window!WindowConstants
<1>3. CASE later = {}
  <2>1. Window!KeyAfter(k) = MaxShares + 1
    BY <1>3 DEF Window!KeyAfter
  <2>2. \A s \in bucket : s \in Nat /\ s <= MaxShares /\ ~(s > k)
    BY <1>1, <1>2, <1>3
  <2>3. QED
    BY <1>2, <2>1, <2>2
<1>4. CASE later # {}
  <2>1. IsFiniteSet(1 .. n)
    BY FS_Interval
  <2>2. IsFiniteSet(later) /\ later \in SUBSET Nat
    <3>1. later \subseteq 1 .. n /\ later \subseteq Nat
      BY <1>2
    <3> HIDE DEF later
    <3>2. QED
      BY <2>1, <3>1, FS_Subset
  <2>3. \E m \in later : \A y \in later : m <= y
    <3> HIDE DEF later
    <3> QED BY <1>4, <2>2, SmallestOf
  <2>4. Window!KeyAfter(k) = CHOOSE m \in later : \A y \in later : m <= y
    BY <1>4 DEF Window!KeyAfter, Window!Min
  <2>5. Window!KeyAfter(k) \in later /\ \A y \in later : Window!KeyAfter(k) <= y
    <3> HIDE DEF later
    <3> QED BY <2>3, <2>4
  <2>6. ASSUME NEW s \in bucket, s < Window!KeyAfter(k) PROVE s <= k
    <3>1. s \in Nat /\ Window!KeyAfter(k) \in Nat
      BY <1>2, <2>5
    <3>2. s \notin later
      BY <2>5, <2>6, <3>1
    <3>3. QED
      BY <3>1, <3>2
  <2>7. Window!KeyAfter(k) \in bucket /\ Window!KeyAfter(k) \in Nat
    BY <1>2, <2>5
  <2>8. QED
    BY <2>6, <2>7
<1>5. QED
    BY <1>3, <1>4

\* What was deleted, for good or by the transaction that walks, was too old.
GoneIsOld ==
    \A s \in (DOMAIN born \ bucket) \cup walk.deleted :
        born[s] + 2 * BlockTime < clock \/ s \in excused.lost

\* What was counted was within an hour of the scan.
CountedIsNew ==
    \A s \in walk.counted : born[s] + OneHour >= walk.began \/ s \in excused.wide

\* A scan has decided on every key behind the cursor.
WalkedIsDecided ==
    walk.phase = "scan" =>
        \A s \in bucket :
            s < walk.next => s \in walk.deleted \cup walk.counted \cup excused.skipped

\* A cursor that is on no key is behind them all.
NextIsAhead ==
    walk.phase # "idle" => walk.next \in bucket \/ \A s \in bucket : s < walk.next

\* The last split, until another scan begins.
SplitStays ==
    /\ split.known \subseteq DOMAIN born /\ split.counted \subseteq DOMAIN born
    /\ Window!SplitIsOverTheWindow
    /\ walk.phase = "cleanup" => split = Window!NoSplit

WindowInv ==
    /\ WindowType
    /\ GoneIsOld /\ CountedIsNew /\ WalkedIsDecided /\ NextIsAhead /\ SplitStays
    /\ walk.began <= clock

\* A transaction that begins has decided on nothing.
LEMMA WalkBegins ==
    ASSUME Window!WindowConstants, WindowType, NEW p \in {"cleanup", "scan"}, NEW t \in Nat
    PROVE  /\ Window!Walk(p, t) \in [phase : {"idle", "cleanup", "scan"}, began : Nat, next : Nat,
                                     deleted : SUBSET Nat, counted : SUBSET Nat]
           /\ Window!Walk(p, t).phase = p /\ Window!Walk(p, t).began = t
           /\ Window!Walk(p, t).deleted = {} /\ Window!Walk(p, t).counted = {}
           /\ Window!Walk(p, t).next \in bucket \/ \A s \in bucket : s < Window!Walk(p, t).next
           /\ \A s \in bucket : ~(s < Window!Walk(p, t).next)
<1>1. \A s \in bucket : s \in Nat /\ s > 0
    BY DEF WindowType
<1>2. /\ Window!KeyAfter(0) \in Nat
      /\ Window!KeyAfter(0) \in bucket \/ \A s \in bucket : s < Window!KeyAfter(0)
      /\ \A s \in bucket : s < Window!KeyAfter(0) => s <= 0
    BY KeyAfterFacts
<1>3. \A s \in bucket : ~(s < Window!KeyAfter(0))
    BY <1>1, <1>2
<1>4. QED
    BY <1>2, <1>3 DEF Window!Walk

\* Nothing is said of a split while a transaction walks.
LEMMA SplitWhileWalking ==
    ASSUME SplitStays, walk.phase # "idle", walk'.phase = walk.phase, UNCHANGED <<split, born>>
    PROVE  SplitStays'
    BY DEF SplitStays, Window!SplitIsOverTheWindow, Window!NoSplit

LEMMA DeleteStep ==
    ASSUME Window!WindowConstants, WindowInv, Window!Delete PROVE WindowInv'
<1> DEFINE h == walk.next
<1>1. PICK w \in Window!Windows :
          /\ Window!Outdated(h, w)
          /\ \E skipped \in {{}, {Window!KeyAfter(h)} \cap bucket} :
               /\ walk' = [walk EXCEPT !.deleted = @ \cup {h},
                      !.next = Window!KeyAfter(IF skipped = {} THEN h ELSE Window!KeyAfter(h))]
               /\ excused' = [excused EXCEPT
                      !.lost = @ \cup IF rates.net = 0 /\ rates.pool = 0 /\ w = 0 THEN {h} ELSE {},
                      !.skipped = @ \cup skipped]
    BY DEF Window!Delete, Window!Here
<1>2. PICK skipped \in {{}, {Window!KeyAfter(h)} \cap bucket} :
          /\ walk' = [walk EXCEPT !.deleted = @ \cup {h},
                 !.next = Window!KeyAfter(IF skipped = {} THEN h ELSE Window!KeyAfter(h))]
          /\ excused' = [excused EXCEPT
                 !.lost = @ \cup IF rates.net = 0 /\ rates.pool = 0 /\ w = 0 THEN {h} ELSE {},
                 !.skipped = @ \cup skipped]
    BY <1>1
<1> DEFINE lost == IF rates.net = 0 /\ rates.pool = 0 /\ w = 0 THEN {h} ELSE {}
           from == IF skipped = {} THEN h ELSE Window!KeyAfter(h)
<1>3. /\ WindowType /\ GoneIsOld /\ CountedIsNew /\ WalkedIsDecided /\ SplitStays
      /\ walk.began <= clock
    BY DEF WindowInv
<1>4. /\ UNCHANGED <<clock, rates, bucket, born, split>> /\ h \in bucket
      /\ walk.phase \in {"cleanup", "scan"}
    BY DEF Window!Delete, Window!AtKey, Window!Walking, Window!Here
<1>5. h \in DOMAIN born /\ h \in Nat /\ born[h] \in Nat
    BY <1>3, <1>4 DEF WindowType
<1>6. skipped \subseteq bucket /\ bucket \subseteq DOMAIN born /\ DOMAIN born \subseteq Nat
  <2>1. skipped \subseteq bucket /\ bucket \subseteq DOMAIN born
    BY <1>3 DEF WindowType
  <2>2. DOMAIN born \subseteq Nat
    BY <1>3 DEF WindowType
  <2>3. QED
    BY <2>1, <2>2
<1>7. from \in Nat /\ Window!KeyAfter(from) \in Nat
    BY <1>3, <1>5, KeyAfterFacts
\* One field at a time.
<1>8. /\ walk' \in [phase : {"idle", "cleanup", "scan"}, began : Nat, next : Nat,
                    deleted : SUBSET Nat, counted : SUBSET Nat]
      /\ walk'.phase = walk.phase /\ walk'.began = walk.began /\ walk'.counted = walk.counted
      /\ walk'.next = Window!KeyAfter(from) /\ walk'.deleted = walk.deleted \cup {h}
  <2>1. walk' = [walk EXCEPT !.deleted = walk.deleted \cup {h}, !.next = Window!KeyAfter(from)]
    BY <1>2, <1>3 DEF WindowType
  <2>2. walk.deleted \cup {h} \in SUBSET Nat
    BY <1>3, <1>5 DEF WindowType
  <2> HIDE DEF h, from
  <2>3. QED
    BY <1>3, <1>7, <2>1, <2>2 DEF WindowType
<1>9. /\ excused' \in [lost : SUBSET Nat, wide : SUBSET Nat, skipped : SUBSET Nat]
      /\ excused'.lost = excused.lost \cup lost /\ excused'.wide = excused.wide
      /\ excused'.skipped = excused.skipped \cup skipped
  <2>1. excused' = [excused EXCEPT !.lost = excused.lost \cup lost,
                                   !.skipped = excused.skipped \cup skipped]
    BY <1>2, <1>3 DEF WindowType
  <2>2. excused.lost \cup lost \in SUBSET Nat /\ excused.skipped \cup skipped \in SUBSET Nat
    <3>1. lost \in SUBSET Nat
      BY <1>5
    <3> HIDE DEF lost
    <3>2. skipped \in SUBSET Nat
      BY <1>6
    <3>3. QED
      BY <1>3, <3>1, <3>2 DEF WindowType
  <2> HIDE DEF lost
  <2>3. QED
    BY <1>3, <2>1, <2>2 DEF WindowType
<1>10. WindowType'
  <2>1. walk.deleted \cup {h} \subseteq DOMAIN born
    BY <1>3, <1>5 DEF WindowType
  <2> HIDE DEF h, from, lost
  <2>2. QED
    BY <1>3, <1>4, <1>8, <1>9, <2>1 DEF WindowType
<1>11. born[h] + 2 * BlockTime < clock \/ h \in lost
  <2>1. born[h] + w < clock
    BY <1>1 DEF Window!Outdated
  <2>2. w \in Nat /\ (w >= 2 * BlockTime \/ (w = 0 /\ rates.net = 0 /\ rates.pool = 0))
    BY <1>3, WindowLength DEF WindowType
  <2>3. CASE w >= 2 * BlockTime
    <3>1. BlockTime \in Nat /\ clock \in Nat
      BY <1>3 DEF WindowType, Window!WindowConstants
    <3>2. QED
      BY <1>5, <2>1, <2>2, <2>3, <3>1
  <2>4. CASE w = 0 /\ rates.net = 0 /\ rates.pool = 0
    BY <2>4
  <2>5. QED
    BY <2>2, <2>3, <2>4
<1> HIDE DEF lost
<1>12. GoneIsOld'
  <2>1. \A s \in (DOMAIN born \ bucket) \cup walk.deleted :
            born[s] + 2 * BlockTime < clock \/ s \in excused.lost
    BY <1>3 DEF GoneIsOld
  <2>2. \A s \in (DOMAIN born \ bucket) \cup (walk.deleted \cup {h}) :
            born[s] + 2 * BlockTime < clock \/ s \in excused.lost \cup lost
    BY <1>11, <2>1
  <2>3. QED
    BY <1>4, <1>8, <1>9, <2>2 DEF GoneIsOld
<1>13. CountedIsNew'
    BY <1>3, <1>4, <1>8, <1>9 DEF CountedIsNew
<1>14. WalkedIsDecided'
  <2> SUFFICES ASSUME walk.phase = "scan", NEW s \in bucket, s < Window!KeyAfter(from)
               PROVE  s \in (walk.deleted \cup {h}) \cup walk.counted \cup (excused.skipped \cup skipped)
      BY <1>4, <1>8, <1>9 DEF WalkedIsDecided
  <2>1. s < h => s \in walk.deleted \cup walk.counted \cup excused.skipped
    BY <1>3 DEF WalkedIsDecided
  <2>2. s \in Nat /\ s <= from
    BY <1>3, <1>6, <1>7, KeyAfterFacts
  <2>3. s <= h => s < h \/ s = h
    BY <1>5, <2>2
  <2>4. CASE skipped = {}
    BY <2>1, <2>2, <2>3, <2>4
  <2>5. CASE skipped # {}
    <3>1. from = Window!KeyAfter(h) /\ skipped = {Window!KeyAfter(h)}
      BY <2>5
    <3>2. Window!KeyAfter(h) \in Nat /\ (s < Window!KeyAfter(h) => s <= h)
      BY <1>3, <1>5, KeyAfterFacts
    <3>3. s < Window!KeyAfter(h) \/ s = Window!KeyAfter(h)
      BY <2>2, <3>1, <3>2
    <3>4. QED
      BY <2>1, <2>3, <3>1, <3>2, <3>3
  <2>6. QED
    BY <2>4, <2>5
<1>15. NextIsAhead'
    BY <1>3, <1>4, <1>7, <1>8, KeyAfterFacts DEF NextIsAhead
<1>16. SplitStays'
    BY <1>3, <1>4, <1>8, SplitWhileWalking
<1>17. QED
    BY <1>3, <1>4, <1>8, <1>10, <1>12, <1>13, <1>14, <1>15, <1>16 DEF WindowInv

LEMMA KeepStep ==
    ASSUME Window!WindowConstants, WindowInv, Window!Keep PROVE WindowInv'
<1> DEFINE h == walk.next
           wide == IF rates.net = 0 THEN {h} ELSE {}
<1>1. PICK w \in Window!Windows : ~Window!Outdated(h, w)
    BY DEF Window!Keep, Window!Here
<1>2. /\ walk' = [walk EXCEPT !.next = Window!KeyAfter(h), !.counted = @ \cup {h}]
      /\ excused' = [excused EXCEPT !.wide = @ \cup wide]
    BY DEF Window!Keep, Window!Here
<1>3. /\ WindowType /\ GoneIsOld /\ CountedIsNew /\ WalkedIsDecided /\ SplitStays
      /\ walk.began <= clock
    BY DEF WindowInv
<1>4. /\ UNCHANGED <<clock, rates, bucket, born, split>> /\ h \in bucket
      /\ walk.phase \in {"cleanup", "scan"}
    BY DEF Window!Keep, Window!AtKey, Window!Walking, Window!Here
<1>5. h \in DOMAIN born /\ h \in Nat /\ born[h] \in Nat
    BY <1>3, <1>4 DEF WindowType
<1>6. Window!KeyAfter(h) \in Nat
    BY <1>3, <1>5, KeyAfterFacts
<1>7. /\ walk' \in [phase : {"idle", "cleanup", "scan"}, began : Nat, next : Nat,
                    deleted : SUBSET Nat, counted : SUBSET Nat]
      /\ walk'.phase = walk.phase /\ walk'.began = walk.began /\ walk'.deleted = walk.deleted
      /\ walk'.next = Window!KeyAfter(h) /\ walk'.counted = walk.counted \cup {h}
  <2>1. walk' = [walk EXCEPT !.next = Window!KeyAfter(h), !.counted = walk.counted \cup {h}]
    BY <1>2, <1>3 DEF WindowType
  <2>2. walk.counted \cup {h} \in SUBSET Nat
    BY <1>3, <1>5 DEF WindowType
  <2> HIDE DEF h
  <2>3. QED
    BY <1>3, <1>6, <2>1, <2>2 DEF WindowType
<1>8. /\ excused' \in [lost : SUBSET Nat, wide : SUBSET Nat, skipped : SUBSET Nat]
      /\ excused'.lost = excused.lost /\ excused'.wide = excused.wide \cup wide
      /\ excused'.skipped = excused.skipped
  <2>1. excused' = [excused EXCEPT !.wide = excused.wide \cup wide]
    BY <1>2, <1>3 DEF WindowType
  <2>2. excused.wide \cup wide \in SUBSET Nat
    BY <1>3, <1>5 DEF WindowType
  <2> HIDE DEF wide
  <2>3. QED
    BY <1>3, <2>1, <2>2 DEF WindowType
<1>9. WindowType'
  <2>1. walk.counted \cup {h} \subseteq DOMAIN born
    BY <1>3, <1>5 DEF WindowType
  <2> HIDE DEF h, wide
  <2>2. QED
    BY <1>3, <1>4, <1>7, <1>8, <2>1 DEF WindowType
<1>10. born[h] + OneHour >= walk.began \/ h \in wide
  <2>1. CASE rates.net = 0
    BY <2>1
  <2>2. CASE rates.net # 0
    <3>1. w \in Nat /\ w <= OneHour
      BY <1>3, <2>2, WindowLength DEF WindowType
    <3>2. clock \in Nat /\ walk.began \in Nat /\ OneHour \in Nat
      BY <1>3 DEF WindowType, Window!WindowConstants
    <3>3. ~(born[h] + w < clock)
      BY <1>1 DEF Window!Outdated
    <3>4. QED
      BY <1>3, <1>5, <3>1, <3>2, <3>3
  <2>3. QED
    BY <2>1, <2>2
<1> HIDE DEF wide
<1>11. GoneIsOld'
    BY <1>3, <1>4, <1>7, <1>8 DEF GoneIsOld
<1>12. CountedIsNew'
  <2>1. \A s \in walk.counted \cup {h} :
            born[s] + OneHour >= walk.began \/ s \in excused.wide \cup wide
    BY <1>3, <1>10 DEF CountedIsNew
  <2>2. QED
    BY <1>4, <1>7, <1>8, <2>1 DEF CountedIsNew
<1>13. WalkedIsDecided'
  <2> SUFFICES ASSUME walk.phase = "scan", NEW s \in bucket, s < Window!KeyAfter(h)
               PROVE  s \in walk.deleted \cup (walk.counted \cup {h}) \cup excused.skipped
      BY <1>4, <1>7, <1>8 DEF WalkedIsDecided
  <2>1. s < h => s \in walk.deleted \cup walk.counted \cup excused.skipped
    BY <1>3 DEF WalkedIsDecided
  <2>2. s \in Nat /\ s <= h
    <3>1. s <= h
      BY <1>3, <1>5, KeyAfterFacts
    <3>2. s \in Nat
      BY <1>3 DEF WindowType
    <3>3. QED
      BY <3>1, <3>2
  <2>3. s < h \/ s = h
    BY <1>5, <2>2
  <2>4. QED
    BY <2>1, <2>3
<1>14. NextIsAhead'
    BY <1>3, <1>4, <1>5, <1>7, KeyAfterFacts DEF NextIsAhead
<1>15. SplitStays'
    BY <1>3, <1>4, <1>7, SplitWhileWalking
<1>16. QED
    BY <1>3, <1>4, <1>7, <1>9, <1>11, <1>12, <1>13, <1>14, <1>15 DEF WindowInv

\* A transaction that commits has decided on every key.
LEMMA CommitStep ==
    ASSUME Window!WindowConstants, WindowInv, Window!DatabaseCleanup \/ Window!EndScan
    PROVE  WindowInv'
<1>1. /\ WindowType /\ GoneIsOld /\ CountedIsNew /\ WalkedIsDecided /\ NextIsAhead /\ SplitStays
      /\ walk.began <= clock
    BY DEF WindowInv
<1>2. /\ bucket' = bucket \ walk.deleted /\ walk' = Window!Idle
      /\ UNCHANGED <<clock, rates, born, excused>>
      /\ walk.next \notin bucket /\ walk.phase \in {"cleanup", "scan"}
    BY DEF Window!DatabaseCleanup, Window!EndScan, Window!AtEnd, Window!Walking, Window!Here
<1>3. /\ walk' \in [phase : {"idle", "cleanup", "scan"}, began : Nat, next : Nat,
                    deleted : SUBSET Nat, counted : SUBSET Nat]
      /\ walk'.phase = "idle" /\ walk'.began = 0 /\ walk'.deleted = {} /\ walk'.counted = {}
    BY <1>2 DEF Window!Idle
<1>4. WindowType'
    BY <1>1, <1>2, <1>3 DEF WindowType
<1>5. GoneIsOld' /\ CountedIsNew' /\ WalkedIsDecided' /\ NextIsAhead'
    BY <1>1, <1>2, <1>3 DEF GoneIsOld, CountedIsNew, WalkedIsDecided, NextIsAhead
<1>6. walk'.began <= clock'
    BY <1>1, <1>2, <1>3 DEF WindowType
<1>7. CASE Window!DatabaseCleanup
  <2>1. split' = Window!NoSplit
    BY <1>1, <1>7 DEF Window!DatabaseCleanup, SplitStays
  <2>2. split'.known = {} /\ split'.counted = {}
    BY <2>1 DEF Window!NoSplit
  <2>3. SplitStays'
    BY <1>3, <2>1, <2>2 DEF SplitStays, Window!SplitIsOverTheWindow, Window!NoSplit
  <2>4. QED
    BY <1>4, <1>5, <1>6, <2>3 DEF WindowInv
<1>8. CASE Window!EndScan
  <2>1. /\ split'.began = walk.began /\ split'.ended = clock /\ split'.counted = walk.counted
        /\ split'.known = DOMAIN born /\ walk.phase = "scan"
    BY <1>8 DEF Window!EndScan, Window!Stored
  <2>2. ASSUME NEW s \in DOMAIN born, born[s] + 2 * BlockTime >= clock
        PROVE  s \in walk.counted \cup excused.lost \cup excused.skipped
    <3>1. born[s] \in Nat /\ clock \in Nat /\ 2 * BlockTime \in Nat
      BY <1>1 DEF WindowType, Window!WindowConstants
    <3>2. ~(born[s] + 2 * BlockTime < clock)
      BY <2>2, <3>1
    <3>3. s \in (DOMAIN born \ bucket) \cup walk.deleted => s \in excused.lost
      BY <1>1, <3>2 DEF GoneIsOld
    <3>4. s \in bucket => s \in walk.deleted \cup walk.counted \cup excused.skipped
      BY <1>1, <1>2, <2>1 DEF WalkedIsDecided, NextIsAhead
    <3>5. QED
      BY <3>3, <3>4
  <2>3. ASSUME NEW s \in walk.counted, born[s] + OneHour < walk.began
        PROVE  s \in excused.wide
    <3>1. born[s] \in Nat /\ walk.began \in Nat /\ OneHour \in Nat
      BY <1>1 DEF WindowType, Window!WindowConstants
    <3>2. ~(born[s] + OneHour >= walk.began)
      BY <2>3, <3>1
    <3>3. QED
      BY <1>1, <3>2 DEF CountedIsNew
  <2>4. Window!SplitIsOverTheWindow'
    BY <1>2, <2>1, <2>2, <2>3 DEF Window!SplitIsOverTheWindow
  <2>5. split'.known \subseteq DOMAIN born' /\ split'.counted \subseteq DOMAIN born'
    BY <1>1, <1>2, <2>1 DEF WindowType
  <2>6. SplitStays'
    BY <1>3, <2>4, <2>5 DEF SplitStays
  <2>7. QED
    BY <1>4, <1>5, <1>6, <2>6 DEF WindowInv
<1>9. QED
    BY <1>7, <1>8

\* A scan begins, or what a transaction did is undone.
LEMMA BeginStep ==
    ASSUME Window!WindowConstants, WindowInv,
           Window!BeginScan \/ Window!AbortScan \/ Window!Restart
    PROVE  WindowInv'
<1>1. /\ WindowType /\ GoneIsOld /\ CountedIsNew /\ WalkedIsDecided /\ NextIsAhead /\ SplitStays
      /\ walk.began <= clock
    BY DEF WindowInv
<1>2. UNCHANGED <<clock, bucket, born>>
    BY DEF Window!BeginScan, Window!AbortScan, Window!Restart
<1>3. GoneIsOld /\ \A s \in DOMAIN born \ bucket : born[s] + 2 * BlockTime < clock \/ s \in excused.lost
    BY <1>1 DEF GoneIsOld
<1>4. clock \in Nat /\ 0 \in Nat /\ 0 <= clock
    BY <1>1 DEF WindowType
<1>5. CASE Window!BeginScan
  <2>1. /\ walk' = Window!Walk("scan", clock) /\ UNCHANGED <<rates, split>>
        /\ excused' = [excused EXCEPT !.wide = {}, !.skipped = {}]
    BY <1>5 DEF Window!BeginScan
  <2>2. /\ excused' \in [lost : SUBSET Nat, wide : SUBSET Nat, skipped : SUBSET Nat]
        /\ excused'.lost = excused.lost
    BY <1>1, <2>1 DEF WindowType
  <2>3. /\ walk' \in [phase : {"idle", "cleanup", "scan"}, began : Nat, next : Nat,
                      deleted : SUBSET Nat, counted : SUBSET Nat]
        /\ walk'.phase = "scan" /\ walk'.began = clock
        /\ walk'.deleted = {} /\ walk'.counted = {}
        /\ walk'.next \in bucket \/ \A s \in bucket : s < walk'.next
        /\ \A s \in bucket : ~(s < walk'.next)
    BY <1>1, <1>4, <2>1, WalkBegins
  <2>4. WindowType'
    BY <1>1, <1>2, <2>1, <2>2, <2>3 DEF WindowType
  <2>5. GoneIsOld' /\ CountedIsNew' /\ WalkedIsDecided' /\ NextIsAhead'
    BY <1>2, <1>3, <2>2, <2>3 DEF GoneIsOld, CountedIsNew, WalkedIsDecided, NextIsAhead
  <2>6. SplitStays'
    BY <1>1, <1>2, <2>1, <2>3 DEF SplitStays, Window!SplitIsOverTheWindow
  <2>7. walk'.began <= clock'
    BY <1>2, <1>4, <2>3
  <2>8. QED
    BY <2>4, <2>5, <2>6, <2>7 DEF WindowInv
\* What stays excused is what stays deleted.
<1>6. ASSUME Window!RolledBack
      PROVE  /\ excused' \in [lost : SUBSET Nat, wide : SUBSET Nat, skipped : SUBSET Nat]
             /\ \A s \in DOMAIN born \ bucket : born[s] + 2 * BlockTime < clock \/ s \in excused'.lost
             /\ split' = Window!NoSplit /\ split'.known = {} /\ split'.counted = {}
  <2>1. excused' = [excused EXCEPT !.lost = excused.lost \cap (DOMAIN born \ bucket)]
    BY <1>1, <1>6 DEF Window!RolledBack, Window!Stored, WindowType
  <2>2. /\ excused' \in [lost : SUBSET Nat, wide : SUBSET Nat, skipped : SUBSET Nat]
        /\ excused'.lost = excused.lost \cap (DOMAIN born \ bucket)
    BY <1>1, <2>1 DEF WindowType
  <2>3. QED
    BY <1>3, <1>6, <2>2 DEF Window!RolledBack, Window!NoSplit
<1>7. CASE Window!AbortScan
  <2>1. walk' = Window!Idle /\ rates' = rates /\ Window!RolledBack
    BY <1>7 DEF Window!AbortScan
  <2>2. /\ walk' \in [phase : {"idle", "cleanup", "scan"}, began : Nat, next : Nat,
                      deleted : SUBSET Nat, counted : SUBSET Nat]
        /\ walk'.phase = "idle" /\ walk'.began = 0 /\ walk'.deleted = {} /\ walk'.counted = {}
    BY <2>1 DEF Window!Idle
  <2>3. WindowType'
    BY <1>1, <1>2, <1>6, <2>1, <2>2 DEF WindowType
  <2>4. GoneIsOld' /\ CountedIsNew' /\ WalkedIsDecided' /\ NextIsAhead'
    BY <1>2, <1>6, <2>1, <2>2 DEF GoneIsOld, CountedIsNew, WalkedIsDecided, NextIsAhead
  <2>5. SplitStays'
    BY <1>6, <2>1, <2>2 DEF SplitStays, Window!SplitIsOverTheWindow
  <2>6. QED
    BY <1>2, <1>4, <2>2, <2>3, <2>4, <2>5 DEF WindowInv
<1>8. CASE Window!Restart
  <2>1. /\ walk' = Window!Walk("cleanup", 0) /\ rates' = [net |-> 0, pool |-> 0]
        /\ Window!RolledBack
    BY <1>8 DEF Window!Restart
  <2>2. /\ walk' \in [phase : {"idle", "cleanup", "scan"}, began : Nat, next : Nat,
                      deleted : SUBSET Nat, counted : SUBSET Nat]
        /\ walk'.phase = "cleanup" /\ walk'.began = 0
        /\ walk'.deleted = {} /\ walk'.counted = {}
        /\ walk'.next \in bucket \/ \A s \in bucket : s < walk'.next
    BY <1>1, <1>4, <2>1, WalkBegins
  <2>3. WindowType'
    BY <1>1, <1>2, <1>6, <2>1, <2>2 DEF WindowType
  <2>4. GoneIsOld' /\ CountedIsNew' /\ WalkedIsDecided' /\ NextIsAhead'
    BY <1>2, <1>6, <2>1, <2>2 DEF GoneIsOld, CountedIsNew, WalkedIsDecided, NextIsAhead
  <2>5. SplitStays'
    BY <1>6, <2>1, <2>2 DEF SplitStays, Window!SplitIsOverTheWindow
  <2>6. QED
    BY <1>2, <1>4, <2>2, <2>3, <2>4, <2>5 DEF WindowInv
<1>9. QED
    BY <1>5, <1>7, <1>8

\* A share that is stored has a key of its own.
LEMMA StoreStep ==
    ASSUME Window!WindowConstants, WindowInv, Window!StoreShare PROVE WindowInv'
<1>1. /\ WindowType /\ GoneIsOld /\ CountedIsNew /\ WalkedIsDecided /\ NextIsAhead /\ SplitStays
      /\ walk.began <= clock
    BY DEF WindowInv
<1>2. PICK n \in Nat : n <= MaxShares /\ DOMAIN born = 1 .. n
    BY <1>1 DEF WindowType
<1>3. Window!Cardinality(DOMAIN born) = n
  <2>1. Cardinality(1 .. n) = n
    BY FS_Interval
  <2>2. Window!Cardinality(1 .. n) = Cardinality(1 .. n)
    BY DEF Window!Cardinality, Cardinality
  <2>3. QED
    BY <1>2, <2>1, <2>2
<1> DEFINE s == n + 1
<1>4. /\ walk.phase = "idle" /\ n < MaxShares /\ bucket' = bucket \cup {s}
      /\ born' = [i \in DOMAIN born \cup {s} |-> IF i = s THEN clock ELSE born[i]]
      /\ UNCHANGED <<clock, rates, walk, split, excused>>
    BY <1>3 DEF Window!StoreShare, Window!Stored
<1>5. s \notin DOMAIN born /\ DOMAIN born \cup {s} = 1 .. s /\ s \in Nat /\ s <= MaxShares
  <2>1. MaxShares \in Nat
    BY DEF Window!WindowConstants
  <2>2. QED
    BY <1>2, <1>4, <2>1
<1> HIDE DEF s
<1>6. DOMAIN born' = DOMAIN born \cup {s} /\ born'[s] = clock
    BY <1>4
<1>7. \A i \in DOMAIN born : born'[i] = born[i]
    BY <1>4, <1>5
<1>8. WindowType'
  <2>1. \E k \in Nat : k <= MaxShares /\ DOMAIN born' = 1 .. k
    BY <1>5, <1>6
  <2>2. \A i \in DOMAIN born' : born'[i] \in Nat
    BY <1>1, <1>6, <1>7 DEF WindowType
  <2>3. QED
    BY <1>1, <1>4, <1>6, <2>1, <2>2 DEF WindowType
<1>9. walk.deleted \subseteq DOMAIN born /\ walk.counted \subseteq DOMAIN born
    BY <1>1 DEF WindowType
<1>10. GoneIsOld'
  <2>1. (DOMAIN born' \ bucket') \cup walk'.deleted \subseteq (DOMAIN born \ bucket) \cup walk.deleted
    BY <1>4, <1>6
  <2>2. \A i \in (DOMAIN born \ bucket) \cup walk.deleted :
            i \in DOMAIN born /\ (born[i] + 2 * BlockTime < clock \/ i \in excused.lost)
    BY <1>1, <1>9 DEF GoneIsOld
  <2>3. QED
    BY <1>4, <1>7, <2>1, <2>2 DEF GoneIsOld
<1>11. CountedIsNew'
    BY <1>1, <1>4, <1>7, <1>9 DEF CountedIsNew
<1>12. WalkedIsDecided' /\ NextIsAhead'
    BY <1>4 DEF WalkedIsDecided, NextIsAhead
<1>13. SplitStays'
  <2>1. split.known \subseteq DOMAIN born /\ split.counted \subseteq DOMAIN born
        /\ Window!SplitIsOverTheWindow
    BY <1>1 DEF SplitStays
  <2>2. Window!SplitIsOverTheWindow'
    <3>1. /\ \A i \in split.known : born'[i] = born[i]
          /\ \A i \in split.counted : born'[i] = born[i]
      BY <1>7, <2>1
    <3>2. QED
      BY <1>4, <2>1, <3>1 DEF Window!SplitIsOverTheWindow
  <2>3. QED
    BY <1>4, <1>6, <2>1, <2>2 DEF SplitStays
<1>14. QED
    BY <1>1, <1>4, <1>8, <1>10, <1>11, <1>12, <1>13 DEF WindowInv

LEMMA WindowStep ==
    ASSUME Window!WindowConstants, WindowInv, [Window!Next]_(Window!vars) PROVE WindowInv'
<1>1. WindowType /\ GoneIsOld /\ walk.began <= clock /\ SplitStays
    BY DEF WindowInv
<1>2. ASSUME rates' \in [net : Nat, pool : Nat], UNCHANGED <<clock, bucket, born, walk, split, excused>>
      PROVE  WindowInv'
  <2>1. WindowType'
    BY <1>1, <1>2 DEF WindowType
  <2>2. QED
    BY <1>2, <2>1 DEF WindowInv, GoneIsOld, CountedIsNew, WalkedIsDecided, NextIsAhead,
        SplitStays, Window!SplitIsOverTheWindow, Window!NoSplit
<1>3. CASE Window!PollDifficulty \/ Window!UpdateRates \/ Window!LoadRates
  <2>1. Rates \subseteq Nat /\ rates \in [net : Nat, pool : Nat]
    BY <1>1 DEF Window!WindowConstants, WindowType
  <2>2. \/ \E r \in Rates : rates' = [rates EXCEPT !.net = r]
        \/ \E r \in Rates : rates' = [rates EXCEPT !.pool = r]
        \/ \E net, pool \in Rates : rates' = [net |-> net, pool |-> pool]
    BY <1>3 DEF Window!PollDifficulty, Window!UpdateRates, Window!LoadRates
  <2>3. rates' \in [net : Nat, pool : Nat]
    BY <2>1, <2>2
  <2>4. QED
    BY <1>2, <1>3, <2>3 DEF Window!PollDifficulty, Window!UpdateRates, Window!LoadRates
<1>4. CASE Window!Tick
  <2>1. clock' = clock + 1 /\ UNCHANGED <<rates, bucket, born, walk, split, excused>>
    BY <1>4 DEF Window!Tick
  <2>2. clock \in Nat /\ walk.began \in Nat /\ BlockTime \in Nat
    BY <1>1 DEF WindowType, Window!WindowConstants
  <2>3. WindowType'
    BY <1>1, <2>1 DEF WindowType
  <2>4. GoneIsOld'
    <3>1. \A s \in (DOMAIN born \ bucket) \cup walk.deleted :
              born[s] \in Nat /\ (born[s] + 2 * BlockTime < clock \/ s \in excused.lost)
      BY <1>1 DEF GoneIsOld, WindowType
    <3>2. \A s \in (DOMAIN born \ bucket) \cup walk.deleted :
              born[s] + 2 * BlockTime < clock + 1 \/ s \in excused.lost
      BY <2>2, <3>1
    <3>3. QED
      BY <2>1, <3>2 DEF GoneIsOld
  <2>5. walk'.began <= clock'
    BY <1>1, <2>1, <2>2
  <2>6. QED
    BY <2>1, <2>3, <2>4, <2>5 DEF WindowInv, CountedIsNew, WalkedIsDecided, NextIsAhead,
        SplitStays, Window!SplitIsOverTheWindow, Window!NoSplit
<1>5. CASE UNCHANGED Window!vars
  <2>1. rates' \in [net : Nat, pool : Nat]
    BY <1>1, <1>5 DEF Window!vars, WindowType
  <2>2. QED
    BY <1>2, <1>5, <2>1 DEF Window!vars
<1>6. QED
    BY <1>3, <1>4, <1>5, DeleteStep, KeepStep, CommitStep, BeginStep, StoreStep DEF Window!Next

LEMMA WindowBegins ==
    ASSUME Window!WindowConstants, Window!Init PROVE WindowInv
<1>1. /\ clock = 0 /\ rates = [net |-> 0, pool |-> 0] /\ bucket = {} /\ born = << >>
      /\ walk = Window!Walk("cleanup", 0) /\ split = Window!NoSplit
      /\ excused = [lost |-> {}, wide |-> {}, skipped |-> {}]
    BY DEF Window!Init
<1>2. DOMAIN born = {} /\ 1 .. 0 = {}
  <2>1. DOMAIN << >> = {}
    OBVIOUS
  <2>2. QED
    BY <1>1, <2>1
<1>3. MaxShares \in Nat /\ 0 <= MaxShares
    BY DEF Window!WindowConstants
<1>4. Window!KeyAfter(0) = MaxShares + 1
    BY <1>1 DEF Window!KeyAfter
<1>5. /\ walk \in [phase : {"idle", "cleanup", "scan"}, began : Nat, next : Nat,
                   deleted : SUBSET Nat, counted : SUBSET Nat]
      /\ walk.phase = "cleanup" /\ walk.began = 0 /\ walk.deleted = {} /\ walk.counted = {}
    BY <1>1, <1>3, <1>4 DEF Window!Walk
<1>6. WindowType
  <2>1. \E n \in Nat : n <= MaxShares /\ DOMAIN born = 1 .. n
    BY <1>2, <1>3
  <2>2. QED
    BY <1>1, <1>2, <1>5, <2>1 DEF WindowType
<1>7. SplitStays
    BY <1>1, <1>5 DEF SplitStays, Window!SplitIsOverTheWindow, Window!NoSplit
<1>8. QED
    BY <1>1, <1>2, <1>5, <1>6, <1>7
       DEF WindowInv, GoneIsOld, CountedIsNew, WalkedIsDecided, NextIsAhead

\* A reward is split over every share of the last two block times and over none
\* that is older than an hour, for any rates, clean-ups, aborted scans and restarts,
\* but for the shares that are let off by name.
THEOREM SplitIsOverTheWindowCorrect == Window!Spec => []SplitIsOverTheWindow
<1>1. Window!Init => WindowInv
    BY WindowBegins, RulesAssumption
<1>2. WindowInv /\ [Window!Next]_(Window!vars) => WindowInv'
    BY WindowStep, RulesAssumption
<1>3. WindowInv => SplitIsOverTheWindow
    BY DEF WindowInv, SplitStays, SplitIsOverTheWindow
<1>4. QED
    BY <1>1, <1>2, <1>3, PTL DEF Window!Spec

-----------------------------------------------------------------------------
(* The test of a share.  The two recursive functions of BlockTarget are    *)
(* tables; that there are such tables, and what is in them, is shown by    *)
(* induction over an interval, whose hypothesis is a set.                  *)

LEMMA IntervalInduction ==
    ASSUME NEW n \in Nat, NEW Good, 0 \in Good, \A i \in 0 .. n - 1 : i \in Good => i + 1 \in Good
    PROVE  \A i \in 0 .. n : i \in Good
<1> DEFINE Bad == {i \in 0 .. n : i \notin Good}
<1> SUFFICES ASSUME Bad # {} PROVE FALSE
    OBVIOUS
<1>1. IsFiniteSet(Bad) /\ Bad \in SUBSET Nat
  <2>1. IsFiniteSet(0 .. n) /\ Bad \subseteq 0 .. n /\ 0 .. n \subseteq Nat
    BY FS_Interval
  <2> HIDE DEF Bad
  <2>2. QED
    BY <2>1, FS_Subset
<1>2. PICK m \in Bad : \A y \in Bad : m <= y
  <2> HIDE DEF Bad
  <2> QED BY <1>1, SmallestOf
<1>3. m \in 0 .. n /\ m # 0 /\ m \notin Good
    OBVIOUS
<1>4. m - 1 \in 0 .. n - 1 /\ m - 1 \in 0 .. n /\ ~(m <= m - 1) /\ (m - 1) + 1 = m
    BY <1>3
<1>5. m - 1 \in Good
    BY <1>2, <1>4
<1>6. QED
    BY <1>3, <1>4, <1>5

\* Quotient and remainder, and that the quotient is smaller.
LEMMA Division ==
    ASSUME NEW a \in Nat, NEW p \in Nat, p >= 2
    PROVE  /\ a \div p \in Nat /\ a % p \in 0 .. p - 1
           /\ (a \div p) * p + (a % p) = a
           /\ a > 0 => a \div p < a
           /\ \A c \in Nat : a <= c * p + (p - 1) => a \div p <= c
<1>1. p > 0 /\ p \in Nat \ {0} /\ a \div p \in Int /\ a % p \in Int
    OBVIOUS
<1>2. a % p \in 0 .. p - 1
    BY <1>1
<1>3. a \div p \in Nat
    BY <1>1
<1>4. \A q \in Int : \A r \in Int : q = a \div p /\ r = a % p => a = p * q + r
    BY <1>1
<1>5. (a \div p) * p + (a % p) = a
  <2> DEFINE q == a \div p
             r == a % p
  <2>1. q \in Int /\ r \in Int /\ a = p * q + r
    BY <1>1, <1>4
  <2> HIDE DEF q, r
  <2>2. q * p + r = a
    BY <2>1
  <2>3. QED
    BY <2>2 DEF q, r
<1>6. a > 0 => a \div p < a
    OBVIOUS
<1>7. \A c \in Nat : a <= c * p + (p - 1) => a \div p <= c
    BY <1>1
<1>8. QED
    BY <1>2, <1>3, <1>5, <1>6, <1>7

\* The leading digit decides.
LEMMA LeadingDigit ==
    ASSUME NEW x \in Nat, NEW y \in Nat, NEW p \in Nat, NEW c \in 0 .. p - 1, NEW d \in 0 .. p - 1,
           x < y
    PROVE  x * p + c < y * p + d
<1>1. (x + 1) * p <= y * p
    OBVIOUS
<1>2. (x + 1) * p = x * p + p
    OBVIOUS
<1>3. x * p \in Nat /\ y * p \in Nat
    OBVIOUS
<1>4. QED
    BY <1>1, <1>2, <1>3

\* Strings of n bytes.
Bytes(n) == [1 .. n -> 0 .. Base - 1]

\* v[i] is the number of the first i bytes of h.
Values(v, h) ==
    v = [i \in 0 .. HashLen |-> IF i = 0 THEN 0 ELSE v[i - 1] * Base + h[i]]

\* The same for the first n only, and without saying that v is no more.
ValuesUpTo(v, h, n) ==
    /\ v[0] = 0
    /\ \A i \in 1 .. n : v[i] = v[i - 1] * Base + h[i]

LEMMA NumberDef ==
    ASSUME NEW h PROVE Target!Number(h) = (CHOOSE v : Values(v, h))[HashLen]
    BY DEF Target!Number, Values

\* Values are natural numbers.
LEMMA ValuesAreNat ==
    ASSUME Target!TargetConstants, NEW n \in Nat, NEW h \in Bytes(n), NEW v, ValuesUpTo(v, h, n)
    PROVE  \A i \in 0 .. n : v[i] \in Nat
<1> DEFINE Good == {i \in 0 .. n : v[i] \in Nat}
<1>1. 0 \in Good
    BY DEF ValuesUpTo
<1>2. ASSUME NEW i \in 0 .. n - 1, i \in Good PROVE i + 1 \in Good
  <2>1. i + 1 \in 1 .. n /\ (i + 1) - 1 = i /\ i + 1 \in 0 .. n
    OBVIOUS
  <2>2. v[i + 1] = v[i] * Base + h[i + 1]
    BY <2>1 DEF ValuesUpTo
  <2>3. v[i] \in Nat /\ h[i + 1] \in Nat /\ Base \in Nat
    BY <1>2, <2>1 DEF Bytes, Target!TargetConstants
  <2>4. v[i] * Base + h[i + 1] \in Nat
    BY <2>3
  <2>5. QED
    BY <2>1, <2>2, <2>4
<1>3. \A i \in 0 .. n : i \in Good
  <2> HIDE DEF Good
  <2> QED BY <1>1, <1>2, IntervalInduction
<1>4. QED
    BY <1>3

\* Two tables of the same bytes agree.
LEMMA ValuesAgree ==
    ASSUME NEW n \in Nat, NEW h, NEW v, NEW w, ValuesUpTo(v, h, n), ValuesUpTo(w, h, n)
    PROVE  \A i \in 0 .. n : v[i] = w[i]
<1> DEFINE Good == {i \in 0 .. n : v[i] = w[i]}
<1>1. 0 \in Good
    BY DEF ValuesUpTo
<1>2. ASSUME NEW i \in 0 .. n - 1, i \in Good PROVE i + 1 \in Good
  <2>1. i + 1 \in 1 .. n /\ (i + 1) - 1 = i /\ i + 1 \in 0 .. n
    OBVIOUS
  <2>2. v[i + 1] = v[i] * Base + h[i + 1] /\ w[i + 1] = w[i] * Base + h[i + 1]
    BY <2>1 DEF ValuesUpTo
  <2>3. QED
    BY <1>2, <2>1, <2>2
<1>3. \A i \in 0 .. n : i \in Good
  <2> HIDE DEF Good
  <2> QED BY <1>1, <1>2, IntervalInduction
<1>4. QED
    BY <1>3

\* Every string has a table, up to any byte.
LEMMA ValuesExist ==
    ASSUME NEW n \in Nat, NEW h
    PROVE  \A m \in 0 .. n : \E v : /\ v = [i \in 0 .. m |-> v[i]]
                                    /\ ValuesUpTo(v, h, m)
<1> DEFINE Good == {m \in 0 .. n : \E v : v = [i \in 0 .. m |-> v[i]] /\ ValuesUpTo(v, h, m)}
<1>1. 0 \in Good
  <2> DEFINE v == [i \in 0 .. 0 |-> 0]
  <2>1. v = [i \in 0 .. 0 |-> v[i]] /\ v[0] = 0
    OBVIOUS
  <2>2. 1 .. 0 = {}
    OBVIOUS
  <2>3. ValuesUpTo(v, h, 0)
    BY <2>1, <2>2 DEF ValuesUpTo
  <2> HIDE DEF v
  <2>4. QED
    BY <2>1, <2>3
<1>2. ASSUME NEW m \in 0 .. n - 1, m \in Good PROVE m + 1 \in Good
  <2>1. PICK v : ValuesUpTo(v, h, m)
    BY <1>2
  <2> DEFINE w == [i \in 0 .. m + 1 |-> IF i <= m THEN v[i] ELSE v[m] * Base + h[m + 1]]
  <2>2. w[0] = v[0] /\ w[m + 1] = v[m] * Base + h[m + 1] /\ w[m] = v[m]
    OBVIOUS
  <2>3. ASSUME NEW i \in 1 .. m + 1 PROVE w[i] = w[i - 1] * Base + h[i]
    <3>1. CASE i = m + 1
      <4>1. i - 1 = m
        BY <3>1
      <4> HIDE DEF w
      <4>2. QED
        BY <2>2, <3>1, <4>1
    <3>2. CASE i # m + 1
      <4>1. i \in 1 .. m /\ i \in 0 .. m + 1 /\ i <= m /\ i - 1 \in 0 .. m + 1 /\ i - 1 <= m
        BY <3>2
      <4>2. w[i] = v[i] /\ w[i - 1] = v[i - 1]
        BY <4>1
      <4> HIDE DEF w
      <4>3. QED
        BY <2>1, <4>1, <4>2 DEF ValuesUpTo
    <3>3. QED
      BY <3>1, <3>2
  <2>4. w = [i \in 0 .. m + 1 |-> w[i]]
    OBVIOUS
  <2>5. ValuesUpTo(w, h, m + 1)
    <3> HIDE DEF w
    <3> QED BY <2>1, <2>2, <2>3 DEF ValuesUpTo
  <2>6. m + 1 \in 0 .. n
    OBVIOUS
  <2> HIDE DEF w
  <2>7. QED
    BY <2>4, <2>5, <2>6
<1>3. \A m \in 0 .. n : m \in Good
  <2> HIDE DEF Good
  <2> QED BY <1>1, <1>2, IntervalInduction
<1>4. QED
    BY <1>3

\* A number is the last entry of any table of its bytes.
LEMMA NumberIsValue ==
    ASSUME Target!TargetConstants, NEW h
    PROVE  \E v : ValuesUpTo(v, h, HashLen) /\ Target!Number(h) = v[HashLen]
<1>1. HashLen \in Nat /\ HashLen \in 0 .. HashLen
    BY DEF Target!TargetConstants
<1>2. PICK v : v = [i \in 0 .. HashLen |-> v[i]] /\ ValuesUpTo(v, h, HashLen)
    BY <1>1, ValuesExist
<1>3. Values(v, h)
  <2>1. \A i \in 0 .. HashLen : v[i] = IF i = 0 THEN 0 ELSE v[i - 1] * Base + h[i]
    BY <1>1, <1>2 DEF ValuesUpTo
  <2>2. [i \in 0 .. HashLen |-> v[i]]
          = [i \in 0 .. HashLen |-> IF i = 0 THEN 0 ELSE v[i - 1] * Base + h[i]]
    BY <2>1
  <2>3. QED
    BY <1>2, <2>2 DEF Values
<1> DEFINE w == CHOOSE x : Values(x, h)
<1>4. Values(w, h)
    BY <1>3
<1> HIDE DEF w
<1>5. \A i \in 0 .. HashLen : w[i] = IF i = 0 THEN 0 ELSE w[i - 1] * Base + h[i]
    BY <1>4 DEF Values
<1>6. ValuesUpTo(w, h, HashLen)
    BY <1>1, <1>5 DEF ValuesUpTo
<1>7. Target!Number(h) = w[HashLen]
    BY NumberDef DEF w
<1>8. QED
    BY <1>6, <1>7

LEMMA NumberIsNat ==
    ASSUME Target!TargetConstants, NEW h \in Bytes(HashLen)
    PROVE  Target!Number(h) \in Nat
<1>1. PICK v : ValuesUpTo(v, h, HashLen) /\ Target!Number(h) = v[HashLen]
    BY NumberIsValue
<1>2. HashLen \in Nat /\ HashLen \in 0 .. HashLen
    BY DEF Target!TargetConstants
<1>3. QED
    BY <1>1, <1>2, ValuesAreNat

\* The first byte that differs decides which number is smaller.
LEMMA FirstDifference ==
    ASSUME Target!TargetConstants, NEW a \in Bytes(HashLen), NEW b \in Bytes(HashLen),
           NEW i \in 1 .. HashLen, a[i] < b[i], \A j \in 1 .. i - 1 : a[j] = b[j]
    PROVE  Target!Number(a) < Target!Number(b)
<1>1. HashLen \in Nat /\ HashLen \in 0 .. HashLen /\ Base \in Nat
    BY DEF Target!TargetConstants
<1>2. PICK v : ValuesUpTo(v, a, HashLen) /\ Target!Number(a) = v[HashLen]
    BY NumberIsValue
<1>3. PICK w : ValuesUpTo(w, b, HashLen) /\ Target!Number(b) = w[HashLen]
    BY NumberIsValue
<1>4. \A k \in 0 .. HashLen : v[k] \in Nat /\ w[k] \in Nat
    BY <1>1, <1>2, <1>3, ValuesAreNat
<1>5. \A k \in 1 .. HashLen : a[k] \in 0 .. Base - 1 /\ b[k] \in 0 .. Base - 1
    BY DEF Bytes
<1>6. i - 1 \in Nat /\ i - 1 \in 0 .. i - 1 /\ i - 1 \in 0 .. HashLen /\ i \in 0 .. HashLen
    BY <1>1
<1>7. v[i - 1] = w[i - 1]
  <2>1. \A k \in 1 .. i - 1 : k \in 1 .. HashLen
    BY <1>1
  <2>2. ValuesUpTo(v, a, i - 1) /\ ValuesUpTo(w, a, i - 1)
    BY <1>2, <1>3, <2>1 DEF ValuesUpTo
  <2>3. QED
    BY <1>6, <2>2, ValuesAgree
<1>8. v[i] < w[i]
  <2>1. v[i] = v[i - 1] * Base + a[i] /\ w[i] = w[i - 1] * Base + b[i]
    BY <1>2, <1>3 DEF ValuesUpTo
  <2> DEFINE x == v[i - 1] * Base
  <2>2. x \in Nat
    BY <1>1, <1>4, <1>6
  <2>3. v[i] = x + a[i] /\ w[i] = x + b[i] /\ a[i] \in Nat /\ b[i] \in Nat
    BY <1>5, <1>7, <2>1
  <2> HIDE DEF x
  <2>4. QED
    BY <2>2, <2>3
<1> DEFINE Good == {k \in 0 .. HashLen : k >= i => v[k] < w[k]}
<1>9. 0 \in Good
    BY <1>1
<1>10. ASSUME NEW k \in 0 .. HashLen - 1, k \in Good PROVE k + 1 \in Good
  <2>1. k \in 0 .. HashLen /\ k + 1 \in 0 .. HashLen /\ k + 1 \in 1 .. HashLen /\ (k + 1) - 1 = k
    BY <1>1
  <2>2. CASE k + 1 = i
    BY <1>8, <2>1, <2>2
  <2>3. CASE k >= i
    <3>1. v[k] < w[k] /\ v[k] \in Nat /\ w[k] \in Nat
      BY <1>4, <1>10, <2>1, <2>3
    <3>2. v[k + 1] = v[k] * Base + a[k + 1] /\ w[k + 1] = w[k] * Base + b[k + 1]
      BY <1>2, <1>3, <2>1 DEF ValuesUpTo
    <3>3. a[k + 1] \in 0 .. Base - 1 /\ b[k + 1] \in 0 .. Base - 1
      BY <1>5, <2>1
    <3>4. v[k] * Base + a[k + 1] < w[k] * Base + b[k + 1]
      BY <1>1, <3>1, <3>3, LeadingDigit
    <3>5. QED
      BY <2>1, <3>2, <3>4
  <2>4. CASE k + 1 < i
    <3>1. ~(k + 1 >= i)
      BY <2>4
    <3>2. QED
      BY <2>1, <3>1
  <2>5. QED
    BY <2>2, <2>3, <2>4
<1>11. \A k \in 0 .. HashLen : k \in Good
  <2> HIDE DEF Good
  <2> QED BY <1>1, <1>9, <1>10, IntervalInduction
<1>12. HashLen >= i
    BY <1>1
<1>13. QED
    BY <1>1, <1>2, <1>3, <1>11, <1>12

\* The comparison of bytes is the comparison of numbers.
LEMMA BytesCompare ==
    ASSUME Target!TargetConstants, NEW a \in Bytes(HashLen), NEW b \in Bytes(HashLen)
    PROVE  Target!NotAfter(a, b) <=> Target!Number(a) <= Target!Number(b)
<1>1. Target!Number(a) \in Nat /\ Target!Number(b) \in Nat
    BY NumberIsNat
<1> DEFINE Differ == {i \in 1 .. HashLen : a[i] # b[i]}
<1>2. \A i \in 1 .. HashLen : a[i] \in Nat /\ b[i] \in Nat
    BY DEF Bytes, Target!TargetConstants
<1>3. CASE Differ = {}
  <2>1. a = b
    <3>1. \A i \in 1 .. HashLen : a[i] = b[i]
      BY <1>3
    <3>2. a = [i \in 1 .. HashLen |-> a[i]] /\ b = [i \in 1 .. HashLen |-> b[i]]
      BY DEF Bytes
    <3>3. QED
      BY <3>1, <3>2
  <2>2. QED
    BY <1>1, <2>1 DEF Target!NotAfter
<1>4. CASE Differ # {}
  <2>1. IsFiniteSet(Differ) /\ Differ \in SUBSET Nat
    <3>1. IsFiniteSet(1 .. HashLen) /\ Differ \subseteq 1 .. HashLen /\ 1 .. HashLen \subseteq Nat
      BY FS_Interval DEF Target!TargetConstants
    <3> HIDE DEF Differ
    <3>2. QED
      BY <3>1, FS_Subset
  <2>2. PICK m \in Differ : \A y \in Differ : m <= y
    <3> HIDE DEF Differ
    <3> QED BY <1>4, <2>1, SmallestOf
  <2>3. m \in 1 .. HashLen /\ a[m] # b[m]
    OBVIOUS
  <2>4. \A j \in 1 .. m - 1 : a[j] = b[j] /\ b[j] = a[j]
    <3> SUFFICES ASSUME NEW j \in 1 .. m - 1 PROVE a[j] = b[j]
        OBVIOUS
    <3>1. j \in 1 .. HashLen /\ ~(m <= j)
      BY <2>3 DEF Target!TargetConstants
    <3>2. QED
      BY <2>2, <3>1
  <2>5. CASE a[m] < b[m]
    <3>1. Target!Number(a) < Target!Number(b)
      BY <2>3, <2>4, <2>5, FirstDifference
    <3>2. Target!NotAfter(a, b)
      BY <2>3, <2>4, <2>5 DEF Target!NotAfter
    <3>3. QED
      BY <1>1, <3>1, <3>2
  <2>6. CASE b[m] < a[m]
    <3>1. Target!Number(b) < Target!Number(a)
      BY <2>3, <2>4, <2>6, FirstDifference
    <3>2. ~(Target!Number(a) <= Target!Number(b))
      BY <1>1, <3>1
    <3>3. ~Target!NotAfter(a, b)
      <4> SUFFICES ASSUME Target!NotAfter(a, b) PROVE FALSE
          OBVIOUS
      <4>1. CASE a = b
        BY <2>3, <4>1
      <4>2. CASE \E i \in 1 .. HashLen : a[i] < b[i] /\ \A j \in 1 .. i - 1 : a[j] = b[j]
        <5>1. PICK i \in 1 .. HashLen : a[i] < b[i] /\ \A j \in 1 .. i - 1 : a[j] = b[j]
          BY <4>2
        <5>2. Target!Number(a) < Target!Number(b)
          BY <5>1, FirstDifference
        <5>3. QED
          BY <1>1, <3>2, <5>2
      <4>3. QED
        BY <4>1, <4>2 DEF Target!NotAfter
    <3>4. QED
      BY <3>2, <3>3
  <2>7. QED
    BY <1>2, <2>3, <2>5, <2>6
<1>5. QED
    BY <1>3, <1>4

\* b[k] is the number k, big-endian and without leading zeros.
Digits(b, n) ==
    b = [k \in 0 .. n |-> IF k = 0 THEN << >> ELSE Append(b[k \div Base], k % Base)]

DigitsUpTo(b, n) ==
    /\ b[0] = << >>
    /\ \A k \in 1 .. n : b[k] = Append(b[k \div Base], k % Base)

LEMMA BigEndianDef ==
    ASSUME NEW n PROVE Target!BigEndian(n) = (CHOOSE b : Digits(b, n))[n]
    BY DEF Target!BigEndian, Digits

\* A number but 0 is made of a smaller one and a byte.
LEMMA SmallerNumber ==
    ASSUME Target!TargetConstants, NEW n \in Nat, NEW k \in 1 .. n
    PROVE  k \div Base \in 0 .. k - 1 /\ k % Base \in 0 .. Base - 1
<1>1. k \in Nat /\ k > 0 /\ Base \in Nat /\ Base >= 2
    BY DEF Target!TargetConstants
<1>2. k \div Base \in Nat /\ k \div Base < k /\ k % Base \in 0 .. Base - 1
    BY <1>1, Division
<1> DEFINE q == k \div Base
<1>3. q \in Nat /\ q < k
    BY <1>2
<1> HIDE DEF q
<1>4. q \in 0 .. k - 1
    BY <1>1, <1>3
<1>5. QED
    BY <1>2, <1>4 DEF q

LEMMA DigitsExist ==
    ASSUME Target!TargetConstants, NEW n \in Nat
    PROVE  \A m \in 0 .. n : \E b : b = [k \in 0 .. m |-> b[k]] /\ DigitsUpTo(b, m)
<1> DEFINE Good == {m \in 0 .. n : \E b : b = [k \in 0 .. m |-> b[k]] /\ DigitsUpTo(b, m)}
<1>1. 0 \in Good
  <2> DEFINE b == [k \in 0 .. 0 |-> << >>]
  <2>1. b = [k \in 0 .. 0 |-> b[k]] /\ b[0] = << >>
    OBVIOUS
  <2>2. 1 .. 0 = {}
    OBVIOUS
  <2>3. DigitsUpTo(b, 0)
    BY <2>1, <2>2 DEF DigitsUpTo
  <2> HIDE DEF b
  <2>4. QED
    BY <2>1, <2>3
<1>2. ASSUME NEW m \in 0 .. n - 1, m \in Good PROVE m + 1 \in Good
  <2>1. PICK b : DigitsUpTo(b, m)
    BY <1>2
  <2>2. \A k \in 1 .. m + 1 : k \div Base \in 0 .. k - 1
    BY SmallerNumber
  <2> DEFINE last == Append(b[(m + 1) \div Base], (m + 1) % Base)
             w == [k \in 0 .. m + 1 |-> IF k <= m THEN b[k] ELSE last]
  <2>3. /\ w = [k \in 0 .. m + 1 |-> w[k]] /\ w[m + 1] = last
        /\ \A k \in 0 .. m : w[k] = b[k]
    <3> HIDE DEF last
    <3> QED OBVIOUS
  <2>4. ASSUME NEW k \in 1 .. m + 1 PROVE w[k] = Append(w[k \div Base], k % Base)
    <3>1. k \div Base \in 0 .. m
      <4> DEFINE q == k \div Base
      <4>1. q \in 0 .. k - 1
        BY <2>2
      <4> HIDE DEF q
      <4>2. q \in 0 .. m
        BY <4>1
      <4>3. QED
        BY <4>2 DEF q
    <3>2. CASE k = m + 1
      <4>1. w[k] = last
        BY <2>3, <3>2
      <4>2. w[k \div Base] = b[k \div Base]
        BY <2>3, <3>1
      <4> HIDE DEF w
      <4>3. QED
        BY <3>2, <4>1, <4>2
    <3>3. CASE k # m + 1
      <4>1. k \in 1 .. m /\ k \in 0 .. m
        BY <3>3
      <4> HIDE DEF w, last
      <4>2. w[k] = b[k] /\ w[k \div Base] = b[k \div Base]
        BY <2>3, <3>1, <4>1
      <4>3. b[k] = Append(b[k \div Base], k % Base)
        BY <2>1, <4>1 DEF DigitsUpTo
      <4>4. QED
        BY <4>2, <4>3
    <3>4. QED
      BY <3>2, <3>3
  <2>5. w[0] = << >>
    <3>1. 0 \in 0 .. m
      OBVIOUS
    <3> HIDE DEF w
    <3>2. QED
      BY <2>1, <2>3, <3>1 DEF DigitsUpTo
  <2>6. m + 1 \in 0 .. n
    OBVIOUS
  <2> HIDE DEF w
  <2>7. DigitsUpTo(w, m + 1)
    BY <2>4, <2>5 DEF DigitsUpTo
  <2>8. QED
    BY <2>3, <2>6, <2>7
<1>3. \A m \in 0 .. n : m \in Good
  <2> HIDE DEF Good
  <2> QED BY <1>1, <1>2, IntervalInduction
<1>4. QED
    BY <1>3

LEMMA BigEndianIsDigits ==
    ASSUME Target!TargetConstants, NEW n \in Nat
    PROVE  \E b : DigitsUpTo(b, n) /\ Target!BigEndian(n) = b[n]
<1>1. n \in 0 .. n
    OBVIOUS
<1>2. PICK b : b = [k \in 0 .. n |-> b[k]] /\ DigitsUpTo(b, n)
    BY <1>1, DigitsExist
<1>3. Digits(b, n)
  <2>1. \A k \in 0 .. n :
            b[k] = IF k = 0 THEN << >> ELSE Append(b[k \div Base], k % Base)
    <3>1. \A k \in 0 .. n : k = 0 \/ k \in 1 .. n
      OBVIOUS
    <3>2. QED
      BY <1>2, <3>1 DEF DigitsUpTo
  <2>2. [k \in 0 .. n |-> b[k]]
          = [k \in 0 .. n |-> IF k = 0 THEN << >> ELSE Append(b[k \div Base], k % Base)]
    BY <2>1
  <2>3. QED
    BY <1>2, <2>2 DEF Digits
<1> DEFINE w == CHOOSE x : Digits(x, n)
<1>4. Digits(w, n)
    BY <1>3
<1> HIDE DEF w
<1>5. \A k \in 0 .. n : w[k] = IF k = 0 THEN << >> ELSE Append(w[k \div Base], k % Base)
    BY <1>4 DEF Digits
<1>6. DigitsUpTo(w, n)
  <2>1. 0 \in 0 .. n /\ \A k \in 1 .. n : k \in 0 .. n /\ k # 0
    OBVIOUS
  <2>2. QED
    BY <1>5, <2>1 DEF DigitsUpTo
<1>7. Target!BigEndian(n) = w[n]
    BY BigEndianDef DEF w
<1>8. QED
    BY <1>6, <1>7

\* s with zeros in front, m bytes in all.
Padded(s, m) == [i \in 1 .. m |-> IF i <= m - Len(s) THEN 0 ELSE s[i - (m - Len(s))]]

Largest == [i \in 1 .. HashLen |-> Base - 1]

\* What is not above the largest number of m bytes has at most m bytes, and padded
\* they stand for it.
LEMMA DigitsStandFor ==
    ASSUME Target!TargetConstants, NEW n \in Nat, NEW b, DigitsUpTo(b, n),
           NEW M, ValuesUpTo(M, Largest, HashLen)
    PROVE  \A m \in 0 .. HashLen : \A k \in 0 .. n : k <= M[m] =>
               /\ b[k] \in Seq(0 .. Base - 1) /\ Len(b[k]) <= m
               /\ \E u : ValuesUpTo(u, Padded(b[k], m), m) /\ u[m] = k
<1> DEFINE Fits(k, m) ==
               /\ b[k] \in Seq(0 .. Base - 1) /\ Len(b[k]) <= m
               /\ \E u : ValuesUpTo(u, Padded(b[k], m), m) /\ u[m] = k
           Good == {m \in 0 .. HashLen : \A k \in 0 .. n : k <= M[m] => Fits(k, m)}
<1>1. HashLen \in Nat /\ Base \in Nat /\ Base >= 2 /\ 0 \in 0 .. Base - 1
    BY DEF Target!TargetConstants
\* The number 0, of any length.
<1>2. ASSUME NEW m \in Nat PROVE Fits(0, m)
  <2>1. b[0] = << >> /\ << >> \in Seq(0 .. Base - 1) /\ Len(<< >>) = 0
    BY DEF DigitsUpTo
  <2>2. \A i \in 1 .. m : i <= m - Len(b[0])
    BY <2>1
  <2>3. \A i \in 1 .. m : Padded(b[0], m)[i] = 0
    BY <2>2 DEF Padded
  <2> DEFINE u == [i \in 0 .. m |-> 0]
  <2>4. \A i \in 1 .. m : i \in 0 .. m /\ i - 1 \in 0 .. m
    OBVIOUS
  <2>5. u[0] = 0 /\ u[m] = 0 /\ \A i \in 1 .. m : u[i] = 0 /\ u[i - 1] = 0
    BY <2>4
  <2> HIDE DEF u
  <2>6. 0 = 0 * Base + 0
    BY <1>1
  <2>7. ValuesUpTo(u, Padded(b[0], m), m)
    BY <2>3, <2>5, <2>6 DEF ValuesUpTo
  <2>8. Len(b[0]) <= m
    BY <2>1
  <2>9. QED
    BY <2>1, <2>5, <2>7, <2>8
<1>3. \A m \in 0 .. HashLen : M[m] \in Nat
  <2>1. Largest \in Bytes(HashLen)
    BY <1>1 DEF Largest, Bytes
  <2>2. QED
    BY <1>1, <2>1, ValuesAreNat
<1>4. 0 \in Good
  <2> SUFFICES ASSUME NEW k \in 0 .. n, k <= M[0] PROVE Fits(k, 0)
      BY <1>1
  <2>1. M[0] = 0
    BY DEF ValuesUpTo
  <2>2. k = 0
    BY <2>1
  <2> HIDE DEF Fits
  <2>3. QED
    BY <1>2, <2>2
<1>5. ASSUME NEW m \in 0 .. HashLen - 1, m \in Good, NEW k \in 1 .. n, k <= M[m + 1]
      PROVE  Fits(k, m + 1)
  <2> DEFINE q == k \div Base
             r == k % Base
             s == b[q]
  <2>1. m \in Nat /\ m \in 0 .. HashLen /\ m + 1 \in 1 .. HashLen /\ (m + 1) - 1 = m
    BY <1>1
  <2>2. /\ q \in Nat /\ r \in 0 .. Base - 1 /\ q * Base + r = k
        /\ \A c \in Nat : k <= c * Base + (Base - 1) => q <= c
    <3>1. k \in Nat
      OBVIOUS
    <3>2. /\ k \div Base \in Nat /\ k % Base \in 0 .. Base - 1
          /\ (k \div Base) * Base + (k % Base) = k
          /\ \A c \in Nat : k <= c * Base + (Base - 1) => k \div Base <= c
      BY <1>1, <3>1, Division
    <3>3. QED
      BY <3>2, Zenon
  <2>3. q \in 0 .. n
    <3>1. q \in 0 .. k - 1
      BY SmallerNumber
    <3> HIDE DEF q
    <3>2. QED
      BY <3>1
  <2>4. b[k] = Append(s, r)
    BY DEF DigitsUpTo
  <2> HIDE DEF q, r
  <2>5. q <= M[m]
    <3>1. Largest[m + 1] = Base - 1
      BY <2>1 DEF Largest
    <3>2. M[m + 1] = M[m] * Base + (Base - 1)
      BY <2>1, <3>1 DEF ValuesUpTo
    <3>3. k <= M[m] * Base + (Base - 1) /\ M[m] \in Nat
      BY <1>3, <1>5, <2>1, <3>2
    <3>4. QED
      BY <2>2, <3>3
  <2>6. Fits(q, m)
    <3> HIDE DEF Fits
    <3> QED BY <1>5, <2>3, <2>5
  <2>7. s \in Seq(0 .. Base - 1) /\ Len(s) <= m /\ Len(s) \in Nat
    BY <2>6
  <2>8. PICK u : ValuesUpTo(u, Padded(s, m), m) /\ u[m] = q
    BY <2>6
  <2> HIDE DEF s
  <2>9. /\ b[k] \in Seq(0 .. Base - 1) /\ Len(b[k]) = Len(s) + 1
        /\ b[k][Len(s) + 1] = r /\ \A i \in 1 .. Len(s) : b[k][i] = s[i]
    BY <2>2, <2>4, <2>7, AppendProperties
  <2>10. (m + 1) - Len(b[k]) = m - Len(s)
    BY <2>1, <2>7, <2>9
  <2>11. \A i \in 1 .. m + 1 :
             Padded(b[k], m + 1)[i] = IF i <= m - Len(s) THEN 0 ELSE b[k][i - (m - Len(s))]
    BY <2>10 DEF Padded
  <2>12. Padded(b[k], m + 1)[m + 1] = r
    <3>1. m + 1 \in 1 .. m + 1 /\ ~(m + 1 <= m - Len(s)) /\ (m + 1) - (m - Len(s)) = Len(s) + 1
      BY <2>1, <2>7
    <3>2. QED
      BY <2>9, <2>11, <3>1
  <2>13. ASSUME NEW i \in 1 .. m PROVE Padded(b[k], m + 1)[i] = Padded(s, m)[i]
    <3>1. i \in 1 .. m + 1
      BY <2>1
    <3>2. Padded(s, m)[i] = IF i <= m - Len(s) THEN 0 ELSE s[i - (m - Len(s))]
      BY DEF Padded
    <3>3. CASE i <= m - Len(s)
      BY <2>11, <3>1, <3>2, <3>3
    <3>4. CASE ~(i <= m - Len(s))
      <4>1. i - (m - Len(s)) \in 1 .. Len(s)
        <5> DEFINE l == Len(s)
        <5>1. l \in Nat /\ l <= m /\ ~(i <= m - l)
          BY <2>7, <3>4
        <5> HIDE DEF l
        <5>2. i - (m - l) \in 1 .. l
          BY <2>1, <5>1
        <5>3. QED
          BY <5>2 DEF l
      <4>2. QED
        BY <2>9, <2>11, <3>1, <3>2, <3>4, <4>1
    <3>5. QED
      BY <3>3, <3>4
  <2> DEFINE w == [i \in 0 .. m + 1 |-> IF i <= m THEN u[i] ELSE k]
  <2>14. w[m + 1] = k /\ \A i \in 0 .. m : w[i] = u[i]
    BY <2>1
  <2> HIDE DEF w
  <2>15. ASSUME NEW i \in 1 .. m + 1 PROVE w[i] = w[i - 1] * Base + Padded(b[k], m + 1)[i]
    <3>1. CASE i = m + 1
      <4>1. i - 1 = m /\ m \in 0 .. m
        BY <2>1, <3>1
      <4>2. w[i] = k /\ w[i - 1] = q
        BY <2>8, <2>14, <3>1, <4>1
      <4>3. QED
        BY <2>2, <2>12, <3>1, <4>2
    <3>2. CASE i # m + 1
      <4>1. i \in 1 .. m /\ i \in 0 .. m /\ i - 1 \in 0 .. m
        BY <2>1, <3>2
      <4>2. w[i] = u[i] /\ w[i - 1] = u[i - 1]
        BY <2>14, <4>1
      <4>3. u[i] = u[i - 1] * Base + Padded(s, m)[i]
        BY <2>8, <4>1 DEF ValuesUpTo
      <4>4. QED
        BY <2>13, <4>1, <4>2, <4>3
    <3>3. QED
      BY <3>1, <3>2
  <2>16. w[0] = 0
    <3>1. 0 \in 0 .. m
      BY <2>1
    <3>2. QED
      BY <2>8, <2>14, <3>1 DEF ValuesUpTo
  <2>17. ValuesUpTo(w, Padded(b[k], m + 1), m + 1)
    BY <2>15, <2>16 DEF ValuesUpTo
  <2>18. Len(b[k]) <= m + 1
    BY <2>1, <2>7, <2>9
  <2>19. QED
    BY <2>9, <2>14, <2>17, <2>18
<1>6. ASSUME NEW m \in 0 .. HashLen - 1, m \in Good PROVE m + 1 \in Good
  <2>1. m + 1 \in 0 .. HashLen /\ m + 1 \in Nat
    BY <1>1
  <2>2. ASSUME NEW k \in 0 .. n, k <= M[m + 1] PROVE Fits(k, m + 1)
    <3>1. k = 0 \/ k \in 1 .. n
      OBVIOUS
    <3> HIDE DEF Fits, Good
    <3>2. QED
      BY <1>2, <1>5, <1>6, <2>1, <2>2, <3>1
  <2> HIDE DEF Fits
  <2>3. QED
    BY <2>1, <2>2
<1>7. \A m \in 0 .. HashLen : m \in Good
  <2> HIDE DEF Good
  <2> QED BY <1>1, <1>4, <1>6, IntervalInduction
<1>8. QED
    BY <1>7

\* The bytes that a hash is compared with stand for the target.
LEMMA TargetBytes ==
    ASSUME Target!TargetConstants, NEW d \in Nat
    PROVE  /\ Target!maxBigInt \in Nat /\ Target!GetTarget(d) \in Nat
           /\ Target!GetTargetBytes(d) \in Bytes(HashLen)
           /\ Target!Number(Target!GetTargetBytes(d)) = Target!GetTarget(d)
<1> DEFINE n == Target!GetTarget(d)
           byt == Target!BigEndian(n)
           len == Len(byt)
           zeros == Target!Zeros(HashLen - len)
           bytes == Target!GetTargetBytes(d)
<1>1. HashLen \in Nat /\ HashLen \in 0 .. HashLen /\ Base \in Nat /\ 0 \in 0 .. Base - 1
    BY DEF Target!TargetConstants
<1>2. PICK M : ValuesUpTo(M, Largest, HashLen) /\ Target!Number(Largest) = M[HashLen]
    BY NumberIsValue
<1>3. Largest \in Bytes(HashLen)
    BY <1>1 DEF Largest, Bytes, Target!TargetConstants
<1>4. Target!maxBigInt = M[HashLen] /\ Target!maxBigInt \in Nat
    BY <1>2, <1>3, NumberIsNat DEF Target!maxBigInt, Largest
<1>5. n \in Nat /\ n <= M[HashLen]
  <2>1. CASE d = 0
    BY <1>4, <2>1 DEF Target!GetTarget
  <2>2. CASE d # 0
    <3>1. n = Target!maxBigInt \div d
      BY <2>2 DEF Target!GetTarget
    <3> DEFINE x == Target!maxBigInt
    <3>2. x \in Nat
      BY <1>4
    <3> HIDE DEF x
    <3>3. d \in Nat \ {0} /\ x <= x * d
      BY <2>2, <3>2
    <3>4. x \div d \in Nat /\ x \div d <= x
      BY <3>2, <3>3, QuotientBounds
    <3>5. QED
      BY <1>4, <3>1, <3>4 DEF x
  <2>3. QED
    BY <2>1, <2>2
<1> HIDE DEF n
<1>6. PICK b : DigitsUpTo(b, n) /\ byt = b[n]
    BY <1>5, BigEndianIsDigits
<1>7. /\ byt \in Seq(0 .. Base - 1) /\ len <= HashLen
      /\ \E u : ValuesUpTo(u, Padded(byt, HashLen), HashLen) /\ u[HashLen] = n
  <2>1. n \in 0 .. n
    BY <1>5
  <2> HIDE DEF byt
  <2>2. QED
    BY <1>1, <1>2, <1>5, <1>6, <2>1, DigitsStandFor
<1> HIDE DEF byt
<1>8. PICK u : ValuesUpTo(u, Padded(byt, HashLen), HashLen) /\ u[HashLen] = n
    BY <1>7
<1>9. len \in Nat /\ HashLen - len \in Nat
  <2>1. len \in Nat
    BY <1>7
  <2> HIDE DEF len
  <2>2. QED
    BY <1>1, <1>7, <2>1
<1>10. /\ zeros \in Seq(0 .. Base - 1) /\ Len(zeros) = HashLen - len
       /\ \A i \in 1 .. HashLen - len : zeros[i] = 0
  <2> DEFINE z == HashLen - len
  <2>1. z \in Nat
    BY <1>9
  <2>2. zeros = [i \in 1 .. z |-> 0]
    BY DEF Target!Zeros
  <2> HIDE DEF z, zeros
  <2>3. zeros \in Seq(0 .. Base - 1) /\ Len(zeros) = z /\ \A i \in 1 .. z : zeros[i] = 0
    BY <1>1, <2>1, <2>2
  <2>4. QED
    BY <2>3 DEF z
<1>11. bytes = zeros \o byt
    BY DEF Target!GetTargetBytes, n, byt
<1> HIDE DEF bytes, zeros
<1>12. /\ bytes \in Seq(0 .. Base - 1) /\ Len(bytes) = Len(zeros) + Len(byt)
       /\ \A i \in 1 .. Len(zeros) + Len(byt) :
              bytes[i] = IF i <= Len(zeros) THEN zeros[i] ELSE byt[i - Len(zeros)]
    BY <1>7, <1>10, <1>11, ConcatProperties
<1>13. (HashLen - len) + len = HashLen /\ Len(byt) = len
  <2>1. Len(byt) = len
    OBVIOUS
  <2> HIDE DEF len
  <2>2. (HashLen - len) + len = HashLen
    BY <1>1, <1>9
  <2>3. QED
    BY <2>1, <2>2
<1>14. Len(bytes) = HashLen
    BY <1>10, <1>12, <1>13
<1>15. ASSUME NEW i \in 1 .. HashLen PROVE bytes[i] = Padded(byt, HashLen)[i]
  <2>1. Padded(byt, HashLen)[i] = IF i <= HashLen - len THEN 0 ELSE byt[i - (HashLen - len)]
    BY DEF Padded
  <2>2. bytes[i] = IF i <= HashLen - len THEN zeros[i] ELSE byt[i - (HashLen - len)]
    BY <1>10, <1>12, <1>13
  <2> HIDE DEF len
  <2>3. i <= HashLen - len => i \in 1 .. HashLen - len
    BY <1>9
  <2>4. QED
    BY <1>10, <2>1, <2>2, <2>3
<1>16. bytes \in Bytes(HashLen)
  <2>1. bytes \in [1 .. Len(bytes) -> 0 .. Base - 1]
    BY <1>12, LenProperties
  <2>2. QED
    BY <1>14, <2>1 DEF Bytes
<1>17. Target!Number(bytes) = n
  <2>1. PICK v : ValuesUpTo(v, bytes, HashLen) /\ Target!Number(bytes) = v[HashLen]
    BY NumberIsValue
  <2>2. ValuesUpTo(u, bytes, HashLen)
    BY <1>8, <1>15 DEF ValuesUpTo
  <2>3. QED
    BY <1>1, <1>8, <2>1, <2>2, ValuesAgree
<1>18. QED
    BY <1>4, <1>5, <1>16, <1>17 DEF n, bytes

\* A product is within a bound when its factor is within the quotient.
LEMMA QuotientIsExact ==
    ASSUME NEW a \in Nat, NEW p \in Nat \ {0}, NEW c \in Nat
    PROVE  c <= a \div p <=> c * p <= a
<1>1. c <= a \div p => c * p <= a
    OBVIOUS
<1>2. QED
    BY <1>1, QuotientBounds

LEMMA CheckDiffDecides ==
    ASSUME Target!TargetConstants, NEW h \in Bytes(HashLen), NEW d \in Nat
    PROVE  Target!CheckDiff(h, d) <=>
               IF d = 0 THEN Target!Number(h) = 0 ELSE Target!Number(h) * d <= Target!maxBigInt
<1>1. Target!Number(h) \in Nat /\ Target!maxBigInt \in Nat
    BY NumberIsNat, TargetBytes
<1>2. Target!CheckDiff(h, d) <=> Target!Number(h) <= Target!GetTarget(d)
    BY BytesCompare, TargetBytes DEF Target!CheckDiff
<1>3. CASE d = 0
  <2>1. Target!GetTarget(d) = 0
    BY <1>3 DEF Target!GetTarget
  <2>2. Target!Number(h) <= 0 <=> Target!Number(h) = 0
    BY <1>1
  <2>3. QED
    BY <1>2, <1>3, <2>1, <2>2, Zenon
<1>4. CASE d # 0
  <2>1. Target!GetTarget(d) = Target!maxBigInt \div d
    BY <1>4 DEF Target!GetTarget
  <2>2. Target!Number(h) <= Target!maxBigInt \div d <=> Target!Number(h) * d <= Target!maxBigInt
    BY <1>1, <1>4, QuotientIsExact
  <2>3. QED
    BY <1>2, <1>4, <2>1, <2>2, Zenon
<1>5. QED
    BY <1>3, <1>4

\* For every base and length of a hash and every difficulty, a share is accepted
\* exactly when its hash times the difficulty is not above the largest number.
THEOREM CheckDiffIsExactCorrect == Target!Spec => []CheckDiffIsExact
<1> DEFINE Verdict(h, d) == IF Target!CheckDiff(h, d) THEN "yes" ELSE "no"
           Inv == /\ hash \in Bytes(HashLen) /\ diff \in Nat
                  /\ \/ accepted = "untested"
                     \/ \E h \in Bytes(HashLen), d \in Nat :
                            h = hash /\ d = diff /\ accepted = Verdict(h, d)
<1>1. Target!Init => Inv
    BY RulesAssumption DEF Target!Init, Bytes, Target!TargetConstants
<1>2. Inv /\ [Target!Next]_(Target!vars) => Inv'
  <2> SUFFICES ASSUME Inv, [Target!Next]_(Target!vars) PROVE Inv'
      OBVIOUS
  <2>1. CASE Target!Test
    <3>1. UNCHANGED <<hash, diff>> /\ accepted' = Verdict(hash, diff)
      BY <2>1 DEF Target!Test
    <3> HIDE DEF Verdict
    <3>2. QED
      BY <3>1
  <2>2. CASE UNCHANGED Target!vars
    <3> HIDE DEF Verdict
    <3> QED BY <2>2 DEF Target!vars
  <2>3. QED
    BY <2>1, <2>2 DEF Target!Next
<1>3. Inv => CheckDiffIsExact
  <2> SUFFICES ASSUME Inv, accepted # "untested"
               PROVE  accepted = "yes" <=>
                          IF diff = 0 THEN Target!Number(hash) = 0
                          ELSE Target!Number(hash) * diff <= Target!maxBigInt
      BY DEF CheckDiffIsExact, Target!CheckDiffIsExact
  <2>1. accepted = "yes" <=> Target!CheckDiff(hash, diff)
    OBVIOUS
  <2>2. Target!CheckDiff(hash, diff) <=>
            IF diff = 0 THEN Target!Number(hash) = 0
            ELSE Target!Number(hash) * diff <= Target!maxBigInt
    BY CheckDiffDecides, RulesAssumption
  <2> HIDE DEF Inv
  <2>3. QED
    BY <2>1, <2>2, Zenon
<1>4. QED
  <2> HIDE DEF Inv
  <2> QED BY <1>1, <1>2, <1>3, PTL DEF Target!Spec

-----------------------------------------------------------------------------
(* The bytes of a record.  The recursive functions of Records are tables,  *)
(* too.                                                                    *)
(*                                                                         *)
(* First what the bytes of an integer are; then what a reader does at a    *)
(* place of the bytes where an integer, a string or a list stands, if they *)
(* are all there and if they end before; then the records field by field.  *)

\* v[i] is the value of the last i of the first n bytes of s.
Littles(v, s, n, b) ==
    v = [i \in 0 .. n |-> IF i = 0 THEN 0 ELSE (s[n - i + 1] % b) + b * v[i - 1]]

LittlesUpTo(v, s, n, b, m) ==
    /\ v[0] = 0
    /\ \A i \in 1 .. m : v[i] = (s[n - i + 1] % b) + b * v[i - 1]

LEMMA LittleEndianDef ==
    ASSUME NEW s, NEW n, NEW b
    PROVE  Format!LittleEndian(s, n, b) = (CHOOSE v : Littles(v, s, n, b))[n]
    BY DEF Format!LittleEndian, Littles

LEMMA LittlesExist ==
    ASSUME NEW n \in Nat, NEW s, NEW b
    PROVE  \A m \in 0 .. n : \E v : v = [i \in 0 .. m |-> v[i]] /\ LittlesUpTo(v, s, n, b, m)
<1> DEFINE Good == {m \in 0 .. n : \E v : v = [i \in 0 .. m |-> v[i]] /\ LittlesUpTo(v, s, n, b, m)}
<1>1. 0 \in Good
  <2> DEFINE v == [i \in 0 .. 0 |-> 0]
  <2>1. v = [i \in 0 .. 0 |-> v[i]] /\ v[0] = 0
    OBVIOUS
  <2>2. 1 .. 0 = {}
    OBVIOUS
  <2>3. LittlesUpTo(v, s, n, b, 0)
    BY <2>1, <2>2 DEF LittlesUpTo
  <2> HIDE DEF v
  <2>4. QED
    BY <2>1, <2>3
<1>2. ASSUME NEW m \in 0 .. n - 1, m \in Good PROVE m + 1 \in Good
  <2>1. PICK v : LittlesUpTo(v, s, n, b, m)
    BY <1>2
  <2> DEFINE last == (s[n - (m + 1) + 1] % b) + b * v[m]
             w == [i \in 0 .. m + 1 |-> IF i <= m THEN v[i] ELSE last]
  <2>2. w[0] = v[0] /\ w[m + 1] = last /\ w[m] = v[m] /\ \A i \in 0 .. m : w[i] = v[i]
    <3> HIDE DEF last
    <3> QED OBVIOUS
  <2>3. ASSUME NEW i \in 1 .. m + 1 PROVE w[i] = (s[n - i + 1] % b) + b * w[i - 1]
    <3>1. CASE i = m + 1
      <4>1. i - 1 = m
        BY <3>1
      <4> HIDE DEF w
      <4>2. QED
        BY <2>2, <3>1, <4>1
    <3>2. CASE i # m + 1
      <4>1. i \in 1 .. m /\ i \in 0 .. m /\ i - 1 \in 0 .. m
        BY <3>2
      <4> HIDE DEF w
      <4>2. w[i] = v[i] /\ w[i - 1] = v[i - 1]
        BY <2>2, <4>1
      <4>3. QED
        BY <2>1, <4>1, <4>2 DEF LittlesUpTo
    <3>3. QED
      BY <3>1, <3>2
  <2>4. w = [i \in 0 .. m + 1 |-> w[i]]
    OBVIOUS
  <2>5. LittlesUpTo(w, s, n, b, m + 1)
    <3> HIDE DEF w
    <3> QED BY <2>1, <2>2, <2>3 DEF LittlesUpTo
  <2>6. m + 1 \in 0 .. n
    OBVIOUS
  <2> HIDE DEF w
  <2>7. QED
    BY <2>4, <2>5, <2>6
<1>3. \A m \in 0 .. n : m \in Good
  <2> HIDE DEF Good
  <2> QED BY <1>1, <1>2, IntervalInduction
<1>4. QED
    BY <1>3

LEMMA LittleEndianIsLast ==
    ASSUME NEW n \in Nat, NEW s, NEW b
    PROVE  \E v : LittlesUpTo(v, s, n, b, n) /\ Format!LittleEndian(s, n, b) = v[n]
<1>1. n \in 0 .. n
    OBVIOUS
<1>2. PICK v : v = [i \in 0 .. n |-> v[i]] /\ LittlesUpTo(v, s, n, b, n)
    BY <1>1, LittlesExist
<1>3. Littles(v, s, n, b)
  <2>1. \A i \in 0 .. n : v[i] = IF i = 0 THEN 0 ELSE (s[n - i + 1] % b) + b * v[i - 1]
    <3>1. \A i \in 0 .. n : i = 0 \/ (i # 0 /\ i \in 1 .. n)
      OBVIOUS
    <3>2. QED
      BY <1>2, <3>1 DEF LittlesUpTo
  <2>2. [i \in 0 .. n |-> v[i]]
          = [i \in 0 .. n |-> IF i = 0 THEN 0 ELSE (s[n - i + 1] % b) + b * v[i - 1]]
    BY <2>1
  <2>3. QED
    BY <1>2, <2>2 DEF Littles
<1> DEFINE w == CHOOSE x : Littles(x, s, n, b)
<1>4. Littles(w, s, n, b)
    BY <1>3
<1> HIDE DEF w
<1>5. \A i \in 0 .. n : w[i] = IF i = 0 THEN 0 ELSE (s[n - i + 1] % b) + b * w[i - 1]
    BY <1>4 DEF Littles
<1>6. LittlesUpTo(w, s, n, b, n)
  <2>1. 0 \in 0 .. n /\ \A i \in 1 .. n : i \in 0 .. n /\ i # 0
    OBVIOUS
  <2>2. QED
    BY <1>5, <2>1 DEF LittlesUpTo
<1>7. Format!LittleEndian(s, n, b) = w[n]
    BY LittleEndianDef DEF w
<1>8. QED
    BY <1>6, <1>7

\* The same bytes, counted from the end, have the same values.
LEMMA LittlesAgree ==
    ASSUME NEW b, NEW m \in Nat, NEW s, NEW n \in Nat, NEW t, NEW k \in Nat, NEW v, NEW w,
           LittlesUpTo(v, s, n, b, m), LittlesUpTo(w, t, k, b, m),
           \A i \in 1 .. m : s[n - i + 1] = t[k - i + 1]
    PROVE  \A i \in 0 .. m : v[i] = w[i]
<1> DEFINE Good == {i \in 0 .. m : v[i] = w[i]}
<1>1. 0 \in Good
    BY DEF LittlesUpTo
<1>2. ASSUME NEW i \in 0 .. m - 1, i \in Good PROVE i + 1 \in Good
  <2>1. i + 1 \in 1 .. m /\ (i + 1) - 1 = i /\ i + 1 \in 0 .. m
    OBVIOUS
  <2>2. /\ v[i + 1] = (s[n - (i + 1) + 1] % b) + b * v[i]
        /\ w[i + 1] = (t[k - (i + 1) + 1] % b) + b * w[i]
    BY <2>1 DEF LittlesUpTo
  <2>3. s[n - (i + 1) + 1] = t[k - (i + 1) + 1]
    BY <2>1
  <2>4. QED
    BY <1>2, <2>1, <2>2, <2>3
<1>3. \A i \in 0 .. m : i \in Good
  <2> HIDE DEF Good
  <2> QED BY <1>1, <1>2, IntervalInduction
<1>4. QED
    BY <1>3

\* Only the first n bytes matter.
LEMMA SameLittleEndian ==
    ASSUME NEW n \in Nat, NEW s, NEW t, NEW b, \A i \in 1 .. n : s[i] = t[i]
    PROVE  Format!LittleEndian(s, n, b) = Format!LittleEndian(t, n, b)
<1>1. PICK v : LittlesUpTo(v, s, n, b, n) /\ Format!LittleEndian(s, n, b) = v[n]
    BY LittleEndianIsLast
<1>2. PICK w : LittlesUpTo(w, t, n, b, n) /\ Format!LittleEndian(t, n, b) = w[n]
    BY LittleEndianIsLast
<1>3. \A i \in 1 .. n : s[n - i + 1] = t[n - i + 1]
  <2>1. \A i \in 1 .. n : n - i + 1 \in 1 .. n
    OBVIOUS
  <2>2. QED
    BY <2>1
<1>4. \A i \in 0 .. n : v[i] = w[i]
  <2>1. LittlesUpTo(v, s, n, b, n) /\ LittlesUpTo(w, t, n, b, n)
    BY <1>1, <1>2
  <2>2. QED
    BY <1>3, <2>1, LittlesAgree
<1>5. n \in 0 .. n
    OBVIOUS
<1>6. QED
    BY <1>1, <1>2, <1>4, <1>5

\* No bytes are 0, and the first byte is the lowest one.
LEMMA LittleEndianStep ==
    ASSUME NEW s, NEW b
    PROVE  /\ Format!LittleEndian(s, 0, b) = 0
           /\ \A n \in Nat : \A t : (\A i \in 1 .. n : t[i] = s[i + 1])
                => Format!LittleEndian(s, n + 1, b) = (s[1] % b) + b * Format!LittleEndian(t, n, b)
<1>1. Format!LittleEndian(s, 0, b) = 0
  <2>1. PICK v : LittlesUpTo(v, s, 0, b, 0) /\ Format!LittleEndian(s, 0, b) = v[0]
    BY LittleEndianIsLast
  <2>2. QED
    BY <2>1 DEF LittlesUpTo
<1>2. ASSUME NEW n \in Nat, NEW t, \A i \in 1 .. n : t[i] = s[i + 1]
      PROVE  Format!LittleEndian(s, n + 1, b) = (s[1] % b) + b * Format!LittleEndian(t, n, b)
  <2>1. n + 1 \in Nat
    OBVIOUS
  <2>2. PICK v : LittlesUpTo(v, s, n + 1, b, n + 1) /\ Format!LittleEndian(s, n + 1, b) = v[n + 1]
    BY <2>1, LittleEndianIsLast
  <2>3. PICK w : LittlesUpTo(w, t, n, b, n) /\ Format!LittleEndian(t, n, b) = w[n]
    BY LittleEndianIsLast
  <2>4. n + 1 \in 1 .. n + 1 /\ (n + 1) - (n + 1) + 1 = 1 /\ (n + 1) - 1 = n /\ n \in 0 .. n
    OBVIOUS
  <2>5. v[n + 1] = (s[1] % b) + b * v[n]
    BY <2>2, <2>4 DEF LittlesUpTo
  <2>6. LittlesUpTo(v, s, n + 1, b, n)
    <3>1. \A i \in 1 .. n : i \in 1 .. n + 1
      OBVIOUS
    <3>2. QED
      BY <2>2, <3>1 DEF LittlesUpTo
  <2>7. \A i \in 1 .. n : s[(n + 1) - i + 1] = t[n - i + 1]
    <3>1. \A i \in 1 .. n : n - i + 1 \in 1 .. n /\ (n - i + 1) + 1 = (n + 1) - i + 1
      OBVIOUS
    <3>2. QED
      BY <1>2, <3>1
  <2>8. v[n] = w[n]
    <3>1. LittlesUpTo(w, t, n, b, n)
      BY <2>3
    <3>2. \A i \in 0 .. n : v[i] = w[i]
      BY <2>1, <2>6, <2>7, <3>1, LittlesAgree
    <3>3. QED
      BY <2>4, <3>2
  <2>9. QED
    BY <2>2, <2>3, <2>5, <2>8
<1>3. QED
    BY <1>1, <1>2

\* The first digit, and the number that the others make.
RestOf(t, s, n) == n \in Nat /\ \A i \in 1 .. n : t[i] = s[i + 1]
StepsTo(s, t, n, b) ==
    Format!LittleEndian(s, n + 1, b) = (s[1] % b) + b * Format!LittleEndian(t, n, b)

LEMMA LittleEndianRest ==
    ASSUME NEW s, NEW t, NEW n, NEW b, RestOf(t, s, n)
    PROVE  StepsTo(s, t, n, b)
<1>1. n \in Nat /\ \A i \in 1 .. n : t[i] = s[i + 1]
    BY DEF RestOf
<1>2. \A m \in Nat : \A u : (\A i \in 1 .. m : u[i] = s[i + 1])
         => Format!LittleEndian(s, m + 1, b) = (s[1] % b) + b * Format!LittleEndian(u, m, b)
    BY LittleEndianStep
<1>3. Format!LittleEndian(s, n + 1, b) = (s[1] % b) + b * Format!LittleEndian(t, n, b)
    BY <1>1, <1>2
<1>4. QED
    BY <1>3 DEF StepsTo

\* The remainder of a digit, with and without the bit above it.
LEMMA DigitRemainder ==
    ASSUME NEW p \in Nat, p >= 2, NEW c \in 0 .. p - 1
    PROVE  c % p = c /\ (c + p) % p = c
<1>1. p > 0 /\ c \in Int /\ c + p \in Int
    OBVIOUS
<1>2. c % p = c
    BY <1>1
<1>3. (c + p) % p = c
    BY <1>1
<1>4. QED
    BY <1>2, <1>3

\* u[k] is the varint of k.
Uvarint(u, k) == IF k < Half THEN <<k>> ELSE <<(k % Half) + Half>> \o u[k \div Half]

Uvarints(u, n) == u = [k \in 0 .. n |-> Uvarint(u, k)]

UvarintsUpTo(u, n) == \A k \in 0 .. n : u[k] = Uvarint(u, k)

LEMMA AddUvarintDef ==
    ASSUME NEW n PROVE Format!AddUvarint(n) = (CHOOSE u : Uvarints(u, n))[n]
    BY DEF Format!AddUvarint, Uvarints, Uvarint

\* A number that needs another byte is made of a smaller one.
LEMMA SmallerVarint ==
    ASSUME Format!RecordsConstants, NEW k \in Nat, k >= Half
    PROVE  k \div Half \in 0 .. k - 1
<1>1. k > 0 /\ Half \in Nat /\ Half >= 2
    BY DEF Format!RecordsConstants
<1> DEFINE q == k \div Half
<1>2. q \in Nat /\ q < k
    BY <1>1, Division
<1> HIDE DEF q
<1>3. q \in 0 .. k - 1
    BY <1>1, <1>2
<1>4. QED
    BY <1>3 DEF q

\* An entry depends on the entries below it only.
LEMMA SameUvarint ==
    ASSUME Format!RecordsConstants, NEW k \in Nat, NEW u, NEW w, \A j \in 0 .. k - 1 : u[j] = w[j]
    PROVE  Uvarint(u, k) = Uvarint(w, k)
<1>1. Half \in Nat
    BY DEF Format!RecordsConstants
<1>2. CASE k < Half
    BY <1>2 DEF Uvarint
<1>3. CASE ~(k < Half)
  <2>1. k \div Half \in 0 .. k - 1
    BY <1>1, <1>3, SmallerVarint, SMTT(30)
  <2>2. u[k \div Half] = w[k \div Half]
    BY <2>1
  <2>3. QED
    BY <1>3, <2>2 DEF Uvarint
<1>4. QED
    BY <1>2, <1>3

LEMMA UvarintsExist ==
    ASSUME Format!RecordsConstants, NEW n \in Nat
    PROVE  \A m \in 0 .. n : \E u : u = [k \in 0 .. m |-> u[k]] /\ UvarintsUpTo(u, m)
<1> DEFINE Good == {m \in 0 .. n : \E u : u = [k \in 0 .. m |-> u[k]] /\ UvarintsUpTo(u, m)}
<1>1. 0 \in Good
  <2> DEFINE first == Uvarint(<< >>, 0)
             u == [k \in 0 .. 0 |-> first]
  <2>1. u = [k \in 0 .. 0 |-> u[k]] /\ u[0] = first
    <3> HIDE DEF first
    <3> QED OBVIOUS
  <2> HIDE DEF u
  <2>2. Uvarint(u, 0) = Uvarint(<< >>, 0)
    <3>1. 0 .. 0 - 1 = {} /\ 0 \in Nat
      OBVIOUS
    <3>2. QED
      BY <3>1, SameUvarint
  <2>3. UvarintsUpTo(u, 0)
    <3>1. \A k \in 0 .. 0 : k = 0
      OBVIOUS
    <3>2. u[0] = Uvarint(u, 0)
      BY <2>1, <2>2
    <3>3. QED
      BY <3>1, <3>2 DEF UvarintsUpTo
  <2>4. QED
    BY <2>1, <2>3
<1>2. ASSUME NEW m \in 0 .. n - 1, m \in Good PROVE m + 1 \in Good
  <2>1. PICK u : UvarintsUpTo(u, m)
    BY <1>2
  <2> DEFINE last == Uvarint(u, m + 1)
             w == [k \in 0 .. m + 1 |-> IF k <= m THEN u[k] ELSE last]
  <2>2. w = [k \in 0 .. m + 1 |-> w[k]] /\ w[m + 1] = last /\ \A k \in 0 .. m : w[k] = u[k]
    <3> HIDE DEF last
    <3> QED OBVIOUS
  <2> HIDE DEF w
  <2>3. ASSUME NEW k \in 0 .. m + 1 PROVE w[k] = Uvarint(w, k)
    <3>1. k \in Nat /\ \A j \in 0 .. k - 1 : j \in 0 .. m
      OBVIOUS
    <3>2. Uvarint(w, k) = Uvarint(u, k)
      BY <2>2, <3>1, SameUvarint
    <3>3. CASE k = m + 1
      BY <2>2, <3>2, <3>3
    <3>4. CASE k # m + 1
      <4>1. k \in 0 .. m
        BY <3>4
      <4>2. QED
        BY <2>1, <2>2, <3>2, <4>1 DEF UvarintsUpTo
    <3>5. QED
      BY <3>3, <3>4
  <2>4. m + 1 \in 0 .. n
    OBVIOUS
  <2>5. QED
    BY <2>2, <2>3, <2>4 DEF UvarintsUpTo
<1>3. \A m \in 0 .. n : m \in Good
  <2> HIDE DEF Good
  <2> QED BY <1>1, <1>2, IntervalInduction
<1>4. QED
    BY <1>3

LEMMA AddUvarintIsLast ==
    ASSUME Format!RecordsConstants, NEW n \in Nat
    PROVE  \E u : UvarintsUpTo(u, n) /\ Format!AddUvarint(n) = u[n]
<1>1. n \in 0 .. n
    OBVIOUS
<1>2. PICK u : u = [k \in 0 .. n |-> u[k]] /\ UvarintsUpTo(u, n)
    BY <1>1, UvarintsExist
<1>3. Uvarints(u, n)
  <2>1. [k \in 0 .. n |-> u[k]] = [k \in 0 .. n |-> Uvarint(u, k)]
    BY <1>2 DEF UvarintsUpTo
  <2>2. QED
    BY <1>2, <2>1 DEF Uvarints
<1> DEFINE w == CHOOSE x : Uvarints(x, n)
<1>4. Uvarints(w, n)
    BY <1>3
<1> HIDE DEF w
<1>5. UvarintsUpTo(w, n)
    BY <1>4 DEF Uvarints, UvarintsUpTo
<1>6. Format!AddUvarint(n) = w[n]
    BY AddUvarintDef DEF w
<1>7. QED
    BY <1>5, <1>6

LEMMA UvarintsAgree ==
    ASSUME Format!RecordsConstants, NEW n \in Nat, NEW u, NEW w,
           UvarintsUpTo(u, n), UvarintsUpTo(w, n)
    PROVE  u[n] = w[n]
<1> DEFINE Good == {j \in 0 .. n : \A k \in 0 .. j : u[k] = w[k]}
<1>1. ASSUME NEW j \in 0 .. n, \A k \in 0 .. j - 1 : u[k] = w[k] PROVE u[j] = w[j]
  <2>1. Uvarint(u, j) = Uvarint(w, j) /\ j \in Nat
    BY <1>1, SameUvarint
  <2>2. QED
    BY <2>1 DEF UvarintsUpTo
<1>2. 0 \in Good
  <2>1. 0 \in 0 .. n /\ 0 .. 0 - 1 = {} /\ \A k \in 0 .. 0 : k = 0
    OBVIOUS
  <2>2. u[0] = w[0]
    BY <1>1, <2>1
  <2>3. QED
    BY <2>1, <2>2
<1>3. ASSUME NEW j \in 0 .. n - 1, j \in Good PROVE j + 1 \in Good
  <2>1. j + 1 \in 0 .. n /\ (j + 1) - 1 = j /\ \A k \in 0 .. j + 1 : k \in 0 .. j \/ k = j + 1
    OBVIOUS
  <2>2. u[j + 1] = w[j + 1]
    BY <1>1, <1>3, <2>1
  <2>3. QED
    BY <1>3, <2>1, <2>2
<1>4. \A j \in 0 .. n : j \in Good
  <2> HIDE DEF Good
  <2> QED BY <1>2, <1>3, IntervalInduction
<1>5. n \in 0 .. n
    OBVIOUS
<1>6. QED
    BY <1>4, <1>5

\* A varint is one byte, or a byte that goes on and the varint of the rest.
LEMMA AddUvarintStep ==
    ASSUME Format!RecordsConstants, NEW n \in Nat
    PROVE  /\ n < Half => Format!AddUvarint(n) = <<n>>
           /\ n >= Half => Format!AddUvarint(n)
                              = <<(n % Half) + Half>> \o Format!AddUvarint(n \div Half)
<1>1. PICK u : UvarintsUpTo(u, n) /\ Format!AddUvarint(n) = u[n]
    BY AddUvarintIsLast
<1>2. n \in 0 .. n /\ Half \in Nat
    BY DEF Format!RecordsConstants
<1>3. u[n] = Uvarint(u, n)
    BY <1>1, <1>2 DEF UvarintsUpTo
<1>4. CASE n < Half
    BY <1>1, <1>2, <1>3, <1>4 DEF Uvarint
<1>5. CASE n >= Half
  <2> DEFINE q == n \div Half
  <2>1. q \in 0 .. n - 1
    BY <1>5, SmallerVarint
  <2> HIDE DEF q
  <2>2. PICK w : UvarintsUpTo(w, q) /\ Format!AddUvarint(q) = w[q]
    BY <2>1, AddUvarintIsLast
  <2>3. UvarintsUpTo(u, q) /\ q \in Nat
    <3>1. \A k \in 0 .. q : k \in 0 .. n
      BY <2>1
    <3>2. QED
      BY <1>1, <2>1, <3>1 DEF UvarintsUpTo
  <2>4. u[q] = Format!AddUvarint(q)
    BY <2>2, <2>3, UvarintsAgree
  <2>5. ~(n < Half)
    BY <1>2, <1>5
  <2>6. u[n] = <<(n % Half) + Half>> \o u[n \div Half]
    BY <1>3, <2>5 DEF Uvarint
  <2>7. QED
    BY <1>1, <1>5, <2>4, <2>5, <2>6 DEF q
<1>6. QED
    BY <1>2, <1>4, <1>5

\* The bytes of a varint: all but the last go on, and their value is the number.
UvarintOf(e, n) ==
    /\ e \in Seq(Format!Byte) /\ Len(e) >= 1
    /\ \A i \in 1 .. Len(e) - 1 : e[i] >= Half
    /\ e[Len(e)] < Half
    /\ Format!LittleEndian(e, Len(e), Half) = n

LEMMA UvarintShape ==
    ASSUME Format!RecordsConstants, NEW n \in Nat
    PROVE  UvarintOf(Format!AddUvarint(n), n)
<1> DEFINE Good == {j \in 0 .. n : \A k \in 0 .. j : UvarintOf(Format!AddUvarint(k), k)}
<1>1. Half \in Nat /\ Half >= 2 /\ \A c \in Format!Byte : c \in Nat
    BY DEF Format!RecordsConstants, Format!Byte
<1>2. ASSUME NEW j \in 0 .. n, \A k \in 0 .. j - 1 : UvarintOf(Format!AddUvarint(k), k)
      PROVE  UvarintOf(Format!AddUvarint(j), j)
  <2>1. j \in Nat
    OBVIOUS
  <2>2. CASE j < Half
    <3> DEFINE e == <<j>>
    <3>1. Format!AddUvarint(j) = e
      BY <2>1, <2>2, AddUvarintStep
    <3>2. j \in Format!Byte /\ j \in 0 .. Half - 1
      BY <1>1, <2>1, <2>2 DEF Format!Byte
    <3>3. e \in Seq(Format!Byte) /\ Len(e) = 1 /\ e[1] = j
      BY <3>2
    <3> HIDE DEF e
    <3>4. Format!LittleEndian(e, 0 + 1, Half) = (e[1] % Half) + Half * Format!LittleEndian(<< >>, 0, Half)
      <4>1. RestOf(<< >>, e, 0)
        BY DEF RestOf
      <4>2. StepsTo(e, << >>, 0, Half)
        BY <4>1, LittleEndianRest
      <4>3. QED
        BY <4>2 DEF StepsTo
    <3>5. Format!LittleEndian(<< >>, 0, Half) = 0
      BY LittleEndianStep
    <3>6. e[1] % Half = j
      BY <1>1, <3>2, <3>3, DigitRemainder
    <3>7. Format!LittleEndian(e, Len(e), Half) = j
      BY <1>1, <2>1, <3>3, <3>4, <3>5, <3>6
    <3>8. QED
      BY <2>2, <3>1, <3>3, <3>7 DEF UvarintOf
  <2>3. CASE j >= Half
    <3> DEFINE q == j \div Half
               c == j % Half
               t == Format!AddUvarint(q)
               e == <<c + Half>> \o t
    <3>1. Format!AddUvarint(j) = e
      BY <2>1, <2>3, AddUvarintStep
    <3>2. q \in 0 .. j - 1
      BY <2>1, <2>3, SmallerVarint
    <3>3. UvarintOf(t, q)
      BY <1>2, <3>2
    <3>4. c \in 0 .. Half - 1 /\ q * Half + c = j
      BY <1>1, <2>1, Division
    <3> HIDE DEF q, c, t
    <3>5. c + Half \in Format!Byte
      BY <1>1, <3>4 DEF Format!Byte
    <3>6. t \in Seq(Format!Byte) /\ Len(t) >= 1 /\ Len(t) \in Nat
      BY <3>3 DEF UvarintOf
    <3>7. /\ e \in Seq(Format!Byte) /\ Len(e) = Len(t) + 1 /\ e[1] = c + Half
          /\ \A i \in 1 .. Len(t) : e[i + 1] = t[i]
      BY <3>5, <3>6
    <3> HIDE DEF e
    <3>8. Format!LittleEndian(e, Len(t) + 1, Half)
            = (e[1] % Half) + Half * Format!LittleEndian(t, Len(t), Half)
      <4>1. RestOf(t, e, Len(t))
        BY <3>6, <3>7 DEF RestOf
      <4>2. StepsTo(e, t, Len(t), Half)
        BY <4>1, LittleEndianRest
      <4>3. QED
        BY <4>2 DEF StepsTo
    <3>9. e[1] % Half = c
      BY <1>1, <3>4, <3>7, DigitRemainder
    <3>10. Format!LittleEndian(e, Len(e), Half) = j
      <4>1. Format!LittleEndian(t, Len(t), Half) = q
        BY <3>3 DEF UvarintOf
      <4>2. Format!LittleEndian(e, Len(e), Half) = c + Half * q
        BY <3>7, <3>8, <3>9, <4>1
      <4>3. c + Half * q = q * Half + c
        BY <1>1, <3>2, <3>4
      <4>4. QED
        BY <3>4, <4>2, <4>3
    <3>11. \A i \in 1 .. Len(e) - 1 : e[i] >= Half
      <4> SUFFICES ASSUME NEW i \in 1 .. Len(e) - 1 PROVE e[i] >= Half
          OBVIOUS
      <4>1. CASE i = 1
        BY <1>1, <3>4, <3>7, <4>1
      <4>2. CASE i # 1
        <5>1. i - 1 \in 1 .. Len(t) - 1 /\ i - 1 \in 1 .. Len(t) /\ (i - 1) + 1 = i
          BY <3>6, <3>7, <4>2
        <5>2. e[i] = t[i - 1]
          BY <3>7, <5>1
        <5>3. t[i - 1] >= Half
          BY <3>3, <5>1 DEF UvarintOf
        <5>4. QED
          BY <5>2, <5>3
      <4>3. QED
        BY <4>1, <4>2
    <3>12. e[Len(e)] < Half
      <4>1. Len(t) \in 1 .. Len(t)
        BY <3>6
      <4>2. e[Len(e)] = t[Len(t)]
        BY <3>7, <4>1
      <4>3. QED
        BY <3>3, <4>2 DEF UvarintOf
    <3>13. Len(e) >= 1
      BY <3>6, <3>7
    <3>14. QED
      BY <3>1, <3>7, <3>10, <3>11, <3>12, <3>13 DEF UvarintOf
  <2>4. QED
    BY <1>1, <2>1, <2>2, <2>3
<1>3. 0 \in Good
  <2>1. 0 \in 0 .. n /\ 0 .. 0 - 1 = {} /\ \A k \in 0 .. 0 : k = 0
    OBVIOUS
  <2>2. UvarintOf(Format!AddUvarint(0), 0)
    BY <1>2, <2>1
  <2>3. QED
    BY <2>1, <2>2
<1>4. ASSUME NEW j \in 0 .. n - 1, j \in Good PROVE j + 1 \in Good
  <2>1. j + 1 \in 0 .. n /\ (j + 1) - 1 = j /\ \A k \in 0 .. j + 1 : k \in 0 .. j \/ k = j + 1
    OBVIOUS
  <2>2. UvarintOf(Format!AddUvarint(j + 1), j + 1)
    BY <1>2, <1>4, <2>1
  <2>3. QED
    BY <1>4, <2>1, <2>2
<1>5. \A j \in 0 .. n : j \in Good
  <2> HIDE DEF Good
  <2> QED BY <1>3, <1>4, IntervalInduction
<1>6. n \in 0 .. n
    OBVIOUS
<1>7. QED
    BY <1>5, <1>6

\* A digit below a number is found again.
LEMMA DigitBelow ==
    ASSUME NEW p \in Nat, p >= 2, NEW c \in 0 .. p - 1, NEW x \in Nat
    PROVE  c + p * x \in Nat /\ (c + p * x) \div p = x /\ (c + p * x) % p = c
<1> DEFINE a == c + p * x
<1>1. a \in Nat /\ c \in Nat /\ p * x \in Nat /\ x * p = p * x
  <2>1. p * x \in Nat
    OBVIOUS
  <2>2. x * p = p * x
    OBVIOUS
  <2>3. QED
    BY <2>1, <2>2
<1>2. a <= x * p + (p - 1)
    BY <1>1
<1> DEFINE q == a \div p
           r == a % p
<1>3. q \in Nat /\ r \in 0 .. p - 1 /\ q * p + r = a /\ q <= x
    BY <1>1, <1>2, Division
<1>4. a = c + p * x
    OBVIOUS
<1> HIDE DEF a, q, r
<1>5. q = x
  <2> SUFFICES ASSUME q <= x - 1 PROVE FALSE
      BY <1>3
  <2> DEFINE d == x - 1 - q
  <2>1. d \in Nat /\ x = q + d + 1
    BY <1>3
  <2>2. d * p \in Nat
    BY <2>1
  <2> HIDE DEF d
  <2>3. x * p = q * p + d * p + p
    BY <1>3, <2>1
  <2>4. q * p \in Nat
    BY <1>3
  <2>5. q * p + r < x * p
    BY <1>3, <2>2, <2>3, <2>4
  <2>6. QED
    BY <1>1, <1>3, <1>4, <2>4, <2>5
<1>6. r = c
  <2>1. q * p = p * x
    BY <1>1, <1>5
  <2>2. QED
    BY <1>1, <1>3, <1>4, <2>1
<1>7. QED
    BY <1>1, <1>5, <1>6 DEF a, q, r

\* The table of bytes of a number.
ByteTable(q, n) == q = [i \in 1 .. IntLen |-> IF i = 1 THEN n ELSE q[i - 1] \div (2 * Half)]

LEMMA AddUint64Def ==
    ASSUME NEW n
    PROVE  Format!AddUint64(n) = [i \in 1 .. IntLen |-> (CHOOSE q : ByteTable(q, n))[i] % (2 * Half)]
    BY DEF Format!AddUint64, ByteTable

\* What IntLen bytes hold is written as these bytes.
LEMMA AddUint64IsInverse ==
    ASSUME Format!RecordsConstants, NEW s \in [1 .. IntLen -> Format!Byte]
    PROVE  Format!AddUint64(Format!LittleEndian(s, IntLen, 2 * Half)) = s
<1> DEFINE b == 2 * Half
           n == Format!LittleEndian(s, IntLen, b)
<1>1. b \in Nat /\ b >= 2 /\ IntLen \in Nat /\ IntLen >= 1 /\ Format!Byte = 0 .. b - 1
    BY DEF Format!RecordsConstants, Format!Byte
<1> HIDE DEF b
<1>2. PICK v : LittlesUpTo(v, s, IntLen, b, IntLen) /\ n = v[IntLen]
  <2>1. IntLen \in Nat
    BY <1>1
  <2>2. QED
    BY <2>1, LittleEndianIsLast
<1> HIDE DEF n
<1>3. \A i \in 1 .. IntLen : s[i] \in 0 .. b - 1 /\ s[i] % b = s[i]
  <2> SUFFICES ASSUME NEW i \in 1 .. IntLen PROVE s[i] \in 0 .. b - 1 /\ s[i] % b = s[i]
      OBVIOUS
  <2>1. s[i] \in 0 .. b - 1
    BY <1>1
  <2>2. QED
    BY <1>1, <2>1, DigitRemainder
<1> DEFINE Good == {i \in 0 .. IntLen : v[i] \in Nat}
<1>4. \A i \in 0 .. IntLen - 1 :
        /\ v[i + 1] = s[IntLen - i] + b * v[i]
        /\ IntLen - i \in 1 .. IntLen /\ s[IntLen - i] \in 0 .. b - 1
  <2> SUFFICES ASSUME NEW i \in 0 .. IntLen - 1
               PROVE  /\ v[i + 1] = s[IntLen - i] + b * v[i]
                      /\ IntLen - i \in 1 .. IntLen /\ s[IntLen - i] \in 0 .. b - 1
      OBVIOUS
  <2>1. /\ i + 1 \in 1 .. IntLen /\ IntLen - (i + 1) + 1 = IntLen - i /\ (i + 1) - 1 = i
        /\ IntLen - i \in 1 .. IntLen
    BY <1>1
  <2>2. v[i + 1] = (s[IntLen - (i + 1) + 1] % b) + b * v[(i + 1) - 1]
    BY <1>2, <2>1 DEF LittlesUpTo
  <2>3. QED
    BY <1>3, <2>1, <2>2
<1>5. \A i \in 0 .. IntLen : v[i] \in Nat
  <2>1. 0 \in Good
    BY <1>1, <1>2 DEF LittlesUpTo
  <2>2. ASSUME NEW i \in 0 .. IntLen - 1, i \in Good PROVE i + 1 \in Good
    <3>1. v[i] \in Nat /\ i + 1 \in 0 .. IntLen
      BY <1>1, <2>2
    <3> DEFINE c == s[IntLen - i]
               x == v[i]
    <3>2. v[i + 1] = c + b * x /\ c \in 0 .. b - 1 /\ x \in Nat
      BY <1>4, <3>1
    <3> HIDE DEF c, x
    <3>3. c + b * x \in Nat
      BY <1>1, <3>2, DigitBelow
    <3>4. QED
      BY <3>1, <3>2, <3>3
  <2>3. \A i \in 0 .. IntLen : i \in Good
    <3> HIDE DEF Good
    <3> QED BY <1>1, <2>1, <2>2, IntervalInduction
  <2>4. QED
    BY <2>3
<1>6. \A i \in 0 .. IntLen - 1 : v[i + 1] \div b = v[i] /\ v[i + 1] % b = s[IntLen - i]
  <2> SUFFICES ASSUME NEW i \in 0 .. IntLen - 1
               PROVE  v[i + 1] \div b = v[i] /\ v[i + 1] % b = s[IntLen - i]
      OBVIOUS
  <2>1. v[i] \in Nat
    BY <1>1, <1>5
  <2> DEFINE c == s[IntLen - i]
             x == v[i]
  <2>2. v[i + 1] = c + b * x /\ c \in 0 .. b - 1 /\ x \in Nat
    BY <1>4, <2>1
  <2> HIDE DEF c, x
  <2>3. (c + b * x) \div b = x /\ (c + b * x) % b = c
    BY <1>1, <2>2, DigitBelow
  <2>4. QED
    BY <2>2, <2>3 DEF c, x
<1> DEFINE q0 == [i \in 1 .. IntLen |-> v[IntLen - i + 1]]
<1>7. ByteTable(q0, n)
  <2>1. ASSUME NEW i \in 1 .. IntLen
        PROVE  v[IntLen - i + 1] = IF i = 1 THEN n ELSE q0[i - 1] \div b
    <3>1. CASE i = 1
      <4>1. IntLen - i + 1 = IntLen
        BY <1>1, <3>1
      <4>2. QED
        BY <1>2, <3>1, <4>1
    <3>2. CASE i # 1
      <4>1. /\ i - 1 \in 1 .. IntLen /\ IntLen - i + 1 \in 0 .. IntLen - 1
            /\ IntLen - (i - 1) + 1 = (IntLen - i + 1) + 1
        BY <1>1, <3>2
      <4>2. q0[i - 1] = v[(IntLen - i + 1) + 1]
        BY <4>1
      <4>3. QED
        BY <1>6, <3>2, <4>1, <4>2
    <3>3. QED
      BY <3>1, <3>2
  <2>2. QED
    BY <2>1 DEF ByteTable, b
<1> DEFINE q == CHOOSE x : ByteTable(x, n)
<1>8. ByteTable(q, n)
    BY <1>7
<1> HIDE DEF q, q0
<1>9. \A i \in 1 .. IntLen : q[i] = IF i = 1 THEN n ELSE q[i - 1] \div b
    BY <1>8 DEF ByteTable, b
<1> DEFINE Same == {i \in 0 .. IntLen - 1 : q[i + 1] = v[IntLen - i]}
<1>10. \A i \in 0 .. IntLen - 1 : q[i + 1] = v[IntLen - i]
  <2>1. 0 \in Same
    <3>1. 0 \in 0 .. IntLen - 1 /\ 1 \in 1 .. IntLen /\ 0 + 1 = 1 /\ IntLen - 0 = IntLen
      BY <1>1
    <3>2. q[1] = n
      BY <1>9, <3>1
    <3>3. QED
      BY <1>2, <3>1, <3>2
  <2>2. ASSUME NEW i \in 0 .. IntLen - 1 - 1, i \in Same PROVE i + 1 \in Same
    <3>1. /\ i + 1 \in 0 .. IntLen - 1 /\ (i + 1) + 1 \in 1 .. IntLen /\ (i + 1) + 1 # 1
          /\ ((i + 1) + 1) - 1 = i + 1
          /\ IntLen - (i + 1) \in 0 .. IntLen - 1 /\ (IntLen - (i + 1)) + 1 = IntLen - i
      BY <1>1
    <3>2. q[(i + 1) + 1] = q[i + 1] \div b
      BY <1>9, <3>1
    <3>3. v[IntLen - i] \div b = v[IntLen - (i + 1)]
      BY <1>6, <3>1
    <3>4. QED
      BY <2>2, <3>1, <3>2, <3>3
  <2>3. \A i \in 0 .. IntLen - 1 : i \in Same
    <3>1. IntLen - 1 \in Nat
      BY <1>1
    <3> HIDE DEF Same
    <3> QED BY <2>1, <2>2, <3>1, IntervalInduction
  <2>4. QED
    BY <2>3
<1>11. \A i \in 1 .. IntLen : q[i] % b = s[i]
  <2> SUFFICES ASSUME NEW i \in 1 .. IntLen PROVE q[i] % b = s[i]
      OBVIOUS
  <2>1. /\ i - 1 \in 0 .. IntLen - 1 /\ (i - 1) + 1 = i
        /\ IntLen - i \in 0 .. IntLen - 1 /\ (IntLen - i) + 1 = IntLen - (i - 1)
        /\ IntLen - (IntLen - i) = i
    BY <1>1
  <2>2. q[i] = v[(IntLen - i) + 1]
    BY <1>10, <2>1
  <2>3. QED
    BY <1>6, <2>1, <2>2
<1>12. Format!AddUint64(n) = [i \in 1 .. IntLen |-> q[i] % b]
    BY AddUint64Def DEF q, b
<1>13. [i \in 1 .. IntLen |-> q[i] % b] = [i \in 1 .. IntLen |-> s[i]]
    BY <1>11
<1>14. s = [i \in 1 .. IntLen |-> s[i]]
    OBVIOUS
<1>15. QED
    BY <1>12, <1>13, <1>14 DEF n, b

\* The bytes of an integer: IntLen of them, and their value is the number.
LEMMA Uint64Shape ==
    ASSUME Format!RecordsConstants, NEW n, Format!IsUint64(n)
    PROVE  /\ Format!AddUint64(n) \in Seq(Format!Byte) /\ Len(Format!AddUint64(n)) = IntLen
           /\ Format!LittleEndian(Format!AddUint64(n), IntLen, 2 * Half) = n
<1>1. PICK s \in [1 .. IntLen -> Format!Byte] : n = Format!LittleEndian(s, IntLen, 2 * Half)
    BY DEF Format!IsUint64
<1>2. Format!AddUint64(n) = s
    BY <1>1, AddUint64IsInverse
<1>3. IntLen \in Nat
    BY DEF Format!RecordsConstants
<1>4. s \in Seq(Format!Byte) /\ Len(s) = IntLen
    BY <1>3
<1>5. QED
    BY <1>1, <1>2, <1>4

-----------------------------------------------------------------------------
(* A reader on its way through the bytes w, which are those of f or, when  *)
(* the end is lost, begin f and do not end within a varint.                *)

OnWire(w, f) ==
    /\ w \in Seq(Format!Byte) /\ f \in Seq(Format!Byte) /\ Len(w) <= Len(f)
    /\ \A i \in 1 .. Len(w) : w[i] = f[i]
    /\ Len(w) # Len(f) /\ w # << >> => w[Len(w)] < Half

\* The bytes e stand in f, after the first p.
Holds(f, p, e) ==
    /\ p \in Nat /\ e \in Seq(Format!Byte) /\ p + Len(e) <= Len(f)
    /\ \A i \in 1 .. Len(e) : f[p + i] = e[i]

\* The reader d has read the first p bytes and v, or has found that they are
\* not there.
Reads(d, w, p, v) ==
    IF p <= Len(w)
    THEN d = [data |-> SubSeq(w, p + 1, Len(w)), ok |-> TRUE, val |-> v]
    ELSE d = [data |-> d.data, ok |-> FALSE, val |-> d.val]

\* The bytes c are those of a, then those of b.
Joins(c, a, b) ==
    /\ a \in Seq(Format!Byte) /\ b \in Seq(Format!Byte) /\ c = a \o b

\* Both stand where c does.
HoldsBoth(f, p, a, b, c) ==
    Holds(f, p, a) /\ Holds(f, p + Len(a), b) /\ Len(c) = Len(a) + Len(b)

LEMMA HoldsParts ==
    ASSUME NEW f, NEW p, NEW a, NEW b, NEW c, f \in Seq(Format!Byte), Joins(c, a, b),
           Holds(f, p, c)
    PROVE  HoldsBoth(f, p, a, b, c)
<1>1. /\ Len(c) = Len(a) + Len(b) /\ Len(a) \in Nat /\ Len(b) \in Nat
      /\ \A i \in 1 .. Len(a) + Len(b) :
            c[i] = IF i <= Len(a) THEN a[i] ELSE b[i - Len(a)]
    BY ConcatProperties, LenProperties DEF Joins
<1>2. p \in Nat /\ p + (Len(a) + Len(b)) <= Len(f) /\ Len(f) \in Nat
    BY <1>1, LenProperties DEF Holds
<1>3. \A i \in 1 .. Len(a) : f[p + i] = a[i]
  <2> SUFFICES ASSUME NEW i \in 1 .. Len(a) PROVE f[p + i] = a[i]
      OBVIOUS
  <2>1. i \in 1 .. Len(a) + Len(b) /\ i <= Len(a)
    BY <1>1
  <2>2. f[p + i] = c[i]
    BY <1>1, <2>1 DEF Holds
  <2>3. QED
    BY <1>1, <2>1, <2>2
<1>4. \A i \in 1 .. Len(b) : f[(p + Len(a)) + i] = b[i]
  <2> SUFFICES ASSUME NEW i \in 1 .. Len(b) PROVE f[(p + Len(a)) + i] = b[i]
      OBVIOUS
  <2>1. /\ Len(a) + i \in 1 .. Len(a) + Len(b) /\ ~(Len(a) + i <= Len(a))
        /\ (Len(a) + i) - Len(a) = i /\ p + (Len(a) + i) = (p + Len(a)) + i
    BY <1>1, <1>2
  <2>2. f[p + (Len(a) + i)] = c[Len(a) + i]
    BY <1>1, <2>1 DEF Holds
  <2>3. QED
    BY <1>1, <2>1, <2>2
<1>5. QED
    BY <1>1, <1>2, <1>3, <1>4 DEF Holds, Joins, HoldsBoth

\* A reader that has failed goes on failing, with nothing as its values.
LEMMA ReadersStayLost ==
    ASSUME NEW w \in Seq(Format!Byte), NEW p \in Nat, NEW q \in Nat, p > Len(w), q >= p,
           NEW d, NEW v0, Reads(d, w, p, v0), NEW v
    PROVE  /\ Reads(Format!ReadUvarint(d), w, q, v) /\ Format!ReadUvarint(d).val = 0
           /\ Reads(Format!ReadUint64(d), w, q, v)
           /\ \A n : Reads(Format!ReadFixedByteArray(d, n), w, q, v)
           /\ d.ok = FALSE
<1>1. Len(w) \in Nat /\ ~(p <= Len(w)) /\ ~(q <= Len(w))
    BY LenProperties
<1>2. d = [data |-> d.data, ok |-> FALSE, val |-> d.val]
    BY <1>1 DEF Reads
<1>3. d.ok = FALSE
    BY <1>2
<1>4. \A z : Format!Failed(d, z) = [data |-> d.data, ok |-> FALSE, val |-> z]
    BY DEF Format!Failed
<1>5. /\ Format!ReadUvarint(d) = [data |-> d.data, ok |-> FALSE, val |-> 0]
      /\ Format!ReadUint64(d) = [data |-> d.data, ok |-> FALSE, val |-> 0]
      /\ \A n : Format!ReadFixedByteArray(d, n) = [data |-> d.data, ok |-> FALSE, val |-> << >>]
    BY <1>3, <1>4 DEF Format!ReadUvarint, Format!ReadUint64, Format!ReadFixedByteArray
<1>6. QED
    BY <1>1, <1>3, <1>5 DEF Reads

\* What is left to a reader that is not lost, when e is next.
HasLeft(d, w, p, e, v) ==
    /\ d.ok = TRUE /\ d = [data |-> d.data, ok |-> TRUE, val |-> v]
    /\ d.data \in Seq(Format!Byte) /\ Len(d.data) = Len(w) - p
    /\ \A i \in 1 .. Len(d.data) : i <= Len(e) => d.data[i] = e[i]
    /\ p + Len(e) <= Len(w) =>
         /\ SubSeq(d.data, Len(e) + 1, Len(d.data)) = SubSeq(w, (p + Len(e)) + 1, Len(w))
         /\ SubSeq(d.data, 1, Len(e)) = e

LEMMA Left ==
    ASSUME NEW w, NEW f, OnWire(w, f), NEW p, NEW e, Holds(f, p, e), p <= Len(w),
           NEW d, NEW v0, Reads(d, w, p, v0)
    PROVE  HasLeft(d, w, p, e, v0)
<1>1. /\ w \in Seq(Format!Byte) /\ Len(w) \in Nat /\ p \in Nat
      /\ e \in Seq(Format!Byte) /\ Len(e) \in Nat
    BY LenProperties DEF OnWire, Holds
<1>2. d = [data |-> SubSeq(w, p + 1, Len(w)), ok |-> TRUE, val |-> v0]
    BY DEF Reads
<1> DEFINE x == SubSeq(w, p + 1, Len(w))
<1>3. d.ok = TRUE /\ d.data = x /\ d = [data |-> d.data, ok |-> TRUE, val |-> v0]
    BY <1>2
<1>4. /\ x \in Seq(Format!Byte) /\ Len(x) = Len(w) - p
      /\ \A i \in 1 .. Len(x) : x[i] = w[p + i]
  <2>1. \A i \in p + 1 .. Len(w) : w[i] \in Format!Byte
    BY <1>1, ElementOfSeq
  <2>2. /\ x \in Seq(Format!Byte)
        /\ Len(x) = IF p + 1 <= Len(w) THEN Len(w) - (p + 1) + 1 ELSE 0
        /\ \A i \in 1 .. Len(w) - (p + 1) + 1 : x[i] = w[(p + 1) + i - 1]
    BY <1>1, <2>1, SubSeqProperties
  <2> HIDE DEF x
  <2>3. Len(x) = Len(w) - p /\ Len(w) - (p + 1) + 1 = Len(x)
    BY <1>1, <2>2
  <2>4. \A i \in 1 .. Len(x) : (p + 1) + i - 1 = p + i
    BY <1>1, <2>3
  <2>5. QED
    BY <2>2, <2>3, <2>4
<1> HIDE DEF x
<1>5. \A i \in 1 .. Len(x) : i <= Len(e) => x[i] = e[i]
  <2> SUFFICES ASSUME NEW i \in 1 .. Len(x), i <= Len(e) PROVE x[i] = e[i]
      OBVIOUS
  <2>1. p + i \in 1 .. Len(w) /\ i \in 1 .. Len(e)
    BY <1>1, <1>4
  <2>2. w[p + i] = f[p + i] /\ f[p + i] = e[i]
    BY <2>1 DEF OnWire, Holds
  <2>3. QED
    BY <1>4, <2>2
<1>6. ASSUME p + Len(e) <= Len(w)
      PROVE  /\ SubSeq(x, Len(e) + 1, Len(x)) = SubSeq(w, (p + Len(e)) + 1, Len(w))
             /\ SubSeq(x, 1, Len(e)) = e
  <2> DEFINE k == Len(e)
             m == Len(w)
             l == Len(x)
  <2>1. k \in Nat /\ m \in Nat /\ l = m - p /\ k <= l /\ l \in Nat
    BY <1>1, <1>4, <1>6
  <2>2. /\ \A i \in 1 .. m : w[i] \in Format!Byte
        /\ \A i \in 1 .. l : x[i] \in Format!Byte
        /\ \A i \in 1 .. l : x[i] = w[p + i]
    BY <1>1, <1>4, ElementOfSeq
  <2>3. \A i \in 1 .. l : i <= k => x[i] = e[i]
    BY <1>5
  <2> HIDE DEF k, m, l
  <2> DEFINE a == SubSeq(x, k + 1, l)
             b == SubSeq(w, (p + k) + 1, m)
             c == SubSeq(x, 1, k)
  <2>4. /\ a \in Seq(Format!Byte) /\ Len(a) = l - k
        /\ \A i \in 1 .. l - k : a[i] = x[k + i]
    <3>1. \A i \in k + 1 .. l : x[i] \in Format!Byte
      BY <2>1, <2>2
    <3>2. /\ a \in Seq(Format!Byte) /\ Len(a) = IF k + 1 <= l THEN l - (k + 1) + 1 ELSE 0
          /\ \A i \in 1 .. l - (k + 1) + 1 : a[i] = x[(k + 1) + i - 1]
      BY <2>1, <3>1, SubSeqProperties
    <3> HIDE DEF a
    <3>3. l - (k + 1) + 1 = l - k /\ \A i \in 1 .. l - k : (k + 1) + i - 1 = k + i
      BY <2>1
    <3>4. QED
      BY <2>1, <3>2, <3>3
  <2>5. /\ b \in Seq(Format!Byte) /\ Len(b) = l - k
        /\ \A i \in 1 .. l - k : b[i] = w[p + (k + i)]
    <3>1. \A i \in (p + k) + 1 .. m : w[i] \in Format!Byte
      BY <1>1, <2>1, <2>2
    <3>2. /\ b \in Seq(Format!Byte)
          /\ Len(b) = IF (p + k) + 1 <= m THEN m - ((p + k) + 1) + 1 ELSE 0
          /\ \A i \in 1 .. m - ((p + k) + 1) + 1 : b[i] = w[((p + k) + 1) + i - 1]
      BY <1>1, <2>1, <3>1, SubSeqProperties
    <3> HIDE DEF b
    <3>3. /\ m - ((p + k) + 1) + 1 = l - k
          /\ \A i \in 1 .. l - k : ((p + k) + 1) + i - 1 = p + (k + i)
      BY <1>1, <2>1
    <3>4. QED
      BY <1>1, <2>1, <3>2, <3>3
  <2>6. c \in Seq(Format!Byte) /\ Len(c) = k /\ \A i \in 1 .. k : c[i] = x[i]
    <3>1. \A i \in 1 .. k : x[i] \in Format!Byte
      BY <2>1, <2>2
    <3>2. /\ c \in Seq(Format!Byte) /\ Len(c) = IF 1 <= k THEN k - 1 + 1 ELSE 0
          /\ \A i \in 1 .. k - 1 + 1 : c[i] = x[1 + i - 1]
      BY <2>1, <3>1, SubSeqProperties
    <3> HIDE DEF c
    <3>3. k - 1 + 1 = k /\ \A i \in 1 .. k : 1 + i - 1 = i
      BY <2>1
    <3>4. QED
      BY <2>1, <3>2, <3>3
  <2> HIDE DEF a, b, c
  <2>7. \A i \in 1 .. Len(a) : a[i] = b[i]
    <3> SUFFICES ASSUME NEW i \in 1 .. l - k PROVE a[i] = b[i]
        BY <2>4
    <3>1. k + i \in 1 .. l
      BY <2>1
    <3>2. QED
      BY <2>2, <2>4, <2>5, <3>1
  <2>8. a = b
    BY <2>4, <2>5, <2>7, SeqEqual
  <2>9. \A i \in 1 .. Len(c) : c[i] = e[i]
    <3> SUFFICES ASSUME NEW i \in 1 .. k PROVE c[i] = e[i]
        BY <2>6
    <3>1. i \in 1 .. l /\ i <= k
      BY <2>1
    <3>2. QED
      BY <2>3, <2>6, <3>1
  <2>10. c = e
    BY <1>1, <2>6, <2>9, SeqEqual DEF k
  <2>11. QED
    BY <2>8, <2>10 DEF a, b, c, k, l, m
<1>7. QED
    BY <1>3, <1>4, <1>5, <1>6 DEF HasLeft

HoldsFour(f, p, a, b, c, d, e) ==
    /\ Holds(f, p, a) /\ Holds(f, p + Len(a), b)
    /\ Holds(f, (p + Len(a)) + Len(b), c) /\ Holds(f, ((p + Len(a)) + Len(b)) + Len(c), d)
    /\ p + Len(e) = (((p + Len(a)) + Len(b)) + Len(c)) + Len(d)

LEMMA FourParts ==
    ASSUME NEW f, NEW p, NEW a, NEW b, NEW c, NEW d, NEW ab, NEW abc, NEW e,
           f \in Seq(Format!Byte), Joins(ab, a, b), Joins(abc, ab, c), Joins(e, abc, d),
           Holds(f, p, e)
    PROVE  HoldsFour(f, p, a, b, c, d, e)
<1>1. HoldsBoth(f, p, abc, d, e)
    BY HoldsParts
<1>2. Holds(f, p, abc)
    BY <1>1 DEF HoldsBoth
<1>3. HoldsBoth(f, p, ab, c, abc)
    BY <1>2, HoldsParts
<1>4. Holds(f, p, ab)
    BY <1>3 DEF HoldsBoth
<1>5. HoldsBoth(f, p, a, b, ab)
    BY <1>4, HoldsParts
<1>6. p \in Nat /\ Len(a) \in Nat /\ Len(b) \in Nat /\ Len(c) \in Nat /\ Len(d) \in Nat
    BY LenProperties DEF Holds, Joins
<1>7. /\ p + Len(ab) = (p + Len(a)) + Len(b) /\ p + Len(abc) = ((p + Len(a)) + Len(b)) + Len(c)
      /\ p + Len(e) = (((p + Len(a)) + Len(b)) + Len(c)) + Len(d)
    BY <1>1, <1>3, <1>5, <1>6 DEF HoldsBoth
<1>8. QED
    BY <1>1, <1>3, <1>5, <1>6, <1>7 DEF HoldsBoth, HoldsFour

\* Bytes without the end of their varint leave nothing to read, or are not
\* on the wire.
LEMMA CutVarint ==
    ASSUME Format!RecordsConstants, NEW w, NEW f, OnWire(w, f), NEW p, NEW e, Holds(f, p, e),
           \A i \in 1 .. Len(e) - 1 : e[i] >= Half, p <= Len(w), p + Len(e) > Len(w)
    PROVE  p = Len(w)
<1>1. /\ w \in Seq(Format!Byte) /\ Len(w) \in Nat /\ Len(f) \in Nat /\ p \in Nat
      /\ Len(e) \in Nat /\ Half \in Nat /\ p + Len(e) <= Len(f)
    BY LenProperties DEF OnWire, Holds, Format!RecordsConstants
<1> SUFFICES ASSUME p < Len(w) PROVE FALSE
    BY <1>1
<1>2. Len(w) # Len(f) /\ w # << >>
    BY <1>1
<1>3. w[Len(w)] < Half
    BY <1>2 DEF OnWire
<1> DEFINE i == Len(w) - p
<1>4. i \in 1 .. Len(e) - 1 /\ i \in 1 .. Len(e) /\ p + i = Len(w) /\ Len(w) \in 1 .. Len(w)
    BY <1>1
<1> HIDE DEF i
<1>5. w[Len(w)] = f[Len(w)]
    BY <1>4 DEF OnWire
<1>6. f[p + i] = e[i]
    BY <1>4 DEF Holds
<1>7. e[i] >= Half
    BY <1>4
<1>8. e[i] \in Nat
  <2>1. e[i] \in Format!Byte
    BY <1>4, ElementOfSeq DEF Holds
  <2>2. QED
    BY <1>1, <2>1 DEF Format!Byte
<1>9. QED
    BY <1>1, <1>3, <1>4, <1>5, <1>6, <1>7, <1>8

\* The end of a varint is the first byte that does not go on.
LEMMA FirstEnd ==
    ASSUME Format!RecordsConstants, NEW x \in Seq(Format!Byte), NEW k \in 1 .. Len(x),
           \A i \in 1 .. k - 1 : x[i] >= Half, x[k] < Half
    PROVE  /\ {i \in 1 .. Len(x) : x[i] < Half} # {}
           /\ Format!Min({i \in 1 .. Len(x) : x[i] < Half}) = k
<1> DEFINE Ends == {i \in 1 .. Len(x) : x[i] < Half}
<1>1. k \in Ends
    OBVIOUS
<1>2. \A i \in Ends : k <= i
  <2> SUFFICES ASSUME NEW i \in Ends, ~(k <= i) PROVE FALSE
      OBVIOUS
  <2>1. i \in 1 .. Len(x) /\ x[i] < Half /\ Len(x) \in Nat
    BY LenProperties
  <2>2. i \in 1 .. k - 1
    BY <2>1
  <2>3. x[i] >= Half
    BY <2>2
  <2>4. x[i] \in Nat /\ Half \in Nat
    <3>1. x[i] \in Format!Byte
      BY <2>1, ElementOfSeq
    <3>2. QED
      BY <3>1 DEF Format!Byte, Format!RecordsConstants
  <2>5. QED
    BY <2>1, <2>3, <2>4
<1>3. \A i \in Ends : i \in Nat
    OBVIOUS
<1> HIDE DEF Ends
<1>4. Format!Min(Ends) = CHOOSE m \in Ends : \A y \in Ends : m <= y
    BY DEF Format!Min
<1> DEFINE m == CHOOSE m \in Ends : \A y \in Ends : m <= y
<1>5. m \in Ends /\ \A y \in Ends : m <= y
    BY <1>1, <1>2
<1> HIDE DEF m
<1>6. m = k
    BY <1>1, <1>2, <1>3, <1>5
<1>7. QED
    BY <1>1, <1>4, <1>6 DEF Ends, m

LEMMA UvarintReads ==
    ASSUME Format!RecordsConstants, NEW w, NEW f, OnWire(w, f),
           NEW n \in Nat, Len(Format!AddUvarint(n)) <= MaxVarint,
           NEW p, Holds(f, p, Format!AddUvarint(n)), NEW d, NEW v0, Reads(d, w, p, v0)
    PROVE  /\ Reads(Format!ReadUvarint(d), w, p + Len(Format!AddUvarint(n)), n)
           /\ p + Len(Format!AddUvarint(n)) > Len(w) => Format!ReadUvarint(d).val = 0
<1> DEFINE e == Format!AddUvarint(n)
           k == Len(e)
           R == Format!ReadUvarint(d)
<1>1. UvarintOf(e, n)
    BY UvarintShape
<1>2. /\ w \in Seq(Format!Byte) /\ Len(w) \in Nat /\ p \in Nat /\ k \in Nat /\ k >= 1
      /\ k <= MaxVarint /\ MaxVarint \in Nat
    BY <1>1, LenProperties DEF OnWire, Holds, UvarintOf, Format!RecordsConstants
<1>3. Holds(f, p, e)
    OBVIOUS
<1>4. /\ \A i \in 1 .. k - 1 : e[i] >= Half
      /\ e[k] < Half /\ Format!LittleEndian(e, k, Half) = n
    BY <1>1 DEF UvarintOf
<1> HIDE DEF e
<1> SUFFICES Reads(R, w, p + k, n) /\ (p + k > Len(w) => R.val = 0)
    BY DEF e
<1>5. CASE p > Len(w)
  <2>1. p + k \in Nat /\ p + k >= p
    BY <1>2
  <2>2. Reads(R, w, p + k, n) /\ R.val = 0
    BY <1>2, <1>5, <2>1, ReadersStayLost
  <2>3. QED
    BY <2>2
<1>6. CASE p <= Len(w) /\ p + k <= Len(w)
  <2> DEFINE x == d.data
  <2>1. /\ d.ok = TRUE /\ d = [data |-> x, ok |-> TRUE, val |-> v0]
        /\ x \in Seq(Format!Byte) /\ Len(x) = Len(w) - p
        /\ \A i \in 1 .. Len(x) : i <= k => x[i] = e[i]
        /\ SubSeq(x, k + 1, Len(x)) = SubSeq(w, (p + k) + 1, Len(w))
    <3>1. HasLeft(d, w, p, e, v0)
      BY <1>3, <1>6, Left
    <3>2. QED
      BY <1>6, <3>1 DEF HasLeft
  <2> HIDE DEF x
  <2>2. k \in 1 .. Len(x) /\ \A i \in 1 .. k : i \in 1 .. Len(x) /\ i <= k
    BY <1>2, <1>6, <2>1
  <2>3. \A i \in 1 .. k : x[i] = e[i]
    BY <2>1, <2>2
  <2>4. (\A i \in 1 .. k - 1 : x[i] >= Half) /\ x[k] < Half
    <3>1. \A i \in 1 .. k - 1 : i \in 1 .. k
      BY <1>2
    <3>2. k \in 1 .. k
      BY <1>2
    <3>3. QED
      BY <1>4, <2>3, <3>1, <3>2
  <2> DEFINE ends == {i \in 1 .. Len(x) : x[i] < Half}
  <2>5. ends # {} /\ Format!Min(ends) = k
    BY <2>1, <2>2, <2>4, FirstEnd
  <2> HIDE DEF ends
  <2>6. x # << >>
    BY <2>2
  <2>7. Format!LittleEndian(x, k, Half) = n
    BY <1>2, <1>4, <2>3, SameLittleEndian
  <2>8. ~(k > MaxVarint) /\ k # 0
    BY <1>2
  <2>9. R = IF ~d.ok \/ x = << >> THEN Format!Failed(d, 0)
            ELSE IF (IF ends = {} THEN 0 ELSE Format!Min(ends)) > MaxVarint
                      \/ ((IF ends = {} THEN 0 ELSE Format!Min(ends)) = 0 /\ Len(x) > MaxVarint)
                 THEN Format!Failed(d, 0)
            ELSE Format!Taken(d, IF ends = {} THEN 0 ELSE Format!Min(ends),
                              Format!LittleEndian(x, IF ends = {} THEN 0 ELSE Format!Min(ends), Half))
    BY DEF Format!ReadUvarint, x, ends
  <2>10. R = Format!Taken(d, k, n)
    BY <2>1, <2>5, <2>6, <2>7, <2>8, <2>9
  <2>11. R = [data |-> SubSeq(x, k + 1, Len(x)), ok |-> TRUE, val |-> n]
    BY <2>1, <2>10 DEF Format!Taken
  <2>12. p + k <= Len(w) /\ ~(p + k > Len(w))
    BY <1>2, <1>6
  <2>13. QED
    BY <2>1, <2>11, <2>12 DEF Reads
<1>7. CASE p <= Len(w) /\ p + k > Len(w)
  <2>1. p = Len(w)
    BY <1>3, <1>4, <1>7, CutVarint
  <2>2. d = [data |-> d.data, ok |-> TRUE, val |-> v0] /\ Len(d.data) = 0 /\ d.data \in Seq(Format!Byte)
    <3>1. HasLeft(d, w, p, e, v0)
      BY <1>3, <1>7, Left
    <3>2. QED
      BY <1>2, <2>1, <3>1 DEF HasLeft
  <2>3. d.data = << >>
    BY <2>2, EmptySeq
  <2>4. R = Format!Failed(d, 0)
    BY <2>3 DEF Format!ReadUvarint
  <2>5. R = [data |-> d.data, ok |-> FALSE, val |-> 0]
    BY <2>2, <2>4 DEF Format!Failed
  <2>6. ~(p + k <= Len(w))
    BY <1>2, <1>7
  <2>7. QED
    BY <2>5, <2>6 DEF Reads
<1>8. QED
    BY <1>2, <1>5, <1>6, <1>7

LEMMA Uint64Reads ==
    ASSUME Format!RecordsConstants, NEW w, NEW f, OnWire(w, f), NEW n, Format!IsUint64(n),
           NEW p, Holds(f, p, Format!AddUint64(n)), NEW d, NEW v0, Reads(d, w, p, v0)
    PROVE  Reads(Format!ReadUint64(d), w, p + Len(Format!AddUint64(n)), n)
<1> DEFINE e == Format!AddUint64(n)
           R == Format!ReadUint64(d)
           b == 2 * Half
<1>1. e \in Seq(Format!Byte) /\ Len(e) = IntLen /\ Format!LittleEndian(e, IntLen, b) = n
    BY Uint64Shape
<1>2. /\ w \in Seq(Format!Byte) /\ Len(w) \in Nat /\ p \in Nat /\ IntLen \in Nat
    BY LenProperties DEF OnWire, Holds, Format!RecordsConstants
<1>3. Holds(f, p, e)
    OBVIOUS
<1> SUFFICES Reads(R, w, p + IntLen, n)
    BY <1>1
<1> HIDE DEF e, b
<1>4. CASE p > Len(w)
  <2>1. p + IntLen \in Nat /\ p + IntLen >= p
    BY <1>2
  <2>2. QED
    BY <1>2, <1>4, <2>1, ReadersStayLost
<1>5. CASE p <= Len(w)
  <2> DEFINE x == d.data
  <2>1. /\ d.ok = TRUE /\ d = [data |-> x, ok |-> TRUE, val |-> v0]
        /\ x \in Seq(Format!Byte) /\ Len(x) = Len(w) - p
        /\ \A i \in 1 .. Len(x) : i <= IntLen => x[i] = e[i]
        /\ p + IntLen <= Len(w) => SubSeq(x, IntLen + 1, Len(x)) = SubSeq(w, (p + IntLen) + 1, Len(w))
    <3>1. HasLeft(d, w, p, e, v0)
      BY <1>3, <1>5, Left
    <3>2. QED
      BY <1>1, <3>1 DEF HasLeft
  <2> HIDE DEF x
  <2>2. R = IF ~d.ok \/ Len(x) < IntLen THEN Format!Failed(d, 0)
            ELSE Format!Taken(d, IntLen, Format!LittleEndian(x, IntLen, b))
    BY DEF Format!ReadUint64, x, b
  <2>3. CASE p + IntLen <= Len(w)
    <3>1. ~(Len(x) < IntLen) /\ \A i \in 1 .. IntLen : i \in 1 .. Len(x) /\ i <= IntLen
      BY <1>2, <2>1, <2>3
    <3>2. \A i \in 1 .. IntLen : x[i] = e[i]
      BY <2>1, <3>1
    <3>3. Format!LittleEndian(x, IntLen, b) = n
      BY <1>1, <1>2, <3>2, SameLittleEndian
    <3>4. R = Format!Taken(d, IntLen, n)
      BY <2>1, <2>2, <3>1, <3>3
    <3>5. R = [data |-> SubSeq(x, IntLen + 1, Len(x)), ok |-> TRUE, val |-> n]
      BY <2>1, <3>4 DEF Format!Taken
    <3>6. QED
      BY <2>1, <2>3, <3>5 DEF Reads
  <2>4. CASE ~(p + IntLen <= Len(w))
    <3>1. Len(x) < IntLen
      BY <1>2, <2>1, <2>4
    <3>2. R = Format!Failed(d, 0)
      BY <2>2, <3>1
    <3>3. R = [data |-> x, ok |-> FALSE, val |-> 0]
      BY <2>1, <3>2 DEF Format!Failed
    <3>4. QED
      BY <2>4, <3>3 DEF Reads
  <2>5. QED
    BY <2>3, <2>4
<1>6. QED
    BY <1>2, <1>4, <1>5

LEMMA BytesRead ==
    ASSUME NEW w, NEW f, OnWire(w, f), NEW p, NEW e, Holds(f, p, e),
           NEW d, NEW v0, Reads(d, w, p, v0)
    PROVE  Reads(Format!ReadFixedByteArray(d, Len(e)), w, p + Len(e), e)
<1> DEFINE k == Len(e)
           R == Format!ReadFixedByteArray(d, k)
<1>1. /\ w \in Seq(Format!Byte) /\ Len(w) \in Nat /\ p \in Nat /\ k \in Nat
    BY LenProperties DEF OnWire, Holds
<1> SUFFICES Reads(R, w, p + k, e)
    OBVIOUS
<1>2. CASE p > Len(w)
  <2>1. p + k \in Nat /\ p + k >= p
    BY <1>1
  <2>2. QED
    BY <1>1, <1>2, <2>1, ReadersStayLost
<1>3. CASE p <= Len(w)
  <2> DEFINE x == d.data
  <2>1. /\ d.ok = TRUE /\ d = [data |-> x, ok |-> TRUE, val |-> v0]
        /\ x \in Seq(Format!Byte) /\ Len(x) = Len(w) - p
        /\ p + k <= Len(w) =>
             /\ SubSeq(x, k + 1, Len(x)) = SubSeq(w, (p + k) + 1, Len(w))
             /\ SubSeq(x, 1, k) = e
    <3>1. HasLeft(d, w, p, e, v0)
      BY <1>3, Left
    <3>2. QED
      BY <3>1 DEF HasLeft
  <2> HIDE DEF x, k
  <2>2. R = IF ~d.ok \/ Len(x) < k THEN Format!Failed(d, << >>)
            ELSE Format!Taken(d, k, SubSeq(x, 1, k))
    BY DEF Format!ReadFixedByteArray, x
  <2> HIDE DEF R
  <2>3. CASE p + k <= Len(w)
    <3>1. ~(Len(x) < k)
      BY <1>1, <2>1, <2>3
    <3>2. R = Format!Taken(d, k, e)
      BY <2>1, <2>2, <2>3, <3>1
    <3>3. R = [data |-> SubSeq(x, k + 1, Len(x)), ok |-> TRUE, val |-> e]
      BY <2>1, <3>2 DEF Format!Taken
    <3>4. QED
      BY <2>1, <2>3, <3>3 DEF Reads
  <2>4. CASE ~(p + k <= Len(w))
    <3>1. Len(x) < k
      BY <1>1, <2>1, <2>4
    <3>2. R = Format!Failed(d, << >>)
      BY <2>2, <3>1
    <3>3. R = [data |-> x, ok |-> FALSE, val |-> << >>]
      BY <2>1, <3>2 DEF Format!Failed
    <3>4. QED
      BY <2>4, <3>3 DEF Reads
  <2>5. QED
    BY <2>3, <2>4
<1>4. QED
    BY <1>1, <1>2, <1>3

LEMMA StringReads ==
    ASSUME Format!RecordsConstants, NEW w, NEW f, OnWire(w, f), NEW s, Format!IsString(s),
           NEW p, Holds(f, p, Format!AddString(s)), NEW d, NEW v0, Reads(d, w, p, v0)
    PROVE  Reads(Format!ReadString(d), w, p + Len(Format!AddString(s)), s)
<1> DEFINE u == Format!AddUvarint(Len(s))
           l == Format!ReadUvarint(d)
<1>1. s \in Seq(Format!Byte) /\ Len(s) \in Nat /\ Len(u) <= MaxVarint
    BY DEF Format!IsString, Format!IsUint64
<1>2. u \in Seq(Format!Byte) /\ Len(u) \in Nat
    BY <1>1, UvarintShape, LenProperties DEF UvarintOf
<1>3. Holds(f, p, u) /\ Holds(f, p + Len(u), s) /\ Len(Format!AddString(s)) = Len(u) + Len(s)
    <2>1. Joins(Format!AddString(s), u, s) /\ f \in Seq(Format!Byte)
      BY <1>1, <1>2 DEF Format!AddString, OnWire, Joins
    <2> HIDE DEF u
    <2>2. HoldsBoth(f, p, u, s, Format!AddString(s))
      BY <2>1, HoldsParts
    <2>3. QED
      BY <2>2 DEF HoldsBoth
<1>4. Reads(l, w, p + Len(u), Len(s)) /\ (p + Len(u) > Len(w) => l.val = 0)
    BY <1>1, <1>3, UvarintReads
<1>5. Format!ReadString(d) = Format!ReadFixedByteArray(l, l.val)
    BY DEF Format!ReadString
<1>6. /\ w \in Seq(Format!Byte) /\ Len(w) \in Nat /\ p \in Nat
      /\ p + (Len(u) + Len(s)) = (p + Len(u)) + Len(s)
    BY <1>1, <1>2, LenProperties DEF OnWire, Holds
<1> HIDE DEF u, l
<1>7. CASE p + Len(u) <= Len(w)
  <2>1. l.val = Len(s)
    BY <1>4, <1>7 DEF Reads
  <2>2. Reads(Format!ReadFixedByteArray(l, Len(s)), w, (p + Len(u)) + Len(s), s)
    BY <1>3, <1>4, BytesRead
  <2>3. QED
    BY <1>3, <1>5, <1>6, <2>1, <2>2
<1>8. CASE p + Len(u) > Len(w)
  <2>1. p + Len(u) \in Nat /\ (p + Len(u)) + Len(s) \in Nat /\ (p + Len(u)) + Len(s) >= p + Len(u)
    BY <1>1, <1>2, <1>6
  <2>2. Reads(Format!ReadFixedByteArray(l, l.val), w, (p + Len(u)) + Len(s), s)
    BY <1>4, <1>6, <1>8, <2>1, ReadersStayLost
  <2>3. QED
    BY <1>3, <1>5, <1>6, <2>2
<1>9. QED
    BY <1>2, <1>6, <1>7, <1>8

\* The outcome of reading w when r was written as f.
Outcome(o, r, w, f) ==
    IF Len(w) = Len(f) THEN o.status = "ok" /\ o.rec = r ELSE o.status # "ok"

LEMMA UvarintBytes ==
    ASSUME Format!RecordsConstants, NEW n \in Nat
    PROVE  Format!AddUvarint(n) \in Seq(Format!Byte)
    BY UvarintShape DEF UvarintOf

LEMMA StringBytes ==
    ASSUME Format!RecordsConstants, NEW s, Format!IsString(s)
    PROVE  Format!AddString(s) \in Seq(Format!Byte)
<1>1. s \in Seq(Format!Byte) /\ Len(s) \in Nat
    BY DEF Format!IsString
<1>2. Format!AddUvarint(Len(s)) \in Seq(Format!Byte)
    BY <1>1, UvarintBytes
<1>3. QED
    BY <1>1, <1>2, ConcatProperties DEF Format!AddString

LEMMA VersionBytes ==
    ASSUME Format!RecordsConstants
    PROVE  Format!Version \in Seq(Format!Byte) /\ Len(Format!Version) = 1
<1>1. 0 \in Format!Byte
    BY DEF Format!RecordsConstants, Format!Byte
<1>2. QED
    BY <1>1 DEF Format!Version

\* The whole record stands at its start.
LEMMA HoldsAll ==
    ASSUME NEW f \in Seq(Format!Byte)
    PROVE  Holds(f, 0, f)
<1>1. Len(f) \in Nat /\ \A i \in 1 .. Len(f) : 0 + i = i
    BY LenProperties
<1>2. QED
    BY <1>1 DEF Holds

\* A reader begins.
LEMMA ReaderBegins ==
    ASSUME NEW w, NEW p, p <= Len(w)
    PROVE  Reads(Format!Reader(SubSeq(w, p + 1, Len(w))), w, p, 0)
    BY DEF Reads, Format!Reader

\* It takes the byte of the version.
LEMMA VersionReads ==
    ASSUME Format!RecordsConstants, NEW w, NEW f, OnWire(w, f), NEW p, Holds(f, p, Format!Version),
           NEW d, NEW v0, Reads(d, w, p, v0)
    PROVE  Reads(Format!ReadUint8(d), w, p + 1, Format!Version)
<1> DEFINE V == Format!Version
           R == Format!ReadFixedByteArray(d, Len(V))
<1>1. Reads(R, w, p + Len(V), V)
    BY BytesRead
<1>2. Len(V) = 1
    BY VersionBytes
<1>3. R = Format!ReadUint8(d)
    BY <1>2 DEF Format!ReadUint8
<1>4. QED
    BY <1>1, <1>2, <1>3

LEMMA FirstVersionReads ==
    ASSUME Format!RecordsConstants, NEW w, NEW f, OnWire(w, f), Holds(f, 0, Format!Version)
    PROVE  Reads(Format!ReadUint8(Format!Reader(w)), w, 1, Format!Version)
<1>1. w \in Seq(Format!Byte) /\ Len(w) \in Nat /\ 0 <= Len(w)
    BY LenProperties DEF OnWire
<1>2. SubSeq(w, 0 + 1, Len(w)) = w
    BY <1>1, SubSeqFull
<1>3. Reads(Format!Reader(w), w, 0, 0)
    BY <1>1, <1>2, ReaderBegins
<1>4. Reads(Format!ReadUint8(Format!Reader(w)), w, 0 + 1, Format!Version)
    BY <1>3, VersionReads
<1>5. QED
    BY <1>4

LEMMA ShareReads ==
    ASSUME Format!RecordsConstants, NEW r, Format!IsShare(r),
           NEW w, OnWire(w, Format!SerializeShare(r))
    PROVE  Outcome(Format!DeserializeShare(w), r, w, Format!SerializeShare(r))
<1> DEFINE f == Format!SerializeShare(r)
           V == Format!Version
           A == Format!AddString(r.Wallet)
           B == Format!AddUint64(r.Diff)
           C == Format!AddUint64(r.Time)
<1>1. /\ Format!IsString(r.Wallet) /\ Format!IsUint64(r.Diff) /\ Format!IsUint64(r.Time)
      /\ r = [kind |-> "share", Wallet |-> r.Wallet, Diff |-> r.Diff, Time |-> r.Time]
    BY DEF Format!IsShare
<1>2. V \in Seq(Format!Byte) /\ A \in Seq(Format!Byte) /\ B \in Seq(Format!Byte) /\ C \in Seq(Format!Byte)
    BY <1>1, VersionBytes, StringBytes, Uint64Shape
<1>3. Joins(V \o A, V, A) /\ Joins((V \o A) \o B, V \o A, B) /\ Joins(f, (V \o A) \o B, C)
  <2>1. f = ((V \o A) \o B) \o C
    BY DEF Format!SerializeShare
  <2> HIDE DEF f, V, A, B, C
  <2>2. V \o A \in Seq(Format!Byte) /\ (V \o A) \o B \in Seq(Format!Byte)
    BY <1>2, ConcatProperties
  <2>3. QED
    BY <1>2, <2>1, <2>2 DEF Joins
<1>4. OnWire(w, f)
    OBVIOUS
<1> HIDE DEF f, V, A, B, C
<1>5. f \in Seq(Format!Byte)
    BY <1>4 DEF OnWire
<1>6. Holds(f, 0, f)
    BY <1>5, HoldsAll
<1>7. /\ Holds(f, 0, V) /\ Holds(f, 0 + Len(V), A)
      /\ Holds(f, (0 + Len(V)) + Len(A), B) /\ Holds(f, ((0 + Len(V)) + Len(A)) + Len(B), C)
      /\ 0 + Len(f) = (((0 + Len(V)) + Len(A)) + Len(B)) + Len(C)
      /\ Len(V) \in Nat /\ Len(A) \in Nat /\ Len(B) \in Nat /\ Len(C) \in Nat
  <2>1. HoldsFour(f, 0, V, A, B, C, f)
    BY <1>3, <1>5, <1>6, FourParts
  <2>2. QED
    BY <1>2, <2>1, LenProperties DEF HoldsFour
<1>8. Len(V) = 1
    BY VersionBytes DEF V
<1>9. /\ Holds(f, 1, A) /\ Holds(f, 1 + Len(A), B) /\ Holds(f, (1 + Len(A)) + Len(B), C)
      /\ Len(f) = ((1 + Len(A)) + Len(B)) + Len(C)
  <2>1. 0 + Len(V) = 1 /\ Len(f) \in Nat
    BY <1>5, <1>8, LenProperties
  <2>2. 0 + Len(f) = Len(f)
    BY <2>1
  <2>3. QED
    BY <1>7, <2>1, <2>2
<1>10. /\ Len(w) \in Nat /\ Len(f) \in Nat /\ Len(w) <= Len(f)
    BY <1>4, <1>5, LenProperties DEF OnWire
<1> DEFINE d0 == Format!ReadUint8(Format!Reader(w))
           d1 == Format!ReadString(d0)
           d2 == Format!ReadUint64(d1)
           d3 == Format!ReadUint64(d2)
<1>11. Reads(d0, w, 1, V)
    BY <1>4, <1>7, FirstVersionReads DEF V
<1>12. Reads(d1, w, 1 + Len(A), r.Wallet)
    BY <1>1, <1>4, <1>9, <1>11, StringReads DEF A
<1>13. Reads(d2, w, (1 + Len(A)) + Len(B), r.Diff)
    BY <1>1, <1>4, <1>9, <1>12, Uint64Reads DEF B
<1>14. Reads(d3, w, ((1 + Len(A)) + Len(B)) + Len(C), r.Time)
    BY <1>1, <1>4, <1>9, <1>13, Uint64Reads DEF C
<1>15. /\ Len(f) = ((1 + Len(A)) + Len(B)) + Len(C) /\ 1 + Len(A) <= Len(f)
       /\ (1 + Len(A)) + Len(B) <= Len(f)
    BY <1>7, <1>9
<1>16. Format!DeserializeShare(w)
         = [status |-> IF d3.ok THEN "ok" ELSE "error",
            rec |-> [kind |-> "share", Wallet |-> d1.val, Diff |-> d2.val, Time |-> d3.val]]
    BY DEF Format!DeserializeShare, Format!Ok
<1> HIDE DEF d0, d1, d2, d3
<1>17. CASE Len(w) = Len(f)
  <2>1. d3.ok = TRUE /\ d1.val = r.Wallet /\ d2.val = r.Diff /\ d3.val = r.Time
    BY <1>12, <1>13, <1>14, <1>15, <1>17 DEF Reads
  <2>2. Format!DeserializeShare(w) = [status |-> "ok", rec |-> r]
    BY <1>1, <1>16, <2>1
  <2>3. QED
    BY <1>17, <2>2 DEF Outcome, f
<1>18. CASE Len(w) # Len(f)
  <2>1. ~(((1 + Len(A)) + Len(B)) + Len(C) <= Len(w))
    BY <1>10, <1>15, <1>18
  <2>2. d3.ok = FALSE
    BY <1>14, <2>1 DEF Reads
  <2>3. Format!DeserializeShare(w).status = "error"
    BY <1>16, <2>2
  <2>4. QED
    BY <1>18, <2>3 DEF Outcome, f
<1>19. QED
    BY <1>17, <1>18

LEMMA AddrInfoReads ==
    ASSUME Format!RecordsConstants, NEW r, Format!IsAddrInfo(r),
           NEW w, OnWire(w, Format!SerializeAddrInfo(r))
    PROVE  Outcome(Format!DeserializeAddrInfo(w), r, w, Format!SerializeAddrInfo(r))
<1> DEFINE f == Format!SerializeAddrInfo(r)
           V == Format!Version
           A == Format!AddUvarint(r.Balance)
           B == Format!AddUvarint(r.BalancePending)
           C == Format!AddUvarint(r.Paid)
<1>1. /\ r.Balance \in Nat /\ r.BalancePending \in Nat /\ r.Paid \in Nat
      /\ Len(A) <= MaxVarint /\ Len(B) <= MaxVarint /\ Len(C) <= MaxVarint
      /\ r = [kind |-> "addr", Balance |-> r.Balance, BalancePending |-> r.BalancePending,
              Paid |-> r.Paid]
    BY DEF Format!IsAddrInfo, Format!IsUint64
<1>2. V \in Seq(Format!Byte) /\ A \in Seq(Format!Byte) /\ B \in Seq(Format!Byte) /\ C \in Seq(Format!Byte)
    BY <1>1, VersionBytes, UvarintBytes
<1>3. Joins(V \o A, V, A) /\ Joins((V \o A) \o B, V \o A, B) /\ Joins(f, (V \o A) \o B, C)
  <2>1. f = ((V \o A) \o B) \o C
    BY DEF Format!SerializeAddrInfo
  <2> HIDE DEF f, V, A, B, C
  <2>2. V \o A \in Seq(Format!Byte) /\ (V \o A) \o B \in Seq(Format!Byte)
    BY <1>2, ConcatProperties
  <2>3. QED
    BY <1>2, <2>1, <2>2 DEF Joins
<1>4. OnWire(w, f)
    OBVIOUS
<1> HIDE DEF f, V, A, B, C
<1>5. f \in Seq(Format!Byte)
    BY <1>4 DEF OnWire
<1>6. Holds(f, 0, f)
    BY <1>5, HoldsAll
<1>7. /\ Holds(f, 0, V) /\ Holds(f, 0 + Len(V), A)
      /\ Holds(f, (0 + Len(V)) + Len(A), B) /\ Holds(f, ((0 + Len(V)) + Len(A)) + Len(B), C)
      /\ 0 + Len(f) = (((0 + Len(V)) + Len(A)) + Len(B)) + Len(C)
      /\ Len(V) \in Nat /\ Len(A) \in Nat /\ Len(B) \in Nat /\ Len(C) \in Nat
  <2>1. HoldsFour(f, 0, V, A, B, C, f)
    BY <1>3, <1>5, <1>6, FourParts
  <2>2. QED
    BY <1>2, <2>1, LenProperties DEF HoldsFour
<1>8. Len(V) = 1
    BY VersionBytes DEF V
<1>9. /\ Holds(f, 1, A) /\ Holds(f, 1 + Len(A), B) /\ Holds(f, (1 + Len(A)) + Len(B), C)
      /\ Len(f) = ((1 + Len(A)) + Len(B)) + Len(C)
  <2>1. 0 + Len(V) = 1 /\ Len(f) \in Nat
    BY <1>5, <1>8, LenProperties
  <2>2. 0 + Len(f) = Len(f)
    BY <2>1
  <2>3. QED
    BY <1>7, <2>1, <2>2
<1>10. /\ Len(w) \in Nat /\ Len(f) \in Nat /\ Len(w) <= Len(f)
    BY <1>4, <1>5, LenProperties DEF OnWire
<1> DEFINE d0 == Format!ReadUint8(Format!Reader(w))
           d1 == Format!ReadUvarint(d0)
           d2 == Format!ReadUvarint(d1)
           d3 == Format!ReadUvarint(d2)
<1>11. Reads(d0, w, 1, V)
    BY <1>4, <1>7, FirstVersionReads DEF V
<1>12. Reads(d1, w, 1 + Len(A), r.Balance)
    BY <1>1, <1>4, <1>9, <1>11, UvarintReads DEF A
<1>13. Reads(d2, w, (1 + Len(A)) + Len(B), r.BalancePending)
    BY <1>1, <1>4, <1>9, <1>12, UvarintReads DEF B
<1>14. Reads(d3, w, ((1 + Len(A)) + Len(B)) + Len(C), r.Paid)
    BY <1>1, <1>4, <1>9, <1>13, UvarintReads DEF C
<1>15. /\ Len(f) = ((1 + Len(A)) + Len(B)) + Len(C) /\ 1 + Len(A) <= Len(f)
       /\ (1 + Len(A)) + Len(B) <= Len(f)
    BY <1>7, <1>9
<1>16. Format!DeserializeAddrInfo(w)
         = [status |-> IF d3.ok THEN "ok" ELSE "error",
            rec |-> [kind |-> "addr", Balance |-> d1.val, BalancePending |-> d2.val,
                     Paid |-> d3.val]]
    BY DEF Format!DeserializeAddrInfo, Format!Ok
<1> HIDE DEF d0, d1, d2, d3
<1>17. CASE Len(w) = Len(f)
  <2>1. d3.ok = TRUE /\ d1.val = r.Balance /\ d2.val = r.BalancePending /\ d3.val = r.Paid
    BY <1>12, <1>13, <1>14, <1>15, <1>17 DEF Reads
  <2>2. Format!DeserializeAddrInfo(w) = [status |-> "ok", rec |-> r]
    BY <1>1, <1>16, <2>1
  <2>3. QED
    BY <1>17, <2>2 DEF Outcome, f
<1>18. CASE Len(w) # Len(f)
  <2>1. ~(((1 + Len(A)) + Len(B)) + Len(C) <= Len(w))
    BY <1>10, <1>15, <1>18
  <2>2. d3.ok = FALSE
    BY <1>14, <2>1 DEF Reads
  <2>3. Format!DeserializeAddrInfo(w).status = "error"
    BY <1>16, <2>2
  <2>4. QED
    BY <1>18, <2>3 DEF Outcome, f
<1>19. QED
    BY <1>17, <1>18

\* g[i] is the first i parts of s, one behind the other.
Flats(g, s, n) == g = [i \in 1 .. n |-> IF i = 1 THEN s[i] ELSE g[i - 1] \o s[i]]

FlatsUpTo(g, s, n) == \A i \in 1 .. n : g[i] = IF i = 1 THEN s[i] ELSE g[i - 1] \o s[i]

LEMMA FlattenSeqDef ==
    ASSUME NEW s
    PROVE  Format!FlattenSeq(s) = IF Len(s) = 0 THEN s
                                  ELSE (CHOOSE g : Flats(g, s, Len(s)))[Len(s)]
    BY DEF Format!FlattenSeq, Flats

LEMMA FlatsExist ==
    ASSUME NEW n \in Nat, NEW s
    PROVE  \A m \in 0 .. n : \E g : g = [i \in 1 .. m |-> g[i]] /\ FlatsUpTo(g, s, m)
<1> DEFINE Good == {m \in 0 .. n : \E g : g = [i \in 1 .. m |-> g[i]] /\ FlatsUpTo(g, s, m)}
<1>1. 0 \in Good
  <2> DEFINE g == [i \in 1 .. 0 |-> 0]
  <2>1. 1 .. 0 = {}
    OBVIOUS
  <2>2. g = [i \in 1 .. 0 |-> g[i]]
    OBVIOUS
  <2>3. FlatsUpTo(g, s, 0)
    BY <2>1 DEF FlatsUpTo
  <2> HIDE DEF g
  <2>4. 0 \in 0 .. n
    OBVIOUS
  <2>5. \E x : x = [i \in 1 .. 0 |-> x[i]] /\ FlatsUpTo(x, s, 0)
    BY <2>2, <2>3
  <2>6. QED
    BY <2>4, <2>5
<1>2. ASSUME NEW m \in 0 .. n - 1, m \in Good PROVE m + 1 \in Good
  <2>1. PICK g : FlatsUpTo(g, s, m)
    BY <1>2
  <2> DEFINE last == IF m + 1 = 1 THEN s[m + 1] ELSE g[m] \o s[m + 1]
             h == [i \in 1 .. m + 1 |-> IF i <= m THEN g[i] ELSE last]
  <2>2. h = [i \in 1 .. m + 1 |-> h[i]] /\ h[m + 1] = last /\ \A i \in 1 .. m : h[i] = g[i]
    <3> HIDE DEF last
    <3> QED OBVIOUS
  <2> HIDE DEF h
  <2>3. ASSUME NEW i \in 1 .. m + 1 PROVE h[i] = IF i = 1 THEN s[i] ELSE h[i - 1] \o s[i]
    <3>1. CASE i = m + 1
      <4>1. i # 1 => i - 1 \in 1 .. m /\ i - 1 = m
        BY <3>1
      <4>2. QED
        BY <2>2, <3>1, <4>1
    <3>2. CASE i # m + 1
      <4>1. i \in 1 .. m /\ (i # 1 => i - 1 \in 1 .. m)
        BY <3>2
      <4>2. h[i] = g[i] /\ (i # 1 => h[i - 1] = g[i - 1])
        BY <2>2, <4>1
      <4>3. QED
        BY <2>1, <4>1, <4>2 DEF FlatsUpTo
    <3>3. QED
      BY <3>1, <3>2
  <2>4. m + 1 \in 0 .. n
    OBVIOUS
  <2>5. QED
    BY <2>2, <2>3, <2>4 DEF FlatsUpTo
<1>3. \A m \in 0 .. n : m \in Good
  <2> HIDE DEF Good
  <2> QED BY <1>1, <1>2, IntervalInduction
<1>4. QED
    BY <1>3

LEMMA FlattenSeqIsLast ==
    ASSUME NEW s, Len(s) \in Nat, Len(s) # 0
    PROVE  \E g : FlatsUpTo(g, s, Len(s)) /\ Format!FlattenSeq(s) = g[Len(s)]
<1> DEFINE n == Len(s)
<1>1. n \in 0 .. n
    OBVIOUS
<1>2. PICK g : g = [i \in 1 .. n |-> g[i]] /\ FlatsUpTo(g, s, n)
    BY <1>1, FlatsExist
<1>3. Flats(g, s, n)
  <2>1. [i \in 1 .. n |-> g[i]] = [i \in 1 .. n |-> IF i = 1 THEN s[i] ELSE g[i - 1] \o s[i]]
    BY <1>2 DEF FlatsUpTo
  <2>2. QED
    BY <1>2, <2>1 DEF Flats
<1> DEFINE h == CHOOSE x : Flats(x, s, n)
<1>4. Flats(h, s, n)
    BY <1>3
<1>5. Format!FlattenSeq(s) = h[n]
    BY FlattenSeqDef
<1> HIDE DEF h
<1>6. FlatsUpTo(h, s, n)
    BY <1>4 DEF Flats, FlatsUpTo
<1>7. QED
    BY <1>5, <1>6

\* o[i] is where the part after the first i of s stands.
Offsets(o, s, p, e) ==
    /\ o[0] = p /\ o[Len(s)] = p + Len(e)
    /\ \A i \in 0 .. Len(s) : o[i] \in Nat
    /\ \A i \in 1 .. Len(s) : o[i] = o[i - 1] + Len(s[i])

\* The parts of a list stand one behind the other.
LEMMA FlattenSeqBytes ==
    ASSUME NEW s \in Seq(Seq(Format!Byte))
    PROVE  Format!FlattenSeq(s) \in Seq(Format!Byte)
<1>1. Len(s) \in Nat /\ \A i \in 1 .. Len(s) : s[i] \in Seq(Format!Byte)
    BY LenProperties, ElementOfSeq
<1>2. CASE Len(s) = 0
  <2>1. s = << >>
    BY <1>2, EmptySeq
  <2>2. QED
    BY <1>2, <2>1, FlattenSeqDef, EmptySeq
<1>3. CASE Len(s) # 0
  <2>1. PICK g : FlatsUpTo(g, s, Len(s)) /\ Format!FlattenSeq(s) = g[Len(s)]
    BY <1>1, <1>3, FlattenSeqIsLast
  <2> DEFINE n == Len(s) - 1
             Good == {i \in 0 .. n : g[i + 1] \in Seq(Format!Byte)}
  <2>2. n \in Nat /\ n + 1 = Len(s)
    BY <1>1, <1>3
  <2>3. 0 \in Good
    <3>1. 1 \in 1 .. Len(s) /\ 0 + 1 = 1 /\ 0 \in 0 .. n
      BY <2>2
    <3>2. g[1] = s[1]
      BY <2>1, <3>1 DEF FlatsUpTo
    <3>3. QED
      BY <1>1, <3>1, <3>2
  <2>4. ASSUME NEW i \in 0 .. n - 1, i \in Good PROVE i + 1 \in Good
    <3>1. /\ (i + 1) + 1 \in 1 .. Len(s) /\ (i + 1) + 1 # 1 /\ ((i + 1) + 1) - 1 = i + 1
          /\ i + 1 \in 0 .. n
      BY <2>2
    <3>2. g[(i + 1) + 1] = g[i + 1] \o s[(i + 1) + 1]
      BY <2>1, <3>1 DEF FlatsUpTo
    <3>3. g[i + 1] \in Seq(Format!Byte) /\ s[(i + 1) + 1] \in Seq(Format!Byte)
      BY <1>1, <2>4, <3>1
    <3>4. QED
      BY <3>1, <3>2, <3>3, ConcatProperties
  <2>5. \A i \in 0 .. n : i \in Good
    <3> HIDE DEF Good
    <3> QED BY <2>2, <2>3, <2>4, IntervalInduction
  <2>6. n \in 0 .. n
    BY <2>2
  <2>7. QED
    BY <2>1, <2>2, <2>5, <2>6
<1>4. QED
    BY <1>2, <1>3

LEMMA FlattenSeqHolds ==
    ASSUME NEW s \in Seq(Seq(Format!Byte)), NEW f \in Seq(Format!Byte), NEW p,
           Holds(f, p, Format!FlattenSeq(s))
    PROVE  \E o : /\ Offsets(o, s, p, Format!FlattenSeq(s))
                  /\ \A i \in 1 .. Len(s) : Holds(f, o[i - 1], s[i])
<1>1. Len(s) \in Nat /\ p \in Nat /\ \A i \in 1 .. Len(s) : s[i] \in Seq(Format!Byte)
    BY LenProperties, ElementOfSeq DEF Holds
<1>2. \A i \in 1 .. Len(s) : Len(s[i]) \in Nat
    BY <1>1, LenProperties
<1>3. CASE Len(s) = 0
  <2> DEFINE o == [i \in 0 .. 0 |-> p]
  <2>1. Format!FlattenSeq(s) = << >>
    BY <1>3, EmptySeq, FlattenSeqDef
  <2>2. o[0] = p /\ p = p + Len(Format!FlattenSeq(s))
    BY <1>1, <2>1, EmptySeq
  <2>3. 1 .. Len(s) = {} /\ \A i \in 0 .. Len(s) : i = 0
    BY <1>3
  <2> HIDE DEF o
  <2>4. Offsets(o, s, p, Format!FlattenSeq(s))
    BY <1>1, <1>3, <2>2, <2>3 DEF Offsets
  <2>5. QED
    BY <2>3, <2>4
<1>4. CASE Len(s) # 0
  <2>1. PICK g : FlatsUpTo(g, s, Len(s)) /\ Format!FlattenSeq(s) = g[Len(s)]
    BY <1>1, <1>4, FlattenSeqIsLast
  <2> DEFINE n == Len(s) - 1
             Flat == {i \in 0 .. n : g[i + 1] \in Seq(Format!Byte)}
             Held == {j \in 0 .. n : Holds(f, p, g[Len(s) - j])}
  <2>2. n \in Nat /\ n + 1 = Len(s)
    BY <1>1, <1>4
  <2>3. \A i \in 0 .. n - 1 : g[i + 1] \in Seq(Format!Byte) => Joins(g[(i + 1) + 1], g[i + 1], s[(i + 1) + 1])
    <3> SUFFICES ASSUME NEW i \in 0 .. n - 1, g[i + 1] \in Seq(Format!Byte)
                 PROVE  Joins(g[(i + 1) + 1], g[i + 1], s[(i + 1) + 1])
        OBVIOUS
    <3>1. (i + 1) + 1 \in 1 .. Len(s) /\ (i + 1) + 1 # 1 /\ ((i + 1) + 1) - 1 = i + 1
      BY <2>2
    <3>2. g[(i + 1) + 1] = g[i + 1] \o s[(i + 1) + 1]
      BY <2>1, <3>1 DEF FlatsUpTo
    <3>3. s[(i + 1) + 1] \in Seq(Format!Byte)
      BY <1>1, <3>1
    <3>4. QED
      BY <3>2, <3>3 DEF Joins
  <2>4. g[1] = s[1] /\ s[1] \in Seq(Format!Byte)
    <3>1. 1 \in 1 .. Len(s)
      BY <2>2
    <3>2. QED
      BY <1>1, <2>1, <3>1 DEF FlatsUpTo
  <2>5. \A i \in 0 .. n : g[i + 1] \in Seq(Format!Byte)
    <3>1. 0 \in Flat
      BY <2>2, <2>4
    <3>2. ASSUME NEW i \in 0 .. n - 1, i \in Flat PROVE i + 1 \in Flat
      <4>1. i + 1 \in 0 .. n /\ g[i + 1] \in Seq(Format!Byte)
        BY <2>2, <3>2
      <4>2. Joins(g[(i + 1) + 1], g[i + 1], s[(i + 1) + 1])
        BY <2>3, <4>1
      <4>3. g[(i + 1) + 1] \in Seq(Format!Byte)
        BY <4>2, ConcatProperties DEF Joins
      <4>4. QED
        BY <4>1, <4>3
    <3>3. \A i \in 0 .. n : i \in Flat
      <4> HIDE DEF Flat
      <4> QED BY <2>2, <3>1, <3>2, IntervalInduction
    <3>4. QED
      BY <3>3
  <2>6. \A i \in 0 .. n - 1 : Joins(g[(i + 1) + 1], g[i + 1], s[(i + 1) + 1])
    <3>1. \A i \in 0 .. n - 1 : i \in 0 .. n
      BY <2>2
    <3>2. QED
      BY <2>3, <2>5, <3>1
  <2>7. \A j \in 0 .. n : Holds(f, p, g[Len(s) - j])
    <3>1. 0 \in Held
      <4>1. Len(s) - 0 = Len(s) /\ 0 \in 0 .. n
        BY <2>2
      <4>2. QED
        BY <2>1, <4>1
    <3>2. ASSUME NEW j \in 0 .. n - 1, j \in Held PROVE j + 1 \in Held
      <4> DEFINE i == n - 1 - j
      <4>1. /\ i \in 0 .. n - 1 /\ (i + 1) + 1 = Len(s) - j /\ i + 1 = Len(s) - (j + 1)
            /\ j + 1 \in 0 .. n
        BY <2>2
      <4> HIDE DEF i
      <4>2. Joins(g[(i + 1) + 1], g[i + 1], s[(i + 1) + 1])
        BY <2>6, <4>1
      <4>3. Holds(f, p, g[(i + 1) + 1])
        BY <3>2, <4>1
      <4>4. HoldsBoth(f, p, g[i + 1], s[(i + 1) + 1], g[(i + 1) + 1])
        BY <4>2, <4>3, HoldsParts
      <4>5. Holds(f, p, g[i + 1])
        BY <4>4 DEF HoldsBoth
      <4>6. QED
        BY <4>1, <4>5
    <3>3. \A j \in 0 .. n : j \in Held
      <4> HIDE DEF Held
      <4> QED BY <2>2, <3>1, <3>2, IntervalInduction
    <3>4. QED
      BY <3>3
  <2>8. \A i \in 0 .. n - 1 : HoldsBoth(f, p, g[i + 1], s[(i + 1) + 1], g[(i + 1) + 1])
    <3> SUFFICES ASSUME NEW i \in 0 .. n - 1
                 PROVE  HoldsBoth(f, p, g[i + 1], s[(i + 1) + 1], g[(i + 1) + 1])
        OBVIOUS
    <3> DEFINE j == n - 1 - i
    <3>1. j \in 0 .. n /\ Len(s) - j = (i + 1) + 1
      BY <2>2
    <3> HIDE DEF j
    <3>2. Holds(f, p, g[(i + 1) + 1])
      BY <2>7, <3>1
    <3>3. Joins(g[(i + 1) + 1], g[i + 1], s[(i + 1) + 1])
      BY <2>6
    <3>4. QED
      BY <3>2, <3>3, HoldsParts
  <2>9. Holds(f, p, s[1])
    <3>1. n \in 0 .. n /\ Len(s) - n = 1
      BY <2>2
    <3>2. QED
      BY <2>4, <2>7, <3>1
  <2> DEFINE o == [i \in 0 .. Len(s) |-> IF i = 0 THEN p ELSE p + Len(g[i])]
  <2>10. o[0] = p /\ \A i \in 1 .. Len(s) : o[i] = p + Len(g[i])
    BY <1>1
  <2>11. \A i \in 1 .. Len(s) : Len(g[i]) \in Nat
    <3> SUFFICES ASSUME NEW i \in 1 .. Len(s) PROVE Len(g[i]) \in Nat
        OBVIOUS
    <3>1. i - 1 \in 0 .. n /\ (i - 1) + 1 = i
      BY <2>2
    <3>2. g[i] \in Seq(Format!Byte)
      BY <2>5, <3>1
    <3>3. QED
      BY <3>2, LenProperties
  <2> HIDE DEF o, n
  <2>12. \A i \in 1 .. Len(s) : Holds(f, o[i - 1], s[i]) /\ o[i] = o[i - 1] + Len(s[i])
    <3> SUFFICES ASSUME NEW i \in 1 .. Len(s)
                 PROVE  Holds(f, o[i - 1], s[i]) /\ o[i] = o[i - 1] + Len(s[i])
        OBVIOUS
    <3>1. CASE i = 1
      <4>1. i - 1 = 0 /\ 1 \in 1 .. Len(s)
        BY <3>1
      <4>2. QED
        BY <2>4, <2>9, <2>10, <3>1, <4>1
    <3>2. CASE i # 1
      <4> DEFINE k == i - 2
      <4>1. /\ k \in 0 .. n - 1 /\ (k + 1) + 1 = i /\ k + 1 = i - 1 /\ i - 1 \in 1 .. Len(s)
        BY <2>2, <3>2
      <4> HIDE DEF k
      <4>2. HoldsBoth(f, p, g[k + 1], s[(k + 1) + 1], g[(k + 1) + 1])
        BY <2>8, <4>1
      <4>3. HoldsBoth(f, p, g[i - 1], s[i], g[i])
        BY <4>1, <4>2
      <4>4. Holds(f, p + Len(g[i - 1]), s[i]) /\ Len(g[i]) = Len(g[i - 1]) + Len(s[i])
        BY <4>3 DEF HoldsBoth
      <4>5. o[i - 1] = p + Len(g[i - 1]) /\ o[i] = p + Len(g[i])
        BY <2>10, <4>1
      <4>6. p + (Len(g[i - 1]) + Len(s[i])) = (p + Len(g[i - 1])) + Len(s[i])
        <5> DEFINE x == Len(g[i - 1])
                   y == Len(s[i])
        <5>1. x \in Nat /\ y \in Nat
          BY <1>2, <2>11, <4>1
        <5> HIDE DEF x, y
        <5>2. p + (x + y) = (p + x) + y
          BY <1>1, <5>1
        <5>3. QED
          BY <5>2 DEF x, y
      <4>7. QED
        BY <4>4, <4>5, <4>6
    <3>3. QED
      BY <3>1, <3>2
  <2>13. \A i \in 0 .. Len(s) : o[i] \in Nat
    <3>1. \A i \in 0 .. Len(s) : i = 0 \/ i \in 1 .. Len(s)
      BY <1>1
    <3>2. QED
      BY <1>1, <2>10, <2>11, <3>1
  <2>14. o[Len(s)] = p + Len(Format!FlattenSeq(s))
    <3>1. Len(s) \in 1 .. Len(s)
      BY <1>1, <1>4
    <3>2. QED
      BY <2>1, <2>10, <3>1
  <2>15. Offsets(o, s, p, Format!FlattenSeq(s))
    BY <2>10, <2>12, <2>13, <2>14 DEF Offsets
  <2>16. QED
    BY <2>12, <2>15
<1>5. QED
    BY <1>3, <1>4

-----------------------------------------------------------------------------
(* The lists of a record are read entry by entry.                          *)

\* What one entry adds: a balance of a transaction, a transaction.
StepOf(k, t) ==
    IF k = "bals"
    THEN LET w == Format!ReadString(t.d)
             v == Format!ReadUvarint(w)
         IN  [d |-> v, bals |-> Append(t.bals, <<w.val, v.val>>)]
    ELSE IF t.status # "ok" THEN t
    ELSE LET u == Format!DeserializeUnconfTx(t.rest)
         IN  [status |-> u.status, rest |-> u.rest, txs |-> Append(t.txs, u.rec)]

Chains(c, k, n, first) == c = [i \in 0 .. n |-> IF i = 0 THEN first ELSE StepOf(k, c[i - 1])]

ChainUpTo(c, k, n, first) == c[0] = first /\ \A i \in 1 .. n : c[i] = StepOf(k, c[i - 1])

EndOfChain(k, n, first) == (CHOOSE c : Chains(c, k, n, first))[n]

LEMMA ChainsExist ==
    ASSUME NEW n \in Nat, NEW k, NEW first
    PROVE  \A m \in 0 .. n : \E c : c = [i \in 0 .. m |-> c[i]] /\ ChainUpTo(c, k, m, first)
<1> DEFINE Good == {m \in 0 .. n : \E c : c = [i \in 0 .. m |-> c[i]] /\ ChainUpTo(c, k, m, first)}
<1>1. 0 \in Good
  <2> DEFINE c == [i \in 0 .. 0 |-> first]
  <2>1. c = [i \in 0 .. 0 |-> c[i]] /\ c[0] = first
    OBVIOUS
  <2>2. 1 .. 0 = {}
    OBVIOUS
  <2>3. ChainUpTo(c, k, 0, first)
    BY <2>1, <2>2 DEF ChainUpTo
  <2> HIDE DEF c
  <2>4. QED
    BY <2>1, <2>3
<1>2. ASSUME NEW m \in 0 .. n - 1, m \in Good PROVE m + 1 \in Good
  <2>1. PICK c : ChainUpTo(c, k, m, first)
    BY <1>2
  <2> DEFINE last == StepOf(k, c[m])
             b == [i \in 0 .. m + 1 |-> IF i <= m THEN c[i] ELSE last]
  <2>2. /\ b = [i \in 0 .. m + 1 |-> b[i]]
        /\ b[0] = c[0] /\ b[m + 1] = last /\ b[m] = c[m] /\ \A i \in 0 .. m : b[i] = c[i]
    <3> HIDE DEF last
    <3> QED OBVIOUS
  <2> HIDE DEF b
  <2>3. ASSUME NEW i \in 1 .. m + 1 PROVE b[i] = StepOf(k, b[i - 1])
    <3>1. CASE i = m + 1
      <4>1. i - 1 = m
        BY <3>1
      <4>2. QED
        BY <2>2, <3>1, <4>1
    <3>2. CASE i # m + 1
      <4>1. i \in 1 .. m /\ i \in 0 .. m /\ i - 1 \in 0 .. m
        BY <3>2
      <4>2. b[i] = c[i] /\ b[i - 1] = c[i - 1]
        BY <2>2, <4>1
      <4>3. QED
        BY <2>1, <4>1, <4>2 DEF ChainUpTo
    <3>3. QED
      BY <3>1, <3>2
  <2>4. ChainUpTo(b, k, m + 1, first)
    BY <2>1, <2>2, <2>3 DEF ChainUpTo
  <2>5. m + 1 \in 0 .. n
    OBVIOUS
  <2>6. QED
    BY <2>2, <2>4, <2>5
<1>3. \A m \in 0 .. n : m \in Good
  <2> HIDE DEF Good
  <2> QED BY <1>1, <1>2, IntervalInduction
<1>4. QED
    BY <1>3

LEMMA ChainIsLast ==
    ASSUME NEW n \in Nat, NEW k, NEW first
    PROVE  \E c : ChainUpTo(c, k, n, first) /\ EndOfChain(k, n, first) = c[n]
<1>1. n \in 0 .. n
    OBVIOUS
<1>2. PICK c : c = [i \in 0 .. n |-> c[i]] /\ ChainUpTo(c, k, n, first)
    BY <1>1, ChainsExist
<1>3. Chains(c, k, n, first)
  <2>1. \A i \in 0 .. n : c[i] = IF i = 0 THEN first ELSE StepOf(k, c[i - 1])
    <3>1. \A i \in 0 .. n : i = 0 \/ (i # 0 /\ i \in 1 .. n)
      OBVIOUS
    <3>2. QED
      BY <1>2, <3>1 DEF ChainUpTo
  <2>2. [i \in 0 .. n |-> c[i]] = [i \in 0 .. n |-> IF i = 0 THEN first ELSE StepOf(k, c[i - 1])]
    BY <2>1
  <2>3. QED
    BY <1>2, <2>2 DEF Chains
<1> DEFINE b == CHOOSE x : Chains(x, k, n, first)
<1>4. Chains(b, k, n, first)
    BY <1>3
<1>5. EndOfChain(k, n, first) = b[n]
    BY DEF EndOfChain
<1> HIDE DEF b
<1>6. \A i \in 0 .. n : b[i] = IF i = 0 THEN first ELSE StepOf(k, b[i - 1])
    BY <1>4 DEF Chains
<1>7. ChainUpTo(b, k, n, first)
  <2>1. 0 \in 0 .. n /\ \A i \in 1 .. n : i \in 0 .. n /\ i # 0
    OBVIOUS
  <2>2. QED
    BY <1>6, <2>1 DEF ChainUpTo
<1>8. QED
    BY <1>5, <1>7

LEMMA UnconfTxDef ==
    ASSUME NEW data, NEW h, NEW x, NEW n, NEW last,
           h = Format!ReadUvarint(Format!ReadUint8(Format!Reader(data))),
           x = Format!ReadFixedByteArray(h, HashLen), n = Format!ReadUvarint(x),
           last = EndOfChain("bals", n.val, [d |-> n, bals |-> << >>])
    PROVE  Format!DeserializeUnconfTx(data)
             = [status |-> IF ~x.ok THEN "panic" ELSE IF last.d.ok THEN "ok" ELSE "error",
                rest |-> last.d.data,
                rec |-> [UnlockHeight |-> h.val, TxnBlockHash |-> x.val, Bals |-> last.bals]]
    BY DEF Format!DeserializeUnconfTx, EndOfChain, Chains, StepOf

LEMMA PendingBalsDef ==
    ASSUME NEW data, NEW h, NEW n, NEW last,
           h = Format!ReadUvarint(Format!ReadUint8(Format!Reader(data))),
           n = Format!ReadUvarint(h),
           last = EndOfChain("txs", n.val, [status |-> IF n.ok THEN "ok" ELSE "error",
                                        rest |-> n.data, txs |-> << >>])
    PROVE  Format!DeserializePendingBals(data)
             = [status |-> last.status,
                rec |-> [kind |-> "pending", LastHeight |-> h.val, UnconfirmedTxs |-> last.txs]]
    BY DEF Format!DeserializePendingBals, EndOfChain, Chains, StepOf

\* The bytes of one balance of a transaction.
BalBytes(b) == Format!AddString(b[1]) \o Format!AddUvarint(b[2])

IsBal(b) ==
    /\ Format!IsString(b[1]) /\ b[2] \in Nat /\ Len(Format!AddUvarint(b[2])) <= MaxVarint
    /\ b = <<b[1], b[2]>>

\* A prefix grows by the next element.
LEMMA PrefixGrows ==
    ASSUME NEW S, NEW s \in Seq(S), NEW i \in 1 .. Len(s)
    PROVE  Append(SubSeq(s, 1, i - 1), s[i]) = SubSeq(s, 1, i)
<1> DEFINE n == Len(s)
           j == i - 1
           a == SubSeq(s, 1, j)
           b == SubSeq(s, 1, i)
<1>1. n \in Nat /\ j \in Nat /\ i \in Nat /\ i = j + 1 /\ i <= n /\ s[i] \in S
    BY LenProperties, ElementOfSeq
<1>2. \A x \in 1 .. n : s[x] \in S
    BY ElementOfSeq
<1> HIDE DEF n, j
<1>3. a \in Seq(S) /\ Len(a) = j /\ \A x \in 1 .. j : a[x] = s[x]
  <2>1. \A x \in 1 .. j : s[x] \in S
    BY <1>1, <1>2
  <2>2. /\ a \in Seq(S) /\ Len(a) = IF 1 <= j THEN j - 1 + 1 ELSE 0
        /\ \A x \in 1 .. j - 1 + 1 : a[x] = s[1 + x - 1]
    BY <1>1, <2>1, SubSeqProperties
  <2> HIDE DEF a
  <2>3. j - 1 + 1 = j /\ \A x \in 1 .. j : 1 + x - 1 = x
    BY <1>1
  <2>4. QED
    BY <1>1, <2>2, <2>3
<1>4. b \in Seq(S) /\ Len(b) = i /\ \A x \in 1 .. i : b[x] = s[x]
  <2>1. \A x \in 1 .. i : s[x] \in S
    BY <1>1, <1>2
  <2>2. /\ b \in Seq(S) /\ Len(b) = IF 1 <= i THEN i - 1 + 1 ELSE 0
        /\ \A x \in 1 .. i - 1 + 1 : b[x] = s[1 + x - 1]
    BY <1>1, <2>1, SubSeqProperties
  <2> HIDE DEF b
  <2>3. i - 1 + 1 = i /\ \A x \in 1 .. i : 1 + x - 1 = x
    BY <1>1
  <2>4. QED
    BY <1>1, <2>2, <2>3
<1> DEFINE c == Append(a, s[i])
<1> HIDE DEF a, b
<1>5. /\ c \in Seq(S) /\ Len(c) = j + 1
      /\ \A x \in 1 .. j : c[x] = a[x]
      /\ c[j + 1] = s[i]
  <2>1. /\ c \in Seq(S) /\ Len(c) = Len(a) + 1
        /\ \A x \in 1 .. Len(a) : c[x] = a[x]
        /\ c[Len(a) + 1] = s[i]
    BY <1>1, <1>3, AppendProperties
  <2>2. QED
    BY <1>3, <2>1
<1> HIDE DEF c
<1>6. \A x \in 1 .. Len(c) : c[x] = b[x]
  <2> SUFFICES ASSUME NEW x \in 1 .. j + 1 PROVE c[x] = b[x]
      BY <1>5
  <2>1. CASE x = j + 1
    BY <1>1, <1>4, <1>5, <2>1
  <2>2. CASE x # j + 1
    <3>1. x \in 1 .. j /\ x \in 1 .. i
      BY <1>1, <2>2
    <3>2. QED
      BY <1>3, <1>4, <1>5, <3>1
  <2>3. QED
    BY <2>1, <2>2
<1>7. c = b
    BY <1>1, <1>4, <1>5, <1>6, SeqEqual
<1>8. QED
    BY <1>7 DEF a, b, c, j

\* The reader after some balances: they are what it has read.
BalsRead(x, w, q, s, i) ==
    /\ \E v : Reads(x.d, w, q, v)
    /\ q <= Len(w) => x.bals = SubSeq(s, 1, i)

LEMMA BalReads ==
    ASSUME Format!RecordsConstants, NEW w, NEW f, OnWire(w, f),
           NEW s \in Seq(Seq(Format!Byte) \X Nat), NEW i \in 1 .. Len(s), IsBal(s[i]),
           NEW p, Holds(f, p, BalBytes(s[i])), NEW x, BalsRead(x, w, p, s, i - 1)
    PROVE  BalsRead(StepOf("bals", x), w, p + Len(BalBytes(s[i])), s, i)
<1> DEFINE a == Format!AddString(s[i][1])
           b == Format!AddUvarint(s[i][2])
           e == BalBytes(s[i])
           r == Format!ReadString(x.d)
           v == Format!ReadUvarint(r)
           q == p + Len(e)
           y == StepOf("bals", x)
<1>1. /\ Format!IsString(s[i][1]) /\ s[i][2] \in Nat /\ Len(b) <= MaxVarint
      /\ s[i] = <<s[i][1], s[i][2]>>
    BY DEF IsBal
<1>2. a \in Seq(Format!Byte) /\ b \in Seq(Format!Byte)
    BY <1>1, StringBytes, UvarintBytes
<1>3. Joins(e, a, b) /\ f \in Seq(Format!Byte)
    BY <1>2 DEF Joins, BalBytes, OnWire
<1>4. Holds(f, p, e)
    OBVIOUS
<1>5. y = [d |-> v, bals |-> Append(x.bals, <<r.val, v.val>>)]
    BY DEF StepOf
<1>6. PICK u : Reads(x.d, w, p, u)
    BY DEF BalsRead
<1>7. p <= Len(w) => x.bals = SubSeq(s, 1, i - 1)
    BY DEF BalsRead
<1> SUFFICES BalsRead(y, w, q, s, i)
    OBVIOUS
<1>8. HoldsBoth(f, p, a, b, e)
  <2> HIDE DEF e, a, b
  <2> QED BY <1>3, <1>4, HoldsParts
<1>9. Holds(f, p, a) /\ Holds(f, p + Len(a), b) /\ Len(e) = Len(a) + Len(b)
    BY <1>8 DEF HoldsBoth
<1>10. /\ p \in Nat /\ Len(a) \in Nat /\ Len(b) \in Nat /\ Len(w) \in Nat
       /\ q = (p + Len(a)) + Len(b)
  <2>1. p \in Nat /\ Len(a) \in Nat /\ Len(b) \in Nat /\ Len(w) \in Nat
    BY <1>2, LenProperties DEF Holds, OnWire
  <2> HIDE DEF a, b, e
  <2>2. QED
    BY <1>9, <2>1
<1>11. Reads(r, w, p + Len(a), s[i][1])
    BY <1>1, <1>6, <1>9, StringReads
<1>12. Reads(v, w, (p + Len(a)) + Len(b), s[i][2])
    BY <1>1, <1>9, <1>11, UvarintReads
<1> HIDE DEF a, b, e, r, v, q, y
<1>13. Reads(y.d, w, q, s[i][2])
    BY <1>5, <1>10, <1>12
<1>14. ASSUME q <= Len(w) PROVE y.bals = SubSeq(s, 1, i)
  <2>1. p <= Len(w) /\ p + Len(a) <= Len(w) /\ (p + Len(a)) + Len(b) <= Len(w)
    BY <1>10, <1>14, SMTT(30)
  <2>2. r.val = s[i][1] /\ v.val = s[i][2]
    BY <1>11, <1>12, <2>1, SMTT(30) DEF Reads
  <2>3. y.bals = Append(SubSeq(s, 1, i - 1), s[i])
    BY <1>1, <1>5, <1>7, <2>1, <2>2
  <2>4. QED
    BY <2>3, PrefixGrows
<1>15. QED
    BY <1>13, <1>14 DEF BalsRead

\* All of them.
LEMMA AllBalsRead ==
    ASSUME Format!RecordsConstants, NEW w, NEW f, OnWire(w, f),
           NEW s \in Seq(Seq(Format!Byte) \X Nat), NEW n \in Nat, n = Len(s),
           \A i \in 1 .. n : IsBal(s[i]),
           NEW o, \A i \in 0 .. n : o[i] \in Nat,
           \A i \in 1 .. n : o[i] = o[i - 1] + Len(BalBytes(s[i])) /\ Holds(f, o[i - 1], BalBytes(s[i])),
           NEW d, NEW v0, Reads(d, w, o[0], v0),
           NEW c, ChainUpTo(c, "bals", n, [d |-> d, bals |-> << >>])
    PROVE  BalsRead(c[n], w, o[n], s, n)
<1> DEFINE Good == {i \in 0 .. n : BalsRead(c[i], w, o[i], s, i)}
<1>1. 0 \in Good
  <2>1. c[0] = [d |-> d, bals |-> << >>] /\ 0 \in 0 .. n
    BY DEF ChainUpTo
  <2>2. SubSeq(s, 1, 0) = << >>
    BY SubSeqEmpty
  <2>3. Reads(c[0].d, w, o[0], v0) /\ c[0].bals = SubSeq(s, 1, 0)
    BY <2>1, <2>2
  <2>4. QED
    BY <2>1, <2>3 DEF BalsRead
<1>2. ASSUME NEW i \in 0 .. n - 1, i \in Good PROVE i + 1 \in Good
  <2> DEFINE j == i + 1
  <2>1. j \in 1 .. Len(s) /\ j \in 1 .. n /\ j - 1 = i /\ j \in 0 .. n
    OBVIOUS
  <2> HIDE DEF j
  <2>2. IsBal(s[j]) /\ o[j] = o[i] + Len(BalBytes(s[j])) /\ Holds(f, o[i], BalBytes(s[j]))
    BY <2>1
  <2>3. BalsRead(c[i], w, o[i], s, j - 1)
    BY <1>2, <2>1
  <2>4. BalsRead(StepOf("bals", c[i]), w, o[i] + Len(BalBytes(s[j])), s, j)
    BY <2>1, <2>2, <2>3, BalReads
  <2>5. c[j] = StepOf("bals", c[i])
    BY <2>1 DEF ChainUpTo
  <2>6. BalsRead(c[j], w, o[j], s, j)
    BY <2>2, <2>4, <2>5
  <2>7. QED
    BY <2>1, <2>6 DEF j
<1>3. \A i \in 0 .. n : i \in Good
  <2> HIDE DEF Good
  <2> QED BY <1>1, <1>2, IntervalInduction
<1>4. n \in 0 .. n
    OBVIOUS
<1>5. QED
    BY <1>3, <1>4

\* The outcome of reading a transaction that ends at q.
TxOutcome(u, w, q, t) ==
    IF q <= Len(w)
    THEN u.status = "ok" /\ u.rec = t /\ u.rest = SubSeq(w, q + 1, Len(w))
    ELSE u.status # "ok"

LEMMA HashBytes ==
    ASSUME Format!RecordsConstants, NEW x \in Format!Hash
    PROVE  /\ x \in Seq(Format!Byte) /\ Len(x) = HashLen /\ HashLen \in Nat
           /\ \A i \in 1 .. HashLen : x[i] \in Format!Byte
<1>1. HashLen \in Nat
    BY DEF Format!RecordsConstants
<1>2. x \in [1 .. HashLen -> Format!Byte]
    BY DEF Format!Hash
<1>3. QED
    BY <1>1, <1>2

LEMMA EncodableParts ==
    ASSUME Format!RecordsConstants, NEW t \in Format!UnconfTx, Format!Encodable(t)
    PROVE  /\ t.UnlockHeight \in Nat /\ Len(Format!AddUvarint(t.UnlockHeight)) <= MaxVarint
           /\ t.TxnBlockHash \in Seq(Format!Byte) /\ Len(t.TxnBlockHash) = HashLen
           /\ t.Bals \in Seq(Seq(Format!Byte) \X Nat) /\ Len(t.Bals) \in Nat
           /\ Len(Format!AddUvarint(Len(t.Bals))) <= MaxVarint
           /\ \A i \in 1 .. Len(t.Bals) : IsBal(t.Bals[i])
           /\ t = [UnlockHeight |-> t.UnlockHeight, TxnBlockHash |-> t.TxnBlockHash, Bals |-> t.Bals]
<1>1. /\ t.UnlockHeight \in Nat /\ t.TxnBlockHash \in Format!Hash
      /\ t.Bals \in Seq(Seq(Format!Byte) \X Nat)
      /\ t = [UnlockHeight |-> t.UnlockHeight, TxnBlockHash |-> t.TxnBlockHash, Bals |-> t.Bals]
    BY DEF Format!UnconfTx
<1>2. t.TxnBlockHash \in Seq(Format!Byte) /\ Len(t.TxnBlockHash) = HashLen
    BY <1>1, HashBytes
<1>3. /\ Len(Format!AddUvarint(t.UnlockHeight)) <= MaxVarint
      /\ Len(Format!AddUvarint(Len(t.Bals))) <= MaxVarint
    BY DEF Format!Encodable, Format!IsUint64
<1>4. Len(t.Bals) \in Nat /\ DOMAIN t.Bals = 1 .. Len(t.Bals)
    BY <1>1, LenProperties
<1>5. ASSUME NEW i \in 1 .. Len(t.Bals) PROVE IsBal(t.Bals[i])
  <2>1. Format!IsString(t.Bals[i][1]) /\ Format!IsUint64(t.Bals[i][2])
    BY <1>4 DEF Format!Encodable
  <2>2. t.Bals[i] \in Seq(Format!Byte) \X Nat
    BY <1>1, ElementOfSeq
  <2>3. QED
    BY <2>1, <2>2 DEF IsBal, Format!IsUint64
<1>6. QED
    BY <1>1, <1>2, <1>3, <1>4, <1>5

\* The bytes of all balances.
BalParts(s) == [i \in DOMAIN s |-> BalBytes(s[i])]

LEMMA BalPartsBytes ==
    ASSUME Format!RecordsConstants, NEW s, NEW n \in Nat, n = Len(s), DOMAIN s = 1 .. n,
           \A i \in 1 .. n : IsBal(s[i])
    PROVE  /\ BalParts(s) \in Seq(Seq(Format!Byte)) /\ Len(BalParts(s)) = n
           /\ \A i \in 1 .. n : BalParts(s)[i] = BalBytes(s[i])
<1>1. BalParts(s) = [i \in 1 .. n |-> BalBytes(s[i])]
    BY DEF BalParts
<1>2. ASSUME NEW i \in 1 .. n PROVE BalBytes(s[i]) \in Seq(Format!Byte)
  <2>1. Format!AddString(s[i][1]) \in Seq(Format!Byte) /\ Format!AddUvarint(s[i][2]) \in Seq(Format!Byte)
    BY StringBytes, UvarintBytes DEF IsBal
  <2>2. QED
    BY <2>1, ConcatProperties DEF BalBytes
<1>3. QED
    BY <1>1, <1>2

LEMMA UnconfTxBytes ==
    ASSUME Format!RecordsConstants, NEW t \in Format!UnconfTx, Format!Encodable(t)
    PROVE  /\ Format!SerializeUnconfTx(t) \in Seq(Format!Byte)
           /\ \E a, ab, abc, abcd :
                /\ Joins(ab, Format!Version, Format!AddUvarint(t.UnlockHeight))
                /\ Joins(abc, ab, t.TxnBlockHash)
                /\ Joins(abcd, abc, Format!AddUvarint(Len(t.Bals)))
                /\ Joins(Format!SerializeUnconfTx(t), abcd, Format!FlattenSeq(BalParts(t.Bals)))
<1> DEFINE V == Format!Version
           U == Format!AddUvarint(t.UnlockHeight)
           H == t.TxnBlockHash
           N == Format!AddUvarint(Len(t.Bals))
           L == Format!FlattenSeq(BalParts(t.Bals))
           e == Format!SerializeUnconfTx(t)
<1>1. e = (((V \o U) \o H) \o N) \o L
    BY DEF Format!SerializeUnconfTx, BalParts, BalBytes
<1>2. /\ V \in Seq(Format!Byte) /\ U \in Seq(Format!Byte) /\ H \in Seq(Format!Byte)
      /\ N \in Seq(Format!Byte)
    BY EncodableParts, VersionBytes, UvarintBytes
<1>3. L \in Seq(Format!Byte)
  <2>1. /\ t.Bals \in Seq(Seq(Format!Byte) \X Nat) /\ Len(t.Bals) \in Nat
        /\ \A i \in 1 .. Len(t.Bals) : IsBal(t.Bals[i])
    BY EncodableParts
  <2>2. DOMAIN t.Bals = 1 .. Len(t.Bals)
    BY <2>1, LenProperties
  <2>3. BalParts(t.Bals) \in Seq(Seq(Format!Byte))
    BY <2>1, <2>2, BalPartsBytes
  <2>4. QED
    BY <2>3, FlattenSeqBytes
<1> HIDE DEF V, U, H, N, L, e
<1>4. V \o U \in Seq(Format!Byte) /\ (V \o U) \o H \in Seq(Format!Byte)
      /\ ((V \o U) \o H) \o N \in Seq(Format!Byte)
    BY <1>2, ConcatProperties
<1>5. e \in Seq(Format!Byte)
    BY <1>1, <1>3, <1>4, ConcatProperties
<1>6. /\ Joins(V \o U, V, U) /\ Joins((V \o U) \o H, V \o U, H)
      /\ Joins(((V \o U) \o H) \o N, (V \o U) \o H, N) /\ Joins(e, ((V \o U) \o H) \o N, L)
    BY <1>1, <1>2, <1>3, <1>4 DEF Joins
<1>7. QED
    BY <1>5, <1>6 DEF V, U, H, N, L, e

LEMMA UnconfTxReads ==
    ASSUME Format!RecordsConstants, NEW w, NEW f, OnWire(w, f),
           NEW t \in Format!UnconfTx, Format!Encodable(t),
           NEW p, p <= Len(w), Holds(f, p, Format!SerializeUnconfTx(t))
    PROVE  TxOutcome(Format!DeserializeUnconfTx(SubSeq(w, p + 1, Len(w))), w,
                     p + Len(Format!SerializeUnconfTx(t)), t)
<1> DEFINE V == Format!Version
           U == Format!AddUvarint(t.UnlockHeight)
           H == t.TxnBlockHash
           N == Format!AddUvarint(Len(t.Bals))
           L == Format!FlattenSeq(BalParts(t.Bals))
           e == Format!SerializeUnconfTx(t)
           n == Len(t.Bals)
           data == SubSeq(w, p + 1, Len(w))
           d0 == Format!ReadUint8(Format!Reader(data))
           h == Format!ReadUvarint(d0)
           x == Format!ReadFixedByteArray(h, HashLen)
           m == Format!ReadUvarint(x)
           first == [d |-> m, bals |-> << >>]
           last == EndOfChain("bals", m.val, first)
           u == Format!DeserializeUnconfTx(data)
<1>1. /\ t.UnlockHeight \in Nat /\ Len(U) <= MaxVarint
      /\ H \in Seq(Format!Byte) /\ Len(H) = HashLen
      /\ t.Bals \in Seq(Seq(Format!Byte) \X Nat) /\ n \in Nat /\ Len(N) <= MaxVarint
      /\ \A i \in 1 .. n : IsBal(t.Bals[i])
      /\ t = [UnlockHeight |-> t.UnlockHeight, TxnBlockHash |-> H, Bals |-> t.Bals]
    BY EncodableParts
<1>2. u = [status |-> IF ~x.ok THEN "panic" ELSE IF last.d.ok THEN "ok" ELSE "error",
           rest |-> last.d.data,
           rec |-> [UnlockHeight |-> h.val, TxnBlockHash |-> x.val, Bals |-> last.bals]]
    BY UnconfTxDef
<1>3. PICK ab, abc, abcd : /\ Joins(ab, V, U) /\ Joins(abc, ab, H) /\ Joins(abcd, abc, N)
                           /\ Joins(e, abcd, L)
    BY UnconfTxBytes
<1>4. Holds(f, p, e) /\ f \in Seq(Format!Byte) /\ p \in Nat /\ Len(w) \in Nat
    BY LenProperties DEF OnWire, Holds
<1>5. Reads(Format!Reader(data), w, p, 0)
    BY ReaderBegins
<1> HIDE DEF e, L
<1> SUFFICES TxOutcome(u, w, p + Len(e), t)
    BY DEF e
<1>6. HoldsBoth(f, p, abcd, L, e)
    BY <1>3, <1>4, HoldsParts
<1>7. Holds(f, p, abcd) /\ Holds(f, p + Len(abcd), L) /\ Len(e) = Len(abcd) + Len(L)
    BY <1>6 DEF HoldsBoth
<1>8. HoldsFour(f, p, V, U, H, N, abcd)
    BY <1>3, <1>4, <1>7, FourParts
<1> DEFINE p1 == p + 1
           p2 == p1 + Len(U)
           p3 == p2 + HashLen
           p4 == p3 + Len(N)
           q == p + Len(e)
<1>9. /\ Holds(f, p, V) /\ Holds(f, p1, U) /\ Holds(f, p2, H) /\ Holds(f, p3, N)
      /\ p + Len(abcd) = p4
  <2>1. Len(V) = 1
    BY VersionBytes
  <2>2. QED
    BY <1>1, <1>8, <2>1 DEF HoldsFour
<1>10. /\ p1 \in Nat /\ p2 \in Nat /\ p3 \in Nat /\ p4 \in Nat /\ q \in Nat /\ q = p4 + Len(L)
       /\ p <= p1 /\ p1 <= p2 /\ p2 <= p3 /\ p3 <= p4 /\ p4 <= q
  <2>1. Len(U) \in Nat /\ Len(N) \in Nat /\ Len(L) \in Nat /\ HashLen \in Nat /\ Len(abcd) \in Nat
    BY <1>1, <1>3, LenProperties DEF Joins
  <2> HIDE DEF U, N
  <2>2. QED
    BY <1>4, <1>7, <1>9, <2>1, SMTT(30)
<1>11. Reads(d0, w, p1, V)
    BY <1>5, <1>9, VersionReads
<1>12. Reads(h, w, p2, t.UnlockHeight)
    BY <1>1, <1>9, <1>11, UvarintReads
<1>13. Reads(x, w, p3, H)
  <2>1. Reads(Format!ReadFixedByteArray(h, Len(H)), w, p2 + Len(H), H)
    BY <1>9, <1>12, BytesRead
  <2>2. QED
    BY <1>1, <2>1
<1>14. Reads(m, w, p4, n) /\ (p4 > Len(w) => m.val = 0)
    BY <1>1, <1>9, <1>13, UvarintReads
<1> HIDE DEF V, U, H, N, n, data, d0, h, x, m, u, q, p1, p2, p3, p4
<1>15. CASE p4 > Len(w)
  <2>1. m.val = 0 /\ m.ok = FALSE /\ ~(q <= Len(w))
    BY <1>4, <1>10, <1>14, <1>15 DEF Reads
  <2>2. PICK c : ChainUpTo(c, "bals", 0, first) /\ EndOfChain("bals", 0, first) = c[0]
    BY ChainIsLast
  <2>3. last = first
    BY <2>1, <2>2 DEF ChainUpTo
  <2>4. last.d.ok = FALSE
    BY <2>1, <2>3
  <2>5. u.status # "ok"
    BY <1>2, <2>4
  <2>6. QED
    BY <2>1, <2>5 DEF TxOutcome, q
<1>16. CASE p4 <= Len(w)
  <2>1. m.val = n /\ h.val = t.UnlockHeight /\ x.val = H /\ x.ok = TRUE
    BY <1>4, <1>10, <1>12, <1>13, <1>14, <1>16, SMTT(30) DEF Reads
  <2>2. PICK c : ChainUpTo(c, "bals", n, first) /\ EndOfChain("bals", n, first) = c[n]
    BY <1>1, ChainIsLast
  <2>3. last = c[n]
    BY <2>1, <2>2
  <2> DEFINE s == BalParts(t.Bals)
  <2>4. s \in Seq(Seq(Format!Byte)) /\ Len(s) = n /\ \A i \in 1 .. n : s[i] = BalBytes(t.Bals[i])
    <3>1. n = Len(t.Bals) /\ DOMAIN t.Bals = 1 .. n
      BY <1>1, LenProperties DEF n
    <3>2. QED
      BY <1>1, <3>1, BalPartsBytes
  <2>5. L = Format!FlattenSeq(s) /\ Holds(f, p4, L)
    BY <1>7, <1>9 DEF L
  <2> HIDE DEF s
  <2>6. PICK o : Offsets(o, s, p4, L) /\ \A i \in 1 .. Len(s) : Holds(f, o[i - 1], s[i])
    BY <1>4, <2>4, <2>5, FlattenSeqHolds
  <2>7. /\ o[0] = p4 /\ o[n] = q /\ \A i \in 0 .. n : o[i] \in Nat
        /\ \A i \in 1 .. n : /\ o[i] = o[i - 1] + Len(BalBytes(t.Bals[i]))
                             /\ Holds(f, o[i - 1], BalBytes(t.Bals[i]))
    BY <1>10, <2>4, <2>6 DEF Offsets
  <2>8. BalsRead(c[n], w, o[n], t.Bals, n)
    <3>1. n = Len(t.Bals) /\ Reads(m, w, o[0], n) /\ ChainUpTo(c, "bals", n, [d |-> m, bals |-> << >>])
      BY <1>14, <2>2, <2>7 DEF n
    <3>2. QED
      BY <1>1, <2>7, <3>1, AllBalsRead
  <2>9. PICK v : Reads(last.d, w, q, v)
    BY <2>3, <2>7, <2>8 DEF BalsRead
  <2>10. q <= Len(w) => last.bals = t.Bals
    <3>1. SubSeq(t.Bals, 1, n) = t.Bals
      BY <1>1, SubSeqFull DEF n
    <3>2. QED
      BY <2>3, <2>7, <2>8, <3>1 DEF BalsRead
  <2> HIDE DEF last
  <2>11. CASE q <= Len(w)
    <3>1. last.d.ok = TRUE /\ last.d.data = SubSeq(w, q + 1, Len(w))
      BY <2>9, <2>11 DEF Reads
    <3>2. u = [status |-> "ok", rest |-> SubSeq(w, q + 1, Len(w)), rec |-> t]
      BY <1>1, <1>2, <2>1, <2>10, <2>11, <3>1
    <3>3. QED
      BY <2>11, <3>2 DEF TxOutcome, q
  <2>12. CASE ~(q <= Len(w))
    <3>1. last.d.ok = FALSE
      BY <2>9, <2>12 DEF Reads
    <3>2. u.status # "ok"
      BY <1>2, <3>1
    <3>3. QED
      BY <2>12, <3>2 DEF TxOutcome, q
  <2>13. QED
    BY <2>11, <2>12
<1>17. QED
    BY <1>4, <1>10, <1>15, <1>16

\* The entries read when the reader is at q, of a list of transactions.
TxsRead(x, w, q, s, i) ==
    IF q <= Len(w)
    THEN x.status = "ok" /\ x.rest = SubSeq(w, q + 1, Len(w)) /\ x.txs = SubSeq(s, 1, i)
    ELSE x.status # "ok"

LEMMA TxReads ==
    ASSUME Format!RecordsConstants, NEW w, NEW f, OnWire(w, f),
           NEW s \in Seq(Format!UnconfTx), NEW i \in 1 .. Len(s), Format!Encodable(s[i]),
           NEW p, Holds(f, p, Format!SerializeUnconfTx(s[i])), NEW x, TxsRead(x, w, p, s, i - 1)
    PROVE  TxsRead(StepOf("txs", x), w, p + Len(Format!SerializeUnconfTx(s[i])), s, i)
<1> DEFINE e == Format!SerializeUnconfTx(s[i])
           q == p + Len(e)
           u == Format!DeserializeUnconfTx(x.rest)
           y == StepOf("txs", x)
<1>1. s[i] \in Format!UnconfTx
    BY ElementOfSeq
<1>2. e \in Seq(Format!Byte) /\ p \in Nat /\ Len(w) \in Nat
    BY LenProperties DEF Holds, OnWire
<1>3. Len(e) \in Nat
    BY <1>2, LenProperties
<1>4. y = IF x.status # "ok" THEN x
          ELSE [status |-> u.status, rest |-> u.rest, txs |-> Append(x.txs, u.rec)]
    BY DEF StepOf
<1>5. CASE p <= Len(w)
  <2>1. x.status = "ok" /\ x.rest = SubSeq(w, p + 1, Len(w)) /\ x.txs = SubSeq(s, 1, i - 1)
    BY <1>5 DEF TxsRead
  <2>2. TxOutcome(Format!DeserializeUnconfTx(SubSeq(w, p + 1, Len(w))), w, q, s[i])
    BY <1>1, <1>5, UnconfTxReads
  <2>3. TxOutcome(u, w, q, s[i])
    BY <2>1, <2>2
  <2> HIDE DEF u, y, q
  <2>4. y = [status |-> u.status, rest |-> u.rest, txs |-> Append(x.txs, u.rec)]
    BY <1>4, <2>1
  <2>5. CASE q <= Len(w)
    <3>1. u.status = "ok" /\ u.rec = s[i] /\ u.rest = SubSeq(w, q + 1, Len(w))
      BY <2>3, <2>5 DEF TxOutcome
    <3>2. Append(x.txs, u.rec) = SubSeq(s, 1, i)
      BY <2>1, <3>1, PrefixGrows
    <3>3. y.status = "ok" /\ y.rest = SubSeq(w, q + 1, Len(w)) /\ y.txs = SubSeq(s, 1, i)
      BY <2>4, <3>1, <3>2
    <3>4. QED
      BY <2>5, <3>3 DEF TxsRead, q, y
  <2>6. CASE ~(q <= Len(w))
    <3>1. u.status # "ok"
      BY <2>3, <2>6 DEF TxOutcome
    <3>2. y.status # "ok"
      BY <2>4, <3>1
    <3>3. QED
      BY <2>6, <3>2 DEF TxsRead, q, y
  <2>7. QED
    BY <2>5, <2>6
<1>6. CASE ~(p <= Len(w))
  <2>1. x.status # "ok"
    BY <1>6 DEF TxsRead
  <2>2. y = x
    BY <1>4, <2>1
  <2> HIDE DEF e
  <2>3. ~(q <= Len(w))
    BY <1>2, <1>3, <1>6
  <2>4. QED
    BY <2>1, <2>2, <2>3 DEF TxsRead, e
<1>7. QED
    BY <1>5, <1>6

LEMMA AllTxsRead ==
    ASSUME Format!RecordsConstants, NEW w, NEW f, OnWire(w, f),
           NEW s \in Seq(Format!UnconfTx), NEW n \in Nat, n = Len(s),
           \A i \in 1 .. n : Format!Encodable(s[i]),
           NEW o, \A i \in 0 .. n : o[i] \in Nat,
           \A i \in 1 .. n : /\ o[i] = o[i - 1] + Len(Format!SerializeUnconfTx(s[i]))
                             /\ Holds(f, o[i - 1], Format!SerializeUnconfTx(s[i])),
           NEW first, TxsRead(first, w, o[0], s, 0),
           NEW c, ChainUpTo(c, "txs", n, first)
    PROVE  TxsRead(c[n], w, o[n], s, n)
<1> DEFINE Good == {i \in 0 .. n : TxsRead(c[i], w, o[i], s, i)}
<1>1. 0 \in Good
    BY DEF ChainUpTo
<1>2. ASSUME NEW i \in 0 .. n - 1, i \in Good PROVE i + 1 \in Good
  <2> DEFINE j == i + 1
  <2>1. j \in 1 .. Len(s) /\ j \in 1 .. n /\ j - 1 = i /\ j \in 0 .. n
    OBVIOUS
  <2> HIDE DEF j
  <2>2. /\ Format!Encodable(s[j]) /\ o[j] = o[i] + Len(Format!SerializeUnconfTx(s[j]))
        /\ Holds(f, o[i], Format!SerializeUnconfTx(s[j]))
    BY <2>1
  <2>3. TxsRead(c[i], w, o[i], s, j - 1)
    BY <1>2, <2>1
  <2>4. TxsRead(StepOf("txs", c[i]), w, o[i] + Len(Format!SerializeUnconfTx(s[j])), s, j)
    BY <2>1, <2>2, <2>3, TxReads
  <2>5. c[j] = StepOf("txs", c[i])
    BY <2>1 DEF ChainUpTo
  <2>6. TxsRead(c[j], w, o[j], s, j)
    BY <2>2, <2>4, <2>5
  <2>7. QED
    BY <2>1, <2>6 DEF j
<1>3. \A i \in 0 .. n : i \in Good
  <2> HIDE DEF Good
  <2> QED BY <1>1, <1>2, IntervalInduction
<1>4. n \in 0 .. n
    OBVIOUS
<1>5. QED
    BY <1>3, <1>4

\* The bytes of all transactions.
TxParts(s) == [i \in DOMAIN s |-> Format!SerializeUnconfTx(s[i])]

LEMMA TxPartsBytes ==
    ASSUME Format!RecordsConstants, NEW s \in Seq(Format!UnconfTx), NEW n \in Nat, n = Len(s),
           \A i \in 1 .. n : Format!Encodable(s[i])
    PROVE  /\ TxParts(s) \in Seq(Seq(Format!Byte)) /\ Len(TxParts(s)) = n
           /\ \A i \in 1 .. n : TxParts(s)[i] = Format!SerializeUnconfTx(s[i])
<1>1. DOMAIN s = 1 .. n
    BY LenProperties
<1>2. TxParts(s) = [i \in 1 .. n |-> Format!SerializeUnconfTx(s[i])]
    BY <1>1 DEF TxParts
<1>3. ASSUME NEW i \in 1 .. n PROVE Format!SerializeUnconfTx(s[i]) \in Seq(Format!Byte)
  <2>1. s[i] \in Format!UnconfTx
    BY ElementOfSeq
  <2>2. QED
    BY <2>1, UnconfTxBytes
<1>4. QED
    BY <1>2, <1>3

LEMMA PendingBalsRead ==
    ASSUME Format!RecordsConstants, NEW r, Format!IsPendingBals(r),
           NEW w, OnWire(w, Format!SerializePendingBals(r))
    PROVE  Outcome(Format!DeserializePendingBals(w), r, w, Format!SerializePendingBals(r))
<1> DEFINE f == Format!SerializePendingBals(r)
           V == Format!Version
           T == r.UnconfirmedTxs
           H == Format!AddUvarint(r.LastHeight)
           n == Len(T)
           N == Format!AddUvarint(n)
           L == Format!FlattenSeq(TxParts(T))
           d0 == Format!ReadUint8(Format!Reader(w))
           h == Format!ReadUvarint(d0)
           m == Format!ReadUvarint(h)
           first == [status |-> IF m.ok THEN "ok" ELSE "error", rest |-> m.data, txs |-> << >>]
           last == EndOfChain("txs", m.val, first)
           u == Format!DeserializePendingBals(w)
<1>1. /\ r.LastHeight \in Nat /\ Len(H) <= MaxVarint
      /\ T \in Seq(Format!UnconfTx) /\ Len(N) <= MaxVarint
      /\ r = [kind |-> "pending", LastHeight |-> r.LastHeight, UnconfirmedTxs |-> T]
    BY DEF Format!IsPendingBals, Format!IsUint64
<1>2. n \in Nat /\ DOMAIN T = 1 .. n
    BY <1>1, LenProperties
<1>3. \A i \in 1 .. n : Format!Encodable(T[i])
    BY <1>2 DEF Format!IsPendingBals
<1>4. u = [status |-> last.status,
           rec |-> [kind |-> "pending", LastHeight |-> h.val, UnconfirmedTxs |-> last.txs]]
    BY PendingBalsDef
<1>5. f = ((V \o H) \o N) \o L
    BY DEF Format!SerializePendingBals, TxParts
<1>6. OnWire(w, f)
    OBVIOUS
<1> DEFINE s == TxParts(T)
<1>7. s \in Seq(Seq(Format!Byte)) /\ Len(s) = n /\ \A i \in 1 .. n : s[i] = Format!SerializeUnconfTx(T[i])
    BY <1>1, <1>2, <1>3, TxPartsBytes
<1>8. V \in Seq(Format!Byte) /\ Len(V) = 1 /\ H \in Seq(Format!Byte) /\ N \in Seq(Format!Byte)
      /\ L \in Seq(Format!Byte)
    BY <1>1, <1>2, <1>7, VersionBytes, UvarintBytes, FlattenSeqBytes
<1>9. L = Format!FlattenSeq(s)
    OBVIOUS
<1> SUFFICES Outcome(u, r, w, f)
    OBVIOUS
<1> HIDE DEF f, s, L
<1>10. Joins(V \o H, V, H) /\ Joins((V \o H) \o N, V \o H, N) /\ Joins(f, (V \o H) \o N, L)
  <2> HIDE DEF V, H, N
  <2>1. V \o H \in Seq(Format!Byte) /\ (V \o H) \o N \in Seq(Format!Byte)
    BY <1>8, ConcatProperties
  <2>2. QED
    BY <1>5, <1>8, <2>1 DEF Joins
<1>11. f \in Seq(Format!Byte) /\ Len(f) \in Nat /\ Len(w) \in Nat /\ Len(w) <= Len(f) /\ Holds(f, 0, f)
    BY <1>6, LenProperties, HoldsAll DEF OnWire
<1>12. HoldsFour(f, 0, V, H, N, L, f)
    BY <1>10, <1>11, FourParts
<1> DEFINE p2 == 1 + Len(H)
           p3 == p2 + Len(N)
<1>13. /\ Holds(f, 0, V) /\ Holds(f, 1, H) /\ Holds(f, p2, N) /\ Holds(f, p3, L)
       /\ Len(f) = p3 + Len(L)
  <2>1. 0 + Len(V) = 1 /\ 0 + Len(f) = Len(f)
    BY <1>8, <1>11
  <2>2. QED
    BY <1>12, <2>1 DEF HoldsFour
<1>14. p2 \in Nat /\ p3 \in Nat /\ p2 <= p3 /\ p3 <= Len(f)
  <2>1. Len(H) \in Nat /\ Len(N) \in Nat /\ Len(L) \in Nat
    BY <1>8, LenProperties
  <2> HIDE DEF H, N
  <2>2. QED
    BY <1>13, <2>1
<1>15. Reads(d0, w, 1, V)
    BY <1>6, <1>13, FirstVersionReads
<1>16. Reads(h, w, p2, r.LastHeight)
    BY <1>1, <1>6, <1>13, <1>15, UvarintReads
<1>17. Reads(m, w, p3, n) /\ (p3 > Len(w) => m.val = 0)
    BY <1>1, <1>2, <1>6, <1>13, <1>16, UvarintReads
<1> HIDE DEF V, H, N, T, n, d0, h, m, p2, p3, u
<1>18. CASE p3 > Len(w)
  <2>1. m.val = 0 /\ m.ok = FALSE /\ Len(w) # Len(f)
    BY <1>11, <1>14, <1>17, <1>18 DEF Reads
  <2>2. PICK c : ChainUpTo(c, "txs", 0, first) /\ EndOfChain("txs", 0, first) = c[0]
    BY ChainIsLast
  <2>3. last = first
    BY <2>1, <2>2 DEF ChainUpTo
  <2>4. u.status # "ok"
    BY <1>4, <2>1, <2>3
  <2>5. QED
    BY <2>1, <2>4 DEF Outcome
<1>19. CASE p3 <= Len(w)
  <2>1. m.val = n /\ h.val = r.LastHeight /\ m.ok = TRUE /\ m.data = SubSeq(w, p3 + 1, Len(w))
    BY <1>11, <1>14, <1>16, <1>17, <1>19 DEF Reads
  <2>2. PICK c : ChainUpTo(c, "txs", n, first) /\ EndOfChain("txs", n, first) = c[n]
    BY <1>2, ChainIsLast
  <2>3. last = c[n]
    BY <2>1, <2>2
  <2>4. PICK o : Offsets(o, s, p3, L) /\ \A i \in 1 .. Len(s) : Holds(f, o[i - 1], s[i])
    BY <1>7, <1>9, <1>11, <1>13, FlattenSeqHolds
  <2>5. /\ o[0] = p3 /\ o[n] = Len(f) /\ \A i \in 0 .. n : o[i] \in Nat
        /\ \A i \in 1 .. n : /\ o[i] = o[i - 1] + Len(Format!SerializeUnconfTx(T[i]))
                             /\ Holds(f, o[i - 1], Format!SerializeUnconfTx(T[i]))
    BY <1>7, <1>13, <2>4 DEF Offsets
  <2>6. TxsRead(first, w, o[0], T, 0)
    <3>1. SubSeq(T, 1, 0) = << >>
      BY SubSeqEmpty
    <3>2. first.status = "ok" /\ first.rest = SubSeq(w, o[0] + 1, Len(w)) /\ first.txs = SubSeq(T, 1, 0)
      BY <2>1, <2>5, <3>1
    <3>3. QED
      BY <1>19, <2>5, <3>2 DEF TxsRead
  <2>7. TxsRead(c[n], w, o[n], T, n)
    <3>1. n = Len(T)
      BY DEF n
    <3> HIDE DEF first
    <3>2. QED
      BY <1>1, <1>2, <1>3, <1>6, <2>2, <2>5, <2>6, <3>1, AllTxsRead
  <2> HIDE DEF last
  <2>8. TxsRead(last, w, Len(f), T, n)
    BY <2>3, <2>5, <2>7
  <2>9. CASE Len(w) = Len(f)
    <3>1. Len(f) <= Len(w)
      BY <1>11, <2>9
    <3>2. last.status = "ok" /\ last.txs = SubSeq(T, 1, n)
      BY <2>8, <3>1 DEF TxsRead
    <3>3. SubSeq(T, 1, n) = T
      BY <1>1, SubSeqFull DEF n
    <3>4. u = [status |-> "ok", rec |-> r]
      BY <1>1, <1>4, <2>1, <3>2, <3>3
    <3>5. QED
      BY <2>9, <3>4 DEF Outcome
  <2>10. CASE Len(w) # Len(f)
    <3>1. ~(Len(f) <= Len(w))
      BY <1>11, <2>10
    <3>2. last.status # "ok"
      BY <2>8, <3>1 DEF TxsRead
    <3>3. u.status # "ok"
      BY <1>4, <3>2
    <3>4. QED
      BY <2>10, <3>3 DEF Outcome
  <2>11. QED
    BY <2>9, <2>10
<1>20. QED
    BY <1>11, <1>14, <1>18, <1>19

-----------------------------------------------------------------------------
(* The bytes of a job.                                                     *)

\* A part of a sequence is known by its elements.
LEMMA PartIs ==
    ASSUME NEW S, NEW s \in Seq(S), NEW n \in Nat, NEW from \in Nat, from + n <= Len(s),
           NEW E, NEW t \in Seq(E), Len(t) = n, \A i \in 1 .. n : s[from + i] = t[i]
    PROVE  Format!Part(s, from, n) = t
<1> DEFINE p == SubSeq(s, from + 1, from + n)
           U == S \cup E
<1>1. Format!Part(s, from, n) = p
    BY DEF Format!Part
<1>2. p \in Seq(S) /\ Len(p) = n /\ \A i \in 1 .. n : p[i] = s[from + i]
  <2>1. \A i \in from + 1 .. from + n : s[i] \in S
    <3> SUFFICES ASSUME NEW i \in from + 1 .. from + n PROVE s[i] \in S
        OBVIOUS
    <3>1. i \in 1 .. Len(s)
      BY LenProperties
    <3>2. QED
      BY <3>1, ElementOfSeq
  <2>2. /\ p \in Seq(S)
        /\ Len(p) = IF from + 1 <= from + n THEN (from + n) - (from + 1) + 1 ELSE 0
        /\ \A i \in 1 .. (from + n) - (from + 1) + 1 : p[i] = s[(from + 1) + i - 1]
    BY <2>1, SubSeqProperties
  <2> HIDE DEF p
  <2>3. (from + n) - (from + 1) + 1 = n /\ \A i \in 1 .. n : (from + 1) + i - 1 = from + i
    OBVIOUS
  <2>4. QED
    BY <2>2, <2>3, SMTT(30)
<1> HIDE DEF p
<1>3. p \in Seq(U) /\ t \in Seq(U)
    BY <1>2, SeqMonotonic
<1>4. \A i \in 1 .. Len(p) : p[i] = t[i]
    BY <1>2
<1> HIDE DEF U
<1>5. p = t
    BY <1>2, <1>3, <1>4, SeqEqual
<1>6. QED
    BY <1>1, <1>5

\* The sequence c is b with v written after the first from.
WrittenIn(c, S, b, from, v) ==
    /\ c \in Seq(S) /\ Len(c) = Len(b)
    /\ \A i \in 1 .. Len(b) : c[i] = IF i \in from + 1 .. from + Len(v) THEN v[i - from] ELSE b[i]

LEMMA SetWrites ==
    ASSUME NEW S, NEW b \in Seq(S), NEW v \in Seq(S), NEW from \in Nat
    PROVE  WrittenIn(Format!Set(b, from, v), S, b, from, v)
<1>1. Len(b) \in Nat /\ Len(v) \in Nat /\ DOMAIN b = 1 .. Len(b)
    BY LenProperties
<1>2. Format!Set(b, from, v)
        = [i \in 1 .. Len(b) |-> IF i \in from + 1 .. from + Len(v) THEN v[i - from] ELSE b[i]]
    BY <1>1 DEF Format!Set
<1>3. ASSUME NEW i \in 1 .. Len(b)
      PROVE  (IF i \in from + 1 .. from + Len(v) THEN v[i - from] ELSE b[i]) \in S
  <2>1. CASE i \in from + 1 .. from + Len(v)
    <3>1. i - from \in 1 .. Len(v)
      BY <1>1, <2>1
    <3>2. QED
      BY <2>1, <3>1, ElementOfSeq
  <2>2. CASE i \notin from + 1 .. from + Len(v)
    BY <2>2, ElementOfSeq
  <2>3. QED
    BY <2>1, <2>2
<1> DEFINE t == [i \in 1 .. Len(b) |-> IF i \in from + 1 .. from + Len(v) THEN v[i - from] ELSE b[i]]
<1>4. t \in [1 .. Len(b) -> S]
    BY <1>3
<1>5. \A i \in 1 .. Len(b) : t[i] = IF i \in from + 1 .. from + Len(v) THEN v[i - from] ELSE b[i]
    OBVIOUS
<1> HIDE DEF t
<1>6. t \in Seq(S) /\ Len(t) = Len(b)
    BY <1>1, <1>4
<1>7. QED
    BY <1>2, <1>5, <1>6 DEF t, WrittenIn

\* The bytes b of a BlockMiner, with hashes of length h and integers of length l.
MinerAt(b, S, h, l, w, x, k) ==
    /\ b \in Seq(S) /\ Len(b) = (((h + l) + l) + h) + h
    /\ \A i \in 1 .. h : b[i] = w[i]
    /\ \A i \in 1 .. h : b[((h + l) + l) + i] = x[i]
    /\ \A i \in 1 .. h : b[(((h + l) + l) + h) + i] = k[i]

LEMMA MinerParts ==
    ASSUME NEW S, NEW h \in Nat, NEW l \in Nat,
           NEW w \in Seq(S), NEW t \in Seq(S), NEW z \in Seq(S), NEW x \in Seq(S), NEW k \in Seq(S),
           Len(w) = h, Len(t) = l, Len(z) = l, Len(x) = h, Len(k) = h
    PROVE  MinerAt((((w \o t) \o z) \o x) \o k, S, h, l, w, x, k)
<1> DEFINE a1 == w \o t
           a2 == a1 \o z
           a3 == a2 \o x
           a4 == a3 \o k
<1> DEFINE b == (((w \o t) \o z) \o x) \o k
<1>0. b = a4
    OBVIOUS
<1> HIDE DEF b
<1>1. /\ a1 \in Seq(S) /\ Len(a1) = h + l
      /\ \A i \in 1 .. h + l : a1[i] = IF i <= h THEN w[i] ELSE t[i - h]
    BY ConcatProperties
<1> HIDE DEF a1, a4
<1>2. /\ a2 \in Seq(S) /\ Len(a2) = (h + l) + l
      /\ \A i \in 1 .. (h + l) + l : a2[i] = IF i <= h + l THEN a1[i] ELSE z[i - (h + l)]
  <2>1. /\ a2 \in Seq(S) /\ Len(a2) = Len(a1) + Len(z)
        /\ \A i \in 1 .. Len(a1) + Len(z) : a2[i] = IF i <= Len(a1) THEN a1[i] ELSE z[i - Len(a1)]
    BY <1>1, ConcatProperties
  <2> HIDE DEF a2
  <2>2. QED
    BY <1>1, <2>1
<1> HIDE DEF a2
<1>3. /\ a3 \in Seq(S) /\ Len(a3) = ((h + l) + l) + h
      /\ \A i \in 1 .. ((h + l) + l) + h :
            a3[i] = IF i <= (h + l) + l THEN a2[i] ELSE x[i - ((h + l) + l)]
  <2>1. /\ a3 \in Seq(S) /\ Len(a3) = Len(a2) + Len(x)
        /\ \A i \in 1 .. Len(a2) + Len(x) : a3[i] = IF i <= Len(a2) THEN a2[i] ELSE x[i - Len(a2)]
    BY <1>2, ConcatProperties
  <2> HIDE DEF a3
  <2>2. QED
    BY <1>2, <2>1
<1> HIDE DEF a3
<1>5. /\ b \in Seq(S) /\ Len(b) = (((h + l) + l) + h) + h
      /\ \A i \in 1 .. (((h + l) + l) + h) + h :
            b[i] = IF i <= ((h + l) + l) + h THEN a3[i] ELSE k[i - (((h + l) + l) + h)]
  <2>1. /\ a4 \in Seq(S) /\ Len(a4) = Len(a3) + Len(k)
        /\ \A i \in 1 .. Len(a3) + Len(k) : a4[i] = IF i <= Len(a3) THEN a3[i] ELSE k[i - Len(a3)]
    <3>1. a3 \in Seq(S) /\ k \in Seq(S)
      BY <1>3
    <3>2. QED
      BY <3>1, ConcatProperties DEF a4
  <2>2. QED
    BY <1>3, <1>0, <2>1
<1>6. ASSUME NEW i \in 1 .. h PROVE b[i] = w[i]
  <2>1. /\ i \in 1 .. (((h + l) + l) + h) + h /\ i <= ((h + l) + l) + h
        /\ i \in 1 .. ((h + l) + l) + h /\ i <= (h + l) + l
        /\ i \in 1 .. (h + l) + l /\ i <= h + l /\ i \in 1 .. h + l /\ i <= h
    OBVIOUS
  <2>2. QED
    BY <1>1, <1>2, <1>3, <1>5, <2>1
<1>7. ASSUME NEW i \in 1 .. h PROVE b[((h + l) + l) + i] = x[i]
  <2> DEFINE j == ((h + l) + l) + i
  <2>1. /\ j \in 1 .. (((h + l) + l) + h) + h /\ j <= ((h + l) + l) + h
        /\ j \in 1 .. ((h + l) + l) + h /\ ~(j <= (h + l) + l) /\ j - ((h + l) + l) = i
    OBVIOUS
  <2> HIDE DEF j
  <2>2. b[j] = x[i]
    BY <1>3, <1>5, <2>1
  <2>3. QED
    BY <2>2 DEF j
<1>8. ASSUME NEW i \in 1 .. h PROVE b[(((h + l) + l) + h) + i] = k[i]
  <2> DEFINE j == (((h + l) + l) + h) + i
  <2>1. /\ j \in 1 .. (((h + l) + l) + h) + h /\ ~(j <= ((h + l) + l) + h)
        /\ j - (((h + l) + l) + h) = i
    OBVIOUS
  <2> HIDE DEF j
  <2>2. b[j] = k[i]
    BY <1>5, <2>1
  <2>3. QED
    BY <2>2 DEF j
<1>9. QED
    BY <1>5, <1>6, <1>7, <1>8 DEF MinerAt, b

\* The bytes of an integer, whatever it is.
LEMMA BigEndianLen ==
    ASSUME Format!RecordsConstants, NEW n
    PROVE  \E S : Format!BigEndian(n) \in Seq(S) /\ Len(Format!BigEndian(n)) = IntLen
<1> DEFINE a == Format!AddUint64(n)
           r == [i \in 1 .. IntLen |-> a[(IntLen - i) + 1]]
           S == {r[i] : i \in 1 .. IntLen}
<1>1. IntLen \in Nat
    BY DEF Format!RecordsConstants
<1>2. DOMAIN a = 1 .. IntLen /\ a = [i \in 1 .. IntLen |-> a[i]]
  <2> DEFINE q == CHOOSE x : ByteTable(x, n)
             g == [i \in 1 .. IntLen |-> q[i] % (2 * Half)]
  <2>1. a = g
    BY AddUint64Def
  <2> HIDE DEF q
  <2>2. DOMAIN g = 1 .. IntLen /\ g = [i \in 1 .. IntLen |-> g[i]]
    OBVIOUS
  <2> HIDE DEF g, a
  <2>3. QED
    BY <2>1, <2>2
<1> HIDE DEF a
<1>3. Len(a) = IntLen
    BY <1>1, <1>2
<1>4. Format!BigEndian(n) = r
    BY <1>3 DEF Format!BigEndian, Format!Reverse, a
<1>5. r \in [1 .. IntLen -> S]
    OBVIOUS
<1> HIDE DEF r, S
<1>6. r \in Seq(S) /\ Len(r) = IntLen
    BY <1>1, <1>5
<1>7. QED
    BY <1>4, <1>6

\* A BlockMiner of the pool.
IsMiner(b, S, w, x, k) == MinerAt(b, S, HashLen, IntLen, w, x, k)

LEMMA NewMiner ==
    ASSUME Format!RecordsConstants, NEW w \in Format!Hash, NEW x \in Format!Hash,
           NEW k \in Format!Hash, NEW time
    PROVE  \E S : IsMiner(Format!NewBlockMiner(w, x, k, time), S, w, x, k)
<1> DEFINE t == Format!BigEndian(time)
           z == Format!BigEndian(0)
           b == Format!NewBlockMiner(w, x, k, time)
<1>1. b = (((w \o t) \o z) \o x) \o k
    BY DEF Format!NewBlockMiner
<1>2. PICK T : t \in Seq(T) /\ Len(t) = IntLen
    BY BigEndianLen
<1>3. PICK Z : z \in Seq(Z) /\ Len(z) = IntLen
    BY BigEndianLen
<1> HIDE DEF t, z, b
<1> DEFINE S == (T \cup Z) \cup Format!Byte
<1>4. /\ w \in Seq(Format!Byte) /\ x \in Seq(Format!Byte) /\ k \in Seq(Format!Byte)
      /\ Len(w) = HashLen /\ Len(x) = HashLen /\ Len(k) = HashLen /\ HashLen \in Nat
    BY HashBytes
<1>5. IntLen \in Nat
    BY DEF Format!RecordsConstants
<1>6. T \subseteq S /\ Z \subseteq S /\ Format!Byte \subseteq S
    OBVIOUS
<1> HIDE DEF S
<1>7. t \in Seq(S) /\ z \in Seq(S)
    BY <1>2, <1>3, <1>6, SeqMonotonic
<1>8. w \in Seq(S) /\ x \in Seq(S) /\ k \in Seq(S)
    BY <1>4, <1>6, SeqMonotonic
<1>9. IsMiner(b, S, w, x, k)
  <2>1. MinerAt((((w \o t) \o z) \o x) \o k, S, HashLen, IntLen, w, x, k)
    BY <1>2, <1>3, <1>4, <1>5, <1>7, <1>8, MinerParts
  <2>2. QED
    BY <1>1, <2>1 DEF IsMiner
<1>10. QED
    BY <1>9 DEF b

\* The extra nonce of a job: its id, the nonce of the pool, and the rest.
Extra(r) ==
    (r.JobID \o r.PoolNonce) \o SubSeq(r.ExtraNonce, Len(r.JobID \o r.PoolNonce) + 1, HashLen)

LEMMA ExtraBytes ==
    ASSUME Format!RecordsConstants, NEW r, Format!IsWork(r)
    PROVE  /\ Extra(r) \in Format!Hash
           /\ \A i \in 1 .. HashLen :
                Extra(r)[i] = IF i <= Len(r.JobID) THEN r.JobID[i]
                              ELSE IF i <= Len(r.JobID) + Len(r.PoolNonce)
                                   THEN r.PoolNonce[i - Len(r.JobID)]
                              ELSE r.ExtraNonce[i]
<1> DEFINE J == r.JobID
           P == r.PoolNonce
           X == r.ExtraNonce
           j == Len(J)
           p == Len(P)
           h == HashLen
           JP == J \o P
           R == SubSeq(X, Len(JP) + 1, h)
           E == JP \o R
<1>1. /\ J \in Seq(Format!Byte) /\ P \in Seq(Format!Byte) /\ X \in Format!Hash /\ j + p <= h
    BY DEF Format!IsWork
<1>2. /\ h \in Nat /\ j \in Nat /\ p \in Nat /\ \A i \in 1 .. h : X[i] \in Format!Byte
    BY <1>1, HashBytes, LenProperties
<1>3. Extra(r) = E
    BY DEF Extra
<1> HIDE DEF J, P, X
<1>4. /\ JP \in Seq(Format!Byte) /\ Len(JP) = j + p
      /\ \A i \in 1 .. j + p : JP[i] = IF i <= j THEN J[i] ELSE P[i - j]
    BY <1>1, ConcatProperties
<1> HIDE DEF JP, j, p, h
<1>5. /\ R \in Seq(Format!Byte) /\ Len(R) = h - (j + p)
      /\ \A i \in 1 .. h - (j + p) : R[i] = X[(j + p) + i]
  <2> DEFINE m == Len(JP) + 1
  <2>1. m = (j + p) + 1 /\ m \in Int
    BY <1>2, <1>4
  <2>2. \A i \in m .. h : X[i] \in Format!Byte
    BY <1>2, <2>1
  <2>3. /\ R \in Seq(Format!Byte) /\ Len(R) = IF m <= h THEN h - m + 1 ELSE 0
        /\ \A i \in 1 .. h - m + 1 : R[i] = X[m + i - 1]
    BY <1>2, <2>1, <2>2, SubSeqProperties
  <2> HIDE DEF m, R
  <2>4. /\ h - m + 1 = h - (j + p) /\ (IF m <= h THEN h - m + 1 ELSE 0) = h - (j + p)
        /\ \A i \in 1 .. h - (j + p) : m + i - 1 = (j + p) + i
    BY <1>1, <1>2, <2>1
  <2>5. QED
    BY <2>3, <2>4
<1> HIDE DEF R
<1>6. /\ E \in Seq(Format!Byte) /\ Len(E) = h
      /\ \A i \in 1 .. h : E[i] = IF i <= j + p THEN JP[i] ELSE R[i - (j + p)]
  <2>1. /\ E \in Seq(Format!Byte) /\ Len(E) = Len(JP) + Len(R)
        /\ \A i \in 1 .. Len(JP) + Len(R) : E[i] = IF i <= Len(JP) THEN JP[i] ELSE R[i - Len(JP)]
    BY <1>4, <1>5, ConcatProperties
  <2>2. Len(JP) + Len(R) = h /\ Len(JP) = j + p
    BY <1>1, <1>2, <1>4, <1>5
  <2> HIDE DEF E
  <2>3. QED
    BY <2>1, <2>2
<1> HIDE DEF E
<1>7. E \in Format!Hash
  <2>1. E \in [1 .. h -> Format!Byte]
    BY <1>6, LenProperties
  <2>2. QED
    BY <2>1 DEF Format!Hash, h
<1>8. ASSUME NEW i \in 1 .. h
      PROVE  E[i] = IF i <= j THEN J[i] ELSE IF i <= j + p THEN P[i - j] ELSE X[i]
  <2>1. CASE i <= j + p
    <3>1. i \in 1 .. j + p /\ (~(i <= j + p) <=> FALSE)
      BY <1>2, <2>1
    <3>2. E[i] = IF i <= j THEN J[i] ELSE P[i - j]
      BY <1>4, <1>6, <3>1
    <3>3. QED
      BY <2>1, <3>2
  <2>2. CASE ~(i <= j + p)
    <3>1. i - (j + p) \in 1 .. h - (j + p) /\ (j + p) + (i - (j + p)) = i /\ ~(i <= j)
      BY <1>2, <2>2
    <3>2. E[i] = R[i - (j + p)]
      BY <1>6, <2>2
    <3>3. R[i - (j + p)] = X[i]
      BY <1>5, <3>1
    <3>4. QED
      BY <2>2, <3>1, <3>2, <3>3
  <2>3. QED
    BY <2>1, <2>2
<1>9. QED
    BY <1>3, <1>7, <1>8 DEF J, P, X, j, p, h

\* The stamps of a job leave its other bytes alone.
LEMMA StampedIs ==
    ASSUME Format!RecordsConstants, NEW r, Format!IsWork(r)
    PROVE  \E S : IsMiner(Format!Stamped(r), S, r.Workhash, Extra(r), r.Publickey)
<1> DEFINE h == HashLen
           l == IntLen
           at == h + 2 * l
           J == r.JobID
           P == r.PoolNonce
           X == r.ExtraNonce
           t == Format!BigEndian(r.Timestamp)
           z == Format!BigEndian(r.Nonce)
           b0 == Format!NewBlockMiner(r.Workhash, X, r.Publickey, 0)
           b1 == Format!Set(b0, at, J)
           b2 == Format!Set(b1, at + Len(J), P)
           b3 == Format!Set(b2, h, t)
           b4 == Format!Set(b3, h + l, z)
<1>1. Format!Stamped(r) = b4
    BY DEF Format!Stamped
<1>2. /\ J \in Seq(Format!Byte) /\ P \in Seq(Format!Byte) /\ X \in Format!Hash
      /\ r.Workhash \in Format!Hash /\ r.Publickey \in Format!Hash /\ Len(J) + Len(P) <= h
    BY DEF Format!IsWork
<1>3. PICK A : IsMiner(b0, A, r.Workhash, X, r.Publickey)
    BY <1>2, NewMiner
<1>4. PICK T : t \in Seq(T) /\ Len(t) = l
    BY BigEndianLen
<1>5. PICK Z : z \in Seq(Z) /\ Len(z) = l
    BY BigEndianLen
<1>6. /\ h \in Nat /\ l \in Nat /\ at \in Nat /\ at = (h + l) + l
      /\ Len(J) \in Nat /\ Len(P) \in Nat
  <2>1. h \in Nat /\ l \in Nat
    BY DEF Format!RecordsConstants
  <2> HIDE DEF h, l
  <2>2. QED
    BY <1>2, <2>1, LenProperties
<1> DEFINE S == ((A \cup T) \cup Z) \cup Format!Byte
           n == (((h + l) + l) + h) + h
<1>7. A \subseteq S /\ T \subseteq S /\ Z \subseteq S /\ Format!Byte \subseteq S
    OBVIOUS
<1> HIDE DEF S, t, z, b0
<1>8. J \in Seq(S) /\ P \in Seq(S) /\ t \in Seq(S) /\ z \in Seq(S) /\ b0 \in Seq(S)
  <2>1. b0 \in Seq(A)
    BY <1>3 DEF IsMiner, MinerAt
  <2> HIDE DEF J, P
  <2>2. QED
    BY <1>2, <1>4, <1>5, <1>7, <2>1, SeqMonotonic
<1>9. /\ Len(b0) = n /\ \A i \in 1 .. h : b0[i] = r.Workhash[i]
      /\ \A i \in 1 .. h : b0[((h + l) + l) + i] = X[i]
      /\ \A i \in 1 .. h : b0[(((h + l) + l) + h) + i] = r.Publickey[i]
    BY <1>3 DEF IsMiner, MinerAt
<1> HIDE DEF at, h, l, J, P, X
<1>10. /\ b1 \in Seq(S) /\ Len(b1) = n
       /\ \A i \in 1 .. n : b1[i] = IF i \in at + 1 .. at + Len(J) THEN J[i - at] ELSE b0[i]
  <2>1. WrittenIn(b1, S, b0, at, J)
    BY <1>6, <1>8, SetWrites
  <2> HIDE DEF b1
  <2>2. QED
    BY <1>9, <2>1 DEF WrittenIn
<1> HIDE DEF b1
<1>11. /\ b2 \in Seq(S) /\ Len(b2) = n
       /\ \A i \in 1 .. n : b2[i] = IF i \in (at + Len(J)) + 1 .. (at + Len(J)) + Len(P)
                                    THEN P[i - (at + Len(J))] ELSE b1[i]
  <2>1. at + Len(J) \in Nat
    BY <1>6
  <2>2. WrittenIn(b2, S, b1, at + Len(J), P)
    BY <1>8, <1>10, <2>1, SetWrites
  <2> HIDE DEF b2
  <2>3. QED
    BY <1>10, <2>2 DEF WrittenIn
<1> HIDE DEF b2
<1>12. /\ b3 \in Seq(S) /\ Len(b3) = n
       /\ \A i \in 1 .. n : b3[i] = IF i \in h + 1 .. h + l THEN t[i - h] ELSE b2[i]
  <2>1. WrittenIn(b3, S, b2, h, t)
    BY <1>6, <1>8, <1>11, SetWrites
  <2> HIDE DEF b3
  <2>2. QED
    BY <1>4, <1>11, <2>1 DEF WrittenIn
<1> HIDE DEF b3
<1>13. /\ b4 \in Seq(S) /\ Len(b4) = n
       /\ \A i \in 1 .. n : b4[i] = IF i \in (h + l) + 1 .. (h + l) + l THEN z[i - (h + l)] ELSE b3[i]
  <2>1. h + l \in Nat
    BY <1>6
  <2>2. WrittenIn(b4, S, b3, h + l, z)
    BY <1>8, <1>12, <2>1, SetWrites
  <2> HIDE DEF b4
  <2>3. QED
    BY <1>5, <1>12, <2>2 DEF WrittenIn
<1> HIDE DEF b4
<1>14. ASSUME NEW i \in 1 .. h PROVE b4[i] = r.Workhash[i]
  <2>1. /\ i \in 1 .. n /\ i \notin (h + l) + 1 .. (h + l) + l /\ i \notin h + 1 .. h + l
        /\ i \notin (at + Len(J)) + 1 .. (at + Len(J)) + Len(P) /\ i \notin at + 1 .. at + Len(J)
    BY <1>6
  <2>2. QED
    BY <1>9, <1>10, <1>11, <1>12, <1>13, <2>1
<1>15. ASSUME NEW i \in 1 .. h PROVE b4[at + i] = Extra(r)[i]
  <2> DEFINE k == at + i
  <2>1. /\ k \in 1 .. n /\ k \notin (h + l) + 1 .. (h + l) + l /\ k \notin h + 1 .. h + l
        /\ k - at = i /\ k = ((h + l) + l) + i /\ k - (at + Len(J)) = i - Len(J)
        /\ (k \in at + 1 .. at + Len(J) <=> i <= Len(J))
        /\ (k \in (at + Len(J)) + 1 .. (at + Len(J)) + Len(P)
              <=> ~(i <= Len(J)) /\ i <= Len(J) + Len(P))
    BY <1>6
  <2> HIDE DEF k, n
  <2>2. b4[k] = b2[k]
    BY <1>12, <1>13, <2>1
  <2>3. b0[k] = X[i]
    BY <1>9, <2>1
  <2>4. Extra(r)[i] = IF i <= Len(J) THEN J[i]
                      ELSE IF i <= Len(J) + Len(P) THEN P[i - Len(J)] ELSE X[i]
    BY ExtraBytes DEF J, P, X, h
  <2>5. b1[k] = IF i <= Len(J) THEN J[i] ELSE X[i]
    BY <1>10, <2>1, <2>3
  <2>6. b2[k] = IF ~(i <= Len(J)) /\ i <= Len(J) + Len(P) THEN P[i - Len(J)] ELSE b1[k]
    BY <1>11, <2>1
  <2>7. i <= Len(J) => i <= Len(J) + Len(P)
    BY <1>6
  <2>8. QED
    BY <2>2, <2>4, <2>5, <2>6, <2>7 DEF k
<1>16. ASSUME NEW i \in 1 .. h PROVE b4[(((h + l) + l) + h) + i] = r.Publickey[i]
  <2> DEFINE k == (((h + l) + l) + h) + i
  <2>1. /\ k \in 1 .. n /\ k \notin (h + l) + 1 .. (h + l) + l /\ k \notin h + 1 .. h + l
        /\ k \notin (at + Len(J)) + 1 .. (at + Len(J)) + Len(P) /\ k \notin at + 1 .. at + Len(J)
    BY <1>2, <1>6 DEF h
  <2>2. b0[k] = r.Publickey[i]
    BY <1>9
  <2> HIDE DEF k, n
  <2>3. b4[k] = r.Publickey[i]
    BY <1>10, <1>11, <1>12, <1>13, <2>1, <2>2
  <2>4. QED
    BY <2>3 DEF k
<1>17. IsMiner(b4, S, r.Workhash, Extra(r), r.Publickey)
    BY <1>6, <1>13, <1>14, <1>15, <1>16 DEF IsMiner, MinerAt, h, l
<1>18. QED
    BY <1>1, <1>17

\* The sequence t stands in s after the first from elements.
StandsIn(t, E, s, S, from) ==
    /\ s \in Seq(S) /\ t \in Seq(E)
    /\ from \in Nat /\ from + Len(t) <= Len(s)
    /\ \A i \in 1 .. Len(t) : s[from + i] = t[i]

LEMMA PartStands ==
    ASSUME NEW S, NEW s, NEW E, NEW t, NEW from, StandsIn(t, E, s, S, from)
    PROVE  Format!Part(s, from, Len(t)) = t
<1>1. /\ s \in Seq(S) /\ t \in Seq(E)
      /\ from \in Nat /\ from + Len(t) <= Len(s)
      /\ \A i \in 1 .. Len(t) : s[from + i] = t[i]
    BY DEF StandsIn
<1>2. Len(t) \in Nat
    BY <1>1, LenProperties
<1>3. QED
    BY <1>1, <1>2, PartIs, SMTT(30)

\* A blob is the three hashes.
LEMMA BlobIs ==
    ASSUME Format!RecordsConstants, NEW b, NEW S, NEW w \in Format!Hash, NEW x \in Format!Hash,
           NEW k \in Format!Hash, IsMiner(b, S, w, x, k)
    PROVE  Format!GetBlob(b) = (w \o x) \o k
<1> DEFINE h == HashLen
           l == IntLen
<1>1. /\ w \in Seq(Format!Byte) /\ x \in Seq(Format!Byte) /\ k \in Seq(Format!Byte)
      /\ Len(w) = h /\ Len(x) = h /\ Len(k) = h /\ h \in Nat
    BY HashBytes
<1>2. l \in Nat
    BY DEF Format!RecordsConstants
<1>3. /\ b \in Seq(S) /\ Len(b) = (((h + l) + l) + h) + h
      /\ \A i \in 1 .. h : b[i] = w[i]
      /\ \A i \in 1 .. h : b[((h + l) + l) + i] = x[i]
      /\ \A i \in 1 .. h : b[(((h + l) + l) + h) + i] = k[i]
    BY DEF IsMiner, MinerAt
<1>4. Format!GetBlob(b) = (Format!Part(b, 0, h) \o Format!Part(b, h + 2 * l, h))
                             \o Format!Part(b, 2 * h + 2 * l, h)
    BY DEF Format!GetBlob
<1> HIDE DEF h, l
<1>5. /\ h + 2 * l = (h + l) + l /\ 2 * h + 2 * l = ((h + l) + l) + h
      /\ 0 \in Nat /\ (h + l) + l \in Nat /\ ((h + l) + l) + h \in Nat
      /\ 0 + h <= Len(b) /\ ((h + l) + l) + h <= Len(b) /\ (((h + l) + l) + h) + h <= Len(b)
      /\ \A i \in 1 .. h : 0 + i = i
    BY <1>1, <1>2, <1>3
<1>6. Format!Part(b, 0, h) = w
  <2>1. StandsIn(w, Format!Byte, b, S, 0)
    BY <1>1, <1>3, <1>5 DEF StandsIn
  <2>2. Format!Part(b, 0, Len(w)) = w
    BY <2>1, PartStands
  <2>3. QED
    BY <1>1, <1>5, <2>2
<1>7. Format!Part(b, (h + l) + l, h) = x
  <2>1. StandsIn(x, Format!Byte, b, S, (h + l) + l)
    BY <1>1, <1>3, <1>5 DEF StandsIn
  <2>2. Format!Part(b, (h + l) + l, Len(x)) = x
    BY <2>1, PartStands
  <2>3. QED
    BY <1>1, <1>5, <2>2
<1>8. Format!Part(b, ((h + l) + l) + h, h) = k
  <2>1. StandsIn(k, Format!Byte, b, S, ((h + l) + l) + h)
    BY <1>1, <1>3, <1>5 DEF StandsIn
  <2>2. Format!Part(b, ((h + l) + l) + h, Len(k)) = k
    BY <2>1, PartStands
  <2>3. QED
    BY <1>1, <1>5, <2>2
<1>9. QED
    BY <1>4, <1>5, <1>6, <1>7, <1>8

LEMMA FromBlobIs ==
    ASSUME Format!RecordsConstants, NEW w \in Format!Hash, NEW x \in Format!Hash,
           NEW k \in Format!Hash
    PROVE  /\ (w \o x) \o k \in Seq(Format!Byte) /\ Len((w \o x) \o k) = 3 * HashLen
           /\ Format!NewBlockMinerFromBlob((w \o x) \o k)
                = [status |-> "ok", rec |-> Format!NewBlockMiner(w, x, k, 0)]
<1> DEFINE h == HashLen
           a == w \o x
           b == a \o k
<1>1. /\ w \in Seq(Format!Byte) /\ x \in Seq(Format!Byte) /\ k \in Seq(Format!Byte)
      /\ Len(w) = h /\ Len(x) = h /\ Len(k) = h /\ h \in Nat
    BY HashBytes
<1>2. b = (w \o x) \o k
    OBVIOUS
<1> HIDE DEF h
<1>3. /\ a \in Seq(Format!Byte) /\ Len(a) = h + h
      /\ \A i \in 1 .. h + h : a[i] = IF i <= h THEN w[i] ELSE x[i - h]
  <2>1. /\ a \in Seq(Format!Byte) /\ Len(a) = Len(w) + Len(x)
        /\ \A i \in 1 .. Len(w) + Len(x) : a[i] = IF i <= Len(w) THEN w[i] ELSE x[i - Len(w)]
    BY <1>1, ConcatProperties
  <2> HIDE DEF a
  <2>2. QED
    BY <1>1, <2>1
<1> HIDE DEF a
<1>4. /\ b \in Seq(Format!Byte) /\ Len(b) = (h + h) + h
      /\ \A i \in 1 .. (h + h) + h : b[i] = IF i <= h + h THEN a[i] ELSE k[i - (h + h)]
  <2>1. /\ b \in Seq(Format!Byte) /\ Len(b) = Len(a) + Len(k)
        /\ \A i \in 1 .. Len(a) + Len(k) : b[i] = IF i <= Len(a) THEN a[i] ELSE k[i - Len(a)]
    BY <1>1, <1>3, ConcatProperties
  <2> HIDE DEF b
  <2>2. QED
    BY <1>1, <1>3, <2>1
<1> HIDE DEF b
<1>5. /\ \A i \in 1 .. h : b[0 + i] = w[i]
      /\ \A i \in 1 .. h : b[h + i] = x[i]
      /\ \A i \in 1 .. h : b[(h + h) + i] = k[i]
  <2>1. ASSUME NEW i \in 1 .. h PROVE b[0 + i] = w[i]
    <3>1. 0 + i = i /\ i \in 1 .. (h + h) + h /\ i <= h + h /\ i \in 1 .. h + h /\ i <= h
      BY <1>1
    <3>2. QED
      BY <1>3, <1>4, <3>1
  <2>2. ASSUME NEW i \in 1 .. h PROVE b[h + i] = x[i]
    <3> DEFINE j == h + i
    <3>1. /\ j \in 1 .. (h + h) + h /\ j <= h + h /\ j \in 1 .. h + h /\ ~(j <= h) /\ j - h = i
      BY <1>1
    <3> HIDE DEF j
    <3>2. b[j] = x[i]
      BY <1>3, <1>4, <3>1
    <3>3. QED
      BY <3>2 DEF j
  <2>3. ASSUME NEW i \in 1 .. h PROVE b[(h + h) + i] = k[i]
    <3> DEFINE j == (h + h) + i
    <3>1. j \in 1 .. (h + h) + h /\ ~(j <= h + h) /\ j - (h + h) = i
      BY <1>1
    <3> HIDE DEF j
    <3>2. b[j] = k[i]
      BY <1>4, <3>1
    <3>3. QED
      BY <3>2 DEF j
  <2>4. QED
    BY <2>1, <2>2, <2>3
<1>6. /\ 0 \in Nat /\ h + h \in Nat /\ 2 * h = h + h /\ 3 * h = (h + h) + h
      /\ 0 + h <= Len(b) /\ h + h <= Len(b) /\ (h + h) + h <= Len(b)
    BY <1>1, <1>4
<1>7. Format!Part(b, 0, h) = w
  <2>1. StandsIn(w, Format!Byte, b, Format!Byte, 0)
    BY <1>1, <1>4, <1>5, <1>6 DEF StandsIn
  <2>2. Format!Part(b, 0, Len(w)) = w
    BY <2>1, PartStands
  <2>3. QED
    BY <1>1, <1>6, <2>2
<1>8. Format!Part(b, h, h) = x
  <2>1. StandsIn(x, Format!Byte, b, Format!Byte, h)
    BY <1>1, <1>4, <1>5, <1>6 DEF StandsIn
  <2>2. Format!Part(b, h, Len(x)) = x
    BY <2>1, PartStands
  <2>3. QED
    BY <1>1, <1>6, <2>2
<1>9. Format!Part(b, 2 * h, h) = k
  <2>1. StandsIn(k, Format!Byte, b, Format!Byte, h + h)
    BY <1>1, <1>4, <1>5, <1>6 DEF StandsIn
  <2>2. Format!Part(b, h + h, Len(k)) = k
    BY <2>1, PartStands
  <2>3. QED
    BY <1>1, <1>6, <2>2
<1>10. Format!NewBlockMinerFromBlob(b)
         = IF Len(b) # 3 * h THEN [status |-> "error", rec |-> << >>]
           ELSE [status |-> "ok",
                 rec |-> Format!NewBlockMiner(Format!Part(b, 0, h), Format!Part(b, h, h),
                                              Format!Part(b, 2 * h, h), 0)]
    BY DEF Format!NewBlockMinerFromBlob, h
<1>11. Format!NewBlockMinerFromBlob(b) = [status |-> "ok", rec |-> Format!NewBlockMiner(w, x, k, 0)]
    BY <1>4, <1>6, <1>7, <1>8, <1>9, <1>10
<1>12. QED
    BY <1>2, <1>4, <1>6, <1>11 DEF h

LEMMA WorkReads ==
    ASSUME Format!RecordsConstants, NEW r, Format!IsWork(r)
    PROVE  /\ Format!GetBlob(Format!Stamped(r)) \in Seq(Format!Byte)
           /\ Len(Format!GetBlob(Format!Stamped(r))) = 3 * HashLen
           /\ Format!NewBlockMinerFromBlob(Format!GetBlob(Format!Stamped(r)))
                = [status |-> "ok", rec |-> Format!Unstamped(r)]
<1>1. r.Workhash \in Format!Hash /\ r.Publickey \in Format!Hash
    BY DEF Format!IsWork
<1>2. Extra(r) \in Format!Hash
    BY ExtraBytes
<1>3. PICK S : IsMiner(Format!Stamped(r), S, r.Workhash, Extra(r), r.Publickey)
    BY StampedIs
<1>4. Format!GetBlob(Format!Stamped(r)) = (r.Workhash \o Extra(r)) \o r.Publickey
    BY <1>1, <1>2, <1>3, BlobIs
<1>5. Format!Unstamped(r) = Format!NewBlockMiner(r.Workhash, Extra(r), r.Publickey, 0)
    BY DEF Format!Unstamped, Extra
<1>6. QED
    BY <1>1, <1>2, <1>4, <1>5, FromBlobIs

\* What is written are bytes.
LEMMA SerializeBytes ==
    ASSUME Format!RecordsConstants, NEW r \in Samples
    PROVE  /\ Format!Serialize(r) \in Seq(Format!Byte)
           /\ \/ r.kind = "share" /\ Format!IsShare(r)
              \/ r.kind = "addr" /\ Format!IsAddrInfo(r)
              \/ r.kind = "pending" /\ Format!IsPendingBals(r)
              \/ r.kind = "work" /\ Format!IsWork(r)
<1>1. \/ r.kind = "share" /\ Format!IsShare(r)
      \/ r.kind = "addr" /\ Format!IsAddrInfo(r)
      \/ r.kind = "pending" /\ Format!IsPendingBals(r)
      \/ r.kind = "work" /\ Format!IsWork(r)
  <2>1. Format!IsWork(r) => r.kind = "work"
    BY DEF Format!IsWork
  <2>2. QED
    BY <2>1 DEF Format!RecordsConstants
<1>2. CASE r.kind = "share" /\ Format!IsShare(r)
  <2> DEFINE V == Format!Version
             A == Format!AddString(r.Wallet)
             B == Format!AddUint64(r.Diff)
             C == Format!AddUint64(r.Time)
  <2>1. Format!Serialize(r) = ((V \o A) \o B) \o C
    BY <1>2 DEF Format!Serialize, Format!SerializeShare
  <2>2. /\ V \in Seq(Format!Byte) /\ A \in Seq(Format!Byte) /\ B \in Seq(Format!Byte)
        /\ C \in Seq(Format!Byte)
    BY <1>2, VersionBytes, StringBytes, Uint64Shape DEF Format!IsShare
  <2> HIDE DEF V, A, B, C
  <2>3. (V \o A) \o B \in Seq(Format!Byte)
    BY <2>2, ConcatProperties
  <2>4. QED
    BY <1>1, <2>1, <2>2, <2>3, ConcatProperties
<1>3. CASE r.kind = "addr" /\ Format!IsAddrInfo(r)
  <2> DEFINE V == Format!Version
             A == Format!AddUvarint(r.Balance)
             B == Format!AddUvarint(r.BalancePending)
             C == Format!AddUvarint(r.Paid)
  <2>1. Format!Serialize(r) = ((V \o A) \o B) \o C
    BY <1>3 DEF Format!Serialize, Format!SerializeAddrInfo
  <2>2. /\ V \in Seq(Format!Byte) /\ A \in Seq(Format!Byte) /\ B \in Seq(Format!Byte)
        /\ C \in Seq(Format!Byte)
    BY <1>3, VersionBytes, UvarintBytes DEF Format!IsAddrInfo
  <2> HIDE DEF V, A, B, C
  <2>3. (V \o A) \o B \in Seq(Format!Byte)
    BY <2>2, ConcatProperties
  <2>4. QED
    BY <1>1, <2>1, <2>2, <2>3, ConcatProperties
<1>4. CASE r.kind = "pending" /\ Format!IsPendingBals(r)
  <2> DEFINE V == Format!Version
             T == r.UnconfirmedTxs
             A == Format!AddUvarint(r.LastHeight)
             B == Format!AddUvarint(Len(T))
             C == Format!FlattenSeq(TxParts(T))
  <2>1. Format!Serialize(r) = ((V \o A) \o B) \o C
    BY <1>4 DEF Format!Serialize, Format!SerializePendingBals, TxParts
  <2>2. r.LastHeight \in Nat /\ T \in Seq(Format!UnconfTx)
    BY <1>4 DEF Format!IsPendingBals
  <2>3. Len(T) \in Nat /\ DOMAIN T = 1 .. Len(T)
    BY <2>2, LenProperties
  <2>4. \A i \in 1 .. Len(T) : Format!Encodable(T[i])
    BY <1>4, <2>3 DEF Format!IsPendingBals
  <2>5. C \in Seq(Format!Byte)
    BY <2>2, <2>3, <2>4, TxPartsBytes, FlattenSeqBytes
  <2>6. V \in Seq(Format!Byte) /\ A \in Seq(Format!Byte) /\ B \in Seq(Format!Byte)
    BY <2>2, <2>3, VersionBytes, UvarintBytes
  <2> HIDE DEF V, A, B, C
  <2>7. (V \o A) \o B \in Seq(Format!Byte)
    BY <2>6, ConcatProperties
  <2>8. QED
    BY <1>1, <2>1, <2>5, <2>7, ConcatProperties
<1>5. CASE r.kind = "work" /\ Format!IsWork(r)
  <2>1. Format!Serialize(r) = Format!GetBlob(Format!Stamped(r))
    BY <1>5 DEF Format!Serialize
  <2>2. QED
    BY <1>1, <1>5, <2>1, WorkReads
<1>6. QED
    BY <1>1, <1>2, <1>3, <1>4, <1>5

\* The bytes w are those of the record r, or begin them.
IsWritten(w, r, all) ==
    /\ w \in Seq(Format!Byte) /\ Len(w) <= Len(Format!Serialize(r))
    /\ \A i \in 1 .. Len(w) : w[i] = Format!Serialize(r)[i]
    /\ all \in BOOLEAN /\ (all <=> Len(w) = Len(Format!Serialize(r)))

\* What is read of them.
LEMMA ReadBack ==
    ASSUME Format!RecordsConstants, NEW r \in Samples, NEW w, NEW all, IsWritten(w, r, all)
    PROVE  LET o == Format!Deserialize(r.kind, w)
           IN  IF all
               THEN o.status = "ok" /\ o.rec = IF r.kind = "work" THEN Format!Unstamped(r) ELSE r
               ELSE o.status # "ok" \/ (r.kind # "work" /\ w # << >> /\ w[Len(w)] >= Half)
<1> DEFINE f == Format!Serialize(r)
           o == Format!Deserialize(r.kind, w)
<1>1. f \in Seq(Format!Byte) /\ w \in Seq(Format!Byte) /\ Len(f) \in Nat /\ Len(w) \in Nat
    BY SerializeBytes, LenProperties DEF IsWritten
<1>2. /\ Len(w) <= Len(f) /\ (\A i \in 1 .. Len(w) : w[i] = f[i])
      /\ all \in BOOLEAN /\ (all <=> Len(w) = Len(f))
    BY DEF IsWritten
<1> HIDE DEF f, o
<1> SUFFICES IF all
             THEN o.status = "ok" /\ o.rec = IF r.kind = "work" THEN Format!Unstamped(r) ELSE r
             ELSE o.status # "ok" \/ (r.kind # "work" /\ w # << >> /\ w[Len(w)] >= Half)
    BY DEF o
<1>3. CASE r.kind = "work"
  <2>1. Format!IsWork(r)
    BY <1>3, SerializeBytes
  <2>2. f = Format!GetBlob(Format!Stamped(r)) /\ o = Format!NewBlockMinerFromBlob(w)
    BY <1>3 DEF f, o, Format!Serialize, Format!Deserialize
  <2>3. Len(f) = 3 * HashLen
        /\ Format!NewBlockMinerFromBlob(f) = [status |-> "ok", rec |-> Format!Unstamped(r)]
    BY <2>1, <2>2, WorkReads
  <2>4. CASE all
    <3>1. w = f
      BY <1>1, <1>2, <2>4, SeqEqual
    <3>2. QED
      BY <1>3, <2>2, <2>3, <2>4, <3>1
  <2>5. CASE ~all
    <3>1. Len(w) # 3 * HashLen
      BY <1>2, <2>3, <2>5
    <3>2. o = [status |-> "error", rec |-> << >>]
      BY <2>2, <3>1 DEF Format!NewBlockMinerFromBlob
    <3>3. QED
      BY <2>5, <3>2
  <2>6. QED
    BY <1>2, <2>4, <2>5
<1>4. CASE r.kind # "work" /\ ~all /\ w # << >> /\ w[Len(w)] >= Half
    BY <1>4
<1>5. CASE r.kind # "work" /\ ~(~all /\ w # << >> /\ w[Len(w)] >= Half)
  <2>1. OnWire(w, f)
    <3>1. ASSUME Len(w) # Len(f), w # << >> PROVE w[Len(w)] < Half
      <4>1. ~(w[Len(w)] >= Half)
        BY <1>2, <1>5, <3>1
      <4>2. Len(w) \in 1 .. Len(w)
        BY <1>1, <3>1, EmptySeq
      <4>3. w[Len(w)] \in Format!Byte
        BY <1>1, <4>2, ElementOfSeq
      <4>4. w[Len(w)] \in Nat /\ Half \in Nat
        BY <4>3 DEF Format!Byte, Format!RecordsConstants
      <4>5. QED
        BY <4>1, <4>4
    <3>2. QED
      BY <1>1, <1>2, <3>1 DEF OnWire
  <2>2. Outcome(o, r, w, f)
    <3>1. CASE r.kind = "share"
      <4>1. Format!IsShare(r)
        BY <3>1, SerializeBytes
      <4>2. f = Format!SerializeShare(r) /\ o = Format!DeserializeShare(w)
        BY <3>1 DEF f, o, Format!Serialize, Format!Deserialize
      <4>3. QED
        BY <2>1, <4>1, <4>2, ShareReads
    <3>2. CASE r.kind = "addr"
      <4>1. Format!IsAddrInfo(r)
        BY <3>2, SerializeBytes
      <4>2. f = Format!SerializeAddrInfo(r) /\ o = Format!DeserializeAddrInfo(w)
        BY <3>2 DEF f, o, Format!Serialize, Format!Deserialize
      <4>3. QED
        BY <2>1, <4>1, <4>2, AddrInfoReads
    <3>3. CASE r.kind = "pending"
      <4>1. Format!IsPendingBals(r)
        BY <3>3, SerializeBytes
      <4>2. f = Format!SerializePendingBals(r) /\ o = Format!DeserializePendingBals(w)
        BY <3>3 DEF f, o, Format!Serialize, Format!Deserialize
      <4>3. QED
        BY <2>1, <4>1, <4>2, PendingBalsRead
    <3>4. QED
      BY <1>5, <3>1, <3>2, <3>3, SerializeBytes
  <2>3. QED
    BY <1>2, <1>5, <2>2 DEF Outcome
<1>6. QED
    BY <1>3, <1>4, <1>5

\* The last byte of a record can be lost, and another.
LEMMA CutBytes ==
    ASSUME NEW r, NEW w, NEW all, IsWritten(w, r, all), w # << >>,
           Format!Serialize(r) \in Seq(Format!Byte)
    PROVE  IsWritten(SubSeq(w, 1, Len(w) - 1), r, FALSE)
<1> DEFINE f == Format!Serialize(r)
           n == Len(w) - 1
           x == SubSeq(w, 1, n)
<1>1. w \in Seq(Format!Byte) /\ Len(w) <= Len(f) /\ \A i \in 1 .. Len(w) : w[i] = f[i]
    BY DEF IsWritten
<1>2. n \in Nat /\ Len(f) \in Nat /\ n < Len(f) /\ \A i \in 1 .. n : i \in 1 .. Len(w)
    BY <1>1, EmptySeq, LenProperties
<1>3. \A i \in 1 .. n : w[i] \in Format!Byte /\ w[i] = f[i]
    BY <1>1, <1>2, ElementOfSeq
<1> HIDE DEF n, f
<1>4. x \in Seq(Format!Byte) /\ Len(x) = n /\ \A i \in 1 .. n : x[i] = w[i]
  <2>1. /\ x \in Seq(Format!Byte) /\ Len(x) = IF 1 <= n THEN n - 1 + 1 ELSE 0
        /\ \A i \in 1 .. n - 1 + 1 : x[i] = w[1 + i - 1]
    BY <1>2, <1>3, SubSeqProperties
  <2> HIDE DEF x
  <2>2. n - 1 + 1 = n /\ \A i \in 1 .. n : 1 + i - 1 = i
    BY <1>2
  <2>3. QED
    BY <1>2, <2>1, <2>2
<1> HIDE DEF x
<1>5. Len(x) <= Len(f) /\ Len(x) # Len(f) /\ \A i \in 1 .. Len(x) : x[i] = f[i]
    BY <1>2, <1>3, <1>4
<1>6. QED
    BY <1>4, <1>5 DEF IsWritten, f, x, n

\* For every size of the integers and every sample that can be written: what
\* was written is what is read, and of a record that has lost its end nothing
\* is taken for good unless the end was inside a varint.
THEOREM ReadsWhatWasWrittenCorrect == Format!Spec => []ReadsWhatWasWritten
<1> DEFINE Inv == /\ record \in Samples
                  /\ \/ phase = "new" /\ whole = TRUE
                     \/ phase = "stored" /\ IsWritten(wire, record, whole)
                     \/ /\ phase = "loaded" /\ IsWritten(wire, record, whole)
                        /\ result = Format!Deserialize(record.kind, wire)
<1> USE RulesAssumption
<1>1. Format!Init => Inv
    BY DEF Format!Init
<1>2. Inv /\ [Format!Next]_(Format!vars) => Inv'
  <2> SUFFICES ASSUME Inv, [Format!Next]_(Format!vars) PROVE Inv'
      OBVIOUS
  <2>1. Format!Serialize(record) \in Seq(Format!Byte)
    BY SerializeBytes
  <2>2. CASE Format!Store
    <3>1. /\ whole = TRUE /\ phase' = "stored" /\ wire' = Format!Serialize(record)
          /\ UNCHANGED <<record, whole>>
      BY <2>2 DEF Format!Store
    <3>2. Len(Format!Serialize(record)) \in Nat
      BY <2>1, LenProperties
    <3>3. IsWritten(Format!Serialize(record), record, TRUE)
      BY <2>1, <3>2 DEF IsWritten
    <3>4. IsWritten(wire', record', whole')
      BY <3>1, <3>3
    <3>5. QED
      BY <3>1, <3>4
  <2>3. CASE Format!Cut
    <3>1. /\ phase = "stored" /\ wire # << >> /\ wire' = SubSeq(wire, 1, Len(wire) - 1)
          /\ whole' = FALSE /\ UNCHANGED <<phase, record>>
      BY <2>3 DEF Format!Cut
    <3>2. IsWritten(wire, record, whole)
      BY <3>1
    <3>3. IsWritten(wire', record', whole')
      BY <2>1, <3>1, <3>2, CutBytes
    <3>4. QED
      BY <3>1, <3>3
  <2>4. CASE Format!Load
    <3>1. /\ phase = "stored" /\ phase' = "loaded" /\ UNCHANGED <<record, wire, whole>>
          /\ result' = Format!Deserialize(record.kind, wire)
      BY <2>4 DEF Format!Load
    <3>2. IsWritten(wire', record', whole') /\ result' = Format!Deserialize(record'.kind, wire')
      BY <3>1
    <3>3. QED
      BY <3>1, <3>2
  <2>5. CASE UNCHANGED Format!vars
    BY <2>5 DEF Format!vars
  <2>6. QED
    BY <2>2, <2>3, <2>4, <2>5 DEF Format!Next
<1>3. Inv => ReadsWhatWasWritten
  <2> SUFFICES ASSUME Inv, phase = "loaded"
               PROVE  IF whole
                      THEN /\ result.status = "ok"
                           /\ result.rec = IF record.kind = "work" THEN Format!Unstamped(record)
                                           ELSE record
                      ELSE \/ result.status # "ok"
                           \/ record.kind # "work" /\ wire # << >> /\ wire[Len(wire)] >= Half
      BY DEF ReadsWhatWasWritten, Format!ReadsWhatWasWritten, Format!EndsInVarint
  <2>1. /\ record \in Samples /\ IsWritten(wire, record, whole)
        /\ result = Format!Deserialize(record.kind, wire)
    OBVIOUS
  <2> HIDE DEF Inv
  <2>2. QED
    BY <2>1, ReadBack
<1>4. QED
  <2> HIDE DEF Inv
  <2> QED BY <1>1, <1>2, <1>3, PTL DEF Format!Spec
=============================================================================
