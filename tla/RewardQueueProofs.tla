------------------------- MODULE RewardQueueProofs -------------------------
(***************************************************************************)
(* Machine-checked proofs about RewardQueue, for every chain length,       *)
(* number of goroutines, safety margin and confirmation count.             *)
(***************************************************************************)
EXTENDS RewardQueue, Functions, TLAPS, FiniteSetTheorems, SequenceTheorems

\* What RecordPending appends: one entry per fresh transfer, in order.
Entries(order, n) ==
    [i \in 1 .. n |-> [block |-> order[i], UnlockHeight |-> order[i] + MinConfs]]

\* The fresh transfers are finitely many topoheights.
LEMMA FreshFinite ==
    ASSUME TypeOK, NEW c \in Cycles
    PROVE  /\ Fresh(c) \subseteq Heights
           /\ Cardinality(Fresh(c)) \in Nat
<1>1. Fresh(c) \subseteq Heights
    BY DEF TypeOK, Fresh
<1>2. IsFiniteSet(Heights)
    BY HeightAssumption, FS_Interval DEF Heights
<1>3. IsFiniteSet(Fresh(c))
    BY <1>1, <1>2, FS_Subset
<1>4. QED
    BY <1>1, <1>3, FS_CardinalityType

\* The entries form a sequence of UnconfTx records.
LEMMA EntriesType ==
    ASSUME TypeOK, NEW c \in Cycles, NEW order \in Ascending(Fresh(c))
    PROVE  Entries(order, Cardinality(Fresh(c))) \in Seq(UnconfTx)
<1> DEFINE n == Cardinality(Fresh(c))
<1>1. n \in Nat /\ Fresh(c) \subseteq Heights
    BY FreshFinite
<1>2. \A i \in 1 .. n : order[i] \in Heights
    BY <1>1 DEF Ascending
<1>3. \A i \in 1 .. n : order[i] + MinConfs \in Nat
    BY <1>2, HeightAssumption DEF Heights
<1>4. Entries(order, n) \in [1 .. n -> UnconfTx]
    BY <1>2, <1>3 DEF Entries, UnconfTx
<1>5. QED
    BY <1>1, <1>4, SeqDef

LEMMA InitType == Init => TypeOK
<1> SUFFICES ASSUME Init PROVE TypeOK
    OBVIOUS
<1>1. << >> \in Seq(UnconfTx)
    BY EmptySeq
<1> QED
    BY <1>1, HeightAssumption DEF Init, TypeOK, Heights, BlockTypes

LEMMA NextType == TypeOK /\ [Next]_vars => TypeOK'
<1> SUFFICES ASSUME TypeOK, [Next]_vars PROVE TypeOK'
    OBVIOUS
<1> USE HeightAssumption
<1>1. ASSUME NEW kind \in {"other", "normal"}, MineBlock(kind) PROVE TypeOK'
  <2>1. chain \in 0 .. MaxHeight /\ chain < MaxHeight /\ chain' = chain + 1
    BY <1>1 DEF MineBlock, TypeOK
  <2>2. block' \in [Heights -> BlockTypes]
    BY <1>1 DEF MineBlock, TypeOK, BlockTypes
  <2>3. UNCHANGED <<height, minHeight, lastHeight, unconfirmed, pc, transfers, recorded,
                    credited, dropped, tops, ahead, missed>>
    BY <1>1 DEF MineBlock, pendingVars, history, excuses
  <2>4. chain' \in 0 .. MaxHeight
    BY <2>1
  <2>5. QED
    BY <2>2, <2>3, <2>4 DEF TypeOK
<1>2. ASSUME NEW h \in Heights, NEW kind \in {"normal", "side", "orphaned"},
             Reclassify(h, kind)
      PROVE  TypeOK'
    BY <1>2 DEF Reclassify, TypeOK, pendingVars, history, excuses, BlockTypes
<1>3. CASE Crash
    BY <1>3 DEF Crash, TypeOK, chainVars, pendingVars, history, excuses
<1>4. ASSUME NEW c \in Cycles, Poll(c) PROVE TypeOK'
    BY <1>4 DEF Poll, TypeOK, chainVars, pendingVars, history, excuses
<1>5. ListFrom \in 0 .. MaxHeight /\ NextMinHeight \in 0 .. MaxHeight
    BY DEF TypeOK, ListFrom, NextMinHeight
<1>6. ASSUME NEW c \in Cycles, NEW top \in WalletTops, ListTransactions(c, top)
      PROVE  TypeOK'
  <2>1. top \in 0 .. MaxHeight
    BY <1>6 DEF WalletTops, TypeOK
  <2>2. QED
    BY <1>5, <1>6, <2>1 DEF ListTransactions, SkipAtStart, TypeOK, chainVars, pendingVars, history, excuses
<1>7. ASSUME NEW c \in Cycles, ListFails(c) PROVE TypeOK'
    BY <1>5, <1>7 DEF ListFails, SkipAtStart, TypeOK, chainVars, pendingVars, history, excuses
<1>8. ASSUME NEW c \in Cycles, RecordPending(c) PROVE TypeOK'
  <2>1. PICK order \in Ascending(Fresh(c)) :
            unconfirmed' = unconfirmed \o Entries(order, Cardinality(Fresh(c)))
    BY <1>8 DEF RecordPending, Entries
  <2>2. unconfirmed' \in Seq(UnconfTx)
    BY <2>1, EntriesType, ConcatProperties DEF TypeOK
  <2>3. lastHeight' \in 0 .. MaxHeight
    BY <1>8 DEF RecordPending, NextHeight, TypeOK
  <2>4. recorded' \in [Heights -> Nat]
    BY <1>8 DEF RecordPending, TypeOK
  <2>5. QED
    <3>1. ahead' \subseteq Heights /\ missed' \subseteq Heights
      BY <1>8, FreshFinite DEF RecordPending, Unscanned, TypeOK
    <3>2. tops' \in [Cycles -> 0 .. MaxHeight] /\ transfers' \in [Cycles -> SUBSET Heights]
      BY <1>8 DEF RecordPending, TypeOK
    <3>3. pc' \in [Cycles -> {"idle", "list", "record", "check"}]
      BY <1>8 DEF RecordPending, TypeOK
    <3>4. /\ UNCHANGED <<chain, block, height, credited, dropped>>
          /\ minHeight' \in 0 .. MaxHeight
      BY <1>5, <1>8 DEF RecordPending, chainVars
    <3>5. QED
      BY <2>2, <2>3, <2>4, <3>1, <3>2, <3>3, <3>4 DEF TypeOK
<1>9. ASSUME NEW c \in Cycles, RecordAborts(c) PROVE TypeOK'
    BY <1>5, <1>9 DEF RecordAborts, TypeOK, chainVars, pendingVars, history, excuses
<1>10. ASSUME NEW c \in Cycles, CheckWithdraw(c) PROVE TypeOK'
  <2>1. CASE NothingConfirmed(c)
    BY <2>1 DEF NothingConfirmed, Return, TypeOK, chainVars, excuses
  <2>2. ASSUME Confirmed
        PROVE  /\ Tail(unconfirmed) \in Seq(UnconfTx)
               /\ Head(unconfirmed) \in UnconfTx
               /\ Head(unconfirmed).block \in Heights
    <3>1. unconfirmed \in Seq(UnconfTx) /\ unconfirmed # << >>
      BY <2>2 DEF Confirmed, TypeOK
    <3>2. Tail(unconfirmed) \in Seq(UnconfTx) /\ Head(unconfirmed) \in UnconfTx
      BY <3>1, HeadTailProperties
    <3>3. QED
      BY <3>2 DEF UnconfTx
  <2>3. CASE CreditReward(c)
    <3>1. credited' \in [Heights -> Nat]
      BY <2>2, <2>3 DEF CreditReward, TypeOK
    <3>2. QED
      BY <2>2, <2>3, <3>1 DEF CreditReward, Return, TypeOK, chainVars, excuses
  <2>4. CASE DropOrphan(c)
    BY <2>2, <2>4 DEF DropOrphan, DropHead, Return, TypeOK, chainVars, excuses
  <2>5. CASE LookupFailsLate(c)
    BY <2>2, <2>5 DEF LookupFailsLate, DropHead, Return, TypeOK, chainVars, excuses
  <2>6. CASE LookupFailsEarly(c)
    BY <2>2, <2>6 DEF LookupFailsEarly, TryAgain, Return, TypeOK, chainVars, excuses
  <2>7. CASE RewardMissing(c)
    BY <2>2, <2>7 DEF RewardMissing, TryAgain, Return, TypeOK, chainVars, excuses
  <2>8. QED
    BY <1>10, <2>1, <2>3, <2>4, <2>5, <2>6, <2>7 DEF CheckWithdraw
<1>11. CASE UNCHANGED vars
    BY <1>11 DEF vars, TypeOK
<1>12. QED
    BY <1>1, <1>2, <1>3, <1>4, <1>6, <1>7, <1>8, <1>9, <1>10, <1>11
    DEF Next, Environment, UpdatePendingBals

\* Every reachable state of the reward queue is well typed: LastHeight and
\* MasterInfo.Height never leave the chain, the queue holds only UnconfTx
\* records of real blocks.
THEOREM TypeCorrect == Spec => []TypeOK
<1>1. Init => TypeOK
    BY InitType
<1>2. TypeOK /\ [Next]_vars => TypeOK'
    BY NextType
<1>3. QED
    BY <1>1, <1>2, PTL DEF Spec

-----------------------------------------------------------------------------
(* Counting the entries of a queue.                                        *)

\* The places of the coinbase of block h in the queue q.
Places(q, h) == {i \in 1 .. Len(q) : q[i].block = h}

LEMMA PlacesFinite ==
    ASSUME NEW q \in Seq(UnconfTx), NEW h
    PROVE  IsFiniteSet(Places(q, h)) /\ Cardinality(Places(q, h)) \in Nat
<1>1. Len(q) \in Nat
    BY LenProperties
<1>2. IsFiniteSet(1 .. Len(q))
    BY <1>1, FS_Interval
<1>3. Places(q, h) \in SUBSET (1 .. Len(q))
    BY DEF Places
<1>4. QED
    BY <1>2, <1>3, FS_Subset, FS_CardinalityType

\* Appending entries of different blocks adds one place to each of them.
LEMMA AppendPlaces ==
    ASSUME NEW q \in Seq(UnconfTx), NEW e \in Seq(UnconfTx), NEW h,
           \A i, j \in 1 .. Len(e) : e[i].block = e[j].block => i = j
    PROVE  Cardinality(Places(q \o e, h)) =
               Cardinality(Places(q, h))
               + (IF \E i \in 1 .. Len(e) : e[i].block = h THEN 1 ELSE 0)
<1> DEFINE m == Len(q)
<1> DEFINE k == Len(e)
<1> DEFINE r == q \o e
<1>1. m \in Nat /\ k \in Nat
    BY LenProperties
<1>2. /\ Len(r) = m + k
      /\ \A i \in 1 .. m : r[i] = q[i]
      /\ \A i \in 1 .. k : r[m + i] = e[i]
    BY <1>1, ConcatProperties
<1>3. Places(q, h) = {i \in 1 .. m : q[i].block = h}
    BY DEF Places
<1>4. Places(r, h) = {i \in 1 .. m + k : r[i].block = h}
    BY <1>2 DEF Places
<1>5. \A i, j \in 1 .. k : e[i].block = e[j].block => i = j
    OBVIOUS
<1> HIDE DEF m, k, r
<1>6. CASE \E i \in 1 .. k : e[i].block = h
  <2>1. PICK t \in 1 .. k : e[t].block = h
    BY <1>6
  <2>2. \A i \in 1 .. m + k : r[i].block = h => i = m + t \/ i \in Places(q, h)
    <3> SUFFICES ASSUME NEW i \in 1 .. m + k, r[i].block = h
                 PROVE  i = m + t \/ i \in Places(q, h)
      OBVIOUS
    <3>1. CASE i \in 1 .. m
      BY <1>2, <1>3, <3>1
    <3>2. CASE i \notin 1 .. m
      <4>1. i - m \in 1 .. k /\ i = m + (i - m)
        BY <1>1, <3>2
      <4>2. e[i - m].block = h
        BY <1>2, <4>1
      <4>3. i - m = t
        BY <1>5, <2>1, <4>1, <4>2
      <4>4. QED
        BY <1>1, <4>1, <4>3
    <3>3. QED
      BY <3>1, <3>2
  <2>3. m + t \in 1 .. m + k /\ r[m + t].block = h /\ m + t \notin 1 .. m
    <3>1. m + t \in 1 .. m + k /\ m + t \notin 1 .. m
      BY <1>1
    <3>2. r[m + t] = e[t]
      BY <1>2
    <3>3. QED
      BY <2>1, <3>1, <3>2
  <2>4. Places(q, h) \subseteq Places(r, h)
    BY <1>1, <1>2, <1>3, <1>4
  <2>5. Places(r, h) = Places(q, h) \cup {m + t}
    BY <1>4, <2>2, <2>3, <2>4
  <2>6. m + t \notin Places(q, h)
    BY <1>3, <2>3
  <2>7. Cardinality(Places(r, h)) = Cardinality(Places(q, h)) + 1
    BY <2>5, <2>6, PlacesFinite, FS_AddElement
  <2>8. QED
    BY <1>6, <2>7 DEF r, k
<1>7. CASE ~ \E i \in 1 .. k : e[i].block = h
  <2>1. \A i \in 1 .. m + k : r[i].block = h => i \in 1 .. m
    <3> SUFFICES ASSUME NEW i \in 1 .. m + k, r[i].block = h, i \notin 1 .. m
                 PROVE  FALSE
      OBVIOUS
    <3>1. i - m \in 1 .. k /\ i = m + (i - m)
      BY <1>1
    <3>2. QED
      BY <1>2, <1>7, <3>1
  <2>2. Places(r, h) = Places(q, h)
    BY <1>1, <1>2, <1>3, <1>4, <2>1
  <2>3. Cardinality(Places(q, h)) \in Nat
    BY PlacesFinite
  <2>4. QED
    BY <1>7, <2>2, <2>3 DEF r, k
<1>8. QED
    BY <1>6, <1>7

\* Removing the head takes one place from its block.
LEMMA TailPlaces ==
    ASSUME NEW q \in Seq(UnconfTx), q # << >>, NEW h
    PROVE  Cardinality(Places(q, h)) =
               Cardinality(Places(Tail(q), h)) + (IF Head(q).block = h THEN 1 ELSE 0)
<1> DEFINE n == Len(q)
<1> DEFINE p == Tail(q)
<1>1. p \in Seq(UnconfTx) /\ Len(p) = n - 1 /\ \A i \in 1 .. Len(p) : p[i] = q[i + 1]
    BY HeadTailProperties
<1>2. n \in Nat /\ n >= 1
    BY LenProperties, EmptySeq
<1>3. Head(q) = q[1]
    BY HeadTailProperties
<1>4. Places(q, h) = {i \in 1 .. n : q[i].block = h}
    BY DEF Places
<1>5. Places(p, h) = {i \in 1 .. n - 1 : q[i + 1].block = h}
    BY <1>1 DEF Places
<1> HIDE DEF n, p
<1> DEFINE up == Places(q, h) \ {1}
<1> DEFINE f == [i \in Places(p, h) |-> i + 1]
<1>6. \A i \in Places(p, h) : i \in Int /\ i + 1 \in up
    BY <1>2, <1>4, <1>5
<1>7. \A j \in up : j - 1 \in Places(p, h) /\ (j - 1) + 1 = j
    BY <1>2, <1>4, <1>5
<1>8. f \in [Places(p, h) -> up]
    BY <1>6
<1>9. f \in Injection(Places(p, h), up)
    BY <1>6, <1>8 DEF Injection, IsInjective
<1>10. f \in Surjection(Places(p, h), up)
  <2>1. \A j \in up : \E i \in Places(p, h) : f[i] = j
    <3> TAKE j \in up
    <3>1. j - 1 \in Places(p, h) /\ f[j - 1] = j
      BY <1>7
    <3>2. QED
      BY <3>1
  <2>2. QED
    BY <1>8, <2>1 DEF Surjection
<1>11. ExistsBijection(Places(p, h), up)
    BY <1>9, <1>10 DEF ExistsBijection, Bijection
<1>12. IsFiniteSet(Places(p, h)) /\ Cardinality(Places(p, h)) \in Nat
    BY <1>1, PlacesFinite
<1>13. Cardinality(up) = Cardinality(Places(p, h))
    BY <1>11, <1>12, FS_Bijection
<1>14. IsFiniteSet(Places(q, h)) /\ Cardinality(Places(q, h)) \in Nat
    BY PlacesFinite
<1>15. Cardinality(up) = IF 1 \in Places(q, h) THEN Cardinality(Places(q, h)) - 1
                                              ELSE Cardinality(Places(q, h))
    BY <1>14, FS_RemoveElement
<1>16. 1 \in Places(q, h) <=> Head(q).block = h
    BY <1>2, <1>3, <1>4
<1>17. QED
    BY <1>12, <1>13, <1>14, <1>15, <1>16 DEF p

-----------------------------------------------------------------------------
(* The inductive invariant.                                                *)

\* A goroutine at work was started by a poll, after LastHeight was written.
AwakeAbove == \A c \in Cycles : pc[c] # "idle" => lastHeight <= height

\* LastHeight has passed every recorded block that was not ahead of it.
RecordedBelowLast ==
    \A h \in Heights : recorded[h] > 0 /\ h \notin ahead => h <= lastHeight

\* Each entry of the queue unlocks MinConfs above its block.
QueueUnlocks ==
    \A i \in 1 .. Len(unconfirmed) :
        unconfirmed[i].UnlockHeight = unconfirmed[i].block + MinConfs

IInv ==
    /\ TypeOK
    /\ height <= chain /\ lastHeight <= chain
    /\ AwakeAbove
    /\ RecordedBelowLast
    /\ QueueUnlocks
    /\ CountedOnce
    /\ InOnePlace

\* What RecordPending does to the queue: the old entries, then one entry for
\* each fresh block.
LEMMA RecordShape ==
    ASSUME IInv, NEW c \in Cycles, RecordPending(c)
    PROVE  \E e \in Seq(UnconfTx) :
             /\ unconfirmed' = unconfirmed \o e
             /\ \A i \in 1 .. Len(e) : /\ e[i].block \in Fresh(c)
                                      /\ e[i].UnlockHeight = e[i].block + MinConfs
             /\ \A i, j \in 1 .. Len(e) : e[i].block = e[j].block => i = j
             /\ \A h \in Fresh(c) : \E i \in 1 .. Len(e) : e[i].block = h
<1> DEFINE n == Cardinality(Fresh(c))
<1>1. TypeOK
    BY DEF IInv
<1>2. PICK order \in Ascending(Fresh(c)) : unconfirmed' = unconfirmed \o Entries(order, n)
    BY DEF RecordPending, Entries
<1>3. n \in Nat /\ Fresh(c) \subseteq Heights
    BY <1>1, FreshFinite
<1>4. Entries(order, n) \in Seq(UnconfTx)
    BY <1>1, EntriesType
<1>5. Len(Entries(order, n)) = n
    BY <1>3, <1>4, LenProperties DEF Entries
<1>6. /\ \A i \in 1 .. n : order[i] \in Fresh(c)
      /\ \A i, j \in 1 .. n : i < j => order[i] < order[j]
      /\ \A h \in Fresh(c) : \E i \in 1 .. n : order[i] = h
    BY DEF Ascending
<1> DEFINE e == Entries(order, n)
<1>7. \A i \in 1 .. n : e[i].block = order[i] /\ e[i].UnlockHeight = order[i] + MinConfs
    BY DEF Entries
<1>8. e \in Seq(UnconfTx) /\ unconfirmed' = unconfirmed \o e /\ Len(e) = n
    BY <1>2, <1>4, <1>5
<1> HIDE DEF n, e
<1>9. \A i \in 1 .. Len(e) : /\ e[i].block \in Fresh(c)
                            /\ e[i].UnlockHeight = e[i].block + MinConfs
    BY <1>6, <1>7, <1>8
<1>10. \A i, j \in 1 .. Len(e) : e[i].block = e[j].block => i = j
  <2> SUFFICES ASSUME NEW i \in 1 .. n, NEW j \in 1 .. n, order[i] = order[j]
               PROVE  i = j
    BY <1>7, <1>8
  <2>1. order[i] \in Int /\ order[j] \in Int
    BY <1>3, <1>6 DEF Heights
  <2>2. ~(i < j) /\ ~(j < i)
    BY <1>6, <2>1
  <2>3. QED
    BY <1>3, <2>2
<1>11. \A h \in Fresh(c) : \E i \in 1 .. Len(e) : e[i].block = h
    BY <1>6, <1>7, <1>8
<1>12. QED
    BY <1>8, <1>9, <1>10, <1>11

\* Recording only raises LastHeight, and passes the blocks it records unless
\* they are ahead of MasterInfo.Height.
LEMMA RecordRaisesLast ==
    ASSUME IInv, NEW c \in Cycles, RecordPending(c)
    PROVE  /\ lastHeight' \in 0 .. MaxHeight
           /\ lastHeight' >= lastHeight
           /\ lastHeight' <= height
           /\ \A h \in Fresh(c) : /\ h \in Heights /\ lastHeight < h
                                  /\ h \notin ahead' => h <= lastHeight'
<1>1. \A h \in Fresh(c) : h \in Heights /\ lastHeight < h
    BY DEF IInv, TypeOK, Fresh
<1>2. lastHeight <= height /\ height \in 0 .. MaxHeight /\ lastHeight \in 0 .. MaxHeight
    BY DEF IInv, AwakeAbove, RecordPending, TypeOK
<1>3. CASE Fresh(c) = {}
    BY <1>2, <1>3 DEF RecordPending, NextHeight
<1>4. CASE Fresh(c) # {}
  <2>1. lastHeight' = height
    BY <1>4 DEF RecordPending, NextHeight
  <2>2. \A h \in Fresh(c) : h \notin ahead' => h <= height
    BY <1>1, <1>2 DEF RecordPending, Heights
  <2>3. QED
    BY <1>1, <1>2, <2>1, <2>2
<1>5. QED
    BY <1>3, <1>4

\* A fresh block gains one entry in the queue, every other block none.
LEMMA RecordPlaces ==
    ASSUME IInv, NEW c \in Cycles, RecordPending(c), NEW h \in Heights
    PROVE  /\ recorded'[h] = recorded[h] + (IF h \in Fresh(c) THEN 1 ELSE 0)
           /\ Waiting(h)' = Waiting(h) + (IF h \in Fresh(c) THEN 1 ELSE 0)
           /\ Waiting(h) \in Nat
<1>1. unconfirmed \in Seq(UnconfTx) /\ recorded[h] \in Nat
    BY DEF IInv, TypeOK
<1>2. PICK e \in Seq(UnconfTx) :
             /\ unconfirmed' = unconfirmed \o e
             /\ \A i \in 1 .. Len(e) : e[i].block \in Fresh(c)
             /\ \A i, j \in 1 .. Len(e) : e[i].block = e[j].block => i = j
             /\ \A g \in Fresh(c) : \E i \in 1 .. Len(e) : e[i].block = g
    BY RecordShape
<1>3. (\E i \in 1 .. Len(e) : e[i].block = h) <=> h \in Fresh(c)
    BY <1>2
<1>4. Cardinality(Places(unconfirmed \o e, h)) =
          Cardinality(Places(unconfirmed, h)) + (IF h \in Fresh(c) THEN 1 ELSE 0)
    BY <1>1, <1>2, <1>3, AppendPlaces
<1>5. Waiting(h) = Cardinality(Places(unconfirmed, h))
    BY DEF Waiting, Places
<1>6. Waiting(h)' = Cardinality(Places(unconfirmed \o e, h))
    BY <1>2 DEF Waiting, Places
<1>7. recorded'[h] = recorded[h] + (IF h \in Fresh(c) THEN 1 ELSE 0)
    BY <1>1 DEF RecordPending
<1>8. QED
    BY <1>1, <1>4, <1>5, <1>6, <1>7, PlacesFinite

\* RecordPending preserves the invariant.
LEMMA RecordKeeps ==
    ASSUME IInv, TypeOK', NEW c \in Cycles, RecordPending(c)
    PROVE  IInv'
<1> USE HeightAssumption
<1>1. TypeOK
    BY DEF IInv
<1>2. /\ lastHeight' \in 0 .. MaxHeight
      /\ lastHeight' >= lastHeight
      /\ lastHeight' <= height
      /\ \A h \in Fresh(c) : /\ h \in Heights /\ lastHeight < h
                             /\ h \notin ahead' => h <= lastHeight'
    BY RecordRaisesLast
<1>3. height' = height /\ chain' = chain /\ height <= chain
      /\ height \in Int /\ chain \in Int /\ lastHeight \in Int /\ ahead \subseteq ahead'
    BY <1>1 DEF RecordPending, chainVars, IInv, TypeOK
<1>4. height' <= chain' /\ lastHeight' <= chain' /\ AwakeAbove'
    BY <1>2, <1>3 DEF AwakeAbove
<1>5. QueueUnlocks'
  <2>1. PICK e \in Seq(UnconfTx) :
             /\ unconfirmed' = unconfirmed \o e
             /\ \A i \in 1 .. Len(e) : e[i].UnlockHeight = e[i].block + MinConfs
    BY RecordShape
  <2> DEFINE m == Len(unconfirmed)
  <2> DEFINE k == Len(e)
  <2>2. unconfirmed \in Seq(UnconfTx) /\ m \in Nat /\ k \in Nat
    BY <1>1, LenProperties DEF TypeOK
  <2>3. /\ Len(unconfirmed') = m + k
        /\ \A i \in 1 .. m + k : unconfirmed'[i] = IF i <= m THEN unconfirmed[i] ELSE e[i - m]
    BY <2>1, <2>2, ConcatProperties
  <2>4. \A i \in 1 .. m : unconfirmed[i].UnlockHeight = unconfirmed[i].block + MinConfs
    BY DEF IInv, QueueUnlocks
  <2>5. \A i \in 1 .. k : e[i].UnlockHeight = e[i].block + MinConfs
    BY <2>1
  <2> HIDE DEF m, k
  <2>6. SUFFICES ASSUME NEW i \in 1 .. m + k
                 PROVE  unconfirmed'[i].UnlockHeight = unconfirmed'[i].block + MinConfs
    BY <2>3 DEF QueueUnlocks
  <2>7. CASE i <= m
    <3>1. i \in 1 .. m /\ unconfirmed'[i] = unconfirmed[i]
      BY <2>2, <2>3, <2>7
    <3>2. QED
      BY <2>4, <3>1
  <2>8. CASE ~(i <= m)
    <3>1. i - m \in 1 .. k /\ unconfirmed'[i] = e[i - m]
      BY <2>2, <2>3, <2>8
    <3>2. QED
      BY <2>5, <3>1
  <2>9. QED
    BY <2>7, <2>8
<1>6. RecordedBelowLast' /\ CountedOnce'
  <2> SUFFICES ASSUME NEW h \in Heights, h \notin ahead'
               PROVE  (recorded'[h] > 0 => h <= lastHeight') /\ recorded'[h] <= 1
    BY DEF RecordedBelowLast, CountedOnce
  <2>1. h \notin ahead /\ h \in Int
    BY <1>3 DEF Heights
  <2>2. /\ recorded[h] \in Nat /\ recorded[h] <= 1
        /\ recorded[h] > 0 => h <= lastHeight
    BY <1>1, <2>1 DEF IInv, TypeOK, RecordedBelowLast, CountedOnce
  <2>3. recorded'[h] = recorded[h] + (IF h \in Fresh(c) THEN 1 ELSE 0)
    BY RecordPlaces
  <2>4. CASE h \in Fresh(c)
    BY <1>2, <1>3, <2>1, <2>2, <2>3, <2>4
  <2>5. CASE h \notin Fresh(c)
    BY <1>2, <1>3, <2>1, <2>2, <2>3, <2>5
  <2>6. QED
    BY <2>4, <2>5
<1>7. InOnePlace'
  <2> SUFFICES ASSUME NEW h \in Heights
               PROVE  recorded'[h] = credited'[h] + dropped'[h] + Waiting(h)'
    BY DEF InOnePlace
  <2>1. credited' = credited /\ dropped' = dropped
    BY DEF RecordPending
  <2>2. recorded[h] = credited[h] + dropped[h] + Waiting(h)
    BY DEF IInv, InOnePlace
  <2>3. credited[h] \in Nat /\ dropped[h] \in Nat
    BY <1>1 DEF TypeOK
  <2>4. QED
    BY <2>1, <2>2, <2>3, RecordPlaces
<1>8. QED
    BY <1>4, <1>5, <1>6, <1>7 DEF IInv

\* The head of the queue, and what is left when it is removed.
LEMMA RemoveHead ==
    ASSUME IInv, Confirmed, unconfirmed' = Tail(unconfirmed)
    PROVE  /\ Head(unconfirmed).block \in Heights
           /\ QueueUnlocks'
           /\ \A h \in Heights :
                 /\ Waiting(h)' \in Nat
                 /\ Waiting(h) = Waiting(h)'
                                 + (IF Head(unconfirmed).block = h THEN 1 ELSE 0)
<1>1. unconfirmed \in Seq(UnconfTx) /\ unconfirmed # << >>
    BY DEF IInv, TypeOK, Confirmed
<1>2. /\ Head(unconfirmed) \in UnconfTx /\ Tail(unconfirmed) \in Seq(UnconfTx)
      /\ Len(Tail(unconfirmed)) = Len(unconfirmed) - 1
      /\ \A i \in 1 .. Len(Tail(unconfirmed)) : Tail(unconfirmed)[i] = unconfirmed[i + 1]
    BY <1>1, HeadTailProperties
<1>3. Len(unconfirmed) \in Nat
    BY <1>1, LenProperties
<1>4. QueueUnlocks'
  <2> SUFFICES ASSUME NEW i \in 1 .. Len(Tail(unconfirmed))
               PROVE  Tail(unconfirmed)[i].UnlockHeight = Tail(unconfirmed)[i].block + MinConfs
    BY DEF QueueUnlocks
  <2>1. i + 1 \in 1 .. Len(unconfirmed)
    BY <1>2, <1>3
  <2>2. QED
    BY <1>2, <2>1 DEF IInv, QueueUnlocks
<1>5. ASSUME NEW h \in Heights
      PROVE  /\ Waiting(h)' \in Nat
             /\ Waiting(h) = Waiting(h)' + (IF Head(unconfirmed).block = h THEN 1 ELSE 0)
  <2>1. Waiting(h) = Cardinality(Places(unconfirmed, h))
    BY DEF Waiting, Places
  <2>2. Waiting(h)' = Cardinality(Places(Tail(unconfirmed), h))
    BY DEF Waiting, Places
  <2>3. QED
    BY <1>1, <1>2, <2>1, <2>2, TailPlaces, PlacesFinite
<1>6. QED
    BY <1>2, <1>4, <1>5 DEF UnconfTx

\* A block that leaves the queue goes to exactly one of credited and dropped.
LEMMA LeaveKeepsPlace ==
    ASSUME IInv, Confirmed, unconfirmed' = Tail(unconfirmed), recorded' = recorded,
           NEW hd, hd = Head(unconfirmed).block,
           \/ /\ credited' = [credited EXCEPT ![hd] = @ + 1]
              /\ dropped' = dropped
           \/ /\ dropped' = [dropped EXCEPT ![hd] = @ + 1]
              /\ credited' = credited
    PROVE  InOnePlace'
<1> SUFFICES ASSUME NEW h \in Heights
             PROVE  recorded'[h] = credited'[h] + dropped'[h] + Waiting(h)'
    BY DEF InOnePlace
<1>1. recorded[h] = credited[h] + dropped[h] + Waiting(h)
    BY DEF IInv, InOnePlace
<1>2. /\ credited \in [Heights -> Nat] /\ dropped \in [Heights -> Nat]
      /\ credited[h] \in Nat /\ dropped[h] \in Nat
    BY DEF IInv, TypeOK
<1>3. /\ hd \in Heights /\ Waiting(h)' \in Nat
      /\ Waiting(h) = Waiting(h)' + (IF hd = h THEN 1 ELSE 0)
    BY RemoveHead
<1>4. credited'[h] + dropped'[h] = credited[h] + dropped[h] + (IF hd = h THEN 1 ELSE 0)
    BY <1>2, <1>3
<1>5. credited'[h] \in Nat /\ dropped'[h] \in Nat
    BY <1>2, <1>3
<1>6. QED
    BY <1>1, <1>2, <1>3, <1>4, <1>5

LEMMA InitIInv == Init => IInv
<1> SUFFICES ASSUME Init PROVE IInv
    OBVIOUS
<1>1. TypeOK
    BY InitType
<1>2. Len(unconfirmed) = 0
    BY DEF Init
<1>3. ASSUME NEW h \in Heights PROVE Waiting(h) = 0
  <2>1. {i \in 1 .. Len(unconfirmed) : unconfirmed[i].block = h} = {}
    BY <1>2
  <2>2. QED
    BY <2>1, FS_EmptySet DEF Waiting
<1>4. InOnePlace
    BY <1>3 DEF Init, InOnePlace
<1>5. QueueUnlocks
    BY <1>2 DEF QueueUnlocks
<1>6. height <= chain /\ lastHeight <= chain /\ AwakeAbove /\ RecordedBelowLast /\ CountedOnce
    BY HeightAssumption DEF Init, AwakeAbove, RecordedBelowLast, CountedOnce
<1>7. QED
    BY <1>1, <1>4, <1>5, <1>6 DEF IInv

\* Every step preserves the invariant, whatever the wallet lists.
LEMMA NextIInv == IInv /\ [Next]_vars => IInv'
<1> SUFFICES ASSUME IInv, [Next]_vars PROVE IInv'
    OBVIOUS
<1> USE HeightAssumption
<1>1. /\ TypeOK /\ TypeOK' /\ AwakeAbove
      /\ height <= chain /\ lastHeight <= chain
      /\ height \in Int /\ chain \in Int /\ lastHeight \in Int
      /\ pc \in [Cycles -> {"idle", "list", "record", "check"}]
  <2>1. TypeOK /\ TypeOK' /\ AwakeAbove /\ height <= chain /\ lastHeight <= chain
    BY NextType DEF IInv
  <2>2. QED
    BY <2>1 DEF TypeOK
<1>2. ASSUME UNCHANGED <<lastHeight, unconfirmed, recorded, credited, dropped, ahead>>
      PROVE  RecordedBelowLast' /\ QueueUnlocks' /\ CountedOnce' /\ InOnePlace'
    BY <1>2 DEF IInv, RecordedBelowLast, QueueUnlocks, CountedOnce, InOnePlace, Waiting
<1>3. ASSUME NEW kind \in {"other", "normal"}, MineBlock(kind) PROVE IInv'
  <2>1. height' <= chain' /\ lastHeight' <= chain' /\ AwakeAbove'
    BY <1>1, <1>3 DEF MineBlock, AwakeAbove, pendingVars
  <2>2. QED
    BY <1>1, <1>2, <1>3, <2>1 DEF MineBlock, pendingVars, history, excuses, IInv
<1>4. ASSUME NEW h \in Heights, NEW kind \in {"normal", "side", "orphaned"},
             Reclassify(h, kind)
      PROVE  IInv'
    BY <1>1, <1>2, <1>4 DEF Reclassify, pendingVars, history, excuses, IInv, AwakeAbove
<1>5. CASE Crash
  <2>1. height' <= chain' /\ lastHeight' <= chain' /\ AwakeAbove'
    BY <1>1, <1>5 DEF Crash, AwakeAbove, TypeOK, chainVars, pendingVars
  <2>2. QED
    BY <1>1, <1>2, <1>5, <2>1 DEF Crash, pendingVars, IInv
<1>6. ASSUME NEW c \in Cycles, Poll(c) PROVE IInv'
  <2>1. height' = chain /\ chain' = chain /\ lastHeight' = lastHeight
    BY <1>6 DEF Poll, chainVars, pendingVars
  <2>2. height' <= chain' /\ lastHeight' <= chain' /\ AwakeAbove'
    BY <1>1, <2>1 DEF AwakeAbove
  <2>3. QED
    BY <1>1, <1>2, <1>6, <2>2 DEF Poll, pendingVars, history, excuses, IInv
<1>7. ASSUME NEW c \in Cycles, NEW top \in WalletTops, ListTransactions(c, top)
      PROVE  IInv'
  <2>1. height' <= chain' /\ lastHeight' <= chain' /\ AwakeAbove'
    BY <1>1, <1>7 DEF ListTransactions, AwakeAbove, chainVars, pendingVars
  <2>2. QED
    BY <1>1, <1>2, <1>7, <2>1 DEF ListTransactions, pendingVars, IInv
<1>8. ASSUME NEW c \in Cycles, ListFails(c) PROVE IInv'
  <2>1. height' <= chain' /\ lastHeight' <= chain' /\ AwakeAbove'
    BY <1>1, <1>8 DEF ListFails, AwakeAbove, chainVars, pendingVars
  <2>2. QED
    BY <1>1, <1>2, <1>8, <2>1 DEF ListFails, pendingVars, IInv
<1>9. ASSUME NEW c \in Cycles, RecordPending(c) PROVE IInv'
    BY <1>1, <1>9, RecordKeeps
<1>10. ASSUME NEW c \in Cycles, RecordAborts(c) PROVE IInv'
  <2>1. height' <= chain' /\ lastHeight' <= chain' /\ AwakeAbove'
    BY <1>1, <1>10 DEF RecordAborts, AwakeAbove, chainVars, pendingVars
  <2>2. QED
    BY <1>1, <1>2, <1>10, <2>1 DEF RecordAborts, pendingVars, IInv
<1>11. ASSUME NEW c \in Cycles, CheckWithdraw(c) PROVE IInv'
  <2>1. Return(c)
    BY <1>11 DEF CheckWithdraw, NothingConfirmed, CreditReward, DropOrphan, LookupFailsLate,
                 LookupFailsEarly, RewardMissing, TryAgain
  <2>2. height' <= chain' /\ lastHeight' <= chain' /\ AwakeAbove'
    BY <1>1, <2>1 DEF Return, AwakeAbove, chainVars
  <2>3. /\ lastHeight' = lastHeight /\ recorded' = recorded /\ ahead' = ahead
        /\ RecordedBelowLast' /\ CountedOnce'
    BY <2>1 DEF Return, excuses, IInv, RecordedBelowLast, CountedOnce
  <2>4. CASE NothingConfirmed(c) \/ LookupFailsEarly(c) \/ RewardMissing(c)
    BY <1>1, <1>2, <2>2, <2>3, <2>4
    DEF NothingConfirmed, LookupFailsEarly, RewardMissing, TryAgain, IInv
  <2>5. CASE CreditReward(c)
    <3>1. Confirmed /\ unconfirmed' = Tail(unconfirmed)
      BY <2>5 DEF CreditReward
    <3>2. InOnePlace'
      BY <2>3, <2>5, <3>1, LeaveKeepsPlace DEF CreditReward
    <3>3. QED
      BY <1>1, <2>2, <2>3, <3>1, <3>2, RemoveHead DEF IInv
  <2>6. CASE DropOrphan(c) \/ LookupFailsLate(c)
    <3>1. Confirmed /\ DropHead
      BY <2>6 DEF DropOrphan, LookupFailsLate
    <3>2. InOnePlace'
      BY <2>3, <3>1, LeaveKeepsPlace DEF DropHead
    <3>3. QED
      BY <1>1, <2>2, <2>3, <3>1, <3>2, RemoveHead DEF IInv, DropHead
  <2>7. QED
    BY <1>11, <2>4, <2>5, <2>6 DEF CheckWithdraw
<1>12. CASE UNCHANGED vars
    BY <1>1, <1>2, <1>12 DEF vars, IInv, AwakeAbove
<1>13. QED
    BY <1>3, <1>4, <1>5, <1>6, <1>7, <1>8, <1>9, <1>10, <1>11, <1>12
    DEF Next, Environment, UpdatePendingBals

-----------------------------------------------------------------------------
(* The theorems.                                                           *)

\* No schedule of goroutines, failed calls and restarts, and no lag or lead of
\* the wallet, counts one block's reward twice in UpdatePendingBals, except for
\* the blocks recorded while they were above MasterInfo.Height.
THEOREM CountedOnceCorrect == Spec => []CountedOnce
<1>1. IInv => CountedOnce
    BY DEF IInv
<1>2. QED
    BY <1>1, InitIInv, NextIInv, PTL DEF Spec

\* Every recording of a reward is at every moment in exactly one of the queue,
\* the credits and the drops, also when a block was recorded twice.
THEOREM InOnePlaceCorrect == Spec => []InOnePlace
<1>1. IInv => InOnePlace
    BY DEF IInv
<1>2. QED
    BY <1>1, InitIInv, NextIInv, PTL DEF Spec

\* The persisted LastHeight never moves back, not even when the wallet lists
\* blocks above MasterInfo.Height or the master starts again with height 0.
THEOREM LastHeightGrowsCorrect == Spec => LastHeightGrows
<1>1. IInv /\ [Next]_vars => [lastHeight' >= lastHeight]_vars
  <2> SUFFICES ASSUME IInv, [Next]_vars PROVE lastHeight' >= lastHeight
    OBVIOUS
  <2>1. lastHeight \in Int
    BY DEF IInv, TypeOK
  <2>2. ASSUME NEW c \in Cycles, RecordPending(c) PROVE lastHeight' >= lastHeight
    BY <2>2, RecordRaisesLast
  <2>3. ASSUME \A c \in Cycles : ~RecordPending(c) PROVE lastHeight' = lastHeight
    BY <2>3 DEF Next, vars, Environment, MineBlock, Reclassify, Crash, Poll,
        UpdatePendingBals, ListTransactions, ListFails, RecordAborts, CheckWithdraw,
        NothingConfirmed, CreditReward, DropOrphan, LookupFailsLate, LookupFailsEarly,
        RewardMissing, TryAgain, Return, pendingVars
  <2>4. QED
    BY <2>1, <2>2, <2>3
<1>2. QED
    BY <1>1, InitIInv, NextIInv, PTL DEF Spec, LastHeightGrows

\* A credited block is buried deeper than the daemon reorganises.
CreditedDeep ==
    \A h \in Heights : credited[h] > 0 => block[h] # "orphaned" /\ h + StableDepth < chain

\* CreditReward only touches blocks with more than MinConfs confirmations.
LEMMA CreditIsDeep ==
    ASSUME StableDepth <= MinConfs, IInv, NEW c \in Cycles, CreditReward(c)
    PROVE  /\ Head(unconfirmed).block \in Heights
           /\ Head(unconfirmed).block + StableDepth < chain
           /\ block[Head(unconfirmed).block] # "orphaned"
<1>1. unconfirmed \in Seq(UnconfTx) /\ unconfirmed # << >>
    BY DEF IInv, TypeOK, CreditReward, Confirmed
<1>2. Head(unconfirmed) \in UnconfTx /\ Head(unconfirmed) = unconfirmed[1]
    BY <1>1, HeadTailProperties
<1>3. 1 \in 1 .. Len(unconfirmed)
    BY <1>1, LenProperties, EmptySeq
<1>4. Head(unconfirmed).UnlockHeight = Head(unconfirmed).block + MinConfs
    BY <1>2, <1>3 DEF IInv, QueueUnlocks
<1>5. Head(unconfirmed).UnlockHeight < height
    BY DEF CreditReward, Confirmed
<1>6. Head(unconfirmed).block \in Heights
    BY <1>2 DEF UnconfTx
<1>7. height \in Int /\ chain \in Int /\ height <= chain
    BY DEF IInv, TypeOK
<1>8. QED
    BY <1>4, <1>5, <1>6, <1>7, HeightAssumption DEF CreditReward, Heights

\* Steps keep credited blocks deep.
LEMMA NextCreditedDeep ==
    ASSUME StableDepth <= MinConfs
    PROVE  IInv /\ CreditedDeep /\ [Next]_vars => CreditedDeep'
<1> SUFFICES ASSUME IInv, CreditedDeep, [Next]_vars PROVE CreditedDeep'
  OBVIOUS
<1>1. /\ chain \in Int /\ block \in [Heights -> BlockTypes]
      /\ credited \in [Heights -> Nat] /\ StableDepth \in Nat
  BY HeightAssumption DEF IInv, TypeOK
<1>2. ASSUME NEW kind \in {"other", "normal"}, MineBlock(kind) PROVE CreditedDeep'
  <2> SUFFICES ASSUME NEW h \in Heights, credited'[h] > 0
               PROVE  block'[h] # "orphaned" /\ h + StableDepth < chain'
    BY DEF CreditedDeep
  <2>1. block[h] # "orphaned" /\ h + StableDepth < chain
    BY <1>2 DEF MineBlock, history, excuses, CreditedDeep
  <2>2. h # chain + 1 /\ h + StableDepth < chain + 1
    BY <1>1, <2>1 DEF Heights
  <2>3. QED
    BY <1>1, <1>2, <2>1, <2>2 DEF MineBlock
<1>3. ASSUME NEW g \in Heights, NEW kind \in {"normal", "side", "orphaned"},
             Reclassify(g, kind)
      PROVE  CreditedDeep'
  <2> SUFFICES ASSUME NEW h \in Heights, credited'[h] > 0
               PROVE  block'[h] # "orphaned" /\ h + StableDepth < chain'
    BY DEF CreditedDeep
  <2>1. block[h] # "orphaned" /\ h + StableDepth < chain
    BY <1>3 DEF Reclassify, history, excuses, CreditedDeep
  <2>2. chain - g <= StableDepth
    BY <1>3 DEF Reclassify
  <2>3. h # g
    BY <1>1, <2>1, <2>2 DEF Heights
  <2>4. QED
    BY <1>1, <1>3, <2>1, <2>3 DEF Reclassify
<1>4. ASSUME NEW c \in Cycles, CreditReward(c) PROVE CreditedDeep'
  <2>1. /\ Head(unconfirmed).block \in Heights
        /\ Head(unconfirmed).block + StableDepth < chain
        /\ block[Head(unconfirmed).block] # "orphaned"
    BY <1>4, CreditIsDeep
  <2>2. chain' = chain /\ block' = block
    BY <1>4 DEF CreditReward, Return, chainVars
  <2>3. \A h \in Heights : h # Head(unconfirmed).block => credited'[h] = credited[h]
    BY <1>1, <1>4 DEF CreditReward
  <2>4. QED
    BY <2>1, <2>2, <2>3 DEF CreditedDeep
<1>5. ASSUME UNCHANGED <<chain, block, credited>> PROVE CreditedDeep'
  BY <1>5 DEF CreditedDeep
<1>6. QED
  BY <1>2, <1>3, <1>4, <1>5 DEF Next, vars, Environment, Crash, Poll,
      UpdatePendingBals, ListTransactions, ListFails, RecordPending, RecordAborts,
      CheckWithdraw, NothingConfirmed, DropOrphan, LookupFailsLate,
      LookupFailsEarly, RewardMissing, TryAgain, DropHead, Return, chainVars, history, excuses

\* What is credited stays credited, and its block keeps its type.
LEMMA CreditedSettled ==
    ASSUME IInv, CreditedDeep, [Next]_vars, NEW h \in Heights, credited[h] > 0
    PROVE  credited'[h] > 0 /\ block'[h] = block[h]
<1>1. /\ chain \in Int /\ block \in [Heights -> BlockTypes]
      /\ credited \in [Heights -> Nat] /\ StableDepth \in Nat
    BY HeightAssumption DEF IInv, TypeOK
<1>2. h + StableDepth < chain /\ h \in Int
    BY DEF CreditedDeep, Heights
<1>3. ASSUME NEW kind \in {"other", "normal"}, MineBlock(kind)
      PROVE  credited' = credited /\ block'[h] = block[h]
  <2>1. h # chain + 1
    BY <1>1, <1>2
  <2>2. QED
    BY <1>1, <1>3, <2>1 DEF MineBlock, history, excuses
<1>4. ASSUME NEW g \in Heights, NEW kind \in {"normal", "side", "orphaned"}, Reclassify(g, kind)
      PROVE  credited' = credited /\ block'[h] = block[h]
  <2>1. h # g
    BY <1>1, <1>2, <1>4 DEF Reclassify, Heights
  <2>2. QED
    BY <1>1, <1>4, <2>1 DEF Reclassify, history, excuses
<1>5. ASSUME NEW c \in Cycles, CreditReward(c)
      PROVE  credited'[h] > 0 /\ block' = block
    BY <1>1, <1>5 DEF CreditReward, Return, chainVars
<1>6. QED
    BY <1>3, <1>4, <1>5 DEF Next, vars, Environment, Crash, Poll,
        UpdatePendingBals, ListTransactions, ListFails, RecordPending, RecordAborts,
        CheckWithdraw, NothingConfirmed, DropOrphan, LookupFailsLate,
        LookupFailsEarly, RewardMissing, TryAgain, DropHead, Return, chainVars, history, excuses

\* A goroutine at work has seen a height, and only one that is about to record
\* holds a listing.
AwakeListed ==
    \A c \in Cycles : /\ pc[c] # "idle" => height > 0
                      /\ transfers[c] # {} => pc[c] = "record"

LEMMA InitAwakeListed == Init => AwakeListed
    BY DEF Init, AwakeListed

LEMMA NextAwakeListed == IInv /\ AwakeListed /\ [Next]_vars => AwakeListed'
<1> SUFFICES ASSUME IInv, AwakeListed, [Next]_vars PROVE AwakeListed'
    OBVIOUS
<1>1. /\ chain \in Nat /\ height \in Nat /\ height <= chain
      /\ pc \in [Cycles -> {"idle", "list", "record", "check"}]
      /\ transfers \in [Cycles -> SUBSET Heights]
    BY HeightAssumption DEF IInv, TypeOK
<1>2. ASSUME NEW c \in Cycles, Poll(c) PROVE AwakeListed'
    BY <1>1, <1>2 DEF Poll, AwakeListed
<1>3. ASSUME NEW c \in Cycles, UpdatePendingBals(c) PROVE AwakeListed'
  <2>1. /\ pc[c] # "idle" /\ height' = height /\ \A d \in Cycles \ {c} : pc'[d] = pc[d]
        /\ pc'[c] \in {"record", "check"}
    BY <1>1, <1>3 DEF UpdatePendingBals, ListTransactions, ListFails, RecordPending, RecordAborts
  <2>2. \A d \in Cycles \ {c} : transfers'[d] = transfers[d]
    BY <1>1, <1>3 DEF UpdatePendingBals, ListTransactions, ListFails, RecordPending, RecordAborts
  <2>3. transfers'[c] # {} => pc'[c] = "record"
    BY <1>1, <1>3 DEF UpdatePendingBals, ListTransactions, ListFails, RecordPending,
        RecordAborts, AwakeListed
  <2>4. QED
    BY <2>1, <2>2, <2>3 DEF AwakeListed
<1>4. ASSUME NEW c \in Cycles, CheckWithdraw(c) PROVE AwakeListed'
  <2>1. /\ pc[c] = "check" /\ pc' = [pc EXCEPT ![c] = "idle"]
        /\ height' = height /\ transfers' = transfers
    BY <1>4 DEF CheckWithdraw, NothingConfirmed, CreditReward, DropOrphan, LookupFailsLate,
        LookupFailsEarly, RewardMissing, TryAgain, Return
  <2>2. QED
    BY <1>1, <2>1 DEF AwakeListed
<1>5. ASSUME Crash PROVE AwakeListed'
    BY <1>5 DEF Crash, AwakeListed
<1>6. ASSUME UNCHANGED <<height, pc, transfers>> PROVE AwakeListed'
    BY <1>6 DEF AwakeListed
<1>7. QED
    BY <1>2, <1>3, <1>4, <1>5, <1>6 DEF Next, vars, Environment, MineBlock, Reclassify

\* When MinConfs is at least the depth to which the daemon reorganises, a block
\* whose reward CheckWithdraw credited is never orphaned afterwards.
THEOREM CreditIsFinalCorrect ==
    ASSUME StableDepth <= MinConfs
    PROVE  Spec => []CreditIsFinal
<1>1. Init => CreditedDeep
    BY DEF Init, CreditedDeep
<1>2. IInv /\ CreditedDeep /\ [Next]_vars => CreditedDeep'
    BY NextCreditedDeep
<1>3. CreditedDeep => CreditIsFinal
    BY DEF CreditedDeep, CreditIsFinal
<1>4. QED
    BY <1>1, <1>2, <1>3, InitIInv, NextIInv, PTL DEF Spec

-----------------------------------------------------------------------------
(* No reward is forgotten.                                                 *)

\* Below the lowest topoheight that is listed nothing is left to record.
StartSkipped ==
    minHeight # 0 => \A h \in Heights : lastHeight < h /\ h < minHeight => h \in missed

\* A listing holds every reward above LastHeight that the wallet had scanned.
ListingComplete ==
    \A c \in Cycles : pc[c] = "record" =>
        /\ tops[c] <= chain
        /\ \A h \in Heights :
              lastHeight < h /\ h <= tops[c] /\ block[h] \in Rewarded
                  => h \in transfers[c] \/ h \in missed

FInv == StartSkipped /\ ListingComplete /\ NothingForgotten

\* The ranges the arithmetic needs.
LEMMA HeightTypes ==
    ASSUME IInv
    PROVE  /\ chain \in Int /\ height \in Int /\ minHeight \in Int /\ lastHeight \in Int
           /\ \A c \in Cycles : tops[c] \in Int
           /\ \A h \in Heights : h \in Int /\ recorded[h] \in Nat
           /\ block \in [Heights -> BlockTypes] /\ missed \subseteq Heights
           /\ transfers \in [Cycles -> SUBSET Heights]
           /\ pc \in [Cycles -> {"idle", "list", "record", "check"}]
           /\ tops \in [Cycles -> 0 .. MaxHeight]
           /\ height <= chain /\ lastHeight <= chain
<1>1. TypeOK /\ height <= chain /\ lastHeight <= chain
    BY DEF IInv
<1>2. /\ chain \in Int /\ height \in Int /\ minHeight \in Int /\ lastHeight \in Int
      /\ block \in [Heights -> BlockTypes] /\ missed \subseteq Heights
      /\ transfers \in [Cycles -> SUBSET Heights]
      /\ pc \in [Cycles -> {"idle", "list", "record", "check"}]
    BY <1>1 DEF TypeOK
<1>3. tops \in [Cycles -> 0 .. MaxHeight] /\ recorded \in [Heights -> Nat]
    BY <1>1 DEF TypeOK
<1>4. /\ \A c \in Cycles : tops[c] \in Int
      /\ \A h \in Heights : h \in Int /\ recorded[h] \in Nat
    BY <1>3 DEF Heights
<1>5. QED
    BY <1>1, <1>2, <1>3, <1>4

\* The daemon's steps: a block above LastHeight and above every listing is
\* mined, and an orphaned block stays orphaned.
LEMMA EnvironmentForgetsNothing ==
    ASSUME IInv, FInv, Environment
    PROVE  FInv'
<1>1. UNCHANGED <<height, minHeight, lastHeight, unconfirmed, pc, transfers, recorded,
                  tops, missed>>
    BY DEF Environment, MineBlock, Reclassify, pendingVars, history, excuses
<1>2. /\ chain' >= chain
      /\ \A h \in Heights : h <= chain /\ block'[h] \in Rewarded => block[h] \in Rewarded
  <2>1. ASSUME NEW kind \in {"other", "normal"}, MineBlock(kind)
        PROVE  /\ chain' >= chain
               /\ \A h \in Heights : h <= chain => block'[h] = block[h]
    BY <2>1, HeightTypes DEF MineBlock
  <2>2. ASSUME NEW g \in Heights, NEW kind \in {"normal", "side", "orphaned"},
               Reclassify(g, kind)
        PROVE  /\ chain' >= chain
               /\ \A h \in Heights : block'[h] \in Rewarded => block[h] \in Rewarded
    BY <2>2, HeightTypes DEF Reclassify
  <2>3. QED
    BY <2>1, <2>2 DEF Environment
<1>3. StartSkipped'
    BY <1>1 DEF FInv, StartSkipped
<1>4. ListingComplete'
  <2> SUFFICES ASSUME NEW c \in Cycles, pc[c] = "record"
               PROVE  /\ tops[c] <= chain'
                      /\ \A h \in Heights :
                            lastHeight < h /\ h <= tops[c] /\ block'[h] \in Rewarded
                                => h \in transfers[c] \/ h \in missed
    BY <1>1 DEF ListingComplete
  <2>1. tops[c] <= chain /\ tops[c] \in Int /\ chain \in Int /\ chain' \in Int
    BY NextIInv, HeightTypes DEF FInv, ListingComplete, Environment, MineBlock, Reclassify
  <2>2. ASSUME NEW h \in Heights, lastHeight < h, h <= tops[c], block'[h] \in Rewarded
        PROVE  h \in transfers[c] \/ h \in missed
    <3>1. h <= chain
      BY <2>1, <2>2, HeightTypes
    <3>2. block[h] \in Rewarded
      BY <1>2, <2>2, <3>1
    <3>3. QED
      BY <2>2, <3>2 DEF FInv, ListingComplete
  <2>3. QED
    BY <1>2, <2>1, <2>2
<1>5. NothingForgotten'
  <2> SUFFICES ASSUME NEW h \in Heights, h <= lastHeight, block'[h] \in Rewarded
               PROVE  recorded[h] > 0 \/ h \in missed
    BY <1>1 DEF NothingForgotten
  <2>1. h <= chain
    BY HeightTypes
  <2>2. block[h] \in Rewarded
    BY <1>2, <2>1
  <2>3. QED
    BY <2>2 DEF FInv, NothingForgotten
<1>6. QED
    BY <1>3, <1>4, <1>5 DEF FInv

\* Asking the wallet leaves no gap between LastHeight and the listing that is
\* not written down as skipped.
LEMMA ListingLeavesNoGap ==
    ASSUME IInv, FInv, minHeight' = ListFrom, SkipAtStart, lastHeight' = lastHeight
    PROVE  /\ StartSkipped'
           /\ \A h \in Heights : lastHeight < h /\ h < ListFrom => h \in missed'
           /\ missed \subseteq missed'
<1>1. missed \subseteq missed'
    BY DEF SkipAtStart
<1>2. ASSUME NEW h \in Heights, lastHeight < h, h < ListFrom PROVE h \in missed'
  <2>1. CASE minHeight = 0
    BY <1>2, <2>1 DEF SkipAtStart
  <2>2. CASE minHeight # 0
    <3>1. ListFrom = minHeight
      BY <2>2 DEF ListFrom
    <3>2. QED
      BY <1>1, <1>2, <2>2, <3>1 DEF FInv, StartSkipped
  <2>3. QED
    BY <2>1, <2>2
<1>3. QED
    BY <1>1, <1>2 DEF StartSkipped

\* A listing is complete when it is made.
LEMMA ListingIsComplete ==
    ASSUME IInv, FInv, NEW c \in Cycles, NEW top \in WalletTops, ListTransactions(c, top)
    PROVE  FInv'
<1>1. /\ minHeight' = ListFrom /\ SkipAtStart
      /\ UNCHANGED <<chain, block, lastHeight, recorded>>
      /\ pc' = [pc EXCEPT ![c] = "record"] /\ tops' = [tops EXCEPT ![c] = top]
      /\ transfers' = [transfers EXCEPT ![c] =
             {h \in Heights : ListFrom <= h /\ h <= top /\ block[h] \in Rewarded}]
    BY DEF ListTransactions, chainVars, pendingVars
<1>2. /\ StartSkipped'
      /\ \A h \in Heights : lastHeight < h /\ h < ListFrom => h \in missed'
      /\ missed \subseteq missed'
    BY <1>1, ListingLeavesNoGap
<1>3. top <= chain
    BY HeightTypes DEF WalletTops
<1>4. ListFrom \in Int
    BY HeightTypes, HeightAssumption DEF ListFrom
<1>5. ListingComplete'
  <2> SUFFICES ASSUME NEW d \in Cycles, pc'[d] = "record"
               PROVE  /\ tops'[d] <= chain
                      /\ \A h \in Heights :
                            lastHeight < h /\ h <= tops'[d] /\ block[h] \in Rewarded
                                => h \in transfers'[d] \/ h \in missed'
    BY <1>1 DEF ListingComplete
  <2>1. CASE d = c
    <3>1. /\ tops'[c] = top
          /\ transfers'[c] = {h \in Heights : ListFrom <= h /\ h <= top /\ block[h] \in Rewarded}
      BY <1>1, HeightTypes
    <3>2. ASSUME NEW h \in Heights, lastHeight < h, h <= top, block[h] \in Rewarded
          PROVE  h \in transfers'[c] \/ h \in missed'
      <4>1. h < ListFrom \/ ListFrom <= h
        BY <1>4, HeightTypes
      <4>2. QED
        BY <1>2, <3>1, <3>2, <4>1
    <3>3. QED
      BY <1>3, <2>1, <3>1, <3>2
  <2>2. CASE d # c
    <3>1. pc[d] = "record" /\ tops'[d] = tops[d] /\ transfers'[d] = transfers[d]
      BY <1>1, <2>2, HeightTypes
    <3>2. QED
      BY <1>2, <3>1 DEF FInv, ListingComplete
  <2>3. QED
    BY <2>1, <2>2
<1>6. NothingForgotten'
    BY <1>1, <1>2 DEF FInv, NothingForgotten
<1>7. QED
    BY <1>2, <1>5, <1>6 DEF FInv

\* minHeight only moves to a topoheight below LastHeight in a transaction.
LEMMA NextMinHeightSkips ==
    ASSUME IInv, FInv, minHeight' = NextMinHeight, lastHeight' >= lastHeight,
           lastHeight' \in Int, missed \subseteq missed'
    PROVE  StartSkipped'
<1> SUFFICES ASSUME NextMinHeight # 0, NEW h \in Heights, lastHeight' < h, h < NextMinHeight
             PROVE  h \in missed'
    BY DEF StartSkipped
<1>1. lastHeight < h
    BY HeightTypes
<1>2. CASE lastHeight > SafetyMargin
    BY <1>1, <1>2, HeightTypes, HeightAssumption DEF NextMinHeight
<1>3. CASE ~(lastHeight > SafetyMargin)
  <2>1. NextMinHeight = minHeight
    BY <1>3 DEF NextMinHeight
  <2>2. QED
    BY <1>1, <2>1 DEF FInv, StartSkipped
<1>4. QED
    BY <1>2, <1>3

\* Recording a complete listing passes no reward that is not recorded.
LEMMA RecordForgetsNothing ==
    ASSUME IInv, FInv, NEW c \in Cycles, RecordPending(c)
    PROVE  FInv'
<1>1. /\ minHeight' = NextMinHeight /\ UNCHANGED <<chain, block, height>>
      /\ pc[c] = "record" /\ lastHeight' = NextHeight(c)
      /\ pc' = [pc EXCEPT ![c] = "check"] /\ tops' = [tops EXCEPT ![c] = 0]
      /\ transfers' = [transfers EXCEPT ![c] = {}]
      /\ missed' = missed \cup Unscanned(c)
    BY DEF RecordPending, chainVars
<1>2. lastHeight' >= lastHeight /\ lastHeight' \in Int
    BY RecordRaisesLast
<1>3. StartSkipped'
    BY <1>1, <1>2, NextMinHeightSkips
<1>4. ListingComplete'
  <2> SUFFICES ASSUME NEW d \in Cycles, pc'[d] = "record"
               PROVE  /\ tops'[d] <= chain
                      /\ \A h \in Heights :
                            lastHeight' < h /\ h <= tops'[d] /\ block[h] \in Rewarded
                                => h \in transfers'[d] \/ h \in missed'
    BY <1>1 DEF ListingComplete
  <2>1. d # c /\ pc[d] = "record" /\ tops'[d] = tops[d] /\ transfers'[d] = transfers[d]
    BY <1>1, HeightTypes
  <2>2. \A h \in Heights : lastHeight' < h => lastHeight < h
    BY <1>2, HeightTypes
  <2>3. QED
    BY <1>1, <2>1, <2>2 DEF FInv, ListingComplete
<1>5. NothingForgotten'
  <2> SUFFICES ASSUME NEW h \in Heights, h <= lastHeight', block[h] \in Rewarded
               PROVE  recorded'[h] > 0 \/ h \in missed'
    BY <1>1 DEF NothingForgotten
  <2>1. recorded'[h] = recorded[h] + (IF h \in Fresh(c) THEN 1 ELSE 0) /\ recorded[h] \in Nat
    BY RecordPlaces, HeightTypes
  <2>2. CASE h <= lastHeight
    BY <1>1, <2>1, <2>2 DEF FInv, NothingForgotten
  <2>3. CASE ~(h <= lastHeight)
    <3>1. lastHeight < h
      BY <2>3, HeightTypes
    <3>2. Fresh(c) # {} /\ lastHeight' = height
      BY <1>1, <2>3 DEF NextHeight
    <3>3. CASE h <= tops[c]
      <4>1. h \in transfers[c] \/ h \in missed
        BY <1>1, <3>1, <3>3 DEF FInv, ListingComplete
      <4>2. h \in transfers[c] => h \in Fresh(c)
        BY <3>1 DEF Fresh
      <4>3. QED
        BY <1>1, <2>1, <4>1, <4>2
    <3>4. CASE ~(h <= tops[c])
      <4>1. tops[c] < h
        BY <3>4, HeightTypes
      <4>2. h \in Unscanned(c)
        BY <3>2, <4>1 DEF Unscanned
      <4>3. QED
        BY <1>1, <4>2
    <3>5. QED
      BY <3>3, <3>4
  <2>4. QED
    BY <2>2, <2>3
<1>6. QED
    BY <1>3, <1>4, <1>5 DEF FInv

\* Every step keeps it.
LEMMA NextFInv == IInv /\ FInv /\ [Next]_vars => FInv'
<1> SUFFICES ASSUME IInv, FInv, [Next]_vars PROVE FInv'
    OBVIOUS
\* Steps after which no goroutine has a listing it did not have before.
<1>1. ASSUME UNCHANGED <<chain, block, lastHeight, recorded>>,
             missed \subseteq missed',
             \A c \in Cycles : pc'[c] = "record" =>
                 pc[c] = "record" /\ tops'[c] = tops[c] /\ transfers'[c] = transfers[c]
      PROVE  ListingComplete' /\ NothingForgotten'
    BY <1>1 DEF FInv, ListingComplete, NothingForgotten
<1>2. ASSUME minHeight' = minHeight, lastHeight' = lastHeight, missed \subseteq missed'
      PROVE  StartSkipped'
    BY <1>2 DEF FInv, StartSkipped
<1>3. CASE Environment
    BY <1>3, EnvironmentForgetsNothing
<1>4. CASE Crash
  <2>1. ListingComplete' /\ NothingForgotten'
    BY <1>1, <1>4 DEF Crash, chainVars, pendingVars
  <2>2. StartSkipped'
    BY <1>4 DEF Crash, StartSkipped
  <2>3. QED
    BY <2>1, <2>2 DEF FInv
<1>5. ASSUME NEW c \in Cycles, Poll(c) PROVE FInv'
  <2>1. ListingComplete' /\ NothingForgotten'
    BY <1>1, <1>5, HeightTypes DEF Poll, chainVars, pendingVars, history, excuses
  <2>2. QED
    BY <1>2, <1>5, <2>1 DEF Poll, pendingVars, history, excuses, FInv
<1>6. ASSUME NEW c \in Cycles, NEW top \in WalletTops, ListTransactions(c, top) PROVE FInv'
    BY <1>6, ListingIsComplete
<1>7. ASSUME NEW c \in Cycles, ListFails(c) PROVE FInv'
  <2>1. StartSkipped' /\ missed \subseteq missed'
    BY <1>7, ListingLeavesNoGap DEF ListFails, pendingVars
  <2>2. ListingComplete' /\ NothingForgotten'
    BY <1>1, <1>7, <2>1, HeightTypes DEF ListFails, chainVars, pendingVars
  <2>3. QED
    BY <2>1, <2>2 DEF FInv
<1>8. ASSUME NEW c \in Cycles, RecordPending(c) PROVE FInv'
    BY <1>8, RecordForgetsNothing
<1>9. ASSUME NEW c \in Cycles, RecordAborts(c) PROVE FInv'
  <2>1. lastHeight' = lastHeight /\ missed' = missed /\ minHeight' = NextMinHeight
    BY <1>9 DEF RecordAborts, pendingVars
  <2>2. StartSkipped'
    BY <2>1, NextMinHeightSkips, HeightTypes
  <2>3. ListingComplete' /\ NothingForgotten'
    BY <1>1, <1>9, HeightTypes DEF RecordAborts, chainVars, pendingVars
  <2>4. QED
    BY <2>2, <2>3 DEF FInv
<1>10. ASSUME NEW c \in Cycles, CheckWithdraw(c) PROVE FInv'
  <2>1. Return(c)
    BY <1>10 DEF CheckWithdraw, NothingConfirmed, CreditReward, DropOrphan, LookupFailsLate,
                 LookupFailsEarly, RewardMissing, TryAgain
  <2>2. /\ UNCHANGED <<chain, block, lastHeight, recorded, minHeight, missed, tops, transfers>>
        /\ pc' = [pc EXCEPT ![c] = "idle"]
    BY <2>1 DEF Return, chainVars, excuses
  <2>3. ListingComplete' /\ NothingForgotten'
    BY <1>1, <2>2, HeightTypes
  <2>4. QED
    BY <1>2, <2>2, <2>3 DEF FInv
<1>11. CASE UNCHANGED vars
    BY <1>11 DEF vars, FInv, StartSkipped, ListingComplete, NothingForgotten
<1>12. QED
    BY <1>3, <1>4, <1>5, <1>6, <1>7, <1>8, <1>9, <1>10, <1>11
    DEF Next, UpdatePendingBals

\* Whatever goroutines overlap, calls fail and restarts happen, LastHeight only
\* passes rewards that were recorded, that the first listing after a start did
\* not reach back to, or that the wallet had not scanned.
THEOREM NothingForgottenCorrect == Spec => []NothingForgotten
<1>1. Init => FInv
    BY HeightAssumption
    DEF Init, FInv, StartSkipped, ListingComplete, NothingForgotten, Rewarded, Heights
<1>2. FInv => NothingForgotten
    BY DEF FInv
<1>3. QED
    BY <1>1, <1>2, InitIInv, NextIInv, NextFInv, PTL DEF Spec
=============================================================================
