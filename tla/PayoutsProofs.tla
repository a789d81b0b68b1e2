--------------------------- MODULE PayoutsProofs ---------------------------
(***************************************************************************)
(* Machine-checked proofs about Payouts, for every set of addresses, key   *)
(* order, batch size and amount.                                           *)
(***************************************************************************)
EXTENDS Payouts, SumTheorems, FunctionTheorems, FiniteSetTheorems, TLAPS

\* A Withdraw runs only within a loop.
TypeInv == TypeOK /\ (tx # "idle" => attempts > 0)

LEMMA InitType == Init => TypeInv
<1> SUFFICES ASSUME Init PROVE TypeInv
    OBVIOUS
<1>1. info \in [Addr -> AddrInfo]
    BY LimitAssumption DEF Init, NoInfo, AddrInfo
<1>2. earned \in [Addr -> Nat]
    BY LimitAssumption DEF Init
<1>3. QED
  <2>1. unpaid \in BOOLEAN
    BY DEF Init
  <2>2. /\ attempts \in 0 .. MaxAttempts /\ known \subseteq Addr
        /\ tx = "idle" /\ batch \subseteq Addr /\ answer = "none"
        /\ sent \in [Addr -> Nat]
    BY AddressAssumption, LimitAssumption DEF Init
  <2>3. QED
    BY <1>1, <1>2, <2>1, <2>2 DEF TypeOK, TypeInv

\* Crediting the shares of one reward, account by account.
LEMMA CreditEffect ==
    ASSUME TypeOK, NEW share \in Shares, Credit(share), NEW a \in Addr
    PROVE  /\ info'[a] \in AddrInfo /\ earned'[a] \in Nat
           /\ info'[a].Paid = info[a].Paid
           /\ a \notin Banned =>
                earned'[a] - earned[a] = info'[a].Balance - info[a].Balance
<1>1. info[a] \in AddrInfo /\ earned[a] \in Nat
    BY DEF TypeOK
<1>2. CASE a \notin DOMAIN share
  <2>1. info'[a] = info[a] /\ earned'[a] = earned[a]
    BY <1>2 DEF Credit
  <2>2. QED
    BY <1>1, <2>1 DEF AddrInfo
<1>3. CASE a \in DOMAIN share
  <2>1. share[a] \in Nat
    <3>1. PICK K \in SUBSET Addr : share \in [K -> Amounts]
      BY DEF Shares
    <3>2. share[a] \in Amounts
      BY <1>3, <3>1
    <3>3. Amounts \subseteq Nat
      BY LimitAssumption
    <3>4. QED
      BY <3>2, <3>3
  <2>2. earned'[a] = earned[a] + share[a]
    BY <1>3 DEF Credit
  <2>3. CASE a \in Banned
    <3>1. info'[a] = [Balance |-> 0, BalancePending |-> 0, Paid |-> info[a].Paid]
      BY <1>3, <2>3 DEF Credit
    <3>2. info'[a] \in AddrInfo /\ info'[a].Paid = info[a].Paid
      BY <1>1, <3>1 DEF AddrInfo
    <3>3. QED
      BY <1>1, <2>1, <2>2, <2>3, <3>2
  <2>4. CASE a \notin Banned
    <3>1. info'[a] = [info[a] EXCEPT !.Balance = @ + share[a]]
      BY <1>3, <2>4 DEF Credit
    <3>2. QED
      BY <1>1, <2>1, <2>2, <3>1 DEF AddrInfo
  <2>5. QED
    BY <2>3, <2>4
<1>4. QED
    BY <1>2, <1>3

\* Committing a Withdraw, account by account.
LEMMA CommitEffect ==
    ASSUME TypeOK, CommitWithdraw, NEW a \in Addr
    PROVE  /\ info'[a] \in AddrInfo
           /\ a \in batch => /\ info'[a].Paid = info[a].Paid + info[a].Balance
                             /\ info'[a].Balance = 0
           /\ a \notin batch => info'[a] = info[a]
<1>1. info[a] \in AddrInfo
    BY DEF TypeOK
<1>2. CASE a \in batch
  <2>1. info'[a] = [Balance |-> 0, BalancePending |-> info[a].BalancePending,
                    Paid |-> info[a].Paid + info[a].Balance]
    BY <1>2 DEF CommitWithdraw
  <2>2. info[a].Paid \in Nat /\ info[a].Balance \in Nat
    BY <1>1 DEF AddrInfo
  <2>3. info[a].Paid + info[a].Balance \in Nat
    BY <2>2
  <2>4. /\ info'[a] \in AddrInfo
        /\ info'[a].Paid = info[a].Paid + info[a].Balance
        /\ info'[a].Balance = 0
    BY <1>1, <2>1, <2>3 DEF AddrInfo
  <2>5. QED
    BY <1>2, <2>4
<1>3. CASE a \notin batch
    BY <1>1, <1>3 DEF CommitWithdraw
<1>4. QED
    BY <1>2, <1>3

\* SetPending touches nothing but BalancePending.
LEMMA PendingEffect ==
    ASSUME TypeOK, NEW pending \in Pendings, SetPending(pending), NEW a \in Addr
    PROVE  /\ info'[a] \in AddrInfo
           /\ info'[a].Paid = info[a].Paid /\ info'[a].Balance = info[a].Balance
<1>1. info[a] \in AddrInfo /\ pending[a] \in Nat
    <2>1. pending \in [Addr -> Nat]
        BY LimitAssumption
    <2>2. QED
        BY <2>1 DEF TypeOK
<1>2. info'[a] = IF a \in known THEN [info[a] EXCEPT !.BalancePending = pending[a]]
                                ELSE info[a]
    BY DEF SetPending
<1>3. QED
    BY <1>1, <1>2 DEF AddrInfo

\* The end of a Withdraw, whatever its outcome.
LEMMA EndType ==
    ASSUME TypeInv, NEW again \in BOOLEAN, again => attempts > 0, EndWithdraw(again)
    PROVE  /\ tx' = "idle" /\ batch' \subseteq Addr
           /\ unpaid' \in BOOLEAN /\ attempts' \in 0 .. MaxAttempts
<1>1. tx' = "idle" /\ batch' \subseteq Addr /\ unpaid' \in BOOLEAN
    BY DEF EndWithdraw
<1>2. attempts \in 0 .. MaxAttempts /\ MaxAttempts \in Nat
    BY LimitAssumption DEF TypeInv, TypeOK
<1>3. CASE again
  <2>1. attempts' = attempts - 1
    BY <1>3 DEF EndWithdraw
  <2>2. QED
    BY <1>1, <1>2, <1>3, <2>1
<1>4. CASE ~again
  <2>1. attempts' = 0
    BY <1>4 DEF EndWithdraw
  <2>2. QED
    BY <1>1, <1>2, <2>1
<1>5. QED
    BY <1>3, <1>4

LEMMA NextType == TypeInv /\ [Next]_vars => TypeInv'
<1> SUFFICES ASSUME TypeInv, [Next]_vars PROVE TypeInv'
    OBVIOUS
<1>0. TypeOK /\ (tx # "idle" => attempts > 0)
    BY DEF TypeInv
<1> USE LimitAssumption
<1>1. ASSUME NEW share \in Shares, Credit(share) PROVE TypeInv'
  <2>1. info' \in [Addr -> AddrInfo] /\ earned' \in [Addr -> Nat]
    <3>1. \A a \in Addr : info'[a] \in AddrInfo /\ earned'[a] \in Nat
      BY <1>0, <1>1, CreditEffect
    <3>2. /\ info' = [a \in Addr |-> info'[a]]
          /\ earned' = [a \in Addr |-> earned'[a]]
      BY <1>1 DEF Credit
    <3>3. QED
      BY <3>1, <3>2
  <2>2. known' \subseteq Addr
    BY <1>0, <1>1 DEF Credit, Shares, TypeOK
  <2>3. QED
    BY <1>0, <1>1, <2>1, <2>2 DEF Credit, TypeInv, TypeOK, payVars
<1>2. ASSUME NEW pending \in Pendings, SetPending(pending) PROVE TypeInv'
  <2>1. \A a \in Addr : info'[a] \in AddrInfo
    BY <1>0, <1>2, PendingEffect
  <2>2. info' \in [Addr -> AddrInfo]
    BY <1>2, <2>1 DEF SetPending
  <2>3. QED
    BY <1>0, <1>2, <2>2 DEF SetPending, TypeInv, TypeOK, payVars
<1>3. CASE StartLoop
    BY <1>0, <1>3 DEF StartLoop, TypeInv, TypeOK
<1>4. CASE NothingDue
  <2>1. /\ tx' = "idle" /\ batch' \subseteq Addr
        /\ unpaid' \in BOOLEAN /\ attempts' \in 0 .. MaxAttempts
    BY <1>4, EndType DEF NothingDue
  <2>2. QED
    BY <1>0, <1>4, <2>1 DEF NothingDue, TypeInv, TypeOK
<1>5. CASE OpenWithdraw
  <2>1. batch' \subseteq Addr /\ unpaid' \in BOOLEAN
    BY <1>5 DEF OpenWithdraw, Destinations, KeysLeft
  <2>2. QED
    BY <1>0, <1>5, <2>1 DEF OpenWithdraw, TypeInv, TypeOK
<1>6. CASE Broadcast
  <2>1. \A a \in Addr : info[a].Balance \in Nat
    BY <1>0 DEF TypeOK, AddrInfo
  <2>2. sent' \in [Addr -> Nat]
    BY <1>0, <1>6, <2>1 DEF Broadcast, TypeOK
  <2>3. QED
    BY <1>0, <1>6, <2>2 DEF Broadcast, TypeInv, TypeOK
<1>7. CASE TransferFails \/ ReplyLost
  <2>1. /\ tx' = "idle" /\ batch' \subseteq Addr
        /\ unpaid' \in BOOLEAN /\ attempts' \in 0 .. MaxAttempts
    BY <1>7, EndType DEF TransferFails, ReplyLost
  <2>2. QED
    BY <1>0, <1>7, <2>1 DEF TransferFails, ReplyLost, TypeInv, TypeOK
<1>8. CASE CommitWithdraw
  <2>1. \A a \in Addr : info'[a] \in AddrInfo
    BY <1>0, <1>8, CommitEffect
  <2>2. info' \in [Addr -> AddrInfo]
    BY <1>8, <2>1 DEF CommitWithdraw
  <2>3. /\ tx' = "idle" /\ batch' \subseteq Addr
        /\ unpaid' \in BOOLEAN /\ attempts' \in 0 .. MaxAttempts
    <3>1. unpaid \in BOOLEAN /\ attempts > 0
      BY <1>0, <1>8 DEF CommitWithdraw, TypeOK
    <3>2. QED
      BY <1>8, <3>1, EndType DEF CommitWithdraw
  <2>4. answer' \in {"none", "paid", "unpaid"} /\ UNCHANGED <<known, earned, sent>>
    BY <1>8 DEF CommitWithdraw
  <2>5. QED
    BY <1>0, <2>2, <2>3, <2>4 DEF TypeInv, TypeOK
<1>9. CASE Crash
  <2>1. /\ tx' = "idle" /\ batch' \subseteq Addr
        /\ unpaid' \in BOOLEAN /\ attempts' \in 0 .. MaxAttempts
    BY <1>9, EndType DEF Crash
  <2>2. QED
    BY <1>0, <1>9, <2>1 DEF Crash, TypeInv, TypeOK
<1>10. CASE UNCHANGED vars
    BY <1>0, <1>10 DEF vars, TypeInv, TypeOK
<1>11. QED
    BY <1>1, <1>2, <1>3, <1>4, <1>5, <1>6, <1>7, <1>8, <1>9, <1>10 DEF Next, Withdraw

\* Every reachable state is well typed: no balance or payment underflows, and
\* the loop never makes more than MaxAttempts calls.
THEOREM TypeCorrect == Spec => []TypeOK
<1>1. TypeInv => TypeOK
    BY DEF TypeInv
<1>2. QED
    BY <1>1, InitType, NextType, PTL DEF Spec

-----------------------------------------------------------------------------
(* Paid never runs ahead of the broadcasts.                                *)

\* PaidWasSent, strengthened by the payment in flight: once the batch was
\* broadcast, committing it is covered too.
Covered ==
    \A a \in Addr :
        /\ info[a].Paid <= sent[a]
        /\ tx = "sent" /\ a \in batch => info[a].Paid + info[a].Balance <= sent[a]

LEMMA NextCovered == TypeInv /\ Covered /\ [Next]_vars => Covered'
<1> SUFFICES ASSUME TypeInv, Covered, [Next]_vars, NEW a \in Addr
             PROVE  /\ info'[a].Paid <= sent'[a]
                    /\ tx' = "sent" /\ a \in batch' =>
                            info'[a].Paid + info'[a].Balance <= sent'[a]
    BY DEF Covered
<1>1. /\ TypeOK
      /\ info[a].Paid \in Nat /\ info[a].Balance \in Nat /\ sent[a] \in Nat
    BY DEF TypeInv, TypeOK, AddrInfo
<1>2. /\ info[a].Paid <= sent[a]
      /\ tx = "sent" /\ a \in batch => info[a].Paid + info[a].Balance <= sent[a]
    BY DEF Covered
<1>3. ASSUME NEW share \in Shares, Credit(share)
      PROVE  info'[a].Paid <= sent'[a] /\ tx' # "sent"
    BY <1>1, <1>2, <1>3, CreditEffect DEF Credit, payVars
<1>4. ASSUME NEW pending \in Pendings, SetPending(pending)
      PROVE  info'[a].Paid <= sent'[a] /\ tx' # "sent"
    BY <1>1, <1>2, <1>4, PendingEffect DEF SetPending, payVars
<1>5. CASE StartLoop \/ UNCHANGED vars
    BY <1>2, <1>5 DEF StartLoop, vars
<1>6. CASE OpenWithdraw
    BY <1>2, <1>6 DEF OpenWithdraw
<1>7. CASE Broadcast
  <2>1. info' = info /\ batch' = batch
    BY <1>7 DEF Broadcast
  <2>2. sent'[a] = IF a \in batch THEN sent[a] + info[a].Balance ELSE sent[a]
    BY <1>7 DEF Broadcast
  <2>3. QED
    BY <1>1, <1>2, <2>1, <2>2
<1>8. CASE NothingDue \/ TransferFails \/ ReplyLost \/ Crash
    BY <1>2, <1>8 DEF NothingDue, TransferFails, ReplyLost, Crash, EndWithdraw
<1>9. CASE CommitWithdraw
  <2>1. tx = "sent" /\ tx' = "idle" /\ sent' = sent
    BY <1>9 DEF CommitWithdraw, EndWithdraw
  <2>2. /\ a \in batch => info'[a].Paid = info[a].Paid + info[a].Balance
        /\ a \notin batch => info'[a] = info[a]
    BY <1>1, <1>9, CommitEffect
  <2>3. QED
    BY <1>1, <1>2, <2>1, <2>2
<1>10. QED
    BY <1>3, <1>4, <1>5, <1>6, <1>7, <1>8, <1>9 DEF Next, Withdraw

\* Whatever is lost or killed, and whenever, the database never claims a
\* payment that was not broadcast.
THEOREM PaidWasSentCorrect == Spec => []PaidWasSent
<1>1. Init => Covered
    BY LimitAssumption DEF Init, Covered, NoInfo
<1>2. Covered => PaidWasSent
    BY DEF Covered, PaidWasSent
<1>3. QED
    BY <1>1, <1>2, InitType, NextType, NextCovered, PTL DEF Spec

-----------------------------------------------------------------------------
(* Nothing credited is lost.                                               *)

LEMMA NextConserved == TypeInv /\ Conserved /\ [Next]_vars => Conserved'
<1> SUFFICES ASSUME TypeInv, Conserved, [Next]_vars, NEW a \in Addr \ Banned
             PROVE  earned'[a] = info'[a].Balance + info'[a].Paid
    BY DEF Conserved
<1>1. /\ TypeOK
      /\ info[a].Paid \in Nat /\ info[a].Balance \in Nat /\ earned[a] \in Nat
    BY DEF TypeInv, TypeOK, AddrInfo
<1>2. earned[a] = info[a].Balance + info[a].Paid
    BY DEF Conserved
<1>3. ASSUME NEW share \in Shares, Credit(share)
      PROVE  earned'[a] = info'[a].Balance + info'[a].Paid
  <2>1. /\ info'[a] \in AddrInfo /\ earned'[a] \in Nat
        /\ info'[a].Paid = info[a].Paid
        /\ earned'[a] - earned[a] = info'[a].Balance - info[a].Balance
    BY <1>1, <1>3, CreditEffect
  <2>2. info'[a].Balance \in Nat
    BY <2>1 DEF AddrInfo
  <2>3. QED
    BY <1>1, <1>2, <2>1, <2>2
<1>4. ASSUME NEW pending \in Pendings, SetPending(pending)
      PROVE  earned'[a] = info'[a].Balance + info'[a].Paid
    BY <1>1, <1>2, <1>4, PendingEffect DEF SetPending
<1>5. CASE CommitWithdraw
  <2>1. earned' = earned
    BY <1>5 DEF CommitWithdraw
  <2>2. /\ a \in batch => /\ info'[a].Paid = info[a].Paid + info[a].Balance
                          /\ info'[a].Balance = 0
        /\ a \notin batch => info'[a] = info[a]
    BY <1>1, <1>5, CommitEffect
  <2>3. QED
    BY <1>1, <1>2, <2>1, <2>2
<1>6. ASSUME UNCHANGED <<info, earned>>
      PROVE  earned'[a] = info'[a].Balance + info'[a].Paid
    BY <1>2, <1>6
<1>7. QED
    BY <1>3, <1>4, <1>5, <1>6
    DEF Next, Withdraw, StartLoop, NothingDue, OpenWithdraw, Broadcast, TransferFails,
        ReplyLost, Crash, vars

\* Across rollbacks, lost replies and restarts, every unit credited to an
\* address that is not banned is in its Balance or in its Paid.
THEOREM ConservedCorrect == Spec => []Conserved
<1>1. Init => Conserved
    BY AddressAssumption DEF Init, Conserved, NoInfo
<1>2. QED
    BY <1>1, InitType, NextType, NextConserved, PTL DEF Spec

-----------------------------------------------------------------------------
(* With a wallet whose answers arrive and a master that is not killed,     *)
(* Paid is exactly what was sent.                                          *)

Exact ==
    \A a \in Addr :
        sent[a] = IF tx = "sent" /\ a \in batch THEN info[a].Paid + info[a].Balance
                                              ELSE info[a].Paid

LEMMA NextExact ==
    ASSUME ~ReplyMayBeLost, ~MayCrash
    PROVE  TypeInv /\ Exact /\ [Next]_vars => Exact'
<1> SUFFICES ASSUME TypeInv, Exact, [Next]_vars, NEW a \in Addr
             PROVE  sent'[a] = IF tx' = "sent" /\ a \in batch'
                               THEN info'[a].Paid + info'[a].Balance ELSE info'[a].Paid
    BY DEF Exact
<1>1. /\ TypeOK
      /\ info[a].Paid \in Nat /\ info[a].Balance \in Nat /\ sent[a] \in Nat
    BY DEF TypeInv, TypeOK, AddrInfo
<1>2. sent[a] = IF tx = "sent" /\ a \in batch THEN info[a].Paid + info[a].Balance
                                             ELSE info[a].Paid
    BY DEF Exact
<1>3. ASSUME NEW share \in Shares, Credit(share)
      PROVE  sent'[a] = info'[a].Paid /\ tx' # "sent"
    BY <1>1, <1>2, <1>3, CreditEffect DEF Credit, payVars
<1>4. ASSUME NEW pending \in Pendings, SetPending(pending)
      PROVE  sent'[a] = info'[a].Paid /\ tx' # "sent"
    BY <1>1, <1>2, <1>4, PendingEffect DEF SetPending, payVars
<1>5. CASE StartLoop \/ UNCHANGED vars
    BY <1>2, <1>5 DEF StartLoop, vars
<1>6. CASE OpenWithdraw \/ NothingDue \/ TransferFails
    BY <1>2, <1>6 DEF OpenWithdraw, NothingDue, TransferFails, EndWithdraw
<1>7. CASE Broadcast
  <2>1. info' = info /\ batch' = batch /\ tx = "open" /\ tx' = "sent"
    BY <1>7 DEF Broadcast
  <2>2. sent'[a] = IF a \in batch THEN sent[a] + info[a].Balance ELSE sent[a]
    BY <1>7 DEF Broadcast
  <2>3. QED
    BY <1>1, <1>2, <2>1, <2>2
<1>8. ~ReplyLost /\ ~Crash
    BY DEF ReplyLost, Crash
<1>9. CASE CommitWithdraw
  <2>1. tx = "sent" /\ tx' = "idle" /\ sent' = sent
    BY <1>9 DEF CommitWithdraw, EndWithdraw
  <2>2. /\ a \in batch => info'[a].Paid = info[a].Paid + info[a].Balance
        /\ a \notin batch => info'[a] = info[a]
    BY <1>1, <1>9, CommitEffect
  <2>3. QED
    BY <1>2, <2>1, <2>2
<1>10. QED
    BY <1>3, <1>4, <1>5, <1>6, <1>7, <1>8, <1>9 DEF Next, Withdraw

\* When no reply is lost and the master is not killed, no payment is made twice:
\* outside a Withdraw, Paid is exactly what was broadcast for the address.
THEOREM PaidIsPaidOutCorrect ==
    ASSUME ~ReplyMayBeLost, ~MayCrash
    PROVE  Spec => []PaidIsPaidOut
<1>1. Init => Exact
    BY DEF Init, Exact, NoInfo
<1>2. TypeInv /\ Exact /\ [Next]_vars => Exact'
    BY NextExact
<1>3. Exact => PaidIsPaidOut
    BY DEF Exact, PaidIsPaidOut
<1>4. QED
    BY <1>1, <1>2, <1>3, InitType, NextType, PTL DEF Spec

-----------------------------------------------------------------------------
(* Withdraw implements AccountBook.                                        *)

\* The batch of an open Withdraw is what the accounts still call for.
BatchInv == tx # "idle" => batch = Destinations /\ batch # {}

LEMMA NextBatch == TypeInv /\ BatchInv /\ [Next]_vars => BatchInv'
<1> SUFFICES ASSUME TypeInv, BatchInv, [Next]_vars PROVE BatchInv'
    OBVIOUS
<1>1. ASSUME UNCHANGED <<info, known>> PROVE Destinations' = Destinations
    BY <1>1 DEF Destinations, Eligible, TakenBefore, Due
<1>2. ASSUME NEW share \in Shares, Credit(share) PROVE BatchInv'
    BY <1>2 DEF Credit, payVars, BatchInv
<1>3. ASSUME NEW pending \in Pendings, SetPending(pending) PROVE BatchInv'
    BY <1>3 DEF SetPending, payVars, BatchInv
<1>4. CASE StartLoop \/ UNCHANGED vars
    BY <1>1, <1>4 DEF StartLoop, vars, BatchInv
<1>5. CASE NothingDue \/ TransferFails \/ ReplyLost \/ CommitWithdraw \/ Crash
    BY <1>5 DEF NothingDue, TransferFails, ReplyLost, CommitWithdraw, Crash,
                EndWithdraw, BatchInv
<1>6. CASE OpenWithdraw
    BY <1>1, <1>6 DEF OpenWithdraw, BatchInv
<1>7. CASE Broadcast
    BY <1>1, <1>7 DEF Broadcast, BatchInv
<1>8. QED
    BY <1>2, <1>3, <1>4, <1>5, <1>6, <1>7 DEF Next, Withdraw

\* The addresses before a that are taken are counted without ties, so no more
\* than MaxDestinations addresses see fewer than that before them.
LEMMA DestinationsBounded == Cardinality(Destinations) <= MaxDestinations
<1> DEFINE D == Destinations
           Place == [a \in D |-> Cardinality(TakenBefore(a))]
           Places == 0 .. MaxDestinations - 1
<1>1. \A a \in Addr : IsFiniteSet(TakenBefore(a)) /\ Cardinality(TakenBefore(a)) \in Nat
  <2>1. \A a \in Addr : TakenBefore(a) \in SUBSET Addr
    BY DEF TakenBefore
  <2>2. \A a \in Addr : IsFiniteSet(TakenBefore(a))
    BY <2>1, FiniteAssumption, FS_Subset
  <2>3. QED
    BY <2>2, FS_CardinalityType
<1>2. ASSUME NEW a \in D, NEW b \in D, KeyRank[a] < KeyRank[b]
      PROVE  Place[a] # Place[b]
  <2>1. a \in Addr /\ b \in Addr /\ Eligible(a)
    BY DEF Destinations
  <2>2. \A c \in Addr : KeyRank[c] \in Nat
    BY AddressAssumption
  <2>3. TakenBefore(a) \in SUBSET TakenBefore(b)
    BY <1>2, <2>1, <2>2 DEF TakenBefore
  <2>4. a \in TakenBefore(b) /\ a \notin TakenBefore(a)
    BY <1>2, <2>1, <2>2 DEF TakenBefore
  <2>5. Cardinality(TakenBefore(b)) # Cardinality(TakenBefore(a))
    BY <1>1, <2>1, <2>3, <2>4, FS_Subset
  <2>6. QED
    BY <2>5
<1>3. ASSUME NEW a \in D, NEW b \in D, a # b PROVE Place[a] # Place[b]
  <2>1. KeyRank[a] \in Nat /\ KeyRank[b] \in Nat /\ KeyRank[a] # KeyRank[b]
    BY <1>3, AddressAssumption DEF Destinations
  <2>2. KeyRank[a] < KeyRank[b] \/ KeyRank[b] < KeyRank[a]
    BY <2>1
  <2>3. QED
    BY <1>2, <2>2
<1>4. Place \in [D -> Places]
  <2>1. ASSUME NEW a \in D PROVE Cardinality(TakenBefore(a)) \in Places
    <3>1. a \in Addr /\ Cardinality(TakenBefore(a)) < MaxDestinations
      BY DEF Destinations
    <3>2. Cardinality(TakenBefore(a)) \in Nat /\ MaxDestinations \in Nat
      BY <1>1, <3>1, LimitAssumption
    <3>3. QED
      BY <3>1, <3>2
  <2>2. QED
    BY <2>1
<1>5. IsFiniteSet(Places) /\ Cardinality(Places) = MaxDestinations
  <2>1. MaxDestinations \in Nat \ {0}
    BY LimitAssumption
  <2>2. 0 \in Int /\ MaxDestinations - 1 \in Int /\ ~(0 > MaxDestinations - 1)
    BY <2>1
  <2>3. Cardinality(Places) = (MaxDestinations - 1) - 0 + 1
    BY <2>2, FS_Interval
  <2>4. QED
    BY <2>1, <2>2, <2>3, FS_Interval
<1>6. Place \in Injection(D, Places)
    BY <1>3, <1>4 DEF Injection, IsInjective
<1>7. QED
  <2> HIDE DEF Place, Places, D
  <2>1. Cardinality(D) <= MaxDestinations
    BY <1>5, <1>6, FS_Injection
  <2>2. QED
    BY <2>1 DEF D

\* What the batch of a Withdraw is made of.
LEMMA DestinationsSound ==
    /\ \A a \in Destinations : a \in Addr /\ info[a].Balance > MinWithdrawal
    /\ \A a, b \in Destinations : Destination(a) = Destination(b) => a = b
<1>1. \A a \in Destinations : a \in Addr /\ Eligible(a) /\ info[a].Balance > MinWithdrawal
    BY DEF Destinations, Eligible, Due
<1>2. ASSUME NEW a \in Destinations, NEW b \in Destinations, KeyRank[a] < KeyRank[b]
      PROVE  Destination(a) # Destination(b)
    BY <1>1, <1>2 DEF Eligible
<1>3. ASSUME NEW a \in Destinations, NEW b \in Destinations, a # b
      PROVE  Destination(a) # Destination(b)
  <2>1. KeyRank[a] \in Nat /\ KeyRank[b] \in Nat /\ KeyRank[a] # KeyRank[b]
    BY <1>1, <1>3, AddressAssumption
  <2>2. KeyRank[a] < KeyRank[b] \/ KeyRank[b] < KeyRank[a]
    BY <2>1
  <2>3. QED
    BY <1>2, <2>2
<1>4. QED
    BY <1>1, <1>3

\* A credit is an Earn of the book for every account.
LEMMA CreditEarns ==
    ASSUME TypeOK, NEW share \in Shares, Credit(share), NEW a \in Addr
    PROVE  info'[a].Balance >= info[a].Balance \/ (a \in Banned /\ info'[a].Balance = 0)
<1>1. info[a] \in AddrInfo /\ info[a].Balance \in Nat
    BY DEF TypeOK, AddrInfo
<1>2. CASE a \notin DOMAIN share
    BY <1>1, <1>2 DEF Credit
<1>3. CASE a \in DOMAIN share /\ a \in Banned
    BY <1>3 DEF Credit
<1>4. CASE a \in DOMAIN share /\ a \notin Banned
  <2>1. PICK K \in SUBSET Addr : share \in [K -> Amounts]
    BY DEF Shares
  <2>2. share[a] \in Nat
    BY <1>4, <2>1, LimitAssumption
  <2>3. info'[a] = [info[a] EXCEPT !.Balance = @ + share[a]]
    BY <1>4 DEF Credit
  <2>4. info'[a].Balance = info[a].Balance + share[a]
    BY <1>1, <2>3 DEF AddrInfo
  <2>5. QED
    BY <1>1, <2>2, <2>4
<1>5. QED
    BY <1>2, <1>3, <1>4

\* The accounts of the book, as Book sees them.
Owed == [a \in Addr |-> info[a].Balance - InFlight[a]]
PaidOut == [a \in Addr |-> info[a].Paid + InFlight[a]]

\* A step that leaves the balances and what is in flight alone.
LEMMA BookStutters ==
    ASSUME \A a \in Addr : /\ info'[a].Balance = info[a].Balance
                           /\ info'[a].Paid = info[a].Paid,
           tx # "sent", tx' # "sent", sent' = sent
    PROVE  UNCHANGED Book!vars
<1>1. InFlight' = InFlight
    BY DEF InFlight
<1>2. Owed' = Owed /\ PaidOut' = PaidOut
    BY <1>1 DEF Owed, PaidOut
<1>3. QED
    BY <1>1, <1>2 DEF Book!vars, Owed, PaidOut

LEMMA BookInit == Init => Book!Init
<1> SUFFICES ASSUME Init PROVE Book!Init
    OBVIOUS
<1>1. TypeOK
    BY InitType DEF TypeInv
<1>2. InFlight = Book!Nothing
    BY DEF Init, InFlight, Book!Nothing
<1>3. \A a \in Addr : InFlight[a] = 0 /\ info[a].Paid = 0 /\ info[a].Balance \in Nat
    BY <1>1 DEF Init, InFlight, NoInfo, TypeOK, AddrInfo
<1>4. Owed \in [Addr -> Nat] /\ PaidOut = Book!Nothing
    BY <1>3 DEF Owed, PaidOut, Book!Nothing
<1>5. sent = Book!Nothing
    BY DEF Init, Book!Nothing
<1>6. QED
    BY <1>2, <1>4, <1>5 DEF Book!Init, Owed, PaidOut

LEMMA BookNext ==
    TypeInv /\ BatchInv /\ [Next]_vars => [Book!Next]_(Book!vars)
<1> SUFFICES ASSUME TypeInv, BatchInv, [Next]_vars
             PROVE  Book!Next \/ UNCHANGED Book!vars
    OBVIOUS
<1>0. /\ TypeOK
      /\ \A a \in Addr : /\ info[a].Paid \in Nat /\ info[a].Balance \in Nat
                          /\ sent[a] \in Nat
    BY DEF TypeInv, TypeOK, AddrInfo
<1>1. tx # "sent" => InFlight = Book!Nothing
    BY DEF InFlight, Book!Nothing
<1>2. tx' # "sent" => InFlight' = Book!Nothing
    BY DEF InFlight, Book!Nothing
<1>3. ASSUME NEW share \in Shares, Credit(share) PROVE Book!Next
  <2>1. tx = "idle" /\ tx' = "idle" /\ sent' = sent
    BY <1>3 DEF Credit, payVars
  <2>2. \A a \in Addr : /\ info'[a].Paid = info[a].Paid
                        /\ \/ info'[a].Balance >= info[a].Balance
                           \/ a \in Banned /\ info'[a].Balance = 0
    BY <1>0, <1>3, CreditEffect, CreditEarns
  <2>3. \A a \in Addr : InFlight[a] = 0 /\ InFlight'[a] = 0 /\ info'[a].Balance \in Nat
    BY <1>0, <1>3, <2>1, CreditEffect DEF InFlight, AddrInfo
  <2>4. \A a \in Addr : Owed'[a] >= Owed[a] \/ (a \in Banned /\ Owed'[a] = 0)
    BY <1>0, <2>2, <2>3 DEF Owed
  <2>5. PaidOut' = PaidOut
    BY <2>2, <2>3 DEF PaidOut
  <2>6. Book!Earn
    BY <1>1, <1>2, <2>1, <2>4, <2>5 DEF Book!Earn, Owed, PaidOut
  <2>7. QED
    BY <2>6 DEF Book!Next
<1>4. ASSUME NEW pending \in Pendings, SetPending(pending) PROVE UNCHANGED Book!vars
  <2>1. tx = "idle" /\ tx' = "idle" /\ sent' = sent
    BY <1>4 DEF SetPending, payVars
  <2>2. QED
    BY <1>0, <1>4, <2>1, PendingEffect, BookStutters
<1>5. CASE UNCHANGED vars
    BY <1>5 DEF vars, Book!vars, InFlight
<1>6. CASE StartLoop
    BY <1>6 DEF StartLoop, Book!vars, InFlight
<1>7. CASE NothingDue \/ OpenWithdraw \/ TransferFails \/ (Crash /\ tx # "sent")
  <2>1. info' = info /\ sent' = sent /\ tx # "sent" /\ tx' # "sent"
    BY <1>7 DEF NothingDue, OpenWithdraw, TransferFails, Crash, EndWithdraw
  <2>2. QED
    BY <2>1, BookStutters
<1>8. CASE Broadcast
  <2>1. /\ tx = "open" /\ tx' = "sent" /\ info' = info /\ batch' = batch
        /\ sent' = [a \in Addr |-> IF a \in batch THEN sent[a] + info[a].Balance
                                                   ELSE sent[a]]
    BY <1>8 DEF Broadcast
  <2>2. batch = Destinations /\ batch # {} /\ batch \in SUBSET Addr
    BY <1>0, <2>1 DEF BatchInv, TypeOK
  <2>3. \A a \in Addr : /\ InFlight[a] = 0
                        /\ InFlight'[a] = IF a \in batch THEN info[a].Balance ELSE 0
                        /\ Owed[a] = info[a].Balance /\ PaidOut[a] = info[a].Paid
                        /\ Owed'[a] = info[a].Balance - InFlight'[a]
                        /\ PaidOut'[a] = info[a].Paid + InFlight'[a]
    BY <1>0, <2>1 DEF InFlight, Owed, PaidOut
  <2>4. Cardinality(batch) <= MaxDestinations
    BY <2>2, DestinationsBounded
  <2>5. \A a \in batch : Owed[a] > MinWithdrawal
    BY <2>2, <2>3, DestinationsSound
  <2>6. \A a, b \in batch : Destination(a) = Destination(b) => a = b
    BY <2>2, DestinationsSound
  <2>7. InFlight' = [a \in Addr |-> IF a \in batch THEN Owed[a] ELSE 0]
    BY <2>3 DEF InFlight
  <2>8. Owed' = [a \in Addr |-> IF a \in batch THEN 0 ELSE Owed[a]]
    BY <1>0, <2>3 DEF Owed
  <2>9. PaidOut' = [a \in Addr |-> PaidOut[a] + InFlight'[a]]
    BY <2>3 DEF PaidOut
  <2>10. sent' = [a \in Addr |-> sent[a] + InFlight'[a]]
    BY <1>0, <2>1, <2>3
  <2>11. PICK S \in SUBSET Addr : S = batch
    BY <2>2
  <2>12. S \in Batches
    BY <2>2, <2>4, <2>11 DEF Batches
  <2>13. \A a, b \in S :
          [c \in Addr |-> Destination(c)][a] = [c \in Addr |-> Destination(c)][b] => a = b
    <3>1. \A a \in Addr : [c \in Addr |-> Destination(c)][a] = Destination(a)
      OBVIOUS
    <3>2. QED
      BY <2>6, <2>11, <3>1
  <2>14. Book!Pay(S)
    BY <1>1, <2>1, <2>5, <2>7, <2>8, <2>9, <2>10, <2>11, <2>13
    DEF Book!Pay, Owed, PaidOut
  <2>15. QED
    BY <2>12, <2>14 DEF Book!Next
<1>9. ASSUME tx = "sent" PROVE InFlight # Book!Nothing
  <2>1. PICK a \in Addr : a \in batch /\ info[a].Balance > MinWithdrawal
    BY <1>9, DestinationsSound DEF BatchInv
  <2>2. InFlight[a] # 0
    BY <1>0, <1>9, <2>1, LimitAssumption DEF InFlight
  <2>3. QED
    BY <2>2 DEF Book!Nothing
<1>10. CASE CommitWithdraw
  <2>1. tx = "sent" /\ tx' = "idle" /\ sent' = sent
    BY <1>10 DEF CommitWithdraw, EndWithdraw
  <2>2. \A a \in Addr :
          /\ a \in batch => /\ info'[a].Paid = info[a].Paid + info[a].Balance
                            /\ info'[a].Balance = 0
          /\ a \notin batch => info'[a] = info[a]
    BY <1>0, <1>10, CommitEffect
  <2>3. \A a \in Addr : /\ InFlight[a] = IF a \in batch THEN info[a].Balance ELSE 0
                        /\ InFlight'[a] = 0
    BY <2>1 DEF InFlight
  <2>4. \A a \in Addr : /\ info'[a].Balance - InFlight'[a] = info[a].Balance - InFlight[a]
                        /\ info'[a].Paid + InFlight'[a] = info[a].Paid + InFlight[a]
    BY <1>0, <2>2, <2>3
  <2>5. Owed' = Owed /\ PaidOut' = PaidOut
    BY <2>4 DEF Owed, PaidOut
  <2>6. Book!Settle
    BY <1>2, <1>9, <2>1, <2>5 DEF Book!Settle, Owed, PaidOut
  <2>7. QED
    BY <2>6 DEF Book!Next
<1>11. CASE ReplyLost \/ (Crash /\ tx = "sent")
  <2>1. tx = "sent" /\ tx' = "idle" /\ info' = info /\ sent' = sent
    BY <1>11 DEF ReplyLost, Crash, EndWithdraw
  <2>2. \A a \in Addr : /\ InFlight[a] \in Nat /\ InFlight'[a] = 0
                        /\ Owed[a] = info[a].Balance - InFlight[a]
                        /\ PaidOut[a] = info[a].Paid + InFlight[a]
                        /\ Owed'[a] = info[a].Balance - InFlight'[a]
                        /\ PaidOut'[a] = info[a].Paid + InFlight'[a]
    BY <1>0, <2>1 DEF InFlight, Owed, PaidOut
  <2>3. /\ Owed' = [a \in Addr |-> Owed[a] + InFlight[a]]
        /\ PaidOut' = [a \in Addr |-> PaidOut[a] - InFlight[a]]
    <3>1. \A a \in Addr : /\ Owed'[a] = Owed[a] + InFlight[a]
                          /\ PaidOut'[a] = PaidOut[a] - InFlight[a]
      BY <1>0, <2>2
    <3>2. Owed' = [a \in Addr |-> Owed'[a]] /\ PaidOut' = [a \in Addr |-> PaidOut'[a]]
      BY DEF Owed, PaidOut
    <3>3. QED
      BY <3>1, <3>2
  <2>4. Book!Forget
    BY <1>2, <1>9, <2>1, <2>3 DEF Book!Forget, Owed, PaidOut
  <2>5. QED
    BY <2>4 DEF Book!Next
<1>12. QED
    BY <1>3, <1>4, <1>5, <1>6, <1>7, <1>8, <1>10, <1>11 DEF Next, Withdraw

\* Withdraw with its loop, its open transaction, lost replies and kills keeps
\* the book: every payment takes whole balances of due accounts with different
\* destinations, at most MaxDestinations of them, and stands or goes as a whole.
THEOREM ImplementsAccountsCorrect == Spec => ImplementsAccounts
<1>1. Init => BatchInv
    BY DEF Init, BatchInv
<1>2. QED
    BY <1>1, InitType, NextType, NextBatch, BookInit, BookNext, PTL
    DEF Spec, ImplementsAccounts, Book!Spec

-----------------------------------------------------------------------------
(* What is still due after Withdraw has answered that nothing is unpaid.   *)

\* A due account is passed over only for another one with its destination,
\* and only the fee address is the destination of two accounts.
LEMMA SkippedGoToFee ==
    ASSUME NEW a \in Addr, Due(a), ~Eligible(a)
    PROVE  Destination(a) = FeeAddress
<1>1. PICK b \in Addr : KeyRank[b] < KeyRank[a] /\ Destination(b) = Destination(a)
    BY DEF Eligible
<1>2. b # a
    BY <1>1, AddressAssumption
<1>3. QED
    BY <1>1, <1>2 DEF Destination

\* A set of accounts that is not empty has a first one in key order.
LEMMA FirstKey ==
    ASSUME NEW S \in SUBSET Addr, S # {}
    PROVE  \E a \in S : \A b \in S : KeyRank[a] <= KeyRank[b]
<1> DEFINE Good == {T \in SUBSET S : T # {} => \E a \in T : \A b \in T : KeyRank[a] <= KeyRank[b]}
<1>1. IsFiniteSet(S)
    BY FiniteAssumption, FS_Subset
<1>2. \A a \in Addr : KeyRank[a] \in Nat
    BY AddressAssumption
<1>3. ASSUME NEW T \in SUBSET S, \A U \in SUBSET T : U # T => U \in Good
      PROVE  T \in Good
  <2> SUFFICES ASSUME T # {} PROVE \E a \in T : \A b \in T : KeyRank[a] <= KeyRank[b]
    OBVIOUS
  <2>1. PICK x \in T : TRUE
    OBVIOUS
  <2> DEFINE U == T \ {x}
  <2>2. U \in Good
    BY <1>3
  <2>3. CASE U = {}
    BY <1>2, <2>3
  <2>4. CASE U # {}
    <3>1. PICK a \in U : \A b \in U : KeyRank[a] <= KeyRank[b]
      BY <2>2, <2>4
    <3>2. CASE KeyRank[x] <= KeyRank[a]
      BY <1>2, <3>1, <3>2
    <3>3. CASE ~(KeyRank[x] <= KeyRank[a])
      BY <1>2, <3>1, <3>3
    <3>4. QED
      BY <3>2, <3>3
  <2>5. QED
    BY <2>3, <2>4
<1> HIDE DEF Good
<1>4. S \in Good
    BY <1>1, <1>3, FiniteInduction
<1>5. QED
    BY <1>4 DEF Good

\* When there is no destination, no account is eligible.
LEMMA NoneEligible == Destinations = {} => \A a \in Addr : ~Eligible(a)
<1> SUFFICES ASSUME Destinations = {}, NEW a \in Addr, Eligible(a) PROVE FALSE
    OBVIOUS
<1> DEFINE S == {b \in Addr : Eligible(b)}
<1>1. PICK first \in S : \A b \in S : KeyRank[first] <= KeyRank[b]
  <2>1. S \in SUBSET Addr /\ S # {}
    OBVIOUS
  <2> HIDE DEF S
  <2>2. QED
    BY <2>1, FirstKey
<1>2. TakenBefore(first) = {}
    BY <1>1, AddressAssumption DEF TakenBefore
<1>3. Cardinality(TakenBefore(first)) < MaxDestinations
    BY <1>2, FS_EmptySet, LimitAssumption
<1>4. first \in Destinations
    BY <1>1, <1>3 DEF Destinations
<1>5. QED
    BY <1>4

\* Until Withdraw ends, its result is what the accounts it has read say.
UnpaidInv == tx # "idle" => unpaid = KeysLeft

LEMMA NextUnpaid ==
    TypeInv /\ BatchInv /\ UnpaidInv /\ FalseMeansPaidOut /\ [Next]_vars
        => UnpaidInv' /\ FalseMeansPaidOut'
<1> SUFFICES ASSUME TypeInv, BatchInv, UnpaidInv, FalseMeansPaidOut, [Next]_vars
             PROVE  UnpaidInv' /\ FalseMeansPaidOut'
    OBVIOUS
<1>1. ASSUME UNCHANGED <<info, known>>
      PROVE  KeysLeft' = KeysLeft /\ \A a \in Addr : Due(a)' <=> Due(a)
    BY <1>1 DEF KeysLeft, TakenBefore, Eligible, Due
<1>2. ASSUME NEW share \in Shares, Credit(share) PROVE UnpaidInv' /\ FalseMeansPaidOut'
    BY <1>2 DEF Credit, payVars, UnpaidInv, FalseMeansPaidOut
<1>3. ASSUME NEW pending \in Pendings, SetPending(pending) PROVE UnpaidInv' /\ FalseMeansPaidOut'
  <2>1. \A a \in Addr : Due(a)' <=> Due(a)
    BY <1>3, PendingEffect DEF TypeInv, SetPending, Due
  <2>2. QED
    BY <1>3, <2>1 DEF SetPending, payVars, UnpaidInv, FalseMeansPaidOut, Destination
<1>4. ASSUME UNCHANGED <<info, known>>, tx' # "idle" => tx # "idle" /\ unpaid' = unpaid,
             answer' \in {answer, "none"}
      PROVE  UnpaidInv' /\ FalseMeansPaidOut'
    BY <1>1, <1>4 DEF UnpaidInv, FalseMeansPaidOut, Destination
<1>5. CASE StartLoop
    BY <1>4, <1>5 DEF StartLoop
<1>6. CASE NothingDue
  <2>1. \A a \in Addr : Due(a)' => Destination(a) = FeeAddress
    BY <1>1, <1>6, NoneEligible, SkippedGoToFee DEF NothingDue
  <2>2. QED
    BY <1>6, <2>1 DEF NothingDue, EndWithdraw, UnpaidInv, FalseMeansPaidOut, Destination
<1>7. CASE OpenWithdraw
    BY <1>1, <1>7 DEF OpenWithdraw, UnpaidInv, FalseMeansPaidOut, Destination
<1>8. CASE Broadcast \/ TransferFails \/ ReplyLost \/ Crash \/ UNCHANGED vars
    BY <1>4, <1>8 DEF Broadcast, TransferFails, ReplyLost, Crash, EndWithdraw, vars
<1>9. CASE CommitWithdraw
  <2>1. ASSUME ~unpaid, NEW a \in Addr, Due(a)' PROVE Destination(a) = FeeAddress
    <3>1. a \notin batch /\ Due(a)
      <4>1. a \in batch => info'[a].Balance = 0
        BY <1>9, CommitEffect DEF TypeInv
      <4>2. a \notin batch => info'[a] = info[a]
        BY <1>9, CommitEffect DEF TypeInv
      <4>3. QED
        BY <1>9, <2>1, <4>1, <4>2, LimitAssumption DEF Due, CommitWithdraw
    <3>2. Cardinality(TakenBefore(a)) < MaxDestinations
      <4>1. ~KeysLeft /\ a \in known
        BY <1>9, <2>1, <3>1 DEF UnpaidInv, CommitWithdraw, Due
      <4>2. ~(Cardinality(TakenBefore(a)) >= MaxDestinations)
        BY <4>1 DEF KeysLeft
      <4>3. Cardinality(TakenBefore(a)) \in Nat
        <5>1. TakenBefore(a) \in SUBSET Addr
          BY DEF TakenBefore
        <5>2. QED
          BY <5>1, FiniteAssumption, FS_Subset, FS_CardinalityType
      <4>4. QED
        BY <4>2, <4>3, LimitAssumption
    <3>3. ~Eligible(a)
      BY <1>9, <3>1, <3>2 DEF BatchInv, CommitWithdraw, Destinations
    <3>4. QED
      BY <3>1, <3>3, SkippedGoToFee
  <2>2. answer' = "paid" => ~unpaid
    BY <1>9 DEF CommitWithdraw
  <2>3. QED
    BY <1>9, <2>1, <2>2 DEF CommitWithdraw, EndWithdraw, UnpaidInv, FalseMeansPaidOut, Destination
<1>10. QED
    BY <1>2, <1>3, <1>5, <1>6, <1>7, <1>8, <1>9 DEF Next, Withdraw

\* After a Withdraw that answered without error that no wallet is unpaid, only
\* accounts that are paid to the fee address can be due: with any number of
\* accounts, destinations per transaction and key order, and whatever is
\* refused, lost or killed before and after.
THEOREM FalseMeansPaidOutCorrect == Spec => []FalseMeansPaidOut
<1>1. Init => BatchInv /\ UnpaidInv /\ FalseMeansPaidOut
    BY DEF Init, BatchInv, UnpaidInv, FalseMeansPaidOut
<1>2. QED
    BY <1>1, InitType, NextType, NextBatch, NextUnpaid, PTL DEF Spec
=============================================================================
