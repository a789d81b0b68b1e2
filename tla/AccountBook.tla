---------------------------- MODULE AccountBook ----------------------------
(***************************************************************************)
(* What the pool promises about the accounts of its miners, without        *)
(* transactions, loops or restarts.  Every balance is either owed or was   *)
(* paid.  A payment takes whole balances in one step; then it stands or it *)
(* is taken back whole, and only the wallet remembers it.  Payouts         *)
(* implements this book.                                                   *)
(***************************************************************************)
EXTENDS Integers

CONSTANTS
    Addr,           \* the accounts
    Banned,         \* accounts that may lose what they are owed
    Target,         \* Target[a]: where the payments of a go
    MinWithdrawal,  \* balances up to this are not paid
    Batches         \* the sets of accounts that one payment may serve

VARIABLES
    owed,   \* owed[a]: what a may still be paid
    paid,   \* paid[a]: what the book says a was paid
    sent,   \* sent[a]: what the wallet really sent for a
    flight  \* flight[a]: a's part of the payment that is not settled yet

vars == <<owed, paid, sent, flight>>

Nothing == [a \in Addr |-> 0]

Init == owed \in [Addr -> Nat] /\ paid = Nothing /\ sent = Nothing /\ flight = Nothing

\* Mined rewards are credited; only a banned account can lose, and then all.
Earn ==
    /\ flight = Nothing
    /\ \A a \in Addr : owed'[a] >= owed[a] \/ (a \in Banned /\ owed'[a] = 0)
    /\ UNCHANGED <<paid, sent, flight>>

\* The accounts of S are paid everything they are owed.
Pay(S) ==
    /\ flight = Nothing
    /\ \A a \in S : owed[a] > MinWithdrawal
    /\ \A a, b \in S : Target[a] = Target[b] => a = b
    /\ flight' = [a \in Addr |-> IF a \in S THEN owed[a] ELSE 0]
    /\ owed' = [a \in Addr |-> IF a \in S THEN 0 ELSE owed[a]]
    /\ paid' = [a \in Addr |-> paid[a] + flight'[a]]
    /\ sent' = [a \in Addr |-> sent[a] + flight'[a]]

\* The payment stands.
Settle ==
    /\ flight # Nothing /\ flight' = Nothing
    /\ UNCHANGED <<owed, paid, sent>>

\* Its record is lost as a whole: all of its accounts are owed it again.
Forget ==
    /\ flight # Nothing /\ flight' = Nothing
    /\ owed' = [a \in Addr |-> owed[a] + flight[a]]
    /\ paid' = [a \in Addr |-> paid[a] - flight[a]]
    /\ UNCHANGED sent

Next == Earn \/ (\E S \in Batches : Pay(S)) \/ Settle \/ Forget

Spec == Init /\ [][Next]_vars
=============================================================================
