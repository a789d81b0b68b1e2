---------------------------- MODULE BlockTarget ----------------------------
(***************************************************************************)
(* The test of a share: GetTarget, GetTargetBytes and CheckDiff.  A hash   *)
(* is compared byte by byte with the target, padded to the length of a     *)
(* hash.  Bytes are below Base (256 in the code), a hash has HashLen of    *)
(* them (32).                                                              *)
(***************************************************************************)
EXTENDS Integers, Sequences

CONSTANTS
    Base,     \* 256 in the code
    HashLen,  \* 32 in the code
    MaxDiff   \* bound: difficulties that are tried

TargetConstants == Base \in Nat /\ Base >= 2 /\ HashLen \in Nat /\ MaxDiff \in Nat

VARIABLES
    hash,     \* the hash of a share
    diff,     \* the difficulty it is tested against
    accepted  \* what CheckDiff says; "untested" before

vars == <<hash, diff, accepted>>

\* The number that a string of HashLen bytes stands for.
Number(h) ==
    LET v[i \in 0 .. HashLen] == IF i = 0 THEN 0 ELSE v[i - 1] * Base + h[i] IN v[HashLen]

\* "ff...ff"
maxBigInt == Number([i \in 1 .. HashLen |-> Base - 1])

GetTarget(d) == IF d = 0 THEN 0 ELSE maxBigInt \div d

\* big.Int.Bytes: big-endian and without leading zeros.
BigEndian(n) ==
    LET b[k \in 0 .. n] == IF k = 0 THEN <<>> ELSE Append(b[k \div Base], k % Base)
    IN  b[n]

Zeros(n) == [i \in 1 .. n |-> 0]

\* Mutant of GetTargetBytes: copied to the front.
GetTargetBytesLeft(d) ==
    LET byt == BigEndian(GetTarget(d)) IN byt \o Zeros(HashLen - Len(byt))

GetTargetBytes(d) ==
    LET byt == BigEndian(GetTarget(d)) IN Zeros(HashLen - Len(byt)) \o byt

\* bytes.Compare(a, b) <= 0 for two strings of HashLen bytes.
NotAfter(a, b) ==
    \/ a = b
    \/ \E i \in 1 .. HashLen : a[i] < b[i] /\ \A j \in 1 .. i - 1 : a[j] = b[j]

CheckDiff(h, d) == NotAfter(h, GetTargetBytes(d))

Init ==
    /\ hash \in [1 .. HashLen -> 0 .. Base - 1] /\ diff \in 0 .. MaxDiff
    /\ accepted = "untested"

Test ==
    /\ accepted = "untested"
    /\ accepted' = IF CheckDiff(hash, diff) THEN "yes" ELSE "no"
    /\ UNCHANGED <<hash, diff>>

Next == Test
Spec == Init /\ [][Next]_vars

-----------------------------------------------------------------------------
(* Properties.                                                             *)

\* A share is accepted exactly when its hash times the difficulty is below
\* 2^256 (target.go:34-60): the division rounds and the padding shifts nothing
\* away, so a hash that makes a block also makes a share of every smaller
\* difficulty.  A difficulty of 0 only takes the hash 0.
CheckDiffIsExact ==
    accepted # "untested" =>
        (accepted = "yes" <=>
            IF diff = 0 THEN Number(hash) = 0 ELSE Number(hash) * diff <= maxBigInt)
=============================================================================
