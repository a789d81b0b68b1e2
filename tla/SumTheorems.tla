---------------------------- MODULE SumTheorems ----------------------------
(***************************************************************************)
(* Sums over finite sets: what SumFunctionOnSet of the community modules   *)
(* computes.  The ledger's money, the work on its way to the master and    *)
(* the allowances of the rate limiter are such sums.                       *)
(*                                                                         *)
(* The library's induction theorems take an operator, which the provers    *)
(* cannot instantiate; FiniteInduction is an induction whose hypothesis is *)
(* a set, and everything below follows from it.                            *)
(***************************************************************************)
EXTENDS Functions, FiniteSets, FiniteSetTheorems, TLAPS

-----------------------------------------------------------------------------
(* The definition of a sum.                                                *)

\* The element that the fold takes out of s first.
Pick(s) == CHOOSE x \in s : TRUE

\* g is a table of the sums of f over the subsets of T.
IsSum(g, f, T) ==
    g = [s \in SUBSET T |-> IF s = {} THEN 0 ELSE f[Pick(s)] + g[s \ {Pick(s)}]]

\* A sum is an entry of a table of sums.
LEMMA SumDef ==
  ASSUME NEW f, NEW S
  PROVE SumFunctionOnSet(f, S) = (CHOOSE g : IsSum(g, f, S))[S]
BY DEF SumFunctionOnSet, FoldFunctionOnSet, MapThenFoldSet, IsSum, Pick

\* A set that contains a subset of S as soon as it contains all smaller ones
\* contains every subset of the finite set S.
LEMMA FiniteInduction ==
  ASSUME NEW S, IsFiniteSet(S), NEW Good,
         \A T \in SUBSET S : (\A U \in SUBSET T : U # T => U \in Good) => T \in Good
  PROVE  \A T \in SUBSET S : T \in Good
<1> DEFINE Bad == {T \in SUBSET S : T \notin Good}
<1> SUFFICES ASSUME Bad # {} PROVE FALSE
  OBVIOUS
<1>1. IsWellFoundedOn(StrictSubsetOrdering(S), FiniteSubsetsOf(S))
  BY FS_StrictSubsetOrderingWellFounded
<1>2. Bad \subseteq FiniteSubsetsOf(S)
  BY FS_FiniteSubsetsOfFinite
<1>3. PICK T \in Bad : \A U \in Bad : ~ (<<U, T>> \in StrictSubsetOrdering(S))
  <2> HIDE DEF Bad
  <2> QED BY <1>1, <1>2, WFMin
<1>4. \A U \in SUBSET T : U # T => U \in Good
  <2> SUFFICES ASSUME NEW U \in SUBSET T, U # T, U \notin Good PROVE FALSE
    OBVIOUS
  <2>1. U \in Bad
    OBVIOUS
  <2>2. <<U, T>> \in (SUBSET S) \X (SUBSET S)
    OBVIOUS
  <2>3. <<U, T>> \in StrictSubsetOrdering(S)
    BY <2>2 DEF StrictSubsetOrdering
  <2> QED BY <2>1, <2>3, <1>3
<1> QED BY <1>4

\* Two tables of sums agree wherever both are defined.
LEMMA SumsAgree ==
  ASSUME NEW f, NEW T, IsFiniteSet(T), NEW U, NEW g, IsSum(g, f, T), NEW h, IsSum(h, f, U)
  PROVE  \A s \in SUBSET (T \cap U) : g[s] = h[s]
<1> DEFINE Good == {s \in SUBSET (T \cap U) : g[s] = h[s]}
<1>1. ASSUME NEW s \in SUBSET (T \cap U), \A r \in SUBSET s : r # s => r \in Good
      PROVE  s \in Good
  <2>1. CASE s = {}
    BY <2>1 DEF IsSum
  <2>2. CASE s # {}
    <3>1. Pick(s) \in s
      BY <2>2 DEF Pick
    <3>2. s \ {Pick(s)} \in Good
      BY <1>1, <3>1
    <3>3. g[s] = f[Pick(s)] + g[s \ {Pick(s)}] /\ h[s] = f[Pick(s)] + h[s \ {Pick(s)}]
      BY <2>2 DEF IsSum
    <3>4. QED
      BY <3>2, <3>3
  <2>3. QED
    BY <2>1, <2>2
<1>2. IsFiniteSet(T \cap U)
  BY FS_Intersection
<1>3. \A s \in SUBSET (T \cap U) : s \in Good
  <2> HIDE DEF Good
  <2> QED BY <1>1, <1>2, FiniteInduction
<1>4. QED
  BY <1>3

\* Every finite set has a table of sums.
LEMMA SumsExist ==
  ASSUME NEW S, IsFiniteSet(S), NEW f
  PROVE  \A T \in SUBSET S : \E g : IsSum(g, f, T)
<1> DEFINE Good == {T \in SUBSET S : \E g : IsSum(g, f, T)}
<1>1. ASSUME NEW T \in SUBSET S, \A U \in SUBSET T : U # T => U \in Good
      PROVE  T \in Good
  <2> DEFINE G(U) == CHOOSE g : IsSum(g, f, U)
             Below(s) == G(s \ {Pick(s)})[s \ {Pick(s)}]
             g == [s \in SUBSET T |-> IF s = {} THEN 0 ELSE f[Pick(s)] + Below(s)]
  <2>1. \A U \in SUBSET T : U # T => IsSum(G(U), f, U)
    BY <1>1
  <2>2. ASSUME NEW s \in SUBSET T, s # {}, s # T PROVE g[s] = G(s)[s]
    <3>1. Pick(s) \in s /\ IsSum(G(s), f, s)
      BY <2>1, <2>2 DEF Pick
    <3>2. IsSum(G(s \ {Pick(s)}), f, s \ {Pick(s)})
      BY <2>1, <3>1
    <3>3. IsFiniteSet(s)
      BY FS_Subset
    <3>4. G(s)[s \ {Pick(s)}] = Below(s)
      <4> HIDE DEF G
      <4>1. s \ {Pick(s)} \in SUBSET (s \cap (s \ {Pick(s)}))
        OBVIOUS
      <4>2. QED
        BY <3>1, <3>2, <3>3, <4>1, SumsAgree
    <3>5. G(s)[s] = f[Pick(s)] + G(s)[s \ {Pick(s)}]
      <4> HIDE DEF G
      <4> QED BY <2>2, <3>1 DEF IsSum
    <3>6. QED
      <4> HIDE DEF G
      <4> QED BY <2>2, <3>4, <3>5
  <2>3. ASSUME NEW s \in SUBSET T
        PROVE  g[s] = IF s = {} THEN 0 ELSE f[Pick(s)] + g[s \ {Pick(s)}]
    <3>1. CASE s = {}
      BY <3>1
    <3>2. CASE s # {}
      <4> DEFINE r == s \ {Pick(s)}
      <4>1. Pick(s) \in s
        BY <3>2 DEF Pick
      <4>2. r \in SUBSET T /\ r # T
        BY <4>1
      <4>3. g[s] = f[Pick(s)] + G(r)[r]
        <5> HIDE DEF G
        <5> QED BY <3>2
      <4>4. g[r] = G(r)[r]
        <5>1. CASE r = {}
          <6>1. IsSum(G(r), f, r)
            BY <2>1, <4>2
          <6>2. G(r)[r] = 0
            <7> HIDE DEF G
            <7> QED BY <5>1, <6>1 DEF IsSum
          <6>3. QED
            <7> HIDE DEF G
            <7> QED BY <5>1, <6>2
        <5>2. CASE r # {}
          <6> HIDE DEF g
          <6> QED BY <2>2, <4>2, <5>2
        <5> QED BY <5>1, <5>2
      <4>5. QED
        <5> HIDE DEF g
        <5> QED BY <3>2, <4>3, <4>4
    <3>3. QED
      BY <3>1, <3>2
  <2>4. IsSum(g, f, T)
    <3>1. g = [s \in SUBSET T |-> g[s]]
      <4> HIDE DEF Below
      <4> QED OBVIOUS
    <3>2. QED
      <4> HIDE DEF g
      <4> QED BY <2>3, <3>1 DEF IsSum
  <2>5. QED
    <3> HIDE DEF g
    <3> QED BY <2>4
<1>2. QED
  <2> HIDE DEF Good
  <2>1. \A T \in SUBSET S : T \in Good
    BY <1>1, FiniteInduction
  <2> QED BY <2>1 DEF Good

\* The sum over nothing.
LEMMA SumEmpty ==
  ASSUME NEW f PROVE SumFunctionOnSet(f, {}) = 0
<1>1. \E g : IsSum(g, f, {})
  BY SumsExist, FS_EmptySet
<1>2. IsSum((CHOOSE g : IsSum(g, f, {})), f, {})
  BY <1>1
<1> QED BY <1>2, SumDef DEF IsSum

\* The sum over S, one step of the fold unrolled.
LEMMA SumPick ==
  ASSUME NEW S, IsFiniteSet(S), S # {}, NEW f
  PROVE  /\ Pick(S) \in S
         /\ SumFunctionOnSet(f, S) = f[Pick(S)] + SumFunctionOnSet(f, S \ {Pick(S)})
<1> DEFINE r == S \ {Pick(S)}
           g == CHOOSE g : IsSum(g, f, S)
           h == CHOOSE h : IsSum(h, f, r)
<1>1. Pick(S) \in S
  BY DEF Pick
<1>2. IsSum(g, f, S) /\ IsSum(h, f, r)
  <2>1. (\E x : IsSum(x, f, S)) /\ (\E x : IsSum(x, f, r))
    BY SumsExist
  <2> QED BY <2>1
<1>3. SumFunctionOnSet(f, S) = g[S] /\ SumFunctionOnSet(f, r) = h[r]
  BY SumDef
<1>4. g[r] = h[r]
  <2>1. r \in SUBSET (S \cap r)
    OBVIOUS
  <2> HIDE DEF g, h, r
  <2>2. \A s \in SUBSET (S \cap r) : g[s] = h[s]
    BY <1>2, SumsAgree
  <2> QED BY <2>1, <2>2
<1>5. g[S] = f[Pick(S)] + g[r]
  <2> HIDE DEF g, h
  <2> QED BY <1>2 DEF IsSum
<1> QED
  <2> HIDE DEF g, h
  <2> QED BY <1>1, <1>3, <1>4, <1>5

\* The sum of integers is an integer.
LEMMA SumInt ==
  ASSUME NEW S, IsFiniteSet(S), NEW f, \A x \in S : f[x] \in Int
  PROVE  SumFunctionOnSet(f, S) \in Int
<1> DEFINE Good == {T \in SUBSET S : SumFunctionOnSet(f, T) \in Int}
<1>1. ASSUME NEW T \in SUBSET S, \A U \in SUBSET T : U # T => U \in Good
      PROVE  T \in Good
  <2>1. CASE T = {}
    BY <2>1, SumEmpty
  <2>2. CASE T # {}
    <3>1. IsFiniteSet(T)
      BY FS_Subset
    <3>2. /\ Pick(T) \in T
          /\ SumFunctionOnSet(f, T) = f[Pick(T)] + SumFunctionOnSet(f, T \ {Pick(T)})
      BY <2>2, <3>1, SumPick
    <3>3. T \ {Pick(T)} \in Good
      BY <1>1, <3>2
    <3> QED BY <3>2, <3>3
  <2> QED BY <2>1, <2>2
<1>2. \A T \in SUBSET S : T \in Good
  <2> HIDE DEF Good
  <2> QED BY <1>1, FiniteInduction
<1> QED BY <1>2

\* A sum may be taken apart at any of its indices.
LEMMA SumRemove ==
  ASSUME NEW S, IsFiniteSet(S), NEW f, \A x \in S : f[x] \in Int, NEW x \in S
  PROVE  SumFunctionOnSet(f, S) = f[x] + SumFunctionOnSet(f, S \ {x})
<1> DEFINE Sum(T) == SumFunctionOnSet(f, T)
           Good == {T \in SUBSET S : \A y \in T : Sum(T) = f[y] + Sum(T \ {y})}
<1>0. \A T \in SUBSET S : Sum(T) \in Int /\ IsFiniteSet(T)
  BY SumInt, FS_Subset
<1>1. ASSUME NEW T \in SUBSET S, \A U \in SUBSET T : U # T => U \in Good
      PROVE  T \in Good
  <2> SUFFICES ASSUME NEW y \in T PROVE Sum(T) = f[y] + Sum(T \ {y})
    OBVIOUS
  <2> DEFINE p == Pick(T)
  <2>1. p \in T /\ Sum(T) = f[p] + Sum(T \ {p})
    BY <1>0, SumPick
  <2>2. CASE y = p
    BY <2>1, <2>2
  <2>3. CASE y # p
    <3> HIDE DEF Sum, p
    <3>1. T \ {p} \in Good /\ T \ {y} \in Good
      BY <1>1, <2>1
    <3>2. Sum(T \ {p}) = f[y] + Sum((T \ {p}) \ {y})
      BY <2>1, <2>3, <3>1
    <3>3. Sum(T \ {y}) = f[p] + Sum((T \ {y}) \ {p})
      BY <2>1, <2>3, <3>1
    <3>4. (T \ {p}) \ {y} = (T \ {y}) \ {p}
      OBVIOUS
    <3>5. f[y] \in Int /\ f[p] \in Int /\ Sum((T \ {p}) \ {y}) \in Int
      BY <1>0, <2>1
    <3> DEFINE A == T \ {p}  B == T \ {y}  R == A \ {y}
    <3>6. Sum(B) = f[p] + Sum(R) /\ Sum(A) = f[y] + Sum(R) /\ Sum(T) = f[p] + Sum(A)
      BY <2>1, <3>2, <3>3, <3>4
    <3>7. Sum(R) \in Int
      BY <3>5
    <3> HIDE DEF A, B, R
    <3>8. Sum(T) = f[y] + Sum(B)
      BY <3>5, <3>6, <3>7
    <3> QED BY <3>8 DEF B
  <2> QED BY <2>2, <2>3
<1>2. \A T \in SUBSET S : T \in Good
  <2> HIDE DEF Good
  <2> QED BY <1>1, FiniteInduction
<1> QED BY <1>2

\* Only the values at the indices matter.
LEMMA SumSame ==
  ASSUME NEW S, IsFiniteSet(S), NEW f, NEW g, \A x \in S : f[x] = g[x]
  PROVE  SumFunctionOnSet(f, S) = SumFunctionOnSet(g, S)
<1> DEFINE Good == {T \in SUBSET S : SumFunctionOnSet(f, T) = SumFunctionOnSet(g, T)}
<1>1. ASSUME NEW T \in SUBSET S, \A U \in SUBSET T : U # T => U \in Good
      PROVE  T \in Good
  <2>1. CASE T = {}
    BY <2>1, SumEmpty
  <2>2. CASE T # {}
    <3>1. IsFiniteSet(T)
      BY FS_Subset
    <3>2. /\ Pick(T) \in T
          /\ SumFunctionOnSet(f, T) = f[Pick(T)] + SumFunctionOnSet(f, T \ {Pick(T)})
          /\ SumFunctionOnSet(g, T) = g[Pick(T)] + SumFunctionOnSet(g, T \ {Pick(T)})
      BY <2>2, <3>1, SumPick
    <3>3. T \ {Pick(T)} \in Good
      BY <1>1, <3>2
    <3> QED BY <3>2, <3>3
  <2> QED BY <2>1, <2>2
<1>2. \A T \in SUBSET S : T \in Good
  <2> HIDE DEF Good
  <2> QED BY <1>1, FiniteInduction
<1> QED BY <1>2

\* Sums are added index by index.
LEMMA SumAdd ==
  ASSUME NEW S, IsFiniteSet(S), NEW f, NEW g, NEW h,
         \A x \in S : f[x] \in Int /\ g[x] \in Int /\ h[x] = f[x] + g[x]
  PROVE  SumFunctionOnSet(h, S) = SumFunctionOnSet(f, S) + SumFunctionOnSet(g, S)
<1> DEFINE Good == {T \in SUBSET S :
        SumFunctionOnSet(h, T) = SumFunctionOnSet(f, T) + SumFunctionOnSet(g, T)}
<1>1. ASSUME NEW T \in SUBSET S, \A U \in SUBSET T : U # T => U \in Good
      PROVE  T \in Good
  <2>1. CASE T = {}
    BY <2>1, SumEmpty
  <2>2. CASE T # {}
    <3> DEFINE p == Pick(T)  U == T \ {p}
    <3>1. IsFiniteSet(T)
      BY FS_Subset
    <3>2. /\ p \in T
          /\ SumFunctionOnSet(f, T) = f[p] + SumFunctionOnSet(f, U)
          /\ SumFunctionOnSet(g, T) = g[p] + SumFunctionOnSet(g, U)
          /\ SumFunctionOnSet(h, T) = h[p] + SumFunctionOnSet(h, U)
      BY <2>2, <3>1, SumPick
    <3>3. U \in Good
      BY <1>1, <3>2
    <3>4. SumFunctionOnSet(f, U) \in Int /\ SumFunctionOnSet(g, U) \in Int
      <4>1. IsFiniteSet(U)
        BY FS_Subset
      <4> QED BY <4>1, SumInt
    <3> HIDE DEF p, U
    <3> QED BY <3>2, <3>3, <3>4
  <2> QED BY <2>1, <2>2
<1>2. \A T \in SUBSET S : T \in Good
  <2> HIDE DEF Good
  <2> QED BY <1>1, FiniteInduction
<1> QED BY <1>2

\* A sum grows with what is summed.
LEMMA SumMonotone ==
  ASSUME NEW S, IsFiniteSet(S), NEW f, NEW g,
         \A x \in S : f[x] \in Int /\ g[x] \in Int /\ f[x] <= g[x]
  PROVE  SumFunctionOnSet(f, S) <= SumFunctionOnSet(g, S)
<1> DEFINE Good == {T \in SUBSET S : SumFunctionOnSet(f, T) <= SumFunctionOnSet(g, T)}
<1>1. ASSUME NEW T \in SUBSET S, \A U \in SUBSET T : U # T => U \in Good
      PROVE  T \in Good
  <2>1. CASE T = {}
    BY <2>1, SumEmpty
  <2>2. CASE T # {}
    <3> DEFINE p == Pick(T)  U == T \ {p}
    <3>1. IsFiniteSet(T)
      BY FS_Subset
    <3>2. /\ p \in T
          /\ SumFunctionOnSet(f, T) = f[p] + SumFunctionOnSet(f, U)
          /\ SumFunctionOnSet(g, T) = g[p] + SumFunctionOnSet(g, U)
      BY <2>2, <3>1, SumPick
    <3>3. U \in Good
      BY <1>1, <3>2
    <3>4. SumFunctionOnSet(f, U) \in Int /\ SumFunctionOnSet(g, U) \in Int
      <4>1. IsFiniteSet(U)
        BY FS_Subset
      <4> QED BY <4>1, SumInt
    <3> HIDE DEF p, U
    <3> QED BY <3>2, <3>3, <3>4
  <2> QED BY <2>1, <2>2
<1>2. \A T \in SUBSET S : T \in Good
  <2> HIDE DEF Good
  <2> QED BY <1>1, FiniteInduction
<1> QED BY <1>2

\* The sum of zeros.
LEMMA SumZero ==
  ASSUME NEW S, IsFiniteSet(S), NEW f, \A x \in S : f[x] = 0
  PROVE  SumFunctionOnSet(f, S) = 0
<1> DEFINE Good == {T \in SUBSET S : SumFunctionOnSet(f, T) = 0}
<1>1. ASSUME NEW T \in SUBSET S, \A U \in SUBSET T : U # T => U \in Good
      PROVE  T \in Good
  <2>1. CASE T = {}
    BY <2>1, SumEmpty
  <2>2. CASE T # {}
    <3>1. IsFiniteSet(T)
      BY FS_Subset
    <3>2. /\ Pick(T) \in T
          /\ SumFunctionOnSet(f, T) = f[Pick(T)] + SumFunctionOnSet(f, T \ {Pick(T)})
      BY <2>2, <3>1, SumPick
    <3>3. T \ {Pick(T)} \in Good
      BY <1>1, <3>2
    <3> QED BY <3>2, <3>3
  <2> QED BY <2>1, <2>2
<1>2. \A T \in SUBSET S : T \in Good
  <2> HIDE DEF Good
  <2> QED BY <1>1, FiniteInduction
<1> QED BY <1>2

-----------------------------------------------------------------------------
(* Consequences.                                                           *)

\* The sum of natural numbers is a natural number.
LEMMA SumNat ==
  ASSUME NEW S, IsFiniteSet(S), NEW f, \A x \in S : f[x] \in Nat
  PROVE  SumFunctionOnSet(f, S) \in Nat
<1> DEFINE zero == [x \in S |-> 0]
<1>1. SumFunctionOnSet(zero, S) = 0
  BY SumZero
<1>2. SumFunctionOnSet(zero, S) <= SumFunctionOnSet(f, S)
  <2>1. \A x \in S : zero[x] \in Int /\ f[x] \in Int /\ zero[x] <= f[x]
    OBVIOUS
  <2> HIDE DEF zero
  <2> QED BY <2>1, SumMonotone
<1>3. SumFunctionOnSet(f, S) \in Int
  BY SumInt
<1> HIDE DEF zero
<1> QED BY <1>1, <1>2, <1>3

\* Two functions that differ at one index.
LEMMA SumUpdate ==
  ASSUME NEW S, IsFiniteSet(S), NEW x \in S, NEW f, NEW g,
         \A y \in S : f[y] \in Int /\ g[y] \in Int,
         \A y \in S \ {x} : f[y] = g[y]
  PROVE  SumFunctionOnSet(g, S) = SumFunctionOnSet(f, S) - f[x] + g[x]
<1> DEFINE R == S \ {x}
<1>1. IsFiniteSet(R)
  BY FS_Subset
<1>2. SumFunctionOnSet(g, S) = g[x] + SumFunctionOnSet(g, R)
  BY SumRemove
<1>3. SumFunctionOnSet(f, S) = f[x] + SumFunctionOnSet(f, R)
  BY SumRemove
<1>4. SumFunctionOnSet(f, R) = SumFunctionOnSet(g, R)
  BY <1>1, SumSame
<1>5. SumFunctionOnSet(f, R) \in Int
  BY <1>1, SumInt
<1> HIDE DEF R
<1> QED BY <1>2, <1>3, <1>4, <1>5

\* Indices with value 0 do not count.
LEMMA SumSupport ==
  ASSUME NEW S, IsFiniteSet(S), NEW T \in SUBSET S, NEW f,
         \A x \in S : f[x] \in Int, \A x \in S \ T : f[x] = 0
  PROVE  SumFunctionOnSet(f, S) = SumFunctionOnSet(f, T)
<1> DEFINE Good == {U \in SUBSET S : SumFunctionOnSet(f, U) = SumFunctionOnSet(f, U \cap T)}
<1>1. ASSUME NEW U \in SUBSET S, \A V \in SUBSET U : V # U => V \in Good
      PROVE  U \in Good
  <2>1. CASE U \subseteq T
    <3>1. U \cap T = U
      BY <2>1
    <3> QED BY <3>1
  <2>2. CASE ~(U \subseteq T)
    <3>1. PICK x \in U : x \notin T
      BY <2>2
    <3> DEFINE V == U \ {x}
    <3>2. V \in Good /\ V \cap T = U \cap T
      BY <1>1, <3>1
    <3>3. IsFiniteSet(U) /\ IsFiniteSet(V)
      BY FS_Subset
    <3>4. SumFunctionOnSet(f, U) = f[x] + SumFunctionOnSet(f, V)
      BY <3>3, SumRemove
    <3>5. f[x] = 0 /\ SumFunctionOnSet(f, V) \in Int
      BY <3>1, <3>3, SumInt
    <3>6. SumFunctionOnSet(f, V) = SumFunctionOnSet(f, U \cap T)
      BY <3>2
    <3> HIDE DEF V
    <3>7. SumFunctionOnSet(f, U) = SumFunctionOnSet(f, V)
      BY <3>4, <3>5
    <3> QED BY <3>6, <3>7
  <2> QED BY <2>1, <2>2
<1>2. \A U \in SUBSET S : U \in Good
  <2> HIDE DEF Good
  <2> QED BY <1>1, FiniteInduction
<1>3. S \cap T = T
  OBVIOUS
<1> QED BY <1>2, <1>3

\* A share of k out of d, rounded down at every index, rounds the sum down.
LEMMA SumOfShares ==
  ASSUME NEW S, IsFiniteSet(S), NEW f, NEW g, NEW k \in Nat, NEW d \in Nat \ {0},
         \A x \in S : f[x] \in Nat /\ g[x] = (f[x] * k) \div d
  PROVE  SumFunctionOnSet(g, S) * d <= SumFunctionOnSet(f, S) * k
<1> DEFINE Good == {T \in SUBSET S :
        SumFunctionOnSet(g, T) * d <= SumFunctionOnSet(f, T) * k}
<1>0. \A x \in S : g[x] \in Nat /\ g[x] * d <= f[x] * k
  <2> SUFFICES ASSUME NEW x \in S PROVE g[x] \in Nat /\ g[x] * d <= f[x] * k
    OBVIOUS
  <2> DEFINE n == f[x] * k
  <2>1. n \in Nat /\ g[x] = n \div d
    OBVIOUS
  <2> HIDE DEF n
  <2>2. n \div d \in Nat /\ (n \div d) * d <= n
    BY <2>1
  <2> QED BY <2>1, <2>2 DEF n
<1>1. ASSUME NEW T \in SUBSET S, \A U \in SUBSET T : U # T => U \in Good
      PROVE  T \in Good
  <2>1. CASE T = {}
    BY <2>1, SumEmpty
  <2>2. CASE T # {}
    <3> DEFINE p == Pick(T)  U == T \ {p}
               F == SumFunctionOnSet(f, U)  G == SumFunctionOnSet(g, U)
    <3>1. IsFiniteSet(T) /\ IsFiniteSet(U)
      BY FS_Subset
    <3>2. /\ p \in T
          /\ SumFunctionOnSet(f, T) = f[p] + F
          /\ SumFunctionOnSet(g, T) = g[p] + G
      BY <2>2, <3>1, SumPick
    <3>3. G * d <= F * k
      BY <1>1, <3>2
    <3>4. F \in Nat /\ G \in Nat
      BY <1>0, <3>1, SumNat
    <3>5. f[p] \in Nat /\ g[p] \in Nat /\ g[p] * d <= f[p] * k
      BY <1>0, <3>2
    <3> HIDE DEF p, U, F, G
    <3>6. (g[p] + G) * d = g[p] * d + G * d /\ (f[p] + F) * k = f[p] * k + F * k
      BY <3>4, <3>5
    <3>7. (g[p] + G) * d <= (f[p] + F) * k
      <4>1. g[p] * d \in Nat /\ G * d \in Nat /\ f[p] * k \in Nat /\ F * k \in Nat
        BY <3>4, <3>5
      <4> QED BY <3>3, <3>5, <3>6, <4>1
    <3> QED BY <3>2, <3>7
  <2> QED BY <2>1, <2>2
<1>2. \A T \in SUBSET S : T \in Good
  <2> HIDE DEF Good
  <2> QED BY <1>1, FiniteInduction
<1> QED BY <1>2

\* A part of amounts that are not negative is at most the whole.
LEMMA SumSubset ==
  ASSUME NEW S, IsFiniteSet(S), NEW T \in SUBSET S, NEW f, \A x \in S : f[x] \in Nat
  PROVE  SumFunctionOnSet(f, T) <= SumFunctionOnSet(f, S)
<1> DEFINE g == [x \in S |-> IF x \in T THEN f[x] ELSE 0]
<1>1. /\ \A x \in S : g[x] \in Int /\ f[x] \in Int /\ g[x] <= f[x]
      /\ \A x \in S \ T : g[x] = 0
      /\ \A x \in T : g[x] = f[x]
  OBVIOUS
<1>2. IsFiniteSet(T)
  BY FS_Subset
<1> HIDE DEF g
<1>3. SumFunctionOnSet(g, S) <= SumFunctionOnSet(f, S)
  BY <1>1, SumMonotone
<1>4. SumFunctionOnSet(g, S) = SumFunctionOnSet(g, T)
  BY <1>1, SumSupport
<1>5. SumFunctionOnSet(g, T) = SumFunctionOnSet(f, T)
  BY <1>1, <1>2, SumSame
<1>6. QED
  BY <1>3, <1>4, <1>5

\* A sum does not depend on the names of its summands.
LEMMA SumImage ==
  ASSUME NEW S, IsFiniteSet(S), NEW e, \A x, y \in S : e[x] = e[y] => x = y,
         NEW f, NEW g, \A x \in S : f[x] \in Int /\ g[e[x]] = f[x]
  PROVE  SumFunctionOnSet(f, S) = SumFunctionOnSet(g, {e[x] : x \in S})
<1> DEFINE Image(T) == {e[x] : x \in T}
           Good == {T \in SUBSET S : SumFunctionOnSet(f, T) = SumFunctionOnSet(g, Image(T))}
<1>1. ASSUME NEW T \in SUBSET S, \A U \in SUBSET T : U # T => U \in Good
      PROVE  T \in Good
  <2>1. CASE T = {}
    <3>1. Image(T) = {}
      BY <2>1
    <3>2. QED
      BY <2>1, <3>1, SumEmpty
  <2>2. CASE T # {}
    <3>1. PICK y \in T : TRUE
      BY <2>2
    <3>2. IsFiniteSet(T) /\ \A x \in T : f[x] \in Int
      BY FS_Subset
    <3>3. IsFiniteSet(Image(T))
      <4> DEFINE h == [x \in T |-> e[x]]
      <4>1. h \in Surjection(T, Image(T))
        BY DEF Surjection
      <4>2. QED
        BY <3>2, <4>1, FS_Surjection
    <3>4. e[y] \in Image(T) /\ \A z \in Image(T) : g[z] \in Int
      OBVIOUS
    <3>5. Image(T) \ {e[y]} = Image(T \ {y})
      OBVIOUS
    <3>6. T \ {y} \in Good
      BY <1>1
    <3>7. SumFunctionOnSet(f, T \ {y}) = SumFunctionOnSet(g, Image(T \ {y}))
      BY <3>6
    <3> HIDE DEF Image
    <3>8. SumFunctionOnSet(f, T) = f[y] + SumFunctionOnSet(f, T \ {y})
      BY <3>2, SumRemove
    <3>9. SumFunctionOnSet(g, Image(T)) = g[e[y]] + SumFunctionOnSet(g, Image(T) \ {e[y]})
      BY <3>3, <3>4, SumRemove
    <3>10. g[e[y]] = f[y]
      OBVIOUS
    <3>11. QED
      BY <3>5, <3>7, <3>8, <3>9, <3>10
  <2>3. QED
    BY <2>1, <2>2
<1>2. \A T \in SUBSET S : T \in Good
  <2> HIDE DEF Good
  <2>1. QED
    BY <1>1, FiniteInduction
<1>3. QED
  BY <1>2

\* e gives every member of S another name, and R is the set of these names.
Renames(e, S, R) ==
  /\ \A x, y \in S : e[x] = e[y] => x = y
  /\ \A x \in S : e[x] \in R
  /\ \A y \in R : \E x \in S : e[x] = y

LEMMA SumBijection ==
  ASSUME NEW S, IsFiniteSet(S), NEW R, NEW e, Renames(e, S, R),
         NEW f, NEW g, \A x \in S : f[x] \in Int /\ g[e[x]] = f[x]
  PROVE  SumFunctionOnSet(f, S) = SumFunctionOnSet(g, R)
<1>1. R = {e[x] : x \in S} /\ \A x, y \in S : e[x] = e[y] => x = y
  BY DEF Renames
<1>2. SumFunctionOnSet(f, S) = SumFunctionOnSet(g, {e[x] : x \in S})
  BY <1>1, SumImage
<1>3. QED
  BY <1>1, <1>2

\* SumFunction adds up what a function has on its domain.
LEMMA SumRestricted ==
  ASSUME NEW S, IsFiniteSet(S), NEW g
  PROVE  SumFunction([x \in S |-> g[x]]) = SumFunctionOnSet(g, S)
<1> DEFINE f == [x \in S |-> g[x]]
<1>1. SumFunction(f) = SumFunctionOnSet(f, S)
  BY DEF SumFunction
<1>2. \A x \in S : f[x] = g[x]
  OBVIOUS
<1> HIDE DEF f
<1>3. SumFunctionOnSet(f, S) = SumFunctionOnSet(g, S)
  BY <1>2, SumSame
<1>4. QED
  BY <1>1, <1>3 DEF f
=============================================================================
