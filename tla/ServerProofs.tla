---------------------------- MODULE ServerProofs ----------------------------
(***************************************************************************)
(* Machine-checked proofs about the three servers of a slave and the rate  *)
(* limiter in front of them, for every number of connections and every     *)
(* limit: bans are kept and bursts bounded; the slots of an IP are exactly *)
(* its connections, and a connection that is served is in the list that    *)
(* jobs are sent to; a GetWork miner works on the newest template.         *)
(***************************************************************************)
EXTENDS Servers, RateLimiter, SumTheorems, SequenceTheorems, TLAPS

-----------------------------------------------------------------------------
(* The rate limiter.                                                       *)

TypeOK ==
    /\ now \in Minutes /\ cleared \in 0 .. now
    /\ score \in [Ip -> Nat] /\ ends \in [Keys -> Nat] /\ punished \in [Ip -> Nat]
    /\ granted \in [Ip -> [Minutes -> Nat]]

LEMMA InitType == Init => TypeOK
    BY LimiterAssumption DEF Init, TypeOK, Minutes

LEMMA NextType == TypeOK /\ [Next]_vars => TypeOK'
<1> SUFFICES ASSUME TypeOK, [Next]_vars PROVE TypeOK'
    OBVIOUS
<1> USE LimiterAssumption DEF TypeOK, Minutes
<1>1. now \in Nat /\ cleared \in Nat /\ now + BanDuration \in Nat
    OBVIOUS
<1>2. CASE Tick
    BY <1>2 DEF Tick
<1>3. CASE clearRl
  <2>1. ends' \in [Keys -> Nat] /\ score' \in [Ip -> Nat]
    BY <1>3 DEF clearRl
  <2>2. QED
    BY <1>1, <1>3, <2>1 DEF clearRl
<1>4. ASSUME NEW addr \in RemoteAddr, Ban(addr) PROVE TypeOK'
  <2>1. ends' \in [Keys -> Nat]
    BY <1>1, <1>4 DEF Ban, Keys
  <2>2. QED
    BY <1>4, <2>1 DEF Ban
<1>5. ASSUME NEW ip \in Ip, NEW cost \in Costs, CanDoAction(ip, cost) PROVE TypeOK'
  <2>1. cost \in Nat
    OBVIOUS
  <2>2. score' \in [Ip -> Nat]
    <3>1. score' = [score EXCEPT ![ip] = @ + cost]
      BY <1>5 DEF CanDoAction, RefuseBanned, RefuseAndBan, Allow
    <3>2. QED
      BY <2>1, <3>1
  <2>3. CASE RefuseBanned(ip, cost)
    BY <2>2, <2>3 DEF RefuseBanned
  <2>4. CASE RefuseAndBan(ip, cost)
    BY <1>1, <2>2, <2>4 DEF RefuseAndBan, Keys
  <2>5. CASE Allow(ip, cost)
    <3>1. granted' \in [Ip -> [Minutes -> Nat]]
      BY <2>1, <2>5 DEF Allow
    <3>2. QED
      BY <2>2, <2>5, <3>1 DEF Allow
  <2>6. QED
    BY <1>5, <2>3, <2>4, <2>5 DEF CanDoAction
<1>6. CASE UNCHANGED vars
    BY <1>6 DEF vars
<1>7. QED
    BY <1>2, <1>3, <1>4, <1>5, <1>6 DEF Next

-----------------------------------------------------------------------------
(* Bans.                                                                   *)

\* A ban that is not over is in the map, and was given at most now.
BanKept ==
    \A ip \in Ip : /\ punished[ip] > now => ends[ip] >= punished[ip]
                   /\ punished[ip] <= now + BanDuration

LEMMA NextBanKept == TypeOK /\ BanKept /\ [Next]_vars => BanKept'
<1> SUFFICES ASSUME TypeOK, BanKept, [Next]_vars, NEW ip \in Ip
             PROVE  /\ punished'[ip] > now' => ends'[ip] >= punished'[ip]
                    /\ punished'[ip] <= now' + BanDuration
    BY DEF BanKept
<1> USE LimiterAssumption
<1>1. /\ now \in Nat /\ punished[ip] \in Nat /\ ends[ip] \in Nat /\ ip \in Keys
      /\ ends \in [Keys -> Nat] /\ punished \in [Ip -> Nat] /\ BanDuration \in Nat
    BY DEF TypeOK, Minutes, Keys
<1>2. /\ punished[ip] > now => ends[ip] >= punished[ip]
      /\ punished[ip] <= now + BanDuration
    BY DEF BanKept
<1>3. CASE Tick
    BY <1>1, <1>2, <1>3 DEF Tick
<1>4. CASE clearRl
  <2>1. ends'[ip] = IF ends[ip] > now THEN ends[ip] ELSE 0
    BY <1>1, <1>4 DEF clearRl, StillBanned
  <2>2. QED
    BY <1>1, <1>2, <1>4, <2>1 DEF clearRl
<1>5. ASSUME NEW addr \in RemoteAddr, Ban(addr)
      PROVE  /\ punished'[ip] > now' => ends'[ip] >= punished'[ip]
             /\ punished'[ip] <= now' + BanDuration
  <2>1. ends'[ip] \in {ends[ip], now + BanDuration}
    BY <1>1, <1>5 DEF Ban
  <2>2. QED
    BY <1>1, <1>2, <1>5, <2>1 DEF Ban
<1>6. ASSUME NEW i \in Ip, NEW cost \in Costs, CanDoAction(i, cost)
      PROVE  /\ punished'[ip] > now' => ends'[ip] >= punished'[ip]
             /\ punished'[ip] <= now' + BanDuration
  <2>1. CASE RefuseBanned(i, cost) \/ Allow(i, cost)
    BY <1>1, <1>2, <2>1 DEF RefuseBanned, Allow
  <2>2. CASE RefuseAndBan(i, cost)
    BY <1>1, <1>2, <2>2 DEF RefuseAndBan
  <2>3. QED
    BY <1>6, <2>1, <2>2 DEF CanDoAction
<1>7. CASE UNCHANGED vars
    BY <1>1, <1>2, <1>7 DEF vars
<1>8. QED
    BY <1>3, <1>4, <1>5, <1>6, <1>7 DEF Next

\* CanDoAction allows nothing to an IP before the ban for its score is over,
\* although the reset in the middle of the ban clears the score.
THEOREM BanHoldsCorrect == Spec => BanHolds
<1>1. Init => TypeOK /\ BanKept
    BY InitType, LimiterAssumption DEF Init, BanKept
<1>2. TypeOK /\ BanKept /\ [Next]_vars
        => [\A ip \in Ip : granted'[ip] # granted[ip] => now >= punished[ip]]_vars
  <2> SUFFICES ASSUME TypeOK, BanKept, [Next]_vars, NEW ip \in Ip, granted'[ip] # granted[ip]
               PROVE  now >= punished[ip]
    OBVIOUS
  <2>1. PICK i \in Ip, cost \in Costs : Allow(i, cost)
    BY DEF Next, CanDoAction, Tick, clearRl, Ban, RefuseBanned, RefuseAndBan, vars
  <2>2. i = ip
    BY <2>1 DEF Allow, TypeOK
  <2>3. ~(ends[ip] > now)
    BY <2>1, <2>2 DEF Allow, Banned
  <2>4. now \in Nat /\ punished[ip] \in Nat /\ ends[ip] \in Nat
    BY LimiterAssumption DEF TypeOK, Minutes, Keys
  <2>5. QED
    BY <2>3, <2>4 DEF BanKept
<1>3. QED
    BY <1>1, <1>2, NextType, NextBanKept, PTL DEF Spec, BanHolds

-----------------------------------------------------------------------------
(* Bursts.                                                                 *)

Since(t) == {u \in Minutes : t <= u}

\* What ip was allowed from minute t on.
AllowedSince(ip, t) == SumFunctionOnSet(granted[ip], Since(t))

\* What was allowed since the reset is in the score; what was allowed since the
\* reset before is that and one more MAX_SCORE; nothing is allowed in advance.
Bursts ==
    \A ip \in Ip :
        /\ \A u \in Minutes : u > now => granted[ip][u] = 0
        /\ \A t \in Minutes : t > cleared =>
              AllowedSince(ip, t) <= score[ip] /\ AllowedSince(ip, t) <= MaxScore
        /\ \A t \in Minutes : t > cleared - ResetInterval =>
              AllowedSince(ip, t) <= MaxScore + score[ip] /\ AllowedSince(ip, t) <= 2 * MaxScore

LEMMA AllowedType ==
    ASSUME TypeOK, NEW ip \in Ip, NEW t \in Minutes
    PROVE  IsFiniteSet(Since(t)) /\ AllowedSince(ip, t) \in Nat
<1>1. IsFiniteSet(Minutes)
    BY FS_Interval, LimiterAssumption DEF Minutes
<1>2. IsFiniteSet(Since(t))
    BY <1>1, FS_Subset DEF Since
<1>3. \A u \in Since(t) : granted[ip][u] \in Nat
    BY DEF TypeOK, Since
<1>4. QED
    BY <1>2, <1>3, SumNat DEF AllowedSince

\* An allowed action counts from every minute on that has come.
LEMMA AllowedGrows ==
    ASSUME TypeOK, NEW i \in Ip, NEW cost \in Costs, Allow(i, cost), NEW ip \in Ip, NEW t \in Minutes
    PROVE  AllowedSince(ip, t)' = IF ip = i /\ t <= now THEN AllowedSince(ip, t) + cost ELSE AllowedSince(ip, t)
<1> DEFINE f == granted[ip]  g == granted'[ip]  S == Since(t)
<1>1. IsFiniteSet(S) /\ AllowedSince(ip, t) = SumFunctionOnSet(f, S) /\ AllowedSince(ip, t)' = SumFunctionOnSet(g, S)
    BY AllowedType DEF AllowedSince, Since, Minutes
<1>2. granted' = [granted EXCEPT ![i][now] = @ + cost] /\ now \in Minutes /\ cost \in Nat
    BY LimiterAssumption DEF Allow, TypeOK
<1>3. f \in [Minutes -> Nat]
    BY DEF TypeOK
<1>4. CASE ip # i
  <2>1. g = f
    BY <1>2, <1>4 DEF TypeOK
  <2>2. QED
    BY <1>1, <1>4, <2>1
<1>5. CASE ip = i
  <2>1. g \in [Minutes -> Nat] /\ g = [f EXCEPT ![now] = @ + cost]
    BY <1>2, <1>5 DEF TypeOK
  <2>2. S \subseteq Minutes /\ (now \in S <=> t <= now)
    BY <1>2 DEF Since
  <2> HIDE DEF f, g, S
  <2>3. CASE t <= now
    <3>1. /\ \A y \in S : f[y] \in Int /\ g[y] \in Int
          /\ \A y \in S \ {now} : f[y] = g[y]
          /\ now \in S /\ g[now] = f[now] + cost
      BY <1>2, <1>3, <2>1, <2>2, <2>3
    <3>2. SumFunctionOnSet(g, S) = SumFunctionOnSet(f, S) - f[now] + g[now]
      BY <1>1, <3>1, SumUpdate
    <3>3. SumFunctionOnSet(f, S) \in Int
      BY <1>1, <3>1, SumInt
    <3>4. SumFunctionOnSet(g, S) = SumFunctionOnSet(f, S) + cost
      BY <1>2, <3>1, <3>2, <3>3
    <3>5. QED
      BY <1>1, <1>5, <2>3, <3>4
  <2>4. CASE ~(t <= now)
    <3>1. \A y \in S : f[y] = g[y]
      BY <1>3, <2>1, <2>2, <2>4
    <3>2. SumFunctionOnSet(f, S) = SumFunctionOnSet(g, S)
      BY <1>1, <3>1, SumSame
    <3>3. QED
      BY <1>1, <2>4, <3>2
  <2>5. QED
    BY <2>3, <2>4
<1>6. QED
    BY <1>4, <1>5

\* Nothing is allowed from a later minute on.
LEMMA AllowedAhead ==
    ASSUME TypeOK, Bursts, NEW ip \in Ip, NEW t \in Minutes, t > now
    PROVE  AllowedSince(ip, t) = 0
<1>1. \A u \in Since(t) : granted[ip][u] = 0
    BY DEF Since, Bursts, TypeOK, Minutes
<1>2. QED
    BY <1>1, AllowedType, SumZero DEF AllowedSince

LEMMA NextBursts == TypeOK /\ Bursts /\ [Next]_vars => Bursts'
<1> SUFFICES ASSUME TypeOK, Bursts, [Next]_vars, NEW ip \in Ip
             PROVE  /\ \A u \in Minutes : u > now' => granted'[ip][u] = 0
                    /\ \A t \in Minutes : t > cleared' =>
                         AllowedSince(ip, t)' <= score'[ip] /\ AllowedSince(ip, t)' <= MaxScore
                    /\ \A t \in Minutes : t > cleared' - ResetInterval =>
                         /\ AllowedSince(ip, t)' <= MaxScore + score'[ip]
                         /\ AllowedSince(ip, t)' <= 2 * MaxScore
    BY DEF Bursts, Minutes
<1> DEFINE Sum(t) == AllowedSince(ip, t)
<1>1. /\ now \in Nat /\ cleared \in Nat /\ cleared <= now /\ score[ip] \in Nat
      /\ MaxScore \in Nat /\ ResetInterval \in Nat \ {0}
      /\ \A t \in Minutes : t \in Nat /\ Sum(t) \in Nat
      /\ now \in Minutes /\ score \in [Ip -> Nat] /\ granted \in [Ip -> [Minutes -> Nat]]
    BY AllowedType, LimiterAssumption DEF TypeOK, Minutes
<1>2. /\ \A u \in Minutes : u > now => granted[ip][u] = 0
      /\ \A t \in Minutes : t > cleared => Sum(t) <= score[ip] /\ Sum(t) <= MaxScore
      /\ \A t \in Minutes : t > cleared - ResetInterval =>
            Sum(t) <= MaxScore + score[ip] /\ Sum(t) <= 2 * MaxScore
    BY DEF Bursts
<1>3. ASSUME granted' = granted PROVE \A t \in Minutes : AllowedSince(ip, t)' = Sum(t)
    BY <1>3 DEF AllowedSince, Since, Minutes
<1>4. CASE Tick \/ UNCHANGED vars
  <2>1. /\ granted' = granted /\ cleared' = cleared /\ score' = score
        /\ now' \in {now, now + 1}
    BY <1>4 DEF Tick, vars
  <2>2. QED
    BY <1>1, <1>2, <1>3, <2>1
<1>5. CASE clearRl
  <2>1. /\ granted' = granted /\ cleared' = now /\ now' = now /\ score'[ip] = 0
        /\ cleared + ResetInterval <= now
    BY <1>1, <1>5 DEF clearRl
  <2>2. \A t \in Minutes : t > now => Sum(t) = 0
    BY AllowedAhead
  <2>3. \A t \in Minutes : t > now - ResetInterval => Sum(t) <= MaxScore
    BY <1>1, <1>2, <2>1
  <2>4. QED
    BY <1>1, <1>2, <1>3, <2>1, <2>2, <2>3
<1>6. ASSUME NEW addr \in RemoteAddr, Ban(addr)
      PROVE  granted' = granted /\ cleared' = cleared /\ now' = now /\ score'[ip] = score[ip]
    BY <1>6 DEF Ban
<1>7. ASSUME NEW i \in Ip, NEW cost \in Costs, RefuseBanned(i, cost) \/ RefuseAndBan(i, cost)
      PROVE  /\ granted' = granted /\ cleared' = cleared /\ now' = now
             /\ score'[ip] \in Nat /\ score[ip] <= score'[ip]
  <2>1. cost \in Nat
    BY LimiterAssumption
  <2>2. score' = [score EXCEPT ![i] = @ + cost] /\ granted' = granted /\ cleared' = cleared /\ now' = now
    BY <1>7 DEF RefuseBanned, RefuseAndBan
  <2>3. QED
    BY <1>1, <2>1, <2>2
\* More score for the same allowances.
<1>8. ASSUME granted' = granted, cleared' = cleared, now' = now,
             score'[ip] \in Nat, score[ip] <= score'[ip]
      PROVE  /\ \A u \in Minutes : u > now' => granted'[ip][u] = 0
             /\ \A t \in Minutes : t > cleared' =>
                  AllowedSince(ip, t)' <= score'[ip] /\ AllowedSince(ip, t)' <= MaxScore
             /\ \A t \in Minutes : t > cleared' - ResetInterval =>
                  /\ AllowedSince(ip, t)' <= MaxScore + score'[ip]
                  /\ AllowedSince(ip, t)' <= 2 * MaxScore
  <2> DEFINE s == score'[ip]
  <2>1. s \in Nat /\ score[ip] <= s
    BY <1>8
  <2>2. /\ \A t \in Minutes : t > cleared => Sum(t) <= s /\ Sum(t) <= MaxScore
        /\ \A t \in Minutes : t > cleared - ResetInterval =>
              Sum(t) <= MaxScore + s /\ Sum(t) <= 2 * MaxScore
    <3> HIDE DEF s, Sum
    <3>1. QED
      BY <1>1, <1>2, <2>1
  <2>3. QED
    BY <1>2, <1>3, <1>8, <2>2
<1>9. ASSUME NEW i \in Ip, NEW cost \in Costs, Allow(i, cost)
      PROVE  /\ \A u \in Minutes : u > now' => granted'[ip][u] = 0
             /\ \A t \in Minutes : t > cleared' =>
                  AllowedSince(ip, t)' <= score'[ip] /\ AllowedSince(ip, t)' <= MaxScore
             /\ \A t \in Minutes : t > cleared' - ResetInterval =>
                  /\ AllowedSince(ip, t)' <= MaxScore + score'[ip]
                  /\ AllowedSince(ip, t)' <= 2 * MaxScore
  <2>1. /\ cost \in Nat /\ cleared' = cleared /\ now' = now
        /\ score' = [score EXCEPT ![i] = @ + cost]
        /\ granted' = [granted EXCEPT ![i][now] = @ + cost]
        /\ score[i] + cost <= MaxScore
    <3>1. cost \in Nat /\ score[i] \in Nat
      BY LimiterAssumption DEF TypeOK
    <3>2. QED
      BY <1>1, <1>9, <3>1 DEF Allow, Exceeds
  <2>2. \A t \in Minutes :
          AllowedSince(ip, t)' = IF ip = i /\ t <= now THEN Sum(t) + cost ELSE Sum(t)
    BY <1>9, AllowedGrows
  <2>3. \A u \in Minutes : u > now' => granted'[ip][u] = 0
    BY <1>1, <1>2, <2>1
  <2>4. CASE ip # i
    BY <1>1, <1>2, <2>1, <2>2, <2>3, <2>4
  <2>5. CASE ip = i
    <3> DEFINE new(t) == AllowedSince(ip, t)'
    <3>1. \A t \in Minutes : new(t) \in Nat /\ new(t) <= Sum(t) + cost
      BY <1>1, <2>1, <2>2
    <3>2. score'[ip] = score[ip] + cost /\ score[ip] + cost <= MaxScore
      BY <1>1, <2>1, <2>5
    <3> HIDE DEF new, Sum
    <3>3. \A t \in Minutes : t > cleared =>
            new(t) <= score[ip] + cost /\ new(t) <= MaxScore
      BY <1>1, <1>2, <2>1, <3>1, <3>2
    <3>4. \A t \in Minutes : t > cleared - ResetInterval =>
            new(t) <= MaxScore + (score[ip] + cost) /\ new(t) <= 2 * MaxScore
      BY <1>1, <1>2, <2>1, <3>1, <3>2
    <3>5. QED
      BY <2>1, <2>3, <3>2, <3>3, <3>4 DEF new
  <2>6. QED
    BY <2>4, <2>5
<1>10. score[ip] \in Nat /\ score[ip] <= score[ip]
    BY <1>1
<1>11. QED
    BY <1>4, <1>5, <1>6, <1>7, <1>8, <1>9, <1>10 DEF Next, CanDoAction

\* The stretch of RESET_INTERVAL that begins at t.
Stretch(t) == Minutes \cap (t .. t + ResetInterval - 1)

LEMMA SumOverStretch ==
    ASSUME NEW g, NEW t \in Minutes
    PROVE  SumFunction([u \in Stretch(t) |-> g[u]]) = SumFunctionOnSet(g, Stretch(t))
<1>1. IsFiniteSet(Minutes) /\ Stretch(t) \in SUBSET Minutes
    BY FS_Interval, LimiterAssumption DEF Minutes, Stretch
<1>2. IsFiniteSet(Stretch(t))
    BY <1>1, FS_Subset
<1>3. QED
    BY <1>2, SumRestricted

LEMMA BurstIsStretch ==
    BurstBounded <=>
        \A ip \in Ip : \A t \in Minutes : SumFunctionOnSet(granted[ip], Stretch(t)) <= 2 * MaxScore
<1>1. \A ip \in Ip : \A t \in Minutes :
        SumFunction([u \in Stretch(t) |-> granted[ip][u]]) = SumFunctionOnSet(granted[ip], Stretch(t))
    BY SumOverStretch
<1>2. QED
    BY <1>1 DEF BurstBounded, Stretch

\* A stretch that is over for good keeps what it has; one that is not lies
\* within the allowances since the reset before the last.
LEMMA NextBurstBounded ==
    TypeOK /\ Bursts' /\ TypeOK' /\ BurstBounded /\ [Next]_vars => BurstBounded'
<1> SUFFICES ASSUME TypeOK, TypeOK', Bursts', BurstBounded, [Next]_vars,
                    NEW ip \in Ip, NEW t \in Minutes
             PROVE  SumFunctionOnSet(granted'[ip], Stretch(t)) <= 2 * MaxScore
  <2>1. ASSUME \A i \in Ip : \A u \in Minutes :
                 SumFunctionOnSet(granted'[i], Stretch(u)) <= 2 * MaxScore
        PROVE  BurstBounded'
    <3>1. \A i \in Ip : \A v \in Minutes :
            SumFunction([u \in Stretch(v) |-> granted'[i][u]]) = SumFunctionOnSet(granted'[i], Stretch(v))
      BY SumOverStretch
    <3>2. \A i \in Ip : \A v \in Minutes :
            SumFunction([u \in Stretch(v) |-> granted'[i][u]]) <= 2 * MaxScore
      BY <2>1, <3>1
    <3>3. QED
      BY <3>2 DEF BurstBounded, Stretch, Minutes
  <2>2. QED
    BY <2>1
<1> DEFINE g == granted'[ip]
<1>1. /\ now \in Nat /\ cleared' \in Nat /\ t \in Nat /\ ResetInterval \in Nat \ {0} /\ MaxScore \in Nat
      /\ g \in [Minutes -> Nat] /\ IsFiniteSet(Since(t))
  <2>1. IsFiniteSet(Since(t))
    BY AllowedType
  <2>2. now \in Nat /\ t \in Nat /\ ResetInterval \in Nat \ {0} /\ MaxScore \in Nat
    BY LimiterAssumption DEF TypeOK, Minutes
  <2>3. now' \in Minutes /\ cleared' \in 0 .. now'
    BY DEF TypeOK, Minutes
  <2>4. granted' \in [Ip -> [Minutes -> Nat]]
    BY DEF TypeOK, Minutes
  <2>5. cleared' \in Nat
    BY <2>3, LimiterAssumption DEF Minutes
  <2>6. g \in [Minutes -> Nat]
    BY <2>4
  <2>7. QED
    BY <2>1, <2>2, <2>5, <2>6
<1>2. CASE t > cleared' - ResetInterval
  <2>1. AllowedSince(ip, t)' = SumFunctionOnSet(g, Since(t))
    BY DEF AllowedSince, Since, Minutes
  <2>2. AllowedSince(ip, t)' <= 2 * MaxScore
    <3>1. \A u \in Minutes : u > cleared' - ResetInterval => AllowedSince(ip, u)' <= 2 * MaxScore
      BY DEF Bursts, Minutes
    <3>2. QED
      BY <1>2, <3>1
  <2>3. Stretch(t) \in SUBSET Since(t) /\ \A u \in Since(t) : g[u] \in Nat
    <3>1. \A u \in Stretch(t) : u \in Minutes /\ t <= u
      BY <1>1 DEF Stretch
    <3>2. \A u \in Since(t) : u \in Minutes
      BY DEF Since
    <3>3. QED
      BY <1>1, <3>1, <3>2 DEF Since
  <2> HIDE DEF g
  <2>4. SumFunctionOnSet(g, Stretch(t)) <= SumFunctionOnSet(g, Since(t))
    BY <1>1, <2>3, SumSubset
  <2>5. SumFunctionOnSet(g, Stretch(t)) \in Int /\ SumFunctionOnSet(g, Since(t)) \in Int
    <3>1. IsFiniteSet(Stretch(t))
      BY <1>1, <2>3, FS_Subset
    <3>2. QED
      BY <1>1, <2>3, <3>1, SumInt
  <2>6. SumFunctionOnSet(g, Stretch(t)) <= 2 * MaxScore
    BY <1>1, <2>1, <2>2, <2>4, <2>5
  <2>7. QED
    BY <2>6 DEF g
<1>3. CASE ~(t > cleared' - ResetInterval)
  <2> DEFINE f == granted[ip]
  <2>1. \A u \in Stretch(t) : f[u] = g[u]
    <3>0. cleared' <= now
      BY <1>1 DEF TypeOK, Next, Tick, clearRl, Ban, CanDoAction, RefuseBanned, RefuseAndBan, Allow, vars
    <3>1. \A u \in Stretch(t) : u \in Minutes /\ u < now
      <4> DEFINE c == cleared'
      <4>1. c \in Nat /\ c <= now /\ t <= c - ResetInterval
        BY <1>1, <1>3, <3>0
      <4> HIDE DEF c
      <4>2. QED
        BY <1>1, <4>1 DEF Stretch, Minutes
    <3>2. \A u \in Minutes : u # now => f[u] = g[u]
      BY DEF TypeOK, Next, Tick, clearRl, Ban, CanDoAction, RefuseBanned, RefuseAndBan, Allow, vars
    <3>3. QED
      BY <1>1, <3>1, <3>2 DEF Minutes
  <2>2. IsFiniteSet(Stretch(t))
    <3>1. Stretch(t) \in SUBSET Since(t)
      BY <1>1 DEF Stretch, Since, Minutes
    <3>2. QED
      BY <1>1, <3>1, FS_Subset
  <2>3. SumFunctionOnSet(f, Stretch(t)) <= 2 * MaxScore
    BY BurstIsStretch
  <2> HIDE DEF f, g
  <2>4. SumFunctionOnSet(f, Stretch(t)) = SumFunctionOnSet(g, Stretch(t))
    BY <2>1, <2>2, SumSame
  <2>5. QED
    BY <2>3, <2>4 DEF g
<1>4. QED
    BY <1>2, <1>3

\* Although the scores are cleared at a fixed beat, no IP is allowed more than
\* twice MAX_SCORE in any stretch of RESET_INTERVAL.
THEOREM BurstBoundedCorrect == Spec => []BurstBounded
<1>1. Init => TypeOK /\ Bursts /\ BurstBounded
  <2> SUFFICES ASSUME Init PROVE Bursts /\ BurstBounded
    BY InitType
  <2>1. TypeOK
    BY InitType
  <2>2. \A ip \in Ip : \A u \in Minutes : granted[ip][u] = 0
    BY DEF Init
  <2>3. \A ip \in Ip : \A t \in Minutes : AllowedSince(ip, t) = 0
    <3> SUFFICES ASSUME NEW ip \in Ip, NEW t \in Minutes PROVE AllowedSince(ip, t) = 0
      OBVIOUS
    <3>1. \A u \in Since(t) : granted[ip][u] = 0
      BY <2>2 DEF Since
    <3>2. QED
      BY <2>1, <3>1, AllowedType, SumZero DEF AllowedSince
  <2>4. Bursts
    BY <2>2, <2>3, LimiterAssumption DEF Bursts, Init
  <2>5. \A ip \in Ip : \A t \in Minutes : SumFunctionOnSet(granted[ip], Stretch(t)) <= 2 * MaxScore
    <3> SUFFICES ASSUME NEW ip \in Ip, NEW t \in Minutes
        PROVE  SumFunctionOnSet(granted[ip], Stretch(t)) <= 2 * MaxScore
      OBVIOUS
    <3>1. IsFiniteSet(Stretch(t))
      <4>1. IsFiniteSet(Minutes) /\ Stretch(t) \in SUBSET Minutes
        BY FS_Interval, LimiterAssumption DEF Minutes, Stretch
      <4>2. QED
        BY <4>1, FS_Subset
    <3>2. \A u \in Stretch(t) : granted[ip][u] = 0
      BY <2>2 DEF Stretch
    <3>3. SumFunctionOnSet(granted[ip], Stretch(t)) = 0
      BY <3>1, <3>2, SumZero
    <3>4. QED
      BY <3>3, LimiterAssumption
  <2>6. QED
    BY <2>4, <2>5, BurstIsStretch
<1>2. QED
    BY <1>1, NextType, NextBursts, NextBurstBounded, PTL DEF Spec

-----------------------------------------------------------------------------
\* The instances bring in the standard modules once more.
LEMMA SameCardinality ==
    ASSUME NEW S
    PROVE  /\ Xatum!Cardinality(S) = Cardinality(S)
           /\ Stratum!Cardinality(S) = Cardinality(S)
           /\ Getwork!Cardinality(S) = Cardinality(S)
BY DEF Xatum!Cardinality, Stratum!Cardinality, Getwork!Cardinality, Cardinality

-----------------------------------------------------------------------------
(* The Xatum server.                                                       *)

LEMMA XatumInitType ==
    ASSUME Xatum!XatumConstants PROVE Xatum!Init => Xatum!TypeOK
<1> SUFFICES ASSUME Xatum!Init PROVE Xatum!TypeOK
    OBVIOUS
<1>1. << >> \in Seq(Conn) /\ Len(<< >>) = 0
    OBVIOUS
<1>2. queue \in Seq(Conn) /\ Len(queue) <= MaxQueue
    BY <1>1 DEF Xatum!XatumConstants, Xatum!Init
<1>3. perIp \in 0 .. MaxPerIp + 1
    BY DEF Xatum!XatumConstants, Xatum!Init
<1>4. QED
    BY <1>2, <1>3 DEF Xatum!Init, Xatum!TypeOK

\* The variables of every step keep their types.
LEMMA XatumNextType ==
    ASSUME Xatum!XatumConstants PROVE Xatum!TypeOK /\ [Xatum!Next]_(Xatum!vars) => Xatum!TypeOK'
<1> SUFFICES ASSUME Xatum!TypeOK, [Xatum!Next]_(Xatum!vars) PROVE Xatum!TypeOK'
    OBVIOUS
<1> USE DEF Xatum!XatumConstants, Xatum!TypeOK
<1>1. Xatum!Disconnected \in 0 .. MaxPerIp + 1
    BY DEF Xatum!Disconnected
<1>2. CASE Xatum!Serve
  <2>1. Head(queue) \in Conn /\ Tail(queue) \in Seq(Conn) /\ Len(Tail(queue)) = Len(queue) - 1
    BY <1>2 DEF Xatum!Serve
  <2>2. QED
    BY <1>2, <2>1 DEF Xatum!Serve
<1>3. ASSUME NEW c \in Conn, Xatum!Accept(c) \/ Xatum!Refuse(c) \/ Xatum!MinerLeaves(c) \/ Xatum!DeadlineFails(c) \/ Xatum!SubmitLeaks(c)
      PROVE  Xatum!TypeOK'
    BY <1>3 DEF Xatum!Accept, Xatum!Refuse, Xatum!MinerLeaves, Xatum!DeadlineFails, Xatum!SubmitLeaks
<1>4. ASSUME NEW c \in Conn, Xatum!ListConnection(c) PROVE Xatum!TypeOK'
    BY <1>4 DEF Xatum!ListConnection, Xatum!CanConnect, Xatum!Touch, Xatum!Kicking
<1>5. ASSUME NEW c \in Conn, Xatum!QueueConnection(c) PROVE Xatum!TypeOK'
  <2>1. Append(queue, c) \in Seq(Conn) /\ Len(Append(queue, c)) = Len(queue) + 1
    BY AppendProperties
  <2>2. queue' \in Seq(Conn) /\ Len(queue') <= MaxQueue
    <3>1. Len(queue) \in Nat /\ Len(queue) < MaxQueue /\ queue' = Append(queue, c)
      BY <1>5 DEF Xatum!QueueConnection
    <3>2. Len(queue') = Len(queue) + 1
      BY <2>1, <3>1
    <3>3. QED
      BY <2>1, <3>1, <3>2
  <2>3. handler' \in [Conn -> {"none", "accepted", "listed", "queued", "reading", "stuck", "ended"}]
    BY <1>5 DEF Xatum!QueueConnection
  <2>4. QED
    BY <1>5, <2>2, <2>3 DEF Xatum!QueueConnection
<1>6. ASSUME NEW c \in Conn, Xatum!ReadFails(c) \/ Xatum!KickMiner(c) PROVE Xatum!TypeOK'
  <2>1. connections' \subseteq Conn /\ open' \subseteq Conn /\ kicked' \subseteq Conn
    BY <1>6 DEF Xatum!ReadFails, Xatum!KickMiner, Xatum!Kick
  <2>2. perIp' \in 0 .. MaxPerIp + 1
    BY <1>1, <1>6 DEF Xatum!ReadFails, Xatum!KickMiner, Xatum!Kick
  <2>3. QED
    BY <1>6, <2>1, <2>2 DEF Xatum!ReadFails, Xatum!KickMiner, Xatum!Touch, Xatum!Kicking
<1>7. ASSUME NEW c \in Conn, Xatum!PingFails(c) PROVE Xatum!TypeOK'
  <2>1. perIp' \in 0 .. MaxPerIp + 1
    BY <1>1, <1>7 DEF Xatum!PingFails
  <2>2. QED
    BY <1>7, <2>1 DEF Xatum!PingFails, Xatum!Touch, Xatum!Kicking
<1>8. ASSUME NEW c \in Conn, Xatum!PingKicks(c) PROVE Xatum!TypeOK'
    BY <1>8 DEF Xatum!PingKicks
<1>9. CASE UNCHANGED Xatum!vars
    BY <1>9 DEF Xatum!vars
<1>10. CASE Xatum!CountBegin \/ Xatum!CountEnd
    BY <1>10 DEF Xatum!CountBegin, Xatum!CountEnd
<1>11. QED
    BY <1>2, <1>3, <1>4, <1>5, <1>6, <1>7, <1>8, <1>9, <1>10 DEF Xatum!Next, Xatum!Handle

-----------------------------------------------------------------------------
(* The inductive invariant.                                                *)

\* The channel holds every connection that waits in it once.
QueueIsQueued ==
    /\ \A i \in 1 .. Len(queue) : handler[queue[i]] = "queued"
    /\ \A i, j \in 1 .. Len(queue) : queue[i] = queue[j] => i = j

\* Only connections that handleConn has served have a pinger.
PingedIsServed == \A c \in Conn : pinger[c] # "off" => handler[c] \in {"reading", "stuck", "ended"}

\* A pinger's Kick that nothing has met is the only one, still has the table in
\* its hands, and has counted its own connection off already.
OneKicks ==
    \A c \in Conn : pinger[c] = "kick" =>
        /\ seen[c] = connections /\ c \notin open /\ perIp = Cardinality(connections \ {c})
        /\ \A d \in Conn : pinger[d] = "kick" => d = c

\* A connection enters the table before it is served and leaves it closed.
OpenIsListed == \A c \in open : handler[c] \in {"listed", "queued", "reading", "stuck"} => c \in connections

\* A connection that handleConnection has not listed yet is not in the table.
ListedIsKnown == \A c \in connections : handler[c] \notin {"none", "accepted"}

Exact ==
    /\ IsFiniteSet(connections)
    /\ ~Xatum!Kicking => perIp = Cardinality(connections)
    /\ OneKicks
    /\ OpenIsListed
    /\ ListedIsKnown

SInv == Xatum!TypeOK /\ QueueIsQueued /\ PingedIsServed /\ (raced \/ Exact)

LEMMA XatumInitInv ==
    ASSUME Xatum!XatumConstants PROVE Xatum!Init => SInv
<1> SUFFICES ASSUME Xatum!Init PROVE SInv
    OBVIOUS
<1>1. Xatum!TypeOK
    BY XatumInitType
<1>2. QueueIsQueued /\ PingedIsServed
    BY DEF Xatum!Init, QueueIsQueued, PingedIsServed
<1>3. IsFiniteSet(connections) /\ perIp = Cardinality(connections)
    BY FS_EmptySet DEF Xatum!Init
<1>4. OneKicks /\ OpenIsListed /\ ListedIsKnown
    BY DEF Xatum!Init, OneKicks, OpenIsListed, ListedIsKnown
<1>5. QED
    BY <1>1, <1>2, <1>3, <1>4 DEF SInv, Exact

LEMMA NextQueue == Xatum!TypeOK /\ QueueIsQueued /\ PingedIsServed /\ [Xatum!Next]_(Xatum!vars)
                     => QueueIsQueued' /\ PingedIsServed'
<1> SUFFICES ASSUME Xatum!TypeOK, QueueIsQueued, PingedIsServed, [Xatum!Next]_(Xatum!vars)
             PROVE  QueueIsQueued' /\ PingedIsServed'
    OBVIOUS
<1>1. /\ queue \in Seq(Conn) /\ Len(queue) \in Nat /\ \A i \in 1 .. Len(queue) : queue[i] \in Conn
      /\ handler \in [Conn -> {"none", "accepted", "listed", "queued", "reading", "stuck", "ended"}]
      /\ pinger \in [Conn -> {"off", "on", "kick"}]
    BY DEF Xatum!TypeOK
\* No connection whose handler moves is in the channel.
<1>2. ASSUME NEW c \in Conn, handler[c] # "queued",
             NEW h, handler' = [handler EXCEPT ![c] = h], queue' = queue
      PROVE  QueueIsQueued'
    BY <1>1, <1>2 DEF QueueIsQueued
<1>3. ASSUME handler' = handler, queue' = queue PROVE QueueIsQueued'
    BY <1>3 DEF QueueIsQueued
<1>4. CASE Xatum!Serve
  <2> DEFINE h == Head(queue)
  <2>1. /\ h \in Conn /\ h = queue[1] /\ Len(queue) > 0
        /\ Len(Tail(queue)) = Len(queue) - 1
        /\ \A i \in 1 .. Len(queue) - 1 : Tail(queue)[i] = queue[i + 1]
    BY <1>1, <1>4 DEF Xatum!Serve
  <2>2. queue' = Tail(queue) /\ handler' = [handler EXCEPT ![h] = "reading"]
        /\ pinger' = [pinger EXCEPT ![h] = "on"]
    BY <1>4 DEF Xatum!Serve
  <2> HIDE DEF h
  <2>3. \A i \in 1 .. Len(queue') : queue'[i] = queue[i + 1] /\ i + 1 \in 1 .. Len(queue) /\ i + 1 # 1
    BY <1>1, <2>1, <2>2
  <2>4. \A i \in 1 .. Len(queue') : queue'[i] # h
    BY <1>1, <2>1, <2>3 DEF QueueIsQueued
  <2>5. \A i \in 1 .. Len(queue') : handler'[queue'[i]] = "queued"
    BY <1>1, <2>1, <2>2, <2>3, <2>4 DEF QueueIsQueued
  <2>6. \A i, j \in 1 .. Len(queue') : queue'[i] = queue'[j] => i = j
    <3> SUFFICES ASSUME NEW i \in 1 .. Len(queue'), NEW j \in 1 .. Len(queue'), queue'[i] = queue'[j]
                 PROVE  i = j
      OBVIOUS
    <3>1. i + 1 = j + 1
      BY <2>3 DEF QueueIsQueued
    <3>2. Len(queue') \in Nat
      BY <1>1, <2>1, <2>2
    <3>3. QED
      BY <3>1, <3>2
  <2>7. PingedIsServed'
    BY <1>1, <2>1, <2>2 DEF PingedIsServed
  <2>8. QED
    BY <2>5, <2>6, <2>7 DEF QueueIsQueued
<1>5. ASSUME NEW c \in Conn, Xatum!Accept(c) \/ Xatum!Refuse(c) \/ Xatum!MinerLeaves(c) \/ Xatum!DeadlineFails(c) \/ Xatum!ListConnection(c) \/ Xatum!SubmitLeaks(c)
      PROVE  QueueIsQueued' /\ PingedIsServed'
  <2>1. pinger' = pinger /\ queue' = queue
    BY <1>5 DEF Xatum!Accept, Xatum!Refuse, Xatum!MinerLeaves, Xatum!DeadlineFails, Xatum!ListConnection, Xatum!SubmitLeaks
  <2>2. \/ handler' = handler
        \/ handler[c] \in {"none", "accepted"} /\ \E h : handler' = [handler EXCEPT ![c] = h]
        \/ handler[c] = "reading" /\ \E h \in {"stuck", "ended"} : handler' = [handler EXCEPT ![c] = h]
    BY <1>5 DEF Xatum!Accept, Xatum!Refuse, Xatum!MinerLeaves, Xatum!DeadlineFails, Xatum!ListConnection, Xatum!SubmitLeaks
  <2>3. QED
    BY <1>1, <1>2, <1>3, <2>1, <2>2 DEF PingedIsServed
<1>6. ASSUME NEW c \in Conn, Xatum!QueueConnection(c) PROVE QueueIsQueued' /\ PingedIsServed'
  <2>1. /\ queue' = Append(queue, c) /\ handler' = [handler EXCEPT ![c] = "queued"]
        /\ handler[c] = "listed" /\ pinger' = pinger
    BY <1>6 DEF Xatum!QueueConnection
  <2>2. /\ Len(queue') = Len(queue) + 1 /\ queue'[Len(queue) + 1] = c
        /\ \A i \in 1 .. Len(queue) : queue'[i] = queue[i] /\ queue[i] # c
    BY <1>1, <2>1 DEF QueueIsQueued
  <2>3. PingedIsServed'
    BY <1>1, <2>1 DEF PingedIsServed
  <2>4. \A i \in 1 .. Len(queue') : i \in 1 .. Len(queue) \/ i = Len(queue) + 1
    BY <1>1, <2>2
  <2>5. \A i \in 1 .. Len(queue') : handler'[queue'[i]] = "queued"
    BY <1>1, <2>1, <2>2, <2>4 DEF QueueIsQueued
  <2>6. \A i, j \in 1 .. Len(queue') : queue'[i] = queue'[j] => i = j
    BY <2>2, <2>4 DEF QueueIsQueued
  <2>7. QED
    BY <2>3, <2>5, <2>6 DEF QueueIsQueued
<1>7. ASSUME NEW c \in Conn, Xatum!ReadFails(c) PROVE QueueIsQueued' /\ PingedIsServed'
  <2>1. /\ handler[c] = "reading" /\ handler' = [handler EXCEPT ![c] = "ended"]
        /\ pinger' = pinger /\ queue' = queue
    BY <1>7 DEF Xatum!ReadFails
  <2>2. QED
    BY <1>1, <1>2, <2>1 DEF PingedIsServed
<1>8. ASSUME NEW c \in Conn, Xatum!KickMiner(c) \/ Xatum!PingFails(c) \/ Xatum!PingKicks(c)
      PROVE  QueueIsQueued' /\ PingedIsServed'
  <2>1. handler' = handler /\ queue' = queue
    BY <1>8 DEF Xatum!KickMiner, Xatum!PingFails, Xatum!PingKicks
  <2>2. \A d \in Conn : pinger'[d] # "off" => pinger[d] # "off"
    BY <1>1, <1>8 DEF Xatum!KickMiner, Xatum!PingFails, Xatum!PingKicks
  <2>3. QED
    BY <1>3, <2>1, <2>2 DEF PingedIsServed
<1>9. CASE UNCHANGED Xatum!vars
    BY <1>3, <1>9 DEF Xatum!vars, PingedIsServed
<1>10. CASE Xatum!CountBegin \/ Xatum!CountEnd
    BY <1>3, <1>10 DEF Xatum!CountBegin, Xatum!CountEnd, PingedIsServed
<1>11. QED
    BY <1>4, <1>5, <1>6, <1>7, <1>8, <1>9, <1>10 DEF Xatum!Next, Xatum!Handle

\* What a Kick of c does to the count of a table that is exact.
LEMMA CountedOff ==
    ASSUME IsFiniteSet(connections), perIp = Cardinality(connections), NEW c
    PROVE  /\ IsFiniteSet(connections \ {c})
           /\ (IF c \in connections THEN Xatum!Disconnected ELSE perIp) = Cardinality(connections \ {c})
<1>1. IsFiniteSet(connections \ {c}) /\ Cardinality(connections) \in Nat
    BY FS_RemoveElement, FS_CardinalityType
<1>2. CASE c \in connections
  <2>1. Cardinality(connections \ {c}) = Cardinality(connections) - 1
    BY <1>2, FS_RemoveElement
  <2>2. Cardinality(connections) > 0
    BY <1>1, <1>2, FS_EmptySet
  <2>3. QED
    BY <1>1, <1>2, <2>1, <2>2 DEF Xatum!Disconnected
<1>3. CASE c \notin connections
  <2>1. connections \ {c} = connections
    BY <1>3
  <2>2. QED
    BY <1>1, <1>3, <2>1
<1>4. QED
    BY <1>2, <1>3

LEMMA NextExact ==
    ASSUME Xatum!XatumConstants PROVE SInv /\ [Xatum!Next]_(Xatum!vars) => raced' \/ Exact'
<1> SUFFICES ASSUME SInv, [Xatum!Next]_(Xatum!vars), ~raced' PROVE Exact'
    OBVIOUS
<1>1. raced \in BOOLEAN /\ raced' \in BOOLEAN
    BY XatumNextType DEF SInv, Xatum!TypeOK
\* raced is never taken back.
<1>2. ~raced
    BY <1>1 DEF Xatum!Next, Xatum!Handle, Xatum!Touch, Xatum!Serve, Xatum!Accept, Xatum!Refuse, Xatum!ListConnection, Xatum!QueueConnection,
       Xatum!DeadlineFails, Xatum!ReadFails, Xatum!KickMiner, Xatum!MinerLeaves, Xatum!PingFails, Xatum!PingKicks, Xatum!SubmitLeaks,
       Xatum!CountBegin, Xatum!CountEnd, Xatum!vars
<1>3. /\ IsFiniteSet(connections) /\ (~Xatum!Kicking => perIp = Cardinality(connections))
      /\ OneKicks /\ OpenIsListed /\ ListedIsKnown
    BY <1>2 DEF SInv, Exact
<1>4. /\ connections \subseteq Conn /\ open \subseteq Conn /\ QueueIsQueued /\ PingedIsServed
      /\ queue \in Seq(Conn)
      /\ handler \in [Conn -> {"none", "accepted", "listed", "queued", "reading", "stuck", "ended"}]
      /\ pinger \in [Conn -> {"off", "on", "kick"}] /\ seen \in [Conn -> SUBSET Conn]
    BY DEF SInv, Xatum!TypeOK
\* Neither the table nor a pinger's Kick is involved.
<1>5. ASSUME connections' = connections, perIp' = perIp, seen' = seen,
             \A c \in Conn : pinger'[c] = "kick" <=> pinger[c] = "kick",
             \A c \in Conn : pinger[c] = "kick" => c \notin open',
             OpenIsListed', ListedIsKnown'
      PROVE  Exact'
  <2>1. IsFiniteSet(connections)' /\ (~Xatum!Kicking => perIp = Cardinality(connections))'
    BY <1>3, <1>5 DEF Xatum!Kicking
  <2>2. OneKicks'
    BY <1>3, <1>5 DEF OneKicks
  <2>3. QED
    BY <1>5, <2>1, <2>2 DEF Exact
\* No pinger is inside its Kick, before and after.
<1>6. ASSUME ~Xatum!Kicking, pinger' = pinger, IsFiniteSet(connections'),
             perIp' = Cardinality(connections'), OpenIsListed', ListedIsKnown'
      PROVE  Exact'
  <2>1. OneKicks'
    BY <1>6 DEF OneKicks, Xatum!Kicking
  <2>2. QED
    BY <1>6, <2>1 DEF Exact
<1>7. CASE Xatum!Serve
  <2>1. Head(queue) \in Conn /\ handler[Head(queue)] = "queued"
    BY <1>4, <1>7 DEF Xatum!Serve, QueueIsQueued
  <2>2. pinger[Head(queue)] = "off"
    BY <1>4, <2>1 DEF PingedIsServed
  <2>3. OpenIsListed' /\ ListedIsKnown'
    BY <1>3, <1>4, <1>7, <2>1 DEF Xatum!Serve, OpenIsListed, ListedIsKnown
  <2>4. \A c \in Conn : pinger'[c] = "kick" <=> pinger[c] = "kick"
    BY <1>4, <1>7, <2>1, <2>2 DEF Xatum!Serve
  <2>5. QED
    BY <1>3, <1>5, <1>7, <2>3, <2>4 DEF Xatum!Serve, OneKicks
<1>8. ASSUME NEW c \in Conn, Xatum!Accept(c) PROVE Exact'
  <2>1. OpenIsListed' /\ ListedIsKnown'
    BY <1>3, <1>4, <1>8 DEF Xatum!Accept, OpenIsListed, ListedIsKnown
  <2>2. pinger[c] = "off"
    BY <1>4, <1>8 DEF Xatum!Accept, PingedIsServed
  <2>3. QED
    BY <1>3, <1>5, <1>8, <2>1, <2>2 DEF Xatum!Accept, OneKicks
<1>9. ASSUME NEW c \in Conn, Xatum!Refuse(c) \/ Xatum!MinerLeaves(c) \/ Xatum!DeadlineFails(c) \/ Xatum!QueueConnection(c) \/ Xatum!SubmitLeaks(c)
      PROVE  Exact'
  <2>1. OpenIsListed' /\ ListedIsKnown'
    BY <1>3, <1>4, <1>9 DEF Xatum!Refuse, Xatum!MinerLeaves, Xatum!DeadlineFails, Xatum!QueueConnection, Xatum!SubmitLeaks, OpenIsListed, ListedIsKnown
  <2>2. /\ connections' = connections /\ perIp' = perIp /\ seen' = seen /\ pinger' = pinger
        /\ open' \subseteq open
    BY <1>9 DEF Xatum!Refuse, Xatum!MinerLeaves, Xatum!DeadlineFails, Xatum!QueueConnection, Xatum!SubmitLeaks
  <2>3. QED
    BY <1>3, <1>5, <2>1, <2>2 DEF OneKicks
<1>10. ASSUME NEW c \in Conn, Xatum!ListConnection(c) PROVE Exact'
  <2>1. ~Xatum!Kicking
    BY <1>10 DEF Xatum!ListConnection, Xatum!Touch
  <2>2. c \notin connections
    BY <1>3, <1>10 DEF Xatum!ListConnection, ListedIsKnown
  <2>3. IsFiniteSet(connections') /\ perIp' = Cardinality(connections')
    BY <1>3, <1>10, <2>1, <2>2, FS_AddElement DEF Xatum!ListConnection
  <2>4. OpenIsListed' /\ ListedIsKnown'
    BY <1>3, <1>4, <1>10 DEF Xatum!ListConnection, OpenIsListed, ListedIsKnown
  <2>5. QED
    BY <1>6, <1>10, <2>1, <2>3, <2>4 DEF Xatum!ListConnection
<1>11. ASSUME NEW c \in Conn, Xatum!ReadFails(c) \/ Xatum!KickMiner(c) PROVE Exact'
  <2>1. ~Xatum!Kicking
    BY <1>11 DEF Xatum!ReadFails, Xatum!KickMiner, Xatum!Touch
  <2>2. /\ connections' = connections \ {c} /\ pinger' = pinger
        /\ perIp' = IF c \in connections THEN Xatum!Disconnected ELSE perIp
    BY <1>11 DEF Xatum!ReadFails, Xatum!KickMiner, Xatum!Kick
  <2>3. IsFiniteSet(connections') /\ perIp' = Cardinality(connections')
    BY <1>3, <2>1, <2>2, CountedOff
  <2>4. c \in open => c \in connections
    BY <1>3, <1>11 DEF OpenIsListed, Xatum!ReadFails, Xatum!KickMiner
  <2>5. open' = open \ {c} /\ \A d \in Conn : d # c => handler'[d] = handler[d]
    BY <1>4, <1>11, <2>4 DEF Xatum!ReadFails, Xatum!KickMiner, Xatum!Kick
  <2>6. OpenIsListed' /\ ListedIsKnown'
    BY <1>3, <1>4, <2>2, <2>5 DEF OpenIsListed, ListedIsKnown
  <2>7. QED
    BY <1>6, <2>1, <2>2, <2>3, <2>6
<1>12. ASSUME NEW c \in Conn, Xatum!PingFails(c) PROVE Exact'
  <2>1. ~Xatum!Kicking
    BY <1>12 DEF Xatum!PingFails, Xatum!Touch
  <2>2. /\ connections' = connections /\ pinger' = [pinger EXCEPT ![c] = "kick"]
        /\ seen' = [seen EXCEPT ![c] = connections] /\ open' = open /\ c \notin open
        /\ perIp' = IF c \in connections THEN Xatum!Disconnected ELSE perIp
        /\ handler' = handler
    BY <1>12 DEF Xatum!PingFails
  <2>3. perIp' = Cardinality(connections \ {c})
    BY <1>3, <2>1, <2>2, CountedOff
  <2>4. \A d \in Conn : pinger'[d] = "kick" => d = c
    BY <1>4, <2>1, <2>2 DEF Xatum!Kicking
  <2>5. OneKicks'
    BY <1>4, <2>2, <2>3, <2>4 DEF OneKicks
  <2>6. Xatum!Kicking'
    BY <1>4, <2>2 DEF Xatum!Kicking
  <2>7. OpenIsListed' /\ ListedIsKnown'
    BY <1>3, <2>2 DEF OpenIsListed, ListedIsKnown
  <2>8. IsFiniteSet(connections')
    BY <1>3, <2>2
  <2>9. QED
    BY <2>5, <2>6, <2>7, <2>8 DEF Exact
<1>13. ASSUME NEW c \in Conn, Xatum!PingKicks(c) PROVE Exact'
  <2>1. /\ pinger[c] = "kick" /\ connections' = seen[c] \ {c} /\ open' = open /\ perIp' = perIp
        /\ pinger' = [pinger EXCEPT ![c] = "off"] /\ handler' = handler
    BY <1>13 DEF Xatum!PingKicks
  <2>2. /\ seen[c] = connections /\ c \notin open /\ perIp = Cardinality(connections \ {c})
        /\ \A d \in Conn : pinger[d] = "kick" => d = c
    BY <1>3, <2>1 DEF OneKicks
  <2>3. IsFiniteSet(connections') /\ perIp' = Cardinality(connections')
    BY <1>3, <2>1, <2>2, FS_RemoveElement
  <2>4. OpenIsListed' /\ ListedIsKnown'
    BY <1>3, <2>1, <2>2 DEF OpenIsListed, ListedIsKnown
  <2>5. OneKicks'
    BY <1>4, <2>1, <2>2 DEF OneKicks
  <2>6. QED
    BY <2>3, <2>4, <2>5 DEF Exact
<1>14. CASE UNCHANGED Xatum!vars
    BY <1>3, <1>5, <1>14 DEF Xatum!vars, OneKicks, OpenIsListed, ListedIsKnown
<1>15. CASE Xatum!CountBegin \/ Xatum!CountEnd
    BY <1>3, <1>5, <1>15 DEF Xatum!CountBegin, Xatum!CountEnd, OneKicks, OpenIsListed, ListedIsKnown
<1>16. QED
    BY <1>7, <1>8, <1>9, <1>10, <1>11, <1>12, <1>13, <1>14, <1>15 DEF Xatum!Next, Xatum!Handle

\* SInv is inductive.
LEMMA XatumInvHolds == Xatum!Spec => []SInv
<1>1. Xatum!Init => SInv
    BY XatumInitInv, ServersAssumption
<1>2. SInv /\ [Xatum!Next]_(Xatum!vars) => SInv'
    BY XatumNextType, NextQueue, NextExact, ServersAssumption DEF SInv
<1>3. QED
    BY <1>1, <1>2, PTL DEF Xatum!Spec

\* The slots of the limit are the connections in the table, whoever kicks them
\* and how often, for every number of connections and every limit.
THEOREM XatumSlotsCorrect == Xatum!Spec => []XatumSlotsAreExact
<1>1. SInv => XatumSlotsAreExact
    BY SameCardinality DEF SInv, Exact, XatumSlotsAreExact, Xatum!SlotsAreExact
<1>2. QED
    BY <1>1, XatumInvHolds, PTL

\* sendJobs reaches every miner that is being served.
THEOREM XatumServedCorrect == Xatum!Spec => []XatumServedIsListed
<1>1. SInv => XatumServedIsListed
    BY DEF SInv, Exact, OpenIsListed, XatumServedIsListed, Xatum!ServedIsListed
<1>2. QED
    BY <1>1, XatumInvHolds, PTL

-----------------------------------------------------------------------------
(* The Stratum server.                                                     *)

\* What a connection is before it is appended: one at a time, in no list.
OneAppend ==
    /\ \A c \in appending : appending = {c} /\ session[c] = "none" /\ c \in alive
    /\ \A c \in conns \cup seen \cup kept : session[c] # "none"

\* The slots; an append that nothing has met still has the list in its hands.
StratumSlots ==
    /\ IsFiniteSet(conns) /\ IsFiniteSet(seen) /\ IsFiniteSet(kept) /\ perIp \in Nat
    /\ ~raced => /\ perIp = Cardinality(Stratum!Holders)
                 /\ appending # {} => seen = conns

\* The connections that are read and were not appended inside a sweep.
Read == {c \in alive \ overwritten : session[c] \in {"reading", "mining"}}

\* They are in the list, in the one an append writes and in the one a sweep writes.
ReadIsListed ==
    /\ Read \subseteq conns
    /\ appending # {} => Read \subseteq seen
    /\ sweeping # {} => Read \subseteq kept

TInv ==
    /\ session \in [Conn -> {"none", "reading", "mining", "ended"}]
    /\ OneAppend /\ StratumSlots /\ ReadIsListed

LEMMA StratumInit == Stratum!Init => TInv
<1> SUFFICES ASSUME Stratum!Init PROVE TInv
    OBVIOUS
<1>1. /\ conns = {} /\ appending = {} /\ seen = {} /\ perIp = 0 /\ alive = {}
      /\ sweeping = {} /\ kept = {} /\ session = [c \in Conn |-> "none"]
    BY DEF Stratum!Init
<1>2. IsFiniteSet({}) /\ Cardinality({}) = 0
    BY FS_EmptySet
<1>3. StratumSlots
  <2>1. Stratum!Holders = {}
    BY <1>1 DEF Stratum!Holders
  <2>2. QED
    BY <1>1, <1>2, <2>1 DEF StratumSlots
<1>4. ReadIsListed
    BY <1>1 DEF ReadIsListed, Read
<1>5. QED
    BY <1>1, <1>3, <1>4 DEF TInv, OneAppend

\* A step that leaves the list, the append, the sweep and the counter alone, and
\* begins reading no connection.
LEMMA StratumQuietStep ==
    ASSUME TInv, UNCHANGED <<conns, appending, seen, perIp, sweeping, kept, raced>>,
           NEW c \in Conn, c \notin appending,
           NEW place \in {"reading", "mining", "ended"},
           session' = [session EXCEPT ![c] = place],
           alive \ {c} \subseteq alive', alive' \ overwritten' \subseteq alive \ overwritten,
           place \in {"reading", "mining"} => session[c] \in {"reading", "mining"}
    PROVE  TInv'
<1>1. session \in [Conn -> {"none", "reading", "mining", "ended"}]
    BY DEF TInv
<1>2. session' \in [Conn -> {"none", "reading", "mining", "ended"}]
    BY <1>1
<1>3. OneAppend'
    BY <1>1 DEF TInv, OneAppend
<1>4. StratumSlots'
    BY DEF TInv, StratumSlots, Stratum!Holders
<1>5. Read' \subseteq Read
    BY <1>1 DEF Read
<1>6. ReadIsListed'
    BY <1>5 DEF TInv, ReadIsListed
<1>7. QED
    BY <1>2, <1>3, <1>4, <1>6 DEF TInv

\* Reading the list, the sweep takes the slots of connections that are not alive.
LEMMA StratumSweepBegin ==
    ASSUME TInv, NEW t, Stratum!SweepBegin(t) PROVE TInv'
<1>1. /\ sweeping = {} /\ sweeping' = {t} /\ kept' = conns \ Stratum!Dead
      /\ perIp' = Stratum!Disconnected
      /\ UNCHANGED <<conns, appending, seen, session, alive, raced, overwritten>>
    BY DEF Stratum!SweepBegin, Stratum!Free, Stratum!raceVars
<1>2. /\ IsFiniteSet(conns) /\ IsFiniteSet(seen) /\ perIp \in Nat /\ Stratum!Dead \subseteq conns
      /\ Stratum!Dead \cap alive = {}
    BY DEF TInv, StratumSlots, Stratum!Dead
<1>3. IsFiniteSet(appending)
  <2>1. CASE appending = {}
    BY <2>1, FS_EmptySet
  <2>2. ASSUME NEW c \in appending PROVE IsFiniteSet(appending)
    <3>1. appending = {c}
      BY <2>2 DEF TInv, OneAppend
    <3>2. IsFiniteSet({c})
      BY FS_Singleton
    <3>3. QED
      BY <3>1, <3>2
  <2>3. QED
    BY <2>1, <2>2
<1>4. IsFiniteSet(conns \cup appending)
    BY <1>2, <1>3, FS_Union
<1>5. /\ IsFiniteSet(Stratum!Dead) /\ Cardinality(Stratum!Dead) \in Nat
      /\ IsFiniteSet(kept') /\ Cardinality(conns \cup appending) \in Nat
  <2>1. IsFiniteSet(Stratum!Dead)
    BY <1>2, FS_Subset
  <2>2. IsFiniteSet(kept')
    BY <1>1, <1>2, FS_Subset
  <2>3. QED
    BY <1>4, <2>1, <2>2, FS_CardinalityType
<1>6. Cardinality(Stratum!Dead) <= Cardinality(conns \cup appending)
    BY <1>2, <1>4, FS_Subset
<1>7. Cardinality(Stratum!Holders') = Cardinality(conns \cup appending) - Cardinality(Stratum!Dead)
  <2>1. Cardinality((conns \cup appending) \ Stratum!Dead)
          = Cardinality(conns \cup appending) - Cardinality((conns \cup appending) \cap Stratum!Dead)
    BY <1>4, FS_Difference
  <2>2. (conns \cup appending) \cap Stratum!Dead = Stratum!Dead
    BY <1>2
  <2>3. appending \subseteq alive
    BY DEF TInv, OneAppend
  <2>4. Stratum!Holders' = (conns \cup appending) \ Stratum!Dead
    BY <1>1, <1>2, <2>3 DEF Stratum!Holders
  <2>5. QED
    BY <2>1, <2>2, <2>4
<1>8. perIp' = IF perIp > Cardinality(Stratum!Dead) THEN perIp - Cardinality(Stratum!Dead) ELSE 0
    BY <1>1, SameCardinality DEF Stratum!Disconnected
<1>9. StratumSlots'
  <2>1. perIp' \in Nat
    BY <1>2, <1>5, <1>8
  <2>2. ASSUME ~raced' PROVE perIp' = Cardinality(Stratum!Holders')
    <3>1. perIp = Cardinality(conns \cup appending)
      BY <1>1, <2>2 DEF TInv, StratumSlots, Stratum!Holders
    <3>2. QED
      BY <1>5, <1>6, <1>7, <1>8, <3>1
  <2>3. ~raced' => (appending # {} => seen = conns)'
    BY <1>1 DEF TInv, StratumSlots
  <2>4. QED
    BY <1>1, <1>2, <1>5, <2>1, <2>2, <2>3 DEF StratumSlots
<1>10. OneAppend'
    BY <1>1, <1>2 DEF TInv, OneAppend
<1>11. ReadIsListed'
  <2>1. Read' = Read /\ Read \subseteq alive
    BY <1>1 DEF Read
  <2>2. Read \subseteq conns \ Stratum!Dead
    BY <1>2, <2>1 DEF TInv, ReadIsListed
  <2>3. QED
    BY <1>1, <2>1, <2>2 DEF TInv, ReadIsListed
<1>12. QED
    BY <1>1, <1>9, <1>10, <1>11 DEF TInv

\* Writing the list, it may drop a connection that was appended meanwhile.
LEMMA StratumSweepEnd ==
    ASSUME TInv, NEW t, Stratum!SweepEnd(t) PROVE TInv'
<1>1. /\ sweeping # {} /\ sweeping' = {} /\ conns' = kept /\ kept' = {}
      /\ raced' = (raced \/ appending # {})
      /\ UNCHANGED <<appending, seen, perIp, session, alive, overwritten>>
    BY DEF Stratum!SweepEnd
<1>2. Read' = Read
    BY <1>1 DEF Read
<1>3. ReadIsListed'
    BY <1>1, <1>2 DEF TInv, ReadIsListed
<1>4. OneAppend'
    BY <1>1 DEF TInv, OneAppend
<1>5. StratumSlots'
  <2>1. ASSUME ~raced' PROVE Stratum!Holders' = Stratum!Holders /\ ~raced /\ appending' = {}
    BY <1>1, <2>1 DEF Stratum!Holders
  <2>2. IsFiniteSet(kept')
    BY <1>1, FS_EmptySet
  <2>3. QED
    BY <1>1, <2>1, <2>2 DEF TInv, StratumSlots
<1>6. QED
    BY <1>1, <1>3, <1>4, <1>5 DEF TInv

LEMMA StratumNext == TInv /\ [Stratum!Next]_(Stratum!vars) => TInv'
<1> SUFFICES ASSUME TInv, [Stratum!Next]_(Stratum!vars) PROVE TInv'
    OBVIOUS
<1>1. /\ session \in [Conn -> {"none", "reading", "mining", "ended"}]
      /\ IsFiniteSet(conns) /\ IsFiniteSet(seen) /\ IsFiniteSet(kept) /\ perIp \in Nat
    BY DEF TInv, StratumSlots
\* Whoever only locks, pings, counts or sends.
<1>2. ASSUME UNCHANGED <<conns, appending, seen, perIp, session, alive, sweeping, kept, raced, overwritten>>
      PROVE  TInv'
    BY <1>2 DEF TInv, OneAppend, StratumSlots, ReadIsListed, Read, Stratum!Holders
<1>3. ASSUME NEW c \in Conn, Stratum!Refuse(c) PROVE TInv'
  <2>1. /\ c \notin appending /\ session' = [session EXCEPT ![c] = "ended"]
        /\ UNCHANGED <<conns, appending, seen, perIp, sweeping, kept, raced, overwritten, alive>>
    BY <1>3 DEF Stratum!Refuse, Stratum!listVars, Stratum!jobVars, Stratum!raceVars
  <2>2. QED
    BY <2>1, StratumQuietStep
<1>4. ASSUME NEW c \in Conn, Stratum!Accept(c) PROVE TInv'
  <2>1. /\ session[c] = "none" /\ appending = {} /\ perIp' = perIp + 1
        /\ appending' = {c} /\ seen' = conns /\ alive' = alive \cup {c}
        /\ UNCHANGED <<conns, session, sweeping, kept, raced, overwritten>>
    BY <1>4 DEF Stratum!Accept, Stratum!jobVars, Stratum!raceVars
  <2>2. c \notin conns /\ c \notin kept
    BY <2>1 DEF TInv, OneAppend
  <2>3. StratumSlots'
    <3>1. Stratum!Holders' = Stratum!Holders \cup {c} /\ c \notin Stratum!Holders
      BY <2>1, <2>2 DEF Stratum!Holders
    <3>2. IsFiniteSet(Stratum!Holders)
      BY <1>1, <2>1 DEF Stratum!Holders
    <3>3. Cardinality(Stratum!Holders') = Cardinality(Stratum!Holders) + 1
      BY <3>1, <3>2, FS_AddElement
    <3>4. ~raced => perIp = Cardinality(Stratum!Holders)
      BY DEF TInv, StratumSlots
    <3>5. QED
      BY <1>1, <2>1, <3>3, <3>4 DEF StratumSlots
  <2>4. OneAppend'
    BY <2>1 DEF TInv, OneAppend
  <2>5. Read' \subseteq Read
    BY <2>1 DEF Read
  <2>6. ReadIsListed'
    BY <2>1, <2>5 DEF TInv, ReadIsListed
  <2>7. QED
    BY <1>1, <2>1, <2>3, <2>4, <2>6 DEF TInv
<1>5. ASSUME NEW c \in Conn, Stratum!AppendConn(c) PROVE TInv'
  <2>1. /\ c \in appending /\ conns' = seen \cup {c} /\ appending' = {} /\ seen' = {}
        /\ session' = [session EXCEPT ![c] = "reading"]
        /\ UNCHANGED <<perIp, alive, sweeping, kept>>
    BY <1>5 DEF Stratum!AppendConn, Stratum!jobVars
  <2>2. IF sweeping # {} THEN raced' = TRUE /\ overwritten' = overwritten \cup {c}
        ELSE raced' = raced /\ overwritten' = overwritten
    BY <1>5 DEF Stratum!AppendConn, Stratum!raceVars
  <2>3. appending = {c} /\ session[c] = "none"
    BY <2>1 DEF TInv, OneAppend
  <2>4. StratumSlots'
    <3>1. ASSUME ~raced' PROVE ~raced /\ Stratum!Holders' = Stratum!Holders
      <4>1. sweeping = {} /\ ~raced
        BY <2>2, <3>1
      <4>2. seen = conns
        BY <2>3, <4>1 DEF TInv, StratumSlots
      <4>3. QED
        BY <2>1, <2>3, <4>1, <4>2 DEF Stratum!Holders
    <3>2. IsFiniteSet(conns')
      BY <1>1, <2>1, FS_AddElement
    <3>3. IsFiniteSet(seen')
      BY <2>1, FS_EmptySet
    <3>4. QED
      BY <1>1, <2>1, <3>1, <3>2, <3>3 DEF TInv, StratumSlots
  <2>5. OneAppend'
    BY <1>1, <2>1, <2>3 DEF TInv, OneAppend
  <2>6. Read' \subseteq Read \cup {c} /\ (sweeping # {} => Read' \subseteq Read)
    BY <1>1, <2>1, <2>2 DEF Read
  <2>7. ReadIsListed'
    BY <2>1, <2>3, <2>6 DEF TInv, ReadIsListed
  <2>8. QED
    BY <1>1, <2>1, <2>4, <2>5, <2>7 DEF TInv
<1>6. ASSUME NEW c \in Conn, Stratum!Authorize(c) PROVE TInv'
  <2>1. /\ session[c] = "reading" /\ session' = [session EXCEPT ![c] = "mining"]
        /\ UNCHANGED <<conns, appending, seen, perIp, sweeping, kept, raced, overwritten, alive>>
    BY <1>6 DEF Stratum!Authorize, Stratum!listVars, Stratum!jobVars, Stratum!raceVars
  <2>2. c \notin appending
    BY <2>1 DEF TInv, OneAppend
  <2>3. QED
    BY <2>1, <2>2, StratumQuietStep
<1>7. ASSUME NEW c \in Conn, Stratum!Leave(c) PROVE TInv'
  <2>1. /\ session[c] # "none" /\ session' = [session EXCEPT ![c] = "ended"]
        /\ UNCHANGED <<conns, appending, seen, perIp, sweeping, kept, raced>>
        /\ alive' = alive \ {c} /\ overwritten' = overwritten \ {c}
    BY <1>7 DEF Stratum!Leave, Stratum!listVars, Stratum!jobVars
  <2>2. c \notin appending
    BY <2>1 DEF TInv, OneAppend
  <2>3. QED
    BY <2>1, <2>2, StratumQuietStep
<1>8. ASSUME NEW t, Stratum!SweepBegin(t) \/ Stratum!SweepEnd(t) PROVE TInv'
    BY <1>8, StratumSweepBegin, StratumSweepEnd
<1>9. CASE Stratum!Pinger \/ Stratum!CountBegin \/ Stratum!CountEnd \/ Stratum!NewJob \/ Stratum!StoreLastJob
    BY <1>2, <1>9 DEF Stratum!Pinger, Stratum!PingBegin, Stratum!Ping, Stratum!PingEnd,
        Stratum!CountBegin, Stratum!CountEnd, Stratum!NewJob, Stratum!StoreLastJob,
        Stratum!listVars, Stratum!jobVars, Stratum!raceVars
<1>10. ASSUME NEW c \in Conn, Stratum!SubmitStale(c) \/ \E t \in 1 .. MaxJob : Stratum!SendJob(c, t)
       PROVE  TInv'
    BY <1>2, <1>10 DEF Stratum!SubmitStale, Stratum!SendJob, Stratum!listVars, Stratum!jobVars,
        Stratum!raceVars
<1>11. CASE UNCHANGED Stratum!vars
    BY <1>2, <1>11 DEF Stratum!vars
<1>12. ASSUME NEW c \in Conn, Stratum!KickMiner(c) PROVE TInv'
    BY <1>7, <1>12 DEF Stratum!KickMiner
<1>13. QED
    BY <1>3, <1>4, <1>5, <1>6, <1>7, <1>8, <1>9, <1>10, <1>11, <1>12 DEF Stratum!Next

LEMMA StratumInvHolds == Stratum!Spec => []TInv
    BY StratumInit, StratumNext, PTL DEF Stratum!Spec

\* The slots of the limit are the listed connections and the one being appended,
\* however accepts, readers that end and sweeps interleave, until an append and a
\* sweep overwrite each other.
THEOREM StratumSlotsCorrect == Stratum!Spec => []StratumSlotsAreExact
<1>1. TInv => StratumSlotsAreExact
  <2> SUFFICES ASSUME TInv, ~raced PROVE perIp = Stratum!Cardinality(Stratum!Holders)
      BY DEF StratumSlotsAreExact, Stratum!SlotsAreExact
  <2>1. perIp = Cardinality(Stratum!Holders)
      BY DEF TInv, StratumSlots
  <2>2. QED
      BY <2>1, SameCardinality
<1>2. QED
    BY <1>1, StratumInvHolds, PTL

\* Of the connections that are read, only those appended inside a sweep can be
\* missing from the list, however many sweeps and appends overwrite each other.
THEOREM StratumListedCorrect == Stratum!Spec => []StratumMinersAreListed
<1>1. TInv => StratumMinersAreListed
    BY DEF TInv, ReadIsListed, Read, StratumMinersAreListed, Stratum!MinersAreListed
<1>2. QED
    BY <1>1, StratumInvHolds, PTL

-----------------------------------------------------------------------------
(* The GetWork server: the slots.                                          *)

\* The requests that are being checked.
Admitted == {c \in Conn : session[c] = "admitted"}

\* Requests hold a slot before they are listed; a listed connection is past
\* that, so no slot is counted twice.
GetworkSlots ==
    /\ session \in [Conn -> {"none", "admitted", "listed", "upgraded", "reading",
                             "writing", "stuck", "ended"}]
    /\ perIp \in Nat /\ wasted \in Nat
    /\ IsFiniteSet(conns) /\ IsFiniteSet(Admitted)
    /\ perIp = Cardinality(conns) + Cardinality(Admitted) + wasted
    /\ \A c \in conns : session[c] \notin {"none", "admitted"}

LEMMA GetworkSlotsInit == Getwork!Init => GetworkSlots
<1> SUFFICES ASSUME Getwork!Init PROVE GetworkSlots
    OBVIOUS
<1>1. /\ conns = {} /\ perIp = 0 /\ wasted = 0 /\ session = [c \in Conn |-> "none"]
    BY DEF Getwork!Init
<1>2. Admitted = {}
    BY <1>1 DEF Admitted
<1>3. QED
    BY <1>1, <1>2, FS_EmptySet DEF GetworkSlots

\* A handler goes on that neither was admitted nor is now.
LEMMA HandlerMoves ==
    ASSUME GetworkSlots, UNCHANGED <<conns, perIp, wasted>>, NEW c \in Conn,
           session[c] # "admitted",
           NEW place \in {"listed", "upgraded", "reading", "writing", "stuck", "ended"},
           session' = [session EXCEPT ![c] = place]
    PROVE  GetworkSlots'
<1>1. session \in [Conn -> {"none", "admitted", "listed", "upgraded", "reading",
                            "writing", "stuck", "ended"}]
    BY DEF GetworkSlots
<1>2. session' \in [Conn -> {"none", "admitted", "listed", "upgraded", "reading",
                             "writing", "stuck", "ended"}]
    BY <1>1
<1>3. Admitted' = Admitted
    BY <1>1 DEF Admitted
<1>4. QED
    BY <1>1, <1>2, <1>3 DEF GetworkSlots

LEMMA SlotsUnmoved ==
    ASSUME GetworkSlots, UNCHANGED <<conns, perIp, wasted, session>> PROVE GetworkSlots'
    BY DEF GetworkSlots, Admitted

\* An admitted request that is listed or refused is one fewer that is admitted.
LEMMA OneFewerAdmitted ==
    ASSUME GetworkSlots, NEW c \in Conn, session[c] = "admitted",
           NEW place \in {"listed", "ended"}, session' = [session EXCEPT ![c] = place]
    PROVE  /\ Admitted' = Admitted \ {c} /\ IsFiniteSet(Admitted')
           /\ Cardinality(Admitted) \in Nat
           /\ Cardinality(Admitted') = Cardinality(Admitted) - 1
           /\ session' \in [Conn -> {"none", "admitted", "listed", "upgraded", "reading",
                                     "writing", "stuck", "ended"}]
<1>1. session \in [Conn -> {"none", "admitted", "listed", "upgraded", "reading",
                            "writing", "stuck", "ended"}]
    BY DEF GetworkSlots
<1>2. Admitted' = Admitted \ {c} /\ c \in Admitted
    BY <1>1 DEF Admitted
<1>3. IsFiniteSet(Admitted)
    BY DEF GetworkSlots
<1>4. QED
    BY <1>1, <1>2, <1>3, FS_RemoveElement, FS_CardinalityType

\* The sweep takes away connections that are not alive, and their slots.
LEMMA GetworkSweep ==
    ASSUME GetworkSlots, NEW t, Getwork!Sweep(t) PROVE GetworkSlots'
<1>1. /\ conns' = conns \ Getwork!Dead /\ perIp' = Getwork!Disconnected
      /\ session' = session /\ wasted' = wasted
    BY DEF Getwork!Sweep, Getwork!sessionVars
<1>2. /\ IsFiniteSet(conns) /\ IsFiniteSet(Admitted) /\ wasted \in Nat /\ perIp \in Nat
      /\ perIp = Cardinality(conns) + Cardinality(Admitted) + wasted
      /\ Getwork!Dead \subseteq conns
    BY DEF GetworkSlots, Getwork!Dead
<1>3. /\ Cardinality(Getwork!Dead) \in Nat /\ IsFiniteSet(conns')
      /\ Cardinality(conns) \in Nat /\ Cardinality(Admitted) \in Nat
      /\ Cardinality(Getwork!Dead) <= Cardinality(conns)
    BY <1>1, <1>2, FS_Subset, FS_CardinalityType
<1>4. Cardinality(conns') = Cardinality(conns) - Cardinality(Getwork!Dead)
  <2>1. Cardinality(conns \ Getwork!Dead)
          = Cardinality(conns) - Cardinality(conns \cap Getwork!Dead)
    BY <1>2, FS_Difference
  <2>2. conns \cap Getwork!Dead = Getwork!Dead
    BY <1>2
  <2>3. QED
    BY <1>1, <2>1, <2>2
<1>5. perIp' = IF perIp > Cardinality(Getwork!Dead) THEN perIp - Cardinality(Getwork!Dead) ELSE 0
    BY <1>1, SameCardinality DEF Getwork!Disconnected
<1>6. Admitted' = Admitted
    BY <1>1 DEF Admitted
<1>7. perIp' \in Nat /\ perIp' = Cardinality(conns') + Cardinality(Admitted') + wasted'
  <2>1. perIp' = perIp - Cardinality(Getwork!Dead)
    BY <1>2, <1>3, <1>5
  <2>2. Cardinality(Admitted') = Cardinality(Admitted) /\ wasted' = wasted
    BY <1>1, <1>6
  <2>3. QED
    BY <1>2, <1>3, <1>4, <2>1, <2>2
<1>8. QED
    BY <1>1, <1>2, <1>3, <1>6, <1>7 DEF GetworkSlots

LEMMA GetworkSlotsNext == GetworkSlots /\ [Getwork!Next]_(Getwork!vars) => GetworkSlots'
<1> SUFFICES ASSUME GetworkSlots, [Getwork!Next]_(Getwork!vars) PROVE GetworkSlots'
    OBVIOUS
<1>1. /\ session \in [Conn -> {"none", "admitted", "listed", "upgraded", "reading",
                               "writing", "stuck", "ended"}]
      /\ IsFiniteSet(conns) /\ IsFiniteSet(Admitted) /\ perIp \in Nat /\ wasted \in Nat
      /\ perIp = Cardinality(conns) + Cardinality(Admitted) + wasted
      /\ \A c \in conns : session[c] \notin {"none", "admitted"}
    BY DEF GetworkSlots
<1>2. Cardinality(conns) \in Nat /\ Cardinality(Admitted) \in Nat
    BY <1>1, FS_CardinalityType
<1>3. ASSUME NEW c \in Conn, Getwork!Admit(c) PROVE GetworkSlots'
  <2>1. /\ session[c] = "none" /\ perIp' = perIp + 1 /\ session' = [session EXCEPT ![c] = "admitted"]
        /\ conns' = conns /\ wasted' = wasted
    BY <1>3 DEF Getwork!Admit, Getwork!Goto
  <2>2. Admitted' = Admitted \cup {c} /\ c \notin Admitted
    BY <1>1, <2>1 DEF Admitted
  <2>3. IsFiniteSet(Admitted') /\ Cardinality(Admitted') = Cardinality(Admitted) + 1
    BY <1>1, <2>2, FS_AddElement
  <2>4. perIp' \in Nat /\ perIp' = Cardinality(conns') + Cardinality(Admitted') + wasted'
    BY <1>1, <1>2, <2>1, <2>3
  <2>5. \A d \in conns' : session'[d] \notin {"none", "admitted"}
    BY <1>1, <2>1
  <2>6. QED
    BY <1>1, <2>1, <2>3, <2>4, <2>5 DEF GetworkSlots
<1>4. ASSUME NEW c \in Conn, Getwork!RefuseRequest(c) PROVE GetworkSlots'
  <2>1. /\ session[c] = "admitted" /\ wasted' = wasted + 1
        /\ session' = [session EXCEPT ![c] = "ended"] /\ conns' = conns /\ perIp' = perIp
    BY <1>4 DEF Getwork!RefuseRequest, Getwork!Goto
  <2>2. perIp' = Cardinality(conns') + Cardinality(Admitted') + wasted' /\ wasted' \in Nat
    <3>1. Cardinality(Admitted') = Cardinality(Admitted) - 1
      BY <2>1, OneFewerAdmitted
    <3>2. Cardinality(conns') = Cardinality(conns)
      BY <2>1
    <3>3. QED
      BY <1>1, <1>2, <2>1, <3>1, <3>2
  <2>3. \A d \in conns' : session'[d] \notin {"none", "admitted"}
    BY <1>1, <2>1
  <2>4. QED
    BY <1>1, <2>1, <2>2, <2>3, OneFewerAdmitted DEF GetworkSlots
<1>5. ASSUME NEW c \in Conn, Getwork!ListConn(c) PROVE GetworkSlots'
  <2>1. /\ session[c] = "admitted" /\ conns' = conns \cup {c}
        /\ session' = [session EXCEPT ![c] = "listed"] /\ perIp' = perIp /\ wasted' = wasted
    BY <1>5 DEF Getwork!ListConn, Getwork!Goto
  <2>2. c \notin conns
    BY <1>1, <2>1
  <2>3. IsFiniteSet(conns') /\ Cardinality(conns') = Cardinality(conns) + 1
    BY <1>1, <2>1, <2>2, FS_AddElement
  <2>4. perIp' = Cardinality(conns') + Cardinality(Admitted') + wasted'
    <3>1. Cardinality(Admitted') = Cardinality(Admitted) - 1
      BY <2>1, OneFewerAdmitted
    <3>2. QED
      BY <1>1, <1>2, <2>1, <2>3, <3>1
  <2>5. \A d \in conns' : session'[d] \notin {"none", "admitted"}
    BY <1>1, <2>1
  <2>6. QED
    BY <1>1, <2>1, <2>3, <2>4, <2>5, OneFewerAdmitted DEF GetworkSlots
<1>6. ASSUME NEW c \in Conn, Getwork!Reconnect(c) PROVE GetworkSlots'
  <2>1. /\ session[c] = "ended" /\ c \notin conns /\ session' = [session EXCEPT ![c] = "none"]
        /\ conns' = conns /\ perIp' = perIp /\ wasted' = wasted
    BY <1>6 DEF Getwork!Reconnect, Getwork!Goto
  <2>2. Admitted' = Admitted
    BY <1>1, <2>1 DEF Admitted
  <2>3. QED
    BY <1>1, <2>1, <2>2 DEF GetworkSlots
<1>7. ASSUME NEW c \in Conn,
             \/ Getwork!RefuseFull(c) \/ Getwork!Upgrade(c) \/ Getwork!UpgradeFails(c)
             \/ Getwork!NoFirstJob(c) \/ Getwork!FirstJob(c) \/ Getwork!ReadFails(c)
             \/ Getwork!BadPacket(c) \/ Getwork!SubmitLeaks(c) \/ Getwork!TakeJobToSend(c)
             \/ Getwork!SendJobToSend(c) \/ Getwork!SendJobToSendPanics(c)
      PROVE  GetworkSlots'
  <2>1. session[c] # "admitted"
    BY <1>7 DEF Getwork!RefuseFull, Getwork!Upgrade, Getwork!UpgradeFails, Getwork!NoFirstJob,
        Getwork!FirstJob, Getwork!ReadFails, Getwork!BadPacket, Getwork!SubmitLeaks,
        Getwork!TakeJobToSend, Getwork!SendJobToSend, Getwork!SendJobToSendPanics
  <2>2. /\ UNCHANGED <<conns, perIp, wasted>>
        /\ \E place \in {"listed", "upgraded", "reading", "writing", "stuck", "ended"} :
               session' = [session EXCEPT ![c] = place]
    BY <1>7 DEF Getwork!RefuseFull, Getwork!Upgrade, Getwork!UpgradeFails, Getwork!NoFirstJob,
        Getwork!FirstJob, Getwork!ReadFails, Getwork!BadPacket, Getwork!SubmitLeaks,
        Getwork!TakeJobToSend, Getwork!SendJobToSend, Getwork!SendJobToSendPanics,
        Getwork!Goto, Getwork!CloseAndEnd, Getwork!listVars
  <2>3. QED
    BY <2>1, <2>2, HandlerMoves
<1>8. ASSUME NEW t, Getwork!Sweep(t) PROVE GetworkSlots'
    BY <1>8, GetworkSweep
<1>9. ASSUME NEW c, NEW t, Getwork!SendPanics(c, t) PROVE GetworkSlots'
  <2>1. /\ conns' = {} /\ perIp' = 0 /\ wasted' = 0 /\ session' = [d \in Conn |-> "none"]
    BY <1>9 DEF Getwork!SendPanics
  <2>2. Admitted' = {}
    BY <2>1 DEF Admitted
  <2>3. QED
    BY <2>1, <2>2, FS_EmptySet DEF GetworkSlots
<1>10. ASSUME NEW c, NEW t, Getwork!SendJob(c, t) \/ Getwork!SendFails(c, t) PROVE GetworkSlots'
    BY <1>10, SlotsUnmoved DEF Getwork!SendJob, Getwork!SendFails, Getwork!listVars, Getwork!sessionVars
<1>11. ASSUME NEW c \in Conn, Getwork!KickConn(c) \/ Getwork!MinerLeaves(c) PROVE GetworkSlots'
    BY <1>11, SlotsUnmoved DEF Getwork!KickConn, Getwork!MinerLeaves, Getwork!listVars
<1>12. CASE \/ Getwork!NewTemplate \/ Getwork!StoreLastJob \/ Getwork!CountBegin \/ Getwork!CountEnd
            \/ UNCHANGED Getwork!vars
    BY <1>12, SlotsUnmoved DEF Getwork!NewTemplate, Getwork!StoreLastJob, Getwork!vars,
        Getwork!CountBegin, Getwork!CountEnd,
        Getwork!listVars, Getwork!sessionVars
<1>13. QED
    BY <1>3, <1>4, <1>5, <1>6, <1>7, <1>8, <1>9, <1>10, <1>11, <1>12
    DEF Getwork!Next, Getwork!Handle, Getwork!Send

\* Every slot is a connection in the list, a request that is being checked or
\* one that was refused, for every number of connections and every limit.
THEOREM GetworkSlotsCorrect == Getwork!Spec => []GetworkSlotsAreExact
<1>1. GetworkSlots => GetworkSlotsAreExact
  <2> SUFFICES ASSUME GetworkSlots
               PROVE  perIp = Getwork!Cardinality(conns) + Getwork!Cardinality(Admitted) + wasted
      BY DEF GetworkSlotsAreExact, Getwork!SlotsAreExact, Admitted
  <2>1. QED
      BY SameCardinality DEF GetworkSlots
<1>2. QED
    BY <1>1, GetworkSlotsInit, GetworkSlotsNext, PTL DEF Getwork!Spec

-----------------------------------------------------------------------------
(* The GetWork server: types.                                              *)

LEMMA GetworkInitType == ASSUME Getwork!GetworkConstants PROVE Getwork!Init => Getwork!TypeOK
<1> SUFFICES ASSUME Getwork!Init PROVE Getwork!TypeOK
    OBVIOUS
<1>1. 0 \in 0 .. MaxJob /\ 0 \in 0 .. MaxPerIp + 1
    BY DEF Getwork!GetworkConstants
<1>2. crashed \in BOOLEAN /\ counting \in BOOLEAN
    BY DEF Getwork!Init
<1>3. QED
    BY <1>1, <1>2 DEF Getwork!Init, Getwork!TypeOK

\* The counters never exceed the limit by more than one.
LEMMA GetworkCounters ==
    ASSUME Getwork!GetworkConstants, Getwork!TypeOK, GetworkSlots, GetworkSlots', Getwork!Next
    PROVE  perIp' \in 0 .. MaxPerIp + 1 /\ wasted' \in 0 .. MaxPerIp + 1
<1>1. MaxPerIp \in Nat /\ perIp \in 0 .. MaxPerIp + 1
    BY DEF Getwork!GetworkConstants, Getwork!TypeOK
<1>2. perIp' \in Nat /\ perIp' <= MaxPerIp + 1
  <2> DEFINE Fits == perIp' <= MaxPerIp + 1
  <2>1. perIp' \in Nat
    BY DEF GetworkSlots
  <2>2. ASSUME NEW c \in Conn, Getwork!Admit(c) PROVE Fits
    BY <1>1, <2>2 DEF Getwork!Admit, Getwork!CanConnect
  <2>3. ASSUME NEW t, Getwork!Sweep(t) PROVE Fits
    <3>1. perIp' = Getwork!Disconnected /\ Getwork!Dead \subseteq conns /\ IsFiniteSet(conns)
      BY <2>3 DEF Getwork!Sweep, Getwork!Dead, GetworkSlots
    <3>2. Cardinality(Getwork!Dead) \in Nat
      BY <3>1, FS_Subset, FS_CardinalityType
    <3>3. perIp' = IF perIp > Cardinality(Getwork!Dead) THEN perIp - Cardinality(Getwork!Dead) ELSE 0
      BY <3>1, SameCardinality DEF Getwork!Disconnected
    <3>4. QED
      BY <1>1, <3>2, <3>3
  <2>4. ASSUME NEW c, NEW t, Getwork!SendPanics(c, t) PROVE Fits
    <3>1. perIp' = 0
      BY <2>4 DEF Getwork!SendPanics
    <3>2. QED
      BY <1>1, <3>1
  <2>5. ASSUME perIp' = perIp PROVE Fits
    BY <1>1, <2>5
  <2>6. ASSUME NEW c \in Conn,
               \/ Getwork!Reconnect(c) \/ Getwork!BadPacket(c) \/ Getwork!KickConn(c)
               \/ Getwork!SubmitLeaks(c) \/ Getwork!TakeJobToSend(c) \/ Getwork!MinerLeaves(c)
               \/ Getwork!Handle(c)
        PROVE  Fits
    BY <2>5, <2>6 DEF Getwork!Reconnect, Getwork!BadPacket, Getwork!KickConn, Getwork!SubmitLeaks,
        Getwork!TakeJobToSend, Getwork!MinerLeaves, Getwork!Handle, Getwork!RefuseFull,
        Getwork!RefuseRequest, Getwork!ListConn, Getwork!Upgrade, Getwork!UpgradeFails,
        Getwork!NoFirstJob, Getwork!FirstJob, Getwork!ReadFails, Getwork!SendJobToSend,
        Getwork!SendJobToSendPanics, Getwork!listVars
  <2>7. ASSUME NEW c, NEW t, Getwork!SendJob(c, t) \/ Getwork!SendFails(c, t)
        PROVE  Fits
    BY <2>5, <2>7 DEF Getwork!SendJob, Getwork!SendFails, Getwork!listVars
  <2>8. ASSUME Getwork!NewTemplate \/ Getwork!StoreLastJob \/ Getwork!CountBegin \/ Getwork!CountEnd
        PROVE  Fits
    BY <2>5, <2>8 DEF Getwork!NewTemplate, Getwork!StoreLastJob, Getwork!CountBegin,
        Getwork!CountEnd, Getwork!listVars
  <2>9. Fits
    <3> HIDE DEF Fits
    <3> QED BY <2>2, <2>3, <2>4, <2>6, <2>7, <2>8 DEF Getwork!Next, Getwork!Send
  <2>10. QED
    BY <2>1, <2>9
<1>3. wasted' \in Nat /\ wasted' <= perIp'
  <2>1. /\ IsFiniteSet(conns') /\ IsFiniteSet(Admitted') /\ wasted' \in Nat /\ perIp' \in Nat
        /\ perIp' = Cardinality(conns') + Cardinality(Admitted') + wasted'
    BY DEF GetworkSlots
  <2>2. Cardinality(conns') \in Nat /\ Cardinality(Admitted') \in Nat
    BY <2>1, FS_CardinalityType
  <2>3. QED
    BY <2>1, <2>2
<1>4. QED
    BY <1>1, <1>2, <1>3

\* The rest of the types, one action at a time.
LEMMA GetworkNextType ==
    ASSUME Getwork!GetworkConstants
    PROVE  Getwork!TypeOK /\ GetworkSlots /\ GetworkSlots' /\ [Getwork!Next]_(Getwork!vars)
             => Getwork!TypeOK'
<1> SUFFICES ASSUME Getwork!TypeOK, GetworkSlots, GetworkSlots', [Getwork!Next]_(Getwork!vars)
             PROVE  Getwork!TypeOK'
    OBVIOUS
<1>1. CASE UNCHANGED Getwork!vars
    BY <1>1 DEF Getwork!TypeOK, Getwork!vars, Getwork!listVars, Getwork!sessionVars,
        Getwork!jobVars, Getwork!sentVars, Getwork!slaveVars
<1>2. CASE Getwork!Next
  <2>1. perIp' \in 0 .. MaxPerIp + 1 /\ wasted' \in 0 .. MaxPerIp + 1
    BY <1>2, GetworkCounters
  <2>2. session' \in [Conn -> {"none", "admitted", "listed", "upgraded", "reading",
                               "writing", "stuck", "ended"}]
    BY DEF GetworkSlots
  <2>3. ASSUME /\ conns' \subseteq Conn /\ alive' \subseteq Conn /\ leaked' \subseteq Conn
               /\ sock' \in [Conn -> {"nil", "open", "gone", "closed"}]
               /\ resend' \in [Conn -> 0 .. MaxJob] /\ got' \in [Conn -> 0 .. MaxJob]
               /\ newest' \in 0 .. MaxJob /\ lastKnown' \in 0 .. MaxJob
               /\ broadcast' \subseteq Getwork!Jobs /\ senders' \subseteq Conn \X Getwork!Jobs
               /\ behind' \subseteq Conn /\ crashed' \in BOOLEAN /\ counting' \in BOOLEAN
        PROVE  Getwork!TypeOK'
    BY <2>1, <2>2, <2>3 DEF Getwork!TypeOK, Getwork!Jobs
  <2> USE DEF Getwork!TypeOK, Getwork!slaveVars
  <2>4. MaxJob \in Nat /\ MaxJob \in 0 .. MaxJob /\ 0 \in 0 .. MaxJob
        /\ Getwork!Jobs \subseteq 0 .. MaxJob
    BY DEF Getwork!GetworkConstants, Getwork!Jobs
  \* A template reaches a connection, or the write fails.
  <2>5. ASSUME NEW c \in Conn, NEW t \in 0 .. MaxJob, Getwork!TryDeliver(c, t)
        PROVE  got' \in [Conn -> 0 .. MaxJob] /\ behind' \subseteq Conn
    BY <2>5 DEF Getwork!TryDeliver, Getwork!Deliver, Getwork!sentVars
  <2>6. ASSUME NEW c \in Conn, Getwork!CloseAndEnd(c)
        PROVE  /\ got' \in [Conn -> 0 .. MaxJob] /\ behind' \subseteq Conn
               /\ sock' \in [Conn -> {"nil", "open", "gone", "closed"}]
    BY <2>4, <2>6 DEF Getwork!CloseAndEnd
  <2>7. ASSUME NEW c \in Conn,
               \/ Getwork!RefuseFull(c) \/ Getwork!Admit(c) \/ Getwork!RefuseRequest(c)
               \/ Getwork!Reconnect(c) \/ Getwork!ListConn(c) \/ Getwork!Upgrade(c)
               \/ Getwork!UpgradeFails(c) \/ Getwork!KickConn(c) \/ Getwork!SubmitLeaks(c)
               \/ Getwork!MinerLeaves(c)
        PROVE  Getwork!TypeOK'
    <3>1. sock' \in [Conn -> {"nil", "open", "gone", "closed"}]
      BY <2>7 DEF Getwork!RefuseFull, Getwork!Admit, Getwork!RefuseRequest, Getwork!Reconnect,
          Getwork!ListConn, Getwork!Upgrade, Getwork!UpgradeFails, Getwork!KickConn,
          Getwork!SubmitLeaks, Getwork!MinerLeaves, Getwork!sessionVars
    <3>2. conns' \subseteq Conn /\ alive' \subseteq Conn /\ leaked' \subseteq Conn
      BY <2>7 DEF Getwork!RefuseFull, Getwork!Admit, Getwork!RefuseRequest, Getwork!Reconnect,
          Getwork!ListConn, Getwork!Upgrade, Getwork!UpgradeFails, Getwork!KickConn,
          Getwork!SubmitLeaks, Getwork!MinerLeaves, Getwork!listVars, Getwork!sessionVars
    <3>3. UNCHANGED <<resend, newest, lastKnown, broadcast, senders, got, behind, counting, crashed>>
      BY <2>7 DEF Getwork!RefuseFull, Getwork!Admit, Getwork!RefuseRequest, Getwork!Reconnect,
          Getwork!ListConn, Getwork!Upgrade, Getwork!UpgradeFails, Getwork!KickConn,
          Getwork!SubmitLeaks, Getwork!MinerLeaves, Getwork!jobVars, Getwork!sentVars
    <3>4. QED
      BY <2>3, <3>1, <3>2, <3>3
  <2>8. ASSUME NEW c \in Conn,
               \/ Getwork!NoFirstJob(c) \/ Getwork!ReadFails(c) \/ Getwork!BadPacket(c)
               \/ Getwork!SendJobToSendPanics(c)
        PROVE  Getwork!TypeOK'
    <3>1. Getwork!CloseAndEnd(c)
      BY <2>8 DEF Getwork!NoFirstJob, Getwork!ReadFails, Getwork!BadPacket, Getwork!SendJobToSendPanics
    <3>2. resend' \in [Conn -> 0 .. MaxJob]
      BY <2>4, <2>8 DEF Getwork!NoFirstJob, Getwork!ReadFails, Getwork!BadPacket,
          Getwork!SendJobToSendPanics
    <3>3. UNCHANGED <<conns, alive, leaked, newest, lastKnown, broadcast, senders, counting, crashed>>
      BY <2>8 DEF Getwork!NoFirstJob, Getwork!ReadFails, Getwork!BadPacket,
          Getwork!SendJobToSendPanics, Getwork!listVars, Getwork!jobVars
    <3>4. QED
      BY <2>3, <2>6, <3>1, <3>2, <3>3
  <2>9. ASSUME NEW c \in Conn, Getwork!FirstJob(c) PROVE Getwork!TypeOK'
    <3>1. Getwork!TryDeliver(c, lastKnown) /\ lastKnown \in 0 .. MaxJob
      BY <2>9 DEF Getwork!FirstJob
    <3>2. UNCHANGED <<conns, alive, sock, leaked, resend, newest, lastKnown, broadcast, senders, counting, crashed>>
      BY <2>9 DEF Getwork!FirstJob, Getwork!listVars, Getwork!jobVars
    <3>3. QED
      BY <2>3, <2>5, <3>1, <3>2
  <2>10. ASSUME NEW c \in Conn, Getwork!TakeJobToSend(c) PROVE Getwork!TypeOK'
    <3>1. resend' = [resend EXCEPT ![c] = got[c]] /\ got[c] \in 0 .. MaxJob
      BY <2>10 DEF Getwork!TakeJobToSend
    <3>2. resend' \in [Conn -> 0 .. MaxJob]
      BY <3>1
    <3>3. UNCHANGED <<conns, alive, sock, leaked, newest, lastKnown, broadcast, senders, got, behind, counting, crashed>>
      BY <2>10 DEF Getwork!TakeJobToSend, Getwork!listVars, Getwork!jobVars, Getwork!sentVars
    <3>4. QED
      BY <2>3, <3>2, <3>3
  <2>11. ASSUME NEW c \in Conn, Getwork!SendJobToSend(c) PROVE Getwork!TypeOK'
    <3>1. Getwork!TryDeliver(c, resend[c]) /\ resend[c] \in 0 .. MaxJob
      BY <2>11 DEF Getwork!SendJobToSend
    <3>2. resend' \in [Conn -> 0 .. MaxJob]
      BY <2>4, <2>11 DEF Getwork!SendJobToSend
    <3>3. UNCHANGED <<conns, alive, sock, leaked, newest, lastKnown, broadcast, senders, counting, crashed>>
      BY <2>11 DEF Getwork!SendJobToSend, Getwork!listVars, Getwork!jobVars
    <3>4. QED
      BY <2>3, <2>5, <3>1, <3>2, <3>3
  <2>12. CASE Getwork!NewTemplate \/ Getwork!StoreLastJob
    <3>1. newest' \in 0 .. MaxJob /\ lastKnown' \in 0 .. MaxJob /\ broadcast' \subseteq Getwork!Jobs
      BY <2>4, <2>12 DEF Getwork!NewTemplate, Getwork!StoreLastJob
    <3>2. UNCHANGED <<conns, alive, sock, leaked, resend, senders, got, behind, counting, crashed>>
      BY <2>12 DEF Getwork!NewTemplate, Getwork!StoreLastJob, Getwork!listVars,
          Getwork!sessionVars, Getwork!sentVars
    <3>3. QED
      BY <2>3, <3>1, <3>2
  <2>13. ASSUME NEW t \in Getwork!Jobs, Getwork!Sweep(t) PROVE Getwork!TypeOK'
    <3>1. /\ conns' \subseteq Conn /\ broadcast' \subseteq Getwork!Jobs
          /\ senders' \subseteq Conn \X Getwork!Jobs
      BY <2>13 DEF Getwork!Sweep
    <3>2. UNCHANGED <<alive, sock, leaked, resend, newest, lastKnown, got, behind, counting, crashed>>
      BY <2>13 DEF Getwork!Sweep, Getwork!sessionVars, Getwork!sentVars
    <3>3. QED
      BY <2>3, <3>1, <3>2
  <2>14. ASSUME NEW c \in Conn, NEW t \in Getwork!Jobs, Getwork!SendJob(c, t) PROVE Getwork!TypeOK'
    <3>1. Getwork!TryDeliver(c, t) /\ t \in 0 .. MaxJob
      BY <2>4, <2>14 DEF Getwork!SendJob, Getwork!TryDeliver
    <3>2. senders' \subseteq Conn \X Getwork!Jobs
      BY <2>14 DEF Getwork!SendJob, Getwork!SenderEnds
    <3>3. UNCHANGED <<conns, alive, sock, leaked, resend, newest, lastKnown, broadcast, counting, crashed>>
      BY <2>14 DEF Getwork!SendJob, Getwork!listVars, Getwork!sessionVars
    <3>4. QED
      BY <2>3, <2>5, <3>1, <3>2, <3>3
  <2>15. ASSUME NEW c \in Conn, NEW t \in Getwork!Jobs, Getwork!SendFails(c, t) PROVE Getwork!TypeOK'
    <3>1. /\ senders' \subseteq Conn \X Getwork!Jobs /\ alive' \subseteq Conn
          /\ sock' \in [Conn -> {"nil", "open", "gone", "closed"}]
      BY <2>15 DEF Getwork!SendFails, Getwork!SenderEnds
    <3>2. UNCHANGED <<conns, leaked, resend, newest, lastKnown, broadcast, got, behind, counting, crashed>>
      BY <2>15 DEF Getwork!SendFails, Getwork!sentVars
    <3>3. QED
      BY <2>3, <3>1, <3>2
  <2>16. ASSUME NEW c \in Conn, NEW t \in Getwork!Jobs, Getwork!SendPanics(c, t) PROVE Getwork!TypeOK'
    <3>1. /\ conns' = {} /\ alive' = {} /\ leaked' = {} /\ newest' = 0 /\ lastKnown' = 0
          /\ broadcast' = {} /\ senders' = {} /\ behind' = {} /\ crashed' = TRUE /\ counting' = FALSE
          /\ sock' = [d \in Conn |-> "nil"] /\ resend' = [d \in Conn |-> 0]
          /\ got' = [d \in Conn |-> 0]
      BY <2>16 DEF Getwork!SendPanics
    <3>2. QED
      BY <2>3, <2>4, <3>1
  <2>17. CASE Getwork!CountBegin \/ Getwork!CountEnd
    <3>1. counting' \in BOOLEAN
      BY <2>17 DEF Getwork!CountBegin, Getwork!CountEnd
    <3>2. UNCHANGED <<conns, alive, sock, leaked, resend, newest, lastKnown, broadcast, senders, got,
                      behind, crashed>>
      BY <2>17 DEF Getwork!CountBegin, Getwork!CountEnd, Getwork!listVars, Getwork!sessionVars,
          Getwork!jobVars, Getwork!sentVars
    <3>3. QED
      BY <2>3, <3>1, <3>2
  <2>18. QED
    BY <1>2, <2>7, <2>8, <2>9, <2>10, <2>11, <2>12, <2>13, <2>14, <2>15, <2>16, <2>17
    DEF Getwork!Next, Getwork!Handle, Getwork!Send
<1>3. QED
    BY <1>1, <1>2

\* Types and slots together are inductive.
LEMMA GetworkTypeHolds == Getwork!Spec => [](Getwork!TypeOK /\ GetworkSlots)
<1>1. Getwork!Init => Getwork!TypeOK /\ GetworkSlots
    BY GetworkInitType, GetworkSlotsInit, ServersAssumption
<1>2. Getwork!TypeOK /\ GetworkSlots /\ [Getwork!Next]_(Getwork!vars)
        => (Getwork!TypeOK /\ GetworkSlots)'
    BY GetworkNextType, GetworkSlotsNext, ServersAssumption
<1>3. QED
    BY <1>1, <1>2, PTL DEF Getwork!Spec

\* The counters stay within the limit and one; everything else has its type.
THEOREM GetworkTypeCorrect == Getwork!Spec => []Getwork!TypeOK
<1>1. QED
    BY GetworkTypeHolds, PTL

-----------------------------------------------------------------------------
(* The GetWork server: every miner works on the newest template.           *)

\* A websocket comes after the list, and a connection whose websocket nobody
\* has closed is still listed and alive, so that every sweep sends to it.
UnclosedIsListed ==
    \A c \in Conn :
        /\ session[c] \in {"none", "admitted", "listed"} => sock[c] = "nil"
        /\ session[c] \in {"listed", "upgraded", "reading", "writing"} /\ sock[c] # "closed"
               => c \in conns /\ c \in alive

\* A miner that does not have the newest template will get it.
NewestIsComing ==
    \A c \in Conn :
        session[c] \in {"reading", "writing"} /\ sock[c] = "open" /\ c \notin behind
            => got[c] = newest \/ newest \in broadcast \/ <<c, newest>> \in senders

LEMMA UnclosedNext ==
    Getwork!TypeOK /\ UnclosedIsListed /\ [Getwork!Next]_(Getwork!vars) => UnclosedIsListed'
<1> SUFFICES ASSUME Getwork!TypeOK, UnclosedIsListed, [Getwork!Next]_(Getwork!vars)
             PROVE  UnclosedIsListed'
    OBVIOUS
<1>1. /\ session \in [Conn -> {"none", "admitted", "listed", "upgraded", "reading",
                               "writing", "stuck", "ended"}]
      /\ sock \in [Conn -> {"nil", "open", "gone", "closed"}]
    BY DEF Getwork!TypeOK
<1>2. ASSUME UNCHANGED <<session, sock, conns, alive>> PROVE UnclosedIsListed'
    BY <1>2 DEF UnclosedIsListed
\* The handler of c only goes on.
<1>3. ASSUME NEW c \in Conn, NEW place, session' = [session EXCEPT ![c] = place],
             UNCHANGED <<sock, conns, alive>>,
             place \in {"none", "admitted", "listed"} => sock[c] = "nil",
             place \in {"listed", "upgraded", "reading", "writing"} =>
                 session[c] \in {"listed", "upgraded", "reading", "writing"}
      PROVE  UnclosedIsListed'
    BY <1>1, <1>3 DEF UnclosedIsListed
<1>4. ASSUME NEW c \in Conn, Getwork!CloseAndEnd(c), conns' = conns, alive' = alive
      PROVE  UnclosedIsListed'
  <2>1. session' = [session EXCEPT ![c] = "ended"] /\ sock' = [sock EXCEPT ![c] = "closed"]
    BY <1>4 DEF Getwork!CloseAndEnd, Getwork!Goto
  <2>2. QED
    BY <1>1, <1>4, <2>1 DEF UnclosedIsListed
<1>5. ASSUME NEW c \in Conn, Getwork!RefuseFull(c) \/ Getwork!RefuseRequest(c) \/ Getwork!UpgradeFails(c)
      PROVE  UnclosedIsListed'
  <2>1. session' = [session EXCEPT ![c] = "ended"] /\ UNCHANGED <<sock, conns, alive>>
    BY <1>5 DEF Getwork!RefuseFull, Getwork!RefuseRequest, Getwork!UpgradeFails, Getwork!Goto, Getwork!listVars
  <2>2. QED
    BY <1>3, <2>1
<1>6. ASSUME NEW c \in Conn, Getwork!Admit(c) PROVE UnclosedIsListed'
  <2>1. session[c] = "none" /\ session' = [session EXCEPT ![c] = "admitted"] /\ UNCHANGED <<sock, conns, alive>>
    BY <1>6 DEF Getwork!Admit, Getwork!Goto
  <2>2. sock[c] = "nil"
    BY <2>1 DEF UnclosedIsListed
  <2>3. QED
    BY <1>3, <2>1, <2>2
<1>7. ASSUME NEW c \in Conn, Getwork!Reconnect(c) PROVE UnclosedIsListed'
  <2>1. /\ session' = [session EXCEPT ![c] = "none"] /\ sock' = [sock EXCEPT ![c] = "nil"]
        /\ conns' = conns /\ alive' = alive \ {c}
    BY <1>7 DEF Getwork!Reconnect, Getwork!Goto
  <2>2. QED
    BY <1>1, <2>1 DEF UnclosedIsListed
<1>8. ASSUME NEW c \in Conn, Getwork!ListConn(c) PROVE UnclosedIsListed'
  <2>1. /\ session[c] = "admitted" /\ session' = [session EXCEPT ![c] = "listed"]
        /\ sock' = sock /\ conns' = conns \cup {c} /\ alive' = alive \cup {c}
    BY <1>8 DEF Getwork!ListConn, Getwork!Goto
  <2>2. sock[c] = "nil"
    BY <2>1 DEF UnclosedIsListed
  <2>3. QED
    BY <1>1, <2>1, <2>2 DEF UnclosedIsListed
<1>9. ASSUME NEW c \in Conn, Getwork!Upgrade(c) PROVE UnclosedIsListed'
  <2>1. /\ session[c] = "listed" /\ session' = [session EXCEPT ![c] = "upgraded"]
        /\ sock' = [sock EXCEPT ![c] = "open"] /\ conns' = conns /\ alive' = alive
    BY <1>9 DEF Getwork!Upgrade, Getwork!Goto, Getwork!listVars
  <2>2. sock[c] = "nil" /\ c \in conns /\ c \in alive
    BY <1>1, <2>1 DEF UnclosedIsListed
  <2>3. QED
    BY <1>1, <2>1, <2>2 DEF UnclosedIsListed
<1>10. ASSUME NEW c \in Conn,
              Getwork!NoFirstJob(c) \/ Getwork!ReadFails(c) \/ Getwork!BadPacket(c) \/ Getwork!SendJobToSendPanics(c)
       PROVE  UnclosedIsListed'
    BY <1>4, <1>10 DEF Getwork!NoFirstJob, Getwork!ReadFails, Getwork!BadPacket,
        Getwork!SendJobToSendPanics, Getwork!listVars
<1>11. ASSUME NEW c \in Conn, Getwork!FirstJob(c) \/ Getwork!SendJobToSend(c) PROVE UnclosedIsListed'
  <2>1. /\ session[c] \in {"upgraded", "writing"} /\ session' = [session EXCEPT ![c] = "reading"]
        /\ UNCHANGED <<sock, conns, alive>>
    BY <1>11 DEF Getwork!FirstJob, Getwork!SendJobToSend, Getwork!Goto, Getwork!listVars
  <2>2. QED
    BY <1>3, <2>1
<1>12. ASSUME NEW c \in Conn, Getwork!SubmitLeaks(c) PROVE UnclosedIsListed'
  <2>1. session' = [session EXCEPT ![c] = "stuck"] /\ UNCHANGED <<sock, conns, alive>>
    BY <1>12 DEF Getwork!SubmitLeaks, Getwork!Goto, Getwork!listVars
  <2>2. QED
    BY <1>3, <2>1
<1>13. ASSUME NEW c \in Conn, Getwork!TakeJobToSend(c) PROVE UnclosedIsListed'
  <2>1. session[c] = "reading" /\ session' = [session EXCEPT ![c] = "writing"] /\ UNCHANGED <<sock, conns, alive>>
    BY <1>13 DEF Getwork!TakeJobToSend, Getwork!Goto, Getwork!listVars
  <2>2. QED
    BY <1>3, <2>1
<1>14. ASSUME NEW c \in Conn, Getwork!KickConn(c) PROVE UnclosedIsListed'
  <2>1. /\ session[c] = "reading" /\ session' = session /\ sock' = [sock EXCEPT ![c] = "closed"]
        /\ conns' = conns /\ alive' = alive
    BY <1>14 DEF Getwork!KickConn, Getwork!listVars
  <2>2. QED
    BY <1>1, <2>1 DEF UnclosedIsListed
<1>15. ASSUME NEW c \in Conn, Getwork!MinerLeaves(c) PROVE UnclosedIsListed'
  <2>1. /\ sock[c] = "open" /\ session' = session /\ sock' = [sock EXCEPT ![c] = "gone"]
        /\ conns' = conns /\ alive' = alive
    BY <1>15 DEF Getwork!MinerLeaves, Getwork!listVars
  <2>2. QED
    BY <1>1, <2>1 DEF UnclosedIsListed
<1>16. ASSUME NEW t, Getwork!Sweep(t) PROVE UnclosedIsListed'
  <2>1. conns' = conns \ (conns \ alive) /\ alive' = alive /\ session' = session /\ sock' = sock
    BY <1>16 DEF Getwork!Sweep, Getwork!Dead, Getwork!sessionVars
  <2>2. QED
    BY <2>1 DEF UnclosedIsListed
<1>17. ASSUME NEW c \in Conn, NEW t, Getwork!SendFails(c, t) PROVE UnclosedIsListed'
  <2>1. /\ sock[c] \in {"gone", "closed"} /\ sock' = [sock EXCEPT ![c] = "closed"]
        /\ alive' = alive \ {c} /\ session' = session /\ conns' = conns
    BY <1>17 DEF Getwork!SendFails
  <2>2. QED
    BY <1>1, <2>1 DEF UnclosedIsListed
<1>18. ASSUME NEW c, NEW t, Getwork!SendPanics(c, t) PROVE UnclosedIsListed'
  <2>1. session' = [d \in Conn |-> "none"] /\ sock' = [d \in Conn |-> "nil"]
    BY <1>18 DEF Getwork!SendPanics
  <2>2. QED
    BY <2>1 DEF UnclosedIsListed
<1>19. ASSUME NEW c, NEW t, Getwork!SendJob(c, t) PROVE UnclosedIsListed'
    BY <1>2, <1>19 DEF Getwork!SendJob, Getwork!listVars, Getwork!sessionVars
<1>20. CASE \/ Getwork!NewTemplate \/ Getwork!StoreLastJob \/ Getwork!CountBegin \/ Getwork!CountEnd
            \/ UNCHANGED Getwork!vars
    BY <1>2, <1>20 DEF Getwork!NewTemplate, Getwork!StoreLastJob, Getwork!vars,
        Getwork!CountBegin, Getwork!CountEnd,
        Getwork!listVars, Getwork!sessionVars
<1>21. QED
    BY <1>5, <1>6, <1>7, <1>8, <1>9, <1>10, <1>11, <1>12, <1>13, <1>14, <1>15, <1>16, <1>17,
       <1>18, <1>19, <1>20 DEF Getwork!Next, Getwork!Handle, Getwork!Send

LEMMA NewestNext ==
    Getwork!TypeOK /\ UnclosedIsListed /\ NewestIsComing /\ [Getwork!Next]_(Getwork!vars)
        => NewestIsComing'
<1> SUFFICES ASSUME Getwork!TypeOK, UnclosedIsListed, NewestIsComing, [Getwork!Next]_(Getwork!vars)
             PROVE  NewestIsComing'
    OBVIOUS
<1>1. /\ session \in [Conn -> {"none", "admitted", "listed", "upgraded", "reading",
                               "writing", "stuck", "ended"}]
      /\ sock \in [Conn -> {"nil", "open", "gone", "closed"}]
      /\ got \in [Conn -> 0 .. MaxJob]
    BY DEF Getwork!TypeOK
\* No job is sent or dropped, and nobody begins to read.
<1>2. ASSUME UNCHANGED <<newest, broadcast, senders, got, behind>>,
             \A d \in Conn :
                 session'[d] \in {"reading", "writing"} /\ sock'[d] = "open"
                     => session[d] \in {"reading", "writing"} /\ sock[d] = "open"
      PROVE  NewestIsComing'
    BY <1>2 DEF NewestIsComing
<1>3. ASSUME NEW c \in Conn, Getwork!CloseAndEnd(c), UNCHANGED <<newest, broadcast, senders>>
      PROVE  NewestIsComing'
  <2>1. /\ session' = [session EXCEPT ![c] = "ended"] /\ sock' = [sock EXCEPT ![c] = "closed"]
        /\ got' = [got EXCEPT ![c] = 0] /\ behind' = behind \ {c}
    BY <1>3 DEF Getwork!CloseAndEnd, Getwork!Goto
  <2>2. QED
    BY <1>1, <1>3, <2>1 DEF NewestIsComing
\* The reader of c writes a template: the miner has it, and is behind when it is
\* not the newest.
<1>4. ASSUME NEW c \in Conn, NEW t, Getwork!TryDeliver(c, t), session[c] \in {"upgraded", "writing"},
             session' = [session EXCEPT ![c] = "reading"],
             UNCHANGED <<newest, broadcast, senders, sock>>
      PROVE  NewestIsComing'
  <2>1. CASE Getwork!Deliver(c, t)
    <3>1. got' = [got EXCEPT ![c] = t]
      BY <2>1 DEF Getwork!Deliver
    <3>2. behind' = IF t = newest THEN behind \ {c} ELSE behind \cup {c}
      BY <2>1 DEF Getwork!Deliver
    <3>3. c \notin behind' => got'[c] = newest'
      BY <1>1, <1>4, <3>1, <3>2
    <3>4. \A d \in Conn \ {c} : session'[d] = session[d] /\ got'[d] = got[d] /\ (d \in behind' <=> d \in behind)
      BY <1>1, <1>4, <3>1, <3>2
    <3>5. QED
      BY <1>4, <3>3, <3>4 DEF NewestIsComing
  <2>2. CASE sock[c] \in {"gone", "closed"} /\ UNCHANGED Getwork!sentVars
    BY <1>1, <1>4, <2>2 DEF NewestIsComing, Getwork!sentVars
  <2>3. QED
    BY <1>4, <2>1, <2>2 DEF Getwork!TryDeliver
<1>5. ASSUME NEW c \in Conn,
             Getwork!NoFirstJob(c) \/ Getwork!ReadFails(c) \/ Getwork!BadPacket(c) \/ Getwork!SendJobToSendPanics(c)
      PROVE  NewestIsComing'
    BY <1>3, <1>5 DEF Getwork!NoFirstJob, Getwork!ReadFails, Getwork!BadPacket,
        Getwork!SendJobToSendPanics, Getwork!jobVars
<1>6. ASSUME NEW c \in Conn, Getwork!FirstJob(c) PROVE NewestIsComing'
    BY <1>4, <1>6 DEF Getwork!FirstJob, Getwork!Goto, Getwork!jobVars
<1>7. ASSUME NEW c \in Conn, Getwork!SendJobToSend(c) PROVE NewestIsComing'
    BY <1>4, <1>7 DEF Getwork!SendJobToSend, Getwork!Goto, Getwork!jobVars
<1>8. ASSUME NEW c \in Conn,
             \/ Getwork!RefuseFull(c) \/ Getwork!Admit(c) \/ Getwork!RefuseRequest(c)
             \/ Getwork!ListConn(c) \/ Getwork!Upgrade(c) \/ Getwork!UpgradeFails(c)
             \/ Getwork!SubmitLeaks(c) \/ Getwork!Reconnect(c)
      PROVE  NewestIsComing'
  <2>1. UNCHANGED <<newest, broadcast, senders, got, behind>>
    BY <1>8 DEF Getwork!RefuseFull, Getwork!Admit, Getwork!RefuseRequest, Getwork!ListConn,
        Getwork!Upgrade, Getwork!UpgradeFails, Getwork!SubmitLeaks, Getwork!Reconnect,
        Getwork!jobVars, Getwork!sentVars
  <2>2. \E place \in {"none", "admitted", "listed", "upgraded", "stuck", "ended"} :
            session' = [session EXCEPT ![c] = place]
    BY <1>8 DEF Getwork!RefuseFull, Getwork!Admit, Getwork!RefuseRequest, Getwork!ListConn,
        Getwork!Upgrade, Getwork!UpgradeFails, Getwork!SubmitLeaks, Getwork!Reconnect, Getwork!Goto
  <2>3. \A d \in Conn \ {c} : sock'[d] = sock[d]
    BY <1>1, <1>8 DEF Getwork!RefuseFull, Getwork!Admit, Getwork!RefuseRequest, Getwork!ListConn,
        Getwork!Upgrade, Getwork!UpgradeFails, Getwork!SubmitLeaks, Getwork!Reconnect
  <2>4. \A d \in Conn :
            session'[d] \in {"reading", "writing"} /\ sock'[d] = "open"
                => session[d] \in {"reading", "writing"} /\ sock[d] = "open"
    BY <1>1, <2>2, <2>3
  <2>5. QED
    BY <1>2, <2>1, <2>4
<1>9. ASSUME NEW c \in Conn, Getwork!TakeJobToSend(c) PROVE NewestIsComing'
  <2>1. UNCHANGED <<newest, broadcast, senders, got, behind>>
    BY <1>9 DEF Getwork!TakeJobToSend, Getwork!jobVars, Getwork!sentVars
  <2>2. session[c] = "reading" /\ session' = [session EXCEPT ![c] = "writing"] /\ sock' = sock
    BY <1>9 DEF Getwork!TakeJobToSend, Getwork!Goto
  <2>3. QED
    BY <1>1, <1>2, <2>1, <2>2
<1>10. ASSUME NEW c \in Conn, Getwork!KickConn(c) \/ Getwork!MinerLeaves(c) PROVE NewestIsComing'
  <2>1. UNCHANGED <<newest, broadcast, senders, got, behind>> /\ session' = session
    BY <1>10 DEF Getwork!KickConn, Getwork!MinerLeaves, Getwork!jobVars, Getwork!sentVars
  <2>2. \A d \in Conn : sock'[d] = "open" => sock[d] = "open"
    BY <1>1, <1>10 DEF Getwork!KickConn, Getwork!MinerLeaves
  <2>3. QED
    BY <1>2, <2>1, <2>2
\* The broadcast of a new template begins with it.
<1>11. CASE Getwork!NewTemplate
  <2>1. newest' \in broadcast'
    BY <1>11 DEF Getwork!NewTemplate
  <2>2. QED
    BY <2>1 DEF NewestIsComing
<1>12. CASE Getwork!StoreLastJob
    BY <1>2, <1>12 DEF Getwork!StoreLastJob, Getwork!sessionVars, Getwork!sentVars
\* Whoever waited for the broadcast has a goroutine now.
<1>13. ASSUME NEW t, Getwork!Sweep(t) PROVE NewestIsComing'
  <2>1. /\ broadcast' = broadcast \ {t} /\ senders' = senders \cup ((conns \ Getwork!Dead) \X {t})
        /\ UNCHANGED <<session, sock, newest, got, behind>>
    BY <1>13 DEF Getwork!Sweep, Getwork!sessionVars, Getwork!sentVars
  <2>2. ASSUME NEW c \in Conn, session[c] \in {"reading", "writing"}, sock[c] = "open"
        PROVE  c \in conns \ Getwork!Dead
    BY <2>2 DEF UnclosedIsListed, Getwork!Dead
  <2>3. ASSUME NEW c \in Conn, session[c] \in {"reading", "writing"}, sock[c] = "open", c \notin behind
        PROVE  got[c] = newest \/ newest \in broadcast' \/ <<c, newest>> \in senders'
    <3>1. got[c] = newest \/ newest \in broadcast \/ <<c, newest>> \in senders
      BY <2>3 DEF NewestIsComing
    <3>2. CASE newest = t
      BY <2>1, <2>2, <2>3, <3>2
    <3>3. CASE newest # t
      BY <2>1, <3>1, <3>3
    <3>4. QED
      BY <3>2, <3>3
  <2>4. QED
    BY <2>1, <2>3 DEF NewestIsComing
<1>14. ASSUME NEW c \in Conn, NEW t, Getwork!SendJob(c, t) PROVE NewestIsComing'
  <2>1. /\ got' = [got EXCEPT ![c] = t] /\ senders' = senders \ {<<c, t>>}
        /\ UNCHANGED <<session, sock, newest, broadcast>>
    BY <1>14 DEF Getwork!SendJob, Getwork!Deliver, Getwork!SenderEnds, Getwork!sessionVars
  <2>2. behind' = IF t = newest THEN behind \ {c} ELSE behind \cup {c}
    BY <1>14 DEF Getwork!SendJob, Getwork!Deliver
  <2>3. c \notin behind' => got'[c] = newest'
    BY <1>1, <2>1, <2>2
  <2>4. \A d \in Conn \ {c} :
            /\ got'[d] = got[d] /\ (d \in behind' <=> d \in behind)
            /\ <<d, newest>> \in senders => <<d, newest>> \in senders'
    BY <1>1, <2>1, <2>2
  <2>5. QED
    BY <2>1, <2>3, <2>4 DEF NewestIsComing
<1>15. ASSUME NEW c \in Conn, NEW t, Getwork!SendFails(c, t) PROVE NewestIsComing'
  <2>1. /\ sock' = [sock EXCEPT ![c] = "closed"] /\ senders' = senders \ {<<c, t>>}
        /\ UNCHANGED <<session, newest, broadcast, got, behind>>
    BY <1>15 DEF Getwork!SendFails, Getwork!SenderEnds, Getwork!sentVars
  <2>2. sock'[c] # "open"
    BY <1>1, <2>1
  <2>3. \A d \in Conn \ {c} :
            sock'[d] = sock[d] /\ (<<d, newest>> \in senders => <<d, newest>> \in senders')
    BY <1>1, <2>1
  <2>4. QED
    BY <2>1, <2>2, <2>3 DEF NewestIsComing
<1>16. ASSUME NEW c, NEW t, Getwork!SendPanics(c, t) PROVE NewestIsComing'
  <2>1. session' = [d \in Conn |-> "none"]
    BY <1>16 DEF Getwork!SendPanics
  <2>2. QED
    BY <2>1 DEF NewestIsComing
<1>17. CASE Getwork!CountBegin \/ Getwork!CountEnd \/ UNCHANGED Getwork!vars
    BY <1>2, <1>17 DEF Getwork!CountBegin, Getwork!CountEnd, Getwork!vars, Getwork!sessionVars,
        Getwork!jobVars, Getwork!sentVars
<1>18. QED
    BY <1>5, <1>6, <1>7, <1>8, <1>9, <1>10, <1>11, <1>12, <1>13, <1>14, <1>15, <1>16, <1>17
    DEF Getwork!Next, Getwork!Handle, Getwork!Send

\* Once a broadcast is over every miner works on the newest template, but for
\* those that were sent an older one after it, for every number of miners,
\* templates and overlapping broadcasts.
THEOREM GetworkWorksOnLatestCorrect == Getwork!Spec => []GetworkWorksOnLatest
<1> DEFINE Served == UnclosedIsListed /\ NewestIsComing
<1>1. Getwork!Init => Served
    BY DEF Getwork!Init, UnclosedIsListed, NewestIsComing
<1>2. Getwork!TypeOK /\ GetworkSlots /\ Served /\ [Getwork!Next]_(Getwork!vars) => Served'
    BY UnclosedNext, NewestNext
<1>3. Served => GetworkWorksOnLatest
    BY DEF NewestIsComing, GetworkWorksOnLatest, Getwork!WorksOnLatest, Getwork!Quiet
<1>4. QED
    BY <1>1, <1>2, <1>3, GetworkTypeHolds, PTL DEF Getwork!Spec
=============================================================================
