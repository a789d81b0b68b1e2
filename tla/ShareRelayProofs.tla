-------------------------- MODULE ShareRelayProofs --------------------------
(***************************************************************************)
(* Machine-checked proofs about ShareRelay, for every set of wallets and   *)
(* every number of connections, frames, shares and faults.  Difficulty     *)
(* is followed from the cache through a writer's hands and the wires to    *)
(* the SHARES bucket: no step adds to it, and without a fault none takes   *)
(* any away.                                                               *)
(***************************************************************************)
EXTENDS ShareRelay, SumTheorems, SequenceTheorems, TLAPS

Parts == {"none", "len", "data"}

TypeOK ==
    /\ cache \in [Wallet -> 0 .. MaxFound] /\ found \in [Wallet -> 0 .. MaxFound]
    /\ \A w \in Wallet : cache[w] <= found[w]
    /\ flushing \in BOOLEAN /\ todo \subseteq Wallet
    /\ writing \in [Writers -> [msg : Message, part : Parts]]
    /\ conn \in Conns \cup {NoConn} /\ client \in {"dial", "read"} /\ opened \in 0 .. MaxConns
    /\ alive \subseteq Conns /\ serving \subseteq Conns
    /\ wire \in [Conns -> Seq(Frame)] /\ expect \in [Conns -> Nat]
    /\ shares \in [Wallet -> Nat]
    /\ announced \in Nat /\ numFound \in Nat /\ blocks \in Nat /\ faults \in Nat

\* Each writer sends messages of its own kind.
KindOf == [flush |-> "share", stats |-> "stats", block |-> "block"]
OwnKind ==
    \A g \in Writers : writing[g] # Idle => writing[g].msg.kind = KindOf[g] /\ writing[g].part # "none"

\* The frames on the wire of the connection are whole messages: a length is
\* followed by its body, and what a writer has begun it goes on with.
Framed(s, e, wr) ==
    /\ \A i \in 1 .. Len(s) - 1 :
          IF s[i].part = "len" THEN s[i + 1] = [msg |-> s[i].msg, part |-> "data"]
                               ELSE s[i + 1].part = "len"
    /\ s # << >> => IF e = 0 THEN s[1].part = "len" ELSE s[1].part = "data" /\ e = Size(s[1].msg)
    /\ s # << >> => IF s[Len(s)].part = "len"
                    THEN \E g \in Writers : wr[g] = [msg |-> s[Len(s)].msg, part |-> "data"]
                    ELSE \A g \in Writers : wr[g].part # "data"
    /\ s = << >> => IF e = 0 THEN \A g \in Writers : wr[g].part # "data"
                    ELSE \E g \in Writers : wr[g].part = "data" /\ e = Size(wr[g].msg)

\* Without a fault: one connection, once there is one, and one writer at a time.
Smooth ==
    /\ \A g, h \in Writers : writing[g] # Idle /\ writing[h] # Idle => g = h
    /\ conn = NoConn => /\ client = "dial" /\ serving = {} /\ opened = 0 /\ ~flushing
                        /\ \A g \in Writers : writing[g] = Idle
                        /\ \A k \in Conns : wire[k] = << >> /\ expect[k] = 0
    /\ conn # NoConn => /\ client = "read" /\ conn \in alive /\ serving = {conn}
                        /\ Framed(wire[conn], expect[conn], writing)

-----------------------------------------------------------------------------
(* What is on the wires, weighed frame by frame.                           *)

WeightIn(s, W) == SumFunctionOnSet([i \in 1 .. Len(s) |-> W[s[i]]], 1 .. Len(s))
Weight(w, W) == SumFunctionOnSet([k \in Conns |-> WeightIn(w[k], W)], Conns)

LEMMA WeightType ==
    ASSUME NEW W \in [Frame -> Nat], NEW s \in Seq(Frame)
    PROVE  /\ WeightIn(s, W) \in Nat
           /\ IsFiniteSet(1 .. Len(s))
           /\ \A i \in 1 .. Len(s) : [j \in 1 .. Len(s) |-> W[s[j]]][i] \in Nat
<1> DEFINE f == [i \in 1 .. Len(s) |-> W[s[i]]]
<1>0. Len(s) \in Nat /\ \A i \in 1 .. Len(s) : s[i] \in Frame
    OBVIOUS
<1>1. IsFiniteSet(1 .. Len(s)) /\ \A i \in 1 .. Len(s) : f[i] \in Nat
  <2>1. IsFiniteSet(1 .. Len(s))
    BY <1>0, FS_Interval
  <2>2. \A i \in 1 .. Len(s) : f[i] \in Nat
    BY <1>0
  <2>3. QED
    BY <2>1, <2>2
<1>2. WeightIn(s, W) = SumFunctionOnSet(f, 1 .. Len(s))
    BY DEF WeightIn
<1> HIDE DEF f
<1>3. WeightIn(s, W) \in Nat
    BY <1>1, <1>2, SumNat
<1>4. QED
    BY <1>1, <1>3 DEF f

LEMMA WeightEmpty ==
    ASSUME NEW W PROVE WeightIn(<< >>, W) = 0
<1>1. 1 .. Len(<< >>) = {}
    OBVIOUS
<1>2. QED
    BY <1>1, SumEmpty DEF WeightIn

LEMMA WeightAppend ==
    ASSUME NEW W \in [Frame -> Nat], NEW s \in Seq(Frame), NEW x \in Frame
    PROVE  WeightIn(Append(s, x), W) = WeightIn(s, W) + W[x]
<1> DEFINE n == Len(s)
           t == Append(s, x)
           f == [i \in 1 .. Len(s) |-> W[s[i]]]
           g == [i \in 1 .. Len(t) |-> W[t[i]]]
           I == 1 .. n + 1
<1>1. n \in Nat /\ t \in Seq(Frame) /\ Len(t) = n + 1
      /\ (\A i \in 1 .. n : t[i] = s[i]) /\ t[n + 1] = x
    BY AppendProperties
<1>2. /\ IsFiniteSet(I) /\ n + 1 \in I /\ I \ {n + 1} = 1 .. n
      /\ \A i \in I : g[i] \in Int
      /\ \A i \in 1 .. n : g[i] = f[i]
      /\ g[n + 1] = W[x] /\ W[x] \in Nat /\ IsFiniteSet(1 .. n)
  <2>1. IsFiniteSet(I) /\ IsFiniteSet(1 .. n)
    BY <1>1, FS_Interval
  <2>2. n + 1 \in I /\ I \ {n + 1} = 1 .. n
    BY <1>1
  <2>3. \A i \in I : g[i] \in Nat
    BY <1>1, WeightType
  <2>4. \A i \in 1 .. n : g[i] = f[i]
    BY <1>1
  <2>5. g[n + 1] = W[x] /\ W[x] \in Nat
    BY <1>1
  <2>6. QED
    BY <2>1, <2>2, <2>3, <2>4, <2>5
<1>3. WeightIn(t, W) = SumFunctionOnSet(g, I) /\ WeightIn(s, W) = SumFunctionOnSet(f, 1 .. n)
    BY <1>1 DEF WeightIn
<1> HIDE DEF f, g, t, I, n
<1>4. SumFunctionOnSet(g, I) = g[n + 1] + SumFunctionOnSet(g, 1 .. n)
  <2>1. SumFunctionOnSet(g, I) = g[n + 1] + SumFunctionOnSet(g, I \ {n + 1})
    BY <1>2, SumRemove
  <2>2. QED
    BY <1>2, <2>1
<1>5. SumFunctionOnSet(g, 1 .. n) = SumFunctionOnSet(f, 1 .. n)
    BY <1>2, SumSame
<1>6. WeightIn(s, W) \in Nat
    BY WeightType
<1>7. WeightIn(t, W) = WeightIn(s, W) + W[x]
    BY <1>2, <1>3, <1>4, <1>5, <1>6
<1>8. QED
    BY <1>7 DEF t

LEMMA WeightTail ==
    ASSUME NEW W \in [Frame -> Nat], NEW s \in Seq(Frame), s # << >>
    PROVE  /\ Head(s) \in Frame /\ W[Head(s)] \in Nat
           /\ WeightIn(s, W) = WeightIn(Tail(s), W) + W[Head(s)]
<1> DEFINE n == Len(s)
           t == Tail(s)
           f == [i \in 1 .. Len(s) |-> W[s[i]]]
           g == [i \in 1 .. Len(t) |-> W[t[i]]]
           e == [i \in 1 .. n - 1 |-> i + 1]
           I == 1 .. n
           J == 1 .. n - 1
<1>1. /\ n \in Nat /\ n > 0 /\ t \in Seq(Frame) /\ Len(t) = n - 1
      /\ \A i \in 1 .. n - 1 : t[i] = s[i + 1]
      /\ Head(s) = s[1] /\ Head(s) \in Frame
    BY HeadTailProperties
<1>2. IsFiniteSet(I) /\ IsFiniteSet(J)
    BY <1>1, FS_Interval
<1>3. 1 \in I /\ (\A i \in J : e[i] \in I \ {1}) /\ \A j \in I \ {1} : \E i \in J : e[i] = j
  <2>1. \A i \in J : e[i] \in I \ {1}
    BY <1>1
  <2>2. \A j \in I \ {1} : j - 1 \in J /\ e[j - 1] = j
    BY <1>1
  <2> HIDE DEF e, I, J
  <2>3. 1 \in I
    BY <1>1 DEF I
  <2>4. QED
    BY <2>1, <2>2, <2>3
<1>4. \A i \in I : f[i] \in Int
    BY WeightType
<1>5. \A i \in J : g[i] \in Int
    BY <1>1, WeightType
<1>6. \A i \in J : f[e[i]] = g[i]
    BY <1>1
<1>7. \A i, j \in J : e[i] = e[j] => i = j
    BY <1>1
<1>8. f[1] = W[Head(s)]
    BY <1>1
<1>9. WeightIn(s, W) = SumFunctionOnSet(f, I) /\ WeightIn(t, W) = SumFunctionOnSet(g, J)
    BY <1>1 DEF WeightIn
<1> HIDE DEF f, g, e, t, I, J, n
<1>10. SumFunctionOnSet(f, I) = f[1] + SumFunctionOnSet(f, I \ {1})
    BY <1>2, <1>3, <1>4, SumRemove
<1>11. SumFunctionOnSet(g, J) = SumFunctionOnSet(f, I \ {1})
  <2> DEFINE R == I \ {1}
  <2>1. Renames(e, J, R) /\ \A i \in J : g[i] \in Int /\ f[e[i]] = g[i]
    BY <1>3, <1>5, <1>6, <1>7 DEF Renames
  <2> HIDE DEF R
  <2>2. SumFunctionOnSet(g, J) = SumFunctionOnSet(f, R)
    BY <1>2, <2>1, SumBijection
  <2>3. QED
    BY <2>2 DEF R
<1>12. WeightIn(t, W) \in Nat /\ f[1] \in Nat
    BY <1>1, <1>8, WeightType
<1>13. WeightIn(s, W) = WeightIn(t, W) + W[Head(s)]
    BY <1>3, <1>8, <1>9, <1>10, <1>11, <1>12
<1>14. QED
    BY <1>1, <1>8, <1>12, <1>13 DEF t

LEMMA WeightCut ==
    ASSUME NEW W \in [Frame -> Nat], NEW s \in Seq(Frame), NEW n \in 0 .. Len(s)
    PROVE  /\ SubSeq(s, 1, n) \in Seq(Frame)
           /\ WeightIn(SubSeq(s, 1, n), W) <= WeightIn(s, W)
<1> DEFINE t == SubSeq(s, 1, n)
           f == [i \in 1 .. Len(s) |-> W[s[i]]]
           g == [i \in 1 .. Len(t) |-> W[t[i]]]
           I == 1 .. Len(s)
           J == 1 .. n
<1>1. n \in Nat /\ Len(s) \in Nat /\ t \in Seq(Frame) /\ Len(t) = n /\ \A i \in 1 .. n : t[i] = s[i]
    OBVIOUS
<1>2. IsFiniteSet(I) /\ IsFiniteSet(J) /\ J \in SUBSET I
    BY <1>1, FS_Interval
<1>3. \A i \in I : f[i] \in Nat
    BY WeightType
<1>4. \A i \in J : g[i] = f[i]
    BY <1>1
<1>5. WeightIn(s, W) = SumFunctionOnSet(f, I) /\ WeightIn(t, W) = SumFunctionOnSet(g, J)
    BY <1>1 DEF WeightIn
<1> HIDE DEF f, g, t, I, J
<1>6. SumFunctionOnSet(g, J) = SumFunctionOnSet(f, J)
    BY <1>2, <1>4, SumSame
<1>7. SumFunctionOnSet(f, J) <= SumFunctionOnSet(f, I)
    BY <1>2, <1>3, SumSubset
<1>8. QED
    BY <1>1, <1>5, <1>6, <1>7 DEF t

\* One wire changes and the others stay.
LEMMA WeightUpdate ==
    ASSUME NEW W \in [Frame -> Nat], NEW w \in [Conns -> Seq(Frame)], NEW k \in Conns,
           NEW s \in Seq(Frame)
    PROVE  /\ Weight(w, W) \in Nat /\ WeightIn(w[k], W) \in Nat /\ WeightIn(s, W) \in Nat
           /\ Weight([w EXCEPT ![k] = s], W) = Weight(w, W) - WeightIn(w[k], W) + WeightIn(s, W)
<1> DEFINE v == [w EXCEPT ![k] = s]
           f == [j \in Conns |-> WeightIn(w[j], W)]
           g == [j \in Conns |-> WeightIn(v[j], W)]
<1>1. IsFiniteSet(Conns)
    BY FS_Interval, RelayAssumption DEF Conns
<1>2. \A j \in Conns : f[j] \in Nat /\ g[j] \in Nat /\ f[j] \in Int /\ g[j] \in Int
    BY WeightType
<1>3. \A j \in Conns \ {k} : f[j] = g[j]
    OBVIOUS
<1>4. f[k] = WeightIn(w[k], W) /\ g[k] = WeightIn(s, W)
    OBVIOUS
<1>5. Weight(w, W) = SumFunctionOnSet(f, Conns) /\ Weight(v, W) = SumFunctionOnSet(g, Conns)
    BY DEF Weight
<1> HIDE DEF f, g, v
<1>6. SumFunctionOnSet(g, Conns) = SumFunctionOnSet(f, Conns) - f[k] + g[k]
    BY <1>1, <1>2, <1>3, SumUpdate
<1>7. SumFunctionOnSet(f, Conns) \in Nat
    BY <1>1, <1>2, SumNat
<1>8. QED
    BY <1>2, <1>4, <1>5, <1>6, <1>7 DEF v

-----------------------------------------------------------------------------
(* Types.                                                                  *)

LEMMA MessageFacts ==
    ASSUME NEW m \in Message
    PROVE  /\ m.kind \in {"share", "stats", "block", "none"}
           /\ m.kind = "share" => m.wallet \in Wallet /\ m.diff \in 0 .. MaxFound
           /\ m.kind = "stats" => m.count \in Counts
           /\ Size(m) \in {2, 33, 68} /\ (Size(m) = 2 => m.kind = "stats")
<1>1. CASE m \in [kind : {"share"}, wallet : Wallet, diff : 0 .. MaxFound]
    BY <1>1 DEF Size
<1>2. CASE m \in [kind : {"stats"}, count : Counts]
    BY <1>2 DEF Size
<1>3. CASE m \in [kind : {"block", "none"}]
    BY <1>3 DEF Size
<1>4. QED
    BY <1>1, <1>2, <1>3 DEF Message

LEMMA FrameFacts ==
    ASSUME NEW f \in Frame
    PROVE  f.msg \in Message /\ f.part \in {"len", "data"} /\ f = [part |-> f.part, msg |-> f.msg]
    BY DEF Frame

LEMMA InitType == Init => TypeOK /\ OwnKind
<1> SUFFICES ASSUME Init PROVE TypeOK /\ OwnKind
    OBVIOUS
<1> USE RelayAssumption
<1>1. Idle \in [msg : Message, part : Parts]
    BY DEF Idle, NoMessage, Message, Parts
<1>2. writing \in [Writers -> [msg : Message, part : Parts]]
    BY <1>1 DEF Init
<1>3. /\ cache \in [Wallet -> 0 .. MaxFound] /\ found \in [Wallet -> 0 .. MaxFound]
      /\ \A w \in Wallet : cache[w] <= found[w]
      /\ shares \in [Wallet -> Nat]
    BY DEF Init
<1>4. wire \in [Conns -> Seq(Frame)] /\ expect \in [Conns -> Nat]
    BY DEF Init
<1>5. /\ flushing \in BOOLEAN /\ todo \subseteq Wallet
      /\ conn \in Conns \cup {NoConn} /\ client \in {"dial", "read"} /\ opened \in 0 .. MaxConns
      /\ alive \subseteq Conns /\ serving \subseteq Conns
      /\ announced \in Nat /\ numFound \in Nat /\ blocks \in Nat /\ faults \in Nat
  <2>1. flushing \in BOOLEAN /\ todo \subseteq Wallet /\ alive \subseteq Conns /\ serving \subseteq Conns
    BY DEF Init
  <2>2. conn \in Conns \cup {NoConn} /\ client \in {"dial", "read"}
    BY DEF Init
  <2>3. /\ announced \in Nat /\ numFound \in Nat /\ blocks \in Nat /\ faults \in Nat
        /\ opened \in 0 .. MaxConns
    BY DEF Init
  <2>4. QED
    BY <2>1, <2>2, <2>3
<1>6. OwnKind
    BY DEF Init, OwnKind
<1>7. QED
    BY <1>2, <1>3, <1>4, <1>5, <1>6 DEF TypeOK

\* A goroutine that enters sendToConn holds its message from the start.
LEMMA EnterType ==
    ASSUME TypeOK, OwnKind, NEW g \in Writers, NEW m \in Message, m.kind = KindOf[g], Enter(g, m)
    PROVE  /\ writing' \in [Writers -> [msg : Message, part : Parts]] /\ OwnKind'
           /\ faults' \in Nat
           /\ writing[g] = Idle
           /\ writing' = [writing EXCEPT ![g] = IF conn = NoConn THEN Idle ELSE [msg |-> m, part |-> "len"]]
<1>1. writing \in [Writers -> [msg : Message, part : Parts]] /\ faults \in Nat
    BY DEF TypeOK
<1>2. Idle \in [msg : Message, part : Parts] /\ [msg |-> m, part |-> "len"] \in [msg : Message, part : Parts]
    BY DEF Idle, NoMessage, Message, Parts
<1>3. writing' = [writing EXCEPT ![g] = IF conn = NoConn THEN Idle ELSE [msg |-> m, part |-> "len"]]
      /\ writing[g] = Idle
    BY DEF Enter
<1>4. writing' \in [Writers -> [msg : Message, part : Parts]]
    BY <1>1, <1>2, <1>3
<1>5. \A h \in Writers : writing'[h] = IF h = g THEN (IF conn = NoConn THEN Idle ELSE [msg |-> m, part |-> "len"])
                                       ELSE writing[h]
    BY <1>1, <1>3
<1>6. OwnKind'
    BY <1>5 DEF OwnKind
<1>7. faults' \in Nat
    BY <1>1 DEF Enter
<1>8. QED
    BY <1>3, <1>4, <1>6, <1>7

\* One conn.Write.
LEMMA WriteType ==
    ASSUME TypeOK, OwnKind, NEW g \in Writers, Write(g)
    PROVE  /\ writing' \in [Writers -> [msg : Message, part : Parts]] /\ OwnKind'
           /\ wire' \in [Conns -> Seq(Frame)]
           /\ writing[g] \in Frame
<1>1. writing \in [Writers -> [msg : Message, part : Parts]] /\ wire \in [Conns -> Seq(Frame)]
      /\ conn \in Conns \cup {NoConn}
    BY DEF TypeOK
<1>2. writing[g] \in Frame
    BY <1>1 DEF Write, Frame
<1>3. wire' \in [Conns -> Seq(Frame)]
  <2>1. conn \in Conns
    BY <1>1 DEF Write
  <2>2. Append(wire[conn], writing[g]) \in Seq(Frame)
    BY <1>1, <1>2, <2>1, AppendProperties
  <2>3. wire' = wire \/ wire' = [wire EXCEPT ![conn] = Append(wire[conn], writing[g])]
    BY <1>1 DEF Write
  <2>4. QED
    BY <1>1, <2>2, <2>3
<1>4. PICK x : /\ writing' = [writing EXCEPT ![g] = x]
               /\ x \in {Idle, [msg |-> writing[g].msg, part |-> "data"]}
  <2>1. [writing[g] EXCEPT !.part = "data"] = [msg |-> writing[g].msg, part |-> "data"]
    BY <1>1
  <2>2. QED
    BY <1>1, <2>1 DEF Write
<1>5. x \in [msg : Message, part : Parts]
  <2>1. Idle \in [msg : Message, part : Parts]
    BY DEF Idle, NoMessage, Message, Parts
  <2>2. [msg |-> writing[g].msg, part |-> "data"] \in [msg : Message, part : Parts]
    BY <1>1 DEF Parts
  <2>3. QED
    BY <1>4, <2>1, <2>2
<1>6. writing' \in [Writers -> [msg : Message, part : Parts]]
    BY <1>1, <1>4, <1>5
<1>7. \A h \in Writers : writing'[h] = IF h = g THEN x ELSE writing[h]
    BY <1>1, <1>4
<1>8. writing[g] # Idle
    BY DEF Write, Idle
<1>9. OwnKind'
    BY <1>4, <1>7, <1>8 DEF OwnKind
<1>10. QED
    BY <1>2, <1>3, <1>6, <1>9

\* HandleSlave reads the head of the wire.
LEMMA ReceiveType ==
    ASSUME TypeOK, NEW k \in Conns, Receive(k)
    PROVE  /\ wire[k] \in Seq(Frame) /\ wire[k] # << >> /\ Head(wire[k]) \in Frame
           /\ wire' = [wire EXCEPT ![k] = Tail(wire[k])] /\ Tail(wire[k]) \in Seq(Frame)
           /\ wire' \in [Conns -> Seq(Frame)]
<1>1. wire \in [Conns -> Seq(Frame)] /\ wire[k] \in Seq(Frame) /\ wire[k] # << >>
    BY DEF TypeOK, Receive
<1>2. Head(wire[k]) \in Frame /\ Tail(wire[k]) \in Seq(Frame)
    BY <1>1, HeadTailProperties
<1>3. wire' = [wire EXCEPT ![k] = Tail(wire[k])]
    BY <1>1 DEF Receive
<1>4. QED
    BY <1>1, <1>2, <1>3

LEMMA NextType == TypeOK /\ OwnKind /\ [Next]_vars => TypeOK' /\ OwnKind'
<1> SUFFICES ASSUME TypeOK, OwnKind, [Next]_vars PROVE TypeOK' /\ OwnKind'
    OBVIOUS
<1> USE DEF TypeOK
<1>0. expect \in [Conns -> Nat] /\ shares \in [Wallet -> Nat]
    OBVIOUS
\* Steps that leave the writers and the wires alone.
<1>1. ASSUME NEW w \in Wallet, NEW d \in Diffs, SendShare(w, d) PROVE TypeOK' /\ OwnKind'
  <2>1. d \in Nat /\ MaxFound \in Nat
    BY RelayAssumption
  <2>2. /\ cache' = [cache EXCEPT ![w] = cache[w] + d] /\ found' = [found EXCEPT ![w] = found[w] + d]
        /\ found[w] + d <= MaxFound
    BY <1>1 DEF SendShare
  <2>3. cache[w] + d \in 0 .. MaxFound /\ found[w] + d \in 0 .. MaxFound /\ cache[w] + d <= found[w] + d
    BY <2>1, <2>2
  <2>4. /\ cache' \in [Wallet -> 0 .. MaxFound] /\ found' \in [Wallet -> 0 .. MaxFound]
        /\ \A v \in Wallet : cache'[v] <= found'[v]
    BY <2>2, <2>3
  <2>5. QED
    BY <1>1, <2>4 DEF SendShare, OwnKind, linkVars, masterVars
<1>2. CASE FlushBegin
    BY <1>2 DEF FlushBegin, Cached, OwnKind, linkVars, masterVars
<1>3. CASE FlushEnd
  <2>1. /\ cache' \in [Wallet -> 0 .. MaxFound] /\ \A v \in Wallet : cache'[v] <= found[v]
    BY <1>3, RelayAssumption DEF FlushEnd
  <2>2. QED
    BY <1>3, <2>1 DEF FlushEnd, OwnKind, linkVars, masterVars
<1>4. CASE Dial
  <2>1. opened + 1 \in Conns /\ opened + 1 \in 0 .. MaxConns
    BY <1>4, RelayAssumption DEF Dial, Conns
  <2>2. QED
    BY <1>4, <2>1 DEF Dial, OwnKind, slaveVars
<1>5. CASE DialFails \/ LinkLost
    BY <1>5 DEF DialFails, LinkLost, OwnKind, slaveVars, masterVars
<1>6. CASE OnBlockFound
  <2>1. announced' \in Nat /\ numFound' \in Nat
    BY <1>6 DEF OnBlockFound
  <2>2. QED
    BY <1>6, <2>1 DEF OnBlockFound, OwnKind, slaveVars, linkVars
<1>7. CASE UNCHANGED vars
    BY <1>7 DEF vars, OwnKind
\* The writers.
<1>8. ASSUME NEW w \in Wallet, FlushWallet(w) PROVE TypeOK' /\ OwnKind'
  <2> DEFINE m == [kind |-> "share", wallet |-> w, diff |-> cache[w]]
  <2>1. m \in Message /\ m.kind = KindOf["flush"] /\ "flush" \in Writers
    BY DEF Message, KindOf, Writers
  <2>2. Enter("flush", m)
    BY <1>8 DEF FlushWallet
  <2> HIDE DEF m
  <2>3. writing' \in [Writers -> [msg : Message, part : Parts]] /\ OwnKind' /\ faults' \in Nat
    <3> HIDE DEF TypeOK
    <3>1. QED
      BY <2>1, <2>2, EnterType
  <2>4. QED
    BY <1>8, <2>3 DEF FlushWallet, masterVars
<1>9. ASSUME NEW n \in Counts, SendStats(n) PROVE TypeOK' /\ OwnKind'
  <2> DEFINE m == [kind |-> "stats", count |-> n]
  <2>1. m \in Message /\ m.kind = KindOf["stats"] /\ "stats" \in Writers
    BY DEF Message, KindOf, Writers
  <2>2. Enter("stats", m)
    BY <1>9 DEF SendStats
  <2> HIDE DEF m
  <2>3. writing' \in [Writers -> [msg : Message, part : Parts]] /\ OwnKind' /\ faults' \in Nat
    <3> HIDE DEF TypeOK
    <3>1. QED
      BY <2>1, <2>2, EnterType
  <2>4. QED
    BY <1>9, <2>3 DEF SendStats, masterVars
<1>10. CASE SendBlockFound
  <2> DEFINE m == [kind |-> "block"]
  <2>1. m \in Message /\ m.kind = KindOf["block"] /\ "block" \in Writers
    BY DEF Message, KindOf, Writers
  <2>2. Enter("block", m)
    BY <1>10 DEF SendBlockFound
  <2> HIDE DEF m
  <2>3. writing' \in [Writers -> [msg : Message, part : Parts]] /\ OwnKind' /\ faults' \in Nat
    <3> HIDE DEF TypeOK
    <3>1. QED
      BY <2>1, <2>2, EnterType
  <2>4. blocks' \in Nat
    BY <1>10 DEF SendBlockFound
  <2>5. QED
    BY <1>10, <2>3, <2>4 DEF SendBlockFound, masterVars
<1>11. ASSUME NEW g \in Writers, Write(g) PROVE TypeOK' /\ OwnKind'
  <2>1. /\ writing' \in [Writers -> [msg : Message, part : Parts]] /\ OwnKind'
        /\ wire' \in [Conns -> Seq(Frame)]
    <3> HIDE DEF TypeOK
    <3>1. QED
      BY <1>11, WriteType
  <2>2. QED
    BY <1>11, <2>1 DEF Write, linkVars, masterVars
<1>12. ASSUME NEW g \in Writers, Panic(g) PROVE TypeOK' /\ OwnKind'
  <2>1. Idle \in [msg : Message, part : Parts]
    BY DEF Idle, NoMessage, Message, Parts
  <2>2. writing' \in [Writers -> [msg : Message, part : Parts]] /\ OwnKind'
    BY <1>12, <2>1 DEF Panic, OwnKind
  <2>3. /\ cache' \in [Wallet -> 0 .. MaxFound] /\ \A v \in Wallet : cache'[v] <= found[v]
    BY <1>12, RelayAssumption DEF Panic
  <2>4. QED
    BY <1>12, <2>2, <2>3 DEF Panic, masterVars
\* The network and the master.
<1>13. ASSUME NEW k \in Conns, NEW n \in 0 .. MaxWire, Break(k, n) PROVE TypeOK' /\ OwnKind'
  <2>1. wire[k] \in Seq(Frame) /\ n \in 0 .. Len(wire[k])
    BY <1>13, RelayAssumption DEF Break
  <2>2. SubSeq(wire[k], 1, n) \in Seq(Frame)
    BY <2>1
  <2>3. wire' = [wire EXCEPT ![k] = SubSeq(wire[k], 1, n)]
    BY <1>13 DEF Break
  <2>4. wire' \in [Conns -> Seq(Frame)]
    BY <2>2, <2>3
  <2>5. QED
    BY <1>13, <2>4 DEF Break, OwnKind, slaveVars, masterVars
<1>14. ASSUME NEW k \in Conns, CloseSlave(k) PROVE TypeOK' /\ OwnKind'
  <2>1. wire' \in [Conns -> Seq(Frame)] /\ expect' \in [Conns -> Nat]
    BY <1>14 DEF CloseSlave
  <2>2. QED
    BY <1>14, <2>1 DEF CloseSlave, OwnKind, slaveVars, linkVars
<1>15. ASSUME NEW k \in Conns, Receive(k), expect' \in [Conns -> Nat],
              shares' \in [Wallet -> Nat], announced' \in Nat, numFound' \in Nat
       PROVE  TypeOK' /\ OwnKind'
  <2>1. wire' \in [Conns -> Seq(Frame)]
    <3> HIDE DEF TypeOK
    <3>1. QED
      BY <1>15, ReceiveType
  <2>2. QED
    BY <1>15, <2>1 DEF Receive, OwnKind, slaveVars, linkVars
<1>16. ASSUME NEW k \in Conns, ReadLength(k) PROVE TypeOK' /\ OwnKind'
  <2> HIDE DEF TypeOK
  <2> DEFINE f == Head(wire[k])
  <2>1. Receive(k) /\ FrameSize(f) = 2 /\ expect' = [expect EXCEPT ![k] = LengthIn(f)]
    BY <1>16 DEF ReadLength, Receive, Wanted, HeaderSize
  <2>2. f \in Frame
    BY <2>1, ReceiveType
  <2> HIDE DEF f
  <2>3. f.msg \in Message /\ f.part \in {"len", "data"}
    BY <2>2, FrameFacts
  <2>4. f.part = "data" => f.msg.count \in Nat
    <3> SUFFICES ASSUME f.part = "data" PROVE f.msg.count \in Nat
      OBVIOUS
    <3>1. Size(f.msg) = 2
      BY <2>1 DEF FrameSize
    <3>2. f.msg.count \in Counts
      BY <2>3, <3>1, MessageFacts
    <3>3. \A n \in Counts : n \in 0 .. 127
      BY RelayAssumption
    <3>4. \A n \in 0 .. 127 : n \in Nat
      OBVIOUS
    <3>5. QED
      BY <3>2, <3>3, <3>4
  <2>5. Size(f.msg) \in Nat
    BY <2>3, MessageFacts
  <2>6. LengthIn(f) \in Nat
    BY <2>3, <2>4, <2>5 DEF LengthIn
  <2>7. expect' \in [Conns -> Nat]
    BY <1>0, <2>1, <2>6
  <2>8. QED
    <3>1. shares' \in [Wallet -> Nat] /\ announced' \in Nat /\ numFound' \in Nat
      BY <1>16 DEF ReadLength, TypeOK
    <3>2. QED
      BY <1>15, <2>1, <2>7, <3>1
<1>17. ASSUME NEW k \in Conns, OnStats(k) \/ UnknownPacket(k) PROVE TypeOK' /\ OwnKind'
  <2> HIDE DEF TypeOK
  <2>1. Receive(k) /\ expect' \in [Conns -> Nat] /\ UNCHANGED <<shares, announced, numFound>>
    BY <1>0, <1>17 DEF OnStats, UnknownPacket, Body
  <2>2. shares' \in [Wallet -> Nat] /\ announced' \in Nat /\ numFound' \in Nat
    BY <2>1 DEF TypeOK
  <2>3. QED
    BY <1>15, <2>1, <2>2
<1>18. ASSUME NEW k \in Conns, OnBlock(k) PROVE TypeOK' /\ OwnKind'
  <2>1. Receive(k) /\ expect' \in [Conns -> Nat] /\ UNCHANGED <<shares, numFound>> /\ announced' \in Nat
    BY <1>18 DEF OnBlock, Body
  <2>2. QED
    BY <1>15, <2>1
<1>19. ASSUME NEW k \in Conns, OnShareFound(k) PROVE TypeOK' /\ OwnKind'
  <2> HIDE DEF TypeOK
  <2> DEFINE f == Head(wire[k])
             p == Payee(f.msg.wallet)
  <2>1. Receive(k) /\ expect' \in [Conns -> Nat] /\ UNCHANGED <<announced, numFound>>
    BY <1>0, <1>19 DEF OnShareFound, Body
  <2>2. f \in Frame
    BY <2>1, ReceiveType
  <2>3. f.part = "data" /\ f.msg.kind = "share" /\ MessageIn(f) = f.msg
    <3>1. MessageIn(f).kind = "share"
      BY <1>19 DEF OnShareFound, Body
    <3> HIDE DEF f
    <3>2. QED
      BY <3>1 DEF MessageIn, NoMessage
  <2>4. shares' = shares \/ shares' = [shares EXCEPT ![p] = @ + f.msg.diff]
    BY <1>19, <2>3 DEF OnShareFound
  <2> HIDE DEF f, p
  <2>5. f.msg.wallet \in Wallet /\ f.msg.diff \in Nat
    BY <2>2, <2>3, FrameFacts, MessageFacts, RelayAssumption
  <2>6. p \in Wallet
    BY <2>5, WalletAssumption DEF p, Payee
  <2>7. shares' \in [Wallet -> Nat]
    BY <1>0, <2>4, <2>5, <2>6
  <2>8. QED
    <3>1. announced' \in Nat /\ numFound' \in Nat
      BY <2>1 DEF TypeOK
    <3>2. QED
      BY <1>15, <2>1, <2>7, <3>1
<1>20. QED
    BY <1>1, <1>2, <1>3, <1>4, <1>5, <1>6, <1>7, <1>8, <1>9, <1>10, <1>11, <1>12, <1>13, <1>14,
       <1>16, <1>17, <1>18, <1>19 DEF Next, Flush, HandleSlave

-----------------------------------------------------------------------------
(* The slaves the master counts.                                           *)

\* A connection leaves numConns with its HandleSlave, on every error return.
THEOREM NoGhostConnsCorrect == Spec => []NoGhostConns
<1>1. Init => NoGhostConns
    BY DEF Init, NoGhostConns
<1>2. NoGhostConns /\ [Next]_vars => NoGhostConns'
  <2> SUFFICES ASSUME NoGhostConns, [Next]_vars PROVE NoGhostConns'
    OBVIOUS
  <2>1. ASSUME NEW k \in Conns, OnStats(k) PROVE NoGhostConns'
    <3>1. DOMAIN numConns' = DOMAIN numConns \cup {k} /\ k \in serving /\ serving' = serving
      BY <2>1 DEF OnStats, Body, Receive
    <3>2. QED
      BY <3>1 DEF NoGhostConns
  <2>2. ASSUME NEW k \in Conns, CloseSlave(k) PROVE NoGhostConns'
    <3>1. DOMAIN numConns' = DOMAIN numConns \ {k} /\ serving' = serving \ {k}
      BY <2>2 DEF CloseSlave, Restrict
    <3>2. QED
      BY <3>1 DEF NoGhostConns
  <2>3. CASE Dial
    BY <2>3 DEF Dial, NoGhostConns
  <2>4. ASSUME NEW k \in Conns, ReadLength(k) \/ OnShareFound(k) \/ OnBlock(k) \/ UnknownPacket(k)
        PROVE  NoGhostConns'
    BY <2>4 DEF ReadLength, OnShareFound, OnBlock, UnknownPacket, Body, Receive, NoGhostConns
  <2>5. ASSUME serving' = serving, numConns' = numConns PROVE NoGhostConns'
    BY <2>5 DEF NoGhostConns
  <2>6. CASE Flush \/ SendBlockFound \/ DialFails \/ LinkLost \/ OnBlockFound \/ UNCHANGED vars
    <3>1. serving' = serving /\ numConns' = numConns
      BY <2>6 DEF Flush, FlushBegin, FlushWallet, FlushEnd, SendBlockFound, DialFails, LinkLost,
         OnBlockFound, masterVars, vars
    <3>2. QED
      BY <2>5, <3>1
  <2>7. CASE (\E w \in Wallet, d \in Diffs : SendShare(w, d)) \/ (\E n \in Counts : SendStats(n))
             \/ (\E g \in Writers : Write(g) \/ Panic(g))
             \/ (\E k \in Conns, n \in 0 .. MaxWire : Break(k, n))
    <3>1. serving' = serving /\ numConns' = numConns
      BY <2>7 DEF SendShare, SendStats, Write, Panic, Break, masterVars
    <3>2. QED
      BY <2>5, <3>1
  <2>8. QED
    BY <2>1, <2>2, <2>3, <2>4, <2>6, <2>7 DEF Next, HandleSlave
<1>3. QED
    BY <1>1, <1>2, PTL DEF Spec

-----------------------------------------------------------------------------
(* What is under way to an address.                                        *)

ShareW(a) == [f \in Frame |-> ShareFor(f, a)]
Mine(a) == {v \in Wallet : Payee(v) = a}
Waiting(a) == {v \in Wallet : Payee(v) = a /\ (flushing => v \in todo)}
HandOf(x, a) == IF x = Idle THEN 0 ELSE ShareFor([msg |-> x.msg, part |-> "data"], a)

LEMMA ShareWType ==
    ASSUME NEW a PROVE ShareW(a) \in [Frame -> Nat]
<1>1. ASSUME NEW f \in Frame PROVE ShareFor(f, a) \in Nat
  <2>1. f.msg \in Message
    BY FrameFacts
  <2>2. f.msg.kind = "share" => f.msg.diff \in 0 .. MaxFound
    BY <2>1, MessageFacts
  <2>3. \A n \in 0 .. MaxFound : n \in Nat
    BY RelayAssumption
  <2>4. QED
    BY <2>2, <2>3 DEF ShareFor
<1>2. QED
    BY <1>1 DEF ShareW

LEMMA HandType ==
    ASSUME NEW x \in [msg : Message, part : Parts], NEW a PROVE HandOf(x, a) \in Nat
<1>1. [msg |-> x.msg, part |-> "data"] \in Frame
    BY DEF Frame
<1>2. ShareFor([msg |-> x.msg, part |-> "data"], a) \in Nat
    BY <1>1, ShareWType DEF ShareW
<1>3. QED
    BY <1>2 DEF HandOf

LEMMA OnWireIs ==
    ASSUME NEW w \in [Conns -> Seq(Frame)], NEW a
    PROVE  SumFunction([k \in Conns |-> SumFunction([i \in 1 .. Len(w[k]) |-> ShareFor(w[k][i], a)])])
               = Weight(w, ShareW(a))
<1>1. ASSUME NEW k \in Conns
      PROVE  SumFunction([i \in 1 .. Len(w[k]) |-> ShareFor(w[k][i], a)]) = WeightIn(w[k], ShareW(a))
  <2>1. w[k] \in Seq(Frame) /\ \A i \in 1 .. Len(w[k]) : w[k][i] \in Frame
    OBVIOUS
  <2>2. [i \in 1 .. Len(w[k]) |-> ShareFor(w[k][i], a)] = [i \in 1 .. Len(w[k]) |-> ShareW(a)[w[k][i]]]
    BY <2>1 DEF ShareW
  <2>3. QED
    BY <2>2 DEF WeightIn, SumFunction
<1>2. [k \in Conns |-> SumFunction([i \in 1 .. Len(w[k]) |-> ShareFor(w[k][i], a)])]
        = [k \in Conns |-> WeightIn(w[k], ShareW(a))]
    BY <1>1
<1>3. QED
    BY <1>2 DEF Weight, SumFunction

LEMMA WeightNat ==
    ASSUME NEW w \in [Conns -> Seq(Frame)], NEW W \in [Frame -> Nat] PROVE Weight(w, W) \in Nat
<1> DEFINE f == [j \in Conns |-> WeightIn(w[j], W)]
<1>1. IsFiniteSet(Conns)
    BY FS_Interval, RelayAssumption DEF Conns
<1>2. \A j \in Conns : f[j] \in Nat
    BY WeightType
<1>3. Weight(w, W) = SumFunctionOnSet(f, Conns)
    BY DEF Weight
<1> HIDE DEF f
<1>4. QED
    BY <1>1, <1>2, <1>3, SumNat

\* The four places a share can be in, as sums that the lemmas speak of.
LEMMA Quantities ==
    ASSUME TypeOK, NEW a \in Wallet
    PROVE  /\ FoundFor(a) = SumFunctionOnSet(found, Mine(a)) /\ FoundFor(a) \in Nat
           /\ InCache(a) = SumFunctionOnSet(cache, Waiting(a)) /\ InCache(a) \in Nat
           /\ InHand(a) = HandOf(writing["flush"], a) /\ InHand(a) \in Nat
           /\ OnWire(a) = Weight(wire, ShareW(a)) /\ OnWire(a) \in Nat
           /\ IsFiniteSet(Mine(a)) /\ IsFiniteSet(Waiting(a))
<1>1. IsFiniteSet(Mine(a)) /\ IsFiniteSet(Waiting(a))
  <2>1. Mine(a) \in SUBSET Wallet /\ Waiting(a) \in SUBSET Wallet /\ IsFiniteSet(Wallet)
    BY WalletAssumption DEF Mine, Waiting
  <2>2. QED
    BY <2>1, FS_Subset
<1>2. \A v \in Wallet : cache[v] \in Nat /\ found[v] \in Nat
    BY RelayAssumption DEF TypeOK
<1>3. FoundFor(a) = SumFunctionOnSet(found, Mine(a))
    BY <1>1, SumRestricted DEF FoundFor, Mine
<1>4. InCache(a) = SumFunctionOnSet(cache, Waiting(a))
    BY <1>1, SumRestricted DEF InCache, Waiting
<1>5. (\A v \in Mine(a) : found[v] \in Nat) /\ \A v \in Waiting(a) : cache[v] \in Nat
    BY <1>2 DEF Mine, Waiting
<1>6. FoundFor(a) \in Nat /\ InCache(a) \in Nat
    BY <1>1, <1>3, <1>4, <1>5, SumNat
<1>7. writing["flush"] \in [msg : Message, part : Parts]
    BY DEF TypeOK, Writers
<1>8. InHand(a) = HandOf(writing["flush"], a)
  <2>1. [writing["flush"] EXCEPT !.part = "data"] = [msg |-> writing["flush"].msg, part |-> "data"]
    BY <1>7
  <2>2. QED
    BY <2>1 DEF InHand, HandOf
<1>9. InHand(a) \in Nat
    BY <1>7, <1>8, HandType
<1>10. wire \in [Conns -> Seq(Frame)]
    BY DEF TypeOK
<1>11. OnWire(a) = Weight(wire, ShareW(a))
    BY <1>10, OnWireIs, Zenon DEF OnWire
<1>12. Weight(wire, ShareW(a)) \in Nat
    BY <1>10, WeightNat, ShareWType
<1>13. QED
    BY <1>1, <1>3, <1>4, <1>6, <1>8, <1>9, <1>11, <1>12

\* The same after a step.
LEMMA QuantitiesNext ==
    ASSUME TypeOK', NEW a \in Wallet
    PROVE  /\ FoundFor(a)' = SumFunctionOnSet(found', Mine(a)) /\ FoundFor(a)' \in Nat
           /\ InCache(a)' = SumFunctionOnSet(cache', Waiting(a)') /\ InCache(a)' \in Nat
           /\ InHand(a)' = HandOf(writing'["flush"], a) /\ InHand(a)' \in Nat
           /\ OnWire(a)' = Weight(wire', ShareW(a)) /\ OnWire(a)' \in Nat
           /\ IsFiniteSet(Mine(a)) /\ IsFiniteSet(Waiting(a)')
<1>1. IsFiniteSet(Mine(a)) /\ IsFiniteSet(Waiting(a)')
  <2>1. Mine(a) \in SUBSET Wallet /\ Waiting(a)' \in SUBSET Wallet /\ IsFiniteSet(Wallet)
    BY WalletAssumption DEF Mine, Waiting
  <2>2. QED
    BY <2>1, FS_Subset
<1>2. \A v \in Wallet : cache'[v] \in Nat /\ found'[v] \in Nat
    BY RelayAssumption DEF TypeOK
<1>3. FoundFor(a)' = SumFunctionOnSet(found', Mine(a))
    BY <1>1, SumRestricted DEF FoundFor, Mine
<1>4. InCache(a)' = SumFunctionOnSet(cache', Waiting(a)')
    BY <1>1, SumRestricted DEF InCache, Waiting
<1>5. (\A v \in Mine(a) : found'[v] \in Nat) /\ \A v \in Waiting(a)' : cache'[v] \in Nat
    BY <1>2 DEF Mine, Waiting
<1>6. FoundFor(a)' \in Nat /\ InCache(a)' \in Nat
    BY <1>1, <1>3, <1>4, <1>5, SumNat
<1>7. writing'["flush"] \in [msg : Message, part : Parts]
    BY DEF TypeOK, Writers
<1>8. InHand(a)' = HandOf(writing'["flush"], a)
  <2>1. [writing'["flush"] EXCEPT !.part = "data"] = [msg |-> writing'["flush"].msg, part |-> "data"]
    BY <1>7
  <2>2. QED
    BY <2>1 DEF InHand, HandOf
<1>9. InHand(a)' \in Nat
    BY <1>7, <1>8, HandType
<1>10. wire' \in [Conns -> Seq(Frame)]
    BY DEF TypeOK
<1>11. OnWire(a)' = Weight(wire', ShareW(a))
    BY <1>10, OnWireIs, Zenon DEF OnWire
<1>12. Weight(wire', ShareW(a)) \in Nat
    BY <1>10, WeightNat, ShareWType
<1>13. QED
    BY <1>1, <1>3, <1>4, <1>6, <1>8, <1>9, <1>11, <1>12

-----------------------------------------------------------------------------
(* What each step does to the wires.                                       *)

LEMMA WireWrite ==
    ASSUME TypeOK, OwnKind, NEW g \in Writers, Write(g), NEW W \in [Frame -> Nat]
    PROVE  /\ W[writing[g]] \in Nat
           /\ Weight(wire', W) = Weight(wire, W) + (IF conn \in alive THEN W[writing[g]] ELSE 0)
<1>1. writing[g] \in Frame /\ wire \in [Conns -> Seq(Frame)] /\ conn \in Conns
    BY WriteType DEF TypeOK, Write
<1>2. W[writing[g]] \in Nat /\ Weight(wire, W) \in Nat
    BY <1>1, WeightNat
<1>3. CASE conn \in alive
  <2> DEFINE s == Append(wire[conn], writing[g])
  <2>1. wire[conn] \in Seq(Frame) /\ s \in Seq(Frame)
    BY <1>1, AppendProperties
  <2>2. wire' = [wire EXCEPT ![conn] = s]
    BY <1>1, <1>3 DEF Write
  <2>3. WeightIn(s, W) = WeightIn(wire[conn], W) + W[writing[g]]
    BY <1>1, <2>1, WeightAppend
  <2> HIDE DEF s
  <2>4. /\ Weight([wire EXCEPT ![conn] = s], W) = Weight(wire, W) - WeightIn(wire[conn], W) + WeightIn(s, W)
        /\ WeightIn(wire[conn], W) \in Nat
    BY <1>1, <2>1, WeightUpdate
  <2>5. Weight([wire EXCEPT ![conn] = s], W) = Weight(wire, W) + W[writing[g]]
    BY <1>2, <2>3, <2>4
  <2>6. QED
    BY <1>2, <1>3, <2>2, <2>5
<1>4. CASE conn \notin alive
  <2>1. wire' = wire
    BY <1>4 DEF Write
  <2>2. QED
    BY <1>2, <1>4, <2>1
<1>5. QED
    BY <1>3, <1>4

LEMMA WireRead ==
    ASSUME TypeOK, NEW k \in Conns, Receive(k), NEW W \in [Frame -> Nat]
    PROVE  /\ Head(wire[k]) \in Frame /\ W[Head(wire[k])] \in Nat
           /\ Weight(wire, W) = Weight(wire', W) + W[Head(wire[k])]
<1> DEFINE s == Tail(wire[k])
<1>1. wire \in [Conns -> Seq(Frame)]
    BY DEF TypeOK
<1>2. wire[k] \in Seq(Frame) /\ wire[k] # << >> /\ wire' = [wire EXCEPT ![k] = s] /\ s \in Seq(Frame)
    BY ReceiveType
<1>3. /\ Head(wire[k]) \in Frame /\ W[Head(wire[k])] \in Nat
      /\ WeightIn(wire[k], W) = WeightIn(s, W) + W[Head(wire[k])]
    BY <1>2, WeightTail
<1> HIDE DEF s
<1>4. /\ Weight(wire, W) \in Nat /\ WeightIn(wire[k], W) \in Nat /\ WeightIn(s, W) \in Nat
      /\ Weight([wire EXCEPT ![k] = s], W) = Weight(wire, W) - WeightIn(wire[k], W) + WeightIn(s, W)
    BY <1>1, <1>2, WeightUpdate
<1>5. Weight(wire, W) = Weight([wire EXCEPT ![k] = s], W) + W[Head(wire[k])]
    BY <1>3, <1>4
<1>6. QED
    BY <1>2, <1>3, <1>5

LEMMA WireShrinks ==
    ASSUME TypeOK, NEW k \in Conns, CloseSlave(k) \/ (\E n \in 0 .. MaxWire : Break(k, n)),
           NEW W \in [Frame -> Nat]
    PROVE  Weight(wire', W) <= Weight(wire, W)
<1>1. wire \in [Conns -> Seq(Frame)] /\ wire[k] \in Seq(Frame)
    BY DEF TypeOK
<1>2. ASSUME NEW s \in Seq(Frame), WeightIn(s, W) <= WeightIn(wire[k], W), wire' = [wire EXCEPT ![k] = s]
      PROVE  Weight(wire', W) <= Weight(wire, W)
  <2>1. /\ Weight(wire, W) \in Nat /\ WeightIn(wire[k], W) \in Nat /\ WeightIn(s, W) \in Nat
        /\ Weight([wire EXCEPT ![k] = s], W) = Weight(wire, W) - WeightIn(wire[k], W) + WeightIn(s, W)
    BY <1>1, WeightUpdate
  <2>2. Weight([wire EXCEPT ![k] = s], W) <= Weight(wire, W)
    BY <1>2, <2>1
  <2>3. QED
    BY <1>2, <2>2
<1>3. CASE CloseSlave(k)
  <2> DEFINE s == << >>
  <2>1. s \in Seq(Frame) /\ WeightIn(s, W) = 0 /\ WeightIn(wire[k], W) \in Nat
    BY <1>1, WeightEmpty, WeightType
  <2>2. wire' = [wire EXCEPT ![k] = s]
    BY <1>3 DEF CloseSlave
  <2> HIDE DEF s
  <2>3. WeightIn(s, W) <= WeightIn(wire[k], W)
    BY <2>1
  <2>4. QED
    BY <1>2, <2>1, <2>2, <2>3
<1>4. ASSUME NEW n \in 0 .. MaxWire, Break(k, n) PROVE Weight(wire', W) <= Weight(wire, W)
  <2>1. n \in 0 .. Len(wire[k])
    BY <1>1, <1>4, RelayAssumption DEF Break
  <2>2. SubSeq(wire[k], 1, n) \in Seq(Frame) /\ WeightIn(SubSeq(wire[k], 1, n), W) <= WeightIn(wire[k], W)
    BY <1>1, <2>1, WeightCut
  <2>3. wire' = [wire EXCEPT ![k] = SubSeq(wire[k], 1, n)]
    BY <1>1, <1>4 DEF Break
  <2>4. QED
    BY <1>2, <2>2, <2>3
<1>5. QED
    BY <1>3, <1>4

-----------------------------------------------------------------------------
(* The cache.                                                              *)

\* SendShare adds to the cache of a wallet what its miner has found.
LEMMA CacheFound ==
    ASSUME TypeOK, TypeOK', NEW w \in Wallet, NEW d \in Diffs, SendShare(w, d), NEW a \in Wallet
    PROVE  InCache(a)' + FoundFor(a) = InCache(a) + FoundFor(a)'
<1> DEFINE T == Mine(a)  c == cache  e == cache'  f == found  h == found'
<1>1. T = Waiting(a) /\ T = Waiting(a)'
    BY DEF SendShare, Mine, Waiting
<1>2. /\ FoundFor(a) = SumFunctionOnSet(f, T) /\ FoundFor(a)' = SumFunctionOnSet(h, T)
      /\ InCache(a) = SumFunctionOnSet(c, T) /\ InCache(a)' = SumFunctionOnSet(e, T)
      /\ IsFiniteSet(T)
  <2>1. /\ FoundFor(a) = SumFunctionOnSet(f, T) /\ InCache(a) = SumFunctionOnSet(c, T) /\ IsFiniteSet(T)
    BY <1>1, Quantities
  <2>2. /\ FoundFor(a)' = SumFunctionOnSet(h, T) /\ InCache(a)' = SumFunctionOnSet(e, T)
    BY <1>1, QuantitiesNext
  <2>3. QED
    BY <2>1, <2>2
<1>3. /\ T \subseteq Wallet /\ d \in Nat
      /\ c \in [Wallet -> 0 .. MaxFound] /\ f \in [Wallet -> 0 .. MaxFound]
      /\ e = [c EXCEPT ![w] = c[w] + d] /\ h = [f EXCEPT ![w] = f[w] + d]
    BY RelayAssumption DEF Mine, TypeOK, SendShare
<1>4. \A y \in T : c[y] \in Int /\ e[y] \in Int /\ f[y] \in Int /\ h[y] \in Int
    BY <1>3, RelayAssumption
<1>5. /\ \A y \in T \ {w} : c[y] = e[y] /\ f[y] = h[y]
      /\ w \in T => e[w] = c[w] + d /\ h[w] = f[w] + d
    BY <1>3
<1> HIDE DEF T, c, e, f, h
<1>6. /\ SumFunctionOnSet(c, T) \in Int /\ SumFunctionOnSet(e, T) \in Int
      /\ SumFunctionOnSet(f, T) \in Int /\ SumFunctionOnSet(h, T) \in Int
    BY <1>2, <1>4, SumInt
<1>7. CASE w \in T
  <2>1. SumFunctionOnSet(e, T) = SumFunctionOnSet(c, T) - c[w] + e[w]
    BY <1>2, <1>4, <1>5, <1>7, SumUpdate
  <2>2. SumFunctionOnSet(h, T) = SumFunctionOnSet(f, T) - f[w] + h[w]
    BY <1>2, <1>4, <1>5, <1>7, SumUpdate
  <2>3. e[w] = c[w] + d /\ h[w] = f[w] + d /\ c[w] \in Int /\ f[w] \in Int /\ d \in Int
    BY <1>3, <1>4, <1>5, <1>7
  <2>4. SumFunctionOnSet(e, T) + SumFunctionOnSet(f, T) = SumFunctionOnSet(c, T) + SumFunctionOnSet(h, T)
    BY <1>6, <2>1, <2>2, <2>3
  <2>5. QED
    BY <1>2, <2>4
<1>8. CASE w \notin T
  <2>1. (\A y \in T : c[y] = e[y]) /\ \A y \in T : f[y] = h[y]
    BY <1>5, <1>8
  <2>2. SumFunctionOnSet(c, T) = SumFunctionOnSet(e, T) /\ SumFunctionOnSet(f, T) = SumFunctionOnSet(h, T)
    BY <1>2, <2>1, SumSame
  <2>3. QED
    BY <1>2, <2>2
<1>9. QED
    BY <1>7, <1>8

\* A flush begins with everything that is cached.
LEMMA CacheTaken ==
    ASSUME TypeOK, TypeOK', FlushBegin, NEW a \in Wallet
    PROVE  InCache(a)' = InCache(a)
<1> DEFINE S == Waiting(a)  T == Waiting(a)'  c == cache
<1>1. InCache(a) = SumFunctionOnSet(c, S) /\ IsFiniteSet(S)
    BY Quantities
<1>2. InCache(a)' = SumFunctionOnSet(c, T)
    BY QuantitiesNext DEF FlushBegin
<1>3. \A y \in Wallet : c[y] \in 0 .. MaxFound
    BY DEF TypeOK
<1>4. T \in SUBSET S /\ \A y \in S \ T : ~(c[y] > 0)
    BY DEF Waiting, FlushBegin, Cached
<1>5. \A y \in S : c[y] \in Nat
    BY <1>3, RelayAssumption DEF Waiting
<1>6. (\A y \in S : c[y] \in Int) /\ \A y \in S \ T : c[y] = 0
    BY <1>4, <1>5
<1> HIDE DEF S, T, c
<1>7. SumFunctionOnSet(c, S) = SumFunctionOnSet(c, T)
    BY <1>1, <1>4, <1>6, SumSupport
<1>8. QED
    BY <1>1, <1>2, <1>7

\* sendCachedShare takes the cache of one wallet.
LEMMA CacheLeaves ==
    ASSUME TypeOK, TypeOK', NEW w \in Wallet, FlushWallet(w), NEW a \in Wallet
    PROVE  InCache(a) = InCache(a)' + (IF Payee(w) = a THEN cache[w] ELSE 0) /\ cache[w] \in Nat
<1> DEFINE S == Waiting(a)  T == Waiting(a)'  c == cache
<1>1. InCache(a) = SumFunctionOnSet(c, S) /\ IsFiniteSet(S) /\ InCache(a) \in Nat
    BY Quantities
<1>2. InCache(a)' = SumFunctionOnSet(c, T) /\ InCache(a)' \in Nat
  <2>1. cache' = cache
    BY DEF FlushWallet
  <2>2. QED
    BY <2>1, QuantitiesNext
<1>3. \A y \in Wallet : c[y] \in Nat
    BY RelayAssumption DEF TypeOK
<1>4. T = S \ {w} /\ (w \in S <=> Payee(w) = a) /\ \A y \in S : c[y] \in Int
    BY <1>3 DEF Waiting, FlushWallet
<1> HIDE DEF S, T
<1>5. CASE Payee(w) = a
  <2>1. SumFunctionOnSet(c, S) = c[w] + SumFunctionOnSet(c, S \ {w})
    BY <1>1, <1>4, <1>5, SumRemove
  <2>2. InCache(a) = c[w] + InCache(a)'
    BY <1>1, <1>2, <1>4, <2>1
  <2>3. QED
    BY <1>1, <1>2, <1>3, <1>5, <2>2
<1>6. CASE Payee(w) # a
  <2>1. S = T
    BY <1>4, <1>6
  <2>2. QED
    BY <1>1, <1>2, <1>3, <1>6, <2>1
<1>7. QED
    BY <1>5, <1>6

\* An empty cache.
LEMMA CacheEmpty ==
    ASSUME TypeOK', cache' = [w \in Wallet |-> 0], NEW a \in Wallet
    PROVE  InCache(a)' = 0
<1> DEFINE c == cache'  T == Waiting(a)'
<1>1. InCache(a)' = SumFunctionOnSet(c, T) /\ IsFiniteSet(T)
    BY QuantitiesNext
<1>2. \A y \in T : c[y] = 0
    BY DEF Waiting
<1> HIDE DEF c, T
<1>3. QED
    BY <1>1, <1>2, SumZero

-----------------------------------------------------------------------------
(* Without a fault nothing is garbled.                                     *)

\* The master finds the frame it waits for.
LEMMA NotGarbled ==
    ASSUME TypeOK, Smooth, NEW k \in serving
    PROVE  /\ k = conn /\ conn \in alive /\ k \in Conns
           /\ wire[k] # << >> => FrameSize(Head(wire[k])) = Wanted(k)
<1>1. k = conn /\ conn \in alive /\ Framed(wire[k], expect[k], writing) /\ k \in Conns
    BY DEF Smooth, TypeOK
<1>2. ASSUME wire[k] # << >> PROVE FrameSize(Head(wire[k])) = Wanted(k)
  <2>1. wire[k] \in Seq(Frame) /\ Head(wire[k]) = wire[k][1]
    BY <1>1 DEF TypeOK
  <2>2. IF expect[k] = 0 THEN wire[k][1].part = "len"
        ELSE wire[k][1].part = "data" /\ expect[k] = Size(wire[k][1].msg)
    BY <1>1, <1>2 DEF Framed
  <2>3. QED
    BY <2>1, <2>2 DEF FrameSize, Wanted
<1>3. QED
    BY <1>1, <1>2

-----------------------------------------------------------------------------
(* The flow of difficulty.                                                 *)

\* What a frame that is no share carries.
LEMMA NoShareNoWeight ==
    ASSUME NEW f \in Frame, NEW a, f.part = "len" \/ f.msg.kind # "share"
    PROVE  ShareW(a)[f] = 0
    BY DEF ShareW, ShareFor

\* No step adds to what is stored for or under way to an address beyond what
\* its miners find; and where nothing is at fault no step takes any away.
LEMMA Flow ==
    ASSUME TypeOK, OwnKind, TypeOK', [Next]_vars, NEW a \in Wallet
    PROVE  /\ shares'[a] + UnderWay(a)' + FoundFor(a) <= shares[a] + UnderWay(a) + FoundFor(a)'
           /\ Smooth /\ faults' = 0 /\ a \notin Banned =>
                shares'[a] + UnderWay(a)' + FoundFor(a) = shares[a] + UnderWay(a) + FoundFor(a)'
<1> DEFINE C == InCache(a)    C1 == InCache(a)'
           H == InHand(a)     H1 == InHand(a)'
           O == OnWire(a)     O1 == OnWire(a)'
           F == FoundFor(a)   F1 == FoundFor(a)'
           S == shares[a]     S1 == shares'[a]
           Calm == Smooth /\ faults' = 0 /\ a \notin Banned
           W == ShareW(a)
<1>1. /\ C \in Nat /\ H \in Nat /\ O \in Nat /\ F \in Nat /\ S \in Nat
      /\ C = SumFunctionOnSet(cache, Waiting(a)) /\ F = SumFunctionOnSet(found, Mine(a))
      /\ H = HandOf(writing["flush"], a) /\ O = Weight(wire, W)
    BY Quantities DEF TypeOK
<1>2. /\ C1 \in Nat /\ H1 \in Nat /\ O1 \in Nat /\ F1 \in Nat
      /\ C1 = SumFunctionOnSet(cache', Waiting(a)') /\ F1 = SumFunctionOnSet(found', Mine(a))
      /\ H1 = HandOf(writing'["flush"], a) /\ O1 = Weight(wire', W)
    BY QuantitiesNext
<1>3. S1 \in Nat
    BY DEF TypeOK
<1>4. /\ UnderWay(a) = C + H + O /\ UnderWay(a)' = C1 + H1 + O1
    BY DEF UnderWay
<1>5. W \in [Frame -> Nat]
    BY ShareWType
\* What a step leaves alone.
<1>6. /\ cache' = cache /\ flushing' = flushing /\ todo' = todo => C1 = C
      /\ writing'["flush"] = writing["flush"] => H1 = H
      /\ wire' = wire => O1 = O
      /\ found' = found => F1 = F
      /\ shares' = shares => S1 = S
  <2>1. cache' = cache /\ flushing' = flushing /\ todo' = todo => C1 = C
    BY <1>1, <1>2 DEF Waiting
  <2>2. QED
    BY <1>1, <1>2, <2>1
<1> DEFINE Goal == /\ S1 + (C1 + H1 + O1) + F <= S + (C + H + O) + F1
                   /\ Calm => S1 + (C1 + H1 + O1) + F = S + (C + H + O) + F1
<1>7. SUFFICES Goal
    BY <1>4
<1> HIDE DEF C, H, O, F, S, C1, H1, O1, F1, S1, Calm, W
<1>8. ASSUME S1 = S, C1 = C, H1 = H, O1 = O, F1 = F PROVE Goal
    BY <1>1, <1>8
<1>9. ASSUME NEW w \in Wallet, NEW d \in Diffs, SendShare(w, d) PROVE Goal
  <2>1. H1 = H /\ O1 = O /\ S1 = S
    BY <1>6, <1>9 DEF SendShare, masterVars
  <2>2. C1 + F = C + F1
    BY <1>9, CacheFound DEF C, C1, F, F1
  <2>3. QED
    BY <1>1, <1>2, <2>1, <2>2
<1>10. CASE FlushBegin
  <2>1. H1 = H /\ O1 = O /\ S1 = S /\ F1 = F
    BY <1>6, <1>10 DEF FlushBegin, masterVars
  <2>2. C1 = C
    BY <1>10, CacheTaken DEF C, C1
  <2>3. QED
    BY <1>8, <2>1, <2>2
<1>11. ASSUME NEW w \in Wallet, FlushWallet(w) PROVE Goal
  <2> DEFINE m == [kind |-> "share", wallet |-> w, diff |-> cache[w]]
             x == IF Payee(w) = a THEN cache[w] ELSE 0
  <2>1. O1 = O /\ S1 = S /\ F1 = F
    BY <1>6, <1>11 DEF FlushWallet, masterVars
  <2>2. C = C1 + x /\ x \in Nat
    BY <1>11, CacheLeaves DEF C, C1
  <2>3. /\ writing["flush"] = Idle
        /\ writing' = [writing EXCEPT !["flush"] = IF conn = NoConn THEN Idle ELSE [msg |-> m, part |-> "len"]]
    BY <1>11 DEF FlushWallet, Enter
  <2>4. writing'["flush"] = IF conn = NoConn THEN Idle ELSE [msg |-> m, part |-> "len"]
    BY <2>3 DEF TypeOK, Writers
  <2>5. H = 0
    BY <1>1, <2>3 DEF HandOf
  <2>6. ShareFor([msg |-> m, part |-> "data"], a) = x
    BY DEF ShareFor
  <2>7. CASE conn = NoConn
    <3>1. H1 = 0
      BY <1>2, <2>4, <2>7 DEF HandOf
    <3>2. ~Calm
      BY <1>11, <2>7 DEF Calm, Smooth, FlushWallet
    <3> HIDE DEF x
    <3>3. QED
      BY <1>1, <1>2, <2>1, <2>2, <2>5, <3>1, <3>2
  <2>8. CASE conn # NoConn
    <3>1. H1 = x
      <4>1. [msg |-> m, part |-> "len"] # Idle
        BY DEF Idle
      <4>2. H1 = ShareFor([msg |-> m, part |-> "data"], a)
        BY <1>2, <2>4, <2>8, <4>1 DEF HandOf
      <4>3. QED
        BY <2>6, <4>2
    <3> HIDE DEF x
    <3>2. QED
      BY <1>1, <1>2, <2>1, <2>2, <2>5, <3>1
  <2>9. QED
    BY <2>7, <2>8
<1>12. CASE FlushEnd
  <2>1. H1 = H /\ O1 = O /\ S1 = S /\ F1 = F
    BY <1>6, <1>12 DEF FlushEnd, masterVars
  <2>2. C1 = 0
    BY <1>12, CacheEmpty DEF FlushEnd, C1
  <2>3. C = 0
    <3>1. Waiting(a) = {}
      BY <1>12 DEF Waiting, FlushEnd
    <3>2. QED
      BY <1>1, <3>1, SumEmpty
  <2>4. QED
    BY <1>8, <2>1, <2>2, <2>3
<1>13. ASSUME NEW g \in Writers, g # "flush", NEW m, Enter(g, m),
              UNCHANGED <<cache, flushing, todo, wire, found, shares>>
       PROVE  Goal
  <2>1. writing'["flush"] = writing["flush"]
    BY <1>13 DEF Enter, TypeOK, Writers
  <2>2. QED
    BY <1>6, <1>8, <1>13, <2>1
<1>14. (\E n \in Counts : SendStats(n)) \/ SendBlockFound => Goal
  <2>1. "stats" \in Writers /\ "block" \in Writers /\ "stats" # "flush" /\ "block" # "flush"
    BY DEF Writers
  <2>2. ASSUME NEW n \in Counts, SendStats(n) PROVE Goal
    <3>1. Enter("stats", [kind |-> "stats", count |-> n])
          /\ UNCHANGED <<cache, flushing, todo, wire, found, shares>>
      BY <2>2 DEF SendStats, masterVars
    <3>2. QED
      BY <1>13, <2>1, <3>1
  <2>3. CASE SendBlockFound
    <3>1. Enter("block", [kind |-> "block"])
          /\ UNCHANGED <<cache, flushing, todo, wire, found, shares>>
      BY <2>3 DEF SendBlockFound, masterVars
    <3>2. QED
      BY <1>13, <2>1, <3>1
  <2>4. QED
    BY <2>2, <2>3
<1>15. ASSUME NEW g \in Writers, Write(g) PROVE Goal
  <2> DEFINE x == IF conn \in alive THEN W[writing[g]] ELSE 0
  <2>1. C1 = C /\ S1 = S /\ F1 = F
    BY <1>6, <1>15 DEF Write, masterVars
  <2>2. W[writing[g]] \in Nat /\ O1 = O + x
    BY <1>1, <1>2, <1>5, <1>15, WireWrite
  <2>3. writing[g] \in Frame /\ writing[g] # Idle /\ writing[g].msg.kind = KindOf[g]
    <3>1. writing[g] \in Frame
      BY <1>15, WriteType
    <3>2. writing[g] # Idle
      BY <1>15 DEF Write, Idle
    <3>3. QED
      BY <3>1, <3>2 DEF OwnKind
  <2>4. Calm => conn \in alive
    BY <1>15 DEF Calm, Smooth, Write
  <2>5. CASE g # "flush"
    <3>1. writing'["flush"] = writing["flush"]
      BY <1>15, <2>5 DEF Write, TypeOK, Writers
    <3>2. KindOf[g] # "share"
      BY <2>5 DEF KindOf, Writers
    <3>3. W[writing[g]] = 0
      BY <2>3, <3>2, NoShareNoWeight DEF W
    <3>4. O1 = O
      BY <1>1, <2>2, <3>3
    <3>5. QED
      BY <1>6, <1>8, <2>1, <3>1, <3>4
  <2>6. CASE g = "flush" /\ writing[g].part = "len"
    <3>1. W[writing[g]] = 0
      BY <2>3, <2>6, NoShareNoWeight DEF W
    <3>2. O1 = O
      BY <1>1, <2>2, <3>1
    <3>3. writing'["flush"] = [writing["flush"] EXCEPT !.part = "data"]
      BY <1>15, <2>6 DEF Write, TypeOK, Writers
    <3>4. writing'["flush"] = [msg |-> writing["flush"].msg, part |-> "data"]
      BY <2>3, <2>6, <3>3 DEF Frame
    <3>5. writing'["flush"] # Idle
      BY <3>4 DEF Idle
    <3>6. writing'["flush"].msg = writing["flush"].msg
      BY <3>4
    <3>7. H1 = H
      BY <1>1, <1>2, <2>3, <2>6, <3>5, <3>6 DEF HandOf
    <3>8. QED
      BY <1>8, <2>1, <3>2, <3>7
  <2>7. CASE g = "flush" /\ writing[g].part = "data"
    <3>1. writing'["flush"] = Idle
      BY <1>15, <2>7 DEF Write, TypeOK, Writers
    <3>2. H1 = 0
      BY <1>2, <3>1 DEF HandOf
    <3>3. H = W[writing[g]]
      <4>1. [msg |-> writing[g].msg, part |-> "data"] = writing[g]
        BY <2>3, <2>7 DEF Frame
      <4>2. H = ShareFor(writing[g], a)
        BY <1>1, <2>3, <2>7, <4>1 DEF HandOf
      <4>3. QED
        BY <2>3, <4>2 DEF W, ShareW
    <3>4. QED
      BY <1>1, <1>2, <2>1, <2>2, <2>4, <3>2, <3>3
  <2>8. QED
    BY <1>15, <2>5, <2>6, <2>7 DEF Write
<1>16. ASSUME NEW g \in Writers, Panic(g) PROVE Goal
  <2>1. O1 = O /\ S1 = S /\ F1 = F
    BY <1>6, <1>16 DEF Panic, masterVars
  <2>2. C1 = 0
    BY <1>16, CacheEmpty DEF Panic, C1
  <2>3. H1 = 0
    BY <1>2, <1>16 DEF Panic, HandOf, Writers
  <2>4. ~Calm
    BY <1>16 DEF Calm, Smooth, Panic, Idle
  <2>5. QED
    BY <1>1, <1>2, <2>1, <2>2, <2>3, <2>4
<1>17. CASE Dial \/ DialFails \/ LinkLost \/ OnBlockFound \/ UNCHANGED vars
  <2>1. UNCHANGED <<cache, flushing, todo, writing, wire, found, shares>>
    BY <1>17 DEF Dial, DialFails, LinkLost, OnBlockFound, vars, slaveVars, masterVars
  <2>2. QED
    BY <1>6, <1>8, <2>1
<1>18. ASSUME NEW k \in Conns, NEW n \in 0 .. MaxWire, Break(k, n) PROVE Goal
  <2>1. C1 = C /\ H1 = H /\ S1 = S /\ F1 = F
    BY <1>6, <1>18 DEF Break, slaveVars, masterVars
  <2>2. O1 <= O
    BY <1>1, <1>2, <1>5, <1>18, WireShrinks
  <2>3. ~Calm
    BY <1>18 DEF Calm, Break, TypeOK
  <2>4. QED
    BY <1>1, <1>2, <2>1, <2>2, <2>3
<1>19. ASSUME NEW k \in Conns, CloseSlave(k) PROVE Goal
  <2>1. C1 = C /\ H1 = H /\ S1 = S /\ F1 = F
    BY <1>6, <1>19 DEF CloseSlave, slaveVars
  <2>2. O1 <= O
    BY <1>1, <1>2, <1>5, <1>19, WireShrinks
  <2>3. ~Calm
    BY <1>19, NotGarbled DEF Calm, CloseSlave, Garbled, Ended
  <2>4. QED
    BY <1>1, <1>2, <2>1, <2>2, <2>3
\* HandleSlave has read a frame.
<1>20. ASSUME NEW k \in Conns, Receive(k)
       PROVE  /\ C1 = C /\ H1 = H /\ F1 = F
              /\ Head(wire[k]) \in Frame /\ W[Head(wire[k])] \in Nat /\ O = O1 + W[Head(wire[k])]
  <2>1. C1 = C /\ H1 = H /\ F1 = F
    BY <1>6, <1>20 DEF Receive, slaveVars
  <2>2. Head(wire[k]) \in Frame /\ W[Head(wire[k])] \in Nat /\ O = O1 + W[Head(wire[k])]
    BY <1>1, <1>2, <1>5, <1>20, WireRead
  <2>3. QED
    BY <2>1, <2>2
<1>21. ASSUME NEW k \in Conns, ReadLength(k) PROVE Goal
  <2> DEFINE f == Head(wire[k])
  <2>1. Receive(k) /\ shares' = shares /\ FrameSize(f) = 2
    BY <1>21 DEF ReadLength, Receive, Wanted, HeaderSize
  <2>2. C1 = C /\ H1 = H /\ F1 = F /\ f \in Frame /\ O = O1 + W[f]
    BY <1>20, <2>1
  <2> HIDE DEF f
  <2>3. f.part = "len" \/ f.msg.kind # "share"
    <3>1. f.msg \in Message /\ f.part \in {"len", "data"}
      BY <2>2, FrameFacts
    <3>2. f.part = "data" => Size(f.msg) = 2
      BY <2>1 DEF FrameSize
    <3>3. QED
      BY <3>1, <3>2, MessageFacts
  <2>4. W[f] = 0
    BY <2>2, <2>3, NoShareNoWeight DEF W
  <2>5. O = O1 /\ S1 = S
    BY <1>2, <1>6, <2>1, <2>2, <2>4
  <2>6. QED
    BY <1>8, <2>2, <2>5
<1>22. ASSUME NEW k \in Conns, OnStats(k) \/ OnBlock(k) \/ UnknownPacket(k) PROVE Goal
  <2> DEFINE f == Head(wire[k])
  <2>1. Receive(k) /\ shares' = shares /\ MessageIn(f).kind # "share"
    BY <1>22 DEF OnStats, OnBlock, UnknownPacket, Body
  <2>2. C1 = C /\ H1 = H /\ F1 = F /\ f \in Frame /\ O = O1 + W[f]
    BY <1>20, <2>1
  <2> HIDE DEF f
  <2>3. f.part = "len" \/ f.msg.kind # "share"
    BY <2>1, <2>2, FrameFacts DEF MessageIn
  <2>4. W[f] = 0
    BY <2>2, <2>3, NoShareNoWeight DEF W
  <2>5. O = O1 /\ S1 = S
    BY <1>2, <1>6, <2>1, <2>2, <2>4
  <2>6. QED
    BY <1>8, <2>2, <2>5
<1>23. ASSUME NEW k \in Conns, OnShareFound(k) PROVE Goal
  <2> DEFINE f == Head(wire[k])
             p == Payee(f.msg.wallet)
  <2>1. Receive(k)
    BY <1>23 DEF OnShareFound, Body
  <2>2. C1 = C /\ H1 = H /\ F1 = F /\ f \in Frame /\ O = O1 + W[f]
    BY <1>20, <2>1
  <2>3. f.part = "data" /\ f.msg.kind = "share" /\ MessageIn(f) = f.msg
    <3>1. MessageIn(f).kind = "share"
      BY <1>23 DEF OnShareFound, Body
    <3> HIDE DEF f
    <3>2. QED
      BY <3>1 DEF MessageIn, NoMessage
  <2>4. shares' = IF p \in Banned THEN shares ELSE [shares EXCEPT ![p] = @ + f.msg.diff]
    BY <1>23, <2>3 DEF OnShareFound
  <2> HIDE DEF f, p
  <2>5. W[f] = IF p = a THEN f.msg.diff ELSE 0
    BY <2>2, <2>3 DEF W, ShareW, ShareFor, p
  <2>6. W[f] \in Nat
    BY <1>5, <2>2
  <2>7. S1 = IF p = a /\ p \notin Banned THEN S + f.msg.diff ELSE S
    BY <2>4 DEF S, S1, TypeOK
  <2>8. CASE p = a /\ p \notin Banned
    <3>1. S1 = S + W[f]
      BY <2>5, <2>7, <2>8
    <3>2. QED
      BY <1>1, <1>2, <2>2, <2>6, <3>1
  <2>9. CASE p # a
    <3>1. S1 = S /\ W[f] = 0
      BY <2>5, <2>7, <2>9
    <3>2. QED
      BY <1>1, <1>2, <2>2, <3>1
  <2>10. CASE p = a /\ p \in Banned
    <3>1. S1 = S /\ ~Calm
      BY <2>7, <2>10 DEF Calm
    <3>2. QED
      BY <1>1, <1>2, <2>2, <2>6, <3>1
  <2>11. QED
    BY <2>8, <2>9, <2>10
<1>24. QED
    BY <1>9, <1>10, <1>11, <1>12, <1>14, <1>15, <1>16, <1>17, <1>18, <1>19, <1>21, <1>22, <1>23
    DEF Next, Flush, HandleSlave

-----------------------------------------------------------------------------
(* The flow of found blocks.                                               *)

BlockW == [f \in Frame |-> IF f.part = "data" /\ f.msg.kind = "block" THEN 1 ELSE 0]
BlockInHand == IF writing["block"] = Idle THEN 0 ELSE 1

\* Every block that is counted, announced or under way was found.
BlocksFound == numFound + announced + BlockInHand + Weight(wire, BlockW) <= blocks

LEMMA NextBlocks ==
    ASSUME TypeOK, OwnKind, TypeOK', [Next]_vars, BlocksFound
    PROVE  BlocksFound'
<1> DEFINE N == numFound      N1 == numFound'
           A == announced     A1 == announced'
           B == BlockInHand   B1 == BlockInHand'
           O == Weight(wire, BlockW)   O1 == Weight(wire', BlockW)
           K == blocks        K1 == blocks'
<1>1. BlockW \in [Frame -> Nat]
    BY DEF BlockW
<1>2. /\ N \in Nat /\ A \in Nat /\ O \in Nat /\ K \in Nat /\ B \in {0, 1}
      /\ N1 \in Nat /\ A1 \in Nat /\ O1 \in Nat /\ K1 \in Nat /\ B1 \in {0, 1}
  <2>1. O \in Nat /\ O1 \in Nat
    BY <1>1, WeightNat DEF TypeOK
  <2>2. N \in Nat /\ A \in Nat /\ K \in Nat
    BY DEF TypeOK
  <2>3. N1 \in Nat /\ A1 \in Nat /\ K1 \in Nat
    BY DEF TypeOK
  <2>4. QED
    BY <2>1, <2>2, <2>3 DEF BlockInHand
<1>3. N + A + B + O <= K
    BY DEF BlocksFound
<1>4. writing'["block"] = writing["block"] => B1 = B
    BY DEF BlockInHand
<1>5. SUFFICES N1 + A1 + B1 + O1 <= K1
    BY DEF BlocksFound, BlockW, Frame, Message
<1>6. writing \in [Writers -> [msg : Message, part : Parts]]
    BY DEF TypeOK
<1> DEFINE Goal == N1 + A1 + B1 + O1 <= K1
<1>7. ASSUME N1 = N, A1 = A, B1 = B \/ B1 = 0, O1 <= O, K1 = K PROVE Goal
  <2> HIDE DEF N, N1, A, A1, B, B1, O, O1, K, K1
  <2>1. B1 <= B /\ B \in Nat /\ B1 \in Nat
    BY <1>2, <1>7
  <2>2. QED
    BY <1>2, <1>3, <1>7, <2>1
<1>8. O1 = O => O1 <= O
    BY <1>2
<1>9. CASE SendBlockFound
  <2>1. N1 = N /\ A1 = A /\ O1 = O /\ K1 = K + 1 /\ B = 0
    BY <1>9 DEF SendBlockFound, Enter, masterVars, BlockInHand
  <2> HIDE DEF N, N1, A, A1, B, B1, O, O1, K, K1
  <2>2. QED
    BY <1>2, <1>3, <2>1
<1>10. ASSUME NEW g \in Writers, g # "block", NEW m, Enter(g, m),
              UNCHANGED <<numFound, announced, wire, blocks>>
       PROVE  Goal
  <2>1. writing'["block"] = writing["block"]
    BY <1>6, <1>10 DEF Enter, Writers
  <2>2. QED
    BY <1>4, <1>7, <1>8, <1>10, <2>1
<1>11. ASSUME NEW n \in Counts, SendStats(n) PROVE Goal
  <2>1. /\ Enter("stats", [kind |-> "stats", count |-> n])
        /\ UNCHANGED <<numFound, announced, wire, blocks>> /\ "stats" \in Writers /\ "stats" # "block"
    BY <1>11 DEF SendStats, masterVars, Writers
  <2>2. QED
    BY <1>10, <2>1
<1>12. ASSUME NEW w \in Wallet, FlushWallet(w) PROVE Goal
  <2>1. /\ Enter("flush", [kind |-> "share", wallet |-> w, diff |-> cache[w]])
        /\ UNCHANGED <<numFound, announced, wire, blocks>> /\ "flush" \in Writers /\ "flush" # "block"
    BY <1>12 DEF FlushWallet, masterVars, Writers
  <2>2. QED
    BY <1>10, <2>1
<1>13. ASSUME NEW g \in Writers, Write(g) PROVE Goal
  <2> DEFINE x == IF conn \in alive THEN BlockW[writing[g]] ELSE 0
  <2>1. N1 = N /\ A1 = A /\ K1 = K
    BY <1>13 DEF Write, masterVars
  <2>2. BlockW[writing[g]] \in Nat /\ O1 = O + x
    BY <1>1, <1>13, WireWrite
  <2>3. writing[g] \in Frame /\ writing[g] # Idle /\ writing[g].msg.kind = KindOf[g]
    <3>1. writing[g] \in Frame
      BY <1>13, WriteType
    <3>2. writing[g] # Idle
      BY <1>13 DEF Write, Idle
    <3>3. QED
      BY <3>1, <3>2 DEF OwnKind
  <2>4. CASE g # "block" \/ writing[g].part = "len"
    <3>1. BlockW[writing[g]] = 0
      BY <2>3, <2>4 DEF BlockW, KindOf, Writers
    <3>2. O1 = O
      BY <1>2, <2>2, <3>1
    <3>3. B1 = B
      <4>1. CASE g # "block"
        BY <1>4, <1>6, <1>13, <4>1 DEF Write, Writers
      <4>2. CASE g = "block" /\ writing[g].part = "len"
        <5>1. writing'["block"] = [writing["block"] EXCEPT !.part = "data"]
          BY <1>6, <1>13, <4>2 DEF Write
        <5>2. writing'["block"].part = "data"
          BY <2>3, <4>2, <5>1 DEF Frame
        <5>3. QED
          BY <2>3, <4>2, <5>2 DEF BlockInHand, Idle
      <4>3. QED
        BY <2>4, <4>1, <4>2
    <3>4. QED
      BY <1>7, <1>8, <2>1, <3>2, <3>3
  <2>5. CASE g = "block" /\ writing[g].part = "data"
    <3>1. BlockW[writing[g]] \in {0, 1}
      BY <2>3 DEF BlockW
    <3>2. B = 1
      BY <2>3, <2>5 DEF BlockInHand
    <3>3. B1 = 0
      BY <1>6, <1>13, <2>5 DEF Write, BlockInHand
    <3>4. x \in {0, 1}
      BY <3>1
    <3> HIDE DEF N, N1, A, A1, B, B1, O, O1, K, K1, x
    <3>5. QED
      BY <1>2, <1>3, <2>1, <2>2, <3>2, <3>3, <3>4
  <2>6. QED
    BY <1>13, <2>4, <2>5 DEF Write
<1>14. ASSUME NEW g \in Writers, Panic(g) PROVE Goal
  <2>1. B1 = 0
    BY <1>14 DEF Panic, BlockInHand, Writers
  <2>2. QED
    BY <1>7, <1>8, <1>14, <2>1 DEF Panic, masterVars
<1>15. ASSUME UNCHANGED <<numFound, announced, writing, wire, blocks>> PROVE Goal
    BY <1>4, <1>7, <1>8, <1>15
<1>16. CASE FlushBegin \/ FlushEnd \/ Dial \/ DialFails \/ LinkLost \/ UNCHANGED vars
            \/ (\E w \in Wallet, d \in Diffs : SendShare(w, d))
  <2>1. UNCHANGED <<numFound, announced, writing, wire, blocks>>
    BY <1>16 DEF FlushBegin, FlushEnd, Dial, DialFails, LinkLost, vars, SendShare, masterVars, slaveVars
  <2>2. QED
    BY <1>15, <2>1
<1>17. CASE OnBlockFound
  <2>1. N1 = N + 1 /\ A1 = A - 1 /\ B1 = B /\ O1 = O /\ K1 = K
    BY <1>4, <1>17 DEF OnBlockFound, slaveVars
  <2> HIDE DEF N, N1, A, A1, B, B1, O, O1, K, K1
  <2>2. QED
    BY <1>2, <1>3, <2>1
<1>18. ASSUME NEW k \in Conns, CloseSlave(k) \/ (\E n \in 0 .. MaxWire : Break(k, n)) PROVE Goal
  <2>1. O1 <= O
    BY <1>1, <1>18, WireShrinks
  <2>2. N1 = N /\ A1 = A /\ K1 = K /\ writing' = writing
    BY <1>18 DEF CloseSlave, Break, slaveVars, masterVars
  <2>3. QED
    BY <1>4, <1>7, <2>1, <2>2
<1>19. ASSUME NEW k \in Conns, Receive(k)
       PROVE  /\ B1 = B /\ K1 = K /\ Head(wire[k]) \in Frame
              /\ BlockW[Head(wire[k])] \in Nat /\ O = O1 + BlockW[Head(wire[k])]
  <2>1. writing' = writing /\ K1 = K
    BY <1>19 DEF Receive, slaveVars
  <2>2. Head(wire[k]) \in Frame /\ BlockW[Head(wire[k])] \in Nat /\ O = O1 + BlockW[Head(wire[k])]
    BY <1>1, <1>19, WireRead
  <2>3. QED
    BY <1>4, <2>1, <2>2
<1>20. ASSUME NEW k \in Conns, ReadLength(k) \/ OnStats(k) \/ OnShareFound(k) \/ UnknownPacket(k)
       PROVE  Goal
  <2> DEFINE x == BlockW[Head(wire[k])]
  <2>1. Receive(k) /\ N1 = N /\ A1 = A
    BY <1>20 DEF ReadLength, OnStats, OnShareFound, UnknownPacket, Body
  <2>2. B1 = B /\ K1 = K /\ x \in Nat /\ O = O1 + x
    BY <1>19, <2>1
  <2>3. O1 <= O
    <3> HIDE DEF O, O1, x
    <3>1. QED
      BY <1>2, <2>2
  <2>4. QED
    BY <1>7, <2>1, <2>2, <2>3
<1>21. ASSUME NEW k \in Conns, OnBlock(k) PROVE Goal
  <2> DEFINE f == Head(wire[k])
  <2>1. Receive(k) /\ N1 = N /\ A1 = A + 1 /\ MessageIn(f).kind = "block"
    BY <1>21 DEF OnBlock, Body
  <2>2. B1 = B /\ K1 = K /\ f \in Frame /\ O = O1 + BlockW[f]
    BY <1>19, <2>1
  <2>3. BlockW[f] = 1
    <3> HIDE DEF f
    <3>1. f.part = "data" /\ f.msg.kind = "block"
      BY <2>1 DEF MessageIn, NoMessage
    <3>2. QED
      BY <2>2, <3>1 DEF BlockW
  <2>4. O = O1 + 1
    BY <2>2, <2>3
  <2> HIDE DEF N, N1, A, A1, B, B1, O, O1, K, K1
  <2>5. QED
    BY <1>2, <1>3, <2>1, <2>2, <2>4
<1>22. QED
    BY <1>9, <1>11, <1>12, <1>13, <1>14, <1>16, <1>17, <1>18, <1>20, <1>21 DEF Next, Flush, HandleSlave

-----------------------------------------------------------------------------
(* Framing.                                                                *)

Hand == [msg : Message, part : Parts]

\* A goroutine begins to send when nobody else does.
LEMMA FramedEnter ==
    ASSUME NEW s \in Seq(Frame), NEW e, NEW wr \in [Writers -> Hand], Framed(s, e, wr),
           \A g \in Writers : wr[g] = Idle,
           NEW v \in [Writers -> Hand], \A g \in Writers : v[g].part # "data"
    PROVE  Framed(s, e, v)
<1>1. \A g \in Writers : wr[g].part # "data"
    BY DEF Idle
<1>2. \A g \in Writers : \A m : wr[g] # [msg |-> m, part |-> "data"]
    BY DEF Idle
<1>3. QED
    BY <1>1, <1>2 DEF Framed

\* The only writer writes its next frame.
LEMMA FramedWrite ==
    ASSUME NEW s \in Seq(Frame), NEW e, NEW wr \in [Writers -> Hand], Framed(s, e, wr),
           NEW g \in Writers, wr[g] \in Frame, \A h \in Writers : h # g => wr[h] = Idle,
           NEW v \in [Writers -> Hand],
           v[g] = IF wr[g].part = "len" THEN [msg |-> wr[g].msg, part |-> "data"] ELSE Idle,
           \A h \in Writers : h # g => v[h] = Idle
    PROVE  Framed(Append(s, wr[g]), e, v)
<1> DEFINE t == Append(s, wr[g])
           n == Len(s)
<1>1. /\ n \in Nat /\ Len(t) = n + 1 /\ t # << >> /\ t[n + 1] = wr[g]
      /\ \A i \in 1 .. n : t[i] = s[i]
      /\ (s = << >> <=> n = 0)
    BY AppendProperties
<1>2. wr[g].part \in {"len", "data"} /\ wr[g] = [msg |-> wr[g].msg, part |-> wr[g].part]
    BY DEF Frame
<1>3. \A h \in Writers : wr[h].part = "data" => h = g
    BY DEF Idle
<1>4. \A h \in Writers : \A m : wr[h] = [msg |-> m, part |-> "data"] => wr[h].part = "data" /\ wr[h].msg = m
    OBVIOUS
\* The frame that is written goes on where the last one ended.
<1>5. n > 0 => IF s[n].part = "len" THEN wr[g] = [msg |-> s[n].msg, part |-> "data"] ELSE wr[g].part = "len"
  <2> SUFFICES ASSUME n > 0
               PROVE  IF s[n].part = "len" THEN wr[g] = [msg |-> s[n].msg, part |-> "data"] ELSE wr[g].part = "len"
    OBVIOUS
  <2>1. CASE s[n].part = "len"
    <3>1. PICK h \in Writers : wr[h] = [msg |-> s[n].msg, part |-> "data"]
      BY <1>1, <2>1 DEF Framed
    <3>2. h = g
      BY <1>3, <1>4, <3>1
    <3>3. QED
      BY <2>1, <3>1, <3>2
  <2>2. CASE s[n].part # "len"
    <3>1. wr[g].part # "data"
      BY <1>1, <2>2 DEF Framed
    <3>2. QED
      BY <1>2, <2>2, <3>1
  <2>3. QED
    BY <2>1, <2>2
<1>6. n = 0 => IF e = 0 THEN wr[g].part = "len" ELSE wr[g].part = "data" /\ e = Size(wr[g].msg)
  <2> SUFFICES ASSUME n = 0
               PROVE  IF e = 0 THEN wr[g].part = "len" ELSE wr[g].part = "data" /\ e = Size(wr[g].msg)
    OBVIOUS
  <2>1. IF e = 0 THEN \A h \in Writers : wr[h].part # "data"
        ELSE \E h \in Writers : wr[h].part = "data" /\ e = Size(wr[h].msg)
    BY <1>1 DEF Framed
  <2>2. QED
    BY <1>2, <1>3, <2>1
<1> HIDE DEF t, n
<1>7. \A i \in 1 .. Len(t) - 1 :
        IF t[i].part = "len" THEN t[i + 1] = [msg |-> t[i].msg, part |-> "data"] ELSE t[i + 1].part = "len"
  <2> SUFFICES ASSUME NEW i \in 1 .. n
               PROVE  IF t[i].part = "len" THEN t[i + 1] = [msg |-> t[i].msg, part |-> "data"]
                      ELSE t[i + 1].part = "len"
    BY <1>1
  <2>1. CASE i = n
    BY <1>1, <1>5, <2>1
  <2>2. CASE i # n
    <3>1. i \in 1 .. n - 1 /\ i + 1 \in 1 .. n /\ t[i] = s[i] /\ t[i + 1] = s[i + 1]
      BY <1>1, <2>2
    <3>2. IF s[i].part = "len" THEN s[i + 1] = [msg |-> s[i].msg, part |-> "data"] ELSE s[i + 1].part = "len"
      BY <3>1 DEF Framed, n
    <3>3. QED
      BY <3>1, <3>2
  <2>3. QED
    BY <2>1, <2>2
<1>8. IF e = 0 THEN t[1].part = "len" ELSE t[1].part = "data" /\ e = Size(t[1].msg)
  <2>1. CASE n = 0
    BY <1>1, <1>6, <2>1
  <2>2. CASE n # 0
    <3>1. t[1] = s[1] /\ s # << >>
      BY <1>1, <2>2
    <3>2. QED
      BY <3>1 DEF Framed
  <2>3. QED
    BY <2>1, <2>2
<1>9. IF t[Len(t)].part = "len" THEN \E h \in Writers : v[h] = [msg |-> t[Len(t)].msg, part |-> "data"]
      ELSE \A h \in Writers : v[h].part # "data"
  <2>1. t[Len(t)] = wr[g]
    BY <1>1
  <2>2. CASE wr[g].part = "len"
    BY <2>1, <2>2
  <2>3. CASE wr[g].part # "len"
    <3>1. \A h \in Writers : v[h] = Idle
      BY <2>3
    <3>2. QED
      BY <2>1, <2>3, <3>1 DEF Idle
  <2>4. QED
    BY <2>2, <2>3
<1>10. Framed(t, e, v)
    BY <1>1, <1>7, <1>8, <1>9 DEF Framed
<1>11. QED
    BY <1>10 DEF t

\* The master reads the frame it waits for.
LEMMA FramedRead ==
    ASSUME NEW s \in Seq(Frame), NEW e, NEW wr \in [Writers -> Hand], Framed(s, e, wr), s # << >>,
           NEW d, d = IF e = 0 THEN Size(s[1].msg) ELSE 0
    PROVE  Framed(Tail(s), d, wr)
<1> DEFINE t == Tail(s)
           n == Len(s)
<1>1. /\ n \in Nat /\ n > 0 /\ t \in Seq(Frame) /\ Len(t) = n - 1
      /\ \A i \in 1 .. n - 1 : t[i] = s[i + 1]
      /\ (t = << >> <=> n = 1)
      /\ \A i \in 1 .. n : s[i] \in Frame
  <2>1. /\ n \in Nat /\ n > 0 /\ t \in Seq(Frame) /\ Len(t) = n - 1
        /\ \A i \in 1 .. n - 1 : t[i] = s[i + 1]
    BY HeadTailProperties
  <2>2. \A i \in 1 .. n : s[i] \in Frame
    OBVIOUS
  <2> HIDE DEF t, n
  <2>3. t = << >> <=> n = 1
    BY <2>1, EmptySeq
  <2>4. QED
    BY <2>1, <2>2, <2>3
<1>2. /\ IF e = 0 THEN s[1].part = "len" ELSE s[1].part = "data" /\ e = Size(s[1].msg)
      /\ IF s[n].part = "len" THEN \E g \in Writers : wr[g] = [msg |-> s[n].msg, part |-> "data"]
         ELSE \A g \in Writers : wr[g].part # "data"
      /\ \A i \in 1 .. n - 1 :
           IF s[i].part = "len" THEN s[i + 1] = [msg |-> s[i].msg, part |-> "data"] ELSE s[i + 1].part = "len"
    BY DEF Framed
<1>3. Size(s[1].msg) # 0
  <2>1. s[1] \in Frame
    BY <1>1
  <2>2. s[1].msg \in Message
    BY <2>1, FrameFacts
  <2>3. Size(s[1].msg) \in {2, 33, 68}
    BY <2>2, MessageFacts
  <2>4. QED
    BY <2>3
<1> HIDE DEF t, n
<1>4. \A i \in 1 .. Len(t) - 1 :
        IF t[i].part = "len" THEN t[i + 1] = [msg |-> t[i].msg, part |-> "data"] ELSE t[i + 1].part = "len"
  <2> SUFFICES ASSUME NEW i \in 1 .. n - 2
               PROVE  IF t[i].part = "len" THEN t[i + 1] = [msg |-> t[i].msg, part |-> "data"]
                      ELSE t[i + 1].part = "len"
    BY <1>1
  <2>1. i + 1 \in 1 .. n - 1 /\ t[i] = s[i + 1] /\ t[i + 1] = s[(i + 1) + 1]
    BY <1>1
  <2>2. QED
    BY <1>2, <2>1
<1>5. CASE n = 1
  <2>1. t = << >>
    BY <1>1, <1>5
  <2>2. ASSUME e = 0 PROVE Framed(t, d, wr)
    <3>1. PICK g \in Writers : wr[g] = [msg |-> s[n].msg, part |-> "data"]
      BY <1>2, <1>5, <2>2
    <3>2. wr[g].part = "data" /\ wr[g].msg = s[1].msg /\ d = Size(s[1].msg)
      BY <1>5, <2>2, <3>1
    <3>3. d # 0 /\ \E h \in Writers : wr[h].part = "data" /\ d = Size(wr[h].msg)
      BY <1>3, <3>2
    <3>4. QED
      BY <1>4, <2>1, <3>3 DEF Framed
  <2>3. ASSUME e # 0 PROVE Framed(t, d, wr)
    <3>1. d = 0 /\ \A h \in Writers : wr[h].part # "data"
      BY <1>2, <1>5, <2>3
    <3>2. QED
      BY <1>4, <2>1, <3>1 DEF Framed
  <2>4. Framed(t, d, wr)
    BY <2>2, <2>3
  <2>5. QED
    BY <2>4 DEF t
<1>6. CASE n # 1
  <2>1. t # << >> /\ t[1] = s[2] /\ t[Len(t)] = s[n] /\ 1 \in 1 .. n - 1
    <3>1. n - 1 \in 1 .. n - 1 /\ 1 \in 1 .. n - 1 /\ (n - 1) + 1 = n /\ 1 + 1 = 2
      BY <1>1, <1>6
    <3>2. QED
      BY <1>1, <1>6, <3>1
  <2>2. IF s[1].part = "len" THEN s[2] = [msg |-> s[1].msg, part |-> "data"] ELSE s[2].part = "len"
    <3>1. 1 + 1 = 2
      OBVIOUS
    <3>2. QED
      BY <1>2, <2>1, <3>1
  <2>3. IF d = 0 THEN t[1].part = "len" ELSE t[1].part = "data" /\ d = Size(t[1].msg)
    BY <1>2, <1>3, <2>1, <2>2
  <2>4. Framed(t, d, wr)
    BY <1>2, <1>4, <2>1, <2>3 DEF Framed
  <2>5. QED
    BY <2>4 DEF t
<1>7. QED
    BY <1>5, <1>6

LEMMA NextSmooth ==
    ASSUME TypeOK, OwnKind, TypeOK', Smooth, [Next]_vars, faults' = 0
    PROVE  Smooth'
<1>1. /\ writing \in [Writers -> Hand] /\ writing' \in [Writers -> Hand]
      /\ wire \in [Conns -> Seq(Frame)] /\ expect \in [Conns -> Nat] /\ faults \in Nat
      /\ conn \in Conns \cup {NoConn} /\ serving \subseteq Conns
    BY DEF TypeOK, Hand
<1>2. /\ \A g, h \in Writers : writing[g] # Idle /\ writing[h] # Idle => g = h
      /\ conn = NoConn => /\ client = "dial" /\ serving = {} /\ opened = 0 /\ ~flushing
                          /\ \A g \in Writers : writing[g] = Idle
                          /\ \A k \in Conns : wire[k] = << >> /\ expect[k] = 0
      /\ conn # NoConn => /\ client = "read" /\ conn \in alive /\ serving = {conn}
                          /\ Framed(wire[conn], expect[conn], writing)
    BY DEF Smooth
\* Neither the connection nor a writer moves.
<1>3. ASSUME UNCHANGED <<writing, conn, client, opened, alive, serving, wire, expect>>,
             conn = NoConn => ~flushing'
      PROVE  Smooth'
    BY <1>2, <1>3 DEF Smooth
<1>4. CASE FlushBegin \/ FlushEnd \/ OnBlockFound \/ UNCHANGED vars
           \/ (\E w \in Wallet, d \in Diffs : SendShare(w, d))
  <2>1. UNCHANGED <<writing, conn, client, opened, alive, serving, wire, expect>>
    BY <1>4 DEF FlushBegin, FlushEnd, OnBlockFound, vars, SendShare, linkVars, masterVars, slaveVars
  <2>2. conn = NoConn => ~flushing'
    BY <1>2, <1>4 DEF FlushBegin, FlushEnd, OnBlockFound, vars, SendShare, linkVars, masterVars, slaveVars
  <2>3. QED
    BY <1>3, <2>1, <2>2
\* A goroutine enters sendToConn when no other one is inside.
<1>5. ASSUME NEW g \in Writers, NEW m, Enter(g, m),
             UNCHANGED <<flushing, conn, client, opened, alive, serving, wire, expect>>
      PROVE  Smooth'
  <2>1. writing[g] = Idle
        /\ writing' = [writing EXCEPT ![g] = IF conn = NoConn THEN Idle ELSE [msg |-> m, part |-> "len"]]
    BY <1>5 DEF Enter
  <2>2. CASE conn = NoConn
    <3>1. writing' = writing
      BY <1>1, <2>1, <2>2
    <3>2. QED
      BY <1>2, <1>3, <1>5, <2>2, <3>1
  <2>3. CASE conn # NoConn
    <3>1. ~Meets
      BY <1>1, <1>5 DEF Enter
    <3>2. \A h \in Writers : writing[h] = Idle
      BY <2>3, <3>1 DEF Meets
    <3>3. \A h \in Writers : writing'[h] = IF h = g THEN [msg |-> m, part |-> "len"] ELSE Idle
      BY <1>1, <2>1, <2>3, <3>2
    <3>4. \A h \in Writers : writing'[h].part # "data"
      BY <3>3 DEF Idle
    <3>5. wire[conn] \in Seq(Frame)
      BY <1>1, <2>3
    <3>6. Framed(wire[conn], expect[conn], writing')
      BY <1>1, <1>2, <2>3, <3>2, <3>4, <3>5, FramedEnter
    <3>7. \A h, j \in Writers : writing'[h] # Idle /\ writing'[j] # Idle => h = j
      BY <3>3
    <3>8. QED
      BY <1>2, <1>5, <2>3, <3>6, <3>7 DEF Smooth
  <2>4. QED
    BY <2>2, <2>3
<1>6. ASSUME NEW w \in Wallet, FlushWallet(w) PROVE Smooth'
  <2>1. Enter("flush", [kind |-> "share", wallet |-> w, diff |-> cache[w]]) /\ "flush" \in Writers
        /\ UNCHANGED <<flushing, conn, client, opened, alive, serving, wire, expect>>
    BY <1>6 DEF FlushWallet, masterVars, Writers
  <2>2. QED
    BY <1>5, <2>1
<1>7. ASSUME NEW n \in Counts, SendStats(n) PROVE Smooth'
  <2>1. Enter("stats", [kind |-> "stats", count |-> n]) /\ "stats" \in Writers
        /\ UNCHANGED <<flushing, conn, client, opened, alive, serving, wire, expect>>
    BY <1>7 DEF SendStats, masterVars, Writers
  <2>2. QED
    BY <1>5, <2>1
<1>8. CASE SendBlockFound
  <2>1. Enter("block", [kind |-> "block"]) /\ "block" \in Writers
        /\ UNCHANGED <<flushing, conn, client, opened, alive, serving, wire, expect>>
    BY <1>8 DEF SendBlockFound, masterVars, Writers
  <2>2. QED
    BY <1>5, <2>1
<1>9. ASSUME NEW g \in Writers, Write(g) PROVE Smooth'
  <2>1. conn # NoConn /\ conn \in Conns /\ conn \in alive /\ wire[conn] \in Seq(Frame)
    BY <1>1, <1>2, <1>9 DEF Write
  <2>2. writing[g] \in Frame /\ writing[g] # Idle
    <3>1. writing[g] \in Frame
      BY <1>9, WriteType
    <3>2. writing[g].part \in {"len", "data"}
      BY <1>9 DEF Write
    <3>3. QED
      BY <3>1, <3>2 DEF Idle
  <2>3. \A h \in Writers : h # g => writing[h] = Idle
    BY <1>2, <2>2
  <2>4. wire' = [wire EXCEPT ![conn] = Append(wire[conn], writing[g])]
        /\ UNCHANGED <<flushing, conn, client, opened, alive, serving, expect>>
    BY <1>9, <2>1 DEF Write, linkVars, masterVars
  <2>5. writing' = [writing EXCEPT ![g] = IF writing[g].part = "len" THEN [writing[g] EXCEPT !.part = "data"] ELSE Idle]
    BY <1>9 DEF Write
  <2>6. [writing[g] EXCEPT !.part = "data"] = [msg |-> writing[g].msg, part |-> "data"]
    BY <2>2 DEF Frame
  <2>7. /\ writing'[g] = IF writing[g].part = "len" THEN [msg |-> writing[g].msg, part |-> "data"] ELSE Idle
        /\ \A h \in Writers : h # g => writing'[h] = Idle
    BY <1>1, <2>3, <2>5, <2>6
  <2>8. Framed(Append(wire[conn], writing[g]), expect[conn], writing')
    BY <1>1, <1>2, <2>1, <2>2, <2>3, <2>7, FramedWrite
  <2>9. wire'[conn] = Append(wire[conn], writing[g])
    BY <1>1, <2>1, <2>4
  <2>10. \A h, j \in Writers : writing'[h] # Idle /\ writing'[j] # Idle => h = j
    BY <2>7
  <2>11. Framed(wire'[conn], expect'[conn], writing')
    BY <2>4, <2>8, <2>9
  <2>12. QED
    BY <1>2, <2>1, <2>4, <2>10, <2>11 DEF Smooth
\* Nobody can panic, lose the link, break it or find it garbled.
<1>10. ~\E g \in Writers : Panic(g)
    BY <1>2 DEF Panic, Idle
<1>11. ~DialFails /\ ~LinkLost
    BY <1>2 DEF DialFails, LinkLost
<1>12. ~\E k \in Conns, n \in 0 .. MaxWire : Break(k, n)
    BY <1>1 DEF Break
<1>13. ~\E k \in Conns : CloseSlave(k)
    BY NotGarbled DEF CloseSlave, Garbled, Ended
<1>14. CASE Dial
  <2>1. conn = NoConn /\ opened = 0 /\ serving = {}
    BY <1>2, <1>14 DEF Dial
  <2>2. conn' = 1 /\ client' = "read" /\ alive' = alive \cup {1} /\ serving' = {1}
        /\ UNCHANGED <<writing, wire, expect>>
    BY <1>14, <2>1 DEF Dial, slaveVars
  <2>3. 1 \in Conns /\ conn' # NoConn
    BY <2>2, RelayAssumption DEF Conns, NoConn
  <2>4. wire[1] = << >> /\ expect[1] = 0 /\ \A g \in Writers : writing[g] = Idle
    BY <1>2, <2>1, <2>3
  <2>5. Framed(<< >>, 0, writing)
    BY <2>4 DEF Framed, Idle
  <2>6. QED
    BY <2>2, <2>3, <2>4, <2>5 DEF Smooth
\* HandleSlave reads the next frame of the connection.
<1>15. ASSUME NEW k \in Conns, Receive(k),
              expect' = [expect EXCEPT ![k] = IF expect[k] = 0 THEN Size(wire[k][1].msg) ELSE 0]
       PROVE  Smooth'
  <2> DEFINE d == IF expect[k] = 0 THEN Size(wire[k][1].msg) ELSE 0
  <2>1. k \in serving /\ wire[k] # << >>
        /\ UNCHANGED <<flushing, writing, conn, client, opened, alive, serving>>
    BY <1>15 DEF Receive, slaveVars, linkVars
  <2>2. k = conn /\ conn # NoConn
    BY <1>2, <2>1
  <2>3. wire[k] \in Seq(Frame) /\ wire' = [wire EXCEPT ![k] = Tail(wire[k])]
    BY <1>15, ReceiveType
  <2>4. wire'[conn] = Tail(wire[conn]) /\ expect'[conn] = d
    BY <1>1, <1>15, <2>2, <2>3
  <2>5. Framed(Tail(wire[k]), d, writing)
    BY <1>1, <1>2, <2>1, <2>2, <2>3, FramedRead
  <2>6. QED
    BY <1>2, <2>1, <2>2, <2>4, <2>5 DEF Smooth
<1>16. ASSUME NEW k \in Conns, ReadLength(k) PROVE Smooth'
  <2>1. Receive(k) /\ expect[k] = 0 /\ expect' = [expect EXCEPT ![k] = LengthIn(Head(wire[k]))]
    BY <1>16 DEF ReadLength
  <2>2. k \in serving /\ wire[k] # << >>
    BY <2>1 DEF Receive
  <2>3. k = conn /\ conn # NoConn
    BY <1>2, <2>2
  <2>4. wire[k][1].part = "len"
    BY <1>2, <2>1, <2>2, <2>3 DEF Framed
  <2>5. Head(wire[k]) = wire[k][1]
    BY <1>1, <2>2
  <2>6. LengthIn(Head(wire[k])) = Size(wire[k][1].msg)
    BY <2>4, <2>5 DEF LengthIn
  <2>7. QED
    BY <1>15, <2>1, <2>6
<1>17. ASSUME NEW k \in Conns, OnShareFound(k) \/ OnStats(k) \/ OnBlock(k) \/ UnknownPacket(k) PROVE Smooth'
  <2>1. Receive(k) /\ expect[k] # 0 /\ expect' = [expect EXCEPT ![k] = 0]
    BY <1>17 DEF OnShareFound, OnStats, OnBlock, UnknownPacket, Body
  <2>2. QED
    BY <1>15, <2>1
<1>18. QED
    BY <1>4, <1>6, <1>7, <1>8, <1>9, <1>10, <1>11, <1>12, <1>13, <1>14, <1>16, <1>17 DEF Next, Flush, HandleSlave

-----------------------------------------------------------------------------
(* The theorems.                                                           *)

\* What is stored for and under way to an address, its miners have found.
SharesFound == \A a \in Wallet : shares[a] + UnderWay(a) <= FoundFor(a)

RelayInv == TypeOK /\ OwnKind /\ (faults = 0 => Smooth /\ NothingLost) /\ SharesFound /\ BlocksFound

LEMMA InitRelay == Init => RelayInv
<1> SUFFICES ASSUME Init PROVE RelayInv
    OBVIOUS
<1>1. TypeOK /\ OwnKind
    BY InitType
<1>2. ASSUME NEW W \in [Frame -> Nat] PROVE Weight(wire, W) = 0
  <2> DEFINE f == [k \in Conns |-> WeightIn(wire[k], W)]
  <2>1. \A k \in Conns : f[k] = 0
    BY WeightEmpty DEF Init
  <2>2. IsFiniteSet(Conns)
    BY FS_Interval, RelayAssumption DEF Conns
  <2>3. Weight(wire, W) = SumFunctionOnSet(f, Conns)
    BY DEF Weight
  <2> HIDE DEF f
  <2>4. QED
    BY <2>1, <2>2, <2>3, SumZero
<1>3. \A a \in Wallet : shares[a] = 0 /\ UnderWay(a) = 0 /\ FoundFor(a) = 0
  <2> SUFFICES ASSUME NEW a \in Wallet PROVE shares[a] = 0 /\ UnderWay(a) = 0 /\ FoundFor(a) = 0
    OBVIOUS
  <2> DEFINE c == cache  f == found
  <2>1. /\ FoundFor(a) = SumFunctionOnSet(f, Mine(a)) /\ IsFiniteSet(Mine(a))
        /\ InCache(a) = SumFunctionOnSet(c, Waiting(a)) /\ IsFiniteSet(Waiting(a))
        /\ InHand(a) = HandOf(writing["flush"], a)
        /\ OnWire(a) = Weight(wire, ShareW(a))
    BY <1>1, Quantities
  <2>2. (\A v \in Mine(a) : f[v] = 0) /\ \A v \in Waiting(a) : c[v] = 0
    BY DEF Init, Mine, Waiting
  <2>3. InHand(a) = 0
    BY <2>1 DEF HandOf, Init, Writers
  <2>4. OnWire(a) = 0
    BY <1>2, <2>1, ShareWType
  <2> HIDE DEF c, f
  <2>5. FoundFor(a) = 0 /\ InCache(a) = 0
    BY <2>1, <2>2, SumZero
  <2>6. UnderWay(a) = 0
    BY <2>3, <2>4, <2>5 DEF UnderWay
  <2>7. QED
    BY <2>5, <2>6 DEF Init
<1>4. NothingLost /\ SharesFound
    BY <1>3, WalletAssumption DEF NothingLost, SharesFound
<1>5. BlocksFound
  <2>1. Weight(wire, BlockW) = 0
    BY <1>2 DEF BlockW
  <2>2. QED
    BY <2>1 DEF BlocksFound, Init, BlockInHand, Writers
<1>6. Smooth
    BY DEF Smooth, Init
<1>7. QED
    BY <1>1, <1>4, <1>5, <1>6 DEF RelayInv

LEMMA NextRelay == RelayInv /\ [Next]_vars => RelayInv'
<1> SUFFICES ASSUME RelayInv, [Next]_vars PROVE RelayInv'
    OBVIOUS
<1>1. TypeOK /\ OwnKind /\ SharesFound /\ BlocksFound /\ (faults = 0 => Smooth /\ NothingLost)
    BY DEF RelayInv
<1>2. TypeOK' /\ OwnKind'
    BY <1>1, NextType
<1>3. BlocksFound'
    BY <1>1, <1>2, NextBlocks
<1>4. ASSUME NEW a \in Wallet
      PROVE  /\ shares[a] + UnderWay(a) \in Nat /\ FoundFor(a) \in Nat /\ FoundFor(a)' \in Nat
             /\ shares'[a] + UnderWay(a)' \in Nat
  <2>1. shares[a] + UnderWay(a) \in Nat /\ FoundFor(a) \in Nat
    BY <1>1, Quantities DEF UnderWay, TypeOK
  <2>2. FoundFor(a)' \in Nat /\ UnderWay(a)' \in Nat
    <3>1. FoundFor(a)' \in Nat /\ InCache(a)' \in Nat /\ InHand(a)' \in Nat /\ OnWire(a)' \in Nat
      BY <1>2, QuantitiesNext
    <3>2. QED
      BY <3>1 DEF UnderWay
  <2>3. shares'[a] \in Nat
    BY <1>2 DEF TypeOK
  <2>4. QED
    BY <2>1, <2>2, <2>3
<1>5. SharesFound'
  <2> SUFFICES ASSUME NEW a \in Wallet PROVE shares'[a] + UnderWay(a)' <= FoundFor(a)'
    BY DEF SharesFound
  <2> DEFINE x == shares[a] + UnderWay(a)  x1 == shares'[a] + UnderWay(a)'
             y == FoundFor(a)  y1 == FoundFor(a)'
  <2>1. x1 + y <= x + y1
    BY <1>1, <1>2, Flow
  <2>2. x <= y /\ x \in Nat /\ y \in Nat /\ x1 \in Nat /\ y1 \in Nat
    BY <1>1, <1>4 DEF SharesFound
  <2> HIDE DEF x, x1, y, y1
  <2>3. x1 <= y1
    BY <2>1, <2>2
  <2>4. QED
    BY <2>3 DEF x1, y1
<1>6. ASSUME faults' = 0 PROVE Smooth' /\ NothingLost'
  <2>1. faults = 0
    <3>1. faults \in Nat
      BY <1>1 DEF TypeOK
    <3>2. faults' = faults \/ faults' = faults + 1 \/ faults' = faults + 0
      BY DEF Next, Flush, HandleSlave, SendShare, FlushBegin, FlushWallet, FlushEnd, SendStats, SendBlockFound,
         Enter, Write, Panic, Dial, DialFails, LinkLost, ReadLength, OnShareFound, OnStats, OnBlock,
         UnknownPacket, Body, Receive, CloseSlave, Break, OnBlockFound, linkVars, vars
    <3>3. QED
      BY <1>6, <3>1, <3>2
  <2>2. Smooth /\ NothingLost
    BY <1>1, <2>1
  <2>3. Smooth'
    BY <1>1, <1>2, <1>6, <2>2, NextSmooth
  <2>4. ASSUME NEW a \in Valid \ Banned PROVE shares'[a] + UnderWay(a)' = FoundFor(a)'
    <3> DEFINE x == shares[a] + UnderWay(a)  x1 == shares'[a] + UnderWay(a)'
               y == FoundFor(a)  y1 == FoundFor(a)'
    <3>1. a \in Wallet
      BY WalletAssumption
    <3>2. x1 + y = x + y1
      BY <1>1, <1>2, <1>6, <2>2, <3>1, Flow
    <3>3. x = y /\ x \in Nat /\ y \in Nat /\ x1 \in Nat /\ y1 \in Nat
      BY <1>4, <2>1, <2>2, <3>1 DEF NothingLost
    <3> HIDE DEF x, x1, y, y1
    <3>4. x1 = y1
      BY <3>2, <3>3
    <3>5. QED
      BY <3>4 DEF x1, y1
  <2>5. QED
    BY <2>3, <2>4 DEF NothingLost
<1>7. QED
    BY <1>2, <1>3, <1>5, <1>6 DEF RelayInv

\* The master stores no share twice and counts no block twice, whatever breaks,
\* mixes or dies, for every number of connections, frames and faults.
THEOREM NothingInventedCorrect == Spec => []NothingInvented
<1>1. RelayInv => NothingInvented
  <2> SUFFICES ASSUME RelayInv PROVE NothingInvented
    OBVIOUS
  <2> DEFINE O == Weight(wire, BlockW)  B == BlockInHand
  <2>1. O \in Nat
    <3>1. wire \in [Conns -> Seq(Frame)] /\ BlockW \in [Frame -> Nat]
      BY DEF RelayInv, TypeOK, BlockW
    <3>2. QED
      BY <3>1, WeightNat
  <2>2. B \in Nat
    BY DEF BlockInHand
  <2>3. numFound + announced + B + O <= blocks
    BY DEF RelayInv, BlocksFound
  <2>4. numFound \in Nat /\ announced \in Nat /\ blocks \in Nat
    BY DEF RelayInv, TypeOK
  <2> HIDE DEF O, B
  <2>5. numFound + announced <= blocks
    BY <2>1, <2>2, <2>3, <2>4
  <2>6. QED
    BY <2>5 DEF RelayInv, SharesFound, NothingInvented
<1>2. QED
    BY <1>1, InitRelay, NextRelay, PTL DEF Spec

\* Without a fault every share is stored or under way, for every wallet that is
\* not banned, although the flusher copies and then replaces the cache.
THEOREM NothingLostCorrect == Spec => []NothingLost
<1>1. RelayInv => NothingLost
    BY DEF RelayInv, NothingLost
<1>2. QED
    BY <1>1, InitRelay, NextRelay, PTL DEF Spec
=============================================================================
