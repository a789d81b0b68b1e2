----------------------------- MODULE ShareRelay -----------------------------
(***************************************************************************)
(* How shares travel from a slave to the master: the slave's share cache   *)
(* and the goroutines that write to the master (the cache flusher, the     *)
(* statistics sender, the announcement of a found block), the client that  *)
(* dials the master, the TCP connections, and HandleSlave on the master.   *)
(*                                                                         *)
(* A message is two encrypted frames, a 2-byte length and the body, sent   *)
(* by two Writes of the package variable `conn`, which the client replaces *)
(* without holding connMut.  Writes of different goroutines may therefore  *)
(* mix, and the two frames of one message may go to different connections. *)
(* Encryption is abstracted to its effect: a read that does not cover one  *)
(* whole frame fails.                                                      *)
(***************************************************************************)
EXTENDS Integers, Sequences, FiniteSets, Functions

CONSTANTS
    Wallet,          \* addresses miners mine to
    Valid,           \* those IsAddressValid accepts
    Banned,          \* config.BANNED_ADDRESSES
    FeeAddress,      \* cfg.FeeAddress
    Diffs,           \* difficulties of a share
    Counts,          \* numbers of miners the slave may report
    MaxFound,        \* bound: difficulty found per wallet in all
    MaxBlocks,       \* bound: blocks found
    MaxConns,        \* bound: connections the slave opens
    MaxWire,         \* bound: frames under way on one connection
    MaxFaults        \* bound: broken connections and sends that meet another

ASSUME WalletAssumption ==
    /\ IsFiniteSet(Wallet) /\ Valid \subseteq Wallet /\ Banned \subseteq Valid
    /\ FeeAddress \in Valid \ Banned
ASSUME RelayAssumption ==
    /\ Diffs \subseteq Nat \ {0} /\ Counts \subseteq 0 .. 127
    /\ MaxFound \in Nat /\ MaxBlocks \in Nat /\ MaxWire \in Nat \ {0, 1}
    /\ MaxConns \in Nat \ {0} /\ MaxFaults \in Nat

Conns == 1 .. MaxConns
NoConn == 0

Message ==
    [kind : {"share"}, wallet : Wallet, diff : 0 .. MaxFound]
        \cup [kind : {"stats"}, count : Counts]
        \cup [kind : {"block", "none"}]
NoMessage == [kind |-> "none"]

\* Bytes of a body: a type byte and a one-byte count, a 32-byte hash, or a
\* wallet of 63 characters with a few bytes of numbers.
Size(m) == CASE m.kind = "stats" -> 2 [] m.kind = "block" -> 33 [] OTHER -> 68
HeaderSize == 2

Frame == [part : {"len", "data"}, msg : Message]

Writers == {"flush", "stats", "block"}

VARIABLES
    cache,     \* slaveCache.Shares: difficulty cached per wallet
    flushing,  \* the flusher holds connMut and the lock of the cache
    todo,      \* the wallets the flusher has not sent yet
    writing,   \* writing[g]: the message g is sending and the next frame of it
    conn,      \* the package variable conn
    client,    \* StartSlaveClient: "dial" or "read"
    opened,    \* connections opened so far
    alive,     \* the connections both ends of which are open
    wire,      \* wire[k]: the frames written to k and not read yet
    serving,   \* the connections a HandleSlave is reading
    expect,    \* expect[k]: size of the body HandleSlave waits for; 0: a length
    numConns,  \* numConns[k], defined for the connections that sent statistics
    workers,   \* Stats.Workers
    shares,    \* shares[a]: difficulty stored in the SHARES bucket for a
    announced, \* Block Found packets whose delayed goroutine has not run
    numFound,  \* Stats.NumFound
    found,     \* history: difficulty found per wallet
    blocks,    \* history: blocks found
    faults     \* history: connections broken and sends that met another send

slaveVars == <<cache, flushing, todo, writing, found, blocks>>
linkVars == <<conn, client, opened, faults>>
masterVars == <<serving, expect, numConns, workers, shares, announced, numFound>>
vars == <<cache, flushing, todo, writing, conn, client, opened, alive, wire, serving,
          expect, numConns, workers, shares, announced, numFound, found,
          blocks, faults>>

Idle == [msg |-> NoMessage, part |-> "none"]

Init ==
    /\ cache = [w \in Wallet |-> 0]
    /\ flushing = FALSE /\ todo = {}
    /\ writing = [g \in Writers |-> Idle]
    /\ conn = NoConn /\ client = "dial" /\ opened = 0
    /\ alive = {} /\ wire = [k \in Conns |-> << >>]
    /\ serving = {} /\ expect = [k \in Conns |-> 0]
    /\ numConns = << >> /\ workers = 0
    /\ shares = [w \in Wallet |-> 0]
    /\ announced = 0 /\ numFound = 0
    /\ found = [w \in Wallet |-> 0] /\ blocks = 0
    /\ faults = 0

-----------------------------------------------------------------------------
(* sendToConn().                                                           *)

\* Another goroutine is inside sendToConn.
Meets == conn # NoConn /\ \E g \in Writers : writing[g] # Idle

\* A goroutine enters sendToConn; without a connection the message is lost.
Enter(g, m) ==
    /\ writing[g] = Idle
    /\ faults < MaxFaults \/ ~Meets
    /\ faults' = faults + (IF Meets THEN 1 ELSE 0)
    /\ writing' = [writing EXCEPT ![g] =
           IF conn = NoConn THEN Idle ELSE [msg |-> m, part |-> "len"]]

\* One conn.Write; what is written to a closed connection is lost.
Write(g) ==
    /\ writing[g].part \in {"len", "data"} /\ conn # NoConn
    /\ conn \in alive => Len(wire[conn]) < MaxWire
    /\ wire' = IF conn \in alive
               THEN [wire EXCEPT ![conn] = Append(@, writing[g])]
               ELSE wire
    /\ writing' = [writing EXCEPT ![g] =
           IF @.part = "len" THEN [@ EXCEPT !.part = "data"] ELSE Idle]
    /\ UNCHANGED <<cache, flushing, todo, found, blocks, linkVars, alive, masterVars>>

\* conn became nil after the check: the slave panics and is started again.
Panic(g) ==
    /\ writing[g].part # "none" /\ conn = NoConn
    /\ cache' = [w \in Wallet |-> 0]
    /\ flushing' = FALSE /\ todo' = {}
    /\ writing' = [h \in Writers |-> Idle]
    /\ client' = "dial"
    /\ alive' = {}
    /\ UNCHANGED <<conn, opened, wire, masterVars, found, blocks, faults>>

-----------------------------------------------------------------------------
(* The goroutines of the slave that write.                                 *)

\* Mutant of SendShare: does not wait for connMut and the cache's lock.
SendShareUnlocked(w, d) ==
    /\ found[w] + d <= MaxFound
    /\ cache' = [cache EXCEPT ![w] = @ + d]
    /\ found' = [found EXCEPT ![w] = @ + d]
    /\ UNCHANGED <<flushing, todo, writing, blocks, linkVars, alive, wire, masterVars>>

\* SendShare: waits for connMut, then adds to the cache.
SendShare(w, d) ==
    /\ ~flushing
    /\ found[w] + d <= MaxFound
    /\ cache' = [cache EXCEPT ![w] = @ + d]
    /\ found' = [found EXCEPT ![w] = @ + d]
    /\ UNCHANGED <<flushing, todo, writing, blocks, linkVars, alive, wire, masterVars>>

Cached == {w \in Wallet : cache[w] > 0}

\* Mutant of FlushBegin: waits until two wallets have shares.
FlushBeginBatched ==
    /\ ~flushing /\ conn # NoConn /\ \E v, w \in Cached : v # w
    /\ flushing' = TRUE
    /\ todo' = Cached
    /\ UNCHANGED <<cache, writing, found, blocks, linkVars, alive, wire, masterVars>>

\* Every 5 seconds, if there is a connection: take both locks.
FlushBegin ==
    /\ ~flushing /\ conn # NoConn /\ Cached # {}
    /\ flushing' = TRUE
    /\ todo' = Cached
    /\ UNCHANGED <<cache, writing, found, blocks, linkVars, alive, wire, masterVars>>

\* sendCachedShare for the next wallet of the map, in any order.
FlushWallet(w) ==
    /\ flushing /\ w \in todo
    /\ Enter("flush", [kind |-> "share", wallet |-> w, diff |-> cache[w]])
    /\ todo' = todo \ {w}
    /\ UNCHANGED <<cache, flushing, found, blocks, conn, client, opened, alive, wire, masterVars>>

\* Mutant of FlushEnd: the cache is not cleared.
FlushEndKeeps ==
    /\ flushing /\ todo = {} /\ writing["flush"] = Idle
    /\ flushing' = FALSE
    /\ UNCHANGED <<cache, todo, writing, found, blocks, linkVars, alive, wire, masterVars>>

\* The map is replaced by an empty one, whatever became of the messages.
FlushEnd ==
    /\ flushing /\ todo = {} /\ writing["flush"] = Idle
    /\ cache' = [w \in Wallet |-> 0]
    /\ flushing' = FALSE
    /\ UNCHANGED <<todo, writing, found, blocks, linkVars, alive, wire, masterVars>>

SendStats(n) ==
    /\ conn # NoConn
    /\ Enter("stats", [kind |-> "stats", count |-> n])
    /\ UNCHANGED <<cache, flushing, todo, found, blocks, conn, client, opened, alive, wire, masterVars>>

SendBlockFound ==
    /\ blocks < MaxBlocks
    /\ blocks' = blocks + 1
    /\ Enter("block", [kind |-> "block"])
    /\ UNCHANGED <<cache, flushing, todo, found, conn, client, opened, alive, wire, masterVars>>

-----------------------------------------------------------------------------
(* StartSlaveClient() and the network.                                     *)

Dial ==
    /\ client = "dial" /\ opened < MaxConns
    /\ opened' = opened + 1
    /\ conn' = opened + 1
    /\ client' = "read"
    /\ alive' = alive \cup {opened + 1}
    /\ serving' = serving \cup {opened + 1}
    /\ UNCHANGED <<slaveVars, faults, wire, expect, numConns, workers, shares,
                   announced, numFound>>

\* net.Dial returns a nil connection with its error.
DialFails ==
    /\ client = "dial" /\ conn # NoConn
    /\ conn' = NoConn
    /\ UNCHANGED <<slaveVars, client, opened, faults, alive, wire, masterVars>>

\* The client's read fails: the connection is closed and remains in conn.
LinkLost ==
    /\ client = "read" /\ conn \notin alive
    /\ client' = "dial"
    /\ UNCHANGED <<slaveVars, conn, opened, faults, alive, wire, masterVars>>

\* The connection breaks; only the first n frames still arrive.
Break(k, n) ==
    /\ k \in alive /\ n <= Len(wire[k])
    /\ alive' = alive \ {k}
    /\ wire' = [wire EXCEPT ![k] = SubSeq(@, 1, n)]
    /\ faults < MaxFaults /\ faults' = faults + 1
    /\ UNCHANGED <<slaveVars, conn, client, opened, masterVars>>

-----------------------------------------------------------------------------
(* HandleSlave() and OnMessage().                                          *)

FrameSize(f) == IF f.part = "len" THEN HeaderSize ELSE Size(f.msg)
Wanted(k) == IF expect[k] = 0 THEN HeaderSize ELSE expect[k]

\* A frame read as a length.  Only the body of a statistics message has the
\* size of a length and can be mistaken for one.
LengthIn(f) == IF f.part = "len" THEN Size(f.msg) ELSE 2 + 256 * f.msg.count

\* A frame read as a body.  A length read as a body starts with the type byte
\* 2, 33 or 68: no miners connected, or an unknown packet.
MessageIn(f) ==
    CASE f.part = "data" -> f.msg
      [] f.msg.kind = "stats" -> [kind |-> "stats", count |-> 0]
      [] OTHER -> NoMessage

\* HandleSlave reads a whole frame from k.
Receive(k) ==
    /\ k \in serving /\ wire[k] # << >>
    /\ FrameSize(Head(wire[k])) = Wanted(k)
    /\ wire' = [wire EXCEPT ![k] = Tail(@)]
    /\ UNCHANGED <<slaveVars, linkVars, alive, serving>>

ReadLength(k) ==
    /\ expect[k] = 0
    /\ Receive(k)
    /\ expect' = [expect EXCEPT ![k] = LengthIn(Head(wire[k]))]
    /\ UNCHANGED <<numConns, workers, shares, announced, numFound>>

Body(k, kind) ==
    /\ expect[k] # 0
    /\ Receive(k)
    /\ MessageIn(Head(wire[k])).kind = kind
    /\ expect' = [expect EXCEPT ![k] = 0]

\* Shares for an invalid wallet are the fee address's.
Payee(w) == IF w \in Valid THEN w ELSE FeeAddress

OnShareFound(k) ==
    /\ Body(k, "share")
    /\ LET m == MessageIn(Head(wire[k])) IN
         shares' = IF Payee(m.wallet) \in Banned THEN shares
                   ELSE [shares EXCEPT ![Payee(m.wallet)] = @ + m.diff]
    /\ UNCHANGED <<numConns, workers, announced, numFound>>

OnStats(k) ==
    /\ Body(k, "stats")
    /\ numConns' = [j \in DOMAIN numConns \cup {k} |->
                       IF j = k THEN MessageIn(Head(wire[k])).count ELSE numConns[j]]
    /\ workers' = SumFunction(numConns')
    /\ UNCHANGED <<shares, announced, numFound>>

OnBlock(k) ==
    /\ Body(k, "block")
    /\ announced' = announced + 1
    /\ UNCHANGED <<numConns, workers, shares, numFound>>

UnknownPacket(k) ==
    /\ Body(k, "none")
    /\ UNCHANGED <<numConns, workers, shares, announced, numFound>>

\* Decrypt fails on the next frame.
Garbled(k) == wire[k] # << >> /\ FrameSize(Head(wire[k])) # Wanted(k)
Ended(k) == wire[k] = << >> /\ k \notin alive

\* Mutant of CloseSlave: the entry of numConns is not deleted.
CloseSlaveLeaks(k) ==
    /\ k \in serving
    /\ Garbled(k) \/ Ended(k)
    /\ serving' = serving \ {k}
    /\ alive' = alive \ {k}
    /\ wire' = [wire EXCEPT ![k] = << >>]
    /\ expect' = [expect EXCEPT ![k] = 0]
    /\ UNCHANGED <<slaveVars, linkVars, numConns, workers, shares, announced, numFound>>

\* Every error return of HandleSlave closes the connection and deletes its
\* entry of numConns; Stats.Workers is not computed again.
CloseSlave(k) ==
    /\ k \in serving
    /\ Garbled(k) \/ Ended(k)
    /\ serving' = serving \ {k}
    /\ alive' = alive \ {k}
    /\ wire' = [wire EXCEPT ![k] = << >>]
    /\ expect' = [expect EXCEPT ![k] = 0]
    /\ numConns' = Restrict(numConns, DOMAIN numConns \ {k})
    /\ UNCHANGED <<slaveVars, linkVars, workers, shares, announced, numFound>>

\* The delayed goroutine of a Block Found packet.
OnBlockFound ==
    /\ announced > 0
    /\ announced' = announced - 1
    /\ numFound' = numFound + 1
    /\ UNCHANGED <<slaveVars, linkVars, alive, wire, serving, expect, numConns, workers, shares>>

-----------------------------------------------------------------------------
Flush == FlushBegin \/ (\E w \in Wallet : FlushWallet(w)) \/ FlushEnd

HandleSlave(k) ==
    \/ ReadLength(k)
    \/ OnShareFound(k)
    \/ OnStats(k)
    \/ OnBlock(k)
    \/ UnknownPacket(k)
    \/ CloseSlave(k)

Next ==
    \/ \E w \in Wallet, d \in Diffs : SendShare(w, d)
    \/ Flush
    \/ \E n \in Counts : SendStats(n)
    \/ SendBlockFound
    \/ \E g \in Writers : Write(g) \/ Panic(g)
    \/ Dial
    \/ DialFails
    \/ LinkLost
    \/ \E k \in Conns : HandleSlave(k) \/ \E n \in 0 .. MaxWire : Break(k, n)
    \/ OnBlockFound

\* The flusher's timer fires again and again, the client keeps dialling, and
\* the master reads what arrives.  Strong fairness for the flusher's Writes: the
\* other writers cannot keep the connection's buffer full for ever.
Fairness ==
    /\ WF_vars(Flush)
    /\ SF_vars(Write("flush"))
    /\ WF_vars(Dial)
    /\ \A k \in Conns : WF_vars(HandleSlave(k))

Spec == Init /\ [][Next]_vars
FairSpec == Spec /\ Fairness

-----------------------------------------------------------------------------
(* Properties.                                                             *)

FoundFor(a) == SumFunction([w \in {v \in Wallet : Payee(v) = a} |-> found[w]])

\* Difficulty under way to a: cached, in a writer's hands, or on a wire that
\* the master still reads.  The cache of a wallet that the running flush has
\* taken is a copy of what is already under way.
ShareFor(f, a) == IF f.part = "data" /\ f.msg.kind = "share" /\ Payee(f.msg.wallet) = a
                  THEN f.msg.diff ELSE 0
InCache(a) ==
    SumFunction([w \in {v \in Wallet : Payee(v) = a /\ (flushing => v \in todo)} |-> cache[w]])
InHand(a) ==
    IF writing["flush"] = Idle THEN 0
    ELSE ShareFor([writing["flush"] EXCEPT !.part = "data"], a)
OnWire(a) ==
    SumFunction([k \in Conns |-> SumFunction([i \in 1 .. Len(wire[k]) |-> ShareFor(wire[k][i], a)])])
UnderWay(a) == InCache(a) + InHand(a) + OnWire(a)

\* However connections break, dials fail, frames mix or the slave dies, the
\* master never stores more work for an address than its miners have found,
\* nor counts more blocks: a retry never delivers a share twice.
NothingInvented ==
    /\ \A a \in Wallet : shares[a] + UnderWay(a) <= FoundFor(a)
    /\ numFound + announced <= blocks

\* As long as no connection breaks and no two goroutines send at once, no share
\* is lost between SendShare and the SHARES bucket, although the flusher copies
\* and then replaces the cache (queue.go:57-68).
NothingLost ==
    faults = 0 => \A a \in Valid \ Banned : shares[a] + UnderWay(a) = FoundFor(a)

\* numConns holds no connection that has ended, on any of the error returns of
\* HandleSlave (handler.go:40-79): a reconnecting slave is not summed twice
\* once its old connection is closed.
NoGhostConns == DOMAIN numConns \subseteq serving

\* Everything found by a wallet that is not banned is eventually stored, unless
\* a connection breaks or two goroutines send at once.
EventuallyStored ==
    \A w \in Valid \ Banned : \A n \in 1 .. MaxFound :
        found[w] = n ~> shares[w] >= n \/ faults > 0
=============================================================================
