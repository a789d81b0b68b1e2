---------------------------- MODULE XatumServer ----------------------------
(***************************************************************************)
(* The table of Xatum connections of a slave: Server.Connections, its      *)
(* mutex, the channel NewConnections, and the number of connections per IP *)
(* that CanConnect and Disconnect keep.  All connections have one IP; the  *)
(* slots that the other servers of the slave take of it are left out.      *)
(*                                                                         *)
(* Kick must be called with the server locked.  handleConn and sendJobs    *)
(* do so; sendPingPackets does not, and its Kick is two steps here: read   *)
(* Connections, then replace them.                                         *)
(*                                                                         *)
(* statsSender locks the server for reading and then waits for the lists   *)
(* of the other servers, for ever if that of the Stratum server stays      *)
(* locked (StratumServer.SubmitStale).                                     *)
(***************************************************************************)
EXTENDS Integers, FiniteSets, Sequences

CONSTANTS
    Conn,          \* connections miners open
    MaxPerIp,      \* config.MAX_CONNECTIONS_PER_IP (100 in the code)
    MaxQueue       \* capacity of the channel NewConnections (1 in the code)

\* What is assumed of the constants: see Servers.
XatumConstants == MaxPerIp \in Nat /\ MaxQueue \in Nat \ {0}

VARIABLES
    connections, \* Server.Connections
    locked,      \* a handleConnection holds the lock of the server
    counting,    \* statsSender holds the lock of the server for reading
    queue,       \* the channel NewConnections
    open,        \* the connections that neither side has closed
    kicked,      \* the connections that Kick has closed
    handler,     \* handler[c]: where the goroutines of c are
    pinger,      \* pinger[c]: "off", "on", "kick" (between the steps of Kick)
    seen,        \* seen[c]: Connections as read by the pinger's Kick
    perIp,       \* connsPerIp[ip]
    raced        \* history: Connections were used inside a pinger's Kick

vars == <<connections, locked, counting, queue, open, kicked, handler, pinger, seen, perIp, raced>>

TypeOK ==
    /\ connections \subseteq Conn
    /\ locked \in BOOLEAN /\ counting \in BOOLEAN
    /\ queue \in Seq(Conn) /\ Len(queue) <= MaxQueue
    /\ open \subseteq Conn /\ kicked \subseteq Conn
    /\ handler \in [Conn -> {"none", "accepted", "listed", "queued", "reading", "stuck", "ended"}]
    /\ pinger \in [Conn -> {"off", "on", "kick"}]
    /\ seen \in [Conn -> SUBSET Conn]
    /\ perIp \in 0 .. MaxPerIp + 1 /\ raced \in BOOLEAN

Init ==
    /\ connections = {} /\ locked = FALSE /\ counting = FALSE /\ queue = << >> /\ open = {} /\ kicked = {}
    /\ handler = [c \in Conn |-> "none"]
    /\ pinger = [c \in Conn |-> "off"]
    /\ seen = [c \in Conn |-> {}]
    /\ perIp = 0 /\ raced = FALSE

\* A pinger is between the two steps of its Kick.
Kicking == \E c \in Conn : pinger[c] = "kick"
Touch == raced' = (raced \/ Kicking)

\* Nobody holds the lock of the server.
Free == ~locked /\ ~counting

-----------------------------------------------------------------------------
(* rate_limit/perip.go                                                     *)

CanConnect == perIp <= MaxPerIp
Disconnected == IF perIp > 0 THEN perIp - 1 ELSE 0

-----------------------------------------------------------------------------
(* Start() and handleConnection().                                         *)

\* A connection that the rate limiter lets through.
Accept(c) ==
    /\ handler[c] = "none"
    /\ handler' = [handler EXCEPT ![c] = "accepted"]
    /\ open' = open \cup {c}
    /\ UNCHANGED <<connections, locked, counting, queue, pinger, kicked, seen, perIp, raced>>

\* Too many connections of the IP.
Refuse(c) ==
    /\ handler[c] = "accepted" /\ Free /\ ~CanConnect
    /\ handler' = [handler EXCEPT ![c] = "ended"]
    /\ open' = open \ {c}
    /\ UNCHANGED <<connections, locked, counting, queue, pinger, kicked, seen, perIp, raced>>

\* The server is locked until the connection is in the channel.
ListConnection(c) ==
    /\ handler[c] = "accepted" /\ Free /\ CanConnect
    /\ perIp' = perIp + 1
    /\ connections' = connections \cup {c}
    /\ locked' = TRUE
    /\ Touch
    /\ handler' = [handler EXCEPT ![c] = "listed"]
    /\ UNCHANGED <<counting, queue, open, pinger, kicked, seen>>

\* Mutant of QueueConnection: the lock is not given back.
QueueConnectionLocked(c) ==
    /\ handler[c] = "listed" /\ Len(queue) < MaxQueue
    /\ queue' = Append(queue, c)
    /\ handler' = [handler EXCEPT ![c] = "queued"]
    /\ UNCHANGED <<connections, locked, counting, open, pinger, kicked, seen, perIp, raced>>

QueueConnection(c) ==
    /\ handler[c] = "listed" /\ Len(queue) < MaxQueue
    /\ queue' = Append(queue, c)
    /\ locked' = FALSE
    /\ handler' = [handler EXCEPT ![c] = "queued"]
    /\ UNCHANGED <<connections, counting, open, pinger, kicked, seen, perIp, raced>>

\* handleXatumConns starts handleConn, which starts sendPingPackets.
Serve ==
    /\ queue # << >>
    /\ queue' = Tail(queue)
    /\ handler' = [handler EXCEPT ![Head(queue)] = "reading"]
    /\ pinger' = [pinger EXCEPT ![Head(queue)] = "on"]
    /\ UNCHANGED <<connections, locked, counting, open, kicked, seen, perIp, raced>>

-----------------------------------------------------------------------------
(* Kick().                                                                 *)

\* Mutants of Kick: counted off whether listed or not; nothing is closed.
KickCountsTwice(c) ==
    /\ Free
    /\ connections' = connections \ {c}
    /\ open' = open \ {c}
    /\ kicked' = kicked \cup {c}
    /\ perIp' = Disconnected
KickLeavesOpen(c) ==
    /\ Free
    /\ connections' = connections \ {c}
    /\ perIp' = IF c \in connections THEN Disconnected ELSE perIp
    /\ UNCHANGED <<open, kicked>>

\* Kick by a caller that has locked the server: removed, closed and counted
\* off if it is listed.
Kick(c) ==
    /\ Free
    /\ connections' = connections \ {c}
    /\ open' = IF c \in connections THEN open \ {c} ELSE open
    /\ kicked' = IF c \in connections THEN kicked \cup {c} ELSE kicked
    /\ perIp' = IF c \in connections THEN Disconnected ELSE perIp

\* handleConn refuses a packet, or sendJobs finds the miner idle.
KickMiner(c) ==
    /\ handler[c] = "reading" /\ c \in open
    /\ Kick(c)
    /\ Touch
    /\ UNCHANGED <<locked, counting, queue, handler, pinger, seen>>

\* handleConnPacket returns with the session locked: handleConn waits for it for
\* ever, and so would a sendJobs that looks for idle miners.
SubmitLeaks(c) ==
    /\ handler[c] = "reading" /\ c \in open
    /\ handler' = [handler EXCEPT ![c] = "stuck"]
    /\ UNCHANGED <<connections, locked, counting, queue, open, kicked, pinger, seen, perIp, raced>>

\* The miner goes away, or is silent for too long.
MinerLeaves(c) ==
    /\ handler[c] \in {"accepted", "listed", "queued", "reading", "stuck"} /\ c \in open
    /\ open' = open \ {c}
    /\ UNCHANGED <<connections, locked, counting, queue, kicked, handler, pinger, seen, perIp, raced>>

\* SetReadDeadline fails on a connection that was kicked: handleConn ends.
DeadlineFails(c) ==
    /\ handler[c] = "reading" /\ c \in kicked
    /\ handler' = [handler EXCEPT ![c] = "ended"]
    /\ UNCHANGED <<connections, locked, counting, queue, open, kicked, pinger, seen, perIp, raced>>

\* The read fails: handleConn kicks the connection, perhaps again, and ends.
ReadFails(c) ==
    /\ handler[c] = "reading" /\ c \notin open
    /\ Kick(c)
    /\ Touch
    /\ handler' = [handler EXCEPT ![c] = "ended"]
    /\ UNCHANGED <<locked, counting, queue, pinger, seen>>

\* A ping cannot be written: Kick without the lock reads Connections, closes
\* the connection and counts it off ...
PingFails(c) ==
    /\ pinger[c] = "on" /\ c \notin open
    /\ Touch
    /\ seen' = [seen EXCEPT ![c] = connections]
    /\ perIp' = IF c \in connections THEN Disconnected ELSE perIp
    /\ kicked' = IF c \in connections THEN kicked \cup {c} ELSE kicked
    /\ pinger' = [pinger EXCEPT ![c] = "kick"]
    /\ UNCHANGED <<connections, locked, counting, queue, open, handler>>

\* Mutant of PingKicks: the connection is among them.
PingKicksNobody(c) ==
    /\ pinger[c] = "kick"
    /\ connections' = seen[c]
    /\ seen' = [seen EXCEPT ![c] = {}]
    /\ pinger' = [pinger EXCEPT ![c] = "off"]
    /\ UNCHANGED <<locked, counting, queue, open, kicked, handler, perIp, raced>>

\* ... and replaces Connections by what it has read.
PingKicks(c) ==
    /\ pinger[c] = "kick"
    /\ connections' = seen[c] \ {c}
    /\ seen' = [seen EXCEPT ![c] = {}]
    /\ pinger' = [pinger EXCEPT ![c] = "off"]
    /\ UNCHANGED <<locked, counting, queue, open, kicked, handler, perIp, raced>>

-----------------------------------------------------------------------------
(* statsSender().                                                          *)

CountBegin ==
    /\ Free
    /\ counting' = TRUE
    /\ UNCHANGED <<connections, locked, queue, open, kicked, handler, pinger, seen, perIp, raced>>

\* The lists are given back.
CountEnd ==
    /\ counting
    /\ counting' = FALSE
    /\ UNCHANGED <<connections, locked, queue, open, kicked, handler, pinger, seen, perIp, raced>>

-----------------------------------------------------------------------------
Handle(c) ==
    Refuse(c) \/ ListConnection(c) \/ QueueConnection(c) \/ DeadlineFails(c) \/ ReadFails(c)

Next ==
    \/ Serve
    \/ CountBegin \/ CountEnd
    \/ \E c \in Conn :
         \/ Accept(c)
         \/ Handle(c)
         \/ KickMiner(c)
         \/ SubmitLeaks(c)
         \/ MinerLeaves(c)
         \/ PingFails(c)
         \/ PingKicks(c)

\* Goroutines that can run go on, but statsSender need not.  A waiter for Go's
\* mutex is not overtaken for ever (starvation mode; a reader does not overtake a
\* waiting writer), hence strong fairness for those that lock.
Fairness ==
    /\ WF_vars(Serve)
    /\ \A c \in Conn : SF_vars(Handle(c)) /\ WF_vars(PingFails(c) \/ PingKicks(c))

Spec == Init /\ [][Next]_vars
FairSpec == Spec /\ Fairness

-----------------------------------------------------------------------------
(* Properties.                                                             *)

\* connsPerIp is the number of connections in the table, although a connection
\* is kicked by its reader, by sendJobs and by both (perip.go:26-46,
\* server.go:183-201): no slot of the limit leaks and none is given back twice,
\* outside the pinger's Kick and unless something met it.
SlotsAreExact == raced \/ Kicking \/ perIp = Cardinality(connections)

\* "Server MUST be locked before calling this" (server.go:183): a miner that is
\* being served is in the table, so that sendJobs reaches it, unless something
\* met the Kick of sendPingPackets, which does not lock the server.
ServedIsListed ==
    raced \/ \A c \in open : handler[c] \in {"reading", "stuck"} => c \in connections

\* Every accepted connection is served or refused, although handleConnection
\* holds the server's lock while it waits for room in the channel and statsSender
\* while it counts (server.go:221, slave.go:90-101); unless statsSender keeps it,
\* waiting for the Stratum server's list for ever.
AcceptedIsHandled ==
    \/ <>[]counting
    \/ \A c \in Conn : handler[c] = "accepted" ~> handler[c] \in {"reading", "ended"}

\* The slots of closed connections are given back, also of one whose reader waits
\* for ever, under the same condition and unless something met the pinger's Kick.
SlotsComeBack ==
    \/ <>[]counting
    \/ \A c \in Conn :
         c \in connections /\ c \notin open ~> c \notin connections \/ raced
=============================================================================
