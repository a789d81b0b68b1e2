--------------------------- MODULE GetworkServer ---------------------------
(***************************************************************************)
(* The GetWork server of a slave: requests that take a slot of their IP    *)
(* before they are checked, the list Conns into which a connection is put  *)
(* before it has a websocket, the first job, the reader, and               *)
(* sendGetworkJobs, which sweeps the list and starts a goroutine for every *)
(* connection that is left.  What a session does with a share is in        *)
(* MinerSession.  All connections have one IP.                             *)
(*                                                                         *)
(* A reader that ends does not clear Alive: only a job that cannot be      *)
(* written does, and only the sweep after that gives the slot back.  The   *)
(* slave dies when a job is written to a connection that has no websocket  *)
(* yet, or while the reader writes a job of its own without the lock.      *)
(*                                                                         *)
(* statsSender locks the list for reading and then waits for that of the   *)
(* Stratum server, for ever if it stays locked (StratumServer.SubmitStale).*)
(***************************************************************************)
EXTENDS Integers, FiniteSets

CONSTANTS
    Conn,      \* connections miners open
    MaxPerIp,  \* config.MAX_CONNECTIONS_PER_IP (100 in the code)
    MaxJob     \* bound: templates that are told apart; the last one repeats

\* What is assumed of the constants: see Servers.
GetworkConstants == MaxPerIp \in Nat /\ MaxJob \in Nat \ {0}

Jobs == 1 .. MaxJob

VARIABLES
    conns,     \* GetworkServer.Conns
    alive,     \* the connections whose Alive is true
    perIp,     \* connsPerIp[ip]
    wasted,    \* history: slots taken by requests that were then refused
    session,   \* session[c]: where the handler of c is
    sock,      \* sock[c]: "nil", "open", "gone" (the miner left), "closed"
    leaked,    \* the connections whose session handleConnPacket left locked
    resend,    \* resend[c]: template of the reader's jobToSend; 0: none
    newest,    \* the newest template of the daemon
    lastKnown, \* LastKnownJob
    broadcast, \* templates whose sendGetworkJobs has not swept yet
    senders,   \* <<c, t>>: the goroutine that sends template t to c
    got,       \* got[c]: the template c was sent last; 0 once its handler ended
    behind,    \* history: c was sent an older template after the newest came
    counting,  \* statsSender holds the list for reading
    crashed    \* the slave has panicked

listVars == <<conns, alive, perIp, wasted>>
sessionVars == <<session, sock, leaked, resend>>
jobVars == <<newest, lastKnown, broadcast, senders>>
sentVars == <<got, behind>>
slaveVars == <<counting, crashed>>
vars == <<listVars, sessionVars, jobVars, sentVars, slaveVars>>

TypeOK ==
    /\ conns \subseteq Conn /\ alive \subseteq Conn /\ leaked \subseteq Conn
    /\ perIp \in 0 .. MaxPerIp + 1 /\ wasted \in 0 .. MaxPerIp + 1
    /\ session \in [Conn -> {"none", "admitted", "listed", "upgraded", "reading",
                             "writing", "stuck", "ended"}]
    /\ sock \in [Conn -> {"nil", "open", "gone", "closed"}]
    /\ resend \in [Conn -> 0 .. MaxJob] /\ got \in [Conn -> 0 .. MaxJob]
    /\ newest \in 0 .. MaxJob /\ lastKnown \in 0 .. MaxJob
    /\ broadcast \subseteq Jobs /\ senders \subseteq Conn \X Jobs
    /\ behind \subseteq Conn /\ crashed \in BOOLEAN
    /\ counting \in BOOLEAN

Init ==
    /\ conns = {} /\ alive = {} /\ perIp = 0 /\ wasted = 0
    /\ session = [c \in Conn |-> "none"] /\ sock = [c \in Conn |-> "nil"]
    /\ leaked = {} /\ resend = [c \in Conn |-> 0]
    /\ newest = 0 /\ lastKnown = 0 /\ broadcast = {} /\ senders = {}
    /\ got = [c \in Conn |-> 0] /\ behind = {}
    /\ counting = FALSE /\ crashed = FALSE

\* The list is not locked.
Free == ~counting

Goto(c, place) == session' = [session EXCEPT ![c] = place]

-----------------------------------------------------------------------------
(* listenGetwork().                                                        *)

CanConnect == perIp <= MaxPerIp

\* 429 too many open connections.
RefuseFull(c) ==
    /\ session[c] = "none" /\ ~CanConnect
    /\ Goto(c, "ended")
    /\ UNCHANGED <<listVars, sock, leaked, resend, jobVars, sentVars, slaveVars>>

Admit(c) ==
    /\ session[c] = "none" /\ CanConnect
    /\ perIp' = perIp + 1
    /\ Goto(c, "admitted")
    /\ UNCHANGED <<conns, alive, wasted, sock, leaked, resend, jobVars, sentVars, slaveVars>>

\* The rate limiter or the check of the address refuses; nobody calls
\* Disconnect.
RefuseRequest(c) ==
    /\ session[c] = "admitted"
    /\ wasted' = wasted + 1
    /\ Goto(c, "ended")
    /\ UNCHANGED <<conns, alive, perIp, sock, leaked, resend, jobVars, sentVars, slaveVars>>

\* The miner connects again.
Reconnect(c) ==
    /\ session[c] = "ended" /\ c \notin conns
    /\ \A t \in Jobs : <<c, t>> \notin senders
    /\ alive' = alive \ {c}
    /\ sock' = [sock EXCEPT ![c] = "nil"]
    /\ Goto(c, "none")
    /\ UNCHANGED <<conns, perIp, wasted, leaked, resend, jobVars, sentVars, slaveVars>>

\* With the list locked; the websocket does not exist yet.
ListConn(c) ==
    /\ session[c] = "admitted" /\ Free
    /\ conns' = conns \cup {c} /\ alive' = alive \cup {c}
    /\ Goto(c, "listed")
    /\ UNCHANGED <<perIp, wasted, sock, leaked, resend, jobVars, sentVars, slaveVars>>

-----------------------------------------------------------------------------
(* wsHandler().                                                            *)

Upgrade(c) ==
    /\ session[c] = "listed"
    /\ sock' = [sock EXCEPT ![c] = "open"]
    /\ Goto(c, "upgraded")
    /\ UNCHANGED <<listVars, leaked, resend, jobVars, sentVars, slaveVars>>

\* The request is not a websocket handshake: the connection stays listed.
UpgradeFails(c) ==
    /\ session[c] = "listed"
    /\ Goto(c, "ended")
    /\ UNCHANGED <<listVars, sock, leaked, resend, jobVars, sentVars, slaveVars>>

\* The handler returns and closes the websocket; Alive stays true.
CloseAndEnd(c) ==
    /\ sock' = [sock EXCEPT ![c] = "closed"]
    /\ got' = [got EXCEPT ![c] = 0] /\ behind' = behind \ {c}
    /\ Goto(c, "ended")

\* No template is known yet.
NoFirstJob(c) ==
    /\ session[c] = "upgraded" /\ lastKnown = 0
    /\ CloseAndEnd(c)
    /\ UNCHANGED <<listVars, leaked, resend, jobVars, slaveVars>>

\* Template t reaches c.
Deliver(c, t) ==
    /\ sock[c] \in {"open", "gone"}
    /\ got' = [got EXCEPT ![c] = t]
    /\ behind' = IF t = newest THEN behind \ {c} ELSE behind \cup {c}

\* The reader writes template t; an error is only logged or ignored.
TryDeliver(c, t) ==
    Deliver(c, t) \/ (sock[c] \in {"gone", "closed"} /\ UNCHANGED sentVars)

\* With the session locked.
FirstJob(c) ==
    /\ session[c] = "upgraded" /\ lastKnown # 0
    /\ Goto(c, "reading")
    /\ TryDeliver(c, lastKnown)
    /\ UNCHANGED <<listVars, sock, leaked, resend, jobVars, slaveVars>>

\* Mutant of ReadFails: the reader takes itself off the list.
ReadFailsUnlists(c) ==
    /\ session[c] = "reading" /\ sock[c] # "open"
    /\ CloseAndEnd(c)
    /\ conns' = conns \ {c}
    /\ UNCHANGED <<alive, perIp, wasted, leaked, resend, jobVars, slaveVars>>

\* The read fails.
ReadFails(c) ==
    /\ session[c] = "reading" /\ sock[c] # "open"
    /\ CloseAndEnd(c)
    /\ UNCHANGED <<listVars, leaked, resend, jobVars, slaveVars>>

\* A miner_work that is not a string: the reader panics, gin recovers.
BadPacket(c) ==
    /\ session[c] = "reading" /\ sock[c] # "closed"
    /\ CloseAndEnd(c)
    /\ UNCHANGED <<listVars, leaked, resend, jobVars, slaveVars>>

\* handleConnPacket refuses the packet, or the answer cannot be written: the
\* websocket is closed, with the list locked, and the next read fails.
KickConn(c) ==
    /\ session[c] = "reading" /\ sock[c] # "closed" /\ Free
    /\ sock' = [sock EXCEPT ![c] = "closed"]
    /\ UNCHANGED <<listVars, session, leaked, resend, jobVars, sentVars, slaveVars>>

\* handleConnPacket returns with the session locked (a wrong pool nonce or job
\* id): the reader waits for it before it can answer or kick.
SubmitLeaks(c) ==
    /\ session[c] = "reading" /\ sock[c] # "closed"
    /\ leaked' = leaked \cup {c}
    /\ Goto(c, "stuck")
    /\ UNCHANGED <<listVars, sock, resend, jobVars, sentVars, slaveVars>>

\* A share changed the difficulty: jobToSend is the template of the last job.
TakeJobToSend(c) ==
    /\ session[c] = "reading" /\ sock[c] # "closed" /\ got[c] # 0
    /\ resend' = [resend EXCEPT ![c] = got[c]]
    /\ Goto(c, "writing")
    /\ UNCHANGED <<listVars, sock, leaked, jobVars, sentVars, slaveVars>>

\* SendJobGetwork without the session's lock.
SendJobToSend(c) ==
    /\ session[c] = "writing"
    /\ Goto(c, "reading")
    /\ resend' = [resend EXCEPT ![c] = 0]
    /\ TryDeliver(c, resend[c])
    /\ UNCHANGED <<listVars, sock, leaked, jobVars, slaveVars>>

\* The same while a goroutine writes a job: the reader panics, gin recovers.
SendJobToSendPanics(c) ==
    /\ session[c] = "writing"
    /\ c \in {s[1] : s \in senders}
    /\ CloseAndEnd(c)
    /\ resend' = [resend EXCEPT ![c] = 0]
    /\ UNCHANGED <<listVars, leaked, jobVars, slaveVars>>

\* The miner's side of the websocket goes away.
MinerLeaves(c) ==
    /\ sock[c] = "open"
    /\ sock' = [sock EXCEPT ![c] = "gone"]
    /\ UNCHANGED <<listVars, session, leaked, resend, jobVars, sentVars, slaveVars>>

-----------------------------------------------------------------------------
(* getworkConn() and sendGetworkJobs().                                    *)

\* A template: the broadcasts are started before LastKnownJob is stored.
NewTemplate ==
    /\ lastKnown = newest
    /\ \E t \in Jobs :
         /\ t = newest + 1 \/ (t = newest /\ t = MaxJob)
         /\ newest' = t
         /\ broadcast' = broadcast \cup {t}
    /\ UNCHANGED <<listVars, sessionVars, lastKnown, senders, sentVars, slaveVars>>

StoreLastJob ==
    /\ lastKnown # newest
    /\ lastKnown' = newest
    /\ UNCHANGED <<listVars, sessionVars, newest, broadcast, senders, sentVars, slaveVars>>

\* Mutant of Dead: connections without a websocket are swept too.
DeadOrUnready == {c \in conns : c \notin alive \/ sock[c] = "nil"}

\* The connections without Alive.
Dead == conns \ alive

Disconnected == IF perIp > Cardinality(Dead) THEN perIp - Cardinality(Dead) ELSE 0

\* With the list locked.
Sweep(t) ==
    /\ t \in broadcast /\ Free
    /\ broadcast' = broadcast \ {t}
    /\ conns' = conns \ Dead
    /\ perIp' = Disconnected
    /\ senders' = senders \cup ((conns \ Dead) \X {t})
    /\ UNCHANGED <<alive, wasted, sessionVars, newest, lastKnown, sentVars, slaveVars>>

Sending(c, t) == <<c, t>> \in senders /\ c \notin leaked
SenderEnds(c, t) == senders' = senders \ {<<c, t>>}

SendJob(c, t) ==
    /\ Sending(c, t)
    /\ SenderEnds(c, t)
    /\ Deliver(c, t)
    /\ UNCHANGED <<listVars, sessionVars, newest, lastKnown, broadcast, slaveVars>>

\* Mutant of SendFails: the websocket is closed and Alive is left.
SendFailsAlive(c, t) ==
    /\ Sending(c, t) /\ sock[c] \in {"gone", "closed"}
    /\ SenderEnds(c, t)
    /\ sock' = [sock EXCEPT ![c] = "closed"]
    /\ UNCHANGED <<listVars, session, leaked, resend, newest, lastKnown, broadcast,
                   sentVars, slaveVars>>

\* The write fails: closed, and no longer alive.
SendFails(c, t) ==
    /\ Sending(c, t) /\ sock[c] \in {"gone", "closed"}
    /\ SenderEnds(c, t)
    /\ sock' = [sock EXCEPT ![c] = "closed"]
    /\ alive' = alive \ {c}
    /\ UNCHANGED <<conns, perIp, wasted, session, leaked, resend, newest, lastKnown,
                   broadcast, sentVars, slaveVars>>

\* A nil websocket, or two writers at once: the goroutine of the job panics and
\* nothing of the process is left.
SendPanics(c, t) ==
    /\ Sending(c, t)
    /\ sock[c] = "nil" \/ session[c] = "writing"
    /\ crashed' = TRUE /\ counting' = FALSE
    /\ conns' = {} /\ alive' = {} /\ perIp' = 0 /\ wasted' = 0
    /\ session' = [d \in Conn |-> "none"] /\ sock' = [d \in Conn |-> "nil"]
    /\ leaked' = {} /\ resend' = [d \in Conn |-> 0]
    /\ newest' = 0 /\ lastKnown' = 0 /\ broadcast' = {} /\ senders' = {}
    /\ got' = [d \in Conn |-> 0] /\ behind' = {}

-----------------------------------------------------------------------------
(* statsSender().                                                          *)

CountBegin ==
    /\ Free
    /\ counting' = TRUE
    /\ UNCHANGED <<listVars, sessionVars, jobVars, sentVars, crashed>>

\* The lists are given back.
CountEnd ==
    /\ counting
    /\ counting' = FALSE
    /\ UNCHANGED <<listVars, sessionVars, jobVars, sentVars, crashed>>

-----------------------------------------------------------------------------
Handle(c) ==
    \/ RefuseFull(c) \/ RefuseRequest(c) \/ ListConn(c)
    \/ Upgrade(c) \/ UpgradeFails(c)
    \/ NoFirstJob(c) \/ FirstJob(c)
    \/ ReadFails(c) \/ SendJobToSend(c) \/ SendJobToSendPanics(c)

Send(c, t) == SendJob(c, t) \/ SendFails(c, t) \/ SendPanics(c, t)

Next ==
    /\ ~crashed
    /\ \/ NewTemplate
       \/ StoreLastJob
       \/ CountBegin \/ CountEnd
       \/ \E t \in Jobs : Sweep(t) \/ \E c \in Conn : Send(c, t)
       \/ \E c \in Conn :
            \/ Admit(c) \/ Reconnect(c)
            \/ Handle(c)
            \/ BadPacket(c) \/ KickConn(c)
            \/ SubmitLeaks(c)
            \/ TakeJobToSend(c)
            \/ MinerLeaves(c)

\* The goroutines of templates and jobs go on, and the network finds blocks.  A
\* waiter for the list's lock is not overtaken by statsSender for ever, hence
\* strong fairness for the sweeps.  The handlers and statsSender need not go on.
Fairness ==
    /\ WF_vars(~crashed /\ NewTemplate) /\ WF_vars(~crashed /\ StoreLastJob)
    /\ SF_vars(~crashed /\ \E t \in Jobs : Sweep(t))
    /\ \A c \in Conn, t \in Jobs : WF_vars(~crashed /\ Send(c, t))

Spec == Init /\ [][Next]_vars
FairSpec == Spec /\ Fairness

-----------------------------------------------------------------------------
(* Properties.                                                             *)

\* Every slot of the IP belongs to a listed connection, to a request that is
\* being checked, or to one of the requests that were refused after CanConnect
\* (getwork.go:175-229): those are all that is ever lost, however readers,
\* failed writes and sweeps overlap.
SlotsAreExact ==
    perIp = Cardinality(conns)
          + Cardinality({c \in Conn : session[c] = "admitted"}) + wasted

\* "removes old websockets" (getwork.go:75): the connection of a reader that has
\* ended leaves the list, although it is first a job that fails and then the
\* next sweep that notice it, and although a sweep waits for statsSender; unless
\* the slave has panicked, or statsSender keeps the list, waiting for the Stratum
\* server's for ever (slave.go:90-101).
SlotsComeBack ==
    \/ <>[]counting
    \/ \A c \in Conn : session[c] = "ended" /\ c \in conns ~> c \notin conns \/ crashed

\* Nothing is under way: the broadcast of the newest template is over.
Quiet == broadcast = {} /\ senders = {} /\ lastKnown = newest

\* "sends a job to all the websockets" (getwork.go:75): once a broadcast is
\* over, every miner works on the newest template, also when it connected
\* during the broadcast; unless a first job read from LastKnownJob before it was
\* stored, or a jobToSend read before the broadcast, was written after it, or
\* the goroutines of two templates overtook each other.
WorksOnLatest ==
    Quiet => \A c \in Conn :
        session[c] = "reading" /\ sock[c] = "open" /\ c \notin behind
            => got[c] = newest
=============================================================================
