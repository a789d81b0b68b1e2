--------------------------- MODULE StratumServer ---------------------------
(***************************************************************************)
(* The Stratum server of a slave: the list Conns and its mutex, the loop   *)
(* that accepts connections and appends to Conns without the mutex, the    *)
(* pinger that locks the list and then each session, sendJobs that drops   *)
(* dead connections and sends a job to the others, statsSender, the        *)
(* daemon's goroutine that starts sendJobs and then stores LastKnownJob,   *)
(* and the readers.  What a session does with jobs and shares is in        *)
(* MinerSession; here a session is its mutex.  All connections have one    *)
(* IP; the slots that the other servers take of it are left out.           *)
(*                                                                         *)
(* Both append and sweep read Conns and write them back: when one falls    *)
(* into the other, what was written first is lost.                         *)
(*                                                                         *)
(* A stale share makes the reader go on with its session locked, so that   *)
(* it then waits for itself.                                               *)
(***************************************************************************)
EXTENDS Integers, FiniteSets

CONSTANTS
    Conn,          \* connections miners open
    MaxPerIp,      \* config.MAX_CONNECTIONS_PER_IP (100 in the code)
    MaxJob         \* bound: jobs the daemon sends

\* What is assumed of the constants: see Servers.
StratumConstants == MaxPerIp \in Nat /\ MaxJob \in Nat

VARIABLES
    conns,      \* StratumServer.Conns
    appending,  \* the connection the accept loop is appending, as a set
    seen,       \* Conns as read for the append
    perIp,      \* connsPerIp[ip]
    session,    \* session[c]: "none", "reading", "mining" (authorized), "ended"
    alive,      \* the connections whose Alive is true
    leaked,     \* the connections whose session is locked for good
    pinging,    \* the pinger holds the list
    toPing,     \* the connections it has still to ping
    counting,   \* statsSender holds the list for reading
    latest,     \* number of the newest job
    lastKnown,  \* LastKnownJob
    broadcast,  \* jobs whose sendJobs has not locked the list yet
    sweeping,   \* the job whose sendJobs holds the list, as a set
    kept,       \* sockets2 of that sendJobs
    senders,    \* <<c, t>>: the goroutine that sends job t to c
    got,        \* history: connections that were sent the newest job
    raced,      \* history: an append and a sweep have overwritten each other
    overwritten, \* history: connections that were appended inside a sweep
    behind      \* history: connections that were answered with LastKnownJob
                \* and have not got the newest job

vars == <<conns, appending, seen, perIp, session, alive, leaked, pinging, toPing, counting,
          latest, lastKnown, broadcast, sweeping, kept, senders, got, raced, overwritten, behind>>
listVars == <<conns, appending, seen, perIp>>
pingVars == <<pinging, toPing, counting>>
jobVars == <<latest, lastKnown, broadcast, sweeping, kept, senders>>
raceVars == <<raced, overwritten>>

TypeOK ==
    /\ conns \subseteq Conn /\ appending \subseteq Conn /\ seen \subseteq Conn
    /\ perIp \in 0 .. MaxPerIp + 1
    /\ session \in [Conn -> {"none", "reading", "mining", "ended"}]
    /\ alive \subseteq Conn /\ leaked \subseteq Conn
    /\ pinging \in BOOLEAN /\ toPing \subseteq Conn /\ counting \in BOOLEAN
    /\ latest \in 0 .. MaxJob /\ lastKnown \in 0 .. MaxJob
    /\ broadcast \subseteq 1 .. MaxJob /\ sweeping \subseteq 1 .. MaxJob
    /\ kept \subseteq Conn /\ senders \subseteq Conn \X (1 .. MaxJob)
    /\ got \subseteq Conn /\ raced \in BOOLEAN
    /\ overwritten \subseteq Conn /\ behind \subseteq Conn

Init ==
    /\ conns = {} /\ appending = {} /\ seen = {} /\ perIp = 0
    /\ session = [c \in Conn |-> "none"]
    /\ alive = {} /\ leaked = {}
    /\ pinging = FALSE /\ toPing = {} /\ counting = FALSE
    /\ latest = 0 /\ lastKnown = 0 /\ broadcast = {} /\ sweeping = {} /\ kept = {}
    /\ senders = {} /\ got = {}
    /\ raced = FALSE /\ overwritten = {} /\ behind = {}

\* Nobody holds the lock of the list.
Free == ~pinging /\ ~counting /\ sweeping = {}

-----------------------------------------------------------------------------
(* handleStratumConns().                                                   *)

CanConnect == perIp <= MaxPerIp

Refuse(c) ==
    /\ session[c] = "none" /\ appending = {} /\ ~CanConnect
    /\ session' = [session EXCEPT ![c] = "ended"]
    /\ UNCHANGED <<listVars, alive, leaked, pingVars, jobVars, got, raceVars, behind>>

\* s.Conns = append(s.Conns, sConn), without the lock: Conns are read ...
Accept(c) ==
    /\ session[c] = "none" /\ appending = {} /\ CanConnect
    /\ perIp' = perIp + 1
    /\ appending' = {c} /\ seen' = conns
    /\ alive' = alive \cup {c}
    /\ UNCHANGED <<conns, session, leaked, pingVars, jobVars, got, raceVars, behind>>

\* ... and written, and handleStratumConn is started.  A sweep that has read
\* Conns will overwrite them.
AppendConn(c) ==
    /\ c \in appending
    /\ conns' = seen \cup {c}
    /\ appending' = {} /\ seen' = {}
    /\ session' = [session EXCEPT ![c] = "reading"]
    /\ IF sweeping # {}
       THEN raced' = TRUE /\ overwritten' = overwritten \cup {c}
       ELSE UNCHANGED raceVars
    /\ UNCHANGED <<perIp, alive, leaked, pingVars, jobVars, got, behind>>

\* The pinger locks the list, then one session after the other.
PingBegin ==
    /\ Free
    /\ pinging' = TRUE
    /\ toPing' = conns
    /\ UNCHANGED <<counting, listVars, session, alive, leaked, jobVars, got, raceVars, behind>>

Ping(c) ==
    /\ c \in toPing /\ c \notin leaked
    /\ toPing' = toPing \ {c}
    /\ UNCHANGED <<listVars, session, alive, leaked, pinging, counting, jobVars, got, raceVars, behind>>

\* Mutant of PingEnd: the list stays locked.
PingEndLocked == pinging /\ toPing = {} /\ UNCHANGED vars

PingEnd ==
    /\ pinging /\ toPing = {}
    /\ pinging' = FALSE
    /\ UNCHANGED <<listVars, session, alive, leaked, toPing, counting, jobVars, got, raceVars, behind>>

\* statsSender counts the connections, and writes to the master before it gives
\* the list back.
CountBegin ==
    /\ Free
    /\ counting' = TRUE
    /\ UNCHANGED <<listVars, session, alive, leaked, pinging, toPing, jobVars, got, raceVars, behind>>

CountEnd ==
    /\ counting
    /\ counting' = FALSE
    /\ UNCHANGED <<listVars, session, alive, leaked, pinging, toPing, jobVars, got, raceVars, behind>>

-----------------------------------------------------------------------------
(* handleStratumConn().                                                    *)

\* mining.authorize is answered with LastKnownJob.
Authorize(c) ==
    /\ session[c] = "reading" /\ c \notin leaked
    /\ session' = [session EXCEPT ![c] = "mining"]
    /\ got' = IF lastKnown = latest THEN got \cup {c} ELSE got
    /\ behind' = IF c \in got' THEN behind ELSE behind \cup {c}
    /\ UNCHANGED <<listVars, alive, leaked, pingVars, jobVars, raceVars>>

\* "stale job" is answered and the loop continued with the session locked.
SubmitStale(c) ==
    /\ session[c] = "mining" /\ c \notin leaked
    /\ leaked' = leaked \cup {c}
    /\ UNCHANGED <<listVars, session, alive, pingVars, jobVars, got, raceVars, behind>>

\* A failed read or a refused request; a reader that waits for its own session
\* does neither.
Leave(c) ==
    /\ session[c] \in {"reading", "mining"} /\ c \notin leaked
    /\ session' = [session EXCEPT ![c] = "ended"]
    /\ alive' = alive \ {c}
    /\ got' = got \ {c} /\ behind' = behind \ {c} /\ overwritten' = overwritten \ {c}
    /\ UNCHANGED <<listVars, leaked, pingVars, jobVars, raced>>

\* A share for which handleConnPacket says that the miner is kicked.
KickMiner(c) ==
    /\ session[c] = "mining"
    /\ Leave(c)

-----------------------------------------------------------------------------
(* getworkConn() and sendJobs().                                           *)

\* A job: sendJobs is started before LastKnownJob is stored.  The miners that
\* were behind are to get this one.
NewJob ==
    /\ latest < MaxJob /\ lastKnown = latest
    /\ latest' = latest + 1
    /\ broadcast' = broadcast \cup {latest + 1}
    /\ got' = {} /\ behind' = {}
    /\ UNCHANGED <<listVars, session, alive, leaked, pingVars, lastKnown, sweeping, kept,
                   senders, raceVars>>

StoreLastJob ==
    /\ lastKnown # latest
    /\ lastKnown' = latest
    /\ UNCHANGED <<listVars, session, alive, leaked, pingVars, latest, broadcast, sweeping, kept,
                   senders, got, raceVars, behind>>

\* Mutant of Dead: connections that have not authorized are swept too.
DeadOrSilent == {c \in conns : c \notin alive \/ session[c] # "mining"}

Dead == conns \ alive
\* Mutant of Disconnected: the slots of dead connections are kept.
DisconnectedNever == perIp

Disconnected == IF perIp > Cardinality(Dead) THEN perIp - Cardinality(Dead) ELSE 0

\* With the list locked, Conns are read: dead connections are counted off, the
\* others go to sockets2 ...
SweepBegin(t) ==
    /\ t \in broadcast /\ Free
    /\ broadcast' = broadcast \ {t}
    /\ sweeping' = {t}
    /\ kept' = conns \ Dead
    /\ perIp' = Disconnected
    /\ UNCHANGED <<conns, appending, seen, session, alive, leaked, pingVars, latest, lastKnown,
                   senders, got, raceVars, behind>>

\* ... which are written to Conns; a goroutine is started for each of them.  An
\* append that has read Conns will undo the removals.
SweepEnd(t) ==
    /\ t \in sweeping
    /\ conns' = kept
    /\ senders' = senders \cup (kept \X {t})
    /\ sweeping' = {} /\ kept' = {}
    /\ raced' = (raced \/ appending # {})
    /\ UNCHANGED <<appending, seen, perIp, session, alive, leaked, pingVars, latest, lastKnown,
                   broadcast, got, overwritten, behind>>

SendJob(c, t) ==
    /\ <<c, t>> \in senders /\ c \notin leaked
    /\ senders' = senders \ {<<c, t>>}
    /\ got' = IF t = latest /\ c \in alive THEN got \cup {c} ELSE got
    /\ behind' = behind \ got'
    /\ UNCHANGED <<listVars, session, alive, leaked, pingVars, latest, lastKnown, broadcast,
                   sweeping, kept, raceVars>>

-----------------------------------------------------------------------------
Pinger == PingBegin \/ (\E c \in Conn : Ping(c)) \/ PingEnd

Next ==
    \/ Pinger
    \/ CountBegin \/ CountEnd
    \/ NewJob \/ StoreLastJob
    \/ \E c \in Conn :
         \/ Refuse(c)
         \/ Accept(c)
         \/ AppendConn(c)
         \/ Authorize(c)
         \/ SubmitStale(c)
         \/ Leave(c)
         \/ KickMiner(c)
    \/ \E t \in 1 .. MaxJob :
         SweepBegin(t) \/ SweepEnd(t) \/ \E c \in Conn : SendJob(c, t)

\* Goroutines that can run go on; a waiter for Go's mutex is not overtaken for
\* ever by the pinger or statsSender, hence strong fairness for sendJobs; what
\* statsSender writes is written at last.
Fairness ==
    /\ WF_vars(Pinger) /\ WF_vars(CountEnd) /\ WF_vars(StoreLastJob)
    /\ \A c \in Conn : WF_vars(AppendConn(c))
    /\ \A t \in 1 .. MaxJob :
         /\ SF_vars(SweepBegin(t)) /\ WF_vars(SweepEnd(t))
         /\ \A c \in Conn : WF_vars(SendJob(c, t))

Spec == Init /\ [][Next]_vars
FairSpec == Spec /\ Fairness

-----------------------------------------------------------------------------
(* Properties.                                                             *)

\* The connections that hold a slot: those listed, of which a sweep has already
\* counted off the dead, and the one being appended.
Holders == (IF sweeping = {} THEN conns ELSE kept) \cup appending

\* connsPerIp counts them exactly: the accept loop, the readers that end and the
\* sweep of sendJobs (perip.go:26-46, stratum.go:566-583) neither leak a slot nor
\* give one back twice, unless an append without the lock met a sweep.
SlotsAreExact == raced \/ perIp = Cardinality(Holders)

\* A connection that is being read is missing from Conns only if it was itself
\* appended, without the lock, between the read and the write of a sweep
\* (stratum.go:150 and 567-583): no other is lost, although appends and sweeps
\* overwrite each other.
MinersAreListed ==
    \A c \in alive \ overwritten : session[c] \in {"reading", "mining"} => c \in conns

\* The authorized miners in C have the newest job.
UpToDate(C) == \A c \in C : session[c] = "mining" => c \in got

\* "sends a job to all the websockets, and removes old websockets"
\* (stratum.go:559): after every new job, each authorized miner that has not
\* left and has not itself sent a stale share gets it; miners that a sweep lost,
\* or that authorized before the newest job was stored, are left aside.
JobsReachMiners == []<>UpToDate(alive \ (leaked \cup overwritten \cup behind))

\* The same as long as no miner sends a stale share, in any interleaving of the
\* sweeps, the appends, statsSender and the pinger that locks the list and every
\* session.  Two kinds of miners may wait for a job that never comes: those
\* appended inside a sweep, and, until the next job, those answered with
\* LastKnownJob before it was stored (stratum.go:315, daemon_conn.go:121-132).
JobsReachMinersUnlessStale ==
    []<>(UpToDate(alive \ (overwritten \cup behind)) \/ leaked # {})
=============================================================================
