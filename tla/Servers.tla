------------------------------ MODULE Servers ------------------------------
(***************************************************************************)
(* The three servers of a slave.  Each is a specification of its own here, *)
(* an instance of its module; that some of their variables have the same   *)
(* names, as the fields in the code have, means nothing, since a behaviour *)
(* is of one of them.  What they share in the program is connsPerIp, of    *)
(* which each has its own here, LastKnownJob, and statsSender, which holds *)
(* the list of Xatum and that of GetWork while it waits for that of        *)
(* Stratum: in their modules it may stay there for ever.                   *)
(***************************************************************************)
CONSTANTS
    Conn,      \* connections miners open
    MaxPerIp,  \* config.MAX_CONNECTIONS_PER_IP (100 in the code)
    MaxQueue,  \* capacity of the channel NewConnections (1 in the code)
    MaxJob     \* bound: jobs the daemon sends

VARIABLES
    connections, locked, queue, open, kicked, handler, pinger, \* Xatum
    appending, pinging, toPing, latest,                        \* Stratum
    sweeping, kept, overwritten,                               \* Stratum
    wasted, sock, resend, newest, crashed,                     \* GetWork
    lastKnown, behind,                                         \* Stratum, GetWork
    conns, alive, session, leaked, broadcast, senders, got,    \* Stratum, GetWork
    seen, raced,                                               \* Xatum, Stratum
    perIp, counting                                            \* all

Xatum == INSTANCE XatumServer
Stratum == INSTANCE StratumServer
Getwork == INSTANCE GetworkServer

ASSUME ServersAssumption ==
    Xatum!XatumConstants /\ Stratum!StratumConstants /\ Getwork!GetworkConstants

-----------------------------------------------------------------------------
(* What the servers promise, under names that tell them apart; the modules *)
(* of the servers say what each property is about.                         *)

\* connsPerIp is exact: perip.go:26-46 with server.go:183-201, with the accept
\* loop of stratum.go:150, and with the refusals of getwork.go:175-229.
XatumSlotsAreExact == Xatum!SlotsAreExact
StratumSlotsAreExact == Stratum!SlotsAreExact
GetworkSlotsAreExact == Getwork!SlotsAreExact

\* The slots of connections that ended are given back (server.go:183,
\* getwork.go:75).
XatumSlotsComeBack == Xatum!SlotsComeBack
GetworkSlotsComeBack == Getwork!SlotsComeBack

\* A miner that is served is in the list that jobs are sent to (server.go:183,
\* stratum.go:150).
XatumServedIsListed == Xatum!ServedIsListed
StratumMinersAreListed == Stratum!MinersAreListed

\* An accepted Xatum connection is served or refused (server.go:221).
XatumAcceptedIsHandled == Xatum!AcceptedIsHandled

\* Miners get the newest job (stratum.go:559, getwork.go:75).
StratumJobsReachMinersUnlessStale == Stratum!JobsReachMinersUnlessStale
GetworkWorksOnLatest == Getwork!WorksOnLatest
=============================================================================
