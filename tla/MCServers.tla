----------------------------- MODULE MCServers -----------------------------
(***************************************************************************)
(* Model-checking instances of the servers of a slave, one at a time: see  *)
(* the cfg files.  The variables of the servers that stand still are 0.    *)
(***************************************************************************)
EXTENDS Servers, Integers

xatumOnly == <<connections, locked, queue, open, kicked, handler, pinger>>
stratumOnly ==
    <<appending, pinging, toPing, latest, sweeping, kept, overwritten>>
getworkOnly == <<wasted, sock, resend, newest, crashed>>
listVars == <<conns, alive, session, leaked, broadcast, senders, got>>
tableVars == <<seen, raced>>
jobVars == <<lastKnown, behind>>

allVars ==
    <<xatumOnly, stratumOnly, getworkOnly, listVars, tableVars, jobVars, perIp, counting>>

XatumAtRest ==
    /\ connections = 0 /\ locked = 0 /\ queue = 0 /\ open = 0 /\ kicked = 0
    /\ handler = 0 /\ pinger = 0

StratumAtRest ==
    /\ appending = 0 /\ pinging = 0 /\ toPing = 0 /\ latest = 0
    /\ sweeping = 0 /\ kept = 0 /\ overwritten = 0

GetworkAtRest ==
    wasted = 0 /\ sock = 0 /\ resend = 0 /\ newest = 0 /\ crashed = 0

ListAtRest ==
    /\ conns = 0 /\ alive = 0 /\ session = 0 /\ leaked = 0
    /\ broadcast = 0 /\ senders = 0 /\ got = 0

TableAtRest == seen = 0 /\ raced = 0

JobsAtRest == lastKnown = 0 /\ behind = 0

-----------------------------------------------------------------------------
XatumInit ==
    Xatum!Init /\ StratumAtRest /\ GetworkAtRest /\ ListAtRest /\ JobsAtRest

XatumNext == Xatum!Next /\ UNCHANGED <<stratumOnly, getworkOnly, listVars, jobVars>>

XatumSpec == XatumInit /\ [][XatumNext]_allVars /\ Xatum!Fairness

StratumInit == Stratum!Init /\ XatumAtRest /\ GetworkAtRest

StratumNext == Stratum!Next /\ UNCHANGED <<xatumOnly, getworkOnly>>

StratumSpec == StratumInit /\ [][StratumNext]_allVars /\ Stratum!Fairness

GetworkInit == Getwork!Init /\ XatumAtRest /\ StratumAtRest /\ TableAtRest

GetworkNext == Getwork!Next /\ UNCHANGED <<xatumOnly, stratumOnly, tableVars>>

GetworkSpec == GetworkInit /\ [][GetworkNext]_allVars /\ Getwork!Fairness
=============================================================================
