---------------------------- MODULE RateLimiter ----------------------------
(***************************************************************************)
(* The rate limiter of a slave: every action of an IP (connecting,         *)
(* submitting a share, a share with a wrong PoW) adds to its score, a      *)
(* score above MAX_SCORE bans it, and a timer clears the scores and the    *)
(* bans that are over.  The mutex rlMut makes each function one action.    *)
(* sendJobs also bans a miner without recent shares, under its remote      *)
(* address with the port.                                                  *)
(***************************************************************************)
EXTENDS Integers, Functions

CONSTANTS
    Ip,             \* IP addresses of miners
    Port,           \* ports their connections come from
    Costs,          \* ACTION_CONNECT, ACTION_SHARE_SUBMIT, ACTION_INVALID_SHARE_POW
    MaxScore,       \* MAX_SCORE (2000 in the code)
    ResetInterval,  \* RESET_INTERVAL (two minutes in the code)
    BanDuration,    \* BAN_DURATION (five minutes in the code)
    MaxTime,        \* bound: minutes that pass
    ScoreBound      \* bound: score of an IP between two resets

ASSUME LimiterAssumption ==
    /\ Costs \subseteq Nat \ {0} /\ MaxScore \in Nat /\ ScoreBound \in Nat
    /\ ResetInterval \in Nat \ {0} /\ BanDuration \in Nat \ {0} /\ MaxTime \in Nat

VARIABLES
    now,      \* time.Now(), in minutes
    cleared,  \* when the scores were cleared last
    score,    \* rate_limiters[ip].Score
    ends,     \* bans[key].Ends; 0: no ban
    punished, \* history: when the last ban of ip for its score is over
    granted   \* history: granted[ip][t]: what ip was allowed in minute t

vars == <<now, cleared, score, ends, punished, granted>>

Minutes == 0 .. MaxTime

\* A remote address with its port, and the keys of the map bans.
RemoteAddr == [ip : Ip, port : Port]
Keys == Ip \cup RemoteAddr

Init ==
    /\ now = 0 /\ cleared = 0
    /\ score = [ip \in Ip |-> 0] /\ ends = [key \in Keys |-> 0]
    /\ punished = [ip \in Ip |-> 0] 
    /\ granted = [ip \in Ip |-> [t \in Minutes |-> 0]]

Tick ==
    /\ now < MaxTime
    /\ now' = now + 1
    /\ UNCHANGED <<cleared, score, ends, punished, granted>>

Banned(ip) == ends[ip] > now

\* Mutant of Exceeds: the action that is asked for does not count.
ExceedsBefore(ip, cost) == score[ip] > MaxScore

\* The score with the action in it is too high.
Exceeds(ip, cost) == score[ip] + cost > MaxScore

\* CanDoAction: refused because of a ban; the action counts nevertheless.
RefuseBanned(ip, cost) ==
    /\ Banned(ip) /\ score[ip] + cost <= ScoreBound
    /\ score' = [score EXCEPT ![ip] = @ + cost]
    /\ UNCHANGED <<now, cleared, ends, punished, granted>>

\* CanDoAction: refused because of the score, and banned.
RefuseAndBan(ip, cost) ==
    /\ ~Banned(ip) /\ Exceeds(ip, cost) /\ score[ip] + cost <= ScoreBound
    /\ score' = [score EXCEPT ![ip] = @ + cost]
    /\ ends' = [ends EXCEPT ![ip] = now + BanDuration]
    /\ punished' = [punished EXCEPT ![ip] = now + BanDuration]
    /\ UNCHANGED <<now, cleared, granted>>

\* CanDoAction: allowed.
Allow(ip, cost) ==
    /\ ~Banned(ip) /\ ~Exceeds(ip, cost)
    /\ score' = [score EXCEPT ![ip] = @ + cost]
    /\ granted' = [granted EXCEPT ![ip][now] = @ + cost]
    /\ UNCHANGED <<now, cleared, ends, punished>>

CanDoAction(ip, cost) == RefuseBanned(ip, cost) \/ RefuseAndBan(ip, cost) \/ Allow(ip, cost)

\* Ban, as sendJobs calls it for an idle miner: the key is the remote address
\* as it is, and the end it is called with is not used.
Ban(addr) ==
    /\ ends' = [ends EXCEPT ![addr] = now + BanDuration]
    /\ UNCHANGED <<now, cleared, score, punished, granted>>

\* Mutant of StillBanned: every ban is cleared with the scores.
StillBannedNever(key) == FALSE

\* The bans that are kept when the scores are cleared.
StillBanned(key) == ends[key] > now

clearRl ==
    /\ now >= cleared + ResetInterval
    /\ cleared' = now
    /\ score' = [ip \in Ip |-> 0]
    /\ ends' = [key \in Keys |-> IF StillBanned(key) THEN ends[key] ELSE 0]
    /\ UNCHANGED <<now, punished, granted>>

Next ==
    \/ Tick
    \/ clearRl
    \/ \E addr \in RemoteAddr : Ban(addr)
    \/ \E ip \in Ip, cost \in Costs : CanDoAction(ip, cost)

Spec == Init /\ [][Next]_vars

-----------------------------------------------------------------------------
(* Properties.                                                             *)

\* Scores are cleared at a fixed beat, whatever an IP has just spent; even so,
\* in any stretch of RESET_INTERVAL it is allowed at most twice MAX_SCORE
\* (rate_limit.go:40,64-89).
BurstBounded ==
    \A ip \in Ip : \A t \in Minutes :
        SumFunction([u \in Minutes \cap (t .. t + ResetInterval - 1) |-> granted[ip][u]])
            <= 2 * MaxScore

\* A ban lasts for its whole BAN_DURATION, although the reset that comes in the
\* middle of it forgets the score it was given for (rate_limit.go:101-117).
BanHolds == [][\A ip \in Ip : granted'[ip] # granted[ip] => now >= punished[ip]]_vars
=============================================================================
