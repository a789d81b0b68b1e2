---------------------------- MODULE MinerSession ----------------------------
(***************************************************************************)
(* One miner connected to a slave over Xatum (the GetWork server shares    *)
(* handleConnPacket and its SendJob is the same): the session data CData,  *)
(* the goroutine that reads the miner's packets, the goroutines that send  *)
(* it the jobs of new templates, and the goroutines that verify its        *)
(* shares, credit them and submit the blocks they find.                    *)
(*                                                                         *)
(* CData has a mutex, but handleConnPacket keeps a pointer into Jobs after *)
(* unlocking it, and handleConn calls SendJob without it.  Critical        *)
(* sections are single actions; these two windows are two actions each.    *)
(* A difficulty is one of a few levels: NextDiff moves to any level with a *)
(* handshake or a credited share; its decay without shares is left out.    *)
(* A verification keeps the pointer to its job; no step writes the Diff of *)
(* a job that was sent, so what it reads there is that of the share's job. *)
(***************************************************************************)
EXTENDS Integers, Sequences, FiniteSets

CONSTANTS
    FirstTemplate, \* newest template when the miner connects; 0: none yet
    MaxTemplate,   \* bound: templates the daemon sends
    MaxJob,        \* bound: jobs sent to the miner
    MaxShares,     \* bound: shares that pass the checks of the reader
    MaxPastJobs,   \* config.MAX_PAST_JOBS (6 in the code)
    InitialCap,    \* capacity of a new Jobs slice (5 in the code)
    Nonces,        \* nonces a miner may submit
    Diffs,         \* difficulty levels
    FirstDiff,     \* cfg.Slave.InitialDifficulty
    TrustScore,    \* cfg.Slave.TrustScore
    MayMisbehave   \* packets that no correct miner sends may arrive

ASSUME SessionAssumption ==
    /\ MaxTemplate \in Nat /\ FirstTemplate \in 0 .. MaxTemplate
    /\ MaxJob \in Nat /\ MaxShares \in Nat
    /\ MaxPastJobs \in Nat \ {0} /\ InitialCap \in Nat \ {0}
    /\ Diffs \subseteq Nat \ {0} /\ FirstDiff \in Diffs
    /\ TrustScore \in Nat
    /\ MayMisbehave \in BOOLEAN

JobId == 1 .. MaxJob
Task == 1 .. MaxShares
ConnJob == [id : JobId, template : 1 .. MaxTemplate, diff : Diffs]

\* What the PoW hash of a share is worth, and what the miner claims: nothing
\* (the hash is computed), the hash, or a wrong hash that looks worth it.
Worth == {"low", "share", "block"}
Claims == {"none", "hash", "wrong share", "wrong block"}

VARIABLES
    latest,    \* number of the newest template received from the daemon
    known,     \* LastKnownJob
    sending,   \* templates whose goroutine for this miner has not run yet
    jobs,      \* CData.Jobs without the nonces
    cap,       \* capacity of the Jobs slice
    nonces,    \* nonces[j]: SubmittedNonces of job j
    detached,  \* the reader's minerJob points into a replaced array
    nextDiff,  \* CData.NextDiff
    score,     \* CData.Score
    wallet,    \* CData.Wallet is set: the handshake was accepted
    leaked,    \* the mutex of CData was locked by a return without Unlock
    reader,    \* handleConn: "read", "found", "reply", "send", "closed"
    submitted, \* the share the reader is handling
    current,   \* the verification started for the packet being handled; 0: none
    kick,      \* shouldKick of the packet being handled
    toSend,    \* template in jobToSend of the packet being handled; 0: none
    snapshot,  \* Jobs and their capacity as read by the unlocked SendJob
    task,      \* task[i]: verification goroutine i
    sent,      \* history: jobs sent to the miner, in order
    daemon,    \* history: daemon[i]: what SubmitBlock said of share i, and
               \* whether SendBlockFound announced it
    raced,     \* history: a template arrived while a packet or another template
               \* was being handled
    unserved   \* history: the handshake met no template

jobVars == <<jobs, cap, sent>>
readerVars == <<reader, submitted, current, kick, toSend, snapshot, detached>>
templateVars == <<latest, known, sending, raced>>
vars == <<latest, known, sending, jobs, cap, nonces, detached, nextDiff, score, wallet,
          leaked, reader, submitted, current, kick, toSend, snapshot, task, sent, daemon,
          raced, unserved>>

NoShare == [job |-> 0, nonce |-> 0]
NoTask == [at |-> "none", job |-> 0, nonce |-> 0, worth |-> "low", claim |-> "none"]
Stages == {"none", "verify", "punish", "credit", "block", "retry", "adjust", "credited", "refused"}

TypeOK ==
    /\ latest \in 0 .. MaxTemplate /\ known \in 0 .. MaxTemplate
    /\ sending \subseteq 1 .. MaxTemplate
    /\ jobs \in Seq(ConnJob) /\ Len(jobs) <= MaxPastJobs
    /\ cap \in Nat /\ Len(jobs) <= cap
    /\ \A j \in JobId : nonces[j] \subseteq Nonces
    /\ nextDiff \in Diffs /\ score \in -TrustScore .. MaxShares
    /\ {wallet, leaked, kick, detached, raced, unserved} \subseteq BOOLEAN
    /\ reader \in {"read", "found", "reply", "send", "closed"}
    /\ current \in 0 .. MaxShares /\ toSend \in 0 .. MaxTemplate
    /\ \A i \in Task : task[i].at \in Stages

\* The first template may not be stored yet, its jobs handed out before the miner
\* was listed.
Init ==
    /\ latest = FirstTemplate /\ known \in {0, FirstTemplate} /\ sending = {}
    /\ jobs = << >> /\ cap = InitialCap /\ sent = << >>
    /\ nonces = [j \in JobId |-> {}]
    /\ nextDiff = FirstDiff /\ score = 0 /\ wallet = FALSE /\ leaked = FALSE
    /\ reader = "read" /\ submitted = NoShare /\ current = 0 /\ kick = FALSE
    /\ toSend = 0 /\ snapshot = [jobs |-> << >>, cap |-> 0] /\ detached = FALSE
    /\ task = [i \in Task |-> NoTask]
    /\ daemon = [i \in Task |-> [accepted |-> FALSE, announced |-> FALSE]]
    /\ raced = FALSE /\ unserved = FALSE

\* The reader is handling a packet.
Window == reader \in {"found", "reply", "send"}
\* Template handling is not between two of its steps.
Settled == known = latest /\ sending = {}

-----------------------------------------------------------------------------
(* Jobs.                                                                   *)

\* append, which reallocates a full slice, and the slide past MAX_PAST_JOBS.
Appended(old, job) ==
    LET all == Append(old.jobs, job)
        room == IF Len(old.jobs) = old.cap THEN 2 * old.cap ELSE old.cap
        long == Len(all) > MaxPastJobs
    IN  [jobs |-> IF long THEN Tail(all) ELSE all,
         cap |-> IF long THEN room - 1 ELSE room]

\* SendJob: the new job joins Jobs as they were read into `old`.
SendJob(old, template) ==
    /\ Len(sent) < MaxJob
    /\ LET job == [id |-> Len(sent) + 1, template |-> template, diff |-> nextDiff]
       IN  /\ jobs' = Appended(old, job).jobs
           /\ cap' = Appended(old, job).cap
           /\ sent' = Append(sent, job)

\* Mutant of NewTemplate: the miners are not told.
NewTemplateSilent ==
    /\ latest < MaxTemplate
    /\ raced' = (raced \/ Window \/ ~Settled)
    /\ latest' = latest + 1
    /\ UNCHANGED <<known, sending, jobVars, nonces, nextDiff, score, wallet, unserved, leaked, readerVars,
                   task, daemon>>

\* getworkConn receives a template: sendJobs starts a goroutine for the miner.
NewTemplate ==
    /\ latest < MaxTemplate
    /\ raced' = (raced \/ Window \/ ~Settled)
    /\ latest' = latest + 1
    /\ sending' = sending \cup {latest + 1}
    /\ UNCHANGED <<known, jobVars, nonces, nextDiff, score, wallet, unserved, leaked, readerVars, task, daemon>>

\* The same goroutine stores LastKnownJob after it has started the others.
StoreTemplate ==
    /\ known # latest
    /\ known' = latest
    /\ UNCHANGED <<latest, sending, raced, jobVars, nonces, nextDiff, score, wallet, unserved, leaked, readerVars,
                   task, daemon>>

\* The goroutine of sendJobs, with the mutex.  LastJob().Diff = 0 means that
\* the miner has no job yet.
SendTemplate(t) ==
    /\ t \in sending /\ ~leaked
    /\ sending' = sending \ {t}
    /\ IF jobs = << >>
       THEN UNCHANGED <<jobVars, detached>>
       ELSE /\ SendJob([jobs |-> jobs, cap |-> cap], t)
            /\ detached' = (detached \/ (reader = "found" /\ Len(jobs) = cap))
    /\ UNCHANGED <<latest, known, raced, nonces, nextDiff, score, wallet, unserved, leaked, reader, submitted,
                   current, kick, toSend, snapshot, task, daemon>>

\* sendJobs disconnects a miner without a share for 10 minutes; its reader is
\* waiting for a packet.
KickIdle(t) ==
    /\ t \in sending /\ ~leaked /\ jobs # << >> /\ reader = "read"
    /\ sending' = sending \ {t}
    /\ reader' = "closed"
    /\ UNCHANGED <<latest, known, raced, jobVars, nonces, nextDiff, score, wallet, unserved, leaked, submitted,
                   current, kick, toSend, snapshot, detached, task, daemon>>

-----------------------------------------------------------------------------
(* handleConn() and handleConnPacket(): one packet after the other.        *)

\* The reader takes the next packet.
Read == reader = "read" /\ raced' = (raced \/ ~Settled)

\* Mutant of Handshake: no job is put into jobToSend.
HandshakeWithoutJob(diff) ==
    /\ Read /\ ~leaked /\ ~wallet
    /\ wallet' = TRUE
    /\ nextDiff' = diff
    /\ toSend' = 0
    /\ unserved' = (known = 0)
    /\ reader' = "reply" /\ kick' = FALSE /\ current' = 0
    /\ UNCHANGED <<latest, known, sending, jobVars, nonces, score, leaked, submitted, snapshot,
                   detached, task, daemon>>

\* The handshake stores the wallet and puts LastKnownJob into jobToSend; the
\* address may name a difficulty.
Handshake(diff) ==
    /\ Read /\ ~leaked /\ ~wallet
    /\ wallet' = TRUE
    /\ nextDiff' = diff
    /\ toSend' = known
    /\ unserved' = (known = 0)
    /\ reader' = "reply" /\ kick' = FALSE /\ current' = 0
    /\ UNCHANGED <<latest, known, sending, jobVars, nonces, score, leaked, submitted, snapshot,
                   detached, task, daemon>>

\* A packet that handleConnPacket refuses before it takes the mutex, or a
\* handshake refused after NextDiff was taken from its address.
RefusePacket(diff) ==
    /\ MayMisbehave
    /\ Read
    /\ nextDiff' = diff /\ (wallet => diff = nextDiff)
    /\ reader' = "reply" /\ kick' = TRUE /\ current' = 0 /\ toSend' = 0
    /\ UNCHANGED <<latest, known, sending, jobVars, nonces, score, wallet, unserved, leaked,
                   submitted, snapshot, detached, task, daemon>>

\* A wrong pool nonce or a blank job id: a return with the mutex locked.
RefuseLocked ==
    /\ MayMisbehave
    /\ Read /\ ~leaked /\ wallet
    /\ leaked' = TRUE
    /\ reader' = "reply" /\ kick' = TRUE /\ current' = 0 /\ toSend' = 0
    /\ UNCHANGED <<latest, known, sending, jobVars, nonces, nextDiff, score, wallet, unserved, submitted, snapshot,
                   detached, task, daemon>>

InJobs(j) == \E i \in 1 .. Len(jobs) : jobs[i].id = j

\* A share for a job that is no longer, or not, in Jobs is stale.
SubmitStale(j) ==
    /\ Read /\ ~leaked /\ wallet /\ j <= Len(sent) /\ ~InJobs(j)
    /\ reader' = "reply" /\ kick' = FALSE /\ current' = 0 /\ toSend' = 0
    /\ UNCHANGED <<latest, known, sending, jobVars, nonces, nextDiff, score, wallet, unserved, leaked, submitted,
                   snapshot, detached, task, daemon>>

\* minerJob points to the job; the mutex is unlocked.
Submit(j, n) ==
    /\ Read /\ ~leaked /\ wallet /\ j <= Len(sent) /\ InJobs(j)
    /\ reader' = "found" /\ submitted' = [job |-> j, nonce |-> n] /\ detached' = FALSE
    /\ kick' = FALSE /\ current' = 0 /\ toSend' = 0
    /\ UNCHANGED <<latest, known, sending, jobVars, nonces, nextDiff, score, wallet, unserved, leaked, snapshot,
                   task, daemon>>

\* The nonce was submitted before, or the share is for another work hash.
RefuseShare ==
    /\ reader = "found" /\ ~leaked
    /\ submitted.nonce \in nonces[submitted.job] \/ MayMisbehave
    /\ reader' = "reply" /\ submitted' = NoShare
    /\ UNCHANGED <<templateVars, jobVars, nonces, nextDiff, score, wallet, unserved, leaked, current, kick,
                   toSend, snapshot, detached, task, daemon>>

\* Mutant of RecordNonce: checked and not recorded.
RecordNonceNever ==
    /\ submitted.nonce \notin nonces[submitted.job]
    /\ UNCHANGED nonces

\* The nonce is recorded through the pointer; in a replaced array it is lost.
RecordNonce ==
    /\ submitted.nonce \notin nonces[submitted.job]
    /\ nonces' = IF detached THEN nonces
                 ELSE [nonces EXCEPT ![submitted.job] = @ \cup {submitted.nonce}]

\* The timestamp is refused after the nonce was recorded.
RefuseTimestamp ==
    /\ MayMisbehave
    /\ reader = "found"
    /\ RecordNonce
    /\ reader' = "reply" /\ submitted' = NoShare /\ kick' = TRUE
    /\ UNCHANGED <<templateVars, jobVars, nextDiff, score, wallet, unserved, leaked, current, toSend,
                   snapshot, detached, task, daemon>>

\* A verification goroutine is started, with the pointer minerJob, and the share
\* answered as accepted.  What the true hash of a wrong one is worth plays no part.
AcceptShare(i, worth, claim) ==
    /\ reader = "found"
    /\ task[i].at = "none" /\ \A h \in Task : h < i => task[h].at # "none"
    /\ claim \in {"none", "hash"} \/ (MayMisbehave /\ worth = "low")
    /\ RecordNonce
    /\ task' = [task EXCEPT ![i] =
           [at |-> "verify", job |-> submitted.job, nonce |-> submitted.nonce,
            worth |-> worth, claim |-> claim]]
    /\ reader' = "reply" /\ submitted' = NoShare /\ current' = i
    /\ UNCHANGED <<templateVars, jobVars, nextDiff, score, wallet, unserved, leaked, kick, toSend,
                   snapshot, detached, daemon>>

\* The answer is written, with the mutex; then the miner is kicked, or Jobs are
\* read by a SendJob that does not take the mutex, or the next packet is read.
Reply ==
    /\ reader = "reply" /\ ~leaked
    /\ reader' = IF kick THEN "closed" ELSE IF toSend # 0 THEN "send" ELSE "read"
    /\ snapshot' = IF ~kick /\ toSend # 0 THEN [jobs |-> jobs, cap |-> cap] ELSE snapshot
    /\ current' = 0
    /\ UNCHANGED <<templateVars, jobVars, nonces, nextDiff, score, wallet, unserved, leaked, submitted,
                   kick, toSend, detached, task, daemon>>

SendUnlocked ==
    /\ reader = "send"
    /\ SendJob(snapshot, toSend)
    /\ reader' = "read" /\ toSend' = 0 /\ snapshot' = [jobs |-> << >>, cap |-> 0]
    /\ UNCHANGED <<templateVars, nonces, nextDiff, score, wallet, unserved, leaked, submitted, current,
                   kick, detached, task, daemon>>

-----------------------------------------------------------------------------
(* The verification goroutine.                                             *)

Become(i, stage) == task' = [task EXCEPT ![i].at = stage]
\* The share is considered valid; powHash is now the hash, given or computed.
CountShare(i) ==
    task' = [task EXCEPT ![i].at = "credit",
                         ![i].claim = IF @ = "none" THEN "hash" ELSE @]
\* The goroutine returns without a share.
Refuse(i) == task' = [task EXCEPT ![i] = [NoTask EXCEPT !.at = "refused"]]

LooksWorth(i) ==
    CASE task[i].claim = "wrong share" -> "share"
      [] task[i].claim = "wrong block" -> "block"
      [] OTHER -> task[i].worth
Wrong(i) == task[i].claim \in {"wrong share", "wrong block"}

\* Mutant of MustCheck: blocks of trusted sessions pass.
MustCheckUntrusted(i) == score < TrustScore

\* Mutant of MustCheck: trusted one share too soon.
MustCheckTooShort(i) == LooksWorth(i) = "block" \/ score + 1 < TrustScore

\* A given hash is computed again when it finds a block, when the session is
\* not trusted, and by chance.
MustCheck(i) == LooksWorth(i) = "block" \/ score < TrustScore

\* Too little work or a wrong hash found out is punished.  The return without it
\* is for a given hash with too little work, a hash that cannot be computed and
\* the blank one.
Verify(i) ==
    /\ task[i].at = "verify"
    /\ \/ Refuse(i)
       \/ LooksWorth(i) = "low" /\ task[i].claim = "none" /\ Become(i, "punish")
       \/ LooksWorth(i) # "low" /\ Wrong(i) /\ Become(i, "punish")
       \/ LooksWorth(i) # "low" /\ (Wrong(i) => ~MustCheck(i)) /\ CountShare(i)
    /\ UNCHANGED <<templateVars, jobVars, nonces, nextDiff, score, wallet, unserved, leaked, readerVars, daemon>>

Punish(i) ==
    /\ task[i].at = "punish" /\ ~leaked
    /\ score' = -TrustScore
    /\ Refuse(i)
    /\ UNCHANGED <<templateVars, jobVars, nonces, nextDiff, wallet, unserved, leaked, readerVars, daemon>>

\* Score, NextDiff and LastShare, then SendShare(Wallet, minerJob.Diff).
Credit(i, diff) ==
    /\ task[i].at = "credit" /\ ~leaked
    /\ score' = score + 1
    /\ nextDiff' = diff
    /\ Become(i, IF LooksWorth(i) = "block" THEN "block" ELSE "adjust")
    /\ UNCHANGED <<templateVars, jobVars, nonces, wallet, unserved, leaked, readerVars, daemon>>

SubmitBlock(i, ok) ==
    /\ task[i].at = "block"
    /\ daemon' = [daemon EXCEPT ![i] = [accepted |-> ok, announced |-> ok]]
    /\ Become(i, IF ok THEN "adjust" ELSE "retry")
    /\ UNCHANGED <<templateVars, jobVars, nonces, nextDiff, score, wallet, unserved, leaked, readerVars>>

\* Five seconds later; SendBlockFound is called when the second try fails.
Resubmit(i, ok) ==
    /\ task[i].at = "retry"
    /\ daemon' = [daemon EXCEPT ![i] = [accepted |-> ok, announced |-> ~ok]]
    /\ Become(i, "credited")
    /\ UNCHANGED <<templateVars, jobVars, nonces, nextDiff, score, wallet, unserved, leaked, readerVars>>

LastJob == jobs[Len(jobs)]
TooFar ==
    /\ jobs # << >>
    /\ nextDiff > 4 * LastJob.diff \/ 2 * nextDiff < LastJob.diff

\* Mutant of Adjust: waits for the reader, which may have gone on.
AdjustWaits(i) ==
    /\ task[i].at = "adjust" /\ ~leaked /\ current = i
    /\ toSend' = IF TooFar THEN LastJob.template ELSE toSend
    /\ Become(i, "credited")
    /\ UNCHANGED <<templateVars, jobVars, nonces, nextDiff, score, wallet, unserved, leaked, reader,
                   submitted, current, kick, snapshot, detached, daemon>>

\* jobToSend is filled; the reader may have looked at it before.
Adjust(i) ==
    /\ task[i].at = "adjust" /\ ~leaked
    /\ toSend' = IF TooFar /\ current = i THEN LastJob.template ELSE toSend
    /\ Become(i, "credited")
    /\ UNCHANGED <<templateVars, jobVars, nonces, nextDiff, score, wallet, unserved, leaked, reader,
                   submitted, current, kick, snapshot, detached, daemon>>

-----------------------------------------------------------------------------
Reader ==
    \/ \E diff \in Diffs : Handshake(diff) \/ RefusePacket(diff)
    \/ RefuseLocked
    \/ \E j \in JobId : SubmitStale(j) \/ \E n \in Nonces : Submit(j, n)
    \/ RefuseShare
    \/ RefuseTimestamp
    \/ \E i \in Task, worth \in Worth, claim \in Claims : AcceptShare(i, worth, claim)
    \/ Reply
    \/ SendUnlocked

Verification(i) ==
    \/ Verify(i)
    \/ Punish(i)
    \/ \E diff \in Diffs : Credit(i, diff)
    \/ \E ok \in BOOLEAN : SubmitBlock(i, ok) \/ Resubmit(i, ok)
    \/ Adjust(i)

Next ==
    \/ NewTemplate
    \/ StoreTemplate
    \/ \E t \in 1 .. MaxTemplate : SendTemplate(t) \/ KickIdle(t)
    \/ Reader
    \/ \E i \in Task : Verification(i)

\* Every goroutine that can run goes on; the miner need not do anything, and
\* the daemon need not send templates.
Fairness ==
    /\ WF_vars(Reply) /\ WF_vars(SendUnlocked)
    /\ \A i \in Task : WF_vars(Verification(i))

Spec == Init /\ [][Next]_vars
FairSpec == Spec /\ Fairness

-----------------------------------------------------------------------------
(* Properties.                                                             *)

Credited == {i \in Task : task[i].at \in {"block", "retry", "adjust", "credited"}}

\* A nonce of a job is credited once, however often it is submitted and
\* although its verification runs long after the nonce was looked up
\* ("validate nonce", "duplicate nonce", handler.go:273-284).
NonceOnce ==
    \A i, j \in Credited :
        task[i].job = task[j].job /\ task[i].nonce = task[j].nonce => i = j

\* The same as long as no template arrives while a packet is handled: then the
\* pointer into Jobs stays valid after the mutex is unlocked.
NonceOnceUnlessRaced == raced \/ NonceOnce

\* A block reaches the daemon only if its PoW was really computed, also for a
\* trusted session whose other shares are not checked (handler.go:345-376).
BlocksVerified ==
    \A i \in Task :
        daemon[i].accepted \/ daemon[i].announced \/ task[i].at \in {"block", "retry"}
            => task[i].worth = "block" /\ ~Wrong(i)

\* A wrong hash counts as a share only in a session that has earned its trust:
\* TrustScore of its shares were right and are credited by then, whatever number
\* of verifications, punishments and packets overlap (handler.go:345-378).
TrustIsEarned ==
    (\E i \in Credited : Wrong(i))
        => Cardinality({i \in Credited : ~Wrong(i)}) >= TrustScore

\* Outside the handling of a template or a packet the miner works on the newest
\* template, unless one arrived while a packet or a template was handled.
WorksOnLatest ==
    ~raced /\ Settled /\ reader = "read" /\ jobs # << >> => LastJob.template = latest

\* "send first job" (handler.go:145): a miner that has shaken hands gets a job or
\* is disconnected, also when templates arrive meanwhile; but not one whose
\* handshake met no template: sendJobs takes it for one without a handshake and
\* skips it for ever (daemon_conn.go:183).
FirstJobArrives == wallet ~> (jobs # << >> \/ reader = "closed" \/ unserved)

\* Every share that was answered as accepted is credited or refused in the end,
\* unless a refused packet left the mutex locked.
EventuallyDecided ==
    \A i \in Task :
        task[i].at = "verify" ~> task[i].at \in {"credited", "refused"} \/ leaked
=============================================================================
