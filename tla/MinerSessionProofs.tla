------------------------- MODULE MinerSessionProofs -------------------------
(***************************************************************************)
(* Machine-checked proofs about MinerSession, for every number of          *)
(* templates, jobs, shares and nonces and every length of Jobs: what the   *)
(* daemon is given was verified, a wrong hash counts only after TrustScore *)
(* right ones, and as long as no template meets a packet a nonce counts    *)
(* once and the miner works on the newest template.                        *)
(***************************************************************************)
EXTENDS MinerSession, FiniteSetTheorems, SequenceTheorems, TLAPS

TaskRecord ==
    [at : Stages, job : 0 .. MaxJob, nonce : Nonces \cup {0}, worth : Worth, claim : Claims]
Verdict == [accepted : BOOLEAN, announced : BOOLEAN]

\* A slice of at most MAX_PAST_JOBS jobs and a capacity that holds them.
Slice(j, c) ==
    /\ j \in Seq(ConnJob) /\ Len(j) <= MaxPastJobs
    /\ c \in Nat \ {0} /\ Len(j) <= c

\* The variables of the daemon's templates.
TemplateType ==
    /\ latest \in 0 .. MaxTemplate /\ known \in 0 .. MaxTemplate
    /\ sending \subseteq 1 .. MaxTemplate /\ raced \in BOOLEAN

\* The variables of the session: jobs are numbered in the order they are sent.
SessionType ==
    /\ Slice(jobs, cap)
    /\ sent \in Seq(ConnJob) /\ Len(sent) <= MaxJob
    /\ nonces \in [JobId -> SUBSET Nonces]
    /\ nextDiff \in Diffs
    /\ wallet \in BOOLEAN /\ leaked \in BOOLEAN /\ unserved \in BOOLEAN

\* The variables of the reader.  It looks at jobToSend only between answering
\* a packet and reading the next one.
ReaderType ==
    /\ reader \in {"read", "found", "reply", "send", "closed"}
    /\ kick \in BOOLEAN /\ detached \in BOOLEAN
    /\ current \in 0 .. MaxShares /\ toSend \in 0 .. MaxTemplate
    /\ current # 0 => reader = "reply"
    /\ reader = "found" => submitted.job \in 1 .. Len(sent) /\ submitted.nonce \in Nonces
    /\ reader = "send" => toSend # 0 /\ Slice(snapshot.jobs, snapshot.cap)

\* The verification goroutines.
TaskType == task \in [Task -> TaskRecord] /\ daemon \in [Task -> Verdict]

\* Every point of the score was given for a share that was credited.
ScoreEarned == score \in Int /\ -TrustScore <= score /\ score <= Cardinality(Credited)

MType == TemplateType /\ SessionType /\ ReaderType /\ TaskType /\ ScoreEarned

\* What SendJob leaves in Jobs: a slice again, with the new job at its end.
LEMMA AppendedSlice ==
    ASSUME NEW old, Slice(old.jobs, old.cap), NEW job \in ConnJob
    PROVE  /\ Slice(Appended(old, job).jobs, Appended(old, job).cap)
           /\ Appended(old, job).jobs # << >>
           /\ Appended(old, job).jobs[Len(Appended(old, job).jobs)] = job
<1> DEFINE all == Append(old.jobs, job)
           room == IF Len(old.jobs) = old.cap THEN 2 * old.cap ELSE old.cap
           n == Len(old.jobs)
<1>1. /\ old.jobs \in Seq(ConnJob) /\ n \in Nat /\ n <= MaxPastJobs
      /\ old.cap \in Nat \ {0} /\ n <= old.cap /\ MaxPastJobs \in Nat \ {0}
    BY SessionAssumption DEF Slice
<1>2. all \in Seq(ConnJob) /\ Len(all) = n + 1 /\ all[n + 1] = job
    BY <1>1, AppendProperties
<1>3. room \in Nat /\ n + 1 <= room
    BY <1>1
<1>4. /\ Appended(old, job).jobs = IF Len(all) > MaxPastJobs THEN Tail(all) ELSE all
      /\ Appended(old, job).cap = IF Len(all) > MaxPastJobs THEN room - 1 ELSE room
    BY DEF Appended
<1> HIDE DEF all, room, n
<1>5. CASE Len(all) > MaxPastJobs
  <2>1. n = MaxPastJobs /\ n >= 1
    BY <1>1, <1>2, <1>5
  <2> DEFINE rest == Tail(all)
  <2>2. all # << >>
    BY <1>1, <1>2, <2>1
  <2>3. /\ rest \in Seq(ConnJob) /\ Len(rest) = Len(all) - 1
        /\ \A i \in 1 .. Len(rest) : rest[i] = all[i + 1]
    BY <1>2, <2>2, HeadTailProperties
  <2> HIDE DEF rest
  <2>4. Len(rest) = n
    BY <1>1, <1>2, <2>3
  <2>5. rest[n] = job
    BY <1>1, <1>2, <2>1, <2>3, <2>4
  <2>6. rest # << >>
    BY <2>1, <2>4
  <2>7. Appended(old, job).jobs = rest /\ Appended(old, job).cap = room - 1
    BY <1>4, <1>5 DEF rest
  <2>8. room - 1 \in Nat \ {0} /\ n <= room - 1
    BY <1>1, <1>3, <2>1
  <2>9. QED
    BY <1>1, <2>3, <2>4, <2>5, <2>6, <2>7, <2>8 DEF Slice
<1>6. CASE ~(Len(all) > MaxPastJobs)
  <2>1. all # << >>
    BY <1>1, <1>2
  <2>2. QED
    BY <1>1, <1>2, <1>3, <1>4, <1>6, <2>1 DEF Slice
<1>7. QED
    BY <1>5, <1>6

\* What SendJob does to the session.
LEMMA SentJob ==
    ASSUME SessionType, NEW old, Slice(old.jobs, old.cap), NEW t \in 1 .. MaxTemplate,
           SendJob(old, t)
    PROVE  /\ Slice(jobs', cap') /\ jobs' # << >> /\ jobs'[Len(jobs')].template = t
           /\ sent' \in Seq(ConnJob) /\ Len(sent') = Len(sent) + 1 /\ Len(sent') <= MaxJob
           /\ \A i \in 1 .. Len(sent) : sent'[i] = sent[i]
<1> DEFINE job == [id |-> Len(sent) + 1, template |-> t, diff |-> nextDiff]
<1>1. sent \in Seq(ConnJob) /\ Len(sent) \in Nat /\ MaxJob \in Nat /\ nextDiff \in Diffs
    BY SessionAssumption DEF SessionType
<1>2. Len(sent) < MaxJob /\ sent' = Append(sent, job)
      /\ jobs' = Appended(old, job).jobs /\ cap' = Appended(old, job).cap
    BY DEF SendJob
<1>3. job \in ConnJob /\ job.template = t
    BY <1>1, <1>2 DEF ConnJob, JobId
<1> HIDE DEF job
<1>4. Slice(jobs', cap') /\ jobs' # << >> /\ jobs'[Len(jobs')] = job
    BY <1>2, <1>3, AppendedSlice
<1>5. /\ sent' \in Seq(ConnJob) /\ Len(sent') = Len(sent) + 1
      /\ \A i \in 1 .. Len(sent) : sent'[i] = sent[i]
    BY <1>1, <1>2, <1>3, AppendProperties
<1>6. QED
    BY <1>1, <1>2, <1>3, <1>4, <1>5
-----------------------------------------------------------------------------
(* Every step keeps the types.                                             *)

\* The steps of the reader that take a packet.
TakesPacket ==
    \/ \E diff \in Diffs : Handshake(diff) \/ RefusePacket(diff)
    \/ RefuseLocked
    \/ \E j \in JobId : SubmitStale(j) \/ \E n \in Nonces : Submit(j, n)

LEMMA NextTemplateType == MType /\ [Next]_vars => TemplateType'
<1> SUFFICES ASSUME TemplateType, [Next]_vars PROVE TemplateType'
    BY DEF MType
<1>1. CASE NewTemplate
    BY <1>1, SessionAssumption DEF NewTemplate, TemplateType
<1>2. CASE StoreTemplate
    BY <1>2 DEF StoreTemplate, TemplateType
<1>3. ASSUME NEW t \in 1 .. MaxTemplate, SendTemplate(t) \/ KickIdle(t) PROVE TemplateType'
    BY <1>3 DEF SendTemplate, KickIdle, TemplateType
<1>4. CASE TakesPacket
  <2>1. UNCHANGED <<latest, known, sending>> /\ raced' \in BOOLEAN
    BY <1>4 DEF TakesPacket, Handshake, RefusePacket, RefuseLocked, SubmitStale, Submit, Read
  <2>2. QED
    BY <2>1 DEF TemplateType
<1>5. ASSUME UNCHANGED templateVars PROVE TemplateType'
    BY <1>5 DEF templateVars, TemplateType
<1>6. CASE RefuseShare \/ RefuseTimestamp \/ Reply \/ SendUnlocked
    BY <1>5, <1>6 DEF RefuseShare, RefuseTimestamp, Reply, SendUnlocked
<1>7. ASSUME NEW i \in Task, NEW worth \in Worth, NEW claim \in Claims, AcceptShare(i, worth, claim)
      PROVE  TemplateType'
    BY <1>5, <1>7 DEF AcceptShare
<1>8. ASSUME NEW i \in Task, Verification(i) PROVE TemplateType'
    BY <1>5, <1>8 DEF Verification, Verify, Punish, Credit, SubmitBlock, Resubmit, Adjust
<1>9. CASE UNCHANGED vars
    BY <1>5, <1>9 DEF vars, templateVars
<1>10. QED
    BY <1>1, <1>2, <1>3, <1>4, <1>6, <1>7, <1>8, <1>9 DEF Next, Reader, TakesPacket

\* The jobs stay a slice and the list of jobs sent only grows.
LEMMA NextSessionType ==
    MType /\ [Next]_vars
      => SessionType' /\ Len(sent) <= Len(sent') /\ \A j \in 1 .. Len(sent) : sent'[j] = sent[j]
<1> SUFFICES ASSUME MType, [Next]_vars
             PROVE  /\ SessionType' /\ Len(sent) <= Len(sent')
                    /\ \A j \in 1 .. Len(sent) : sent'[j] = sent[j]
    OBVIOUS
<1> DEFINE Goal == /\ SessionType' /\ Len(sent) <= Len(sent')
                   /\ \A j \in 1 .. Len(sent) : sent'[j] = sent[j]
<1>0. /\ SessionType /\ TemplateType /\ ReaderType
      /\ Len(sent) \in Nat /\ nonces \in [JobId -> SUBSET Nonces] /\ nextDiff \in Diffs
      /\ wallet \in BOOLEAN /\ leaked \in BOOLEAN /\ unserved \in BOOLEAN /\ Len(sent) <= MaxJob /\ MaxJob \in Nat
    BY SessionAssumption DEF MType, SessionType
<1>1. ASSUME UNCHANGED jobVars, nonces' \in [JobId -> SUBSET Nonces], nextDiff' \in Diffs,
             wallet' \in BOOLEAN, leaked' \in BOOLEAN, unserved' \in BOOLEAN
      PROVE  Goal
    BY <1>0, <1>1 DEF jobVars, SessionType
<1>2. ASSUME NEW old, Slice(old.jobs, old.cap), NEW t \in 1 .. MaxTemplate, SendJob(old, t),
             UNCHANGED <<nonces, nextDiff, wallet, leaked, unserved>>
      PROVE  Goal
  <2>1. /\ Slice(jobs', cap') /\ sent' \in Seq(ConnJob) /\ Len(sent') = Len(sent) + 1
        /\ Len(sent') <= MaxJob /\ \A i \in 1 .. Len(sent) : sent'[i] = sent[i]
    BY <1>0, <1>2, SentJob
  <2>2. QED
    BY <1>0, <1>2, <2>1 DEF SessionType
<1>3. ASSUME NEW t \in 1 .. MaxTemplate, SendTemplate(t) PROVE Goal
  <2>1. CASE jobs = << >>
    BY <1>0, <1>1, <1>3, <2>1 DEF SendTemplate
  <2>2. CASE jobs # << >>
    <3>1. SendJob([jobs |-> jobs, cap |-> cap], t) /\ UNCHANGED <<nonces, nextDiff, wallet, leaked, unserved>>
      BY <1>3, <2>2 DEF SendTemplate
    <3>2. Slice([jobs |-> jobs, cap |-> cap].jobs, [jobs |-> jobs, cap |-> cap].cap)
      BY <1>0 DEF SessionType
    <3>3. QED
      BY <1>2, <3>1, <3>2
  <2>3. QED
    BY <2>1, <2>2
<1>4. CASE SendUnlocked
  <2>1. SendJob(snapshot, toSend) /\ UNCHANGED <<nonces, nextDiff, wallet, leaked, unserved>>
    BY <1>4 DEF SendUnlocked
  <2>2. Slice(snapshot.jobs, snapshot.cap) /\ toSend \in 1 .. MaxTemplate
    BY <1>0, <1>4, SessionAssumption DEF SendUnlocked, ReaderType
  <2>3. QED
    BY <1>2, <2>1, <2>2
<1>5. ASSUME reader = "found", RecordNonce PROVE nonces' \in [JobId -> SUBSET Nonces]
  <2>1. submitted.job \in JobId /\ submitted.nonce \in Nonces
    BY <1>0, <1>5 DEF ReaderType, JobId
  <2>2. QED
    BY <1>0, <1>5, <2>1 DEF RecordNonce
<1>6. CASE RefuseTimestamp
    BY <1>0, <1>1, <1>5, <1>6 DEF RefuseTimestamp
<1>7. ASSUME NEW i \in Task, NEW worth \in Worth, NEW claim \in Claims, AcceptShare(i, worth, claim)
      PROVE  Goal
    BY <1>0, <1>1, <1>5, <1>7 DEF AcceptShare
<1>8. CASE NewTemplate \/ StoreTemplate \/ RefuseShare \/ Reply
    BY <1>0, <1>1, <1>8 DEF NewTemplate, StoreTemplate, RefuseShare, Reply
<1>9. ASSUME NEW t \in 1 .. MaxTemplate, KickIdle(t) PROVE Goal
    BY <1>0, <1>1, <1>9 DEF KickIdle
<1>10. CASE TakesPacket
  <2>1. ASSUME NEW diff \in Diffs, Handshake(diff) PROVE Goal
    <3>1. unserved' \in BOOLEAN /\ wallet' \in BOOLEAN
      BY <2>1, Zenon DEF Handshake
    <3>2. UNCHANGED <<jobVars, nonces, leaked>> /\ nextDiff' \in Diffs
      BY <2>1 DEF Handshake
    <3>3. QED
      BY <1>0, <1>1, <3>1, <3>2
  <2>2. ASSUME NEW diff \in Diffs, RefusePacket(diff) PROVE Goal
    BY <1>0, <1>1, <2>2 DEF RefusePacket
  <2>3. CASE RefuseLocked \/ \E j \in JobId : SubmitStale(j) \/ \E n \in Nonces : Submit(j, n)
    BY <1>0, <1>1, <2>3 DEF RefuseLocked, SubmitStale, Submit
  <2>4. QED
    BY <1>10, <2>1, <2>2, <2>3 DEF TakesPacket
<1>11. ASSUME NEW i \in Task, Verification(i) PROVE Goal
    BY <1>0, <1>1, <1>11 DEF Verification, Verify, Punish, Credit, SubmitBlock, Resubmit, Adjust
<1>12. CASE UNCHANGED vars
    BY <1>0, <1>1, <1>12 DEF vars, jobVars
<1>13. QED
    BY <1>3, <1>4, <1>6, <1>7, <1>8, <1>9, <1>10, <1>11, <1>12 DEF Next, Reader, TakesPacket

LEMMA NextReaderType == MType /\ [Next]_vars => ReaderType'
<1> SUFFICES ASSUME MType, [Next]_vars PROVE ReaderType'
    OBVIOUS
<1>0. /\ reader \in {"read", "found", "reply", "send", "closed"}
      /\ kick \in BOOLEAN /\ detached \in BOOLEAN
      /\ current \in 0 .. MaxShares /\ toSend \in 0 .. MaxTemplate
      /\ current # 0 => reader = "reply"
      /\ reader = "found" => submitted.job \in 1 .. Len(sent) /\ submitted.nonce \in Nonces
      /\ reader = "send" => toSend # 0 /\ Slice(snapshot.jobs, snapshot.cap)
    BY DEF MType, ReaderType
<1>1. /\ Len(sent) \in Nat /\ Len(sent') \in Nat /\ Len(sent) <= Len(sent')
    BY NextSessionType DEF MType, SessionType
<1>2. MaxShares \in Nat /\ MaxTemplate \in Nat /\ known \in 0 .. MaxTemplate /\ Slice(jobs, cap)
    BY SessionAssumption DEF MType, TemplateType, SessionType
\* The reader stays where it is.
<1>3. ASSUME UNCHANGED <<reader, submitted, current, kick, toSend, snapshot>>, detached' \in BOOLEAN
      PROVE  ReaderType'
    BY <1>0, <1>1, <1>3 DEF ReaderType
<1>4. ASSUME reader' \in {"read", "reply", "closed"}, kick' \in BOOLEAN, detached' = detached,
             current' \in 0 .. MaxShares, toSend' \in 0 .. MaxTemplate,
             current' # 0 => reader' = "reply"
      PROVE  ReaderType'
    BY <1>0, <1>4 DEF ReaderType
<1>5. CASE NewTemplate \/ StoreTemplate \/ UNCHANGED vars
    BY <1>0, <1>3, <1>5 DEF NewTemplate, StoreTemplate, vars, readerVars
<1>6. ASSUME NEW t \in 1 .. MaxTemplate, SendTemplate(t) PROVE ReaderType'
  <2>1. UNCHANGED <<reader, submitted, current, kick, toSend, snapshot>>
    BY <1>6 DEF SendTemplate
  <2>2. detached' \in BOOLEAN
    <3>1. detached' = detached \/ detached' = (detached \/ (reader = "found" /\ Len(jobs) = cap))
      BY <1>6 DEF SendTemplate
    <3>2. QED
      BY <1>0, <3>1, Zenon
  <2>3. QED
    BY <1>3, <2>1, <2>2
<1>7. ASSUME NEW t \in 1 .. MaxTemplate, KickIdle(t) PROVE ReaderType'
    BY <1>0, <1>4, <1>7 DEF KickIdle
<1>8. CASE \/ \E diff \in Diffs : Handshake(diff) \/ RefusePacket(diff)
           \/ RefuseLocked \/ \E j \in JobId : SubmitStale(j)
  <2>1. reader' = "reply" /\ kick' \in BOOLEAN /\ detached' = detached /\ current' = 0
    BY <1>8 DEF Handshake, RefusePacket, RefuseLocked, SubmitStale
  <2>2. toSend' = 0 \/ toSend' = known
    BY <1>8 DEF Handshake, RefusePacket, RefuseLocked, SubmitStale
  <2>3. QED
    BY <1>2, <1>4, <2>1, <2>2
<1>9. ASSUME NEW j \in JobId, NEW n \in Nonces, Submit(j, n) PROVE ReaderType'
  <2>1. /\ reader' = "found" /\ kick' = FALSE /\ detached' = FALSE /\ current' = 0 /\ toSend' = 0
        /\ submitted' = [job |-> j, nonce |-> n] /\ j <= Len(sent)
    BY <1>9 DEF Submit
  <2>2. j \in 1 .. Len(sent')
    BY <1>1, <2>1, SessionAssumption DEF JobId
  <2>3. submitted'.job = j /\ submitted'.nonce = n
    BY <2>1
  <2>4. submitted'.job \in 1 .. Len(sent') /\ submitted'.nonce \in Nonces
    BY <2>2, <2>3
  <2>5. reader' = "found" /\ kick' \in BOOLEAN /\ detached' \in BOOLEAN
    BY <2>1, Zenon
  <2>6. current' = 0 /\ toSend' = 0 /\ 0 \in 0 .. MaxShares /\ 0 \in 0 .. MaxTemplate
    BY <1>2, <2>1
  <2>7. QED
    BY <2>4, <2>5, <2>6 DEF ReaderType
<1>10. CASE RefuseShare \/ RefuseTimestamp
    BY <1>0, <1>4, <1>10 DEF RefuseShare, RefuseTimestamp
<1>11. ASSUME NEW i \in Task, NEW worth \in Worth, NEW claim \in Claims, AcceptShare(i, worth, claim)
      PROVE  ReaderType'
    BY <1>0, <1>2, <1>4, <1>11 DEF AcceptShare, Task
<1>12. CASE Reply
  <2>1. CASE kick \/ toSend = 0
    BY <1>0, <1>2, <1>4, <1>12, <2>1 DEF Reply
  <2>2. CASE ~kick /\ toSend # 0
    <3>1. /\ reader' = "send" /\ snapshot' = [jobs |-> jobs, cap |-> cap] /\ current' = 0
          /\ UNCHANGED <<kick, toSend, detached>>
      BY <1>12, <2>2 DEF Reply
    <3>2. snapshot'.jobs = jobs /\ snapshot'.cap = cap
      BY <3>1
    <3>3. Slice(snapshot'.jobs, snapshot'.cap)
      BY <1>2, <3>2
    <3>4. QED
      BY <1>0, <1>2, <2>2, <3>1, <3>3 DEF ReaderType
  <2>3. QED
    BY <2>1, <2>2
<1>13. CASE SendUnlocked
    BY <1>0, <1>2, <1>4, <1>13 DEF SendUnlocked
<1>14. ASSUME NEW i \in Task, Adjust(i) PROVE ReaderType'
  <2>1. CASE TooFar /\ current = i
    <3>1. jobs # << >> /\ jobs \in Seq(ConnJob)
      BY <1>2, <2>1 DEF TooFar, Slice
    <3>2. LastJob \in ConnJob
      BY <3>1 DEF LastJob
    <3>3. LastJob.template \in 1 .. MaxTemplate
      BY <3>2 DEF ConnJob
    <3>4. reader = "reply"
      BY <1>0, <1>2, <2>1 DEF Task
    <3>5. /\ reader' = "reply" /\ UNCHANGED <<kick, detached, current>>
          /\ toSend' = LastJob.template
      BY <1>14, <2>1, <3>4 DEF Adjust
    <3>6. QED
      BY <1>0, <1>2, <1>4, <3>3, <3>5
  <2>2. CASE ~(TooFar /\ current = i)
    BY <1>0, <1>3, <1>14, <2>2 DEF Adjust
  <2>3. QED
    BY <2>1, <2>2
<1>15. ASSUME NEW i \in Task,
              \/ Verify(i) \/ Punish(i) \/ (\E diff \in Diffs : Credit(i, diff))
              \/ (\E ok \in BOOLEAN : SubmitBlock(i, ok) \/ Resubmit(i, ok))
       PROVE  ReaderType'
    BY <1>0, <1>3, <1>15 DEF Verify, Punish, Credit, SubmitBlock, Resubmit, readerVars
<1>16. QED
    BY <1>5, <1>6, <1>7, <1>8, <1>9, <1>10, <1>11, <1>12, <1>13, <1>14, <1>15
    DEF Next, Reader, Verification

\* What a step may do to the verifications: none moves, one starts, or one
\* goes on to its next stage.
Starts(i, worth, claim) ==
    /\ reader = "found" /\ task[i].at = "none"
    /\ task' = [task EXCEPT ![i] =
           [at |-> "verify", job |-> submitted.job, nonce |-> submitted.nonce,
            worth |-> worth, claim |-> claim]]

LEMMA TaskSteps ==
    ASSUME [Next]_vars
    PROVE  \/ UNCHANGED <<task, daemon, score>>
           \/ \E i \in Task, worth \in Worth, claim \in Claims :
                 AcceptShare(i, worth, claim) /\ Starts(i, worth, claim) /\ UNCHANGED <<daemon, score>>
           \/ \E i \in Task : Verification(i)
<1>1. CASE NewTemplate \/ StoreTemplate \/ TakesPacket \/ RefuseShare \/ RefuseTimestamp \/ Reply
           \/ SendUnlocked \/ UNCHANGED vars
    BY <1>1 DEF NewTemplate, StoreTemplate, TakesPacket, Handshake, RefusePacket, RefuseLocked,
        SubmitStale, Submit, RefuseShare, RefuseTimestamp, Reply, SendUnlocked, vars
<1>2. ASSUME NEW t \in 1 .. MaxTemplate, SendTemplate(t) \/ KickIdle(t)
      PROVE  UNCHANGED <<task, daemon, score>>
    BY <1>2 DEF SendTemplate, KickIdle
<1>3. ASSUME NEW i \in Task, NEW worth \in Worth, NEW claim \in Claims, AcceptShare(i, worth, claim)
      PROVE  Starts(i, worth, claim) /\ UNCHANGED <<daemon, score>>
    BY <1>3 DEF AcceptShare, Starts
<1>4. QED
    BY <1>1, <1>2, <1>3 DEF Next, Reader, TakesPacket

\* The same share; its hash may have been computed in between.
SameShare(new, old) ==
    /\ new.job = old.job /\ new.nonce = old.nonce /\ new.worth = old.worth
    /\ new.claim = old.claim \/ (old.claim = "none" /\ new.claim = "hash")

\* Verification i goes to a stage; unless it ends there it keeps its share.
Moves(i, stage) ==
    /\ task' \in [Task -> TaskRecord]
    /\ task'[i].at = stage
    /\ stage # "refused" => SameShare(task'[i], task[i])
    /\ \A h \in Task : h # i => task'[h] = task[h]

LEMMA Becomes ==
    ASSUME TaskType, NEW i \in Task, NEW stage \in Stages, Become(i, stage)
    PROVE  Moves(i, stage)
<1>1. task \in [Task -> TaskRecord] /\ task' = [task EXCEPT ![i].at = stage]
    BY DEF TaskType, Become
<1>2. task[i] \in TaskRecord
    BY <1>1
<1>3. task'[i] = [task[i] EXCEPT !.at = stage]
    BY <1>1
<1>4. task'[i] \in TaskRecord /\ task'[i].at = stage /\ SameShare(task'[i], task[i])
    BY <1>2, <1>3 DEF TaskRecord, SameShare
<1>5. QED
    BY <1>1, <1>4 DEF Moves

LEMMA Counts ==
    ASSUME TaskType, NEW i \in Task, CountShare(i)
    PROVE  Moves(i, "credit")
<1> DEFINE hash == IF task[i].claim = "none" THEN "hash" ELSE task[i].claim
<1>1. task \in [Task -> TaskRecord]
    BY DEF TaskType
<1>2. task[i] \in TaskRecord /\ hash \in Claims
    BY <1>1 DEF TaskRecord, Claims
<1>3. task' = [task EXCEPT ![i] = [task[i] EXCEPT !.at = "credit", !.claim = hash]]
    BY <1>1 DEF CountShare
<1>4. hash = task[i].claim \/ (task[i].claim = "none" /\ hash = "hash")
    OBVIOUS
<1> HIDE DEF hash
<1>5. task'[i] = [task[i] EXCEPT !.at = "credit", !.claim = hash]
    BY <1>1, <1>3
<1>6. task'[i] \in TaskRecord /\ task'[i].at = "credit" /\ task'[i].claim = hash
      /\ UNCHANGED <<task[i].job, task[i].nonce, task[i].worth>>
    BY <1>2, <1>5 DEF TaskRecord, Stages
<1>7. SameShare(task'[i], task[i])
    BY <1>4, <1>6 DEF SameShare
<1>8. task' \in [Task -> TaskRecord] /\ \A h \in Task : h # i => task'[h] = task[h]
    BY <1>1, <1>3, <1>5, <1>6
<1>9. QED
    BY <1>6, <1>7, <1>8 DEF Moves

LEMMA Refuses ==
    ASSUME TaskType, NEW i \in Task, Refuse(i)
    PROVE  Moves(i, "refused")
<1>1. task \in [Task -> TaskRecord] /\ task' = [task EXCEPT ![i] = [NoTask EXCEPT !.at = "refused"]]
    BY DEF TaskType, Refuse
<1>2. [NoTask EXCEPT !.at = "refused"] \in TaskRecord /\ [NoTask EXCEPT !.at = "refused"].at = "refused"
  <2>1. [NoTask EXCEPT !.at = "refused"]
          = [at |-> "refused", job |-> 0, nonce |-> 0, worth |-> "low", claim |-> "none"]
    BY DEF NoTask
  <2>2. 0 \in 0 .. MaxJob /\ 0 \in Nonces \cup {0}
    BY SessionAssumption
  <2>3. "refused" \in Stages /\ "low" \in Worth /\ "none" \in Claims
    BY DEF Stages, Worth, Claims
  <2>4. QED
    BY <2>1, <2>2, <2>3 DEF TaskRecord
<1>3. QED
    BY <1>1, <1>2 DEF Moves

\* The stages a verification goes through, with what it does to the score and
\* to the daemon on its way.
Stage(i) ==
    \/ /\ task[i].at = "verify" /\ task'[i].at \in {"punish", "refused"}
       /\ UNCHANGED <<score, daemon>>
    \/ /\ task[i].at = "verify" /\ task'[i].at = "credit"
       /\ Wrong(i) => LooksWorth(i) # "block" /\ score >= TrustScore
       /\ UNCHANGED <<score, daemon>>
    \/ /\ task[i].at = "punish" /\ task'[i].at = "refused"
       /\ score' = -TrustScore /\ UNCHANGED daemon
    \/ /\ task[i].at = "credit"
       /\ task'[i].at = IF LooksWorth(i) = "block" THEN "block" ELSE "adjust"
       /\ score' = score + 1 /\ UNCHANGED daemon
    \/ /\ task[i].at \in {"block", "retry"} /\ task'[i].at \in {"adjust", "retry", "credited"}
       /\ UNCHANGED score
       /\ \E v \in Verdict : daemon' = [daemon EXCEPT ![i] = v]
    \/ /\ task[i].at = "adjust" /\ task'[i].at = "credited"
       /\ UNCHANGED <<score, daemon>>

LEMMA VerificationSteps ==
    ASSUME MType, NEW i \in Task, Verification(i)
    PROVE  /\ Moves(i, task'[i].at)
           /\ Stage(i)
           /\ UNCHANGED <<templateVars, jobVars, nonces, reader, submitted, current, detached>>
<1>0. TaskType
    BY DEF MType
<1>1. CASE Verify(i)
  <2>1. PICK stage \in {"punish", "refused", "credit"} :
           /\ Moves(i, stage)
           /\ stage = "credit" /\ Wrong(i) => ~MustCheck(i)
    <3>1. CASE Refuse(i)
      BY <1>0, <3>1, Refuses
    <3>2. CASE Become(i, "punish")
      BY <1>0, <3>2, Becomes DEF Stages
    <3>3. CASE (Wrong(i) => ~MustCheck(i)) /\ CountShare(i)
      BY <1>0, <3>3, Counts
    <3>4. QED
      BY <1>1, <3>1, <3>2, <3>3 DEF Verify
  <2>2. task'[i].at = stage
    BY <2>1 DEF Moves
  <2>3. stage = "credit" /\ Wrong(i) => LooksWorth(i) # "block" /\ score >= TrustScore
    BY <2>1, SessionAssumption DEF MustCheck, MType, ScoreEarned
  <2>4. task[i].at = "verify" /\ UNCHANGED <<score, daemon>>
        /\ UNCHANGED <<templateVars, jobVars, nonces, reader, submitted, current, detached>>
    BY <1>1 DEF Verify, readerVars
  <2>5. QED
    BY <2>1, <2>2, <2>3, <2>4 DEF Stage
<1>2. CASE Punish(i)
  <2>1. /\ Refuse(i) /\ task[i].at = "punish" /\ score' = -TrustScore /\ UNCHANGED daemon
        /\ UNCHANGED <<templateVars, jobVars, nonces, reader, submitted, current, detached>>
    BY <1>2 DEF Punish, readerVars
  <2>2. Moves(i, "refused") /\ task'[i].at = "refused"
    BY <1>0, <2>1, Refuses DEF Moves
  <2>3. QED
    BY <2>1, <2>2 DEF Stage
<1>3. ASSUME NEW diff \in Diffs, Credit(i, diff)
      PROVE  Moves(i, task'[i].at) /\ Stage(i)
             /\ UNCHANGED <<templateVars, jobVars, nonces, reader, submitted, current, detached>>
  <2> DEFINE to == IF LooksWorth(i) = "block" THEN "block" ELSE "adjust"
  <2>1. /\ Become(i, to) /\ task[i].at = "credit" /\ score' = score + 1 /\ UNCHANGED daemon
        /\ UNCHANGED <<templateVars, jobVars, nonces, reader, submitted, current, detached>>
    BY <1>3 DEF Credit, readerVars
  <2>2. to \in Stages
    BY DEF Stages
  <2>3. Moves(i, to) /\ task'[i].at = to
    BY <1>0, <2>1, <2>2, Becomes DEF Moves
  <2>4. QED
    BY <2>1, <2>3 DEF Stage
<1>4. ASSUME NEW ok \in BOOLEAN, SubmitBlock(i, ok) \/ Resubmit(i, ok)
      PROVE  Moves(i, task'[i].at) /\ Stage(i)
             /\ UNCHANGED <<templateVars, jobVars, nonces, reader, submitted, current, detached>>
  <2>1. PICK stage \in {"adjust", "retry", "credited"} : Become(i, stage)
    BY <1>4 DEF SubmitBlock, Resubmit
  <2>2. Moves(i, stage) /\ task'[i].at = stage
    BY <1>0, <2>1, Becomes DEF Stages, Moves
  <2>3. \E v \in Verdict : daemon' = [daemon EXCEPT ![i] = v]
    <3>1. [accepted |-> ok, announced |-> ok] \in Verdict /\ [accepted |-> ok, announced |-> ~ok] \in Verdict
      BY DEF Verdict
    <3>2. QED
      BY <1>4, <3>1 DEF SubmitBlock, Resubmit
  <2>4. /\ task[i].at \in {"block", "retry"} /\ UNCHANGED score
        /\ UNCHANGED <<templateVars, jobVars, nonces, reader, submitted, current, detached>>
    BY <1>4 DEF SubmitBlock, Resubmit, readerVars
  <2>5. QED
    BY <2>2, <2>3, <2>4 DEF Stage
<1>5. CASE Adjust(i)
  <2>1. /\ Become(i, "credited") /\ task[i].at = "adjust" /\ UNCHANGED <<score, daemon>>
        /\ UNCHANGED <<templateVars, jobVars, nonces, reader, submitted, current, detached>>
    BY <1>5 DEF Adjust
  <2>2. Moves(i, "credited") /\ task'[i].at = "credited"
    BY <1>0, <2>1, Becomes DEF Stages, Moves
  <2>3. QED
    BY <2>1, <2>2 DEF Stage
<1>6. QED
    BY <1>1, <1>2, <1>3, <1>4, <1>5 DEF Verification

\* A started share: what the reader hands to its verification.
LEMMA StartedTask ==
    ASSUME MType, NEW i \in Task, NEW worth \in Worth, NEW claim \in Claims, Starts(i, worth, claim)
    PROVE  /\ task' \in [Task -> TaskRecord]
           /\ \A h \in Task : h # i => task'[h] = task[h]
           /\ submitted.job \in 1 .. Len(sent) /\ submitted.job \in JobId
           /\ task'[i].at = "verify" /\ task'[i].job = submitted.job
           /\ task'[i].nonce = submitted.nonce
<1> DEFINE new == [at |-> "verify", job |-> submitted.job, nonce |-> submitted.nonce,
                   worth |-> worth, claim |-> claim]
<1>1. /\ task \in [Task -> TaskRecord] /\ reader = "found" /\ task' = [task EXCEPT ![i] = new]
    BY DEF MType, TaskType, Starts
<1>2. /\ sent \in Seq(ConnJob) /\ Len(sent) \in Nat /\ Len(sent) <= MaxJob /\ MaxJob \in Nat
      /\ submitted.job \in 1 .. Len(sent) /\ submitted.nonce \in Nonces
    BY <1>1, SessionAssumption DEF MType, SessionType, ReaderType
<1>3. submitted.job \in 1 .. MaxJob /\ submitted.job \in 0 .. MaxJob
    BY <1>2
<1>4. new \in TaskRecord
    BY <1>2, <1>3 DEF TaskRecord, Stages
<1>5. task'[i] = new /\ task' \in [Task -> TaskRecord] /\ \A h \in Task : h # i => task'[h] = task[h]
    BY <1>1, <1>4
<1>6. QED
    BY <1>2, <1>3, <1>5 DEF JobId

LEMMA CreditedFinite ==
    ASSUME MaxShares \in Nat
    PROVE  IsFiniteSet(Credited) /\ Cardinality(Credited) \in Nat /\ Cardinality(Credited) <= MaxShares
<1>1. IsFiniteSet(Task) /\ Cardinality(Task) = MaxShares
    BY FS_Interval DEF Task
<1>2. Credited \subseteq Task
    BY DEF Credited
<1>3. QED
    BY <1>1, <1>2, FS_Subset, FS_CardinalityType

LEMMA NextTaskType == MType /\ [Next]_vars => TaskType' /\ ScoreEarned'
<1> SUFFICES ASSUME MType, [Next]_vars PROVE TaskType' /\ ScoreEarned'
    OBVIOUS
<1>1. /\ task \in [Task -> TaskRecord] /\ daemon \in [Task -> Verdict]
      /\ score \in Int /\ -TrustScore <= score /\ score <= Cardinality(Credited)
      /\ TrustScore \in Nat /\ MaxShares \in Nat
    BY SessionAssumption DEF MType, TaskType, ScoreEarned
<1>2. IsFiniteSet(Credited) /\ Cardinality(Credited) \in Nat
    BY <1>1, CreditedFinite
<1>3. ASSUME Credited' = Credited, score' = score \/ score' = -TrustScore PROVE ScoreEarned'
    BY <1>1, <1>2, <1>3 DEF ScoreEarned
<1>4. CASE UNCHANGED <<task, daemon, score>>
  <2>1. Credited' = Credited
    BY <1>4 DEF Credited
  <2>2. QED
    BY <1>1, <1>3, <1>4, <2>1 DEF TaskType
<1>5. ASSUME NEW i \in Task, NEW worth \in Worth, NEW claim \in Claims,
             Starts(i, worth, claim), UNCHANGED <<daemon, score>>
      PROVE  TaskType' /\ ScoreEarned'
  <2>1. /\ task' \in [Task -> TaskRecord] /\ task'[i].at = "verify" /\ task[i].at = "none"
        /\ \A h \in Task : h # i => task'[h] = task[h]
    BY <1>5, StartedTask DEF Starts
  <2>2. Credited' = Credited
    BY <2>1 DEF Credited
  <2>3. QED
    BY <1>1, <1>3, <1>5, <2>1, <2>2 DEF TaskType
<1>6. ASSUME NEW i \in Task, Verification(i) PROVE TaskType' /\ ScoreEarned'
  <2>1. /\ task' \in [Task -> TaskRecord] /\ Stage(i)
        /\ \A h \in Task : h # i => task'[h] = task[h]
    BY <1>6, VerificationSteps DEF Moves
  <2>2. daemon' \in [Task -> Verdict]
    BY <1>1, <2>1 DEF Stage
  <2>3. CASE task[i].at # "credit"
    <3>1. score' = score \/ score' = -TrustScore
      BY <2>1, <2>3 DEF Stage
    <3>2. i \in Credited' <=> i \in Credited
      BY <2>1, <2>3 DEF Stage, Credited
    <3>3. Credited' = Credited
      BY <2>1, <3>2 DEF Credited
    <3>4. QED
      BY <1>3, <2>1, <2>2, <3>1, <3>3 DEF TaskType
  <2>4. CASE task[i].at = "credit"
    <3>1. score' = score + 1 /\ task'[i].at \in {"block", "adjust"}
      BY <2>1, <2>4 DEF Stage
    <3>2. i \notin Credited /\ Credited' = Credited \cup {i}
      BY <2>1, <2>4, <3>1 DEF Credited
    <3>3. Cardinality(Credited') = Cardinality(Credited) + 1
      BY <1>2, <3>2, FS_AddElement
    <3>4. QED
      BY <1>1, <1>2, <2>1, <2>2, <3>1, <3>3 DEF TaskType, ScoreEarned
  <2>5. QED
    BY <2>3, <2>4
<1>7. QED
    BY <1>4, <1>5, <1>6, TaskSteps

LEMMA NextMType == MType /\ [Next]_vars => MType'
    BY NextTemplateType, NextSessionType, NextReaderType, NextTaskType DEF MType

LEMMA InitMType == Init => MType
<1> SUFFICES ASSUME Init PROVE MType
    OBVIOUS
<1> USE SessionAssumption
<1>1. TemplateType
  <2>1. latest \in 0 .. MaxTemplate /\ known \in 0 .. MaxTemplate /\ sending \subseteq 1 .. MaxTemplate
    BY DEF Init
  <2>2. raced \in BOOLEAN
    BY Zenon DEF Init
  <2>3. QED
    BY <2>1, <2>2 DEF TemplateType
<1>2. Slice(jobs, cap) /\ sent \in Seq(ConnJob) /\ Len(sent) = 0
  <2>1. << >> \in Seq(ConnJob) /\ Len(<< >>) = 0
    OBVIOUS
  <2>2. QED
    BY <2>1 DEF Init, Slice
<1>3. SessionType
  <2>1. nonces \in [JobId -> SUBSET Nonces] /\ nextDiff \in Diffs /\ Len(sent) <= MaxJob
    BY <1>2 DEF Init
  <2>2. wallet \in BOOLEAN /\ leaked \in BOOLEAN /\ unserved \in BOOLEAN
    BY Zenon DEF Init
  <2>3. QED
    BY <1>2, <2>1, <2>2 DEF SessionType
<1>4. ReaderType
  <2>1. current = 0 /\ current \in 0 .. MaxShares /\ toSend \in 0 .. MaxTemplate /\ reader = "read"
    BY DEF Init
  <2>2. kick \in BOOLEAN /\ detached \in BOOLEAN
    BY Zenon DEF Init
  <2>3. QED
    BY <2>1, <2>2 DEF ReaderType
<1>5. TaskType
  <2>1. NoTask \in TaskRecord /\ [accepted |-> FALSE, announced |-> FALSE] \in Verdict
    BY DEF NoTask, TaskRecord, Stages, Worth, Claims, Verdict
  <2>2. QED
    BY <2>1 DEF Init, TaskType
<1>6. ScoreEarned
  <2>1. Cardinality(Credited) \in Nat
    BY CreditedFinite
  <2>2. QED
    BY <2>1 DEF Init, ScoreEarned
<1>7. QED
    BY <1>1, <1>3, <1>4, <1>5, <1>6 DEF MType

\* The session's variables keep their types: Jobs never holds more than
\* MAX_PAST_JOBS, nor more than its array has room for, although the capacity
\* shrinks with every slide, and the score never exceeds the shares credited.
THEOREM TypeCorrect == Spec => []TypeOK
<1>1. MType => TypeOK
  <2> SUFFICES ASSUME MType PROVE TypeOK
    OBVIOUS
  <2>1. /\ latest \in 0 .. MaxTemplate /\ known \in 0 .. MaxTemplate
        /\ sending \subseteq 1 .. MaxTemplate
    BY DEF MType, TemplateType
  <2>2. /\ jobs \in Seq(ConnJob) /\ Len(jobs) <= MaxPastJobs /\ cap \in Nat /\ Len(jobs) <= cap
        /\ \A j \in JobId : nonces[j] \subseteq Nonces
        /\ nextDiff \in Diffs
    BY DEF MType, SessionType, Slice
  <2>3. score \in -TrustScore .. MaxShares
    BY CreditedFinite, SessionAssumption DEF MType, ScoreEarned
  <2>4. {wallet, leaked, kick, detached, raced, unserved} \subseteq BOOLEAN
    BY DEF MType, TemplateType, SessionType, ReaderType
  <2>5. /\ reader \in {"read", "found", "reply", "send", "closed"}
        /\ current \in 0 .. MaxShares /\ toSend \in 0 .. MaxTemplate
    BY DEF MType, ReaderType
  <2>6. \A i \in Task : task[i].at \in Stages
    BY DEF MType, TaskType, TaskRecord
  <2>7. QED
    BY <2>1, <2>2, <2>3, <2>4, <2>5, <2>6 DEF TypeOK
<1>2. QED
    BY <1>1, InitMType, NextMType, PTL DEF Spec

-----------------------------------------------------------------------------
(* Blocks and trust.                                                       *)

\* A share that is worth a block and claims nothing wrong.
Genuine(t) == t.worth = "block" /\ t.claim \notin {"wrong share", "wrong block"}

LEMMA LooksLikeBlock ==
    ASSUME NEW i \in Task, LooksWorth(i) = "block"
    PROVE  task[i].claim = "wrong block" \/ Genuine(task[i])
<1>1. CASE task[i].claim = "wrong share"
    BY <1>1 DEF LooksWorth
<1>2. CASE task[i].claim \notin {"wrong share", "wrong block"}
    BY <1>2 DEF LooksWorth, Genuine
<1>3. QED
    BY <1>1, <1>2

LEMMA WrongBlock ==
    ASSUME NEW i \in Task, task[i].claim = "wrong block"
    PROVE  Wrong(i) /\ LooksWorth(i) = "block"
    BY DEF Wrong, LooksWorth

\* A wrong claim of a block is never credited; from then on the hash of a share
\* that looks like a block is right, and the daemon hears only of these.
ProvenAt(i) ==
    /\ task[i].at = "credit" => task[i].claim # "wrong block"
    /\ task[i].at \in {"block", "retry"} => Genuine(task[i])
    /\ daemon[i].accepted \/ daemon[i].announced =>
          task[i].at \in {"retry", "adjust", "credited"} /\ Genuine(task[i])
Proven == \A i \in Task : ProvenAt(i)

LEMMA NextProven ==
    ASSUME MType, Proven, [Next]_vars
    PROVE  Proven'
<1>1. task \in [Task -> TaskRecord] /\ daemon \in [Task -> Verdict]
    BY DEF MType, TaskType
<1>2. SUFFICES ASSUME NEW h \in Task PROVE ProvenAt(h)'
    BY DEF Proven
<1>3. ProvenAt(h)
    BY DEF Proven
<1>4. ASSUME task'[h] = task[h], daemon'[h] = daemon[h] PROVE ProvenAt(h)'
    BY <1>3, <1>4 DEF ProvenAt
<1>5. CASE UNCHANGED <<task, daemon, score>>
    BY <1>4, <1>5
<1>6. ASSUME NEW i \in Task, NEW worth \in Worth, NEW claim \in Claims,
             Starts(i, worth, claim), UNCHANGED daemon
      PROVE  ProvenAt(h)'
  <2>1. /\ task'[i].at = "verify" /\ task[i].at = "none"
        /\ \A k \in Task : k # i => task'[k] = task[k]
    BY <1>6, StartedTask DEF Starts
  <2>2. CASE h # i
    BY <1>4, <1>6, <2>1, <2>2
  <2>3. CASE h = i
    <3>1. ~(daemon'[h].accepted \/ daemon'[h].announced)
      BY <1>3, <1>6, <2>1, <2>3 DEF ProvenAt
    <3>2. task'[h].at = "verify"
      BY <2>1, <2>3
    <3>3. QED
      BY <3>1, <3>2 DEF ProvenAt
  <2>4. QED
    BY <2>2, <2>3
<1>7. ASSUME NEW i \in Task, Verification(i) PROVE ProvenAt(h)'
  <2>1. /\ task'[i].at # "refused" => SameShare(task'[i], task[i])
        /\ Stage(i)
        /\ \A k \in Task : k # i => task'[k] = task[k]
    BY <1>7, VerificationSteps DEF Moves
  <2>2. \A k \in Task : k # i => daemon'[k] = daemon[k]
    BY <1>1, <2>1 DEF Stage
  <2>3. CASE h # i
    BY <1>4, <2>1, <2>2, <2>3
  <2>4. CASE h = i
    <3>1. task'[h].at # "refused"
            => /\ task'[h].claim = "wrong block" => task[h].claim = "wrong block"
               /\ Genuine(task[h]) => Genuine(task'[h])
      BY <2>1, <2>4 DEF SameShare, Genuine
    <3>2. CASE task[h].at \in {"block", "retry"}
      <4>1. task'[h].at \in {"adjust", "retry", "credited"}
        BY <2>1, <2>4, <3>2 DEF Stage
      <4>2. Genuine(task'[h])
        BY <1>3, <3>1, <3>2, <4>1 DEF ProvenAt
      <4>3. QED
        BY <4>1, <4>2 DEF ProvenAt
    <3>3. CASE task[h].at \notin {"block", "retry"}
      <4>1. daemon' = daemon
        BY <2>1, <2>4, <3>3 DEF Stage
      <4>2. task'[h].at = "credit" => task[h].claim # "wrong block"
        BY <2>1, <2>4, <3>3, WrongBlock DEF Stage
      <4>3. task'[h].at \in {"block", "retry"} => task[h].at = "credit" /\ LooksWorth(h) = "block"
        BY <2>1, <2>4, <3>3 DEF Stage
      <4>4. task'[h].at \in {"block", "retry"} => Genuine(task[h])
        BY <1>3, <4>3, LooksLikeBlock DEF ProvenAt
      <4>5. task[h].at = "adjust" => task'[h].at = "credited"
        BY <2>1, <2>4 DEF Stage
      <4>6. task[h].at # "credited"
        BY <2>1, <2>4 DEF Stage
      <4>7. daemon[h].accepted \/ daemon[h].announced
              => task'[h].at = "credited" /\ Genuine(task[h])
        BY <1>3, <3>3, <4>5, <4>6 DEF ProvenAt
      <4>8. QED
        BY <3>1, <4>1, <4>2, <4>4, <4>7 DEF ProvenAt
    <3>4. QED
      BY <3>2, <3>3
  <2>5. QED
    BY <2>3, <2>4
<1>8. QED
    BY <1>5, <1>6, <1>7, TaskSteps

\* For every score, trust limit and mixture of honest and wrong claims: a share
\* is submitted to the daemon or announced as a block only if its hash was
\* computed and is worth one, also when a trusted miner's shares pass unseen.
THEOREM BlocksVerifiedCorrect == Spec => []BlocksVerified
<1>1. Init => Proven
  <2> SUFFICES ASSUME Init, NEW i \in Task PROVE ProvenAt(i)
    BY DEF Proven
  <2>1. task[i].at = "none"
    BY DEF Init, NoTask
  <2>2. daemon[i] = [accepted |-> FALSE, announced |-> FALSE]
    BY DEF Init
  <2>3. ~daemon[i].accepted /\ ~daemon[i].announced
    BY <2>2
  <2>4. QED
    BY <2>1, <2>3 DEF ProvenAt
<1>2. MType /\ Proven /\ [Next]_vars => Proven'
    BY NextProven
<1>3. Proven => BlocksVerified
  <2> SUFFICES ASSUME Proven, NEW i \in Task,
                      daemon[i].accepted \/ daemon[i].announced \/ task[i].at \in {"block", "retry"}
               PROVE  task[i].worth = "block" /\ ~Wrong(i)
    BY DEF BlocksVerified
  <2>1. Genuine(task[i])
    BY DEF Proven, ProvenAt
  <2>2. QED
    BY <2>1 DEF Genuine, Wrong
<1>4. QED
    BY <1>1, <1>2, <1>3, InitMType, NextMType, PTL DEF Spec

\* A wrong hash that counts, or is about to, found the score at TrustScore.
Counting == {i \in Task : task[i].at = "credit"} \cup Credited
Rightful == {i \in Credited : ~Wrong(i)}
Earned == (\E i \in Counting : Wrong(i)) => Cardinality(Rightful) >= TrustScore

LEMMA NextEarned ==
    ASSUME MType, Earned, [Next]_vars
    PROVE  Earned'
<1>1. TrustScore \in Nat /\ MaxShares \in Nat /\ score \in Int /\ score <= Cardinality(Credited)
    BY SessionAssumption DEF MType, ScoreEarned
\* A right share that is credited stays so, and no other becomes a wrong one.
<1>2. ASSUME Rightful \subseteq Rightful',
             (\E i \in Counting' : Wrong(i)') => Cardinality(Rightful) >= TrustScore
      PROVE  Earned'
  <2>1. IsFiniteSet(Task) /\ Rightful' \subseteq Task
    BY <1>1, FS_Interval DEF Task, Rightful, Credited
  <2>2. Cardinality(Rightful) <= Cardinality(Rightful')
        /\ Cardinality(Rightful) \in Nat /\ Cardinality(Rightful') \in Nat
    BY <1>2, <2>1, FS_Subset, FS_CardinalityType
  <2>3. (\E i \in Counting' : Wrong(i)') => Cardinality(Rightful') >= TrustScore
    BY <1>1, <1>2, <2>2
  <2>4. QED
    BY <2>3 DEF Earned
<1>3. ASSUME \A h \in Task : task'[h] = task[h] PROVE Earned'
  <2>1. Counting' = Counting /\ Rightful' = Rightful /\ \A h \in Task : Wrong(h)' <=> Wrong(h)
    BY <1>3 DEF Counting, Rightful, Credited, Wrong
  <2>2. Counting \subseteq Task
    BY DEF Counting, Credited
  <2>3. QED
    BY <1>2, <2>1, <2>2 DEF Earned
<1>4. CASE UNCHANGED <<task, daemon, score>>
    BY <1>3, <1>4
<1>5. ASSUME NEW i \in Task, NEW worth \in Worth, NEW claim \in Claims, Starts(i, worth, claim)
      PROVE  Earned'
  <2>1. /\ task'[i].at = "verify" /\ task[i].at = "none"
        /\ \A h \in Task : h # i => task'[h] = task[h]
    BY <1>5, StartedTask DEF Starts
  <2>2. \A h \in Counting' \cup Counting : h \in Task /\ h # i
    BY <2>1 DEF Counting, Credited
  <2>3. Counting' = Counting /\ Rightful' = Rightful
    BY <2>1 DEF Counting, Rightful, Credited, Wrong
  <2>4. \A h \in Counting : Wrong(h)' <=> Wrong(h)
    BY <2>1, <2>2 DEF Wrong
  <2>5. QED
    BY <1>2, <2>3, <2>4 DEF Earned
<1>6. ASSUME NEW i \in Task, Verification(i) PROVE Earned'
  <2>1. /\ task'[i].at # "refused" => SameShare(task'[i], task[i])
        /\ Stage(i)
        /\ \A h \in Task : h # i => task'[h] = task[h]
    BY <1>6, VerificationSteps DEF Moves
  <2>2. task'[i].at # "refused" => (Wrong(i)' <=> Wrong(i))
    BY <2>1 DEF SameShare, Wrong
  <2>3. i \in Credited => i \in Credited'
    BY <2>1 DEF Stage, Credited
  <2>4. Rightful \subseteq Rightful'
    <3>1. i \in Rightful => i \in Rightful'
      BY <2>2, <2>3 DEF Rightful, Credited
    <3>2. \A h \in Task : h # i /\ h \in Rightful => h \in Rightful'
      BY <2>1 DEF Rightful, Credited, Wrong
    <3>3. QED
      BY <3>1, <3>2 DEF Rightful, Credited
  <2>5. ASSUME NEW k \in Counting', Wrong(k)' PROVE Cardinality(Rightful) >= TrustScore
    <3>1. k \in Task
      BY DEF Counting, Credited
    <3>2. CASE k # i
      <4>1. k \in Counting /\ Wrong(k)
        BY <2>1, <2>5, <3>1, <3>2 DEF Counting, Credited, Wrong
      <4>2. QED
        BY <4>1 DEF Earned
    <3>3. CASE k = i /\ i \in Counting
      <4>1. task'[i].at # "refused"
        BY <3>3 DEF Counting, Credited
      <4>2. QED
        BY <2>2, <2>5, <3>3, <4>1 DEF Earned
    <3>4. CASE k = i /\ i \notin Counting
      <4>1. task'[i].at = "credit" /\ task[i].at = "verify"
        BY <2>1, <3>4 DEF Counting, Credited, Stage
      <4>2. Wrong(i)
        BY <2>2, <2>5, <3>4, <4>1
      <4>3. score >= TrustScore
        BY <2>1, <4>1, <4>2 DEF Stage
      <4>4. CASE \E h \in Counting : Wrong(h)
        BY <4>4 DEF Earned
      <4>5. CASE ~(\E h \in Counting : Wrong(h))
        <5>1. Rightful = Credited
          BY <4>5 DEF Rightful, Counting
        <5>2. Cardinality(Credited) \in Nat
          BY <1>1, CreditedFinite
        <5>3. QED
          BY <1>1, <4>3, <5>1, <5>2
      <4>6. QED
        BY <4>4, <4>5
    <3>5. QED
      BY <3>2, <3>3, <3>4
  <2>6. QED
    BY <1>2, <2>4, <2>5
<1>7. QED
    BY <1>4, <1>5, <1>6, TaskSteps

\* For every TrustScore and however verifications, punishments and packets
\* overlap: a wrong hash counts as a share only when at least TrustScore right
\* shares of the session are credited.  A point of the score stands for a
\* credited share, so the first wrong one finds that many right ones.
THEOREM TrustIsEarnedCorrect == Spec => []TrustIsEarned
<1>1. Init => Earned
  <2> SUFFICES ASSUME Init PROVE Earned
    OBVIOUS
  <2>1. \A i \in Task : task[i].at = "none"
    BY DEF Init, NoTask
  <2>2. Counting = {}
    BY <2>1 DEF Counting, Credited
  <2>3. QED
    BY <2>2 DEF Earned
<1>2. MType /\ Earned /\ [Next]_vars => Earned'
    BY NextEarned
<1>3. Earned => TrustIsEarned
    BY DEF Earned, TrustIsEarned, Counting, Rightful
<1>4. QED
    BY <1>1, <1>2, <1>3, InitMType, NextMType, PTL DEF Spec

-----------------------------------------------------------------------------
(* As long as no template arrives while a packet or a template is handled. *)

\* A packet is handled between templates, and jobToSend is the newest of them.
HandledBetween == Window => Settled /\ toSend \in {0, latest}
\* At most the newest template is still to be sent, and once it is, the miner's
\* last job is for it, unless sendJobs has disconnected the miner instead.
LastIsLatest ==
    /\ sending \subseteq {latest}
    /\ reader # "closed" /\ sending = {} /\ jobs # << >> => LastJob.template = latest
Calm == HandledBetween /\ LastIsLatest

\* A race is never forgotten.
LEMMA RacedStays == [Next]_vars /\ ~raced' => ~raced
<1> SUFFICES ASSUME [Next]_vars, ~raced' PROVE ~raced
    OBVIOUS
<1>1. CASE NewTemplate \/ TakesPacket
    BY <1>1 DEF NewTemplate, TakesPacket, Handshake, RefusePacket, RefuseLocked, SubmitStale, Submit, Read
<1>2. CASE StoreTemplate \/ RefuseShare \/ RefuseTimestamp \/ Reply \/ SendUnlocked \/ UNCHANGED vars
    BY <1>2 DEF StoreTemplate, RefuseShare, RefuseTimestamp, Reply, SendUnlocked, vars, templateVars
<1>3. ASSUME NEW t \in 1 .. MaxTemplate, SendTemplate(t) \/ KickIdle(t) PROVE ~raced
    BY <1>3 DEF SendTemplate, KickIdle
<1>4. ASSUME NEW i \in Task, NEW worth \in Worth, NEW claim \in Claims, AcceptShare(i, worth, claim)
      PROVE  ~raced
    BY <1>4 DEF AcceptShare, templateVars
<1>5. ASSUME NEW i \in Task, Verification(i) PROVE ~raced
    BY <1>5 DEF Verification, Verify, Punish, Credit, SubmitBlock, Resubmit, Adjust, templateVars
<1>6. QED
    BY <1>1, <1>2, <1>3, <1>4, <1>5 DEF Next, Reader, TakesPacket

\* A template is sent while no packet is handled, and it is the newest.
LEMMA CalmSend ==
    ASSUME Calm, NEW t, t \in sending
    PROVE  t = latest /\ sending = {latest} /\ ~Window
    BY DEF Calm, HandledBetween, LastIsLatest, Settled

LEMMA NextCalm ==
    ASSUME MType, ~raced => Calm, [Next]_vars
    PROVE  ~raced' => Calm'
<1> SUFFICES ASSUME ~raced' PROVE Calm'
    OBVIOUS
<1>1. Calm /\ ~raced
    BY RacedStays
<1>2. /\ Window => known = latest /\ sending = {} /\ toSend \in {0, latest}
      /\ sending \subseteq {latest}
      /\ reader # "closed" /\ sending = {} /\ jobs # << >> => LastJob.template = latest
    BY <1>1 DEF Calm, HandledBetween, LastIsLatest, Settled
<1>3. /\ latest \in Nat /\ SessionType /\ reader \in {"read", "found", "reply", "send", "closed"}
    BY DEF MType, TemplateType, ReaderType
\* The reader goes on with a packet, or ends, and nothing else happens.
<1>4. ASSUME UNCHANGED <<latest, known, sending, jobs>>, Window' => Window,
             toSend' \in {toSend, 0, latest}, reader = "closed" => reader' = "closed"
      PROVE  Calm'
    BY <1>2, <1>4 DEF Calm, HandledBetween, LastIsLatest, Settled, LastJob
<1>5. CASE NewTemplate
  <2>1. ~Window /\ sending = {} /\ sending' = {latest'} /\ reader' = reader
    <3>1. ~Window /\ Settled
      BY <1>5 DEF NewTemplate
    <3>2. QED
      BY <1>5, <3>1 DEF NewTemplate, Settled, readerVars
  <2>2. ~Window'
    BY <2>1 DEF Window
  <2>3. QED
    BY <2>1, <2>2 DEF Calm, HandledBetween, LastIsLatest
<1>6. CASE StoreTemplate
  <2>1. ~Window /\ UNCHANGED <<latest, sending, jobs, reader>>
    BY <1>2, <1>6 DEF StoreTemplate, jobVars, readerVars
  <2>2. ~Window'
    BY <2>1 DEF Window
  <2>3. LastIsLatest'
    BY <1>2, <2>1 DEF LastIsLatest, LastJob
  <2>4. QED
    BY <2>2, <2>3 DEF Calm, HandledBetween
<1>7. ASSUME NEW t \in 1 .. MaxTemplate, SendTemplate(t) PROVE Calm'
  <2>1. t = latest /\ sending' = {} /\ ~Window /\ UNCHANGED <<latest, reader>>
    BY <1>1, <1>7, CalmSend DEF SendTemplate
  <2>2. ~Window'
    BY <2>1 DEF Window
  <2>3. jobs' # << >> => LastJob'.template = latest
    <3>1. CASE jobs = << >>
      BY <1>7, <3>1 DEF SendTemplate, jobVars
    <3>2. CASE jobs # << >>
      <4>1. SendJob([jobs |-> jobs, cap |-> cap], t)
        BY <1>7, <3>2 DEF SendTemplate
      <4>2. Slice([jobs |-> jobs, cap |-> cap].jobs, [jobs |-> jobs, cap |-> cap].cap)
        BY <1>3 DEF SessionType
      <4>3. jobs'[Len(jobs')].template = t
        BY <1>3, <4>1, <4>2, SentJob
      <4>4. QED
        BY <2>1, <4>3 DEF LastJob
    <3>3. QED
      BY <3>1, <3>2
  <2>4. QED
    BY <2>1, <2>2, <2>3 DEF Calm, HandledBetween, LastIsLatest
<1>8. ASSUME NEW t \in 1 .. MaxTemplate, KickIdle(t) PROVE Calm'
  <2>1. reader' = "closed" /\ sending' = {} /\ latest' = latest
    BY <1>1, <1>8, CalmSend DEF KickIdle
  <2>2. QED
    BY <2>1 DEF Calm, HandledBetween, LastIsLatest, Window
<1>9. CASE TakesPacket
  <2>1. /\ Settled /\ UNCHANGED <<latest, known, sending, jobs>> /\ reader = "read"
        /\ toSend' = 0 \/ toSend' = known
    <3>1. Read /\ UNCHANGED <<latest, known, sending, jobs>>
      BY <1>9 DEF TakesPacket, Handshake, RefusePacket, RefuseLocked, SubmitStale, Submit, jobVars
    <3>2. toSend' = 0 \/ toSend' = known
      BY <1>9 DEF TakesPacket, Handshake, RefusePacket, RefuseLocked, SubmitStale, Submit
    <3>3. Settled /\ reader = "read"
      BY <3>1 DEF Read
    <3>4. QED
      BY <3>1, <3>2, <3>3
  <2>2. Settled' /\ toSend' \in {0, latest'}
    BY <2>1 DEF Settled
  <2>3. LastIsLatest'
    BY <1>2, <2>1 DEF LastIsLatest, LastJob, Settled
  <2>4. QED
    BY <2>2, <2>3 DEF Calm, HandledBetween
<1>10. CASE RefuseShare \/ RefuseTimestamp \/ Reply
    BY <1>4, <1>10 DEF RefuseShare, RefuseTimestamp, Reply, templateVars, jobVars, Window
<1>11. ASSUME NEW i \in Task, NEW worth \in Worth, NEW claim \in Claims, AcceptShare(i, worth, claim)
       PROVE  Calm'
    BY <1>4, <1>11 DEF AcceptShare, templateVars, jobVars, Window
<1>12. CASE SendUnlocked
  <2>1. /\ reader = "send" /\ SendJob(snapshot, toSend) /\ reader' = "read"
        /\ UNCHANGED <<latest, sending>>
    BY <1>12 DEF SendUnlocked, templateVars
  <2>2. toSend = latest /\ toSend \in 1 .. MaxTemplate /\ Slice(snapshot.jobs, snapshot.cap)
    <3>1. toSend # 0 /\ toSend \in 0 .. MaxTemplate /\ Slice(snapshot.jobs, snapshot.cap)
      BY <2>1 DEF MType, ReaderType
    <3>2. toSend = latest
      BY <1>2, <2>1, <3>1 DEF Window
    <3>3. QED
      BY <3>1, <3>2, SessionAssumption
  <2>3. jobs'[Len(jobs')].template = latest
    BY <1>3, <2>1, <2>2, SentJob
  <2>4. QED
    BY <1>2, <2>1, <2>3 DEF Calm, HandledBetween, LastIsLatest, LastJob, Window
<1>13. ASSUME NEW i \in Task, Adjust(i) PROVE Calm'
  <2>1. UNCHANGED <<latest, known, sending, jobs, reader>>
    BY <1>13 DEF Adjust, templateVars, jobVars
  <2>2. toSend' \in {toSend, 0, latest}
    <3>1. CASE TooFar /\ current = i
      <4>1. reader = "reply" /\ jobs # << >>
        BY <3>1, SessionAssumption DEF MType, ReaderType, Task, TooFar
      <4>2. LastJob.template = latest
        BY <1>2, <4>1 DEF Window
      <4>3. QED
        BY <1>13, <3>1, <4>2 DEF Adjust
    <3>2. CASE ~(TooFar /\ current = i)
      BY <1>13, <3>2 DEF Adjust
    <3>3. QED
      BY <3>1, <3>2
  <2>3. QED
    BY <1>4, <2>1, <2>2 DEF Window
<1>14. ASSUME NEW i \in Task,
              \/ Verify(i) \/ Punish(i) \/ (\E diff \in Diffs : Credit(i, diff))
              \/ (\E ok \in BOOLEAN : SubmitBlock(i, ok) \/ Resubmit(i, ok))
       PROVE  Calm'
    BY <1>4, <1>14 DEF Verify, Punish, Credit, SubmitBlock, Resubmit, readerVars, templateVars,
        jobVars, Window
<1>15. CASE UNCHANGED vars
    BY <1>4, <1>15 DEF vars, Window
<1>16. QED
    BY <1>5, <1>6, <1>7, <1>8, <1>9, <1>10, <1>11, <1>12, <1>13, <1>14, <1>15
    DEF Next, Reader, Verification, TakesPacket

LEMMA InitCalm == Init => Calm
    BY DEF Init, Calm, HandledBetween, LastIsLatest, Window

\* For any number of templates, jobs and lengths of Jobs: between packets and
\* templates the miner's last job is for the newest template, although the job
\* that answers a packet is appended without the mutex, unless a template
\* arrived while a packet or another template was being handled.
THEOREM WorksOnLatestCorrect == Spec => []WorksOnLatest
<1>1. (~raced => Calm) => WorksOnLatest
    BY DEF Calm, LastIsLatest, WorksOnLatest, Settled
<1>2. MType /\ (~raced => Calm) /\ [Next]_vars => (~raced => Calm)'
    BY NextCalm
<1>3. Init => (~raced => Calm)
    BY InitCalm
<1>4. QED
    BY <1>1, <1>2, <1>3, InitMType, NextMType, PTL DEF Spec

\* The reader's pointer is into the current array; every share that is or was
\* verified, and is not refused, is in its job's SubmittedNonces, and no two are
\* the same.
Attached == reader = "found" => ~detached
Live(t) == t.at \notin {"none", "refused"}
Recorded ==
    \A i \in Task : Live(task[i]) =>
        task[i].job \in JobId /\ task[i].nonce \in nonces[task[i].job]
Distinct ==
    \A i, k \in Task :
        /\ Live(task[i]) /\ Live(task[k])
        /\ task[i].job = task[k].job /\ task[i].nonce = task[k].nonce
        => i = k
Unique == Attached /\ Recorded /\ Distinct

\* Only Submit moves the pointer, and only a template replaces the array.
LEMMA NextAttached ==
    ASSUME Calm, Attached, [Next]_vars
    PROVE  Attached'
<1>1. ASSUME reader' # "found" PROVE Attached'
    BY <1>1 DEF Attached
<1>2. ASSUME UNCHANGED <<reader, detached>> PROVE Attached'
    BY <1>2 DEF Attached
<1>3. ASSUME NEW t \in 1 .. MaxTemplate, SendTemplate(t) PROVE Attached'
  <2>1. ~Window /\ reader' = reader
    BY <1>3, CalmSend DEF SendTemplate
  <2>2. QED
    BY <1>1, <2>1 DEF Window
<1>4. ASSUME NEW t \in 1 .. MaxTemplate, KickIdle(t) PROVE Attached'
    BY <1>1, <1>4 DEF KickIdle
<1>5. ASSUME NEW j \in JobId, NEW n \in Nonces, Submit(j, n) PROVE Attached'
    BY <1>5 DEF Submit, Attached
<1>6. CASE \/ \E diff \in Diffs : Handshake(diff) \/ RefusePacket(diff)
           \/ RefuseLocked \/ \E j \in JobId : SubmitStale(j)
    BY <1>1, <1>6 DEF Handshake, RefusePacket, RefuseLocked, SubmitStale
<1>7. CASE RefuseShare \/ RefuseTimestamp \/ Reply \/ SendUnlocked
    BY <1>1, <1>7 DEF RefuseShare, RefuseTimestamp, Reply, SendUnlocked
<1>8. ASSUME NEW i \in Task, NEW worth \in Worth, NEW claim \in Claims, AcceptShare(i, worth, claim)
      PROVE  Attached'
    BY <1>1, <1>8 DEF AcceptShare
<1>9. CASE NewTemplate \/ StoreTemplate \/ UNCHANGED vars
    BY <1>2, <1>9 DEF NewTemplate, StoreTemplate, vars, readerVars
<1>10. ASSUME NEW i \in Task, Verification(i) PROVE Attached'
    BY <1>2, <1>10 DEF Verification, Verify, Punish, Credit, SubmitBlock, Resubmit, Adjust, readerVars
<1>11. QED
    BY <1>3, <1>4, <1>5, <1>6, <1>7, <1>8, <1>9, <1>10 DEF Next, Reader

\* Nonces are recorded and never forgotten.
LEMMA NoncesGrow ==
    ASSUME MType, [Next]_vars
    PROVE  \A j \in JobId : nonces[j] \subseteq nonces'[j]
<1>1. nonces \in [JobId -> SUBSET Nonces]
    BY DEF MType, SessionType
<1>2. ASSUME RecordNonce PROVE \A j \in JobId : nonces[j] \subseteq nonces'[j]
    BY <1>1, <1>2 DEF RecordNonce
<1>3. CASE RefuseTimestamp
    BY <1>2, <1>3 DEF RefuseTimestamp
<1>4. ASSUME NEW i \in Task, NEW worth \in Worth, NEW claim \in Claims, AcceptShare(i, worth, claim)
      PROVE  \A j \in JobId : nonces[j] \subseteq nonces'[j]
    BY <1>2, <1>4 DEF AcceptShare
<1>5. CASE NewTemplate \/ StoreTemplate \/ TakesPacket \/ RefuseShare \/ Reply \/ SendUnlocked
           \/ UNCHANGED vars
    BY <1>5 DEF NewTemplate, StoreTemplate, TakesPacket, Handshake, RefusePacket, RefuseLocked,
        SubmitStale, Submit, RefuseShare, Reply, SendUnlocked, vars
<1>6. ASSUME NEW t \in 1 .. MaxTemplate, SendTemplate(t) \/ KickIdle(t) PROVE nonces' = nonces
    BY <1>6 DEF SendTemplate, KickIdle
<1>7. ASSUME NEW i \in Task, Verification(i) PROVE nonces' = nonces
    BY <1>7 DEF Verification, Verify, Punish, Credit, SubmitBlock, Resubmit, Adjust
<1>8. QED
    BY <1>3, <1>4, <1>5, <1>6, <1>7 DEF Next, Reader, TakesPacket

LEMMA NextUnique ==
    ASSUME MType, Calm, Unique, [Next]_vars
    PROVE  Unique'
<1>1. Attached' /\ \A j \in JobId : nonces[j] \subseteq nonces'[j]
    BY NextAttached, NoncesGrow DEF Unique
<1>2. \A i \in Task : Live(task[i]) => task[i].job \in JobId /\ task[i].nonce \in nonces[task[i].job]
    BY DEF Unique, Recorded
<1>3. ASSUME \A h \in Task : Live(task'[h]) =>
                 Live(task[h]) /\ task'[h].job = task[h].job /\ task'[h].nonce = task[h].nonce
      PROVE  Unique'
  <2>1. Recorded'
    BY <1>1, <1>2, <1>3 DEF Recorded
  <2>2. Distinct'
    BY <1>3 DEF Unique, Distinct
  <2>3. QED
    BY <1>1, <2>1, <2>2 DEF Unique
<1>4. CASE UNCHANGED <<task, daemon, score>>
    BY <1>3, <1>4
<1>5. ASSUME NEW i \in Task, NEW worth \in Worth, NEW claim \in Claims,
             AcceptShare(i, worth, claim), Starts(i, worth, claim)
      PROVE  Unique'
  <2>1. /\ \A h \in Task : h # i => task'[h] = task[h]
        /\ submitted.job \in JobId
        /\ task'[i].job = submitted.job /\ task'[i].nonce = submitted.nonce
    BY <1>5, StartedTask
  <2>2. /\ submitted.nonce \notin nonces[submitted.job]
        /\ submitted.nonce \in nonces'[submitted.job]
    <3>1. nonces \in [JobId -> SUBSET Nonces] /\ ~detached
      BY <1>5 DEF MType, SessionType, Unique, Attached, AcceptShare
    <3>2. QED
      BY <1>5, <2>1, <3>1 DEF AcceptShare, RecordNonce
  <2>3. Recorded'
    BY <1>1, <1>2, <2>1, <2>2 DEF Recorded
  <2>4. \A h \in Task : h # i /\ Live(task'[h])
            => ~(task'[h].job = submitted.job /\ task'[h].nonce = submitted.nonce)
    BY <1>2, <2>1, <2>2
  <2>5. Distinct'
    BY <2>1, <2>4 DEF Unique, Distinct
  <2>6. QED
    BY <1>1, <2>3, <2>5 DEF Unique
<1>6. ASSUME NEW i \in Task, Verification(i) PROVE Unique'
  <2>1. /\ \A h \in Task : h # i => task'[h] = task[h]
        /\ Stage(i)
        /\ task'[i].at # "refused" => SameShare(task'[i], task[i])
    BY <1>6, VerificationSteps DEF Moves
  <2>2. Live(task[i])
    BY <2>1 DEF Stage, Live
  <2>3. Live(task'[i]) => task'[i].job = task[i].job /\ task'[i].nonce = task[i].nonce
    BY <2>1 DEF SameShare, Live
  <2>4. QED
    BY <1>3, <2>1, <2>2, <2>3
<1>7. QED
    BY <1>4, <1>5, <1>6, TaskSteps

\* However often a nonce is submitted and however late its verifications run,
\* it is credited once, unless a template arrived while a packet or another
\* template was being handled: then the pointer to the job may be into an
\* array that append has replaced.
THEOREM NonceOnceUnlessRacedCorrect == Spec => []NonceOnceUnlessRaced
<1> DEFINE SessionInv == MType /\ (~raced => Calm /\ Unique)
<1>1. Init => SessionInv
  <2>1. Init => Unique
    BY DEF Init, Unique, Attached, Recorded, Distinct, NoTask, Live
  <2>2. QED
    BY <2>1, InitMType, InitCalm
<1>2. SessionInv /\ [Next]_vars => SessionInv'
  <2> SUFFICES ASSUME SessionInv, [Next]_vars PROVE SessionInv'
    OBVIOUS
  <2>1. MType' /\ (~raced' => Calm')
    BY NextMType, NextCalm
  <2>2. ~raced' => Unique'
    BY RacedStays, NextUnique
  <2>3. QED
    BY <2>1, <2>2
<1>3. SessionInv => NonceOnceUnlessRaced
    BY DEF Unique, Distinct, NonceOnceUnlessRaced, NonceOnce, Credited, Live
<1>4. QED
    BY <1>1, <1>2, <1>3, PTL DEF Spec
=============================================================================
