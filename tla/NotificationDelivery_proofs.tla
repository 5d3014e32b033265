-------------------- MODULE NotificationDelivery_proofs --------------------
(***************************************************************************)
(* Safety of the notification queue for any number of replicas, rows and   *)
(* administrators, any limits and any number of faults and delays, and     *)
(* what one replica, or two at rest, promise beyond it.                    *)
(***************************************************************************)
EXTENDS NotificationDelivery, FiniteSetTheorems, TLAPS

(***************************************************************************)
(* Every variable keeps its type.                                          *)
(***************************************************************************)
LEMMA RecoveredType == ASSUME NEW r \in Row PROVE Recovered(r) \in Row
  BY DEF Recovered, Row, Status

LEMMA RowUpdate ==
  ASSUME NEW r \in Row, NEW s \in Status, NEW n \in Nat,
         NEW next \in {"none", "later", "due"}, NEW stamp \in {"none", "fresh", "expired"}
  PROVE  [r EXCEPT !.status = s, !.attemptCount = n, !.processingStartedAt = stamp,
                   !.nextAttemptAt = next] \in Row
  BY DEF Row

LEMMA RowRetry ==
  ASSUME NEW r \in Row, NEW a \in Admins \union {NoAdmin},
         NEW next \in {"none", "later", "due"}
  PROVE  [r EXCEPT !.nextAttemptAt = next, !.retryRequestedById = a] \in Row
  BY DEF Row

LEMMA RowSettle ==
  ASSUME NEW r \in Row, NEW s \in Status
  PROVE  [r EXCEPT !.status = s, !.processingStartedAt = "none"] \in Row
  BY DEF Row

LEMMA RowTypes ==
  ASSUME TypeOK, NEW d \in Deliveries
  PROVE  /\ delivery[d] \in Row
         /\ ClaimedRow(d) \in Row
         /\ \A s \in Status : Released(d, s) \in Row
  <1>1. delivery[d] \in Row
    BY DEF TypeOK
  <1>2. delivery[d].attemptCount + 1 \in Nat /\ "PROCESSING" \in Status
    BY <1>1 DEF Row, Status
  <1>3. [delivery[d] EXCEPT !.status = "PROCESSING",
                            !.attemptCount = delivery[d].attemptCount + 1,
                            !.processingStartedAt = "fresh",
                            !.nextAttemptAt = "none"] \in Row
    BY <1>1, <1>2, RowUpdate
  <1>4. ASSUME NEW s \in Status PROVE Released(d, s) \in Row
    BY <1>1, RowSettle DEF Released
  <1>5. QED
    BY <1>1, <1>3, <1>4 DEF ClaimedRow

LEMMA JobTypes ==
  ASSUME TypeOK, NEW p \in Processes, NEW d \in Deliveries, NEW pc \in Step
  PROVE  /\ job[p][d] \in Job
         /\ [job[p][d] EXCEPT !.pc = pc] \in Job
         /\ \A s \in Status : [job[p][d] EXCEPT !.pc = pc, !.result = s] \in Job
         /\ \A s \in Status :
                [job[p][d] EXCEPT !.pc = pc, !.result = s, !.caught = TRUE] \in Job
         /\ \A n \in Nat : [job[p][d] EXCEPT !.pc = pc, !.attempt = n] \in Job
         /\ \A t \in Trigger, a \in Admins \union {NoAdmin} :
                [job[p][d] EXCEPT !.pc = pc, !.trigger = t, !.requestedBy = a] \in Job
  <1>1. job[p][d] \in Job
    BY DEF TypeOK
  <1>2. QED
    BY <1>1 DEF Job

LEMMA NoJobType == NoJob \in Job
  BY DEF NoJob, Job, Step, Trigger, Status

LEMMA SetRowType ==
  ASSUME TypeOK, NEW d \in Deliveries, NEW r \in Row, SetRow(d, r)
  PROVE  delivery' \in [Deliveries -> Row]
  BY DEF TypeOK, SetRow

LEMMA SetJobType ==
  ASSUME TypeOK, NEW p \in Processes, NEW d \in Deliveries, NEW j \in Job,
         SetJob(p, d, j)
  PROVE  job' \in [Processes -> [Deliveries -> Job]]
  BY DEF TypeOK, SetJob

LEMMA GotoType ==
  ASSUME TypeOK, NEW p \in Processes, NEW d \in Deliveries, NEW pc \in Step,
         Goto(p, d, pc)
  PROVE  job' \in [Processes -> [Deliveries -> Job]]
  <1>1. [job[p][d] EXCEPT !.pc = pc] \in Job
    BY JobTypes
  <1>2. QED
    BY <1>1, SetJobType DEF Goto

LEMMA ResultType ==
  ASSUME TypeOK, NEW p \in Processes, NEW d \in Deliveries, NEW s \in Status,
         Return(p, d, s) \/ Conclude(p, d, s)
  PROVE  job' \in [Processes -> [Deliveries -> Job]]
  <1>1. ASSUME NEW pc \in Step PROVE [job[p][d] EXCEPT !.pc = pc, !.result = s] \in Job
    BY JobTypes
  <1>2. PICK pc \in Step : SetJob(p, d, [job[p][d] EXCEPT !.pc = pc, !.result = s])
    BY DEF Return, Conclude, Step
  <1>3. QED
    BY <1>1, <1>2, SetJobType

LEMMA ThrowType ==
  ASSUME TypeOK, NEW p \in Processes, NEW d \in Deliveries, Throw(p, d)
  PROVE  job' \in [Processes -> [Deliveries -> Job]]
  <1>1. [job[p][d] EXCEPT !.pc = "audit", !.result = "FAILED", !.caught = TRUE] \in Job
    BY JobTypes DEF Step, Status
  <1>2. QED
    BY <1>1, SetJobType DEF Throw

LEMMA AfterAuditType ==
  ASSUME TypeOK, NEW p \in Processes, NEW d \in Deliveries, AfterAudit(p, d)
  PROVE  job' \in [Processes -> [Deliveries -> Job]]
  <1>1. "handle" \in Step
    BY DEF Step
  <1>2. QED
    BY <1>1, GotoType, SetJobType, NoJobType DEF AfterAudit

LEMMA AfterFaultType ==
  ASSUME TypeOK, NEW p \in Processes, NEW d \in Deliveries, AfterFault(p, d)
  PROVE  job' \in [Processes -> [Deliveries -> Job]]
  <1>1. {"rolledBack", "failed"} \subseteq Step
    BY DEF Step
  <1>2. \/ AfterAudit(p, d) \/ Throw(p, d) \/ SetJob(p, d, NoJob)
        \/ \E pc \in {"rolledBack", "failed"} : Goto(p, d, pc)
    BY DEF AfterFault
  <1>3. QED
    BY <1>1, <1>2, AfterAuditType, ThrowType, SetJobType, GotoType, NoJobType

\* What a dispatch commits keeps the types of what it writes.
LEMMA CommitsType ==
  ASSUME TypeOK, NEW p \in Processes, NEW d \in Deliveries, Commits(p, d)
  PROVE  /\ delivery' \in [Deliveries -> Row]
         /\ accepted' \in [Deliveries -> SUBSET Nat]
         /\ UNCHANGED attempts
  <1>1. CASE ClaimsRow(p, d)
    BY <1>1, RowTypes, SetRowType DEF ClaimsRow, TypeOK
  <1>2. CASE WritesOutcome(p, d)
    <2>1. [Released(d, "SKIPPED") EXCEPT !.nextAttemptAt = "none"] \in Row
      BY RowTypes DEF Row, Status
    <2>2. Released(d, "SENT") \in Row /\ Released(d, "FAILED") \in Row
      BY RowTypes DEF Status
    <2>3. delivery' \in [Deliveries -> Row]
      BY <1>2, <2>1, <2>2, SetRowType DEF WritesOutcome
    <2>4. QED
      BY <1>2, <2>3 DEF WritesOutcome, TypeOK
  <1>3. CASE PutsInInbox(p, d) \/ SkipsInbox(p, d)
    <2>1. \A s \in {"DELIVERED", "SKIPPED"} :
             [ClaimedRow(d) EXCEPT !.status = s, !.processingStartedAt = "none"] \in Row
      BY RowTypes, RowSettle DEF Status
    <2>2. delivery[d].attemptCount + 1 \in Nat
      BY RowTypes DEF Row
    <2>3. accepted' \in [Deliveries -> SUBSET Nat]
      BY <1>3, <2>2 DEF PutsInInbox, SkipsInbox, TypeOK
    <2>4. delivery' \in [Deliveries -> Row]
      BY <1>3, <2>1, SetRowType DEF PutsInInbox, SkipsInbox
    <2>5. QED
      BY <1>3, <2>3, <2>4 DEF PutsInInbox, SkipsInbox
  <1>4. CASE CountsFailure(p, d)
    <2>1. Released(d, "FAILED") \in Row
      BY RowTypes DEF Status
    <2>2. [Released(d, "FAILED") EXCEPT !.attemptCount = @ + 1] \in Row
      BY <2>1 DEF Row
    <2>3. delivery' \in [Deliveries -> Row]
      BY <1>4, <2>2, SetRowType DEF CountsFailure, TypeOK
    <2>4. QED
      BY <1>4, <2>3 DEF CountsFailure, TypeOK
  <1>5. CASE WritesPolicy(p, d)
    <2>1. /\ [Released(d, "RETRYING") EXCEPT !.nextAttemptAt = "later"] \in Row
          /\ [Released(d, "FAILED") EXCEPT !.nextAttemptAt = "none"] \in Row
      BY RowTypes DEF Row, Status
    <2>2. delivery' \in [Deliveries -> Row]
      BY <1>5, <2>1, SetRowType DEF WritesPolicy
    <2>3. QED
      BY <1>5, <2>2 DEF WritesPolicy, TypeOK
  <1>6. QED
    BY <1>1, <1>2, <1>3, <1>4, <1>5 DEF Commits

\* A step that leaves every variable but delivery or job in its type.
Bystanders == <<attempts, accepted, phase, counters>>

LEMMA BystanderType ==
  ASSUME TypeOK, UNCHANGED Bystanders,
         delivery' \in [Deliveries -> Row], job' \in [Processes -> [Deliveries -> Job]]
  PROVE  TypeOK'
  BY DEF TypeOK, Bystanders, counters

\* A step of a dispatch that commits one of its transactions.
LEMMA CommittedType ==
  ASSUME TypeOK, NEW p \in Processes, NEW d \in Deliveries, Commits(p, d),
         UNCHANGED <<phase, counters>>, job' \in [Processes -> [Deliveries -> Job]]
  PROVE  TypeOK'
  BY CommitsType DEF TypeOK, counters

THEOREM Typing == Spec => []TypeOK
<1>1. Init => TypeOK
  BY LimitsAssumption, NoJobType DEF Init, TypeOK, NewRow, DigestItem, Row, Status
<1>2. TypeOK /\ [Next]_vars => TypeOK'
  <2> SUFFICES ASSUME TypeOK, [Next]_vars PROVE TypeOK'
    OBVIOUS
  <2> USE DEF Bystanders
  <2>1. ASSUME NEW p \in Processes, Tick(p) PROVE TypeOK'
    <3>1. delivery' \in [Deliveries -> Row]
      BY <2>1, RecoveredType DEF Tick, TypeOK
    <3>2. QED
      BY <2>1, <3>1 DEF Tick, counters, TypeOK
  <2>2. ASSUME NEW p \in Processes, TakeBatch(p) PROVE TypeOK'
    <3>1. PICK b \in SUBSET Due :
            job' = [job EXCEPT ![p] = [d \in Deliveries |->
                      IF d \in b THEN [NoJob EXCEPT !.pc = "queued"] ELSE NoJob]]
      BY <2>2 DEF TakeBatch
    <3>2. [NoJob EXCEPT !.pc = "queued"] \in Job
      BY NoJobType DEF Job, Step
    <3>3. job' \in [Processes -> [Deliveries -> Job]]
      BY <3>1, <3>2, NoJobType DEF TypeOK
    <3>4. QED
      BY <2>2, <3>3 DEF TakeBatch, counters, TypeOK
  <2>3. ASSUME NEW p \in Processes, Crash(p) PROVE TypeOK'
    <3>1. job' \in [Processes -> [Deliveries -> Job]]
      BY <2>3, NoJobType DEF Crash, TypeOK
    <3>2. faults' \in 0..MaxFaults
      BY <2>3, LimitsAssumption DEF Crash, TypeOK
    <3>3. QED
      BY <2>3, <3>1, <3>2 DEF Crash, TypeOK
  <2>4. ASSUME NEW p \in Processes, NEW d \in Deliveries, Dispatch(p, d) PROVE TypeOK'
    <3>1. CASE Snapshot(p, d)
      <4>1. TriggerType(delivery[d]) \in Trigger
        BY DEF TriggerType, Trigger
      <4>2. [job[p][d] EXCEPT !.pc = "claim", !.trigger = TriggerType(delivery[d]),
                              !.requestedBy = delivery[d].retryRequestedById] \in Job
        BY ZenonT(40), <4>1, RowTypes, JobTypes DEF Row, Step
      <4>3. QED
        BY <3>1, <4>2, SetJobType, BystanderType DEF Snapshot, TypeOK
    <3>2. CASE Claim(p, d)
      <4>1. PICK pc \in {"send", "skip"} :
              SetJob(p, d, [job[p][d] EXCEPT !.pc = pc,
                                             !.attempt = delivery[d].attemptCount + 1])
        BY <3>2 DEF Claim
      <4>2. delivery[d].attemptCount + 1 \in Nat
        BY RowTypes DEF Row
      <4>3. [job[p][d] EXCEPT !.pc = pc, !.attempt = delivery[d].attemptCount + 1] \in Job
        BY <4>2, JobTypes DEF Step
      <4>4. job' \in [Processes -> [Deliveries -> Job]]
        BY <4>1, <4>3, SetJobType
      <4>5. QED
        BY <3>2, <4>4, CommittedType DEF Claim, Commits
    <3>3. CASE RenderThrows(p, d)
      BY <3>3, ThrowType, BystanderType DEF RenderThrows, TypeOK
    <3>4. CASE ClaimMiss(p, d) \/ InAppRollback(p, d) \/ UpdateBucket(p, d)
      <4>1. job' \in [Processes -> [Deliveries -> Job]]
        BY <3>4, GotoType DEF ClaimMiss, InAppRollback, UpdateBucket, Step
      <4>2. QED
        BY <3>4, <4>1, BystanderType DEF ClaimMiss, InAppRollback, UpdateBucket, TypeOK
    <3>5. CASE ReadMissed(p, d)
      <4>1. job' \in [Processes -> [Deliveries -> Job]]
        BY <3>5, GotoType, SetJobType, NoJobType DEF ReadMissed, Step
      <4>2. QED
        BY <3>5, <4>1, BystanderType DEF ReadMissed, TypeOK
    <3>6. CASE ProviderAccepts(p, d) \/ ProviderAnswerLost(p, d)
      <4>1. job' \in [Processes -> [Deliveries -> Job]]
        BY <3>6, GotoType DEF ProviderAccepts, ProviderAnswerLost, Refusals, Step
      <4>2. job[p][d].attempt \in Nat
        BY DEF TypeOK, Job
      <4>3. accepted' \in [Deliveries -> SUBSET Nat]
        BY <3>6, <4>2 DEF ProviderAccepts, ProviderAnswerLost, TypeOK
      <4>4. lostAnswers' \in 0..MaxLostAnswers
        BY <3>6, LimitsAssumption DEF ProviderAccepts, ProviderAnswerLost, counters, TypeOK
      <4>5. QED
        BY <3>6, <4>1, <4>3, <4>4 DEF ProviderAccepts, ProviderAnswerLost, counters, TypeOK
    <3>7. CASE ProviderRejects(p, d)
      <4>1. job' \in [Processes -> [Deliveries -> Job]]
        BY <3>7, GotoType DEF ProviderRejects, Refusals, Step
      <4>2. QED
        BY <3>7, <4>1, BystanderType DEF ProviderRejects, TypeOK
    <3>8. CASE RecordSent(p, d) \/ RecordFailed(p, d) \/ RecordSkipped(p, d)
      <4>1. job' \in [Processes -> [Deliveries -> Job]]
        BY <3>8, ResultType DEF RecordSent, RecordFailed, RecordSkipped, Status
      <4>2. QED
        BY <3>8, <4>1, CommittedType DEF RecordSent, RecordFailed, RecordSkipped, Commits
    <3>9. CASE InAppDeliver(p, d) \/ InAppSkip(p, d) \/ InAppRecordFailure(p, d)
      <4>1. job' \in [Processes -> [Deliveries -> Job]]
        BY <3>9, ResultType DEF InAppDeliver, InAppSkip, InAppRecordFailure, Status
      <4>2. QED
        BY <3>9, <4>1, CommittedType
           DEF InAppDeliver, InAppSkip, InAppRecordFailure, Commits
    <3>10. CASE RecordAudit(p, d)
      <4>1. job' \in [Processes -> [Deliveries -> Job]]
        BY <3>10, AfterAuditType DEF RecordAudit
      <4>2. [delivery[d] EXCEPT !.retryRequestedById = NoAdmin] \in Row
        BY RowTypes DEF Row
      <4>3. delivery' \in [Deliveries -> Row]
        BY <3>10, <4>2, SetRowType DEF RecordAudit, TypeOK
      <4>4. ASSUME NEW rows \in SUBSET AttemptRow
            PROVE  WithAttempt(rows, delivery[d].attemptCount, job[p][d].trigger,
                               job[p][d].result) \in SUBSET AttemptRow
        BY RowTypes DEF WithAttempt, AttemptRow, TypeOK, Job, Row
      <4>5. attempts' \in [Deliveries -> SUBSET AttemptRow]
        BY <3>10, <4>4 DEF RecordAudit, TypeOK
      <4>6. QED
        BY <3>10, <4>1, <4>3, <4>5 DEF RecordAudit, counters, TypeOK
    <3>11. CASE HandleRead(p, d)
      <4>1. job' \in [Processes -> [Deliveries -> Job]]
        BY <3>11, GotoType, SetJobType, NoJobType DEF HandleRead, Step
      <4>2. QED
        BY <3>11, <4>1, BystanderType DEF HandleRead, TypeOK
    <3>12. CASE HandleWrite(p, d)
      BY <3>12, SetJobType, NoJobType, CommittedType DEF HandleWrite, Commits
    <3>13. QED
      BY <2>4, <3>1, <3>2, <3>3, <3>4, <3>5, <3>6, <3>7, <3>8, <3>9, <3>10, <3>11, <3>12
         DEF Dispatch
  <2>5. ASSUME NEW p \in Processes, NEW d \in Deliveries,
               DatabaseFails(p, d) \/ CommitAnswerLost(p, d)
        PROVE  TypeOK'
    <3>1. job' \in [Processes -> [Deliveries -> Job]]
      BY <2>5, AfterFaultType DEF DatabaseFails, CommitAnswerLost
    <3>2. faults' \in 0..MaxFaults
      BY <2>5, LimitsAssumption DEF DatabaseFails, CommitAnswerLost, TypeOK
    <3>3. CASE DatabaseFails(p, d)
      BY <3>1, <3>2, <3>3 DEF DatabaseFails, TypeOK
    <3>4. CASE CommitAnswerLost(p, d)
      BY <3>1, <3>2, <3>4, CommitsType DEF CommitAnswerLost, TypeOK
    <3>5. QED
      BY <2>5, <3>3, <3>4
  <2>6. ASSUME NEW a \in Admins, NEW d \in Deliveries, RetryNow(a, d) PROVE TypeOK'
    <3>1. [Released(d, "RETRYING") EXCEPT !.nextAttemptAt = "due",
                                          !.retryRequestedById = a] \in Row
      BY RowTypes, RowRetry DEF Status
    <3>2. delivery' \in [Deliveries -> Row]
      BY <2>6, <3>1, SetRowType DEF RetryNow
    <3>3. manualRetries' \in 0..MaxManualRetries
      BY <2>6, LimitsAssumption DEF RetryNow, TypeOK
    <3>4. QED
      BY <2>6, <3>2, <3>3 DEF RetryNow, TypeOK
  <2>7. ASSUME NEW d \in Deliveries, BackoffElapses(d) \/ LeaseElapses(d) PROVE TypeOK'
    <3>1. /\ [delivery[d] EXCEPT !.nextAttemptAt = "due"] \in Row
          /\ [delivery[d] EXCEPT !.processingStartedAt = "expired"] \in Row
      BY RowTypes DEF Row
    <3>2. delivery' \in [Deliveries -> Row]
      BY <2>7, <3>1, SetRowType DEF BackoffElapses, LeaseElapses, Elapse
    <3>3. delays' \in 0..MaxDelays
      BY <2>7, LimitsAssumption DEF BackoffElapses, LeaseElapses, Elapse, TypeOK
    <3>4. QED
      BY <2>7, <3>2, <3>3 DEF BackoffElapses, LeaseElapses, Elapse, TypeOK
  <2>8. CASE UNCHANGED vars
    BY <2>8 DEF vars, counters, TypeOK
  <2>9. QED
    BY <2>1, <2>2, <2>3, <2>4, <2>5, <2>6, <2>7, <2>8 DEF Next
<1>3. QED
  BY <1>1, <1>2, PTL DEF Spec

(***************************************************************************)
(* What a step does to a row and to a job.                                 *)
(***************************************************************************)
LEMMA RowChange ==
  ASSUME TypeOK, NEW d \in Deliveries, NEW r, SetRow(d, r), NEW e \in Deliveries
  PROVE  delivery'[e] = IF e = d THEN r ELSE delivery[e]
  BY DEF TypeOK, SetRow

LEMMA JobChange ==
  ASSUME TypeOK, NEW p \in Processes, NEW d \in Deliveries, NEW j, SetJob(p, d, j),
         NEW q \in Processes, NEW e \in Deliveries
  PROVE  job'[q][e] = IF q = p /\ e = d THEN j ELSE job[q][e]
  BY DEF TypeOK, SetJob

LEMMA JobFields ==
  ASSUME TypeOK, NEW p \in Processes, NEW d \in Deliveries
  PROVE  /\ \A pc : /\ [job[p][d] EXCEPT !.pc = pc].pc = pc
                    /\ [job[p][d] EXCEPT !.pc = pc].attempt = job[p][d].attempt
                    /\ [job[p][d] EXCEPT !.pc = pc].result = job[p][d].result
         /\ \A pc, s : /\ [job[p][d] EXCEPT !.pc = pc, !.result = s].pc = pc
                       /\ [job[p][d] EXCEPT !.pc = pc, !.result = s].attempt
                            = job[p][d].attempt
                       /\ [job[p][d] EXCEPT !.pc = pc, !.result = s].result = s
         /\ \A pc, s, c :
                /\ [job[p][d] EXCEPT !.pc = pc, !.result = s, !.caught = c].pc = pc
                /\ [job[p][d] EXCEPT !.pc = pc, !.result = s, !.caught = c].result = s
         /\ \A pc, n : /\ [job[p][d] EXCEPT !.pc = pc, !.attempt = n].pc = pc
                       /\ [job[p][d] EXCEPT !.pc = pc, !.attempt = n].attempt = n
         /\ \A pc, t, a : [job[p][d] EXCEPT !.pc = pc, !.trigger = t,
                                            !.requestedBy = a].pc = pc
         /\ NoJob.pc = "none"
         /\ [NoJob EXCEPT !.pc = "queued"].pc = "queued"
  <1>1. job[p][d] \in Job
    BY DEF TypeOK
  <1>2. QED
    BY <1>1 DEF Job, NoJob

\* Only the job of one row on one replica moves.
Moved(p, d) ==
    \A q \in Processes, e \in Deliveries : q # p \/ e # d => job'[q][e] = job[q][e]

LEMMA JobMoves ==
  ASSUME TypeOK, NEW p \in Processes, NEW d \in Deliveries
  PROVE  /\ \A j : SetJob(p, d, j) => Moved(p, d)
         /\ \A pc : Goto(p, d, pc) => /\ Moved(p, d)
                                      /\ job'[p][d].pc = pc
                                      /\ job'[p][d].attempt = job[p][d].attempt
                                      /\ job'[p][d].result = job[p][d].result
         /\ \A s : Return(p, d, s) => /\ Moved(p, d)
                                      /\ job'[p][d].pc = "audit"
                                      /\ job'[p][d].result = s
         /\ \A s : Conclude(p, d, s) =>
                /\ Moved(p, d)
                /\ job'[p][d].pc = IF d \in Carriers THEN "bucket" ELSE "audit"
                /\ job'[p][d].attempt = job[p][d].attempt
                /\ job'[p][d].result = s
         /\ Throw(p, d) => /\ Moved(p, d)
                           /\ job'[p][d].pc = "audit" /\ job'[p][d].result = "FAILED"
         /\ SetJob(p, d, NoJob) => job'[p][d].pc = "none"
  <1>1. ASSUME NEW j, SetJob(p, d, j) PROVE Moved(p, d) /\ job'[p][d] = j
    BY <1>1, JobChange DEF Moved
  <1>2. ASSUME NEW pc, Goto(p, d, pc)
        PROVE  /\ Moved(p, d)
               /\ job'[p][d].pc = pc
               /\ job'[p][d].attempt = job[p][d].attempt
               /\ job'[p][d].result = job[p][d].result
    <2>1. Moved(p, d) /\ job'[p][d] = [job[p][d] EXCEPT !.pc = pc]
      BY <1>1, <1>2 DEF Goto
    <2>2. QED
      BY <2>1, JobFields
  <1>3. ASSUME NEW s, Return(p, d, s)
        PROVE  Moved(p, d) /\ job'[p][d].pc = "audit" /\ job'[p][d].result = s
    <2>1. Moved(p, d) /\ job'[p][d] = [job[p][d] EXCEPT !.pc = "audit", !.result = s]
      BY <1>1, <1>3 DEF Return
    <2>2. QED
      BY <2>1, JobFields
  <1>4. ASSUME NEW s, Conclude(p, d, s)
        PROVE  /\ Moved(p, d)
               /\ job'[p][d].pc = IF d \in Carriers THEN "bucket" ELSE "audit"
               /\ job'[p][d].attempt = job[p][d].attempt
               /\ job'[p][d].result = s
    <2>1. PICK pc : pc = IF d \in Carriers THEN "bucket" ELSE "audit"
      OBVIOUS
    <2>2. Moved(p, d) /\ job'[p][d] = [job[p][d] EXCEPT !.pc = pc, !.result = s]
      BY <1>1, <1>4, <2>1 DEF Conclude
    <2>3. /\ job'[p][d].pc = pc
          /\ job'[p][d].attempt = job[p][d].attempt
          /\ job'[p][d].result = s
      BY <2>2, JobFields
    <2>4. QED
      BY <2>1, <2>2, <2>3
  <1>5. ASSUME Throw(p, d)
        PROVE  Moved(p, d) /\ job'[p][d].pc = "audit" /\ job'[p][d].result = "FAILED"
    <2>1. /\ Moved(p, d)
          /\ job'[p][d] = [job[p][d] EXCEPT !.pc = "audit", !.result = "FAILED",
                                            !.caught = TRUE]
      BY <1>1, <1>5 DEF Throw
    <2>2. QED
      BY <2>1, JobFields
  <1>6. SetJob(p, d, NoJob) => job'[p][d].pc = "none"
    BY <1>1 DEF NoJob
  <1>7. QED
    BY <1>1, <1>2, <1>3, <1>4, <1>5, <1>6

(***************************************************************************)
(* Which steps write the tables: the transactions of a dispatch, whether   *)
(* their answer arrives or not, the audit, the provider, and the clocks.   *)
(***************************************************************************)
Tables == <<delivery, attempts, accepted>>

LEMMA DispatchKinds ==
  ASSUME NEW p \in Processes, NEW d \in Deliveries, Dispatch(p, d)
  PROVE  \/ Commits(p, d) \/ RecordAudit(p, d)
         \/ ProviderAccepts(p, d) \/ ProviderAnswerLost(p, d)
         \/ UNCHANGED Tables
  <1>1. CASE Claim(p, d) \/ RecordSent(p, d) \/ RecordFailed(p, d) \/ RecordSkipped(p, d)
          \/ InAppDeliver(p, d) \/ InAppSkip(p, d) \/ InAppRecordFailure(p, d)
          \/ HandleWrite(p, d)
    BY <1>1 DEF Commits, Claim, RecordSent, RecordFailed, RecordSkipped, InAppDeliver,
                InAppSkip, InAppRecordFailure, HandleWrite
  <1>2. CASE Snapshot(p, d) \/ RenderThrows(p, d) \/ ClaimMiss(p, d) \/ ReadMissed(p, d)
          \/ ProviderRejects(p, d) \/ UpdateBucket(p, d) \/ InAppRollback(p, d)
          \/ HandleRead(p, d)
    BY <1>2 DEF Tables, Snapshot, RenderThrows, ClaimMiss, ReadMissed, ProviderRejects,
                UpdateBucket, InAppRollback, HandleRead
  <1>3. QED
    BY <1>1, <1>2 DEF Dispatch

LEMMA NextKinds ==
  ASSUME [Next]_vars
  PROVE  \/ \E p \in Processes : Tick(p)
         \/ \E p \in Processes, d \in Deliveries :
                \/ Commits(p, d) \/ RecordAudit(p, d)
                \/ ProviderAccepts(p, d) \/ ProviderAnswerLost(p, d)
         \/ \E a \in Admins, d \in Deliveries : RetryNow(a, d)
         \/ \E d \in Deliveries : BackoffElapses(d) \/ LeaseElapses(d)
         \/ UNCHANGED Tables
  <1>1. CASE UNCHANGED vars
    BY <1>1 DEF vars, Tables
  <1>2. ASSUME NEW p \in Processes, TakeBatch(p) \/ Crash(p) PROVE UNCHANGED Tables
    BY <1>2 DEF TakeBatch, Crash, Tables
  <1>3. ASSUME NEW p \in Processes, NEW d \in Deliveries,
               DatabaseFails(p, d) \/ CommitAnswerLost(p, d)
        PROVE  Commits(p, d) \/ UNCHANGED Tables
    BY <1>3 DEF DatabaseFails, CommitAnswerLost, Tables
  <1>4. CASE Next
    BY <1>2, <1>3, <1>4, DispatchKinds DEF Next
  <1>5. QED
    BY <1>1, <1>4

(***************************************************************************)
(* attemptCount never decreases: no step of any replica, administrator or  *)
(* clock takes an attempt back.                                            *)
(***************************************************************************)
CountGrows ==
    \A e \in Deliveries : delivery'[e].attemptCount >= delivery[e].attemptCount

LEMMA CountFields ==
  ASSUME TypeOK, NEW d \in Deliveries
  PROVE  /\ delivery[d].attemptCount \in Nat
         /\ ClaimedRow(d).attemptCount = delivery[d].attemptCount + 1
         /\ Recovered(delivery[d]).attemptCount = delivery[d].attemptCount
  <1>1. delivery[d] \in Row
    BY DEF TypeOK
  <1>2. QED
    BY <1>1 DEF Row, ClaimedRow, Recovered

LEMMA CountOfRow ==
  ASSUME TypeOK, NEW d \in Deliveries, NEW r, SetRow(d, r),
         r.attemptCount >= delivery[d].attemptCount
  PROVE  CountGrows
  BY RowChange, CountFields DEF CountGrows

\* The rows the queue, the handlers, the audit and the clocks write.
LEMMA CountKept ==
  ASSUME TypeOK, NEW d \in Deliveries, NEW s, NEW n, NEW a,
         \/ SetRow(d, Released(d, s))
         \/ SetRow(d, [Released(d, s) EXCEPT !.nextAttemptAt = n])
         \/ SetRow(d, [Released(d, s) EXCEPT !.nextAttemptAt = n,
                                             !.retryRequestedById = a])
         \/ SetRow(d, [Released(d, s) EXCEPT !.attemptCount = @ + 1])
         \/ SetRow(d, [delivery[d] EXCEPT !.retryRequestedById = a])
         \/ SetRow(d, [delivery[d] EXCEPT !.nextAttemptAt = n])
         \/ SetRow(d, [delivery[d] EXCEPT !.processingStartedAt = n])
         \/ SetRow(d, ClaimedRow(d))
         \/ SetRow(d, [ClaimedRow(d) EXCEPT !.status = s, !.processingStartedAt = "none"])
  PROVE  CountGrows
  <1>1. delivery[d] \in Row
    BY DEF TypeOK
  <1>2. /\ Released(d, s).attemptCount >= delivery[d].attemptCount
        /\ [Released(d, s) EXCEPT !.nextAttemptAt = n].attemptCount
             >= delivery[d].attemptCount
        /\ [Released(d, s) EXCEPT !.nextAttemptAt = n, !.retryRequestedById = a].attemptCount
             >= delivery[d].attemptCount
        /\ [Released(d, s) EXCEPT !.attemptCount = @ + 1].attemptCount
             >= delivery[d].attemptCount
    BY <1>1 DEF Row, Released
  <1>3. /\ [delivery[d] EXCEPT !.retryRequestedById = a].attemptCount
             >= delivery[d].attemptCount
        /\ [delivery[d] EXCEPT !.nextAttemptAt = n].attemptCount
             >= delivery[d].attemptCount
        /\ [delivery[d] EXCEPT !.processingStartedAt = n].attemptCount
             >= delivery[d].attemptCount
    BY <1>1 DEF Row
  <1>4. /\ ClaimedRow(d).attemptCount >= delivery[d].attemptCount
        /\ [ClaimedRow(d) EXCEPT !.status = s, !.processingStartedAt = "none"].attemptCount
             >= delivery[d].attemptCount
    BY <1>1 DEF Row, ClaimedRow
  <1>5. QED
    BY <1>2, <1>3, <1>4, CountOfRow

LEMMA CountOfCommits ==
  ASSUME TypeOK, NEW p \in Processes, NEW d \in Deliveries, Commits(p, d)
  PROVE  CountGrows
  <1>1. CASE UNCHANGED delivery
    BY <1>1, CountFields DEF CountGrows
  <1>2. CASE ClaimsRow(p, d) \/ PutsInInbox(p, d) \/ SkipsInbox(p, d)
    BY <1>2, CountKept DEF ClaimsRow, PutsInInbox, SkipsInbox
  <1>3. CASE WritesOutcome(p, d) \/ WritesPolicy(p, d)
    BY <1>3, CountKept DEF WritesOutcome, WritesPolicy
  <1>4. CASE CountsFailure(p, d)
    BY <1>1, <1>4, CountKept DEF CountsFailure
  <1>5. QED
    BY <1>2, <1>3, <1>4 DEF Commits

LEMMA CountMonotone == TypeOK /\ [Next]_vars => CountGrows
  <1> SUFFICES ASSUME TypeOK, [Next]_vars PROVE CountGrows
    OBVIOUS
  <1>0. ASSUME UNCHANGED delivery PROVE CountGrows
    BY <1>0, CountFields DEF CountGrows
  <1>1. ASSUME NEW p \in Processes, Tick(p) PROVE CountGrows
    BY <1>1, CountFields DEF Tick, CountGrows
  <1>2. ASSUME NEW p \in Processes, NEW d \in Deliveries, RecordAudit(p, d)
        PROVE  CountGrows
    BY <1>0, <1>2, CountKept DEF RecordAudit
  <1>3. ASSUME NEW p \in Processes, NEW d \in Deliveries,
               ProviderAccepts(p, d) \/ ProviderAnswerLost(p, d)
        PROVE  CountGrows
    BY <1>0, <1>3 DEF ProviderAccepts, ProviderAnswerLost
  <1>4. ASSUME NEW a \in Admins, NEW d \in Deliveries, RetryNow(a, d) PROVE CountGrows
    BY <1>4, CountKept DEF RetryNow
  <1>5. ASSUME NEW d \in Deliveries, BackoffElapses(d) \/ LeaseElapses(d)
        PROVE  CountGrows
    BY <1>5, CountKept DEF BackoffElapses, LeaseElapses, Elapse
  <1>6. CASE UNCHANGED Tables
    BY <1>0, <1>6 DEF Tables
  <1>7. QED
    BY <1>1, <1>2, <1>3, <1>4, <1>5, <1>6, CountOfCommits, NextKinds

(***************************************************************************)
(* An attempt number is the ticket for one message: two dispatches never   *)
(* own the same one, and what is being sent was not accepted before.  The  *)
(* induction needs TicketsCounted: the number a claim draws is new because *)
(* every number drawn so far is at most attemptCount.                      *)
(***************************************************************************)
Tickets == TicketsCounted /\ AttemptsNotShared

\* No dispatch gains an attempt, and none moves on to send or sent.
Quiet ==
    \A q \in Processes, e \in Deliveries :
        job'[q][e].pc \in Owning =>
            /\ job[q][e].pc \in Owning
            /\ job'[q][e].attempt = job[q][e].attempt
            /\ job'[q][e].pc \in {"send", "sent"} => job'[q][e].pc = job[q][e].pc

LEMMA QuietByMove ==
  ASSUME NEW p \in Processes, NEW d \in Deliveries, Moved(p, d),
         job'[p][d].pc \in Owning => /\ job[p][d].pc \in Owning
                                     /\ job'[p][d].attempt = job[p][d].attempt
                                     /\ job'[p][d].pc \notin {"send", "sent"}
  PROVE  Quiet
  BY DEF Moved, Quiet

LEMMA QuietByGoto ==
  ASSUME TypeOK, NEW p \in Processes, NEW d \in Deliveries, NEW pc, Goto(p, d, pc),
         pc \notin {"send", "sent"}, pc \in Owning => job[p][d].pc \in Owning
  PROVE  Quiet
  BY JobMoves, QuietByMove

LEMMA QuietByResult ==
  ASSUME TypeOK, NEW p \in Processes, NEW d \in Deliveries, NEW s,
         \/ Return(p, d, s) \/ Throw(p, d)
         \/ Conclude(p, d, s) /\ job[p][d].pc \in Owning
  PROVE  Quiet
  <1>1. /\ Moved(p, d)
        /\ job'[p][d].pc \in {"bucket", "audit"}
        /\ job'[p][d].pc = "bucket" => /\ job[p][d].pc \in Owning
                                       /\ job'[p][d].attempt = job[p][d].attempt
    BY JobMoves
  <1>2. QED
    BY <1>1, QuietByMove DEF Owning

LEMMA QuietByEnd ==
  ASSUME TypeOK, NEW p \in Processes, NEW d \in Deliveries, SetJob(p, d, NoJob)
  PROVE  Quiet
  BY JobMoves, QuietByMove DEF Owning

LEMMA QuietByAudit ==
  ASSUME TypeOK, NEW p \in Processes, NEW d \in Deliveries, AfterAudit(p, d)
  PROVE  Quiet
  BY QuietByEnd, QuietByGoto DEF AfterAudit, Owning

LEMMA QuietByFault ==
  ASSUME TypeOK, NEW p \in Processes, NEW d \in Deliveries, AfterFault(p, d)
  PROVE  Quiet
  <1>1. CASE CaughtByHandler(p, d) /\ Goto(p, d, "failed")
    BY <1>1, QuietByGoto DEF CaughtByHandler, Owning
  <1>2. CASE AfterAudit(p, d) \/ Throw(p, d) \/ SetJob(p, d, NoJob)
          \/ Goto(p, d, "rolledBack")
    BY <1>2, QuietByAudit, QuietByResult, QuietByEnd, QuietByGoto DEF Owning
  <1>3. QED
    BY <1>1, <1>2 DEF AfterFault

LEMMA QuietKeepsTickets ==
  ASSUME TypeOK, TypeOK', Tickets, Quiet, CountGrows, UNCHANGED accepted
  PROVE  Tickets'
  <1>1. \A e \in Deliveries : /\ delivery[e].attemptCount \in Nat
                              /\ delivery'[e].attemptCount \in Nat
    BY DEF TypeOK, Row
  <1>2. \A e \in Deliveries :
           1..delivery[e].attemptCount \subseteq 1..delivery'[e].attemptCount
    BY <1>1 DEF CountGrows
  <1>3. TicketsCounted'
    BY <1>2 DEF Tickets, TicketsCounted, Quiet, At, Owns, Owning
  <1>4. AttemptsNotShared'
    BY DEF Tickets, AttemptsNotShared, Quiet, At, Owns, Owning
  <1>5. QED
    BY <1>3, <1>4 DEF Tickets

\* A message put in the inbox has the number of an attempt nobody else has drawn.
LEMMA InboxKeepsTickets ==
  ASSUME TypeOK, TypeOK', Tickets, Quiet, CountGrows,
         NEW p \in Processes, NEW d \in Deliveries, PutsInInbox(p, d)
  PROVE  Tickets'
  <1> DEFINE n(e) == delivery[e].attemptCount
             n1(e) == delivery'[e].attemptCount
  <1>1. \A e \in Deliveries : n(e) \in Nat /\ n1(e) \in Nat /\ n1(e) >= n(e)
    BY DEF TypeOK, Row, CountGrows
  <1>2. \A e \in Deliveries :
           accepted'[e] = IF e = d THEN accepted[d] \union {n(d) + 1} ELSE accepted[e]
    BY DEF PutsInInbox, TypeOK
  <1>3. n1(d) = n(d) + 1
    <2>1. delivery[d] \in Row
      BY DEF TypeOK
    <2>2. [ClaimedRow(d) EXCEPT !.status = "DELIVERED",
                                !.processingStartedAt = "none"].attemptCount = n(d) + 1
      BY <2>1 DEF ClaimedRow, Row
    <2>3. QED
      BY <2>2, RowChange DEF PutsInInbox
  <1>4. \A e \in Deliveries : 1..n(e) \subseteq 1..n1(e)
    BY <1>1
  <1>5. n1(d) \in 1..n1(d) /\ n1(d) \notin 1..n(d)
    BY <1>1, <1>3
  <1>6. TicketsCounted'
    BY <1>2, <1>3, <1>4, <1>5 DEF Tickets, TicketsCounted, Quiet, Owns, At, Owning
  <1>7. AttemptsNotShared'
    BY <1>2, <1>3, <1>5
       DEF Tickets, TicketsCounted, AttemptsNotShared, Quiet, Owns, At, Owning
  <1>8. QED
    BY <1>6, <1>7 DEF Tickets

\* A message taken by the provider spends the ticket of its dispatch.
LEMMA ProviderKeepsTickets ==
  ASSUME TypeOK, Tickets, NEW p \in Processes, NEW d \in Deliveries,
         ProviderAccepts(p, d) \/ ProviderAnswerLost(p, d)
  PROVE  Tickets'
  <1>1. PICK pc \in {"sent", "rejected", "failed"} : Goto(p, d, pc)
    BY DEF ProviderAccepts, ProviderAnswerLost, Refusals
  <1>2. /\ job'[p][d].pc = pc
        /\ job'[p][d].attempt = job[p][d].attempt
    <2>1. job'[p][d] = [job[p][d] EXCEPT !.pc = pc]
      BY <1>1, JobChange DEF Goto
    <2>2. QED
      BY <2>1, JobFields
  <1>3. \A q \in Processes, e \in Deliveries :
           q # p \/ e # d => job'[q][e] = job[q][e]
    BY <1>1, JobChange DEF Goto
  <1>4. UNCHANGED delivery
    BY DEF ProviderAccepts, ProviderAnswerLost
  <1>5. \A e \in Deliveries :
           accepted'[e] = IF e = d THEN accepted[d] \union {job[p][d].attempt}
                                   ELSE accepted[e]
    BY DEF ProviderAccepts, ProviderAnswerLost, TypeOK
  <1>6. job[p][d].pc = "send"
    BY DEF ProviderAccepts, ProviderAnswerLost, At
  <1>7. TicketsCounted'
    BY <1>1, <1>2, <1>3, <1>4, <1>5, <1>6 DEF Tickets, TicketsCounted, Owns, At, Owning
  <1>8. AttemptsNotShared'
    BY <1>1, <1>2, <1>3, <1>5, <1>6 DEF Tickets, AttemptsNotShared, Owns, At, Owning
  <1>9. QED
    BY <1>7, <1>8 DEF Tickets

LEMMA TicketsStep == TypeOK /\ TypeOK' /\ Tickets /\ [Next]_vars => Tickets'
  <1> SUFFICES ASSUME TypeOK, TypeOK', Tickets, [Next]_vars PROVE Tickets'
    OBVIOUS
  <1> DEFINE n(e) == delivery[e].attemptCount
             n1(e) == delivery'[e].attemptCount
  <1>a. CountGrows
    BY CountMonotone
  <1>b. \A e \in Deliveries : n(e) \in Nat /\ n1(e) \in Nat /\ n1(e) >= n(e)
    BY <1>a DEF TypeOK, Row, CountGrows
  <1>c. ASSUME Quiet, UNCHANGED accepted PROVE Tickets'
    BY <1>a, <1>c, QuietKeepsTickets
  <1>d. ASSUME UNCHANGED <<accepted, job>> PROVE Tickets'
    BY <1>c, <1>d DEF Quiet
  <1>1. ASSUME NEW p \in Processes, Tick(p) PROVE Tickets'
    BY <1>1, <1>d DEF Tick
  <1>2. ASSUME NEW p \in Processes, TakeBatch(p) PROVE Tickets'
    <2>1. \A e \in Deliveries : job'[p][e].pc \notin Owning
      BY <1>2, JobFields DEF TakeBatch, TypeOK, Owning
    <2>2. \A q \in Processes \ {p}, e \in Deliveries : job'[q][e] = job[q][e]
      BY <1>2 DEF TakeBatch, TypeOK
    <2>3. Quiet
      BY <2>1, <2>2 DEF Quiet
    <2>4. QED
      BY <1>2, <1>c, <2>3 DEF TakeBatch
  <1>3. ASSUME NEW p \in Processes, Crash(p) PROVE Tickets'
    <2>1. \A e \in Deliveries : job'[p][e].pc \notin Owning
      BY <1>3, JobFields DEF Crash, TypeOK, Owning
    <2>2. \A q \in Processes \ {p}, e \in Deliveries : job'[q][e] = job[q][e]
      BY <1>3 DEF Crash, TypeOK
    <2>3. Quiet
      BY <2>1, <2>2 DEF Quiet
    <2>4. QED
      BY <1>3, <1>c, <2>3 DEF Crash
  <1>4. ASSUME NEW p \in Processes, NEW d \in Deliveries, Dispatch(p, d) PROVE Tickets'
    <2>1. CASE Snapshot(p, d)
      <3>1. /\ job'[p][d] = [job[p][d] EXCEPT
                   !.pc = "claim", !.trigger = TriggerType(delivery[d]),
                   !.requestedBy = delivery[d].retryRequestedById]
            /\ Moved(p, d)
        BY <2>1, JobChange, JobMoves DEF Snapshot
      <3>2. job'[p][d].pc = "claim"
        BY <3>1, JobFields
      <3>3. Quiet
        BY <3>1, <3>2, QuietByMove DEF Owning
      <3>4. QED
        BY <2>1, <1>c, <3>3 DEF Snapshot
    <2>2. CASE Claim(p, d)
      <3>1. PICK pc \in {"send", "skip"} :
              SetJob(p, d, [job[p][d] EXCEPT !.pc = pc, !.attempt = n(d) + 1])
        BY <2>2 DEF Claim
      <3>2. /\ job'[p][d].pc = pc
            /\ job'[p][d].attempt = n(d) + 1
        <4>1. job'[p][d] = [job[p][d] EXCEPT !.pc = pc, !.attempt = n(d) + 1]
          BY <3>1, JobChange
        <4>2. QED
          BY <4>1, JobFields
      <3>3. \A q \in Processes, e \in Deliveries :
               q # p \/ e # d => job'[q][e] = job[q][e]
        BY <3>1, JobChange
      <3>4. n1(d) = n(d) + 1
        BY <2>2, RowChange, CountFields DEF Claim, ClaimsRow
      <3>5. UNCHANGED accepted
        BY <2>2 DEF Claim, ClaimsRow
      <3>6. \A e \in Deliveries : 1..n(e) \subseteq 1..n1(e)
        BY <1>b
      <3>7. n1(d) \in 1..n1(d) /\ n1(d) \notin 1..n(d)
        BY <1>b, <3>4
      <3>8. TicketsCounted'
        BY <3>1, <3>2, <3>3, <3>4, <3>5, <3>6, <3>7
           DEF Tickets, TicketsCounted, Owns, At, Owning
      <3>9. AttemptsNotShared'
        BY <3>1, <3>2, <3>3, <3>4, <3>5, <3>7
           DEF Tickets, TicketsCounted, AttemptsNotShared, Owns, At, Owning
      <3>10. QED
        BY <3>8, <3>9 DEF Tickets
    <2>3. CASE RecordSent(p, d) \/ RecordFailed(p, d) \/ RecordSkipped(p, d)
      <3>1. Quiet
        BY <2>3, QuietByResult DEF RecordSent, RecordFailed, RecordSkipped, At, Owning
      <3>2. QED
        BY <2>3, <1>c, <3>1 DEF RecordSent, RecordFailed, RecordSkipped, WritesOutcome
    <2>4. CASE RenderThrows(p, d) \/ InAppSkip(p, d) \/ InAppRecordFailure(p, d)
      <3>1. Quiet
        BY <2>4, QuietByResult DEF RenderThrows, InAppSkip, InAppRecordFailure
      <3>2. QED
        BY <2>4, <1>c, <3>1
           DEF RenderThrows, InAppSkip, InAppRecordFailure, SkipsInbox, CountsFailure
    <2>5. CASE ClaimMiss(p, d) \/ ReadMissed(p, d) \/ ProviderRejects(p, d)
            \/ UpdateBucket(p, d) \/ InAppRollback(p, d) \/ HandleRead(p, d)
      <3>1. Quiet
        BY <2>5, QuietByGoto, QuietByEnd
           DEF ClaimMiss, ReadMissed, ProviderRejects, Refusals, UpdateBucket,
               InAppRollback, HandleRead, At, Owning
      <3>2. QED
        BY <2>5, <1>c, <3>1
           DEF ClaimMiss, ReadMissed, ProviderRejects, UpdateBucket, InAppRollback,
               HandleRead
    <2>6. CASE HandleWrite(p, d)
      BY <2>6, <1>c, QuietByEnd DEF HandleWrite, WritesPolicy
    <2>7. CASE RecordAudit(p, d)
      BY <2>7, <1>c, QuietByAudit DEF RecordAudit
    <2>8. CASE ProviderAccepts(p, d) \/ ProviderAnswerLost(p, d)
      BY <2>8, ProviderKeepsTickets
    <2>9. CASE InAppDeliver(p, d)
      BY <2>9, <1>a, QuietByResult, InboxKeepsTickets DEF InAppDeliver
    <2>10. QED
      BY <1>4, <2>1, <2>2, <2>3, <2>4, <2>5, <2>6, <2>7, <2>8, <2>9 DEF Dispatch
  <1>5. ASSUME NEW p \in Processes, NEW d \in Deliveries,
               DatabaseFails(p, d) \/ CommitAnswerLost(p, d)
        PROVE  Tickets'
    <2>1. Quiet
      BY <1>5, QuietByFault DEF DatabaseFails, CommitAnswerLost
    <2>2. PutsInInbox(p, d) \/ UNCHANGED accepted
      BY <1>5 DEF DatabaseFails, CommitAnswerLost, Commits, ClaimsRow, WritesOutcome,
                  SkipsInbox, CountsFailure, WritesPolicy
    <2>3. QED
      BY <1>a, <1>c, <2>1, <2>2, InboxKeepsTickets
  <1>6. ASSUME NEW a \in Admins, NEW d \in Deliveries, RetryNow(a, d) PROVE Tickets'
    BY <1>6, <1>d DEF RetryNow
  <1>7. ASSUME NEW d \in Deliveries, BackoffElapses(d) \/ LeaseElapses(d) PROVE Tickets'
    BY <1>7, <1>d DEF BackoffElapses, LeaseElapses, Elapse
  <1>8. CASE UNCHANGED vars
    BY <1>8, <1>d DEF vars
  <1>9. QED
    BY <1>1, <1>2, <1>3, <1>4, <1>5, <1>6, <1>7, <1>8 DEF Next

LEMMA TicketsInvariant == Spec => []Tickets
<1>1. Init => Tickets
  BY DEF Init, NoJob, Tickets, TicketsCounted, AttemptsNotShared, Owns, At, Owning
<1>2. QED
  BY <1>1, TicketsStep, Typing, PTL DEF Spec

THEOREM NoSharedAttempts == Spec => []AttemptsNotShared
  BY TicketsInvariant, PTL DEF Tickets

THEOREM EveryMessageCounted == Spec => []TicketsCounted
  BY TicketsInvariant, PTL DEF Tickets

(***************************************************************************)
(* A row is SENT or DELIVERED only if a message was accepted for it: the   *)
(* only step to SENT is taken by a dispatch whose attempt was accepted,    *)
(* and nothing accepted is ever forgotten.                                 *)
(***************************************************************************)
Reported == {"SENT", "DELIVERED"}

LEMMA AcceptedGrows ==
  TypeOK /\ [Next]_vars => \A e \in Deliveries : accepted[e] \subseteq accepted'[e]
  <1> SUFFICES ASSUME TypeOK, [Next]_vars
               PROVE  \A e \in Deliveries : accepted[e] \subseteq accepted'[e]
    OBVIOUS
  <1>1. CASE UNCHANGED accepted
    BY <1>1
  <1>2. ASSUME NEW p \in Processes, NEW d \in Deliveries,
               ProviderAccepts(p, d) \/ ProviderAnswerLost(p, d) \/ PutsInInbox(p, d)
        PROVE  \A e \in Deliveries : accepted[e] \subseteq accepted'[e]
    BY <1>2 DEF ProviderAccepts, ProviderAnswerLost, PutsInInbox, TypeOK
  <1>3. ASSUME NEW p \in Processes, NEW d \in Deliveries, Commits(p, d)
        PROVE  PutsInInbox(p, d) \/ UNCHANGED accepted
    BY <1>3 DEF Commits, ClaimsRow, WritesOutcome, SkipsInbox, CountsFailure, WritesPolicy
  <1>4. QED
    BY <1>1, <1>2, <1>3, NextKinds
       DEF Tick, RecordAudit, RetryNow, BackoffElapses, LeaseElapses, Elapse, Tables

\* The status and the lease stamp of the row a step writes.
LEMMA StatusFields ==
  ASSUME TypeOK, NEW d \in Deliveries
  PROVE  /\ ClaimedRow(d).status = "PROCESSING"
         /\ ClaimedRow(d).processingStartedAt = "fresh"
         /\ \A s : Released(d, s).status = s
         /\ \A s : Released(d, s).processingStartedAt = "none"
  <1>1. delivery[d] \in Row
    BY DEF TypeOK
  <1>2. QED
    BY <1>1 DEF Row, ClaimedRow, Released

\* The status and the stamp a row has after each kind of step.
RowStep(d, s, stamp) ==
    /\ delivery'[d].status = s
    /\ delivery'[d].processingStartedAt = stamp
    /\ \A e \in Deliveries \ {d} : delivery'[e] = delivery[e]

LEMMA RowStepOf ==
  ASSUME TypeOK, NEW d \in Deliveries, NEW r, SetRow(d, r)
  PROVE  RowStep(d, r.status, r.processingStartedAt)
  BY RowChange DEF RowStep

LEMMA RowStepReleased ==
  ASSUME TypeOK, NEW d \in Deliveries, NEW s, NEW n, NEW a,
         \/ SetRow(d, Released(d, s))
         \/ SetRow(d, [Released(d, s) EXCEPT !.nextAttemptAt = n])
         \/ SetRow(d, [Released(d, s) EXCEPT !.nextAttemptAt = n,
                                             !.retryRequestedById = a])
         \/ SetRow(d, [Released(d, s) EXCEPT !.attemptCount = @ + 1])
         \/ SetRow(d, [ClaimedRow(d) EXCEPT !.status = s, !.processingStartedAt = "none"])
  PROVE  RowStep(d, s, "none")
  <1>1. delivery[d] \in Row
    BY DEF TypeOK
  <1> DEFINE Frees(r) == r.status = s /\ r.processingStartedAt = "none"
  <1>2. /\ Frees(Released(d, s))
        /\ Frees([Released(d, s) EXCEPT !.nextAttemptAt = n])
        /\ Frees([Released(d, s) EXCEPT !.nextAttemptAt = n, !.retryRequestedById = a])
        /\ Frees([Released(d, s) EXCEPT !.attemptCount = @ + 1])
    BY <1>1 DEF Row, Released
  <1>3. Frees([ClaimedRow(d) EXCEPT !.status = s, !.processingStartedAt = "none"])
    BY <1>1 DEF Row, ClaimedRow
  <1>4. ASSUME NEW r, SetRow(d, r), Frees(r) PROVE RowStep(d, s, "none")
    BY <1>4, RowStepOf
  <1> HIDE DEF Frees
  <1>5. QED
    BY <1>2, <1>3, <1>4

LEMMA RowStepKept ==
  ASSUME TypeOK, NEW d \in Deliveries, NEW n, NEW a,
         \/ SetRow(d, [delivery[d] EXCEPT !.retryRequestedById = a])
         \/ SetRow(d, [delivery[d] EXCEPT !.nextAttemptAt = n])
  PROVE  RowStep(d, delivery[d].status, delivery[d].processingStartedAt)
  <1>1. delivery[d] \in Row
    BY DEF TypeOK
  <1>2. PICK r : /\ SetRow(d, r)
                 /\ r.status = delivery[d].status
                 /\ r.processingStartedAt = delivery[d].processingStartedAt
    BY <1>1 DEF Row
  <1>3. QED
    BY <1>2, RowStepOf

LEMMA RowStepClaimed ==
  ASSUME TypeOK, NEW d \in Deliveries, SetRow(d, ClaimedRow(d))
  PROVE  RowStep(d, "PROCESSING", "fresh")
  BY RowStepOf, StatusFields

LEMMA RowStepExpired ==
  ASSUME TypeOK, NEW d \in Deliveries,
         SetRow(d, [delivery[d] EXCEPT !.processingStartedAt = "expired"])
  PROVE  RowStep(d, delivery[d].status, "expired")
  <1>1. delivery[d] \in Row
    BY DEF TypeOK
  <1>2. /\ [delivery[d] EXCEPT !.processingStartedAt = "expired"].status
             = delivery[d].status
        /\ [delivery[d] EXCEPT !.processingStartedAt = "expired"].processingStartedAt
             = "expired"
    BY <1>1 DEF Row
  <1>3. QED
    BY <1>2, RowStepOf

\* What any step may do to a row's status and lease stamp.
RowSteps ==
    \/ \A d \in Deliveries : delivery'[d] = Recovered(delivery[d])
    \/ UNCHANGED delivery
    \/ \E d \in Deliveries :
        \/ RowStep(d, "PROCESSING", "fresh")
        \/ \E s \in {"FAILED", "SKIPPED", "RETRYING"} : RowStep(d, s, "none")
        \/ RowStep(d, "SENT", "none") /\ \E p \in Processes : At(p, d, "sent")
        \/ RowStep(d, "DELIVERED", "none") /\ accepted'[d] # {}
        \/ RowStep(d, delivery[d].status, delivery[d].processingStartedAt)
        \/ /\ delivery[d].processingStartedAt = "fresh"
           /\ RowStep(d, delivery[d].status, "expired")

LEMMA RowStepsOfCommits ==
  ASSUME TypeOK, NEW p \in Processes, NEW d \in Deliveries, Commits(p, d)
  PROVE  RowSteps
  <1>1. CASE ClaimsRow(p, d)
    BY <1>1, RowStepClaimed DEF ClaimsRow, RowSteps
  <1>2. CASE WritesOutcome(p, d)
    <2>1. \/ RowStep(d, "SENT", "none") /\ At(p, d, "sent")
          \/ RowStep(d, "FAILED", "none") \/ RowStep(d, "SKIPPED", "none")
      BY <1>2, RowStepReleased DEF WritesOutcome
    <2>2. QED
      BY <2>1 DEF RowSteps
  <1>3. CASE PutsInInbox(p, d)
    <2>1. RowStep(d, "DELIVERED", "none")
      BY <1>3, RowStepReleased DEF PutsInInbox
    <2>2. accepted'[d] # {}
      BY <1>3 DEF PutsInInbox, TypeOK
    <2>3. QED
      BY <2>1, <2>2 DEF RowSteps
  <1>4. CASE SkipsInbox(p, d) \/ CountsFailure(p, d) \/ WritesPolicy(p, d)
    <2>1. \/ RowStep(d, "SKIPPED", "none") \/ RowStep(d, "FAILED", "none")
          \/ RowStep(d, "RETRYING", "none") \/ UNCHANGED delivery
      BY <1>4, RowStepReleased DEF SkipsInbox, CountsFailure, WritesPolicy
    <2>2. QED
      BY <2>1 DEF RowSteps
  <1>5. QED
    BY <1>1, <1>2, <1>3, <1>4 DEF Commits

LEMMA RowStepsOfNext == TypeOK /\ [Next]_vars => RowSteps
  <1> SUFFICES ASSUME TypeOK, [Next]_vars PROVE RowSteps
    OBVIOUS
  <1>0. CASE UNCHANGED delivery
    BY <1>0 DEF RowSteps
  <1>1. ASSUME NEW p \in Processes, Tick(p) PROVE RowSteps
    BY <1>1 DEF Tick, RowSteps
  <1>2. ASSUME NEW p \in Processes, NEW d \in Deliveries, RecordAudit(p, d)
        PROVE  RowSteps
    <2>1. \/ RowStep(d, delivery[d].status, delivery[d].processingStartedAt)
          \/ UNCHANGED delivery
      BY <1>2, RowStepKept DEF RecordAudit
    <2>2. QED
      BY <2>1 DEF RowSteps
  <1>3. ASSUME NEW a \in Admins, NEW d \in Deliveries, RetryNow(a, d) PROVE RowSteps
    <2>1. RowStep(d, "RETRYING", "none")
      BY <1>3, RowStepReleased DEF RetryNow
    <2>2. QED
      BY <2>1 DEF RowSteps
  <1>4. ASSUME NEW d \in Deliveries, BackoffElapses(d) PROVE RowSteps
    BY <1>4, RowStepKept DEF BackoffElapses, Elapse, RowSteps
  <1>5. ASSUME NEW d \in Deliveries, LeaseElapses(d) PROVE RowSteps
    BY <1>5, RowStepExpired DEF LeaseElapses, Elapse, RowSteps
  <1>6. QED
    BY <1>0, <1>1, <1>2, <1>3, <1>4, <1>5, RowStepsOfCommits, NextKinds
       DEF ProviderAccepts, ProviderAnswerLost, Tables

THEOREM SentWasAccepted == Spec => []SentMeansAccepted
<1>1. Init => SentMeansAccepted
  BY DEF Init, NewRow, DigestItem, SentMeansAccepted
<1>2. TypeOK /\ Tickets /\ SentMeansAccepted /\ [Next]_vars => SentMeansAccepted'
  <2> SUFFICES ASSUME TypeOK, Tickets, SentMeansAccepted, [Next]_vars,
                      NEW e \in Deliveries, delivery'[e].status \in Reported
               PROVE  accepted'[e] # {}
    BY DEF SentMeansAccepted, Reported
  <2>1. accepted[e] # {} => accepted'[e] # {}
    BY AcceptedGrows
  <2>2. delivery[e].status \in Reported => accepted[e] # {}
    BY DEF SentMeansAccepted, Reported
  <2>3. RowSteps
    BY RowStepsOfNext
  <2>4. CASE \A d \in Deliveries : delivery'[d] = Recovered(delivery[d])
    <3>1. Recovered(delivery[e]).status \in {delivery[e].status, "RETRYING"}
      BY DEF Recovered, TypeOK, Row
    <3>2. QED
      BY <2>1, <2>2, <2>4, <3>1 DEF Reported
  <2>5. CASE UNCHANGED delivery
    BY <2>1, <2>2, <2>5
  <2>6. ASSUME NEW d \in Deliveries, e # d, delivery'[e] = delivery[e]
        PROVE accepted'[e] # {}
    BY <2>1, <2>2, <2>6
  <2>7. CASE \E p \in Processes : At(p, e, "sent")
    BY <2>1, <2>7 DEF Tickets, TicketsCounted
  <2>8. QED
    BY <2>1, <2>2, <2>3, <2>4, <2>5, <2>6, <2>7 DEF RowSteps, RowStep, Reported
<1>3. QED
  BY <1>1, <1>2, Typing, TicketsInvariant, PTL DEF Spec

(***************************************************************************)
(* recoverStale sees every abandoned claim: a row is PROCESSING exactly    *)
(* while it carries the stamp of its claim.                                *)
(***************************************************************************)
THEOREM ClaimsRecoverable == Spec => []EveryClaimRecoverable
<1>1. Init => EveryClaimRecoverable
  BY DEF Init, NewRow, DigestItem, EveryClaimRecoverable
<1>2. TypeOK /\ EveryClaimRecoverable /\ [Next]_vars => EveryClaimRecoverable'
  <2> SUFFICES ASSUME TypeOK, EveryClaimRecoverable, [Next]_vars,
                      NEW e \in Deliveries
               PROVE  delivery'[e].status = "PROCESSING"
                        <=> delivery'[e].processingStartedAt # "none"
    BY DEF EveryClaimRecoverable
  <2>1. delivery[e].status = "PROCESSING" <=> delivery[e].processingStartedAt # "none"
    BY DEF EveryClaimRecoverable
  <2>2. RowSteps
    BY RowStepsOfNext
  <2>3. CASE \A d \in Deliveries : delivery'[d] = Recovered(delivery[d])
    <3>1. \/ Recovered(delivery[e]) = delivery[e]
          \/ /\ Recovered(delivery[e]).status = "RETRYING"
             /\ Recovered(delivery[e]).processingStartedAt = "none"
      BY DEF Recovered, TypeOK, Row
    <3>2. QED
      BY <2>1, <2>3, <3>1
  <2>4. QED
    BY <2>1, <2>2, <2>3 DEF RowSteps, RowStep
<1>3. QED
  BY <1>1, <1>2, Typing, PTL DEF Spec

(***************************************************************************)
(* The attempt history holds one row per attempt number, and only numbers  *)
(* of attempts the row has counted.                                        *)
(***************************************************************************)
THEOREM HistoryNumbered == Spec => []HistoryNumbersAttempts
<1>1. Init => HistoryNumbersAttempts
  BY DEF Init, HistoryNumbersAttempts
<1>2. TypeOK /\ TypeOK' /\ HistoryNumbersAttempts /\ [Next]_vars => HistoryNumbersAttempts'
  <2> SUFFICES ASSUME TypeOK, TypeOK', HistoryNumbersAttempts, [Next]_vars
               PROVE  HistoryNumbersAttempts'
    OBVIOUS
  <2> DEFINE n(e) == delivery[e].attemptCount
             n1(e) == delivery'[e].attemptCount
  <2>1. \A e \in Deliveries : n(e) \in Nat /\ n1(e) \in Nat /\ n1(e) >= n(e)
    BY CountMonotone DEF TypeOK, Row, CountGrows
  <2>2. \A e \in Deliveries : 1..n(e) \subseteq 1..n1(e)
    BY <2>1
  <2>3. CASE UNCHANGED attempts
    BY <2>2, <2>3 DEF HistoryNumbersAttempts
  <2>4. ASSUME NEW p \in Processes, NEW d \in Deliveries, RecordAudit(p, d),
               delivery[d].attemptCount # 0
        PROVE  HistoryNumbersAttempts'
    <3>1. \A e \in Deliveries :
             attempts'[e] = IF e = d THEN WithAttempt(attempts[d], n(d),
                                             job[p][d].trigger, job[p][d].result)
                                     ELSE attempts[e]
      BY <2>4 DEF RecordAudit, TypeOK
    <3>2. n(d) \in 1..n(d)
      BY <2>1, <2>4
    <3>3. \A e \in Deliveries : \A r \in attempts'[e] :
             r.attemptNumber \in 1..n(e)
      BY <3>1, <3>2 DEF WithAttempt, HistoryNumbersAttempts
    <3>4. \A e \in Deliveries : \A r, s \in attempts'[e] :
             s.attemptNumber = r.attemptNumber => s = r
      BY <3>1 DEF WithAttempt, HistoryNumbersAttempts
    <3>5. QED
      BY <2>2, <3>3, <3>4 DEF HistoryNumbersAttempts
  <2>5. ASSUME NEW p \in Processes, NEW d \in Deliveries, Commits(p, d)
        PROVE  UNCHANGED attempts
    BY <2>5 DEF Commits, ClaimsRow, WritesOutcome, PutsInInbox, SkipsInbox, CountsFailure,
                WritesPolicy
  <2>6. QED
    BY <2>3, <2>4, <2>5, NextKinds
       DEF Tick, RecordAudit, ProviderAccepts, ProviderAnswerLost, RetryNow,
           BackoffElapses, LeaseElapses, Elapse, Tables
<1>3. QED
  BY <1>1, <1>2, Typing, PTL DEF Spec

(***************************************************************************)
(* All of it together, for any number of replicas, rows and attempts.      *)
(***************************************************************************)
THEOREM QueueSafe == Spec => []QueueInv
BY Typing, NoSharedAttempts, EveryMessageCounted, SentWasAccepted, ClaimsRecoverable,
   HistoryNumbered, PTL DEF QueueInv

(***************************************************************************)
(* What the jobs that hold a row know of it: on the one replica that       *)
(* serves it alone (SoloJob), and on two replicas at rest (DuoJob), where  *)
(* a job that missed its claim may still reschedule the row.               *)
(***************************************************************************)
Open == {"PENDING", "RETRYING"}
Closing == {"audit", "bucket"}
Failing == {"handle", "reschedule", "exhaust"}

\* A job that lost its message, and may have read so.
Fails(p, d) ==
    job[p][d].pc \in Failing \/ (job[p][d].pc \in Closing /\ job[p][d].result = "FAILED")

\* A replica's tick begins with no job left.
TicksFresh ==
    \A p \in Processes : phase[p] = "recovered" => \A d \in Deliveries : At(p, d, "none")

\* What a job that ended well may still say of its row.
Concluded(p, d) ==
    job[p][d].pc \in Closing /\ job[p][d].result # "FAILED" =>
        /\ job[p][d].result \in Final
        /\ delivery[d].status = job[p][d].result
        /\ job[p][d].result # "SKIPPED" => delivery[d].attemptCount \in accepted[d]

\* What the catch block of a dispatch is about to call failed: an outcome that is open
\* or failed already, or the SENT it wrote itself before a database call failed.
Overwrites(p, d) ==
    /\ Channel[d] \in {"EMAIL", "SMS"}
    /\ delivery[d].status \notin {"DELIVERED", "SKIPPED"}
    /\ delivery[d].status = "SENT" => faults > 0 /\ job[p][d].attempt \in accepted[d]

SoloJob(p, d) ==
    /\ job[p][d].pc \in {"queued", "claim"} =>
           delivery[d].status \in Open /\ delivery[d].nextAttemptAt # "later"
    /\ At(p, d, "rolledBack") =>
           \/ delivery[d].status \in Open /\ delivery[d].nextAttemptAt # "later"
           \/ delivery[d].status \in {"DELIVERED", "SKIPPED"}
    /\ Owns(p, d) => job[p][d].attempt = delivery[d].attemptCount /\ External(d)
    /\ job[p][d].pc \in {"send", "sent", "rejected", "skip"} => delivery[d].status = "PROCESSING"
    /\ At(p, d, "failed") => Overwrites(p, d)
    /\ At(p, d, "bucket") => Channel[d] = "EMAIL"
    /\ ~At(p, d, "missed")
    /\ Concluded(p, d)
    /\ job[p][d].pc \in {"reschedule", "exhaust"} => delivery[d].status \notin Final

DuoJob(p, d) ==
    /\ job[p][d].pc \notin {"rolledBack", "bucket"}
    /\ Owns(p, d) =>
           /\ delivery[d].status = "PROCESSING" /\ delivery[d].processingStartedAt = "fresh"
           /\ job[p][d].attempt = delivery[d].attemptCount
           /\ \A q \in Processes \ {p} : job[q][d].pc \in {"none", "queued", "claim", "missed"}
    /\ Concluded(p, d)
    /\ Fails(p, d) =>
           \/ delivery[d].status = "FAILED"
           \/ /\ delivery[d].status = "RETRYING" /\ delivery[d].nextAttemptAt = "later"
              /\ \A q \in Processes \ {p} : At(q, d, "none")

Dispatched(d) ==
    /\ OneReplica => \A p \in Processes : SoloJob(p, d)
    /\ TwoReplicasAtRest(d) =>
           /\ \A p \in Processes : DuoJob(p, d)
           /\ delivery[d].status = "PROCESSING" => \E p \in Processes : Owns(p, d)

\* A message was given and the row says so, or its dispatch is about to, and no catch
\* block is about to say the opposite.
Told(d) ==
    \/ \E p \in Processes : At(p, d, "sent")
    \/ /\ delivery[d].status \in {"SENT", "DELIVERED"}
       /\ \A p \in Processes : ~At(p, d, "failed")

Budget == MaxAttempts + faults + manualRetries

\* The copies a row may have: one per mishap, and the one it reports.
Allowance(d) == faults + lostAnswers + (IF Told(d) THEN 1 ELSE 0)

Ledger(d) ==
    /\ Cardinality(accepted[d]) <= Allowance(d)
    /\ delivery[d].attemptCount <= Budget
    /\ delivery[d].status \in Open => delivery[d].attemptCount < Budget
    /\ delivery[d].status = "PROCESSING" /\ ~Busy(d) => delivery[d].attemptCount < Budget
    /\ \A p \in Processes : At(p, d, "reschedule") => delivery[d].attemptCount < MaxAttempts
    /\ \A r \in attempts[d] :
           r.status \in {"SENT", "DELIVERED"} => r.attemptNumber \in accepted[d]

\* Without faults a FAILED row is given up or still in the hands of a job.
Attended(d) ==
    faults = 0 =>
        /\ delivery[d].status = "FAILED" =>
               \/ delivery[d].attemptCount >= MaxAttempts
               \/ \E p \in Processes : Fails(p, d) /\ ~At(p, d, "exhaust")
        /\ \A p \in Processes :
               At(p, d, "exhaust") => delivery[d].attemptCount >= MaxAttempts

(***************************************************************************)
(* What a step does to one row: to its fields, and to the jobs that hold   *)
(* it.  Every other step leaves the row as it is, and can only add to the  *)
(* mishaps, the delays and the manual retries.                             *)
(***************************************************************************)
RowIs(d, s, n, t, c) ==
    /\ delivery'[d].status = s
    /\ delivery'[d].nextAttemptAt = n
    /\ delivery'[d].processingStartedAt = t
    /\ delivery'[d].attemptCount = c

RowKept(d) ==
    RowIs(d, delivery[d].status, delivery[d].nextAttemptAt,
             delivery[d].processingStartedAt, delivery[d].attemptCount)

JobsKept(d) == \A q \in Processes : job'[q][d] = job[q][d]
OthersKept(p, d) == \A q \in Processes \ {p} : job'[q][d] = job[q][d]
Turns(p, d, pc) ==
    /\ OthersKept(p, d)
    /\ job'[p][d].pc = pc
    /\ pc # "none" => /\ job'[p][d].attempt = job[p][d].attempt
                      /\ job'[p][d].result = job[p][d].result
Ends(p, d, s) ==
    OthersKept(p, d) /\ job'[p][d].pc = "audit" /\ job'[p][d].result = s

Untold(d) == accepted'[d] = accepted[d]
Unwritten(d) == attempts'[d] = attempts[d]
Still == UNCHANGED counters
Faulted == faults' = faults + 1 /\ UNCHANGED <<lostAnswers, delays, manualRetries>>
Spending ==
    /\ faults' >= faults /\ lostAnswers' >= lostAnswers
    /\ delays' >= delays /\ manualRetries' >= manualRetries

Untouched(d) ==
    RowKept(d) /\ JobsKept(d) /\ Untold(d) /\ Unwritten(d) /\ Spending

\* What the transactions of a dispatch do to the row and to what was accepted.
RowClaimed(p, d) ==
    /\ At(p, d, "claim") /\ External(d) /\ delivery[d].status \in Claimable(d)
    /\ RowIs(d, "PROCESSING", "none", "fresh", delivery[d].attemptCount + 1)
    /\ Untold(d)
RowConcluded(p, d) ==
    /\ \/ At(p, d, "sent") /\ RowIs(d, "SENT", delivery[d].nextAttemptAt, "none",
                                    delivery[d].attemptCount)
       \/ /\ job[p][d].pc \in {"rejected", "failed"}
          /\ RowIs(d, "FAILED", delivery[d].nextAttemptAt, "none", delivery[d].attemptCount)
       \/ At(p, d, "skip") /\ RowIs(d, "SKIPPED", "none", "none", delivery[d].attemptCount)
    /\ Untold(d)
RowInboxed(p, d) ==
    /\ At(p, d, "claim") /\ ~External(d) /\ delivery[d].status \in Claimable(d)
    /\ \/ /\ RowIs(d, "DELIVERED", "none", "none", delivery[d].attemptCount + 1)
          /\ accepted'[d] = accepted[d] \union {delivery[d].attemptCount + 1}
       \/ RowIs(d, "SKIPPED", "none", "none", delivery[d].attemptCount + 1) /\ Untold(d)
RowFailed(p, d) ==
    /\ At(p, d, "rolledBack")
    /\ \/ /\ delivery[d].status \in Claimable(d)
          /\ RowIs(d, "FAILED", delivery[d].nextAttemptAt, "none",
                   delivery[d].attemptCount + 1)
       \/ delivery[d].status \notin Claimable(d) /\ RowKept(d)
    /\ Untold(d)
RowResolved(p, d) ==
    /\ \/ /\ At(p, d, "reschedule")
          /\ RowIs(d, "RETRYING", "later", "none", delivery[d].attemptCount)
       \/ /\ At(p, d, "exhaust")
          /\ RowIs(d, "FAILED", "none", "none", delivery[d].attemptCount)
    /\ Untold(d)

Committed(p, d) ==
    \/ RowClaimed(p, d) \/ RowConcluded(p, d) \/ RowInboxed(p, d) \/ RowFailed(p, d)
    \/ RowResolved(p, d)

\* The tick, the batch and the crash of a replica.
Recovers(d) ==
    /\ RowKept(d) \/ /\ delivery[d].status = "PROCESSING"
                     /\ delivery[d].processingStartedAt = "expired"
                     /\ RowIs(d, "RETRYING", "due", "none", delivery[d].attemptCount)
    /\ \E p \in Processes : At(p, d, "none")
    /\ JobsKept(d) /\ Untold(d) /\ Unwritten(d) /\ Still
Takes(p, d) ==
    /\ At(p, d, "none")
    /\ OthersKept(p, d)
    /\ \/ job'[p][d].pc = "none"
       \/ /\ job'[p][d].pc = "queued"
          /\ delivery[d].status \in Open /\ delivery[d].nextAttemptAt # "later"
    /\ RowKept(d) /\ Untold(d) /\ Unwritten(d) /\ Still
Drops(p, d) ==
    Turns(p, d, "none") /\ Faulted /\ RowKept(d) /\ Untold(d) /\ Unwritten(d)

\* A failed send, as the channel's handler takes it.
Refuses(p, d) ==
    \/ Turns(p, d, "rejected")
    \/ Turns(p, d, "failed") /\ Channel[d] # "DESKTOP_PUSH"

\* The steps of a dispatch that write neither the row nor what was accepted.
Advances(p, d) ==
    /\ \/ At(p, d, "queued") /\ Turns(p, d, "claim")
       \/ /\ At(p, d, "claim") /\ delivery[d].status \in Claimable(d)
          /\ \/ RendersInClaim(d) /\ Ends(p, d, "FAILED")
             \/ ~External(d) /\ Turns(p, d, "rolledBack")
       \/ At(p, d, "claim") /\ delivery[d].status \notin Claimable(d) /\ Turns(p, d, "missed")
       \/ /\ At(p, d, "missed")
          /\ Turns(p, d, IF delivery[d].status = "FAILED" THEN "handle" ELSE "none")
       \/ At(p, d, "send") /\ Refuses(p, d)
       \/ At(p, d, "bucket") /\ Turns(p, d, "audit")
       \/ /\ At(p, d, "handle")
          /\ Turns(p, d, IF delivery[d].status \notin {"FAILED", "PROCESSING"} THEN "none"
                         ELSE IF delivery[d].attemptCount >= MaxAttempts THEN "exhaust"
                         ELSE "reschedule")
    /\ RowKept(d) /\ Untold(d) /\ Unwritten(d) /\ Still

\* The claim, the message, and the outcome.
Claims(p, d) ==
    /\ RowClaimed(p, d)
    /\ OthersKept(p, d)
    /\ job'[p][d].pc \in {"send", "skip"}
    /\ job'[p][d].attempt = delivery[d].attemptCount + 1
    /\ Unwritten(d) /\ Still
Sends(p, d) ==
    /\ At(p, d, "send")
    /\ \/ Turns(p, d, "sent") /\ Still
       \/ /\ Refuses(p, d)
          /\ lostAnswers' = lostAnswers + 1
          /\ UNCHANGED <<faults, delays, manualRetries>>
    /\ accepted'[d] = accepted[d] \union {job[p][d].attempt}
    /\ RowKept(d) /\ Unwritten(d)
Records(p, d) ==
    /\ RowConcluded(p, d)
    /\ OthersKept(p, d)
    /\ job'[p][d].result = delivery'[d].status
    /\ \/ job'[p][d].pc = "audit"
       \/ /\ ~At(p, d, "skip") /\ Channel[d] = "EMAIL"
          /\ job'[p][d].pc = "bucket" /\ job'[p][d].attempt = job[p][d].attempt
    /\ Unwritten(d) /\ Still

\* The same in the inbox, in one transaction.
Inboxes(p, d) ==
    /\ \/ RowInboxed(p, d) /\ Ends(p, d, delivery'[d].status)
       \/ RowFailed(p, d) /\ Ends(p, d, "FAILED")
    /\ Unwritten(d) /\ Still

\* The audit row, and what the retry policy writes.
Audits(p, d) ==
    /\ At(p, d, "audit")
    /\ Turns(p, d, IF job[p][d].result = "FAILED" THEN "handle" ELSE "none")
    /\ \A r \in attempts'[d] \ attempts[d] :
           /\ r.attemptNumber = delivery[d].attemptCount
           /\ r.status = job[p][d].result
    /\ RowKept(d) /\ Untold(d) /\ Still
Resolves(p, d) ==
    RowResolved(p, d) /\ Turns(p, d, "none") /\ Unwritten(d) /\ Still

\* A database call that fails before or after its commit, an administrator, and time.
Falters(p, d) ==
    \/ /\ At(p, d, "audit")
       /\ Turns(p, d, IF job[p][d].result = "FAILED" THEN "handle" ELSE "none")
    \/ job[p][d].pc \in Failing \union {"queued"} /\ Turns(p, d, "none")
    \/ job[p][d].pc \in {"claim", "missed"} /\ ~External(d) /\ Turns(p, d, "rolledBack")
    \/ CaughtByHandler(p, d) /\ Turns(p, d, "failed")
    \/ /\ job[p][d].pc \notin {"none", "queued", "audit"} /\ ~CaughtByHandler(p, d)
       /\ job[p][d].pc = "claim" => External(d)
       /\ Ends(p, d, "FAILED")
Breaks(p, d) ==
    /\ Falters(p, d)
    /\ Committed(p, d) \/ (RowKept(d) /\ Untold(d))
    /\ Unwritten(d) /\ Faulted
Reopens(d) ==
    /\ delivery[d].status = "FAILED"
    /\ RowIs(d, "RETRYING", "due", "none", delivery[d].attemptCount)
    /\ manualRetries' = manualRetries + 1 /\ UNCHANGED <<faults, lostAnswers, delays>>
    /\ JobsKept(d) /\ Untold(d) /\ Unwritten(d)
Ages(d) ==
    /\ \/ /\ delivery[d].nextAttemptAt = "later"
          /\ RowIs(d, delivery[d].status, "due", delivery[d].processingStartedAt,
                   delivery[d].attemptCount)
          /\ (\E p \in Processes : job[p][d].pc \in Bookkeeping) => delays' = delays + 1
       \/ /\ delivery[d].processingStartedAt = "fresh"
          /\ RowIs(d, delivery[d].status, delivery[d].nextAttemptAt, "expired",
                   delivery[d].attemptCount)
          /\ Busy(d) => delays' = delays + 1
    /\ delays' >= delays /\ UNCHANGED <<faults, lostAnswers, manualRetries>>
    /\ JobsKept(d) /\ Untold(d) /\ Unwritten(d)

Dispatches(p, d) ==
    \/ Takes(p, d) \/ Drops(p, d) \/ Advances(p, d) \/ Claims(p, d) \/ Sends(p, d)
    \/ Records(p, d) \/ Inboxes(p, d) \/ Audits(p, d) \/ Resolves(p, d) \/ Breaks(p, d)

Moves(d) ==
    \/ Untouched(d) \/ Recovers(d) \/ Reopens(d) \/ Ages(d)
    \/ \E p \in Processes : Dispatches(p, d)

\* The row a step writes, the others keeping theirs.
Writes(d, s, n, t, c) == RowIs(d, s, n, t, c) /\ \A e \in Deliveries \ {d} : RowKept(e)

LEMMA WritesOf ==
  ASSUME TypeOK, NEW d \in Deliveries, NEW r, SetRow(d, r)
  PROVE  Writes(d, r.status, r.nextAttemptAt, r.processingStartedAt, r.attemptCount)
  BY RowChange DEF Writes, RowIs, RowKept

LEMMA RowWrites ==
  ASSUME TypeOK, NEW d \in Deliveries, NEW s, NEW n, NEW a
  PROVE  LET old == delivery[d]
         IN  /\ SetRow(d, ClaimedRow(d)) =>
                  Writes(d, "PROCESSING", "none", "fresh", old.attemptCount + 1)
             /\ SetRow(d, [ClaimedRow(d) EXCEPT !.status = s, !.processingStartedAt = "none"])
                  => Writes(d, s, "none", "none", old.attemptCount + 1)
             /\ SetRow(d, Released(d, s)) =>
                  Writes(d, s, old.nextAttemptAt, "none", old.attemptCount)
             /\ SetRow(d, [Released(d, s) EXCEPT !.nextAttemptAt = n]) =>
                  Writes(d, s, n, "none", old.attemptCount)
             /\ SetRow(d, [Released(d, s) EXCEPT !.nextAttemptAt = n,
                                                 !.retryRequestedById = a]) =>
                  Writes(d, s, n, "none", old.attemptCount)
             /\ SetRow(d, [Released(d, s) EXCEPT !.attemptCount = @ + 1]) =>
                  Writes(d, s, old.nextAttemptAt, "none", old.attemptCount + 1)
             /\ SetRow(d, [old EXCEPT !.retryRequestedById = a]) =>
                  Writes(d, old.status, old.nextAttemptAt, old.processingStartedAt,
                         old.attemptCount)
             /\ SetRow(d, [old EXCEPT !.nextAttemptAt = n]) =>
                  Writes(d, old.status, n, old.processingStartedAt, old.attemptCount)
             /\ SetRow(d, [old EXCEPT !.processingStartedAt = n]) =>
                  Writes(d, old.status, old.nextAttemptAt, n, old.attemptCount)
  <1> DEFINE old == delivery[d]
             Is(r, st, nx, ts, c) == /\ r.status = st /\ r.nextAttemptAt = nx
                                     /\ r.processingStartedAt = ts /\ r.attemptCount = c
  <1>1. old \in Row
    BY DEF TypeOK
  <1>2. ASSUME NEW r, NEW st, NEW nx, NEW ts, NEW c, SetRow(d, r), Is(r, st, nx, ts, c)
        PROVE  Writes(d, st, nx, ts, c)
    BY <1>2, WritesOf
  <1>3. /\ Is(ClaimedRow(d), "PROCESSING", "none", "fresh", old.attemptCount + 1)
        /\ Is([ClaimedRow(d) EXCEPT !.status = s, !.processingStartedAt = "none"],
              s, "none", "none", old.attemptCount + 1)
    BY <1>1 DEF Row, ClaimedRow
  <1>4. /\ Is(Released(d, s), s, old.nextAttemptAt, "none", old.attemptCount)
        /\ Is([Released(d, s) EXCEPT !.nextAttemptAt = n], s, n, "none", old.attemptCount)
        /\ Is([Released(d, s) EXCEPT !.nextAttemptAt = n, !.retryRequestedById = a],
              s, n, "none", old.attemptCount)
        /\ Is([Released(d, s) EXCEPT !.attemptCount = @ + 1], s, old.nextAttemptAt,
              "none", old.attemptCount + 1)
    BY <1>1 DEF Row, Released
  <1>5. /\ Is([old EXCEPT !.retryRequestedById = a], old.status, old.nextAttemptAt,
              old.processingStartedAt, old.attemptCount)
        /\ Is([old EXCEPT !.nextAttemptAt = n], old.status, n,
              old.processingStartedAt, old.attemptCount)
        /\ Is([old EXCEPT !.processingStartedAt = n], old.status, old.nextAttemptAt,
              n, old.attemptCount)
    BY <1>1 DEF Row
  <1> HIDE DEF Is
  <1>6. QED
    BY <1>2, <1>3, <1>4, <1>5

LEMMA MovedKeeps ==
  ASSUME NEW p \in Processes, NEW d \in Deliveries, Moved(p, d)
  PROVE  OthersKept(p, d) /\ \A e \in Deliveries \ {d} : JobsKept(e)
  BY DEF Moved, OthersKept, JobsKept

LEMMA TurnsByGoto ==
  ASSUME TypeOK, NEW p \in Processes, NEW d \in Deliveries, NEW pc, Goto(p, d, pc)
  PROVE  Turns(p, d, pc) /\ \A e \in Deliveries \ {d} : JobsKept(e)
  BY JobMoves, MovedKeeps DEF Turns

LEMMA TurnsByEnd ==
  ASSUME TypeOK, NEW p \in Processes, NEW d \in Deliveries, SetJob(p, d, NoJob)
  PROVE  Turns(p, d, "none") /\ \A e \in Deliveries \ {d} : JobsKept(e)
  BY JobMoves, MovedKeeps DEF Turns

LEMMA EndsByReturn ==
  ASSUME TypeOK, NEW p \in Processes, NEW d \in Deliveries, NEW s,
         Return(p, d, s) \/ (Throw(p, d) /\ s = "FAILED")
  PROVE  Ends(p, d, s) /\ \A e \in Deliveries \ {d} : JobsKept(e)
  BY JobMoves, MovedKeeps DEF Ends

LEMMA TurnsByAudit ==
  ASSUME TypeOK, NEW p \in Processes, NEW d \in Deliveries, AfterAudit(p, d)
  PROVE  /\ Turns(p, d, IF job[p][d].result = "FAILED" THEN "handle" ELSE "none")
         /\ \A e \in Deliveries \ {d} : JobsKept(e)
  BY TurnsByGoto, TurnsByEnd DEF AfterAudit

LEMMA FaltersByFault ==
  ASSUME TypeOK, NEW p \in Processes, NEW d \in Deliveries, ~At(p, d, "none"),
         AfterFault(p, d)
  PROVE  Falters(p, d) /\ \A e \in Deliveries \ {d} : JobsKept(e)
  <1> DEFINE pc == job[p][d].pc
             Alone == \A e \in Deliveries \ {d} : JobsKept(e)
  <1>1. CASE pc = "audit"
    BY <1>1, TurnsByAudit DEF AfterFault, Falters, At
  <1>2. CASE pc \in {"claim", "missed"} /\ ~External(d)
    BY <1>2, TurnsByGoto DEF AfterFault, Falters
  <1>3. CASE CaughtByHandler(p, d)
    <2>1. pc \notin {"audit", "claim", "missed"}
      BY <1>3 DEF CaughtByHandler
    <2>2. QED
      BY <1>3, <2>1, TurnsByGoto DEF AfterFault, Falters
  <1>4. CASE SetJob(p, d, NoJob) /\ pc \in Failing \union {"queued"}
    BY <1>4, TurnsByEnd DEF Falters
  <1>5. CASE /\ Throw(p, d) /\ pc \notin {"none", "queued", "audit"}
             /\ ~CaughtByHandler(p, d) /\ (pc = "claim" => External(d))
    BY <1>5, EndsByReturn DEF Falters
  <1>6. QED
    BY <1>1, <1>2, <1>3, <1>4, <1>5 DEF AfterFault, At, Failing

\* A transaction writes one row and no history.
LEMMA CommitsRows ==
  ASSUME TypeOK, NEW p \in Processes, NEW d \in Deliveries, Commits(p, d)
  PROVE  /\ ClaimsRow(p, d) => RowClaimed(p, d)
         /\ WritesOutcome(p, d) => RowConcluded(p, d)
         /\ PutsInInbox(p, d) =>
                RowInboxed(p, d) /\ delivery'[d].status = "DELIVERED"
         /\ SkipsInbox(p, d) => RowInboxed(p, d) /\ delivery'[d].status = "SKIPPED"
         /\ CountsFailure(p, d) => RowFailed(p, d)
         /\ WritesPolicy(p, d) => RowResolved(p, d)
         /\ ~At(p, d, "none")
         /\ \A e \in Deliveries : Unwritten(e)
         /\ \A e \in Deliveries \ {d} : RowKept(e) /\ Untold(e)
  <1> DEFINE Rest == /\ ~At(p, d, "none")
                     /\ \A e \in Deliveries : Unwritten(e)
                     /\ \A e \in Deliveries \ {d} : RowKept(e) /\ Untold(e)
  <1> USE DEF At
  <1>1. ASSUME ClaimsRow(p, d) PROVE RowClaimed(p, d) /\ Rest
    BY <1>1, RowWrites DEF ClaimsRow, RowClaimed, Writes, Untold, Unwritten
  <1>2. ASSUME WritesOutcome(p, d) PROVE RowConcluded(p, d) /\ Rest
    BY <1>2, RowWrites DEF WritesOutcome, RowConcluded, Writes, Untold, Unwritten
  <1>3. ASSUME PutsInInbox(p, d)
        PROVE  RowInboxed(p, d) /\ delivery'[d].status = "DELIVERED" /\ Rest
    <2>1. /\ accepted'[d] = accepted[d] \union {delivery[d].attemptCount + 1}
          /\ \A e \in Deliveries \ {d} : Untold(e)
      BY <1>3 DEF PutsInInbox, TypeOK, Untold
    <2>2. Writes(d, "DELIVERED", "none", "none", delivery[d].attemptCount + 1)
      BY <1>3, RowWrites DEF PutsInInbox
    <2>3. QED
      BY <1>3, <2>1, <2>2 DEF PutsInInbox, RowInboxed, Writes, RowIs, Unwritten
  <1>4. ASSUME SkipsInbox(p, d)
        PROVE  RowInboxed(p, d) /\ delivery'[d].status = "SKIPPED" /\ Rest
    <2>1. Writes(d, "SKIPPED", "none", "none", delivery[d].attemptCount + 1)
      BY <1>4, RowWrites DEF SkipsInbox
    <2>2. QED
      BY <1>4, <2>1 DEF SkipsInbox, RowInboxed, Writes, RowIs, Untold, Unwritten
  <1>5. ASSUME CountsFailure(p, d) PROVE RowFailed(p, d) /\ Rest
    <2>1. CASE delivery[d].status \in Claimable(d)
      BY <1>5, <2>1, RowWrites DEF CountsFailure, RowFailed, Writes, Untold, Unwritten
    <2>2. CASE delivery[d].status \notin Claimable(d)
      <3>1. \A e \in Deliveries : RowKept(e)
        BY <1>5, <2>2 DEF CountsFailure, RowKept, RowIs
      <3>2. QED
        BY <1>5, <2>2, <3>1 DEF CountsFailure, RowFailed, Untold, Unwritten
    <2>3. QED
      BY <2>1, <2>2
  <1>6. ASSUME WritesPolicy(p, d) PROVE RowResolved(p, d) /\ Rest
    BY <1>6, RowWrites DEF WritesPolicy, RowResolved, Writes, Untold, Unwritten
  <1> HIDE DEF Rest
  <1>7. QED
    <2>1. Rest
      BY <1>1, <1>2, <1>3, <1>4, <1>5, <1>6 DEF Commits
    <2>2. QED
      BY <2>1, <1>1, <1>2, <1>3, <1>4, <1>5, <1>6 DEF Rest

LEMMA StillSpending == TypeOK /\ (Still \/ Faulted) => Spending
  BY DEF Still, Faulted, Spending, counters, TypeOK

LEMMA DispatchMoves ==
  ASSUME TypeOK, NEW p \in Processes, NEW d \in Deliveries, Dispatch(p, d)
  PROVE  /\ Advances(p, d) \/ Claims(p, d) \/ Sends(p, d) \/ Records(p, d)
              \/ Inboxes(p, d) \/ Audits(p, d) \/ Resolves(p, d)
         /\ \A e \in Deliveries \ {d} : Untouched(e)
  <1> DEFINE Alone == \A e \in Deliveries \ {d} : JobsKept(e)
             Else == \A e \in Deliveries \ {d} : RowKept(e) /\ Untold(e) /\ Unwritten(e)
  <1>a. ASSUME UNCHANGED delivery PROVE \A e \in Deliveries : RowKept(e)
    BY <1>a DEF RowKept, RowIs
  <1>b. ASSUME Alone, Else, Spending PROVE \A e \in Deliveries \ {d} : Untouched(e)
    BY <1>b DEF Untouched
  <1>c. ASSUME Commits(p, d) PROVE Else /\ Unwritten(d)
    BY <1>c, CommitsRows
  <1>1. CASE Snapshot(p, d)
    <2>1. /\ Moved(p, d)
          /\ job'[p][d] = [job[p][d] EXCEPT !.pc = "claim",
                             !.trigger = TriggerType(delivery[d]),
                             !.requestedBy = delivery[d].retryRequestedById]
      BY <1>1, JobChange, JobMoves DEF Snapshot
    <2>2. job[p][d] \in Job
      BY DEF TypeOK
    <2>3. /\ job'[p][d].pc = "claim" /\ job'[p][d].attempt = job[p][d].attempt
          /\ job'[p][d].result = job[p][d].result
      BY <2>1, <2>2 DEF Job
    <2>4. Turns(p, d, "claim") /\ Alone
      BY <2>1, <2>3, MovedKeeps DEF Turns
    <2>5. Advances(p, d)
      BY <1>1, <2>4, <1>a DEF Snapshot, Advances, Untold, Unwritten, Still
    <2>6. QED
      BY <1>1, <2>4, <2>5, <1>a, <1>b, StillSpending DEF Snapshot, Untold, Unwritten, Still
  <1>2. CASE RenderThrows(p, d) \/ ClaimMiss(p, d) \/ ReadMissed(p, d)
          \/ ProviderRejects(p, d) \/ InAppRollback(p, d) \/ HandleRead(p, d)
          \/ UpdateBucket(p, d)
    <2>1. Alone /\ UNCHANGED <<delivery, attempts, accepted, counters>>
      BY <1>2, TurnsByGoto, TurnsByEnd, EndsByReturn
         DEF RenderThrows, ClaimMiss, ReadMissed, ProviderRejects, InAppRollback,
             HandleRead, UpdateBucket
    <2>2. RowKept(d) /\ Untold(d) /\ Unwritten(d) /\ Still
      BY <2>1, <1>a DEF Untold, Unwritten, Still
    <2>3. Advances(p, d)
      <3>1. CASE RenderThrows(p, d)
        BY <2>2, <3>1, EndsByReturn DEF RenderThrows, Advances
      <3>2. CASE ClaimMiss(p, d) \/ InAppRollback(p, d) \/ UpdateBucket(p, d)
        BY <2>2, <3>2, TurnsByGoto DEF ClaimMiss, InAppRollback, UpdateBucket, Advances
      <3>3. CASE ReadMissed(p, d)
        BY <2>2, <3>3, TurnsByGoto, TurnsByEnd DEF ReadMissed, Advances
      <3>4. CASE HandleRead(p, d)
        BY <2>2, <3>4, TurnsByGoto, TurnsByEnd
           DEF HandleRead, NeedsPolicy, Exhausted, Advances
      <3>5. CASE ProviderRejects(p, d)
        <4>1. At(p, d, "send") /\ Refuses(p, d)
          BY <3>5, TurnsByGoto DEF ProviderRejects, Refusals, Refuses
        <4>2. QED
          BY <2>2, <4>1 DEF Advances
      <3>6. QED
        BY <1>2, <3>1, <3>2, <3>3, <3>4, <3>5
    <2>4. QED
      BY <2>1, <2>3, <1>a, <1>b, StillSpending DEF Untold, Unwritten, Still
  <1>3. CASE Claim(p, d)
    <2>1. PICK pc \in {"send", "skip"} :
            SetJob(p, d, [job[p][d] EXCEPT !.pc = pc,
                                           !.attempt = delivery[d].attemptCount + 1])
      BY <1>3 DEF Claim
    <2>2. /\ Moved(p, d)
          /\ job'[p][d] = [job[p][d] EXCEPT !.pc = pc,
                                            !.attempt = delivery[d].attemptCount + 1]
      BY <2>1, JobChange, JobMoves
    <2>3. job'[p][d].pc = pc /\ job'[p][d].attempt = delivery[d].attemptCount + 1
      BY <2>2, JobFields
    <2>4. Commits(p, d) /\ RowClaimed(p, d)
      BY <1>3, CommitsRows DEF Claim, Commits
    <2>5. Claims(p, d)
      BY <1>3, <2>2, <2>3, <2>4, <1>c, MovedKeeps DEF Claim, Claims, Still
    <2>6. QED
      BY <1>3, <2>2, <2>4, <2>5, <1>b, <1>c, MovedKeeps, StillSpending DEF Claim, Still
  <1>4. CASE ProviderAccepts(p, d) \/ ProviderAnswerLost(p, d)
    <2>1. /\ Alone
          /\ \/ Turns(p, d, "sent") /\ Still
             \/ /\ Refuses(p, d)
                /\ lostAnswers' = lostAnswers + 1
                /\ UNCHANGED <<faults, delays, manualRetries>>
      BY <1>4, TurnsByGoto DEF ProviderAccepts, ProviderAnswerLost, Refusals, Refuses, Still
    <2>2. /\ accepted'[d] = accepted[d] \union {job[p][d].attempt}
          /\ \A e \in Deliveries \ {d} : Untold(e)
      BY <1>4 DEF ProviderAccepts, ProviderAnswerLost, TypeOK, Untold
    <2>3. Sends(p, d)
      BY <1>4, <2>1, <2>2, <1>a DEF ProviderAccepts, ProviderAnswerLost, Sends, Unwritten
    <2>4. Spending
      BY <2>1, StillSpending DEF Spending, TypeOK
    <2>5. QED
      BY <1>4, <2>1, <2>2, <2>3, <2>4, <1>a, <1>b
         DEF ProviderAccepts, ProviderAnswerLost, Unwritten
  <1>5. CASE RecordSent(p, d) \/ RecordFailed(p, d) \/ RecordSkipped(p, d)
    <2>1. Commits(p, d) /\ RowConcluded(p, d)
      BY <1>5, CommitsRows DEF RecordSent, RecordFailed, RecordSkipped, Commits
    <2>2. /\ Moved(p, d) /\ job'[p][d].result = delivery'[d].status
          /\ \/ job'[p][d].pc = "audit"
             \/ /\ ~At(p, d, "skip") /\ d \in Carriers
                /\ job'[p][d].pc = "bucket" /\ job'[p][d].attempt = job[p][d].attempt
      BY <1>5, <2>1, JobMoves
         DEF RecordSent, RecordFailed, RecordSkipped, RowConcluded, RowIs, At
    <2>3. d \in Carriers => Channel[d] = "EMAIL"
      BY DeliveriesAssumption
    <2>4. Still
      BY <1>5 DEF RecordSent, RecordFailed, RecordSkipped, Still
    <2>5. Records(p, d)
      BY <2>1, <2>2, <2>3, <2>4, <1>c, MovedKeeps DEF Records
    <2>6. QED
      BY <2>1, <2>2, <2>4, <2>5, <1>b, <1>c, MovedKeeps, StillSpending
  <1>6. CASE InAppDeliver(p, d) \/ InAppSkip(p, d) \/ InAppRecordFailure(p, d)
    <2>1. /\ Commits(p, d)
          /\ \/ RowInboxed(p, d) /\ Return(p, d, delivery'[d].status)
             \/ RowFailed(p, d) /\ Return(p, d, "FAILED")
      BY <1>6, CommitsRows DEF InAppDeliver, InAppSkip, InAppRecordFailure, Commits
    <2>2. Still
      BY <1>6 DEF InAppDeliver, InAppSkip, InAppRecordFailure, Still
    <2>3. Inboxes(p, d) /\ Alone
      BY <2>1, <2>2, <1>c, EndsByReturn DEF Inboxes
    <2>4. QED
      BY <2>1, <2>2, <2>3, <1>b, <1>c, StillSpending
  <1>7. CASE RecordAudit(p, d)
    <2>1. /\ Turns(p, d, IF job[p][d].result = "FAILED" THEN "handle" ELSE "none")
          /\ Alone
      BY <1>7, TurnsByAudit DEF RecordAudit
    <2>2. /\ RowKept(d)
          /\ \A e \in Deliveries \ {d} : RowKept(e)
      <3>1. CASE UNCHANGED delivery
        BY <3>1, <1>a
      <3>2. CASE SetRow(d, [delivery[d] EXCEPT !.retryRequestedById = NoAdmin])
        BY <3>2, RowWrites DEF Writes, RowKept
      <3>3. QED
        BY <1>7, <3>1, <3>2 DEF RecordAudit
    <2>3. /\ \A r \in attempts'[d] \ attempts[d] :
                r.attemptNumber = delivery[d].attemptCount /\ r.status = job[p][d].result
          /\ \A e \in Deliveries \ {d} : Unwritten(e)
      BY <1>7 DEF RecordAudit, WithAttempt, TypeOK, Unwritten
    <2>4. Audits(p, d)
      BY <1>7, <2>1, <2>2, <2>3 DEF RecordAudit, Audits, Untold, Still
    <2>5. QED
      BY <1>7, <2>1, <2>2, <2>3, <2>4, <1>b, StillSpending DEF RecordAudit, Untold, Still
  <1>8. CASE HandleWrite(p, d)
    <2>1. Turns(p, d, "none") /\ Alone /\ Still
      BY <1>8, TurnsByEnd DEF HandleWrite, Still
    <2>2. Commits(p, d) /\ RowResolved(p, d)
      BY <1>8, CommitsRows DEF HandleWrite, Commits
    <2>3. Resolves(p, d)
      BY <2>1, <2>2, <1>c DEF Resolves
    <2>4. QED
      BY <2>1, <2>2, <2>3, <1>b, <1>c, StillSpending
  <1>9. QED
    BY <1>1, <1>2, <1>3, <1>4, <1>5, <1>6, <1>7, <1>8 DEF Dispatch

LEMMA FaultMoves ==
  ASSUME TypeOK, NEW p \in Processes, NEW d \in Deliveries,
         DatabaseFails(p, d) \/ CommitAnswerLost(p, d)
  PROVE  Breaks(p, d) /\ \A e \in Deliveries \ {d} : Untouched(e)
  <1>1. Faulted
    BY DEF DatabaseFails, CommitAnswerLost, Faulted
  <1>2. CASE DatabaseFails(p, d)
    <2>1. Falters(p, d) /\ \A e \in Deliveries \ {d} : JobsKept(e)
      BY <1>2, FaltersByFault DEF DatabaseFails, CallsDatabase
    <2>2. \A e \in Deliveries : RowKept(e) /\ Untold(e) /\ Unwritten(e)
      BY <1>2 DEF DatabaseFails, RowKept, RowIs, Untold, Unwritten
    <2>3. QED
      BY <1>1, <2>1, <2>2, StillSpending DEF Breaks, Untouched
  <1>3. CASE CommitAnswerLost(p, d)
    <2>1. Committed(p, d)
      BY <1>3, CommitsRows DEF CommitAnswerLost, Commits, Committed
    <2>2. /\ ~At(p, d, "none")
          /\ Unwritten(d)
          /\ \A e \in Deliveries \ {d} : RowKept(e) /\ Untold(e) /\ Unwritten(e)
      BY <1>3, CommitsRows DEF CommitAnswerLost
    <2>3. Falters(p, d) /\ \A e \in Deliveries \ {d} : JobsKept(e)
      BY <1>3, <2>2, FaltersByFault DEF CommitAnswerLost
    <2>4. QED
      BY <1>1, <2>1, <2>2, <2>3, StillSpending DEF Breaks, Untouched
  <1>4. QED
    BY <1>2, <1>3

(***************************************************************************)
(* Every tick of a replica begins with no job left, so a new batch never   *)
(* takes a row out of the hands of one of its own jobs.                    *)
(***************************************************************************)
LEMMA TicksFreshStep == TypeOK /\ TicksFresh /\ [Next]_vars => TicksFresh'
  <1> SUFFICES ASSUME TypeOK, TicksFresh, [Next]_vars PROVE TicksFresh'
    OBVIOUS
  <1>1. ASSUME NEW p \in Processes, Tick(p) PROVE TicksFresh'
    BY <1>1 DEF Tick, TicksFresh, Running, At, TypeOK
  <1>2. ASSUME NEW p \in Processes, TakeBatch(p) \/ Crash(p) PROVE TicksFresh'
    <2>1. phase'[p] = "idle"
      BY <1>2 DEF TakeBatch, Crash, TypeOK
    <2>2. \A q \in Processes \ {p} : phase'[q] = phase[q] /\ job'[q] = job[q]
      BY <1>2 DEF TakeBatch, Crash, TypeOK
    <2>3. QED
      BY <2>1, <2>2 DEF TicksFresh, At
  <1>3. ASSUME NEW p \in Processes, NEW d \in Deliveries, ~At(p, d, "none"),
               UNCHANGED phase,
               \A q \in Processes, e \in Deliveries :
                   q # p \/ e # d => job'[q][e] = job[q][e]
        PROVE  TicksFresh'
    BY <1>3 DEF TicksFresh, At
  <1>4. ASSUME NEW p \in Processes, NEW d \in Deliveries, Dispatch(p, d)
        PROVE  TicksFresh'
    <2>1. ~At(p, d, "none") /\ UNCHANGED phase
      BY <1>4
         DEF Dispatch, Snapshot, Claim, RenderThrows, ClaimMiss, ReadMissed,
             ProviderAccepts, ProviderRejects, ProviderAnswerLost, RecordSent,
             RecordFailed, UpdateBucket, RecordSkipped, InAppDeliver, InAppSkip,
             InAppRollback, InAppRecordFailure, RecordAudit, HandleRead, HandleWrite,
             ClaimsRow, PutsInInbox, SkipsInbox, CountsFailure, WritesPolicy, At
    <2>2. \E j : SetJob(p, d, j)
      BY <1>4
         DEF Dispatch, Snapshot, Claim, RenderThrows, ClaimMiss, ReadMissed,
             ProviderAccepts, ProviderRejects, ProviderAnswerLost, RecordSent,
             RecordFailed, UpdateBucket, RecordSkipped, InAppDeliver, InAppSkip,
             InAppRollback, InAppRecordFailure, RecordAudit, HandleRead, HandleWrite,
             Goto, Return, Throw, Conclude, AfterAudit
    <2>3. QED
      BY <1>3, <2>1, <2>2, JobChange
  <1>5. ASSUME NEW p \in Processes, NEW d \in Deliveries,
               DatabaseFails(p, d) \/ CommitAnswerLost(p, d)
        PROVE  TicksFresh'
    <2>1. ~At(p, d, "none") /\ UNCHANGED phase
      BY <1>5, CommitsRows DEF DatabaseFails, CommitAnswerLost, CallsDatabase
    <2>2. \E j : SetJob(p, d, j)
      BY <1>5 DEF DatabaseFails, CommitAnswerLost, AfterFault, Goto, Throw, AfterAudit
    <2>3. QED
      BY <1>3, <2>1, <2>2, JobChange
  <1>6. CASE UNCHANGED <<phase, job>>
    BY <1>6 DEF TicksFresh, At
  <1>7. QED
    BY <1>1, <1>2, <1>4, <1>5, <1>6
       DEF Next, RetryNow, BackoffElapses, LeaseElapses, Elapse, vars

LEMMA TicksFreshInvariant == Spec => []TicksFresh
<1>1. Init => TicksFresh
  BY DEF Init, TicksFresh
<1>2. QED
  BY <1>1, TicksFreshStep, Typing, PTL DEF Spec

LEMMA StepMoves ==
  TypeOK /\ TicksFresh /\ [Next]_vars => \A e \in Deliveries : Moves(e)
  <1> SUFFICES ASSUME TypeOK, TicksFresh, [Next]_vars, NEW e \in Deliveries
               PROVE  Moves(e)
    OBVIOUS
  <1>a. ASSUME UNCHANGED delivery PROVE RowKept(e)
    BY <1>a DEF RowKept, RowIs
  <1>b. ASSUME UNCHANGED job PROVE JobsKept(e)
    BY <1>b DEF JobsKept
  <1>1. ASSUME NEW p \in Processes, Tick(p) PROVE Moves(e)
    <2>1. At(p, e, "none")
      BY <1>1 DEF Tick, Running
    <2>2. delivery'[e] = Recovered(delivery[e]) /\ delivery[e] \in Row
      BY <1>1 DEF Tick, TypeOK
    <2>3. \/ RowKept(e)
          \/ /\ delivery[e].status = "PROCESSING"
             /\ delivery[e].processingStartedAt = "expired"
             /\ RowIs(e, "RETRYING", "due", "none", delivery[e].attemptCount)
      BY <2>2 DEF Recovered, RowKept, RowIs, Row
    <2>4. Recovers(e)
      BY <1>1, <1>b, <2>1, <2>3 DEF Tick, Recovers, Untold, Unwritten, Still
    <2>5. QED
      BY <2>4 DEF Moves
  <1>2. ASSUME NEW p \in Processes, TakeBatch(p) PROVE Moves(e)
    <2>1. PICK b \in SUBSET Due :
            job' = [job EXCEPT ![p] = [d \in Deliveries |->
                      IF d \in b THEN [NoJob EXCEPT !.pc = "queued"] ELSE NoJob]]
      BY <1>2 DEF TakeBatch
    <2>2. /\ OthersKept(p, e)
          /\ job'[p][e].pc = IF e \in b THEN "queued" ELSE "none"
      BY <2>1, JobFields DEF TypeOK, OthersKept
    <2>3. e \in b => delivery[e].status \in Open /\ delivery[e].nextAttemptAt # "later"
      BY DEF Due, Open
    <2>4. At(p, e, "none")
      BY <1>2 DEF TakeBatch, TicksFresh
    <2>5. Takes(p, e)
      BY <1>2, <1>a, <2>2, <2>3, <2>4 DEF TakeBatch, Takes, Untold, Unwritten, Still
    <2>6. QED
      BY <2>5 DEF Moves, Dispatches
  <1>3. ASSUME NEW p \in Processes, Crash(p) PROVE Moves(e)
    <2>1. Turns(p, e, "none")
      BY <1>3, JobFields DEF Crash, TypeOK, Turns, OthersKept
    <2>2. Drops(p, e)
      BY <1>3, <1>a, <2>1 DEF Crash, Drops, Faulted, Untold, Unwritten
    <2>3. QED
      BY <2>2 DEF Moves, Dispatches
  <1>4. ASSUME NEW p \in Processes, NEW d \in Deliveries, Dispatch(p, d) PROVE Moves(e)
    BY <1>4, DispatchMoves DEF Moves, Dispatches
  <1>5. ASSUME NEW p \in Processes, NEW d \in Deliveries,
               DatabaseFails(p, d) \/ CommitAnswerLost(p, d)
        PROVE  Moves(e)
    BY <1>5, FaultMoves DEF Moves, Dispatches
  <1>6. ASSUME NEW a \in Admins, NEW d \in Deliveries, RetryNow(a, d) PROVE Moves(e)
    <2>1. /\ RowIs(d, "RETRYING", "due", "none", delivery[d].attemptCount)
          /\ e # d => RowKept(e)
      BY <1>6, RowWrites DEF Writes, RetryNow
    <2>2. e = d => Reopens(d)
      BY <1>6, <2>1, <1>b DEF RetryNow, Reopens, Untold, Unwritten
    <2>3. e # d => Untouched(e)
      BY <1>6, <2>1, <1>b DEF RetryNow, Untouched, Untold, Unwritten, Spending, TypeOK
    <2>4. QED
      BY <2>2, <2>3 DEF Moves
  <1>7. ASSUME NEW d \in Deliveries, BackoffElapses(d) \/ LeaseElapses(d) PROVE Moves(e)
    <2>1. /\ UNCHANGED <<attempts, accepted, job, faults, lostAnswers, manualRetries>>
          /\ delays' >= delays
      BY <1>7 DEF BackoffElapses, LeaseElapses, Elapse, TypeOK
    <2>2. CASE BackoffElapses(d)
      <3>1. /\ RowIs(d, delivery[d].status, "due", delivery[d].processingStartedAt,
                     delivery[d].attemptCount)
            /\ e # d => RowKept(e)
        BY <2>2, RowWrites DEF Writes, BackoffElapses, Elapse
      <3>2. e = d => Ages(d)
        BY <2>1, <2>2, <3>1, <1>b DEF BackoffElapses, Elapse, Ages, Untold, Unwritten
      <3>3. e # d => Untouched(e)
        BY <2>1, <3>1, <1>b DEF Untouched, Untold, Unwritten, Spending, TypeOK
      <3>4. QED
        BY <3>2, <3>3 DEF Moves
    <2>3. CASE LeaseElapses(d)
      <3>1. /\ RowIs(d, delivery[d].status, delivery[d].nextAttemptAt, "expired",
                     delivery[d].attemptCount)
            /\ e # d => RowKept(e)
        BY <2>3, RowWrites DEF Writes, LeaseElapses, Elapse
      <3>2. e = d => Ages(d)
        BY <2>1, <2>3, <3>1, <1>b DEF LeaseElapses, Elapse, Ages, Untold, Unwritten
      <3>3. e # d => Untouched(e)
        BY <2>1, <3>1, <1>b DEF Untouched, Untold, Unwritten, Spending, TypeOK
      <3>4. QED
        BY <3>2, <3>3 DEF Moves
    <2>4. QED
      BY <1>7, <2>2, <2>3
  <1>8. CASE UNCHANGED vars
    <2>1. Untouched(e)
      BY <1>8, <1>a, <1>b DEF vars, counters, Untouched, Untold, Unwritten, Spending, TypeOK
    <2>2. QED
      BY <2>1 DEF Moves
  <1>9. QED
    BY <1>1, <1>2, <1>3, <1>4, <1>5, <1>6, <1>7, <1>8 DEF Next

(***************************************************************************)
(* The replica that serves a row, or the two that do at rest.              *)
(***************************************************************************)
LEMMA Spent ==
  TypeOK => /\ faults \in Nat /\ lostAnswers \in Nat /\ delays \in Nat
            /\ manualRetries \in Nat /\ MaxAttempts \in Nat
  BY LimitsAssumption DEF TypeOK

LEMMA RowBounds ==
  ASSUME TypeOK, NEW d \in Deliveries
  PROVE  /\ delivery[d].attemptCount \in Nat
         /\ delivery[d].status \in Status
         /\ Channel[d] \in Channels
         /\ \A p \in Processes : job[p][d].pc \in Step
  BY DeliveriesAssumption DEF TypeOK, Row, Job

LEMMA SoloStep ==
  ASSUME TypeOK, TypeOK', Tickets, NEW d \in Deliveries, Moves(d), OneReplica,
         \A p \in Processes : SoloJob(p, d)
  PROVE  \A p \in Processes : SoloJob(p, d)'
  <1> SUFFICES ASSUME NEW p \in Processes PROVE SoloJob(p, d)'
    OBVIOUS
  <1>0. /\ SoloJob(p, d)
        /\ \A q \in Processes : q = p
    BY DEF OneReplica
  <1>t. At(p, d, "sent") => job[p][d].attempt \in accepted[d]
    BY DEF Tickets, TicketsCounted
  <1>c. Channel[d] \in {"EMAIL", "SMS", "DESKTOP_PUSH", "IN_APP"}
    BY RowBounds DEF Channels
  <1>f. faults \in Nat /\ faults' \in Nat
    BY Spent DEF TypeOK
  <1> USE DEF SoloJob, Concluded, Fails, Failing, Owns, Owning, At, Open, Final, Claimable,
              Closing, Overwrites, External
  <1>1. CASE Untouched(d)
    <2>1. faults > 0 => faults' > 0
      BY <1>f, <1>1 DEF Untouched, Spending
    <2>2. QED
      BY <1>0, <1>1, <2>1 DEF Untouched, RowKept, RowIs, JobsKept, Untold
  <1>2. CASE Recovers(d)
    BY <1>0, <1>2 DEF Recovers, RowKept, RowIs, JobsKept, Untold, Still, counters
  <1>3. CASE Reopens(d)
    BY <1>0, <1>3 DEF Reopens, RowIs, JobsKept, Untold
  <1>4. CASE Ages(d)
    BY <1>0, <1>4 DEF Ages, RowIs, JobsKept, Untold
  <1>5. CASE Takes(p, d) \/ Drops(p, d)
    BY <1>0, <1>5 DEF Takes, Drops, Turns, RowKept, RowIs, Untold
  <1>6. CASE Advances(p, d)
    BY <1>0, <1>c, <1>6
       DEF Advances, Refuses, RendersInClaim, Turns, Ends, RowKept, RowIs, Untold, Still,
           counters
  <1>7. CASE Claims(p, d)
    BY <1>0, <1>7 DEF Claims, RowClaimed, RowIs, Untold
  <1>8. CASE Sends(p, d)
    BY <1>0, <1>c, <1>8 DEF Sends, Refuses, Turns, RowKept, RowIs, Still, counters
  <1>9. CASE Records(p, d)
    BY <1>0, <1>t, <1>9 DEF Records, RowConcluded, RowIs, Untold
  <1>10. CASE Inboxes(p, d)
    BY <1>0, <1>10 DEF Inboxes, RowInboxed, RowFailed, RowKept, Ends, RowIs
  <1>11. CASE Audits(p, d)
    BY <1>0, <1>11 DEF Audits, Turns, RowKept, RowIs, Untold
  <1>12. CASE Resolves(p, d)
    BY <1>0, <1>12 DEF Resolves, RowResolved, Turns, RowIs, Untold
  <1>13. CASE Breaks(p, d)
    <2>1. faults' > 0
      BY <1>f, <1>13 DEF Breaks, Faulted
    <2>2. CASE RowKept(d) /\ Untold(d)
      BY <1>0, <1>t, <1>c, <1>13, <2>1, <2>2
         DEF Breaks, Falters, CaughtByHandler, Turns, Ends, RowKept, RowIs, Untold
    <2>3. CASE RowClaimed(p, d)
      BY <1>0, <1>13, <2>3 DEF Breaks, Falters, CaughtByHandler, RowClaimed, Ends, RowIs
    <2>4. CASE RowConcluded(p, d)
      BY <1>0, <1>t, <1>c, <1>13, <2>1, <2>4
         DEF Breaks, Falters, CaughtByHandler, RowConcluded, Turns, Ends, RowIs, Untold
    <2>5. CASE RowInboxed(p, d)
      BY <1>0, <1>13, <2>5
         DEF Breaks, Falters, CaughtByHandler, RowInboxed, Turns, Ends, RowIs
    <2>6. CASE RowFailed(p, d)
      BY <1>0, <1>13, <2>6
         DEF Breaks, Falters, CaughtByHandler, RowFailed, RowKept, Turns, Ends, RowIs
    <2>7. CASE RowResolved(p, d)
      BY <1>0, <1>13, <2>7
         DEF Breaks, Falters, CaughtByHandler, RowResolved, Turns, Ends, RowIs
    <2>8. QED
      BY <1>13, <2>2, <2>3, <2>4, <2>5, <2>6, <2>7 DEF Breaks, Committed
  <1>14. QED
    BY <1>0, <1>1, <1>2, <1>3, <1>4, <1>5, <1>6, <1>7, <1>8, <1>9, <1>10, <1>11, <1>12,
       <1>13 DEF Moves, Dispatches

LEMMA DuoStep ==
  ASSUME TypeOK, Tickets, NEW d \in Deliveries, Moves(d),
         TwoReplicasAtRest(d), TwoReplicasAtRest(d)',
         \A p \in Processes : DuoJob(p, d),
         delivery[d].status = "PROCESSING" => \E p \in Processes : Owns(p, d)
  PROVE  /\ \A p \in Processes : DuoJob(p, d)'
         /\ (delivery[d].status = "PROCESSING" => \E p \in Processes : Owns(p, d))'
  <1> DEFINE Duo == /\ \A p \in Processes : DuoJob(p, d)
                    /\ delivery[d].status = "PROCESSING" => \E p \in Processes : Owns(p, d)
  <1> SUFFICES Duo'
    OBVIOUS
  <1>0. /\ Duo
        /\ Channel[d] = "SMS"
        /\ \A p, q, r \in Processes : p = q \/ q = r \/ p = r
        /\ faults = 0 /\ delays = 0 /\ manualRetries = 0
        /\ faults' = 0 /\ delays' = 0 /\ manualRetries' = 0
    BY DEF TwoReplicasAtRest
  <1>t. \A p \in Processes : At(p, d, "sent") => job[p][d].attempt \in accepted[d]
    BY DEF Tickets, TicketsCounted
  <1> USE DEF DuoJob, Concluded, Fails, Failing, Owns, Owning, At, Open, Final, Claimable,
              Closing
  <1>1. CASE Untouched(d)
    BY <1>0, <1>1 DEF Untouched, RowKept, RowIs, JobsKept, Untold
  <1>2. CASE Recovers(d)
    BY <1>0, <1>2 DEF Recovers, RowKept, RowIs, JobsKept, Untold
  <1>3. CASE Reopens(d)
    BY <1>0, <1>3 DEF Reopens
  <1>4. CASE Ages(d)
    BY <1>0, <1>4 DEF Ages, RowIs, JobsKept, Untold, Busy, Bookkeeping
  <1>5. ASSUME NEW p \in Processes, Dispatches(p, d) PROVE Duo'
    <2>1. CASE Takes(p, d)
      BY <1>0, <2>1 DEF Takes, OthersKept, RowKept, RowIs, Untold
    <2>2. CASE Drops(p, d) \/ Breaks(p, d)
      BY <1>0, <2>2 DEF Drops, Breaks, Faulted
    <2>3. CASE Advances(p, d)
      <3>1. RowKept(d) /\ Untold(d) /\ OthersKept(p, d)
        BY <2>3 DEF Advances, Refuses, Turns, Ends
      <3>2. CASE /\ job[p][d].pc \in {"queued", "claim"}
                 /\ job'[p][d].pc \in {"claim", "missed", "none"}
        BY <1>0, <3>1, <3>2 DEF OthersKept, RowKept, RowIs, Untold
      <3>3. CASE At(p, d, "missed")
        BY <1>0, <2>3, <3>1, <3>3 DEF Advances, Turns, OthersKept, RowKept, RowIs, Untold
      <3>4. CASE At(p, d, "handle")
        BY <1>0, <2>3, <3>1, <3>4 DEF Advances, Turns, OthersKept, RowKept, RowIs, Untold
      <3>5. CASE At(p, d, "send")
        <4>1. CASE Turns(p, d, "rejected")
          BY <1>0, <3>1, <3>5, <4>1 DEF Turns, OthersKept, RowKept, RowIs, Untold
        <4>2. CASE Turns(p, d, "failed") /\ Channel[d] # "DESKTOP_PUSH"
          BY <1>0, <3>1, <3>5, <4>2 DEF Turns, OthersKept, RowKept, RowIs, Untold
        <4>3. QED
          BY <2>3, <3>5, <4>1, <4>2 DEF Advances, Refuses
      <3>6. QED
        BY <1>0, <2>3, <3>2, <3>3, <3>4, <3>5
           DEF Advances, Refuses, RendersInClaim, External, Turns
    <2>4. CASE Claims(p, d)
      <3>1. ASSUME NEW q \in Processes \ {p}
            PROVE  job[q][d].pc \in {"none", "queued", "claim", "missed"}
        BY <1>0, <2>4, RowBounds DEF Claims, RowClaimed, Step
      <3>2. QED
        BY <1>0, <2>4, <3>1 DEF Claims, RowClaimed, OthersKept, RowIs, Untold
    <2>5. CASE Sends(p, d)
      <3>1. RowKept(d) /\ OthersKept(p, d) /\ At(p, d, "send")
        BY <2>5 DEF Sends, Refuses, Turns
      <3>2. CASE Turns(p, d, "sent")
        BY <1>0, <2>5, <3>1, <3>2 DEF Sends, Turns, OthersKept, RowKept, RowIs
      <3>3. CASE Turns(p, d, "rejected")
        BY <1>0, <2>5, <3>1, <3>3 DEF Sends, Turns, OthersKept, RowKept, RowIs
      <3>4. CASE Turns(p, d, "failed") /\ Channel[d] # "DESKTOP_PUSH"
        BY <1>0, <2>5, <3>1, <3>4 DEF Sends, Turns, OthersKept, RowKept, RowIs
      <3>5. QED
        BY <2>5, <3>2, <3>3, <3>4 DEF Sends, Refuses
    <2>6. CASE Records(p, d)
      BY <1>0, <1>t, <2>6 DEF Records, RowConcluded, OthersKept, RowIs, Untold
    <2>7. CASE Inboxes(p, d)
      BY <1>0, <2>7 DEF Inboxes, RowInboxed, RowFailed, External
    <2>8. CASE Audits(p, d)
      BY <1>0, <2>8 DEF Audits, Turns, OthersKept, RowKept, RowIs, Untold
    <2>9. CASE Resolves(p, d)
      BY <1>0, <2>9 DEF Resolves, RowResolved, Turns, OthersKept, RowIs, Untold
    <2>10. QED
      BY <1>5, <2>1, <2>2, <2>3, <2>4, <2>5, <2>6, <2>7, <2>8, <2>9 DEF Dispatches
  <1>6. QED
    BY <1>1, <1>2, <1>3, <1>4, <1>5 DEF Moves

LEMMA RestBefore ==
  ASSUME TypeOK, NEW d \in Deliveries, Moves(d)
  PROVE  /\ TwoReplicasAtRest(d)' => TwoReplicasAtRest(d)
         /\ faults' = 0 => faults = 0
         /\ Spending
  <1>1. Spending
    <2>1. CASE Still \/ Faulted
      BY <2>1, StillSpending
    <2>2. CASE Untouched(d) \/ Recovers(d) \/ Reopens(d) \/ Ages(d)
      BY <2>1, <2>2, Spent DEF Untouched, Spending, Recovers, Reopens, Ages
    <2>3. ASSUME NEW p \in Processes, Sends(p, d) PROVE Spending
      BY <2>1, <2>3, Spent DEF Sends, Spending
    <2>4. ASSUME NEW p \in Processes, Dispatches(p, d) PROVE Spending
      BY <2>1, <2>3, <2>4
         DEF Dispatches, Takes, Drops, Advances, Claims, Records, Inboxes, Audits,
             Resolves, Breaks
    <2>5. QED
      BY <2>2, <2>4 DEF Moves
  <1>2. QED
    BY <1>1, Spent DEF Spending, TwoReplicasAtRest

AllDispatched == \A d \in Deliveries : Dispatched(d)

LEMMA DispatchedStep ==
  TypeOK /\ TypeOK' /\ TicksFresh /\ Tickets /\ AllDispatched /\ [Next]_vars => AllDispatched'
  <1> SUFFICES ASSUME TypeOK, TypeOK', TicksFresh, Tickets, AllDispatched, [Next]_vars,
                      NEW d \in Deliveries
               PROVE  Dispatched(d)'
    BY DEF AllDispatched
  <1>1. Moves(d) /\ Dispatched(d)
    BY StepMoves DEF AllDispatched
  <1>2. OneReplica => \A p \in Processes : SoloJob(p, d)'
    BY <1>1, SoloStep DEF Dispatched
  <1>3. ASSUME TwoReplicasAtRest(d)'
        PROVE  /\ \A p \in Processes : DuoJob(p, d)'
               /\ (delivery[d].status = "PROCESSING" => \E p \in Processes : Owns(p, d))'
    BY <1>1, <1>3, RestBefore, DuoStep DEF Dispatched
  <1>4. QED
    BY <1>2, <1>3 DEF Dispatched, OneReplica

LEMMA DispatchedInvariant == Spec => []AllDispatched
<1>1. Init => AllDispatched
  BY DEF Init, NoJob, NewRow, DigestItem, AllDispatched, Dispatched, SoloJob, DuoJob,
         Concluded, Fails, Failing, Closing, Owns, Owning, At
<1>2. QED
  BY <1>1, DispatchedStep, Typing, TicksFreshInvariant, TicketsInvariant, PTL DEF Spec

\* What one replica, and two at rest, have in common.
Orderly(d) ==
    /\ \A p \in Processes :
        /\ Owns(p, d) => job[p][d].attempt = delivery[d].attemptCount /\ External(d)
        /\ job[p][d].pc \in {"send", "sent", "rejected", "skip"} =>
               delivery[d].status = "PROCESSING"
        /\ At(p, d, "failed") => Overwrites(p, d)
        /\ Concluded(p, d)
        /\ job[p][d].pc \in {"reschedule", "exhaust"} => delivery[d].status \notin Final
        /\ job[p][d].pc \in {"claim", "rolledBack"} /\ delivery[d].status \in Claimable(d) =>
               delivery[d].status \in Open
        /\ job[p][d].pc \in {"claim", "missed"} /\ delivery[d].status = "PROCESSING" =>
               \E q \in Processes \ {p} : Owns(q, d)
        /\ At(p, d, "none") /\ delivery[d].status = "PROCESSING"
             /\ delivery[d].processingStartedAt = "expired" => ~Busy(d)
    /\ \A p, q \in Processes :
        /\ Owns(p, d) /\ Owns(q, d) => p = q
        /\ Owns(p, d) /\ p # q /\ job[q][d].pc \in {"claim", "rolledBack"} =>
               delivery[d].status \notin Claimable(d)
        /\ Fails(p, d) /\ p # q /\ job[q][d].pc \in {"claim", "rolledBack"} =>
               delivery[d].status \notin Claimable(d)

LEMMA UncontestedOrderly ==
  ASSUME TypeOK, NEW d \in Deliveries, Dispatched(d), Uncontested(d)
  PROVE  Orderly(d)
  <1> USE DEF Concluded, Fails, Failing, Closing, Owns, Owning, At, Open, Final, Claimable,
              Busy
  <1>1. CASE OneReplica
    BY <1>1 DEF Dispatched, Orderly, SoloJob, OneReplica
  <1>2. CASE TwoReplicasAtRest(d)
    BY <1>2 DEF Dispatched, Orderly, DuoJob, TwoReplicasAtRest, Overwrites, External
  <1>3. QED
    BY <1>1, <1>2 DEF Uncontested

(***************************************************************************)
(* A recorded outcome stays on every uncontested row, but for the SENT     *)
(* that the catch block of its own dispatch calls failed.                  *)
(***************************************************************************)
TakenBack(d) ==
    /\ delivery[d].status = "SENT" /\ delivery'[d].status = "FAILED"
    /\ Channel[d] \in {"EMAIL", "SMS"} /\ faults > 0
    /\ \E p \in Processes : At(p, d, "failed") /\ job[p][d].attempt \in accepted[d]

LEMMA OutcomeKept ==
  ASSUME TypeOK, NEW d \in Deliveries, Moves(d), Orderly(d), delivery[d].status \in Final
  PROVE  delivery'[d].status = delivery[d].status \/ TakenBack(d)
  <1> USE DEF Owns, Owning, At, Final, Open, Claimable
  <1>1. CASE Untouched(d) \/ Recovers(d) \/ Reopens(d) \/ Ages(d)
    BY <1>1 DEF Untouched, Recovers, Reopens, Ages, RowKept, RowIs
  <1>2. CASE RowKept(d)
    BY <1>2 DEF RowKept, RowIs
  <1>3. ASSUME NEW p \in Processes, Committed(p, d)
        PROVE  delivery'[d].status = delivery[d].status \/ TakenBack(d)
    <2>1. CASE RowClaimed(p, d) \/ RowInboxed(p, d) \/ RowFailed(p, d)
      BY <1>2, <2>1 DEF RowClaimed, RowInboxed, RowFailed, Orderly
    <2>2. CASE RowConcluded(p, d)
      <3>1. At(p, d, "failed") /\ delivery'[d].status = "FAILED"
        BY <2>2 DEF RowConcluded, RowIs, Orderly
      <3>2. QED
        BY <3>1 DEF TakenBack, Orderly, Overwrites
    <2>3. CASE RowResolved(p, d)
      BY <2>3 DEF RowResolved, Orderly
    <2>4. QED
      BY <1>3, <2>1, <2>2, <2>3 DEF Committed
  <1>4. QED
    BY <1>1, <1>2, <1>3
       DEF Moves, Dispatches, Takes, Drops, Advances, Claims, Sends, Records, Inboxes,
           Audits, Resolves, Breaks, Committed

(***************************************************************************)
(* The messages, the attempts and the history of an uncontested row.       *)
(***************************************************************************)
LEMMA ToldStays ==
  ASSUME TypeOK, NEW d \in Deliveries, Moves(d), Orderly(d), Told(d)
  PROVE  Told(d)' \/ faults' = faults + 1
  <1> USE DEF At
  <1>0. CASE Faulted
    BY <1>0 DEF Faulted
  <1>1. CASE JobsKept(d) /\ delivery'[d].status = delivery[d].status
    BY <1>1 DEF JobsKept, Told
  <1>2. CASE Untouched(d) \/ Recovers(d) \/ Reopens(d) \/ Ages(d)
    <2>1. CASE delivery'[d].status = delivery[d].status
      BY <1>1, <1>2, <2>1 DEF Untouched, Recovers, Reopens, Ages
    <2>2. CASE delivery[d].status \in {"SENT", "DELIVERED"} /\ ~TakenBack(d)
      BY <2>1, <2>2, OutcomeKept DEF Final
    <2>3. CASE \E p \in Processes : At(p, d, "sent")
      BY <1>2, <2>3
         DEF Untouched, Recovers, Reopens, Ages, RowKept, RowIs, JobsKept, Told
    <2>4. QED
      BY <2>2, <2>3 DEF Told, TakenBack
  <1>3. ASSUME NEW p \in Processes, Dispatches(p, d), ~Faulted
        PROVE  Told(d)'
    <2>1. OthersKept(p, d)
      BY <1>3
         DEF Dispatches, Takes, Drops, Advances, Claims, Sends, Records, Inboxes, Audits,
             Resolves, Breaks, Refuses, Turns, Ends
    <2>2. CASE /\ delivery[d].status \in {"SENT", "DELIVERED"}
               /\ \A q \in Processes : ~At(q, d, "failed")
      <3>1. delivery'[d].status = delivery[d].status
        BY <2>2, OutcomeKept DEF Final, TakenBack
      <3>2. ~At(p, d, "send")
        BY <2>2 DEF Orderly
      <3>3. job'[p][d].pc # "failed"
        BY <1>3, <2>2, <3>2
           DEF Dispatches, Takes, Drops, Advances, Claims, Sends, Records, Inboxes, Audits,
               Resolves, Breaks, Turns, Ends
      <3>4. QED
        BY <2>1, <2>2, <3>1, <3>3 DEF OthersKept, Told
    <2>3. ASSUME NEW q \in Processes, At(q, d, "sent"), q # p PROVE Told(d)'
      BY <2>1, <2>3 DEF OthersKept, Told
    <2>4. CASE At(p, d, "sent")
      <3>1. Records(p, d)
        BY <1>3, <2>4
           DEF Dispatches, Takes, Drops, Advances, Claims, RowClaimed, Sends, Inboxes,
               RowInboxed, RowFailed, Audits, Resolves, RowResolved, Breaks
      <3>2. delivery'[d].status = "SENT" /\ job'[p][d].pc \in {"audit", "bucket"}
        BY <2>4, <3>1 DEF Records, RowConcluded, RowIs
      <3>3. \A q \in Processes \ {p} : ~At(q, d, "failed")
        BY <2>4 DEF Orderly, Owns, Owning
      <3>4. QED
        BY <2>1, <3>2, <3>3 DEF OthersKept, Told
    <2>5. QED
      BY <2>2, <2>3, <2>4 DEF Told
  <1>4. QED
    BY <1>0, <1>2, <1>3 DEF Moves

LEMMA AcceptedCard ==
  ASSUME TypeOK, Tickets, NEW d \in Deliveries
  PROVE  /\ IsFiniteSet(accepted[d]) /\ Cardinality(accepted[d]) \in Nat
         /\ \A n : n \notin accepted[d] =>
                Cardinality(accepted[d] \union {n}) = Cardinality(accepted[d]) + 1
  <1>1. accepted[d] \subseteq 1..delivery[d].attemptCount
    BY DEF Tickets, TicketsCounted
  <1>2. IsFiniteSet(1..delivery[d].attemptCount)
    BY RowBounds, FS_Interval
  <1>3. IsFiniteSet(accepted[d])
    BY <1>1, <1>2, FS_Subset
  <1>4. QED
    BY <1>3, FS_CardinalityType, FS_AddElement

\* Which moves add to what was accepted.
InboxTakes(p, d) ==
    /\ At(p, d, "claim") /\ ~External(d) /\ delivery[d].status \in Claimable(d)
    /\ delivery'[d].status = "DELIVERED"
    /\ accepted'[d] = accepted[d] \union {delivery[d].attemptCount + 1}
    /\ Faulted \/ (Still /\ Ends(p, d, "DELIVERED"))

LEMMA AcceptedMoves ==
  ASSUME TypeOK, NEW d \in Deliveries, Moves(d)
  PROVE  \/ Untold(d)
         \/ \E p \in Processes : Sends(p, d) \/ InboxTakes(p, d)
  <1>1. CASE Untouched(d) \/ Recovers(d) \/ Reopens(d) \/ Ages(d)
    BY <1>1 DEF Untouched, Recovers, Reopens, Ages
  <1>2. ASSUME NEW p \in Processes, Dispatches(p, d), ~Sends(p, d)
        PROVE  Untold(d) \/ InboxTakes(p, d)
    <2>1. CASE RowInboxed(p, d)
      <3>1. /\ At(p, d, "claim") /\ ~External(d) /\ delivery[d].status \in Claimable(d)
            /\ \/ Untold(d)
               \/ /\ delivery'[d].status = "DELIVERED"
                  /\ accepted'[d] = accepted[d] \union {delivery[d].attemptCount + 1}
        BY <2>1 DEF RowInboxed, RowIs
      <3>2. Untold(d) \/ Faulted \/ Inboxes(p, d)
        BY <1>2
           DEF Dispatches, Takes, Drops, Advances, Claims, RowClaimed, Records,
               RowConcluded, Audits, Resolves, RowResolved, Breaks
      <3>3. Inboxes(p, d) => Still /\ Ends(p, d, delivery'[d].status)
        BY <3>1 DEF Inboxes, RowFailed, At
      <3>4. QED
        BY <3>1, <3>2, <3>3 DEF InboxTakes
    <2>2. CASE ~RowInboxed(p, d)
      BY <1>2, <2>2
         DEF Dispatches, Takes, Drops, Advances, Claims, RowClaimed, Records, RowConcluded,
             Inboxes, RowFailed, Audits, Resolves, RowResolved, Breaks, Committed
    <2>3. QED
      BY <2>1, <2>2
  <1>3. QED
    BY <1>1, <1>2 DEF Moves

\* A message goes out, or into the inbox, only for a row that told of none so far.
LEMMA MessageUntold ==
  ASSUME NEW d \in Deliveries, NEW p \in Processes, Orderly(d),
         Sends(p, d) \/ InboxTakes(p, d)
  PROVE  ~Told(d)
  <1> USE DEF At, Owns, Owning
  <1>1. CASE Sends(p, d)
    BY <1>1 DEF Sends, Told, Orderly
  <1>2. CASE InboxTakes(p, d)
    <2>1. \A q \in Processes : ~At(q, d, "sent")
      BY <1>2 DEF InboxTakes, Orderly
    <2>2. QED
      BY <1>2, <2>1 DEF InboxTakes, Told, Claimable
  <1>3. QED
    BY <1>1, <1>2

LEMMA CopiesStep ==
  ASSUME TypeOK, TypeOK', Tickets, NEW d \in Deliveries, Moves(d), Orderly(d),
         Cardinality(accepted[d]) <= Allowance(d)
  PROVE  (Cardinality(accepted[d]) <= Allowance(d))'
  <1> USE DEF At
  <1>0. /\ faults \in Nat /\ faults' >= faults /\ faults' \in Nat
        /\ lostAnswers \in Nat /\ lostAnswers' >= lostAnswers /\ lostAnswers' \in Nat
        /\ Cardinality(accepted[d]) \in Nat
    BY Spent, RestBefore, AcceptedCard DEF TypeOK, Spending
  <1>a. /\ Told(d) => Allowance(d) = faults + lostAnswers + 1
        /\ ~Told(d) => Allowance(d) = faults + lostAnswers + 0
        /\ Told(d)' => Allowance(d)' = faults' + lostAnswers' + 1
        /\ ~Told(d)' => Allowance(d)' = faults' + lostAnswers' + 0
    BY DEF Allowance
  <1>1. CASE Untold(d)
    <2>1. Cardinality(accepted'[d]) = Cardinality(accepted[d])
      BY <1>1 DEF Untold
    <2>2. CASE ~Told(d)
      BY <1>0, <1>a, <2>1, <2>2
    <2>3. CASE Told(d) /\ Told(d)'
      BY <1>0, <1>a, <2>1, <2>3
    <2>4. CASE Told(d) /\ faults' = faults + 1
      BY <1>0, <1>a, <2>1, <2>4
    <2>5. QED
      BY <2>2, <2>3, <2>4, ToldStays
  <1>2. ASSUME NEW p \in Processes, Sends(p, d)
        PROVE  (Cardinality(accepted[d]) <= Allowance(d))'
    <2>1. ~Told(d)
      BY <1>2, MessageUntold
    <2>2. Told(d)' \/ lostAnswers' = lostAnswers + 1
      BY <1>2 DEF Sends, Turns, Told
    <2>3. job[p][d].attempt \notin accepted[d]
      BY <1>2 DEF Sends, Tickets, AttemptsNotShared
    <2>4. Cardinality(accepted'[d]) = Cardinality(accepted[d]) + 1
      BY <1>2, <2>3, AcceptedCard DEF Sends
    <2>5. QED
      BY <1>0, <1>a, <2>1, <2>2, <2>4
  <1>3. ASSUME NEW p \in Processes, InboxTakes(p, d)
        PROVE  (Cardinality(accepted[d]) <= Allowance(d))'
    <2>0. \A q \in Processes : job[q][d].pc \notin {"sent", "failed"}
      BY <1>3 DEF InboxTakes, Orderly, Owns, Owning
    <2>1. ~Told(d)
      BY <1>3, MessageUntold
    <2>2. Told(d)' \/ faults' = faults + 1
      BY <1>3, <2>0 DEF InboxTakes, Faulted, Ends, OthersKept, Told
    <2>3. delivery[d].attemptCount + 1 \notin accepted[d]
      BY RowBounds DEF Tickets, TicketsCounted
    <2>4. Cardinality(accepted'[d]) = Cardinality(accepted[d]) + 1
      BY <1>3, <2>3, AcceptedCard DEF InboxTakes
    <2>5. QED
      BY <1>0, <1>a, <2>1, <2>2, <2>4
  <1>4. QED
    BY <1>1, <1>2, <1>3, AcceptedMoves

Counted(d) ==
    /\ delivery[d].attemptCount <= Budget
    /\ delivery[d].status \in Open => delivery[d].attemptCount < Budget
    /\ delivery[d].status = "PROCESSING" /\ ~Busy(d) => delivery[d].attemptCount < Budget
    /\ \A p \in Processes : At(p, d, "reschedule") => delivery[d].attemptCount < MaxAttempts

LEMMA Sums ==
  ASSUME NEW a \in Nat, NEW f \in Nat, NEW m \in Nat, NEW g \in Nat, NEW n \in Nat,
         g >= f, n >= m
  PROVE  /\ a + f + m \in Nat /\ a + g + n \in Nat
         /\ a + g + n >= a + f + m /\ a <= a + f + m
  OBVIOUS

LEMMA CountedStep ==
  ASSUME TypeOK, TypeOK', NEW d \in Deliveries, Moves(d), Orderly(d), Counted(d)
  PROVE  Counted(d)'
  <1>0. /\ faults \in Nat /\ manualRetries \in Nat /\ MaxAttempts \in Nat
        /\ faults' \in Nat /\ manualRetries' \in Nat
        /\ faults' >= faults /\ manualRetries' >= manualRetries
        /\ delivery[d].attemptCount \in Nat
    BY Spent, RestBefore, RowBounds DEF TypeOK, Spending
  <1>b. Budget \in Nat /\ Budget' \in Nat /\ Budget' >= Budget /\ MaxAttempts <= Budget
    <2>1. Budget = MaxAttempts + faults + manualRetries
      BY DEF Budget
    <2>2. Budget' = MaxAttempts + faults' + manualRetries'
      BY DEF Budget
    <2>3. QED
      BY <1>0, <2>1, <2>2, Sums
  <1>c. ASSUME Faulted PROVE Budget' = Budget + 1
    BY <1>0, <1>c DEF Faulted, Budget
  <1> USE DEF Counted, Owns, Owning, At, Final, Open, Claimable, Busy
  <1>1. CASE Untouched(d)
    BY <1>0, <1>b, <1>1 DEF Untouched, RowKept, RowIs, JobsKept
  <1>2. CASE Recovers(d)
    BY <1>0, <1>b, <1>2 DEF Recovers, RowKept, RowIs, JobsKept, Orderly
  <1>3. CASE Reopens(d)
    BY <1>0, <1>b, <1>3 DEF Reopens, RowIs, JobsKept, Budget
  <1>4. CASE Ages(d)
    BY <1>0, <1>b, <1>4 DEF Ages, RowIs, JobsKept
  <1>5. ASSUME NEW p \in Processes, Dispatches(p, d) PROVE Counted(d)'
    <2>1. CASE Takes(p, d)
      BY <1>0, <1>b, <2>1 DEF Takes, OthersKept, RowKept, RowIs
    <2>2. CASE Drops(p, d)
      BY <1>0, <1>b, <1>c, <2>2 DEF Drops, Turns, OthersKept, RowKept, RowIs
    <2>3. CASE Breaks(p, d)
      <3>1. Budget' = Budget + 1 /\ OthersKept(p, d) /\ job'[p][d].pc # "reschedule"
        BY <1>c, <2>3 DEF Breaks, Falters, Turns, Ends
      <3>2. delivery'[d].attemptCount <= Budget
              \/ (RowClaimed(p, d) \/ RowInboxed(p, d) \/ RowFailed(p, d))
        BY <2>3 DEF Breaks, Committed, RowConcluded, RowResolved, RowKept, RowIs
      <3>3. CASE /\ delivery'[d].attemptCount = delivery[d].attemptCount
                 /\ delivery'[d].attemptCount <= Budget
        BY <1>0, <1>b, <3>1, <3>3 DEF OthersKept
      <3>4. CASE RowClaimed(p, d) \/ RowInboxed(p, d)
        <4>1. job'[p][d].pc \in {"audit", "rolledBack"}
          BY <2>3, <3>4
             DEF Breaks, Falters, CaughtByHandler, Turns, Ends, RowClaimed, RowInboxed, Failing
        <4>2. CASE RowClaimed(p, d)
          BY <1>0, <1>b, <2>3, <3>1, <4>1, <4>2
             DEF Breaks, Falters, CaughtByHandler, Turns, Ends, RowClaimed, RowIs, OthersKept,
                 Orderly, Fails, Failing
        <4>3. CASE RowInboxed(p, d)
          BY <1>0, <1>b, <2>3, <3>1, <4>1, <4>3
             DEF Breaks, Falters, CaughtByHandler, Turns, Ends, RowInboxed, RowIs, OthersKept,
                 Orderly, Fails, Failing
        <4>4. QED
          BY <3>4, <4>2, <4>3
      <3>5. CASE RowFailed(p, d)
        BY <1>0, <1>b, <3>1, <3>3, <3>5
           DEF RowFailed, RowKept, RowIs, OthersKept, Orderly, Fails, Failing
      <3>6. QED
        BY <2>3, <3>3, <3>4, <3>5
           DEF Breaks, Committed, RowConcluded, RowResolved, RowKept, RowIs
    <2>4. CASE Advances(p, d)
      <3>1. /\ delivery'[d].status = delivery[d].status
            /\ delivery'[d].attemptCount = delivery[d].attemptCount
        BY <2>4 DEF Advances, RowKept, RowIs
      <3>2. delivery[d].status = "PROCESSING" /\ ~Busy(d)' => delivery[d].attemptCount < Budget
        BY <1>0, <1>b, <2>4 DEF Advances, Refuses, Turns, Ends, OthersKept, Orderly
      <3>3. \A q \in Processes : At(q, d, "reschedule")' => delivery[d].attemptCount < MaxAttempts
        BY <1>0, <2>4 DEF Advances, Refuses, Turns, Ends, OthersKept
      <3>4. QED
        BY <1>0, <1>b, <3>1, <3>2, <3>3
    <2>5. CASE Claims(p, d)
      BY <1>0, <1>b, <2>5 DEF Claims, RowClaimed, OthersKept, RowIs, Orderly, Fails, Failing
    <2>6. CASE Sends(p, d)
      BY <1>0, <1>b, <2>6 DEF Sends, Refuses, Turns, OthersKept, RowKept, RowIs
    <2>7. CASE Records(p, d)
      BY <1>0, <1>b, <2>7 DEF Records, RowConcluded, OthersKept, RowIs
    <2>8. CASE Inboxes(p, d)
      BY <1>0, <1>b, <2>8
         DEF Inboxes, RowInboxed, RowFailed, Ends, OthersKept, RowKept, RowIs, Orderly,
             Fails, Failing
    <2>9. CASE Audits(p, d)
      BY <1>0, <1>b, <2>9
         DEF Audits, Turns, OthersKept, RowKept, RowIs, Orderly, Concluded, Closing
    <2>10. CASE Resolves(p, d)
      BY <1>0, <1>b, <2>10 DEF Resolves, RowResolved, Turns, OthersKept, RowIs
    <2>11. QED
      BY <1>5, <2>1, <2>2, <2>3, <2>4, <2>5, <2>6, <2>7, <2>8, <2>9, <2>10 DEF Dispatches
  <1>6. QED
    BY <1>1, <1>2, <1>3, <1>4, <1>5 DEF Moves

RecordedTruthfully(d) ==
    \A r \in attempts[d] : r.status \in {"SENT", "DELIVERED"} => r.attemptNumber \in accepted[d]

LEMMA HistoryStep ==
  ASSUME TypeOK, NEW d \in Deliveries, Moves(d), Orderly(d), RecordedTruthfully(d),
         accepted[d] \subseteq accepted'[d]
  PROVE  RecordedTruthfully(d)'
  <1>1. CASE Unwritten(d)
    BY <1>1 DEF Unwritten, RecordedTruthfully
  <1>2. ASSUME NEW p \in Processes, Audits(p, d) PROVE RecordedTruthfully(d)'
    <2>1. job[p][d].result \in {"SENT", "DELIVERED"} => delivery[d].attemptCount \in accepted[d]
      BY <1>2 DEF Audits, Orderly, Concluded, Closing, At
    <2>2. QED
      BY <1>2, <2>1 DEF Audits, RecordedTruthfully
  <1>3. QED
    BY <1>1, <1>2
       DEF Moves, Untouched, Recovers, Reopens, Ages, Dispatches, Takes, Drops, Advances,
           Claims, Sends, Records, Inboxes, Resolves, Breaks

AllLedgers == \A d \in Deliveries : Uncontested(d) => Ledger(d)

LEMMA LedgerParts ==
  ASSUME NEW d \in Deliveries
  PROVE  Ledger(d) <=> /\ Cardinality(accepted[d]) <= Allowance(d)
                       /\ Counted(d)
                       /\ RecordedTruthfully(d)
  BY DEF Ledger, Counted, RecordedTruthfully

LEMMA LedgerStep ==
  TypeOK /\ TypeOK' /\ TicksFresh /\ Tickets /\ AllDispatched /\ AllLedgers /\ [Next]_vars
    => AllLedgers'
  <1> SUFFICES ASSUME TypeOK, TypeOK', TicksFresh, Tickets, AllDispatched, AllLedgers,
                      [Next]_vars, NEW d \in Deliveries, Uncontested(d)'
               PROVE  Ledger(d)'
    BY DEF AllLedgers
  <1>1. Moves(d) /\ accepted[d] \subseteq accepted'[d]
    BY StepMoves, AcceptedGrows
  <1>2. Uncontested(d)
    BY <1>1, RestBefore DEF Uncontested, OneReplica
  <1>3. Orderly(d) /\ Ledger(d)
    BY <1>2, UncontestedOrderly DEF AllDispatched, AllLedgers
  <1>4. (Cardinality(accepted[d]) <= Allowance(d))'
    BY <1>1, <1>3, LedgerParts, CopiesStep
  <1>5. Counted(d)' /\ RecordedTruthfully(d)'
    BY <1>1, <1>3, LedgerParts, CountedStep, HistoryStep
  <1>6. QED
    BY <1>4, <1>5 DEF Ledger, Counted, RecordedTruthfully

LEMMA LedgerInvariant == Spec => []AllLedgers
<1>1. Init => AllLedgers
  <2> SUFFICES ASSUME Init, NEW d \in Deliveries PROVE Ledger(d)
    BY DEF AllLedgers
  <2>1. accepted[d] = {} /\ Cardinality({}) = 0 /\ attempts[d] = {}
    BY FS_EmptySet DEF Init
  <2>2. delivery[d].attemptCount = 0 /\ delivery[d].status \in {"PENDING", "SKIPPED"}
    BY DEF Init, NewRow, DigestItem
  <2>3. \A p \in Processes : At(p, d, "none")
    BY DEF Init, NoJob, At
  <2>4. faults = 0 /\ lostAnswers = 0 /\ manualRetries = 0 /\ MaxAttempts \in Nat \ {0}
    BY LimitsAssumption DEF Init
  <2>5. ~Told(d)
    BY <2>2, <2>3 DEF Told, At
  <2>6. Budget \in Nat /\ Budget >= 1
    BY <2>4 DEF Budget
  <2>7. Cardinality(accepted[d]) <= Allowance(d)
    BY <2>1, <2>4, <2>5 DEF Allowance
  <2>8. Counted(d)
    BY <2>2, <2>3, <2>4, <2>6 DEF Counted, At, Open
  <2>9. QED
    BY <2>1, <2>7, <2>8, LedgerParts DEF RecordedTruthfully
<1>2. QED
  BY <1>1, LedgerStep, Typing, TicksFreshInvariant, TicketsInvariant, DispatchedInvariant,
     PTL DEF Spec

(***************************************************************************)
(* Without faults no replica gives a row up before its attempts are used.  *)
(***************************************************************************)
LEMMA AttendedStep ==
  ASSUME TypeOK, TypeOK', NEW d \in Deliveries, Moves(d), Attended(d),
         delivery'[d].attemptCount >= delivery[d].attemptCount
  PROVE  Attended(d)'
  <1> SUFFICES ASSUME faults' = 0 PROVE Attended(d)'
    BY DEF Attended
  <1>0. /\ faults = 0
        /\ MaxAttempts \in Nat
        /\ delivery[d].attemptCount \in Nat /\ delivery'[d].attemptCount \in Nat
    BY Spent, RestBefore, RowBounds DEF TypeOK, Row
  <1> USE DEF Attended, Fails, Failing, Closing, At
  <1>1. CASE Untouched(d) \/ Recovers(d) \/ Reopens(d) \/ Ages(d)
    BY <1>0, <1>1 DEF Untouched, Recovers, Reopens, Ages, RowKept, RowIs, JobsKept
  <1>2. ASSUME NEW p \in Processes, Dispatches(p, d) PROVE Attended(d)'
    <2>1. CASE Takes(p, d)
      BY <1>0, <2>1 DEF Takes, OthersKept, RowKept, RowIs
    <2>2. CASE Drops(p, d) \/ Breaks(p, d)
      BY <1>0, <2>2 DEF Drops, Breaks, Faulted
    <2>3. CASE Advances(p, d)
      BY <1>0, <2>3 DEF Advances, Refuses, Turns, Ends, OthersKept, RowKept, RowIs
    <2>4. CASE Claims(p, d)
      BY <1>0, <2>4 DEF Claims, RowClaimed, OthersKept, RowIs
    <2>5. CASE Sends(p, d)
      BY <1>0, <2>5 DEF Sends, Refuses, Turns, OthersKept, RowKept, RowIs
    <2>6. CASE Records(p, d)
      BY <1>0, <2>6 DEF Records, RowConcluded, OthersKept, RowIs
    <2>7. CASE Inboxes(p, d)
      BY <1>0, <2>7
         DEF Inboxes, RowInboxed, RowFailed, Ends, OthersKept, RowKept, RowIs
    <2>8. CASE Audits(p, d)
      BY <1>0, <2>8 DEF Audits, Turns, OthersKept, RowKept, RowIs
    <2>9. CASE Resolves(p, d)
      BY <1>0, <2>9 DEF Resolves, RowResolved, Turns, OthersKept, RowIs
    <2>10. QED
      BY <1>2, <2>1, <2>2, <2>3, <2>4, <2>5, <2>6, <2>7, <2>8, <2>9 DEF Dispatches
  <1>3. QED
    BY <1>1, <1>2 DEF Moves

AllAttended == \A d \in Deliveries : Attended(d)

LEMMA AttendedInvariant == Spec => []AllAttended
<1>1. Init => AllAttended
  BY DEF Init, NoJob, NewRow, DigestItem, AllAttended, Attended, At
<1>2. TypeOK /\ TypeOK' /\ TicksFresh /\ AllAttended /\ [Next]_vars => AllAttended'
  BY StepMoves, AttendedStep, CountMonotone DEF AllAttended, CountGrows
<1>3. QED
  BY <1>1, <1>2, Typing, TicksFreshInvariant, PTL DEF Spec

(***************************************************************************)
(* What an uncontested row shows of its attempts agrees with them, and     *)
(* no row is given up early, on any number of replicas.                    *)
(***************************************************************************)
THEOREM AttemptsAreAccounted == Spec => []AttemptsAccounted
<1>1. TypeOK /\ Tickets /\ AllLedgers /\ AllAttended => AttemptsAccounted
  <2> SUFFICES ASSUME TypeOK, Tickets, AllLedgers, AllAttended PROVE AttemptsAccounted
    OBVIOUS
  <2>0. ASSUME NEW d \in Deliveries
        PROVE /\ faults \in Nat /\ lostAnswers \in Nat
              /\ Cardinality(accepted[d]) \in Nat
    BY Spent, AcceptedCard
  <2>1. HistoryTruthful
    BY DEF HistoryTruthful, AllLedgers, Ledger
  <2>2. CopiesNeedMishaps
    <3>1. ASSUME NEW d \in Deliveries, Uncontested(d)
          PROVE  Cardinality(accepted[d]) <= 1 + faults + lostAnswers
      <4>1. Cardinality(accepted[d]) <= Allowance(d)
        BY <3>1 DEF AllLedgers, Ledger
      <4>2. Allowance(d) <= 1 + faults + lostAnswers /\ Allowance(d) \in Nat
        BY <2>0 DEF Allowance
      <4>3. QED
        BY <2>0, <4>1, <4>2
    <3>2. QED
      BY <3>1 DEF CopiesNeedMishaps
  <2>3. AttemptsWithinBudget
    BY DEF AttemptsWithinBudget, AllLedgers, Ledger, Budget
  <2>4. NoEarlyGivingUp
    BY DEF NoEarlyGivingUp, AllAttended, Attended, Fails, Failing, Closing, Busy, At
  <2>5. QED
    BY <2>1, <2>2, <2>3, <2>4 DEF AttemptsAccounted, AttemptBudget
<1>2. QED
  BY <1>1, Typing, TicketsInvariant, LedgerInvariant, AttendedInvariant, PTL

(***************************************************************************)
(* One message at a time for a row nobody contests.                        *)
(***************************************************************************)
THEOREM OneSendAtATime == Spec => []NoConcurrentSends
<1>1. TypeOK /\ AllDispatched => NoConcurrentSends
  BY UncontestedOrderly
     DEF AllDispatched, NoConcurrentSends, SendsAlone, Orderly, Owns, Owning, At
<1>2. QED
  BY <1>1, Typing, DispatchedInvariant, PTL

(***************************************************************************)
(* A step takes back no outcome and jumps no backoff.                      *)
(***************************************************************************)
LEMMA BackoffKept ==
  ASSUME TypeOK, NEW d \in Deliveries, Moves(d), OneReplica, Dispatched(d),
         delivery[d].nextAttemptAt = "later"
  PROVE  delivery'[d].attemptCount = delivery[d].attemptCount
  <1>1. \A p \in Processes : SoloJob(p, d)
    BY DEF Dispatched
  <1>2. ASSUME NEW p \in Processes, Committed(p, d)
        PROVE  delivery'[d].attemptCount = delivery[d].attemptCount
    <2>1. ~RowClaimed(p, d) /\ ~RowInboxed(p, d)
      BY <1>1 DEF SoloJob, RowClaimed, RowInboxed, At
    <2>2. RowFailed(p, d) => RowKept(d)
      BY <1>1 DEF SoloJob, RowFailed, Claimable
    <2>3. QED
      BY <1>2, <2>1, <2>2 DEF Committed, RowConcluded, RowResolved, RowKept, RowIs
  <1>3. CASE RowKept(d)
    BY <1>3 DEF RowKept, RowIs
  <1>4. CASE Recovers(d) \/ Reopens(d) \/ Ages(d)
    BY <1>3, <1>4 DEF Recovers, Reopens, Ages, RowIs
  <1>5. QED
    BY <1>2, <1>3, <1>4
       DEF Moves, Untouched, Dispatches, Takes, Drops, Advances, Claims, Sends, Records,
           Inboxes, Audits, Resolves, Breaks, Committed

THEOREM QueueStepsHold == Spec => QueueSteps
<1>1. TypeOK /\ TicksFresh /\ AllDispatched /\ [Next]_vars
        => [\A d \in Deliveries :
               Uncontested(d) /\ delivery[d].status \in Final =>
                   \/ delivery'[d].status = delivery[d].status
                   \/ /\ delivery[d].status = "SENT" /\ delivery'[d].status = "FAILED"
                      /\ Channel[d] \in {"EMAIL", "SMS"} /\ faults > 0
                      /\ \E p \in Processes : /\ At(p, d, "failed")
                                              /\ job[p][d].attempt \in accepted[d]]_vars
  BY StepMoves, UncontestedOrderly, OutcomeKept DEF AllDispatched, TakenBack
<1>2. TypeOK /\ TicksFresh /\ AllDispatched /\ [Next]_vars
        => [\A d \in Deliveries :
               OneReplica /\ delivery[d].nextAttemptAt = "later" =>
                   delivery'[d].attemptCount = delivery[d].attemptCount]_vars
  BY StepMoves, BackoffKept DEF AllDispatched
<1>3. QED
  BY <1>1, <1>2, Typing, TicksFreshInvariant, DispatchedInvariant, PTL
     DEF Spec, QueueSteps, OutcomeFinal, BackoffRespected

(***************************************************************************)
(* The queue of one replica implements what NotificationOutbox promises:   *)
(* every step of it is a step of the outbox on one delivery, or none.      *)
(***************************************************************************)
Promised(d) == OutboxOutcome(delivery[d].status)
Silent(d) == Promised(d)' = Promised(d) /\ Untold(d)

LEMMA OutcomeCases ==
  /\ \A s \in {"PENDING", "PROCESSING", "RETRYING"} : OutboxOutcome(s) = "open"
  /\ OutboxOutcome("SENT") = "given" /\ OutboxOutcome("DELIVERED") = "given"
  /\ OutboxOutcome("SKIPPED") = "skipped"
  /\ OutboxOutcome("FAILED") = "failed"
  BY DEF OutboxOutcome

LEMMA SilentRow ==
  ASSUME NEW d \in Deliveries, RowKept(d), Untold(d)
  PROVE  Silent(d)
  BY DEF Silent, Promised, RowKept, RowIs

\* At most one delivery is touched by a step, as far as the outbox can tell.
LEMMA OneRowAtATime ==
  ASSUME TypeOK, TicksFresh, [Next]_vars
  PROVE  (\A e \in Deliveries : Silent(e))
           \/ \E d \in Deliveries : \A e \in Deliveries \ {d} : Silent(e)
  <1>1. ASSUME NEW p \in Processes, Tick(p) PROVE \A e \in Deliveries : Silent(e)
    <2>1. ASSUME NEW e \in Deliveries PROVE Silent(e)
      <3>1. /\ delivery'[e].status = delivery[e].status
               \/ (delivery[e].status = "PROCESSING" /\ delivery'[e].status = "RETRYING")
            /\ Untold(e)
        BY ZenonT(40), <1>1 DEF Tick, Recovered, TypeOK, Row, Untold
      <3>2. QED
        BY <3>1, OutcomeCases DEF Silent, Promised
    <2>2. QED
      BY <2>1
  <1>2. CASE UNCHANGED <<delivery, accepted>>
    BY <1>2 DEF Silent, Promised, Untold
  <1>3. ASSUME NEW p \in Processes, NEW d \in Deliveries,
               Dispatch(p, d) \/ DatabaseFails(p, d) \/ CommitAnswerLost(p, d)
        PROVE  \A e \in Deliveries \ {d} : Silent(e)
    BY <1>3, DispatchMoves, FaultMoves, SilentRow DEF Untouched
  <1>4. ASSUME NEW d \in Deliveries, NEW r, SetRow(d, r), UNCHANGED accepted
        PROVE  \A e \in Deliveries \ {d} : Silent(e)
    BY <1>4, WritesOf, SilentRow DEF Writes, Untold
  <1>5. ASSUME NEW a \in Admins, NEW d \in Deliveries, RetryNow(a, d)
        PROVE  \A e \in Deliveries \ {d} : Silent(e)
    BY <1>4, <1>5 DEF RetryNow
  <1>6. ASSUME NEW d \in Deliveries, BackoffElapses(d) \/ LeaseElapses(d)
        PROVE  \A e \in Deliveries \ {d} : Silent(e)
    BY <1>4, <1>6 DEF BackoffElapses, LeaseElapses, Elapse
  <1>7. QED
    BY <1>1, <1>2, <1>3, <1>5, <1>6 DEF Next, TakeBatch, Crash, vars

\* What a step does to the delivery it touches, in the outbox's words.
Mishaps == faults + lostAnswers
Excused(d) == Cardinality(accepted[d]) <= Mishaps
Hands(d) == \E n : n \notin accepted[d] /\ accepted'[d] = accepted[d] \union {n}
Stages(d) ==
    \/ Silent(d)
    \/ /\ Promised(d) = "open"
       /\ \/ Hands(d) /\ Excused(d) /\ Promised(d)' \in {"open", "given"}
          \/ Untold(d) /\ accepted[d] # {} /\ Promised(d)' = "given"
          \/ Untold(d) /\ Promised(d)' \in {"skipped", "failed"}
    \/ Promised(d) = "given" /\ Excused(d) /\ Promised(d)' = "failed" /\ Untold(d)
    \/ Promised(d) = "failed" /\ Promised(d)' = "open" /\ Untold(d)

LEMMA UntoldExcused ==
  ASSUME TypeOK, NEW d \in Deliveries, Ledger(d), ~Told(d)
  PROVE  Excused(d)
  <1>1. faults + lostAnswers + 0 = faults + lostAnswers
    BY Spent
  <1>2. QED
    BY <1>1 DEF Ledger, Allowance, Excused, Mishaps

LEMMA StagesOfCommit ==
  ASSUME TypeOK, Tickets, NEW d \in Deliveries, NEW p \in Processes, Committed(p, d),
         Untold(d), Orderly(d), Ledger(d)
  PROVE  Stages(d)
  <1> USE DEF Owns, Owning, At, Open, Final
  <1>0. delivery[d].status \in Status
    BY RowBounds
  <1>1. ASSUME RowKept(d) PROVE Stages(d)
    BY <1>1, SilentRow DEF Stages
  <1>2. CASE RowClaimed(p, d) \/ RowInboxed(p, d) \/ RowFailed(p, d)
    <2>1. CASE RowKept(d)
      BY <1>1, <2>1
    <2>2. CASE ~RowKept(d)
      <3>1. /\ delivery[d].status \in Open
            /\ delivery'[d].status \in {"PROCESSING", "SKIPPED", "FAILED", "DELIVERED"}
        BY <1>2, <2>2 DEF RowClaimed, RowInboxed, RowFailed, RowIs, Orderly
      <3>2. delivery'[d].status = "DELIVERED" => delivery[d].attemptCount + 1 \in accepted[d]
        <4>1. delivery'[d].status = "DELIVERED" =>
                accepted[d] = accepted[d] \union {delivery[d].attemptCount + 1}
          BY <1>2, <2>2 DEF RowClaimed, RowInboxed, RowFailed, RowIs, Untold
        <4>2. QED
          BY <4>1
      <3>3. QED
        BY <3>1, <3>2, OutcomeCases DEF Stages, Silent, Promised
    <2>3. QED
      BY <2>1, <2>2
  <1>3. CASE RowConcluded(p, d)
    <2>1. CASE job[p][d].pc \in {"sent", "rejected", "skip"}
      <3>1. /\ delivery[d].status = "PROCESSING"
            /\ delivery'[d].status \in {"SENT", "SKIPPED", "FAILED"}
            /\ delivery'[d].status = "SENT" => At(p, d, "sent")
        BY <1>3, <2>1 DEF RowConcluded, Orderly, RowIs
      <3>2. At(p, d, "sent") => accepted[d] # {}
        BY DEF Tickets, TicketsCounted
      <3>3. QED
        BY <3>1, <3>2, OutcomeCases DEF Stages, Promised
    <2>2. CASE At(p, d, "failed")
      <3>1. /\ delivery[d].status \notin {"DELIVERED", "SKIPPED"}
            /\ delivery'[d].status = "FAILED"
        BY <1>3, <2>2 DEF RowConcluded, Orderly, Overwrites, RowIs
      <3>2. \A q \in Processes : ~At(q, d, "sent")
        BY <2>2 DEF Orderly
      <3>3. Excused(d)
        BY <2>2, <3>2, UntoldExcused DEF Told
      <3>4. QED
        BY <1>0, <3>1, <3>3, OutcomeCases DEF Stages, Silent, Promised, Status
    <2>3. QED
      BY <1>3, <2>1, <2>2 DEF RowConcluded
  <1>4. CASE RowResolved(p, d)
    <2>1. /\ delivery[d].status \in {"PENDING", "PROCESSING", "RETRYING", "FAILED"}
          /\ delivery'[d].status \in {"RETRYING", "FAILED"}
      BY <1>0, <1>4 DEF RowResolved, RowIs, Orderly, Status
    <2>2. QED
      BY <2>1, OutcomeCases DEF Stages, Silent, Promised
  <1>5. QED
    BY <1>2, <1>3, <1>4 DEF Committed

LEMMA StagesOfMove ==
  ASSUME TypeOK, Tickets, NEW d \in Deliveries, Moves(d), Orderly(d), Ledger(d)
  PROVE  Stages(d)
  <1> USE DEF Owns, Owning, At, Open
  <1>1. ASSUME RowKept(d), Untold(d) PROVE Stages(d)
    BY <1>1, SilentRow DEF Stages
  <1>2. CASE Recovers(d)
    <2>1. CASE RowIs(d, "RETRYING", "due", "none", delivery[d].attemptCount)
               /\ delivery[d].status = "PROCESSING"
      BY <1>2, <2>1, OutcomeCases DEF Recovers, RowIs, Stages, Silent, Promised
    <2>2. QED
      BY <1>1, <1>2, <2>1 DEF Recovers
  <1>3. CASE Reopens(d)
    BY <1>3, OutcomeCases DEF Reopens, RowIs, Stages, Promised
  <1>4. CASE Ages(d)
    BY <1>4 DEF Ages, RowIs, Stages, Silent, Promised
  <1>5. ASSUME NEW p \in Processes, Sends(p, d) PROVE Stages(d)
    <2>1. delivery[d].status = "PROCESSING" /\ delivery'[d].status = "PROCESSING"
      BY <1>5 DEF Sends, Orderly, RowKept, RowIs
    <2>2. Hands(d)
      BY <1>5 DEF Sends, Hands, Tickets, AttemptsNotShared
    <2>3. Excused(d)
      BY <1>5, MessageUntold, UntoldExcused
    <2>4. QED
      BY <2>1, <2>2, <2>3, OutcomeCases DEF Stages, Promised
  <1>6. ASSUME NEW p \in Processes, InboxTakes(p, d) PROVE Stages(d)
    <2>1. delivery[d].status \in Open /\ delivery'[d].status = "DELIVERED"
      BY <1>6 DEF InboxTakes, Orderly
    <2>2. delivery[d].attemptCount + 1 \notin accepted[d]
      BY RowBounds DEF Tickets, TicketsCounted
    <2>3. Hands(d)
      BY <1>6, <2>2 DEF InboxTakes, Hands
    <2>4. Excused(d)
      BY <1>6, MessageUntold, UntoldExcused
    <2>5. QED
      BY <2>1, <2>3, <2>4, OutcomeCases DEF Stages, Promised
  <1>7. ASSUME NEW p \in Processes, Dispatches(p, d), Untold(d) PROVE Stages(d)
    BY <1>1, <1>7, StagesOfCommit
       DEF Dispatches, Takes, Drops, Advances, Claims, Sends, Records, Inboxes, Audits,
           Resolves, Breaks, Committed
  <1>8. CASE Untold(d)
    BY <1>1, <1>2, <1>3, <1>4, <1>7, <1>8 DEF Moves, Untouched
  <1>9. QED
    BY <1>5, <1>6, <1>8, AcceptedMoves

\* A step is at most one mishap.
LEMMA MishapsStep ==
  ASSUME TypeOK, TicksFresh, [Next]_vars
  PROVE  Mishaps' \in {Mishaps, Mishaps + 1}
  <1> DEFINE Slips == \/ faults' = faults + 1 /\ lostAnswers' = lostAnswers
                      \/ lostAnswers' = lostAnswers + 1 /\ faults' = faults
  <1>1. CASE UNCHANGED <<faults, lostAnswers>>
    BY <1>1 DEF Mishaps
  <1>2. CASE Slips
    <2>1. faults + 1 + lostAnswers = Mishaps + 1 /\ faults + (lostAnswers + 1) = Mishaps + 1
      BY Spent DEF Mishaps
    <2>2. QED
      BY <1>2, <2>1 DEF Mishaps
  <1>3. ASSUME NEW p \in Processes, NEW d \in Deliveries, Dispatch(p, d)
        PROVE  UNCHANGED <<faults, lostAnswers>> \/ Slips
    BY <1>3, DispatchMoves
       DEF Advances, Claims, Sends, Records, Inboxes, Audits, Resolves, Still, counters
  <1>4. QED
    BY <1>1, <1>2, <1>3
       DEF Next, vars, counters, Tick, TakeBatch, Crash, DatabaseFails, CommitAnswerLost,
           RetryNow, BackoffElapses, LeaseElapses, Elapse

OutboxNow == [d \in Deliveries |-> OutboxOutcome(delivery[d].status)]

LEMMA OutboxStutters ==
  ASSUME TypeOK, TypeOK', \A e \in Deliveries : Silent(e)
  PROVE  OutboxNow' = OutboxNow /\ accepted' = accepted
  BY DEF OutboxNow, Silent, Promised, Untold, TypeOK

\* A step of the outbox on one delivery.
OutboxActs(d) ==
    \/ Outbox!HandOver(d) \/ Outbox!Give(d) \/ Outbox!Confirm(d) \/ Outbox!Drop(d)
    \/ Outbox!TakeBack(d) \/ Outbox!Reopen(d)
    \/ OutboxNow' = OutboxNow /\ accepted' = accepted

LEMMA OutboxTakes ==
  ASSUME TypeOK, TypeOK', NEW d \in Deliveries, Stages(d),
         \A e \in Deliveries \ {d} : Silent(e)
  PROVE  OutboxActs(d)
  <1>1. /\ OutboxNow' = [OutboxNow EXCEPT ![d] = Promised(d)']
        /\ OutboxNow[d] = Promised(d)
        /\ Promised(d)' = Promised(d) => OutboxNow' = OutboxNow
    BY DEF OutboxNow, Promised, Silent
  <1>2. accepted' = [accepted EXCEPT ![d] = accepted'[d]]
    BY DEF Silent, Untold, TypeOK
  <1>3. Untold(d) => accepted' = accepted
    BY <1>2 DEF Untold, TypeOK
  <1>e. Excused(d) => Outbox!Excused(d)
    <2>1. Outbox!Cardinality(accepted[d]) = Cardinality(accepted[d])
      BY Zenon DEF Cardinality, Outbox!Cardinality
    <2>2. QED
      BY <2>1 DEF Excused, Mishaps, Outbox!Excused
  <1> USE DEF OutboxNow
  <1>4. CASE Silent(d)
    BY <1>1, <1>3, <1>4 DEF Silent, OutboxActs
  <1>5. CASE /\ Promised(d) = "open" /\ Hands(d) /\ Excused(d)
             /\ Promised(d)' \in {"open", "given"}
    <2>1. PICK n : n \notin accepted[d] /\ accepted'[d] = accepted[d] \union {n}
      BY <1>5 DEF Hands
    <2>2. accepted' = [accepted EXCEPT ![d] = accepted[d] \union {n}]
      BY <1>2, <2>1
    <2>3. Outbox!Hand(d)
      BY <1>1, <1>e, <1>5, <2>1, <2>2 DEF Outbox!Hand
    <2>4. QED
      BY <1>1, <1>5, <2>3 DEF Outbox!HandOver, Outbox!Give, Outbox!Settle, OutboxActs
  <1>6. CASE /\ Promised(d) = "open" /\ Untold(d) /\ accepted[d] # {}
             /\ Promised(d)' = "given"
    BY <1>1, <1>3, <1>6 DEF Outbox!Confirm, Outbox!Settle, OutboxActs
  <1>7. CASE Promised(d) = "open" /\ Untold(d) /\ Promised(d)' \in {"skipped", "failed"}
    BY <1>1, <1>3, <1>7 DEF Outbox!Drop, Outbox!Settle, OutboxActs
  <1>8. CASE Promised(d) = "failed" /\ Promised(d)' = "open" /\ Untold(d)
    BY <1>1, <1>3, <1>8 DEF Outbox!Reopen, OutboxActs
  <1>9. CASE Promised(d) = "given" /\ Excused(d) /\ Promised(d)' = "failed" /\ Untold(d)
    BY <1>1, <1>3, <1>e, <1>9 DEF Outbox!TakeBack, OutboxActs
  <1>10. QED
    BY <1>4, <1>5, <1>6, <1>7, <1>8, <1>9 DEF Stages

THEOREM QueueImplementsOutbox == ASSUME OneReplica PROVE Spec => OutboxSpec
<1>1. Init => Outbox!Init
  <2>1. 0 + 0 = 0
    OBVIOUS
  <2>2. QED
    BY <2>1, OutcomeCases DEF Init, NewRow, DigestItem, Outbox!Init
<1>2. TypeOK /\ TypeOK' /\ TicksFresh /\ Tickets /\ AllDispatched /\ AllLedgers
        /\ [Next]_vars => [Outbox!Next]_(Outbox!vars)
  <2> SUFFICES ASSUME TypeOK, TypeOK', TicksFresh, Tickets, AllDispatched, AllLedgers,
                      [Next]_vars
               PROVE  Outbox!Next
    OBVIOUS
  <2>1. (faults + lostAnswers)' \in {faults + lostAnswers, (faults + lostAnswers) + 1}
    BY MishapsStep DEF Mishaps
  <2>2. CASE \A e \in Deliveries : Silent(e)
    BY <2>1, <2>2, OutboxStutters DEF Outbox!Next, OutboxNow
  <2>3. ASSUME NEW d \in Deliveries, \A e \in Deliveries \ {d} : Silent(e)
        PROVE  Outbox!Next
    <3>1. Orderly(d) /\ Ledger(d)
      BY UncontestedOrderly DEF AllDispatched, AllLedgers, Uncontested
    <3>2. OutboxActs(d)
      BY <2>3, <3>1, StepMoves, StagesOfMove, OutboxTakes
    <3>3. QED
      BY <2>1, <3>2 DEF Outbox!Next, OutboxActs, OutboxNow
  <2>4. QED
    BY <2>2, <2>3, OneRowAtATime
<1>3. QED
  BY <1>1, <1>2, Typing, TicksFreshInvariant, TicketsInvariant, DispatchedInvariant,
     LedgerInvariant, PTL DEF Spec, OutboxSpec, Outbox!Spec

=============================================================================
