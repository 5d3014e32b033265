------------------------ MODULE NotificationDelivery ------------------------
(***************************************************************************)
(* The durable notification queue of src/notification-core.  A row of      *)
(* notification_deliveries is the queue item; every API replica polls the  *)
(* table (NotificationDeliveryWorkerService), dispatches the due rows      *)
(* concurrently (NotificationDeliveryDispatcher) through one handler per   *)
(* channel, and reschedules failures (NotificationDeliveryQueueService).   *)
(*                                                                         *)
(* Each action is one database transaction or one external call, so the    *)
(* steps of different replicas, of the dispatches inside one replica and   *)
(* of administrators interleave between transactions.  The tables survive  *)
(* a crash; the dispatches a replica was running do not.                   *)
(*                                                                         *)
(* Time is abstract: nextAttemptAt is empty, still ahead or reached, and   *)
(* the lease of a claim is fresh or expired.                               *)
(***************************************************************************)
EXTENDS Integers, FiniteSets

CONSTANTS
    Processes,         \* API replicas with NOTIFICATION_WORKER_ENABLED
    Deliveries,        \* delivery rows of one organization, by createdAt
    Channel,           \* the channel of each row
    Admins,            \* users with notification:manage
    NoAdmin,           \* retryRequestedById = null
    Unrenderable,      \* rows whose template or digest rendering throws
    Carriers,          \* email rows that carry a digest bucket
    MaxAttempts,       \* NOTIFICATION_RETRY_MAX_ATTEMPTS
    BatchSize,         \* NOTIFICATION_WORKER_BATCH_SIZE
    MaxQueued,         \* bound on rows that start in the queue
    MaxFaults,         \* bound on crashes and failed database calls
    MaxLostAnswers,    \* bound on sends that took the message and failed
    MaxDelays,         \* bound on dispatches outliving their lease or a backoff
    MaxManualRetries   \* bound on administrator retries

Channels == {"EMAIL", "SMS", "DESKTOP_PUSH", "IN_APP"}

ASSUME DeliveriesAssumption ==
    /\ Deliveries \subseteq Nat
    /\ Channel \in [Deliveries -> Channels]
    /\ Unrenderable \subseteq Deliveries
    /\ Carriers \subseteq {d \in Deliveries : Channel[d] = "EMAIL"}

ASSUME AdminsAssumption == NoAdmin \notin Admins

ASSUME LimitsAssumption ==
    /\ MaxAttempts \in Nat \ {0}
    /\ BatchSize \in Nat \ {0}
    /\ MaxQueued \in Nat
    /\ MaxFaults \in Nat
    /\ MaxLostAnswers \in Nat
    /\ MaxDelays \in Nat
    /\ MaxManualRetries \in Nat

VARIABLES
    delivery,       \* notification_deliveries
    attempts,       \* notification_delivery_attempts, by delivery
    accepted,       \* attempt numbers whose message the provider (or inbox) took
    phase,          \* where each replica's worker tick stands
    job,            \* the dispatch() invocation a replica runs for a row
    faults,         \* crashes and failed database calls so far
    lostAnswers,    \* sends so far that took the message and failed
    delays,         \* leases and backoffs that ended too early for a dispatch so far
    manualRetries   \* administrator retries so far

counters == <<faults, lostAnswers, delays, manualRetries>>
vars == <<delivery, attempts, accepted, phase, job, counters>>

-----------------------------------------------------------------------------
(* Types *)

Status == {"PENDING", "PROCESSING", "SENT", "DELIVERED", "FAILED", "RETRYING",
           "SKIPPED"}
Trigger == {"INITIAL", "AUTOMATIC_RETRY", "MANUAL_RETRY"}

Row == [status : Status,
        attemptCount : Nat,
        nextAttemptAt : {"none", "later", "due"},
        processingStartedAt : {"none", "fresh", "expired"},
        retryRequestedById : Admins \union {NoAdmin}]

AttemptRow == [attemptNumber : Nat, triggerType : Trigger, status : Status]

Step == {"none", "queued", "claim", "missed", "send", "sent", "rejected", "failed",
         "skip", "bucket", "rolledBack", "audit", "handle", "reschedule", "exhaust"}

Job == [pc : Step,
        attempt : Nat,                          \* the attempt this job claimed
        trigger : Trigger,                      \* computed from the first read
        requestedBy : Admins \union {NoAdmin},  \* read first, too
        result : Status,                        \* status the handler returned
        caught : BOOLEAN]                       \* the dispatcher's catch has it

NoJob == [pc |-> "none", attempt |-> 0, trigger |-> "INITIAL",
          requestedBy |-> NoAdmin, result |-> "PENDING", caught |-> FALSE]

TypeOK ==
    /\ delivery \in [Deliveries -> Row]
    /\ attempts \in [Deliveries -> SUBSET AttemptRow]
    /\ accepted \in [Deliveries -> SUBSET Nat]
    /\ phase \in [Processes -> {"idle", "recovered"}]
    /\ job \in [Processes -> [Deliveries -> Job]]
    /\ faults \in 0..MaxFaults
    /\ lostAnswers \in 0..MaxLostAnswers
    /\ delays \in 0..MaxDelays
    /\ manualRetries \in 0..MaxManualRetries

-----------------------------------------------------------------------------
(* State formulae *)

Final == {"SENT", "DELIVERED", "SKIPPED"}

\* Mutant: a claim without its status condition.
ClaimableAlways(d) == Status

\* Statuses the handler of the row's channel claims from.
Claimable(d) ==
    IF Channel[d] = "SMS" THEN {"PENDING", "RETRYING"}
                          ELSE {"PENDING", "RETRYING", "FAILED"}

At(p, d, pc) == job[p][d].pc = pc
Busy(d) == \E p \in Processes : ~At(p, d, "none")

\* The in-memory flag that keeps one replica's ticks from overlapping.
Running(p) == phase[p] # "idle" \/ \E d \in Deliveries : ~At(p, d, "none")

SetRow(d, row) == delivery' = [delivery EXCEPT ![d] = row]
SetJob(p, d, j) == job' = [job EXCEPT ![p][d] = j]
Goto(p, d, pc) == SetJob(p, d, [job[p][d] EXCEPT !.pc = pc])
Return(p, d, status) ==
    SetJob(p, d, [job[p][d] EXCEPT !.pc = "audit", !.result = status])

\* An exception leaves the handler, or handleFailure: the dispatcher's catch block
\* audits the attempt as FAILED and calls handleFailure, for the last time.
Throw(p, d) ==
    SetJob(p, d, [job[p][d] EXCEPT !.pc = "audit", !.result = "FAILED", !.caught = TRUE])

\* How an attempt is labelled, from the row as the dispatcher first read it.
TriggerType(row) ==
    IF row.retryRequestedById # NoAdmin THEN "MANUAL_RETRY"
    ELSE IF row.status = "RETRYING" \/ row.attemptCount > 0
         THEN "AUTOMATIC_RETRY" ELSE "INITIAL"

\* Mutants: the claim forgets to count the attempt, or to stamp the lease.
ClaimedRowUncounted(d) ==
    [delivery[d] EXCEPT !.status = "PROCESSING",
                        !.processingStartedAt = "fresh", !.nextAttemptAt = "none"]

ClaimedRow(d) ==
    [delivery[d] EXCEPT !.status = "PROCESSING", !.attemptCount = @ + 1,
                        !.processingStartedAt = "fresh", !.nextAttemptAt = "none"]

Released(d, status) ==
    [delivery[d] EXCEPT !.status = status, !.processingStartedAt = "none"]

-----------------------------------------------------------------------------
(* The worker tick of one replica *)

\* A row as createPendingDelivery writes it; quiet hours defer it to later.
NewRow(next) == [status |-> "PENDING", attemptCount |-> 0,
                 nextAttemptAt |-> next, processingStartedAt |-> "none",
                 retryRequestedById |-> NoAdmin]

\* Or as attachDigest leaves it, when another row carries its digest.
DigestItem == [NewRow("none") EXCEPT !.status = "SKIPPED"]

Init ==
    /\ delivery \in [Deliveries -> {NewRow("none"), NewRow("later"), DigestItem}]
    /\ Cardinality({d \in Deliveries : delivery[d].status = "PENDING"}) <= MaxQueued
    /\ attempts = [d \in Deliveries |-> {}]
    /\ accepted = [d \in Deliveries |-> {}]
    /\ phase = [p \in Processes |-> "idle"]
    /\ job = [p \in Processes |-> [d \in Deliveries |-> NoJob]]
    /\ faults = 0
    /\ lostAnswers = 0
    /\ delays = 0
    /\ manualRetries = 0

RecoveredNever(row) == row

\* recoverStale: every expired claim goes back to the queue, due at once.
Recovered(row) ==
    IF row.status = "PROCESSING" /\ row.processingStartedAt = "expired"
    THEN [row EXCEPT !.status = "RETRYING", !.nextAttemptAt = "due",
                     !.processingStartedAt = "none"]
    ELSE row

Tick(p) ==
    /\ ~Running(p)
    /\ delivery' = [d \in Deliveries |-> Recovered(delivery[d])]
    /\ phase' = [phase EXCEPT ![p] = "recovered"]
    /\ UNCHANGED <<attempts, accepted, job, counters>>

Due == {d \in Deliveries : /\ delivery[d].status \in {"PENDING", "RETRYING"}
                           /\ delivery[d].nextAttemptAt # "later"}

\* Ascending nextAttemptAt puts the rows without one last, oldest row first.
Precedes(c, d) ==
    LET n(x) == delivery[x].nextAttemptAt IN
    n(d) = "none" /\ (n(c) = "due" \/ c < d)

\* What due() may return: a batch no row outside of it should precede.
IsBatch(b) ==
    /\ Cardinality(b) <= BatchSize
    /\ b # Due => Cardinality(b) = BatchSize
    /\ \A c \in Due \ b, d \in b : ~Precedes(c, d)

\* The jobs of a batch all start together and are awaited together.
TakeBatch(p) ==
    /\ phase[p] = "recovered"
    /\ \E b \in SUBSET Due :
        /\ IsBatch(b)
        /\ job' = [job EXCEPT ![p] = [d \in Deliveries |->
               IF d \in b THEN [NoJob EXCEPT !.pc = "queued"] ELSE NoJob]]
    /\ phase' = [phase EXCEPT ![p] = "idle"]
    /\ UNCHANGED <<delivery, attempts, accepted, counters>>

-----------------------------------------------------------------------------
(* One dispatch *)

\* The dispatcher reads the row; the audit labels the attempt from this read.
Snapshot(p, d) ==
    /\ At(p, d, "queued")
    /\ SetJob(p, d, [job[p][d] EXCEPT
           !.pc = "claim",
           !.trigger = TriggerType(delivery[d]),
           !.requestedBy = delivery[d].retryRequestedById])
    /\ UNCHANGED <<delivery, attempts, accepted, phase, counters>>

External(d) == Channel[d] # "IN_APP"
RendersInClaim(d) == Channel[d] \in {"EMAIL", "DESKTOP_PUSH"}

\* The transactions of a dispatch.  Each is committed before its answer is back, so
\* they are stated apart from where the dispatch goes on.

\* EMAIL, SMS and DESKTOP_PUSH: PROCESSING is committed before the send.
ClaimsRow(p, d) ==
    /\ At(p, d, "claim")
    /\ External(d)
    /\ ~(RendersInClaim(d) /\ d \in Unrenderable)
    /\ delivery[d].status \in Claimable(d)
    /\ SetRow(d, ClaimedRow(d))
    /\ UNCHANGED <<attempts, accepted>>

\* The outcome is written by id alone, whatever the row holds by now.
WritesOutcome(p, d) ==
    /\ \/ At(p, d, "sent") /\ SetRow(d, Released(d, "SENT"))
       \/ job[p][d].pc \in {"rejected", "failed"} /\ SetRow(d, Released(d, "FAILED"))
       \/ /\ At(p, d, "skip")
          /\ SetRow(d, [Released(d, "SKIPPED") EXCEPT !.nextAttemptAt = "none"])
    /\ UNCHANGED <<attempts, accepted>>

\* IN_APP: the claim, the inbox row and the outcome are one transaction.
PutsInInbox(p, d) ==
    /\ At(p, d, "claim")
    /\ ~External(d) /\ d \notin Unrenderable
    /\ delivery[d].status \in Claimable(d)
    /\ SetRow(d, [ClaimedRow(d) EXCEPT !.status = "DELIVERED",
                                       !.processingStartedAt = "none"])
    /\ accepted' = [accepted EXCEPT ![d] = @ \union {delivery[d].attemptCount + 1}]
    /\ UNCHANGED attempts

SkipsInbox(p, d) ==
    /\ At(p, d, "claim")
    /\ ~External(d)
    /\ delivery[d].status \in Claimable(d)
    /\ SetRow(d, [ClaimedRow(d) EXCEPT !.status = "SKIPPED",
                                       !.processingStartedAt = "none"])
    /\ UNCHANGED <<attempts, accepted>>

\* Its catch block counts the attempt, unless the row has moved on meanwhile.
CountsFailure(p, d) ==
    /\ At(p, d, "rolledBack")
    /\ IF delivery[d].status \in Claimable(d)
       THEN SetRow(d, [Released(d, "FAILED") EXCEPT !.attemptCount = @ + 1])
       ELSE UNCHANGED delivery
    /\ UNCHANGED <<attempts, accepted>>

\* handleFailure updates by id: read committed keeps no lock on what it read.
WritesPolicy(p, d) ==
    /\ \/ /\ At(p, d, "reschedule")
          /\ SetRow(d, [Released(d, "RETRYING") EXCEPT !.nextAttemptAt = "later"])
       \/ /\ At(p, d, "exhaust")
          /\ SetRow(d, [Released(d, "FAILED") EXCEPT !.nextAttemptAt = "none"])
    /\ UNCHANGED <<attempts, accepted>>

Commits(p, d) ==
    \/ ClaimsRow(p, d) \/ WritesOutcome(p, d) \/ PutsInInbox(p, d) \/ SkipsInbox(p, d)
    \/ CountsFailure(p, d) \/ WritesPolicy(p, d)

\* A row without destination, template or endpoint is skipped instead of sent.
Claim(p, d) ==
    /\ ClaimsRow(p, d)
    /\ \E pc \in {"send", "skip"} :
           SetJob(p, d, [job[p][d] EXCEPT !.pc = pc,
                                          !.attempt = delivery[d].attemptCount + 1])
    /\ UNCHANGED <<phase, counters>>

\* Rendering throws inside the claim transaction, which is rolled back.
RenderThrows(p, d) ==
    /\ At(p, d, "claim")
    /\ RendersInClaim(d) /\ d \in Unrenderable
    /\ delivery[d].status \in Claimable(d)
    /\ Throw(p, d)
    /\ UNCHANGED <<delivery, attempts, accepted, phase, counters>>

\* DELIVERY_NOT_CLAIMABLE: no audit row.  The status it reports is read by a second
\* statement, which sees what was committed since ...
ClaimMiss(p, d) ==
    /\ At(p, d, "claim")
    /\ delivery[d].status \notin Claimable(d)
    /\ Goto(p, d, "missed")
    /\ UNCHANGED <<delivery, attempts, accepted, phase, counters>>

\* ... and a row that is FAILED by now is still handed to handleFailure.
ReadMissed(p, d) ==
    /\ At(p, d, "missed")
    /\ IF delivery[d].status = "FAILED" THEN Goto(p, d, "handle")
                                        ELSE SetJob(p, d, NoJob)
    /\ UNCHANGED <<delivery, attempts, accepted, phase, counters>>

ProviderAccepts(p, d) ==
    /\ At(p, d, "send")
    /\ ~(d \in Unrenderable)
    /\ accepted' = [accepted EXCEPT ![d] = @ \union {job[p][d].attempt}]
    /\ Goto(p, d, "sent")
    /\ UNCHANGED <<delivery, attempts, phase, counters>>

\* A failed send is an answer of the push or SMS provider, or an exception that the
\* email or SMS handler catches.
Refusals(d) ==
    IF Channel[d] = "DESKTOP_PUSH" THEN {"rejected"}
    ELSE IF Channel[d] = "SMS" /\ d \notin Unrenderable THEN {"rejected", "failed"}
    ELSE {"failed"}

ProviderRejects(p, d) ==
    /\ At(p, d, "send")
    /\ \E pc \in Refusals(d) : Goto(p, d, pc)
    /\ UNCHANGED <<delivery, attempts, accepted, phase, counters>>

\* The message is taken, but the call times out, breaks off or is answered in a form
\* the client cannot read: to the handler it is a failed send.
ProviderAnswerLost(p, d) ==
    /\ lostAnswers < MaxLostAnswers
    /\ At(p, d, "send")
    /\ ~(d \in Unrenderable)
    /\ accepted' = [accepted EXCEPT ![d] = @ \union {job[p][d].attempt}]
    /\ \E pc \in Refusals(d) : Goto(p, d, pc)
    /\ lostAnswers' = lostAnswers + 1
    /\ UNCHANGED <<delivery, attempts, phase, faults, delays, manualRetries>>

\* An email that carries a digest still has its bucket to update.
Conclude(p, d, status) ==
    SetJob(p, d, [job[p][d] EXCEPT !.pc = IF d \in Carriers THEN "bucket" ELSE "audit",
                                   !.result = status])

RecordSent(p, d) ==
    /\ At(p, d, "sent")
    /\ WritesOutcome(p, d)
    /\ Conclude(p, d, "SENT")
    /\ UNCHANGED <<phase, counters>>

RecordFailed(p, d) ==
    /\ job[p][d].pc \in {"rejected", "failed"}
    /\ WritesOutcome(p, d)
    /\ Conclude(p, d, "FAILED")
    /\ UNCHANGED <<phase, counters>>

\* A transaction of its own, after the outcome's; the bucket's status is not part of
\* this module (NotificationPublication has it).
UpdateBucket(p, d) ==
    /\ At(p, d, "bucket")
    /\ Goto(p, d, "audit")
    /\ UNCHANGED <<delivery, attempts, accepted, phase, counters>>

RecordSkipped(p, d) ==
    /\ At(p, d, "skip")
    /\ WritesOutcome(p, d)
    /\ Return(p, d, "SKIPPED")
    /\ UNCHANGED <<phase, counters>>

InAppDeliver(p, d) ==
    PutsInInbox(p, d) /\ Return(p, d, "DELIVERED") /\ UNCHANGED <<phase, counters>>

InAppSkip(p, d) ==
    SkipsInbox(p, d) /\ Return(p, d, "SKIPPED") /\ UNCHANGED <<phase, counters>>

\* Anything thrown inside rolls back the claim and the inbox row.
InAppRollback(p, d) ==
    /\ At(p, d, "claim")
    /\ ~External(d)
    /\ delivery[d].status \in Claimable(d)
    /\ Goto(p, d, "rolledBack")
    /\ UNCHANGED <<delivery, attempts, accepted, phase, counters>>

InAppRecordFailure(p, d) ==
    CountsFailure(p, d) /\ Return(p, d, "FAILED") /\ UNCHANGED <<phase, counters>>

-----------------------------------------------------------------------------
(* After the handler: the audit row, then the retry policy *)

AfterAudit(p, d) ==
    IF job[p][d].result = "FAILED" THEN Goto(p, d, "handle") ELSE SetJob(p, d, NoJob)

\* One row per (delivery, attemptNumber): a second one is skipped.  The number
\* is the row's current attemptCount, not the attempt the job claimed.
WithAttempt(rows, n, trigger, status) ==
    IF \E r \in rows : r.attemptNumber = n THEN rows
    ELSE rows \union {[attemptNumber |-> n, triggerType |-> trigger, status |-> status]}

RecordAudit(p, d) ==
    /\ At(p, d, "audit")
    /\ IF delivery[d].attemptCount = 0
       THEN UNCHANGED <<delivery, attempts>>
       ELSE /\ attempts' = [attempts EXCEPT ![d] =
                   WithAttempt(@, delivery[d].attemptCount, job[p][d].trigger,
                               job[p][d].result)]
            /\ IF delivery[d].retryRequestedById = job[p][d].requestedBy
               THEN SetRow(d, [delivery[d] EXCEPT !.retryRequestedById = NoAdmin])
               ELSE UNCHANGED delivery
    /\ AfterAudit(p, d)
    /\ UNCHANGED <<accepted, phase, counters>>

\* Mutants: off by one either way.
ExhaustedLate(row) == row.attemptCount > MaxAttempts

Exhausted(row) == row.attemptCount >= MaxAttempts

\* Mutant: handleFailure takes every row it is called for.
NeedsPolicyAlways(row) == TRUE

NeedsPolicy(row) == row.status \in {"FAILED", "PROCESSING"}

\* handleFailure reads the row ...
HandleRead(p, d) ==
    /\ At(p, d, "handle")
    /\ IF NeedsPolicy(delivery[d])
       THEN Goto(p, d, IF Exhausted(delivery[d]) THEN "exhaust" ELSE "reschedule")
       ELSE SetJob(p, d, NoJob)
    /\ UNCHANGED <<delivery, attempts, accepted, phase, counters>>

\* ... and updates it.
HandleWrite(p, d) ==
    WritesPolicy(p, d) /\ SetJob(p, d, NoJob) /\ UNCHANGED <<phase, counters>>

-----------------------------------------------------------------------------
(* Administrators, failures and time *)

\* Mutant: the retry does not ask for FAILED.
RetryNowAnyStatus(a, d) ==
    /\ manualRetries < MaxManualRetries
    /\ SetRow(d, [Released(d, "RETRYING") EXCEPT !.nextAttemptAt = "due",
                                                 !.retryRequestedById = a])
    /\ manualRetries' = manualRetries + 1
    /\ UNCHANGED <<attempts, accepted, phase, job, faults, lostAnswers, delays>>

\* retryNow: conditional on FAILED; attemptCount keeps its value.
RetryNow(a, d) ==
    /\ manualRetries < MaxManualRetries
    /\ delivery[d].status = "FAILED"
    /\ SetRow(d, [Released(d, "RETRYING") EXCEPT !.nextAttemptAt = "due",
                                                 !.retryRequestedById = a])
    /\ manualRetries' = manualRetries + 1
    /\ UNCHANGED <<attempts, accepted, phase, job, faults, lostAnswers, delays>>

\* Where a dispatch goes on when a database call of its current step fails.  The
\* handlers catch what fails around the send, IN_APP what fails in its transaction;
\* the bucket of a SENT email is inside the try as well, that of a FAILED one is not.
\* Audit failures are swallowed, and a failing handleFailure is called once more.
CaughtByHandler(p, d) ==
    LET j == job[p][d] IN
    \/ j.pc = "sent" /\ Channel[d] # "DESKTOP_PUSH"
    \/ j.pc = "rejected" /\ Channel[d] = "SMS"
    \/ j.pc = "bucket" /\ j.result = "SENT"

AfterFault(p, d) ==
    LET pc == job[p][d].pc IN
    IF pc = "audit" THEN AfterAudit(p, d)
    ELSE IF pc \in {"claim", "missed"} /\ ~External(d) THEN Goto(p, d, "rolledBack")
    ELSE IF CaughtByHandler(p, d) THEN Goto(p, d, "failed")
    ELSE IF pc = "queued" \/ (pc \in {"handle", "reschedule", "exhaust"} /\ job[p][d].caught)
    THEN SetJob(p, d, NoJob)
    ELSE Throw(p, d)

CallsDatabase(p, d) ==
    /\ ~At(p, d, "none")
    /\ At(p, d, "send") => Channel[d] = "SMS"

DatabaseFails(p, d) ==
    /\ faults < MaxFaults
    /\ CallsDatabase(p, d)
    /\ AfterFault(p, d)
    /\ faults' = faults + 1
    /\ UNCHANGED <<delivery, attempts, accepted, phase, lostAnswers, delays, manualRetries>>

\* The transaction is committed, but its answer is lost: to the dispatch it failed.
CommitAnswerLost(p, d) ==
    /\ faults < MaxFaults
    /\ Commits(p, d)
    /\ AfterFault(p, d)
    /\ faults' = faults + 1
    /\ UNCHANGED <<phase, lostAnswers, delays, manualRetries>>

\* The replica restarts: its flag and its dispatches are gone.
Crash(p) ==
    /\ faults < MaxFaults
    /\ Running(p)
    /\ phase' = [phase EXCEPT ![p] = "idle"]
    /\ job' = [job EXCEPT ![p] = [d \in Deliveries |-> NoJob]]
    /\ faults' = faults + 1
    /\ UNCHANGED <<delivery, attempts, accepted, lostAnswers, delays, manualRetries>>

\* A wait that ends too early for a dispatch of the row still at work is a delay.
Elapse(d, row, early) ==
    /\ early => delays < MaxDelays
    /\ delays' = IF early THEN delays + 1 ELSE delays
    /\ SetRow(d, row)
    /\ UNCHANGED <<attempts, accepted, phase, job, faults, lostAnswers, manualRetries>>

\* A backoff outlasts what a dispatch does in the database once it has no message
\* to send, but not a send.
Bookkeeping == {"missed", "bucket", "audit", "handle", "reschedule", "exhaust"}

BackoffElapses(d) ==
    /\ delivery[d].nextAttemptAt = "later"
    /\ Elapse(d, [delivery[d] EXCEPT !.nextAttemptAt = "due"],
              \E p \in Processes : job[p][d].pc \in Bookkeeping)

\* A lease outlasts the dispatch.
LeaseElapses(d) ==
    /\ delivery[d].processingStartedAt = "fresh"
    /\ Elapse(d, [delivery[d] EXCEPT !.processingStartedAt = "expired"], Busy(d))

-----------------------------------------------------------------------------
(* Specification *)

Dispatch(p, d) ==
    \/ Snapshot(p, d) \/ Claim(p, d) \/ RenderThrows(p, d) \/ ClaimMiss(p, d)
    \/ ReadMissed(p, d) \/ ProviderAccepts(p, d) \/ ProviderRejects(p, d)
    \/ ProviderAnswerLost(p, d) \/ RecordSent(p, d) \/ RecordFailed(p, d)
    \/ UpdateBucket(p, d) \/ RecordSkipped(p, d)
    \/ InAppDeliver(p, d) \/ InAppSkip(p, d) \/ InAppRollback(p, d)
    \/ InAppRecordFailure(p, d) \/ RecordAudit(p, d) \/ HandleRead(p, d)
    \/ HandleWrite(p, d)

Next ==
    \/ \E p \in Processes : Tick(p) \/ TakeBatch(p) \/ Crash(p)
    \/ \E p \in Processes, d \in Deliveries :
           Dispatch(p, d) \/ DatabaseFails(p, d) \/ CommitAnswerLost(p, d)
    \/ \E a \in Admins, d \in Deliveries : RetryNow(a, d)
    \/ \E d \in Deliveries : BackoffElapses(d) \/ LeaseElapses(d)

Spec == Init /\ [][Next]_vars

\* @Interval keeps ticking, awaited calls return, clocks advance.  Crashes,
\* database failures and administrators owe nothing.
Fairness ==
    /\ \A p \in Processes : WF_vars(Tick(p)) /\ WF_vars(TakeBatch(p))
    /\ \A p \in Processes, d \in Deliveries : WF_vars(Dispatch(p, d))
    /\ \A d \in Deliveries : WF_vars(BackoffElapses(d)) /\ WF_vars(LeaseElapses(d))

FairSpec == Spec /\ Fairness

(* Properties *)

\* Steps in which a job owns the attempt it claimed.
Owning == {"send", "sent", "rejected", "failed", "skip", "bucket"}
Owns(p, d) == job[p][d].pc \in Owning

\* Two dispatches never own the same attempt of a delivery, on one replica or on
\* two, and an attempt still being sent has not been accepted before: the claim's
\* increment makes an attempt number the ticket for exactly one message.
AttemptsNotShared ==
    \A d \in Deliveries, p \in Processes :
        /\ Owns(p, d) =>
               \A q \in Processes : Owns(q, d) /\ job[q][d].attempt = job[p][d].attempt
                                    => p = q
        /\ At(p, d, "send") => job[p][d].attempt \notin accepted[d]

\* Every attempt on its way or accepted is one the row has counted, so the retry
\* limit sees each message there is; a dispatch about to write SENT owns an
\* attempt the provider took.
TicketsCounted ==
    \A d \in Deliveries :
        /\ accepted[d] \subseteq 1..delivery[d].attemptCount
        /\ \A p \in Processes :
            /\ Owns(p, d) => job[p][d].attempt \in 1..delivery[d].attemptCount
            /\ At(p, d, "sent") => job[p][d].attempt \in accepted[d]

\* A delivery is reported SENT or DELIVERED only if a provider took a message
\* for it, whatever crashes, lost updates and stolen claims came before.
SentMeansAccepted ==
    \A d \in Deliveries :
        delivery[d].status \in {"SENT", "DELIVERED"} => accepted[d] # {}

\* A PROCESSING row always carries the stamp recoverStale looks for, and no other
\* row does: no claim can be left behind where recovery cannot see it.
EveryClaimRecoverable ==
    \A d \in Deliveries :
        delivery[d].status = "PROCESSING" <=> delivery[d].processingStartedAt # "none"

\* The attempt history numbers attempts that were made, each of them once.
HistoryNumbersAttempts ==
    \A d \in Deliveries : \A r \in attempts[d] :
        /\ r.attemptNumber \in 1..delivery[d].attemptCount
        /\ \A s \in attempts[d] : s.attemptNumber = r.attemptNumber => s = r

\* The state of the queue, on any number of replicas: what a claim counts, owns and
\* stamps agrees with what was sent, what is reported and what the history says.
QueueInv ==
    /\ TypeOK
    /\ AttemptsNotShared
    /\ TicketsCounted
    /\ SentMeansAccepted
    /\ EveryClaimRecoverable
    /\ HistoryNumbersAttempts

\* One replica serves the queue.
OneReplica == \A p, q \in Processes : p = q

\* Two do, nothing fails, is late or is retried by hand, and the claim leaves FAILED
\* rows to their retry (SMS). With a third replica the reschedule of a dispatch that
\* missed its claim can already take the row from the dispatch that has it.
TwoReplicasAtRest(d) ==
    /\ \A p, q, r \in Processes : p = q \/ q = r \/ p = r
    /\ Channel[d] = "SMS"
    /\ faults = 0 /\ delays = 0 /\ manualRetries = 0

\* Nobody contests the dispatch of a row.
Uncontested(d) == OneReplica \/ TwoReplicasAtRest(d)

\* An attempt recorded as SENT or DELIVERED is an attempt the provider took.
HistoryTruthful ==
    \A d \in Deliveries : Uncontested(d) => \A r \in attempts[d] :
        r.status \in {"SENT", "DELIVERED"} => r.attemptNumber \in accepted[d]

\* Every copy a recipient gets beyond the first is paid for by a crash, a failed
\* database call or a send that took the message and failed. (The crash window is the
\* one docs/notification-deduplication.md:26-30 admits; the others are open as well.)
CopiesNeedMishaps ==
    \A d \in Deliveries :
        Uncontested(d) => Cardinality(accepted[d]) <= 1 + faults + lostAnswers

\* Attempts stop at the limit, but for one per administrator retry and one per
\* claim that a crash left to be recovered (recoverStale does not count).
AttemptsWithinBudget ==
    \A d \in Deliveries : Uncontested(d) =>
        delivery[d].attemptCount <= MaxAttempts + faults + manualRetries

\* Without faults a row rests in FAILED only when its attempts are used up, on any
\* number of replicas.
NoEarlyGivingUp ==
    \A d \in Deliveries :
        faults = 0 /\ delivery[d].status = "FAILED" /\ ~Busy(d)
            => delivery[d].attemptCount >= MaxAttempts

\* Attempts end where they should: neither after the limit nor before it.
AttemptBudget == AttemptsWithinBudget /\ NoEarlyGivingUp

\* What an uncontested row shows of its attempts: their history, their copies and
\* their number are those of the mishaps and the administrator's retries.
AttemptsAccounted == HistoryTruthful /\ CopiesNeedMishaps /\ AttemptBudget

SendsAlone(d) == \A p, q \in Processes : At(p, d, "send") /\ At(q, d, "send") => p = q

\* Two dispatches never have a message for one delivery on its way at a time.
NoConcurrentSends == \A d \in Deliveries : Uncontested(d) => SendsAlone(d)

\* DELIVERED and SKIPPED stay.  SENT is taken back only to FAILED, by the catch block
\* of an email or SMS dispatch that wrote it and then lost a database call: the answer
\* of its commit, or the update of its digest bucket.
OutcomeFinal ==
    [][\A d \in Deliveries :
           Uncontested(d) /\ delivery[d].status \in Final =>
               \/ delivery'[d].status = delivery[d].status
               \/ /\ delivery[d].status = "SENT" /\ delivery'[d].status = "FAILED"
                  /\ Channel[d] \in {"EMAIL", "SMS"} /\ faults > 0
                  /\ \E p \in Processes : /\ At(p, d, "failed")
                                          /\ job[p][d].attempt \in accepted[d]]_vars

\* A row waiting for its backoff is not claimed before the backoff is over; a second
\* replica may have taken it into a batch before the backoff began.
BackoffRespected ==
    [][\A d \in Deliveries :
           OneReplica /\ delivery[d].nextAttemptAt = "later" =>
               delivery'[d].attemptCount = delivery[d].attemptCount]_vars

\* What a step never does to a row: take back its outcome or jump its backoff.
QueueSteps == OutcomeFinal /\ BackoffRespected

Settled(d) == delivery[d].status \in Final \union {"FAILED"}

\* Rows that never leave PENDING: their claim is rolled back before it counts.
Stuck == {d \in Unrenderable : RendersInClaim(d) /\ delivery[d].status = "PENDING"}

\* No batch reaches a row without a nextAttemptAt behind BatchSize older stuck ones.
Starved(d) ==
    /\ delivery[d] = NewRow("none")
    /\ Cardinality({c \in Stuck : delivery[c] = NewRow("none") /\ c < d}) >= BatchSize

\* Every row that is not stuck leaves the queue for good, with an outcome or given up
\* after NOTIFICATION_RETRY_MAX_ATTEMPTS, if the stuck rows leave room in a batch. If
\* they do not, the rows behind them stay in the queue for ever.
RenderableRowsDrain ==
    /\ \A d \in Deliveries :
           <>[](Settled(d) \/ d \in Stuck \/ Cardinality(Stuck) >= BatchSize)
    /\ [][\A d \in Deliveries : Starved(d) => delivery'[d] = delivery[d]]_vars

\* The queue implements what NotificationOutbox promises.
OutboxOutcome(status) ==
    CASE status \in {"SENT", "DELIVERED"} -> "given"
      [] status = "SKIPPED" -> "skipped"
      [] status = "FAILED" -> "failed"
      [] OTHER -> "open"

Outbox == INSTANCE NotificationOutbox WITH
              outcome <- [d \in Deliveries |-> OutboxOutcome(delivery[d].status)],
              copies <- accepted,
              mishaps <- faults + lostAnswers

OutboxSpec == Outbox!Spec

=============================================================================
