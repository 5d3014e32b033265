# Formal model of the IAM CRM backend

A TLA+ development beside the NestJS/Prisma/PostgreSQL backend in `src/`. It
models the parts of the program whose correctness depends on the order in which
transactions, provider calls, replicas and users interleave, checks them with
TLC on small instances, and proves their safety properties for every value of
the parameters with TLAPS.

## 1. The system

A multi-tenant CRM. Every HTTP handler and every scheduled worker runs against
one PostgreSQL database through `PrismaService.withTenantTransaction`
(`src/src/prisma/prisma.service.ts:29-40`), which sets the tenant for row-level
security and runs its callback in one transaction at the default isolation
level, READ COMMITTED. Nothing keeps a lock between two transactions, and a
plain read inside a transaction locks nothing. So everywhere in the code the
question is the same: which conditions are part of the statement that writes
(`updateMany ... where status in ...`, a unique key, an advisory lock), and
which were only read before.

### Components, their state and their operations

| Component (`src/src/...`) | State | Operations | What is hard | Modules |
| --- | --- | --- | --- | --- |
| Notification delivery queue (`notification-core/queue`, dispatcher, `email`, `sms`, `push`, `in-app`, `audit`) | `NotificationDelivery` rows, attempt rows, the in-memory `running` flag and the dispatches of each replica | tick, recoverStale, due, dispatch, claim, send, record, audit, handleFailure, retryNow | several replicas, external calls between transactions, leases, retries, crashes | `NotificationDelivery`, `NotificationOutbox` |
| Notification publication (`notification-core.service.ts`, rule engine, `deduplication`, `orchestration`, `schedule`) | events, rules, digest buckets and items, escalation runs, schedules | publishAndEvaluate, createPendingDelivery, attachDigest, escalation register/process | two transactions per event, digest carrier, claims without recovery | `NotificationPublication` |
| Notification administration (`notification-admin.service.ts`) | templates and their versions, rules, policies | create, update, activate, remove | a single active version under concurrent edits | `NotificationTemplates` |
| Quota (`quota/`) | counters, reservations, usage events, threshold marks, snapshots | reserve, commit, release, consumeEvent, synchronizeInventory, reconciliation, hourly job | expiring holds, keys used again, advisory locks, drift, periods | `QuotaLedger`, `QuotaEvents`, `QuotaInventory`, `CompanyArchive` |
| Entitlements (`entitlements/`) | plans, subscriptions, overrides, a cache by version | resolve, createSubscription, transition, plan change, override | answers cached across changes and across time | `Entitlements` |
| Assistant actions (`crm-assistant/crm-assistant-actions.service.ts`) | executions by nonce | confirm: claim, execute, persistSuccess, mark | crash between execution and record, double confirmation | `AssistantActions`, `OncePerKey` |
| Customer requests (`customer-requests/`) | creation attempts by key, links | createIdempotent, link, unlink | creation in another service, between two records of it | `LinkedCreation` |
| Timesheets and leave (`timesheets/`) | entries, leave requests | create, update, submit, cancel, decide | edits racing decisions, day locks, midnight | `WorkCalendar` |
| Tasks (`tasks/`) | tasks, subtasks, review rounds | create, status, complete, update, reassign, reschedule, remove, submitReview, decideReview | decisions on rows read before the write | `TaskWork` |
| Technical centre (`technical-center/`) | tenders, reviews, requirements, deliverables, releases, documents, articles, resources | transitions, reviews, walks for cycles, approvals | revisions for some rows and not for others | `Tenders`, `RequirementGraph`, `TechnicalRecords` |
| Opportunities (`opportunities/`) | opportunities, stage history, lines, estimated value | create, changeStage, archive, restore, lines | quota and stages decided before the write, sums without a transaction | `QuotaInventory`, `Pipeline`, `OpportunityLines` |
| Pipeline and catalogue (`admin/pipeline`, `product-catalog/`, `admin/exchange-rates`) | stages, products, price history, exchange rate | stage edits, product edits, new rate | edits judged on rows another replaced; two locks that do not exclude each other | `Pipeline`, `PriceList` |
| Meetings (`meetings/`) | meetings, reminders | create, update, complete, cancel, reminder job | the job marks by id what it read | `Meetings` |
| Conversations and collaboration (`conversations/`, `collaboration/`) | questions, answers, channel members | askBot, addMember, removeMember | failures between commits, the last owner | `Conversations` |
| Attachments (`attachments/`, `companies/company-legal-documents`) | file rows, objects, holds, documents | upload, remove | four stores, each failure undone by hand | `Attachments` |
| Companies (`companies/`) | hierarchy, archive flag | replaceHierarchy, archive, restore | cycles by crossing edits, two metrics at once | `CompanyTree`, `CompanyArchive` |
| Organizations, memberships (`organizations/`, `organization-memberships/`, `users/` activate and deactivate) | status, onboarding, owners | provision, transition, deactivate, activate | snapshots older than the lock, the last owner | `TenantLifecycle` |
| People and users (`people/`, `users/`) | master data, seats | CRUD, activate | quota of seats | none |
| Personal todos, activities, inbox (`personal-todos/`, `activities/`, `notifications/`) | todos, activities, inbox rows | CRUD, recurrence, reminder scan, read marks | conversion to a task in several transactions | none |
| Sessions and sign-in (`auth/`) | refresh sessions | sign in, rotate, revoke | not in scope | none |
| Reporting, dashboard, audit (`reports/`, `dashboard/`, `operations/`, `audit-log/`) | audit rows | queries, exports, append | read only or append only | none |
| Framework (`common/`, `prisma/`, `openapi/`, `health/`, ...) | none | guards, pipes, adapters | none of its own | none |

How they interact: domain services call `publishDomainEvent` after their own
transaction commits; publication creates deliveries; the queue sends them and,
for IN_APP, writes the inbox of `notifications/`. Services that create counted
things (companies, users, opportunities, attachments) reserve quota, write, and
commit or release the reservation in separate transactions. The queue, the
schedulers, the escalation scan, the reminder scan and the quota scheduler are
`@Interval`/`@Cron` jobs that run in every API replica: `.env.example:19`
describes `NOTIFICATION_WORKER_ENABLED` as something to "Enable ... on at least
one API replica", so several may run it.

## 2. What is hard, and what makes each component correct

The program has no distributed protocol of its own; its difficulty is that a
handler is a sequence of short transactions, and that any other handler,
replica or scheduled job may run between two of them. Five shapes recur:

1. **Claim, act, record** (queue, escalations, assistant actions, linked
   records, questions): a conditional update takes the work, an external or
   foreign call does it, a third transaction records the outcome. Correctness:
   the claim is exclusive, a crash between the steps leaves something recovery
   can see, and the record does not overwrite what another actor decided.
2. **Reserve, write, commit or release** (quota, uploads, restores): the
   reservation and the write it admits are separate transactions. Correctness:
   no order of requests, expiries and repeats exceeds the limit or counts twice,
   nor loses a unit.
3. **Read, decide, update by id** (handleFailure, tasks, stages, meetings,
   articles, timesheet edits): the condition is read without a lock and not
   repeated in the statement that writes.
4. **Idempotency keys** (events, reservations, usage events, linked records): a
   unique key makes the second call a no-op; the question is what of the first
   call the second one may rely on, and what happens when a key is used again
   on purpose.
5. **Walk, then write** (requirement and company hierarchies, conflicts of
   bookings, sums of lines): a condition over many rows is evaluated before one
   of them is written.

| Component | Correct when |
| --- | --- |
| Delivery queue | no attempt is sent twice, a row reported sent had a message accepted, every claim is recoverable, the attempt limit counts every message, every row that can be sent leaves the queue, unless rows that cannot be rendered fill a batch |
| Publication | every published event is evaluated exactly once, each delivery of a digest is told by its carrier, each escalation run ends |
| Templates | one active version |
| Quota | usage and holds within the limit, each key counted once, recorded means counted, what is there is counted or held, closed periods keep their final usage |
| Entitlements | a cached answer is what a resolution would give, one subscription stands |
| Assistant actions, linked records | one execution per confirmation or key, also across failures |
| Timesheets and leave | no two bookings of the same time; what was submitted is not edited |
| Tasks | a finished task has no open subtask and an approved review where one is required; review and rounds agree |
| Technical centre | a submitted tender was ready at the revision it was submitted with; hierarchies without cycles; an approved document names its version |
| Opportunities, pipeline, prices | one default stage that takes new opportunities; open opportunities in active stages; prices on record and at the active rate; the estimated value is the sum of the lines |
| Meetings, conversations | a reminder told once for each time it is set; a question answered or failed, not pending for ever; a channel keeps an owner |
| Attachments | rows, objects, holds and documents agree |
| Companies | no cycle in the hierarchy; both metrics counted across archive and restore |
| Organizations | what serves tenants is provisioned and was activated with an owner |

The program keeps many of these only when no write lands on a row changed since
it was read. Each property states exactly which overlap or failure excuses a
deviation, as a history variable that the step in question sets (`overtaken`,
`adrift`, `crossed`, `excused`, `harmed`, ...); such variables are read by
properties only. A property then says that *nothing else* can bring the
deviation about, which is the part that tests hardly reach.

## 3. Plan

In the order of the work; groups 1 to 10 are done, 11 is left.

| # | Modules | Composes | Abstract specification | Runs | Theorems |
| --- | --- | --- | --- | --- | --- |
| 1 | `NotificationDelivery` | queue, dispatcher, four handlers, audit, admin retry | `NotificationOutbox` | `queue_single`, `queue_replicas` | `QueueSafe`, `AttemptsAreAccounted`, `OneSendAtATime`, `QueueStepsHold`, `QueueImplementsOutbox` |
| 2 | `QuotaLedger`, `QuotaEvents`, `QuotaInventory` | the ledger shared by metered events and by inventory | the ledger's own properties | `quota_events`, `front_office` | `MeteringSafe`, `CommittedForGood`, `InventorySafe` |
| 3 | `NotificationPublication` | events, rules, digest carrier, escalation runs | every event evaluated once | `publication`, `escalations` | `PublicationSafe`, `LossesHold`, `RunsSafe`, `ClosedStaysQuiet` |
| 4 | `LinkedCreation`, `AssistantActions` | creation under a key | `OncePerKey` | `back_office` | `LinkedSafe`, `AssistantSafe`, `AssistantCreatesOnce` |
| 5 | `WorkCalendar` | entries, leave, day locks | none | `work_calendar` | `CalendarSafe`, `CalendarStepsKept` |
| 6 | `TaskWork` | tree, reviews, completion | none | `task_review`, `task_tree` | `TaskSafe`, `StatusStepsKept`, `TreeSafe` |
| 7 | `Tenders`, `RequirementGraph`, `TechnicalRecords` | technical centre | none | `back_office` | `TendersSafe`, `TenderStepsKept`, `GraphSafe`, `RecordsSafe`, `RecordStepsKept` |
| 8 | `NotificationTemplates`, `TenantLifecycle`, `Entitlements` | administration | none | `back_office`, `last_owner` | `TemplatesSafe`, `TenantSafe`, `TenantStepsKept`, `EntitlementsSafe`, `EndedStaysEnded` |
| 9 | `Pipeline`, `PriceList`, `OpportunityLines`, `Meetings`, `Conversations`, `Attachments` | front office | none | `front_office` | one for each |
| 10 | `CompanyTree`, `CompanyArchive` | companies, two metrics of the ledger | none | `companies` | `CompanyTreeSafe`, `ArchiveSafe` |
| 11 | personal todos (conversion to a task in three transactions, the next occurrence under a unique key, the reminder job), follow-ups of activities, seats of users (a key per user that is used again), team codes copied to users | | | | |

## 4. The modules

Every action is one transaction or one external call of the code. A transaction
is one step because each of those modelled either makes its decisive change in
one conditional statement, or holds the lock (row or advisory) under which it
read; where it does neither, it is split at the read. Durable state (tables)
survives `Crash`; the place a handler is at (`job`, `request`,
`reconciliation`) is lost.

### `NotificationDelivery`, `NotificationOutbox`

| State | Code |
| --- | --- |
| `delivery[d]` | `notification_deliveries` (status, attemptCount, processingStartedAt as none, fresh or expired lease, nextAttemptAt as none, later or due, who asked for a retry) |
| `attempts[d]` | `notification_delivery_attempts`, unique by attempt number |
| `accepted[d]` | the attempts for which the provider took a message, or the inbox row was written: what recipients got. It is not read by the code |
| `phase[p]` | the worker tick of replica `p`: idle, or between recoverStale and due |
| `job[p][d]` | the dispatch of row `d` running on replica `p`: its step, the attempt it claimed, the trigger it will be recorded with |
| `faults`, `lostAnswers`, `delays`, `manualRetries` | what went wrong, or was asked for, so far; the properties count copies and attempts against them, and the bounds limit them |

The tick is `Tick` (flag, recoverStale) and `TakeBatch` (due and the parallel
dispatches). A dispatch is `Snapshot`, then for EMAIL, SMS and DESKTOP_PUSH
`Claim`, or `ClaimMiss` and `ReadMissed` (two statements, so that the status
reported may be newer than the one the claim saw), then `ProviderAccepts`,
`ProviderRejects` or `ProviderAnswerLost` - the provider took the message, but
the call threw, timed out or came back unreadable, which each handler records as
a failed send (email :79, sms :53, push :42) - and `RecordSent`, `RecordFailed`
or `RecordSkipped`. An email that carries a digest (`Carriers`) then updates its
bucket (`UpdateBucket`), in a transaction of its own. For IN_APP there is the
single transaction `InAppDeliver`, `InAppSkip` or its rollback. Then come
`RecordAudit`, and for a FAILED result `HandleRead` and `HandleWrite` of
`handleFailure`. The channel decides which statuses the claim accepts
(`Claimable`: SMS does not take FAILED), whether rendering runs inside the claim
(`RendersInClaim`), how a send fails (`Refusals`) and what a failing database
call leads to: `DatabaseFails` when it was not done, `CommitAnswerLost` when it
was committed and only its answer is lost. `AfterFault` goes where the nearest
catch block goes: the handler's (`CaughtByHandler`: the failing bucket of a
committed SENT is one of the calls inside the try, and takes the row to FAILED),
or the dispatcher's (`Throw`), whose own call of `handleFailure` is the last.
`RetryNow` is the administrator; `BackoffElapses` and `LeaseElapses` are the
clock.

`NotificationOutbox` is what a caller may rely on: messages are handed over
while a delivery is open, each one after the first only if mishaps (faults and
lost answers) account for the copies before it; "given" is reported only after a
message was handed over, and taken back only after as many mishaps as there are
copies; only a failed delivery opens again. `OutboxSpec` maps the queue onto it.

The rows start as publication leaves them: PENDING, at once or deferred, or
SKIPPED as the item of a digest (`DigestItem`), which must stay so. `MaxQueued`
bounds how many start PENDING, so that one run with a row of each channel covers
every pair of channels. A row in `Unrenderable` throws when it is rendered:
inside the claim for EMAIL and DESKTOP_PUSH, so that it stays PENDING for good
(`Stuck`).

### `NotificationPublication`

| State | Code |
| --- | --- |
| `event` | `notification_events`, unique by idempotency key |
| `row[o][u]` | the EMAIL row of event `o` for recipient `u`, unique by deduplication key: status, orchestrationReason, when it was created, nextAttemptAt |
| `bucket[u][d]` | `notification_digest_buckets` of a user and a window: carrier, items, and the message last rendered by the carrier's claim |
| `run[o]`, `escalated` | `notification_escalation_runs` by source event, and the ESCALATION events written |
| `task[o]` | whether the task is still open with the due date it had |
| `call[p]` | the event a `publishAndEvaluate` call has inserted and not yet evaluated |
| `pass[s]` | the escalation pass of a scheduler: step, run and rest of its batch |
| `told[u]` | which events digests have told a recipient; the code does not read it |
| `clock`, `faults` | half days, bounded by `LastHalf`; failures, bounded by `MaxFaults` |

`RecordEvent` is the first transaction of `publishAndEvaluate` and `Evaluate`
the second, with the decision for each recipient (`Decide`), the row
(`NewRow`) and the digest's upsert (`Joined`). `Prepare`, `SendDigest` and
`DigestFails` are the dispatch of a carrier as the queue allows it, reduced to
what the digest depends on: when the claim renders the items. `Scan`,
`ClaimRun`, `Check`, `Escalate`, `CancelRun`, `FailRun` are
`processOrganization`, one action per transaction, and `EscalationFails` puts
the failure of any of them, or a commit whose answer is lost, in front of the
catch block, which writes FAILED by id.

### `QuotaLedger`, `QuotaEvents`, `QuotaInventory`

`QuotaLedger` holds the rows one organization has for one metric (`counter`,
`reservation`, `marks`) and the operators for reserve, commit, release, expiry
and thresholds. `reserve` and `commitReservations` run under the metric's
advisory lock, so each is one step. It has no Next: the two modules that extend
it say who calls these steps, and when.

`QuotaEvents` is `consumeEvent` (one action per transaction: `ReserveEvent`,
`RecordEvent`, `CommitEvent`, `ReleaseEvent`) and the hourly job of each replica
(`ExpireStale`, `ReadClosed`, `WriteSnapshot`). `request[r]` and `job[s]` are
the calls in progress. A key is a caller's request id and may be used by two
requests.

`QuotaInventory` is create, restore and archive of `OpportunitiesService`
(`Begin` reads the guards; `ReserveRoom`, `Write`, `CommitRoom`, `ReleaseRoom`,
`Synchronize` are the transactions) and the reconciliation an operator runs
(`ReconcileCount`, `ReconcileCompare`, `ReconcileWrite`).

### `TaskWork`

`task` is the row of `Task` with its review status, reviewer and parent,
`rounds` the review rounds by task and number, `req` a request in flight with
the copy of the row it has read. `Read` is the first query of every handler;
`CountSubtasks` and `FindPendingRound` are second reads; `ChangeStatus`,
`Complete`, `Update`, `Reassign`, `Reschedule`, `CreateSubtask`, `Remove`,
`SubmitReview`, `DecideReview` are the writes, which go by the copy except in
the two review operations; `TellParent` is the notice that every subtask is
closed. `overtaken` holds the tasks written on a reading that was no longer
true.

### `WorkCalendar`

`booking` is a timesheet entry or a leave request (`sort`), `clerk` the
transaction that creates or edits one. `BeginCreate` and `BeginUpdate` read the
row, `LockDay` takes the advisory lock of one day after another,
`CheckConflicts` reads the bookings of those days, `WriteBooking` writes by id.
`SubmitBooking`, `CancelBooking`, `ApproveBooking` are conditional updates
without locks. Days have two halves next to their midnights, which is where
work of the eve meets the next day.

### `Tenders`, `RequirementGraph`, `TechnicalRecords`

`Tenders` has one tender with its reviews by type, one requirement per member of
`Needs` and one deliverable; `visit` is a request between its reading and its
write, `fresh` whether the revision it read still stands, `steady` whether what
is outside the revision does. `RequirementGraph` has the parents and the
dependencies as sets of pairs; `WalkForUpdate` and `WalkForDependency` are the
walks for a cycle, the other actions the writes and the deletions.
`TechnicalRecords` has one record of one of the four kinds with its document
versions; `errand` is a request in flight, and a document's approval is
`TransitionDocument` and then `StampVersion`.

### `AssistantActions`, `OncePerKey`, `LinkedCreation`

`execution` is the row by nonce and `confirm` a call of confirm: `Claim`,
`CreateEntity` or `CreateThrows`, `PersistSuccess` or `PersistFails`,
`MarkForReconciliation`, each a transaction, and `StopConfirm`. `OncePerKey` is
its abstract specification. `LinkedCreation` has the attempts by key, the links
by record and the calls of `createIdempotent`: insert or take over a failed
attempt, create, note the id, link, complete; `orphaned` are records whose
creator could not note them.

### `Entitlements`, `TenantLifecycle`, `NotificationTemplates`

`Entitlements` is one feature of one organization: the plan, the subscriptions,
the override, the version every change increments, the cache by version, the
resolutions in flight (`ReadVersion`, `ReadSubscription`, `Answer`), transitions
that read before they take the lock, a change of a plan that reads its
subscribers and commits, and the clock. `TenantLifecycle` has the status and
onboarding of an organization, its members and the provisionings and
transitions in flight, whose snapshot is that of the statement that waits for
the lock (`OpenCall`); `Deactivate` and `Activate` are users switched off and
on. `NotificationTemplates` has the versions of one template and the
transactions that number, clear and activate.

### `Pipeline`, `PriceList`, `OpportunityLines`

`Pipeline` has the stages, the opportunities with their stamp (wonAt, lostAt)
and the last row of their history, and calls that look (`LookFor...`), check the
other rows (`Check...`) and commit (`Commit...`). `PriceList` has products, their
open price record, the rate, updates under the product's lock, a new rate under
its own (`ReadProducts`, `StampRate`, `CommitRate`) and lines being priced
(`QuoteProduct`, `QuoteRecord`). `OpportunityLines` has the lines of one
opportunity, the estimated value and calls that write a line, add up and write
the sum; the sum is the community modules' `SumFunctionOnSet`.

### `Meetings`, `Conversations`, `Attachments`

`Meetings` has the rows, the calls judged on a reading (`Begin...`, `Commit...`)
and the reminder job (`ReadDue`, `CommitReminders` or `AbortReminders`).
`Conversations` has the questions by key with their status and answer and the
calls of askBot, one action per commit and per way to fail; and one channel's
members with removals that read, count the owners and delete. `Attachments` has
each upload's progress through holds, object, row, commit and document, with the
undoing of each failure, and the removal of files and documents.

### `CompanyTree`, `CompanyArchive`

`CompanyTree` has the relations as pairs and the edits in flight: the walk, the
check for reverse relations, the deletion and the insertion. `CompanyArchive`
has the archive flag and the number of opportunities of each company, the
counters of both metrics, the holds of the restores and the calls in flight:
`BeginArchive`, `WriteArchive`, `Recount` of each metric; `BeginRestore`,
`ReserveCompany`, `CountDeals`, `ReserveDeals`, `WriteRestore`, `CommitRestore`,
`ReleaseOne` of each hold after a failure. `Mishap` counts failures, overrun
holds, keys used again and opportunities restored behind the count.

### Instances

The modules whose names begin with `MC` give the instances: channel
assignments, rules, operation sets and symmetry. `MCBackOffice`, `MCFrontOffice`
and `MCCompanies` put parts that share no variable into one run: `subject` is
chosen at the start and every behaviour is one of a single part, so such a run
is the sum of the runs of its parts, not their product. Operators commented as
mutants are plausible mistakes in the code; they are not part of any
specification and exist to show that each property would notice them.

## 5. What is model-checked

Each run's configuration names its invariants and properties; most are
conjunctions of named parts, one per hazard, whose comments give the lines of
the code at stake.

| Run | Instance | Shows |
| --- | --- | --- |
| `queue_single` | one replica, six rows (four channels, one email with a digest, two rows that cannot be rendered) and a batch of two: any one row through two faults, a lost answer and a manual retry, any two through one of these, or up to two stuck rows and another; fair | `AttemptsAccounted`: truthful history, each further copy paid for by a fault or a lost answer, attempts within budget and used up before giving up; `QueueSteps`: DELIVERED and SKIPPED are final, SENT is taken back only by the catch block of its own dispatch, no claim before the backoff; `OutboxSpec`: the queue implements `NotificationOutbox`; `RenderableRowsDrain`: every row leaves the queue if the stuck ones leave room in a batch, and behind a batch of stuck ones none does |
| `queue_replicas` | two replicas, any one queued row of four channels (the email with a digest), a fault, a lost answer, an overrun | `QueueInv`: even when a claim is stolen, attempts are not shared or uncounted, SENT is truthful, claims stay recoverable, the history is numbered; `NoConcurrentSends`: an SMS has one message on its way while nothing fails or is late |
| `publication` | two callers, three events, two recipients, a digest rule before a mandatory one, two windows, two failures | `PublicationInv`: each window has one carrier; `LossesExplained`: an event loses its deliveries only to a failure of its own, and a digest tells what was made before it was due |
| `escalations` | two schedulers, two tasks, two failures; fair | `RunsSound`: claims exclusive, statuses truthful; `ClosedNotEscalated`; `RunsEnd` |
| `quota_events` | two requests, two keys, two periods, one failure; fair | `MeteringInv`: limit, single count, recorded before counted, marks, snapshots; `HoldsEnd` |
| `task_review` | one task, two users, two requests, two rounds, one overtaken write | `TaskInv`: review and rounds agree; `StatusSteps`: no reopening, no completion without approval, no second decision, but for what was overtaken |
| `task_tree` | three tasks, depth two, two requests, one overtaken write | `TreeInv`: depth, living parents, open subtasks of a finished task, the notice to the parent |
| `work_calendar` | two bookings, two transactions, two days and their midnights | `CalendarInv`: work never overlaps, day locks are granted, refusals have a reason; `CalendarSteps`: what makes a clash with leave, what edits a decided booking |
| `back_office` | each part with two callers; four review rounds, three document versions, three template versions, five entitlement versions | `TendersInv`, `TenderSteps`, `GraphInv`, `RecordsInv`, `RecordSteps`, `AssistantInv`, `AssistantOnce`, `LinkedInv`, `EntitlementsInv`, `EndedUnlessOvertaken`, `TenantInv`, `TenantSteps`, `TemplatesInv` |
| `front_office` | each part with two callers; see the bounds below | `InventoryInv`, `PipelineInv`, `PricesInv`, `LinesInv`, `MeetingsInv`, `ConversationsInv`, `AttachmentsInv` |
| `companies` | three companies and two edits; two companies, two callers, room for one of them, one mishap | `CompanyTreeInv`; `ArchiveInv`: both metrics count or hold what is there, each mishap lets one company over the limits, holds have a call |

One run ends in a counterexample:

| Run | Statement | What happens |
| --- | --- | --- |
| `last_owner` | organization-memberships.service.ts:247, "The last active tenant owner cannot be deactivated" | the check looks for the owner among active users after the same transaction switched it off, and never finds it |

### Other deviations

The models made these visible; the properties name each as the overlap or the
failure that excuses a deviation, so the passing runs reach them.

Notifications:

- docs/notification-in-app-channel.md:69 says a concurrent claim creates
  nothing; `handleFailure` (queue.service.ts:40) writes by id over DELIVERED,
  and the retry inserts again.
- docs/notification-push-channel.md:11 and docs/notification-sms-channel.md:45-47
  say claims prevent concurrent duplicate sends. The push claim takes FAILED: a
  batch read earlier may hold a row another dispatch has just failed. SMS leaves
  FAILED alone, yet with three replicas, or two and a manual retry, a dispatch
  that missed its claim reports a failure, and `handleFailure` reschedules the
  row another dispatch has at the provider. A row in its backoff may also be
  claimed from a batch read before it.
- .env.example:23 allows five attempts. Rendering that throws rolls back its own
  claim (email handler, :47) and is tried again on each tick, uncounted. As many
  such rows as a batch holds (.env.example:22, fifty) come first in each batch of
  their tenant, and no younger row without a nextAttemptAt is fetched again.
- docs/notification-deduplication.md:26-30 admits one window for a second copy:
  the process stops before it records SENT. There are more, none of which needs a
  crash. A send that took the message and then threw is recorded FAILED and
  retried; so is one whose SENT could not be written, or was written and its
  answer lost. And the email handler updates the digest's bucket (:77) after SENT
  was committed (:65) inside the same try, so that a failing update takes SENT
  back to FAILED (:81) and the digest is sent again.
- docs/notification-delivery-audit-center.md:7 says every claimed attempt has a
  row; the audit is a transaction of its own whose failure is only logged. Its
  :9 says an accepted retry is processed; `handleFailure` (queue.service.ts:41)
  may write FAILED over RETRYING.
- docs/notification-phase14-operations.md:15 says preferences do not apply to
  mandatory rules. Of several rules for one recipient and channel the first by
  priority creates the row; if that is optional, its SUPPRESSED_PREFERENCE row
  takes the key and the mandatory rule finds a duplicate.
- A digest's window is the calendar day. What is published after sendTime joins
  the window whose carrier may have been sent, and no digest tells it.
- Two activations of template versions can each miss the other's version.

Quota:

- docs/quota-usage-metering-fix-000093.md:11, :15: two calls with one key share
  a hold, and the duplicate may give it back before the other commits it
  (quota.service.ts:303): the event is recorded and not counted.
- :9, :15: the second restore of an opportunity repeats a committed key and is
  granted without a check (opportunities.service.ts:648). That of a company does
  so for both metrics; when the number of its opportunities has changed, the
  repeated key is refused for ever by the comparison of amounts
  (quota.service.ts:84-85, companies.service.ts:861). An opportunity restored
  behind the count of a restore is not held, and the count itself is outside the
  try, so that its failure leaves the first hold to expire.
- :15: reconciliation writes under the lock what it counted before it
  (usage-reconciliation.service.ts:113); an archive's recount may include a row
  whose hold is committed later, which counts it twice.
- :13: a call of a closed period may commit after its snapshot. :9: holds are
  summed per period, so those in flight at the change take no room in the new
  one (`Carried`).

Other administration:

- docs/plan-subscription-entitlements-fix-000092.md:9: a transition that read a
  subscription before it ended takes the ended one up again, when no other
  stands. A change of a plan does not raise the version of a subscription made
  between reading the subscribers and its commit.
- A second provisioning that fails marks a READY organization FAILED as long as
  it is pending.

Work:

- docs/phase-4.6-task-review-workflow.md:24 rejects self-review; an assignment
  and a choice of the reviewer may each be judged before the other is written.
- submit of leave looks for no conflicts (leave-request.service.ts:199), so
  leave can be submitted beside bookings made since its creation was checked;
  leave is refused for untimed work of the eve (timesheet-conflict.service.ts:145).
- Two walks over the requirements that both precede either write close a cycle
  (technical-center.service.ts:1092); what does not raise the revision of a
  tender can change between the reading that found it ready and its submission.
- A document's approval is two writes; a version added or a file deleted in
  between is approved in place of the one that was checked.

Sales and collaboration:

- README.md:650, "archived opportunities remain untouched": one archived between
  the list and the move is moved; one restored returns to an inactive stage;
  a stage whose type changes leaves wonAt and lostAt as they were.
- README.md, fix 000072, "Effective price changes create a PRODUCT_UPDATED
  record": an update that a new rate overtook finds no difference and appends
  nothing; the new rate writes back inputs it read before the row locks.
- The estimated value may be written last with an older sum.
- README.md:1945: a reminder set anew between the job's read and its write is
  marked as sent and never told; a meeting cancelled in between is announced.
- A question whose audit or context fails stays PENDING, which every retry is
  refused for; a retry that had read FAILED reopens an answered question. Two
  removals can each count the other's owner and leave a channel without one.
- README.md:1887: a removal that read a legal document before its file was
  linked leaves the file; a live file may remain uncounted; a document whose
  file was removed alone cannot be removed any more.
- README.md:1916: edits of the company hierarchy that cross close cycles.

### Bounds

`MaxFaults`, `MaxDelays`, `MaxManualRetries`, `MaxRegrants`, `MaxReconciles`,
`MaxDisturbances`, `MaxOvertaken`, `MaxMishaps` bound what the environment does,
and nothing the code does. One fault reaches every catch block, since it can
fall on any call; one delay lets one dispatch outlive its lease, or one request
its hold. `MaxAttempts` is 2: a first attempt, a retry, and the limit. The other
bounds are the number of rounds, versions, calls and hours: two of each to have
an older and a newer one, and what more a part needs to make a second step of
the same kind (four review rounds are two of each type, five entitlement
versions two subscriptions with their transitions). A replica, caller or
scheduler more mostly repeats the second one's part, as each conflict in the
code is between one that has read and one that writes; where three differ from
two (`TwoReplicasAtRest`) the property says so, and the proof covers the rest.

| Run | Bounds |
| --- | --- |
| `queue_single`, `queue_replicas` | rows share nothing but the batch: one row on one replica meets all mishaps, two rows one of them, and two stuck rows of a batch of two with a third behind them, without mishaps, are what starves it (`SingleInit`, `WithinMishaps`, which restrict only where the run begins and how much goes wrong: a dispatch has another step wherever a lost answer is cut off, so what must happen still can); one row on two replicas has the races on a row. No lease overrun with one replica, no manual retry with two |
| `publication`, `escalations` | three events give a window its carrier, an item before and one after the carrier's claim; four half days are two windows with an evening between them |
| `quota_events` | two requests and a limit of one give every order of two critical sections around the last unit |
| `task_review`, `task_tree` | one task with two rounds and one overtaken write; a parent, a child and a sibling or grandchild, at two levels of three |
| `work_calendar` | two bookings of one or two days on both sides of one midnight |
| `back_office` | two callers everywhere; two requirements, one mandatory need, one token, one key with three records, two subscriptions of one plan, two users of whom one is local. Cached answers over three versions, with transitions that nothing overtakes; subscriptions without answers over five |
| `front_office` | quota: two opportunities, two requests, two periods, one disturbance; pipeline: three stages, one opportunity, two calls, from any valid settings; prices: one product, two callers or one beside a line being priced, two rates; lines: two lines, two callers; meetings: one, two callers, times to 2, one new setting; one question with two askers; three members, two removals; one upload |
| `companies` | three companies close a cycle through one that neither edit is about; room for one company of two, and for its opportunities |
| `last_owner` | one local owner suffices |

Some properties hold only of an uncontested dispatch (`Uncontested`): one
replica, or two at rest with an SMS row. Elsewhere the code does not keep them,
as the list above says. The proofs of section 6 have none of these bounds.

Symmetry is used where a run checks no liveness; action properties quantify over
the symmetric sets. `CHECK_DEADLOCK FALSE` is set where the system may really
stop: once every row was created, decided or archived and the bounds are spent,
nobody needs to call again (`back_office`, `front_office`, `companies`,
`task_review`, `task_tree`, `work_calendar`, `last_owner`).

### Fairness

`FairSpec` of the queue is weakly fair for `Tick`, `TakeBatch`, each dispatch
and the clock: `@Interval` keeps firing, a promise that was awaited settles
(provider calls have timeouts), time passes. `FairSpec` of publication is weakly
fair for an evaluation in progress and for each scheduler's pass, for the same
two reasons. `FairSpec` of the events is weakly fair for each request in
progress, for the hourly job (`@Cron`) and for the reservation's lifetime.
Crashes, database failures, administrators, users, new requests and period
changes have no fairness, and no fairness is strong. `RenderableRowsDrain` needs
the batch to be in order of age, and room in it beside the stuck rows; `RunsEnd` claims nothing after a failure,
because a run left in PROCESSING is not looked for again. The other modules make
no claim about what eventually happens: a request may stop anywhere.

## 6. What is proved

Every safety property of a passing run is also a theorem, proved by TLAPS for
any number of rows, requests, replicas, users and periods, any limits and rules,
and any number of failures and delays: nothing of the bounds of section 5 enters
the proofs but the action guards that use them, for bounds of any size. Each
theorem is listed in `PROJECT.json` with the property it states.

**Assumptions.** Only the named ones on the constants, which TLC evaluates in
every run. Most say that a bound is a number and that a null value is none of
the rows. The others that a proof rests on: the sets that are counted or summed
are finite (`LedgerAssumption`, `InventoryAssumption`, `PublicationAssumption`,
`LinesAssumption`, `ArchiveAssumption`); amounts of lines are positive
(`LinesAssumption`); limits are numbers; rows of the queue are numbered in the
order they were created (`DeliveriesAssumption`). `QueueImplementsOutbox` is
stated under `OneReplica`, and properties that one replica, or two at rest,
promise beyond the others say so themselves.

**Form.** A property is seldom inductive as it stands. What has to be added is
what a call between two of its transactions may still rely on: that what it read
is so, unless an overlap was noted. Each part below gives that addition. Where
the definition of a depth or of a sum is recursive, the proof needs no induction
over data: a least counterexample (`LeastNat`, from the library's theorem that
the numbers are well founded) does instead.

### `NotificationDelivery_proofs`

- `QueueSafe`: the parts of `QueueInv`. `NoSharedAttempts` and
  `EveryMessageCounted` are inductive together (`Tickets`): the increment of a
  claim makes the new number greater than each number in flight or accepted, so
  that it is nobody else's, and as the count never falls the numbers stay
  counted. `SentWasAccepted`, `ClaimsRecoverable` (each step gives the row a
  status and a stamp that agree) and `HistoryNumbered` (from `Tickets` and the
  unique key) follow.
- `AttemptsAreAccounted`, `OneSendAtATime`, `QueueStepsHold` are about rows
  nobody contests. What each step of a dispatch knows of its row is `SoloJob` on
  one replica, `DuoJob` on two at rest; `TicksFresh`: a tick begins with no
  dispatch left. A catch block about to write FAILED finds an outcome that is
  open, or the SENT its own dispatch wrote before a fault (`Overwrites`), which
  is the one way an outcome is taken back (`OutcomeKept`). `Ledger` counts
  attempts against faults and manual retries, and copies against mishaps plus the
  one that the row reports, or is about to (`Told`): a message goes out only for
  a row that is not told, and telling is undone only by a fault of its own.
  `Attended`: without faults a FAILED row has no attempts left or a dispatch that
  will handle it. Each action is first put into one of a few row changes
  (`RowIs`, `Turns`, `Ends`, ...), apart from the transaction it may commit
  (`Committed`), so that a lost answer is that transaction with another ending;
  the invariant is proved over those.
- `QueueImplementsOutbox`: on one replica every initial state maps to one of
  `NotificationOutbox`, and every step to a step of the outbox on one delivery or
  to none. Recovery and batches change many rows at once, but nothing the outbox
  sees. That a copy is excused when it is handed over, or a report taken back, is
  `Ledger` for a row that is not told.

### `NotificationPublication_proofs`

- `PublicationSafe`, with `CarrierUnique`, `ClaimsExclusive`, `EvaluatedOnce`,
  from one invariant `Inv`. `Once`: a call in progress owns its event, which has
  no escalation run yet. That makes an evaluation new to every table, so that it
  cannot return a claimed run to PENDING (`Claimed`) nor change a delivery that is
  in a bucket already (`ItemsEvaluated`).
- `RunsSafe` needs `Claimed`: the catch block writes FAILED by id, also to a run
  another scheduler has claimed, and what keeps that run from a third one is
  that it never becomes PENDING again. `Truth` ties the status to what was sent.
- `ClosedStaysQuiet` (action property): from the step that closes the task on,
  `Withheld` says that nobody holds its run past the check.
- `LossesHold`: the events lost so far grow by at most one, and with a fault;
  `RowsAwaited`; and `Digest`: an event is in one window, and the message of a
  claimed carrier has all its early items.

### `QuotaEvents_proofs`, `QuotaInventory_proofs`

- `MeteringSafe`: `Books` (types, `Opened`, `CountedOnce`, `LimitHeld`) is needed
  whole: a commit moves a unit from the holds to the counter and keeps their sum
  only if the key was not counted before. There is one lemma per ledger step
  about the ledger alone. `RecordedFirst`: who is about to commit has recorded.
  Marks and snapshots follow, and so does `CommittedForGood`, an action property.
- `InventorySafe`: the ledger alone does not limit what is active, since a write
  that was granted comes later and a period opens its counter at the count of
  that moment. The invariant is about the latest period with a counter (`Top`):
  what is active, with what requests may still make so, is accounted for there
  (`Accounted`, `Within`), up to failures, overrun holds, keys used again and
  requests carried over from an earlier period. `WorkBacked` says that who
  writes has a hold. Each action moves one request, and one lemma per sum says
  what that does.

### `Work_proofs`

- `TaskSafe`, `StatusStepsKept`: `TaskInv` with `FreeIsNew` and `SeenThere`
  (a request has read a row that was there); `DecisionStep` for the rounds.
- `TreeSafe`: there is a `Ranking` of the tasks by depth, which every step that
  moves a task keeps or replaces; the recursive `Depth` is the rank
  (`DepthIsRank`). `CountedNone`: a completion goes on when it counted none.
- `CalendarSafe`, `CalendarStepsKept`: a request holds the days of its booking up
  to some day (`HeldUpTo`), no day is held twice, who has checked holds them all
  and what it writes stays clear of other work (`StaysClear`). That the locks
  are granted: of those that wait, the one whose next day is the latest waits for
  a day nobody holds.

### `TechnicalCentre_proofs`

- `GraphSafe`: pairs written under a walk that is still true close no cycle
  (`WalksHold`).
- `TendersSafe`, `TenderStepsKept`: what a request read of a tender and its newest
  reviews is so unless moved (`ReadingsTrue`).
- `RecordsSafe`, `RecordStepsKept`: `ErrandsSound`, the same for documents,
  versions, releases, articles and resources.

### `BackOffice_proofs`

- `AssistantSafe` with `ClaimHeld` (who claimed a token is alone with it) and
  `RowsTruthful`; from it `AssistantCreatesOnce`, that the confirmations implement
  `OncePerKey`.
- `TemplatesSafe` (`EditsSound`), `TenantSafe` and `TenantStepsKept`
  (`ReadingsHold`).
- `EntitlementsSafe`, `EndedStaysEnded`: an answer lasts until the next change the
  row announces (`AnswerLasts`, `UntilNextChange`), a resolution on its way is
  current or will find its version outdated (`ResolutionsCurrent`), and no cached
  version is ahead (`NothingAhead`).
- `LinkedSafe`: `CallsSound`, `TargetsSound`, `BirthsKnown` (under which key each
  record was made).

### `FrontOffice_proofs`

- `CompanyTreeSafe` (`EditHolds`, and `NoCycleAfterEdit`), `ConversationsSafe`
  (`AskersHold`, `RemoversHold`), `AttachmentsSafe` (`UploadSound`: which of the
  four stores an upload at each step has written), `MeetingsSafe` (`MeetingHolds`,
  `CallHolds`), `PipelineSafe` (`CallSound`, `DealHolds`, `StagesHold`),
  `PricesSafe` (`PricerHolds`, `RaterHolds`, `QuoterHolds`).
- `LinesSafe`: a sum that is fresh is the sum of the lines (`FreshIsSum`). It
  rests on a theory of sums over finite sets: the fold of the community modules
  takes the elements in an order of its own choice, and that the order does not
  matter is shown by a least counterexample (`SumTakesOut`).
- `ArchiveSafe`: there is a set of companies, at most one per mishap, whose books
  are in doubt; those of all others are `Regular`, and what they owe adds up
  within the usage, what they claim within the limit (`Explained`). A mishap adds
  its company to the set.

### Only model-checked

The three liveness properties `RenderableRowsDrain`, `HoldsEnd` and `RunsEnd`:
liveness under fairness, as well as `ENABLED`, is out of this prover's reach.
`OutboxSpec` is neither claimed nor checked for several replicas, where a
dispatch of a replica that missed its claim may reschedule a row another one
took. `LastOwnerStays` is what the documentation says and the code does not do;
its run shows the counterexample.

## 7. What is not modelled

- The components marked not_modelled in `PROJECT.json`, and of those marked
  partly what their notes name.
- Planned and not begun (group 11 of the plan): personal todos, where the
  conversion to a task reads, creates and writes in separate transactions, the
  next occurrence is created under a unique key and a reminder job takes a lock;
  the follow-ups of activities, rescheduled and completed on a row read before;
  the seats of users, whose activation reserves under a key that is used again;
  the codes of teams copied to their users.
- Left out for good: the inbox, verification of domains, profile media, sessions
  and sign-in, reports, dashboard and audit log, and the framework. They read,
  append, or keep rows under a unique key.
- Of the queue: message content, rendering, provider protocols and what the
  administration screens show. A destination, template or endpoint that is
  missing appears as a skip, a template that cannot be rendered as a member of
  `Unrenderable`. The tenant is fixed: row-level security separates tenants, and
  the batch of one does not depend on another's.
- Of publication: how recipients are resolved, rules matched and candidates found
  by the scheduler (`Rules` is what came of it), the channels other than EMAIL,
  which have no digest, and the delay of an escalation step. The dispatch of a
  row that is no carrier is in `NotificationDelivery`; the status of a digest
  bucket is written after the row's and read by nothing, so only its failure is
  modelled: `DigestFails` here, a failing `UpdateBucket` in the queue.
- Of quota: amounts other than one, but for the archive of a company, which moves
  all its opportunities; limits that change, warning and disabled enforcement,
  the owner's notification about thresholds, overrides and summaries.
- Of tasks: who makes a request. `told` of `TaskWork` therefore holds an assignee
  who closed the last subtask himself, to whom skipSelf (tasks.service.ts:1800)
  sends nothing.
- Of the technical centre: the single queries of a walk. `RequirementGraph` takes
  a walk in one step, which stands for its first query: what is written later
  counts as written behind the walk. A walk that misses a new pair and sees
  another's deletion is left out.
- Of attachments: a first reservation that is made and whose answer is lost. Such
  a hold is left to its expiry; the later calls lose their answers
  (`StoreObject`, `InsertFile`).
- Of tenants: a provisioning that is committed and whose answer is lost. The code
  records it as failed while the organization is pending, as it does after the
  failure of a second one (`RecordProvisioningFailure`).
- Clocks are a choice: a lease, a backoff or a hold may run out at any time, and
  a bound counts those that do so under a running call.
- PostgreSQL and Prisma are taken at their word: transactions are atomic,
  conditional updates re-check their condition after waiting for a row lock,
  unique keys hold, advisory locks exclude.
