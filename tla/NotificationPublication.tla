----------------------- MODULE NotificationPublication -----------------------
(***************************************************************************)
(* From a domain event to queued deliveries: NotificationCoreService       *)
(* records the event under its idempotency key, then evaluates the rules   *)
(* and registers escalations in a second transaction; a daily e-mail       *)
(* digest gathers the deliveries of a window behind one carrier; the       *)
(* scheduler of each replica claims due escalation runs, checks that the   *)
(* task is still open, and creates the escalation.                         *)
(*                                                                         *)
(* Domain services and scheduler scans publish the same way, so publishers *)
(* stand for both.  Every event is about a task of its own.  The clock     *)
(* counts half days, before the digest's sendTime and from then on; quiet  *)
(* hours are a set of halves.  Escalation steps have no delay.  Of the     *)
(* queue only the digest carrier's dispatch is here, as that is when the   *)
(* digest is rendered; the upsert that joins a bucket and the claim that   *)
(* renders it lock the same row, so whoever is second sees the other.      *)
(***************************************************************************)
EXTENDS Integers, FiniteSets, Sequences

CONSTANTS
    Occurrences,  \* events, by idempotency key
    Users,        \* recipients
    Rules,        \* the matching rules by priority, resolved to recipients
    OptedOut,     \* users whose preference disables the event
    QuietHalves,  \* the quiet hours: halves of the day, 0 and 1
    QuietMode,    \* of the quiet hours policy
    AllowCritical,  \* whether CRITICAL passes the quiet hours
    Publishers,   \* publishAndEvaluate calls under way at a time
    Schedulers,   \* replicas with NOTIFICATION_SCHEDULER_ENABLED
    None,         \* no occurrence
    LastHalf,     \* bound on the clock
    MaxFaults     \* bound on calls that die and transactions that fail

Rule == [to : SUBSET Users, mandatory : BOOLEAN, critical : BOOLEAN, digest : BOOLEAN]

ASSUME PublicationAssumption ==
    /\ IsFiniteSet(Occurrences) /\ None \notin Occurrences
    /\ Rules \in Seq(Rule)
    /\ OptedOut \subseteq Users
    /\ QuietHalves \subseteq {0, 1}
    /\ QuietMode \in {"DEFER", "SUPPRESS"} /\ AllowCritical \in BOOLEAN
    /\ LastHalf \in Nat /\ MaxFaults \in Nat

VARIABLES
    event,      \* notification_events
    row,        \* notification_deliveries (EMAIL) by occurrence and recipient
    bucket,     \* notification_digest_buckets by recipient and window
    told,       \* what digests have told each recipient
    run,        \* notification_escalation_runs by source event: its status
    escalated,  \* occurrences with an ESCALATION event and its deliveries
    task,       \* the task each event is about
    call,       \* where each publisher stands
    pass,       \* the escalation pass of each scheduler
    clock, faults

vars == <<event, row, bucket, told, run, escalated, task, call, pass, clock, faults>>
digests == <<bucket, told>>
escalations == <<run, escalated, pass>>

Day(t) == t \div 2
Days == 0..Day(LastHalf)

Row == [status : {"none", "PENDING", "PROCESSING", "SENT", "FAILED", "SKIPPED"},
        reason : {"DIRECT", "DEFERRED", "DIGESTED", "DIGEST_ITEM", "SUPPRESSED_PREFERENCE",
                  "SUPPRESSED_QUIET_HOURS"},
        at : 0..LastHalf,     \* when it was created, as others see it
        due : Nat]            \* nextAttemptAt

Bucket == [carrier : Occurrences \union {None},
           items : SUBSET Occurrences,
           message : SUBSET Occurrences]  \* rendered when the carrier was last claimed

RunStatus == {"none", "PENDING", "PROCESSING", "SENT", "CANCELLED_RESOLVED", "FAILED"}

TypeOK ==
    /\ event \subseteq Occurrences
    /\ row \in [Occurrences -> [Users -> Row]]
    /\ bucket \in [Users -> [Days -> Bucket]]
    /\ told \in [Users -> SUBSET Occurrences]
    /\ run \in [Occurrences -> RunStatus]
    /\ escalated \subseteq Occurrences
    /\ task \in [Occurrences -> {"open", "closed"}]
    /\ call \in [Publishers -> Occurrences \union {None}]
    /\ pass \in [Schedulers -> [pc : {"idle", "claim", "check", "send", "cancel", "fail"},
                                on : Occurrences \union {None},
                                rest : SUBSET Occurrences]]
    /\ clock \in 0..LastHalf
    /\ faults \in 0..MaxFaults

NoRow == [status |-> "none", reason |-> "DIRECT", at |-> 0, due |-> 0]
NoBucket == [carrier |-> None, items |-> {}, message |-> {}]
Asleep == [pc |-> "idle", on |-> None, rest |-> {}]

Init ==
    /\ event = {}
    /\ row = [o \in Occurrences |-> [u \in Users |-> NoRow]]
    /\ bucket = [u \in Users |-> [d \in Days |-> NoBucket]]
    /\ told = [u \in Users |-> {}]
    /\ run = [o \in Occurrences |-> "none"]
    /\ escalated = {}
    /\ task = [o \in Occurrences |-> "open"]
    /\ call = [p \in Publishers |-> None]
    /\ pass = [s \in Schedulers |-> Asleep]
    /\ clock = 0
    /\ faults = 0

-----------------------------------------------------------------------------
(* NotificationOrchestrationService.decide *)

\* dailyDigestWindow: the next sendTime, tomorrow's once today's is reached.
SendTime(t) == IF t % 2 = 0 THEN t + 1 ELSE t + 2

Quiet(t) == t % 2 \in QuietHalves
ResumeAt(t) == t + 1

Later(a, b) == IF a > b THEN a ELSE b

Waiting(reason, due) == [status |-> "PENDING", reason |-> reason, at |-> clock, due |-> due]
Suppressed(reason) == [status |-> "SKIPPED", reason |-> reason, at |-> clock, due |-> clock]

\* The row a rule asks for, by what the clock said when it was evaluated.
Decide(rule, u, t) ==
    LET quieted == Quiet(t) /\ ~(rule.critical /\ AllowCritical)
        due == IF quieted THEN ResumeAt(t) ELSE t
    IN  IF ~rule.mandatory /\ u \in OptedOut THEN Suppressed("SUPPRESSED_PREFERENCE")
        ELSE IF quieted /\ QuietMode = "SUPPRESS" THEN Suppressed("SUPPRESSED_QUIET_HOURS")
        ELSE IF rule.digest /\ ~rule.critical
             THEN Waiting("DIGESTED", Later(SendTime(t), due))
        ELSE Waiting(IF quieted THEN "DEFERRED" ELSE "DIRECT", due)

-----------------------------------------------------------------------------
(* publishAndEvaluate *)

\* The insert decides who evaluates: the others return a duplicate.
RecordEvent(p, o) ==
    /\ call[p] = None
    /\ event' = event \union {o}
    /\ call' = IF o \in event THEN call ELSE [call EXCEPT ![p] = o]
    /\ UNCHANGED <<row, digests, escalations, task, clock, faults>>

Covers(u) == {i \in 1..Len(Rules) : u \in Rules[i].to}

\* Of several rules for one recipient and channel the first creates the row, the
\* others find it under its deduplication key.
Decision(u, t) ==
    LET first == CHOOSE i \in Covers(u) : \A j \in Covers(u) : i <= j
    IN  Decide(Rules[first], u, t)

Digested(t) == {u \in Users : Covers(u) # {} /\ Decision(u, t).reason = "DIGESTED"}

\* Mutant: the upsert's update names the newcomer as carrier, too.
JoinedAsCarrier(b, o) == [b EXCEPT !.carrier = o, !.items = @ \union {o}]

\* The upsert of attachDigest: the first delivery of the window is its carrier.
Joined(b, o) ==
    [b EXCEPT !.carrier = IF @ = None THEN o ELSE @, !.items = @ \union {o}]

NewRow(o, u, t) ==
    IF Covers(u) = {} THEN NoRow
    ELSE IF u \in Digested(t) /\ Joined(bucket[u][Day(t)], o).carrier # o
         THEN [Decision(u, t) EXCEPT !.status = "SKIPPED", !.reason = "DIGEST_ITEM"]
    ELSE Decision(u, t)

\* evaluateEvent and register are one transaction, which may have read the clock
\* just before it moved on.
EvaluateAt(p, t) ==
    LET o == call[p] IN
    /\ o # None
    /\ row' = [row EXCEPT ![o] = [u \in Users |-> NewRow(o, u, t)]]
    /\ bucket' = [u \in Users |->
           IF u \in Digested(t) THEN [bucket[u] EXCEPT ![Day(t)] = Joined(@, o)]
                                ELSE bucket[u]]
    /\ run' = [run EXCEPT ![o] = "PENDING"]
    /\ call' = [call EXCEPT ![p] = None]
    /\ UNCHANGED <<event, told, escalated, task, pass, clock, faults>>

Evaluate(p) == \E t \in {clock, clock - 1} \intersect Nat : EvaluateAt(p, t)

\* The evaluation throws and rolls back, or the caller dies before it.
PublicationFails(p) ==
    /\ call[p] # None
    /\ faults < MaxFaults
    /\ faults' = faults + 1
    /\ call' = [call EXCEPT ![p] = None]
    /\ UNCHANGED <<event, row, digests, escalations, task, clock>>

-----------------------------------------------------------------------------
(* The digest carrier in the queue *)

Carrier(u, d) == row[bucket[u][d].carrier][u]
Holds(u, d, status) == bucket[u][d].carrier # None /\ Carrier(u, d).status = status
SetCarrier(u, d, status) ==
    row' = [row EXCEPT ![bucket[u][d].carrier][u].status = status]

\* Mutant: the carrier's own template is rendered.
PrepareOwn(u, d) ==
    /\ \E status \in {"PENDING", "FAILED", "PROCESSING"} : Holds(u, d, status)
    /\ clock >= Carrier(u, d).due
    /\ SetCarrier(u, d, "PROCESSING")
    /\ bucket' = [bucket EXCEPT ![u][d].message = {bucket[u][d].carrier}]
    /\ UNCHANGED <<event, told, escalations, task, call, clock, faults>>

\* A due carrier is claimed, for the first time, for a retry or after its lease,
\* and the items of its bucket are rendered in the claim's transaction.
Prepare(u, d) ==
    /\ \E status \in {"PENDING", "FAILED", "PROCESSING"} : Holds(u, d, status)
    /\ clock >= Carrier(u, d).due
    /\ SetCarrier(u, d, "PROCESSING")
    /\ bucket' = [bucket EXCEPT ![u][d].message = bucket[u][d].items]
    /\ UNCHANGED <<event, told, escalations, task, call, clock, faults>>

SendDigest(u, d) ==
    /\ Holds(u, d, "PROCESSING")
    /\ told' = [told EXCEPT ![u] = @ \union bucket[u][d].message]
    /\ SetCarrier(u, d, "SENT")
    /\ UNCHANGED <<event, bucket, escalations, task, call, clock, faults>>

\* Without a destination the carrier is skipped; the send fails; or it succeeds and
\* noting so fails, in the row or, when that is SENT, in the bucket, or the replica
\* stops before it.
DigestFails(u, d) ==
    /\ Holds(u, d, "PROCESSING")
    /\ \/ \E status \in {"SKIPPED", "FAILED"} : SetCarrier(u, d, status) /\ UNCHANGED <<told, faults>>
       \/ /\ faults < MaxFaults
          /\ faults' = faults + 1
          /\ told' = [told EXCEPT ![u] = @ \union bucket[u][d].message]
          /\ \E status \in {"FAILED", "PROCESSING"} : SetCarrier(u, d, status)
    /\ UNCHANGED <<event, bucket, escalations, task, call, clock>>

-----------------------------------------------------------------------------
(* NotificationEscalationService.processOrganization *)

At(s, pc) == pass[s].pc = pc
Goto(s, pc) == pass' = [pass EXCEPT ![s].pc = pc]

\* On to one of the runs left of the batch (runs due at one time have no order).
Advance(s, left) ==
    pass' \in {[pass EXCEPT ![s] = q] :
                   q \in IF left = {} THEN {Asleep}
                         ELSE {[pc |-> "claim", on |-> o, rest |-> left \ {o}] : o \in left}}

Scan(s) ==
    LET due == {o \in Occurrences : run[o] = "PENDING"} IN
    /\ At(s, "idle")
    /\ due # {}
    /\ Advance(s, due)
    /\ UNCHANGED <<event, row, digests, run, escalated, task, call, clock, faults>>

\* Mutant: the claim does not ask for PENDING.
ClaimRunAnyStatus(s) ==
    LET o == pass[s].on IN
    /\ At(s, "claim")
    /\ run' = [run EXCEPT ![o] = "PROCESSING"]
    /\ Goto(s, "check")
    /\ UNCHANGED <<event, row, digests, escalated, task, call, clock, faults>>

ClaimRun(s) ==
    LET o == pass[s].on IN
    /\ At(s, "claim")
    /\ IF run[o] = "PENDING"
       THEN run' = [run EXCEPT ![o] = "PROCESSING"] /\ Goto(s, "check")
       ELSE UNCHANGED run /\ Advance(s, pass[s].rest)
    /\ UNCHANGED <<event, row, digests, escalated, task, call, clock, faults>>

\* Mutant: the task is not looked at.
CheckNothing(s) ==
    /\ At(s, "check")
    /\ Goto(s, "send")
    /\ UNCHANGED <<event, row, digests, run, escalated, task, call, clock, faults>>

\* isStillActionable: a transaction of its own.
Check(s) ==
    /\ At(s, "check")
    /\ Goto(s, IF task[pass[s].on] = "open" THEN "send" ELSE "cancel")
    /\ UNCHANGED <<event, row, digests, run, escalated, task, call, clock, faults>>

Finish(s, status) ==
    /\ run' = [run EXCEPT ![pass[s].on] = status]
    /\ Advance(s, pass[s].rest)

\* The event, its deliveries and the status are one transaction.
Escalate(s) ==
    /\ At(s, "send")
    /\ escalated' = escalated \union {pass[s].on}
    /\ Finish(s, "SENT")
    /\ UNCHANGED <<event, row, digests, task, call, clock, faults>>

\* Mutant: a resolved run is passed over without a word.
CancelRunSilently(s) ==
    /\ At(s, "cancel")
    /\ Advance(s, pass[s].rest)
    /\ UNCHANGED <<event, row, digests, run, escalated, task, call, clock, faults>>

CancelRun(s) ==
    /\ At(s, "cancel")
    /\ Finish(s, "CANCELLED_RESOLVED")
    /\ UNCHANGED <<event, row, digests, escalated, task, call, clock, faults>>

\* The catch block writes FAILED by id.
FailRun(s) ==
    /\ At(s, "fail")
    /\ Finish(s, "FAILED")
    /\ UNCHANGED <<event, row, digests, escalated, task, call, clock, faults>>

\* A transaction of the pass fails, the catch block's own included, or commits and
\* its caller never hears of it, or the replica restarts.
EscalationFails(s) ==
    /\ ~At(s, "idle")
    /\ faults < MaxFaults
    /\ faults' = faults + 1
    /\ \/ ~At(s, "fail") /\ Goto(s, "fail") /\ UNCHANGED <<run, escalated>>
       \/ pass' = [pass EXCEPT ![s] = Asleep] /\ UNCHANGED <<run, escalated>>
       \/ /\ At(s, "send")
          /\ escalated' = escalated \union {pass[s].on}
          /\ run' = [run EXCEPT ![pass[s].on] = "SENT"]
          /\ Goto(s, "fail")
    /\ UNCHANGED <<event, row, digests, task, call, clock>>

-----------------------------------------------------------------------------

\* The task is completed or cancelled, or its due date moves, and not back again.
CloseTask(o) ==
    /\ task[o] = "open"
    /\ task' = [task EXCEPT ![o] = "closed"]
    /\ UNCHANGED <<event, row, digests, escalations, call, clock, faults>>

TimePasses ==
    /\ clock < LastHalf
    /\ clock' = clock + 1
    /\ UNCHANGED <<event, row, digests, escalations, task, call, faults>>

ProcessRuns(s) ==
    Scan(s) \/ ClaimRun(s) \/ Check(s) \/ Escalate(s) \/ CancelRun(s) \/ FailRun(s)

Next ==
    \/ \E p \in Publishers : \/ \E o \in Occurrences : RecordEvent(p, o)
                             \/ Evaluate(p) \/ PublicationFails(p)
    \/ \E u \in Users, d \in Days : Prepare(u, d) \/ SendDigest(u, d) \/ DigestFails(u, d)
    \/ \E s \in Schedulers : ProcessRuns(s) \/ EscalationFails(s)
    \/ \E o \in Occurrences : CloseTask(o)
    \/ TimePasses

Spec == Init /\ [][Next]_vars

\* Awaited calls return and @Interval keeps scanning.
FairSpec ==
    /\ Spec
    /\ \A p \in Publishers : WF_vars(Evaluate(p))
    /\ \A s \in Schedulers : WF_vars(ProcessRuns(s))

-----------------------------------------------------------------------------
(* Properties *)

Evaluated(o) ==
    \A i \in 1..Len(Rules) : \A u \in Rules[i].to : row[o][u].status # "none"

\* However calls for one occurrence race, each recorded event gets the deliveries of
\* all its rules; only a failure between the two transactions can lose them, one
\* event each.
OneEventLostPerFault ==
    Cardinality({o \in event : ~Evaluated(o) /\ \A p \in Publishers : call[p] # o}) <= faults

\* A digest has one carrier and it is the only delivery of the window that is not
\* an item: no window is sent twice, and none waits for a delivery that will not go.
OneCarrier ==
    \A u \in Users, d \in Days :
        LET b == bucket[u][d] IN
        {o \in b.items : row[o][u].reason # "DIGEST_ITEM"} = {b.carrier} \ {None}

\* Events, deliveries, digests and runs are what their tables allow, and each digest
\* has one carrier.
PublicationInv == TypeOK /\ OneCarrier

\* A delivery made before its digest was due is in the digest once that is sent,
\* also when the digest was retried or written off at first.  (One made later, by a
\* rule that read the clock just before sendTime or had the whole evening, joins a
\* window that may be over.)
PunctualItemsTold ==
    \A u \in Users, d \in Days : Holds(u, d, "SENT") =>
        \A o \in bucket[u][d].items : row[o][u].at < Carrier(u, d).due => o \in told[u]

\* What a failure or the clock may cost is all that is lost.
LossesExplained == OneEventLostPerFault /\ PunctualItemsTold

\* Two schedulers never work on one escalation run.
RunsExclusive ==
    \A s, t \in Schedulers :
        /\ pass[s].pc \in {"check", "send", "cancel"}
        /\ pass[t].pc \in {"check", "send", "cancel"}
        /\ pass[s].on = pass[t].on
        => s = t

\* A run is SENT only if its escalation exists, and the reverse, and it is in
\* progress only while some scheduler works on it; a failure may leave a run in
\* progress or FAILED whose escalation exists, but never SENT without one.
RunsTruthful ==
    \A o \in Occurrences :
        /\ run[o] = "SENT" => o \in escalated
        /\ o \in escalated => run[o] = "SENT" \/ (run[o] = "FAILED" /\ faults > 0)
        /\ run[o] = "PROCESSING" =>
               faults > 0 \/ \E s \in Schedulers : pass[s].on = o /\ ~At(s, "claim")

\* What two schedulers make of the runs: a run is worked on by one of them at a time
\* and its status tells what became of its escalation.
RunsSound == RunsExclusive /\ RunsTruthful

\* A task closed before its run was claimed is not escalated any more ("re-check
\* task status and due date before creating delivery jobs",
\* docs/notification-phase14-operations.md:21).
ClosedNotEscalated ==
    \A o \in Occurrences :
        [](task[o] = "closed" /\ run[o] = "PENDING" => [](o \notin escalated))

\* Unless something fails, every registered run is escalated or cancelled.
RunsEnd ==
    \A o \in Occurrences :
        run[o] = "PENDING" ~> (run[o] \in {"SENT", "CANCELLED_RESOLVED"} \/ faults > 0)

=============================================================================
