---------------------------- MODULE QuotaEvents ----------------------------
(***************************************************************************)
(* Metered events (QuotaService.consumeEvent): a request holds one unit    *)
(* under its idempotency key, records the usage event once, and counts it, *)
(* in three transactions.  Requests may carry the same key: a client or a  *)
(* proxy that repeats a request repeats its request id.                    *)
(*                                                                         *)
(* Periods close while requests are under way; the hourly job of every API *)
(* replica (QuotaSchedulerService) expires overdue reservations and writes *)
(* one snapshot per closed period.                                         *)
(***************************************************************************)
EXTENDS QuotaLedger

CONSTANTS
    Requests,     \* requests under way at a time
    Schedulers,   \* API replicas running the hourly job
    MaxFaults,    \* bound on requests and jobs that die
    MaxDelays     \* bound on requests slower than the reservation's lifetime

ASSUME EventsAssumption == MaxFaults \in Nat /\ MaxDelays \in Nat

VARIABLES
    period,       \* the current period
    usage,        \* usage_events: the period recorded for each key
    snapshot,     \* usage_snapshots.finalUsage by period
    request,      \* the consumeEvent call of each request
    job,          \* the pass of each scheduler: counters read and not yet written
    faults, delays

vars == <<counter, reservation, marks, period, usage, snapshot, request, job,
          faults, delays>>

Values == Nat \union {NoValue}

Call == [pc : {"idle", "reserve", "record", "commit", "release"},
         key : Keys \union {NoValue},
         period : Periods,      \* from the now the call started with
         fresh : BOOLEAN]       \* reserve answered RESERVED

Idle == [pc |-> "idle", key |-> NoValue, period |-> 0, fresh |-> FALSE]
NoValues == [p \in Periods |-> NoValue]

TypeOK ==
    /\ LedgerType
    /\ period \in Periods
    /\ usage \in [Keys -> Periods \union {NoValue}]
    /\ snapshot \in [Periods -> Values]
    /\ request \in [Requests -> Call]
    /\ job \in [Schedulers -> [pc : {"idle", "read", "write"}, found : [Periods -> Values]]]
    /\ faults \in 0..MaxFaults
    /\ delays \in 0..MaxDelays

Init ==
    /\ LedgerInit
    /\ period = 0
    /\ usage = [k \in Keys |-> NoValue]
    /\ snapshot = NoValues
    /\ request = [r \in Requests |-> Idle]
    /\ job = [s \in Schedulers |-> [pc |-> "idle", found |-> NoValues]]
    /\ faults = 0
    /\ delays = 0

At(r, pc) == request[r].pc = pc
Goto(r, pc) == request' = [request EXCEPT ![r].pc = pc]
Done(r) == request' = [request EXCEPT ![r] = Idle]

-----------------------------------------------------------------------------
(* consumeEvent *)

Begin(r, k) ==
    /\ At(r, "idle")
    /\ request' = [request EXCEPT ![r] =
           [pc |-> "reserve", key |-> k, period |-> period, fresh |-> FALSE]]
    /\ UNCHANGED <<counter, reservation, marks, period, usage, snapshot, job, faults, delays>>

\* An event metric has no inventory to open its counter with.
ReserveEvent(r) ==
    /\ At(r, "reserve")
    /\ \E outcome \in Outcomes, late \in SUBSET Late(request[r].period) :
        /\ Reserve(request[r].key, request[r].period, 0, late, outcome)
        /\ IF outcome = "EXCEEDED" THEN Done(r)
           ELSE request' = [request EXCEPT ![r].pc = "record",
                                           ![r].fresh = (outcome = "RESERVED")]
    /\ UNCHANGED <<period, usage, snapshot, job, faults, delays>>

\* Mutant: an insert that failed is counted all the same.
RecordEventUnchecked(r) ==
    /\ At(r, "record")
    /\ usage' \in {usage, [usage EXCEPT ![request[r].key] = request[r].period]}
    /\ Goto(r, "commit")
    /\ UNCHANGED <<counter, reservation, marks, period, snapshot, job, faults, delays>>

\* createMany with skipDuplicates: who inserts the row goes on to count it, the
\* others give back a hold of their own.
RecordEvent(r) ==
    LET k == request[r].key IN
    /\ At(r, "record")
    /\ IF usage[k] = NoValue
       THEN /\ usage' = [usage EXCEPT ![k] = request[r].period]
            /\ Goto(r, "commit")
       ELSE /\ UNCHANGED usage
            /\ IF request[r].fresh THEN Goto(r, "release") ELSE Done(r)
    /\ UNCHANGED <<counter, reservation, marks, period, snapshot, job, faults, delays>>

CommitEvent(r) ==
    /\ At(r, "commit")
    /\ Commit(request[r].key)
    /\ Done(r)
    /\ UNCHANGED <<period, usage, snapshot, job, faults, delays>>

ReleaseEvent(r) ==
    /\ At(r, "release")
    /\ Release(request[r].key)
    /\ Done(r)
    /\ UNCHANGED <<period, usage, snapshot, job, faults, delays>>

-----------------------------------------------------------------------------
(* finalizeClosedPeriods *)

ExpireStale(s) ==
    /\ job[s].pc = "idle"
    /\ ExpireOverdue
    /\ job' = [job EXCEPT ![s].pc = "read"]
    /\ UNCHANGED <<period, usage, snapshot, request, faults, delays>>

Closed == {p \in Periods : p < period /\ counter[p] # NoValue /\ snapshot[p] = NoValue}

\* Mutant: live reservations are taken for usage.
ReadClosedWithHolds(s) ==
    /\ job[s].pc = "read"
    /\ job' = [job EXCEPT ![s] =
           [pc |-> "write",
            found |-> [p \in Periods |-> IF p \in Closed
                THEN counter[p] + Cardinality(With("RESERVED", p, reservation))
                ELSE NoValue]]]
    /\ UNCHANGED <<counter, reservation, marks, period, usage, snapshot, request,
                   faults, delays>>

ReadClosed(s) ==
    /\ job[s].pc = "read"
    /\ job' = [job EXCEPT ![s] =
           [pc |-> "write",
            found |-> [p \in Periods |-> IF p \in Closed THEN counter[p] ELSE NoValue]]]
    /\ UNCHANGED <<counter, reservation, marks, period, usage, snapshot, request,
                   faults, delays>>

\* One insert per counter, skipped when another replica was first.
WriteSnapshot(s) ==
    /\ job[s].pc = "write"
    /\ \/ \E p \in Periods :
           /\ job[s].found[p] # NoValue
           /\ snapshot' = IF snapshot[p] = NoValue
                          THEN [snapshot EXCEPT ![p] = job[s].found[p]] ELSE snapshot
           /\ job' = [job EXCEPT ![s].found[p] = NoValue]
       \/ /\ job[s].found = NoValues
          /\ job' = [job EXCEPT ![s].pc = "idle"]
          /\ UNCHANGED snapshot
    /\ UNCHANGED <<counter, reservation, marks, period, usage, request, faults, delays>>

-----------------------------------------------------------------------------
(* Failures and time *)

\* A request dies or one of its calls throws; so does a pass of the job.
Fail ==
    /\ faults < MaxFaults
    /\ faults' = faults + 1
    /\ \/ \E r \in Requests : ~At(r, "idle") /\ Done(r) /\ UNCHANGED job
       \/ \E s \in Schedulers :
           /\ job[s].pc # "idle"
           /\ job' = [job EXCEPT ![s] = [pc |-> "idle", found |-> NoValues]]
           /\ UNCHANGED request
    /\ UNCHANGED <<counter, reservation, marks, period, usage, snapshot, delays>>

InUse(k) == \E r \in Requests : ~At(r, "idle") /\ request[r].key = k

ReservationTimesOut(k) ==
    /\ TimeOut(k)
    /\ InUse(k) => delays < MaxDelays
    /\ delays' = IF InUse(k) THEN delays + 1 ELSE delays
    /\ UNCHANGED <<period, usage, snapshot, request, job, faults>>

NextPeriod ==
    /\ period < LastPeriod
    /\ period' = period + 1
    /\ UNCHANGED <<counter, reservation, marks, usage, snapshot, request, job, faults, delays>>

-----------------------------------------------------------------------------

Consume(r) == ReserveEvent(r) \/ RecordEvent(r) \/ CommitEvent(r) \/ ReleaseEvent(r)
Finalize(s) == ExpireStale(s) \/ ReadClosed(s) \/ WriteSnapshot(s)

Next ==
    \/ \E r \in Requests : Consume(r) \/ \E k \in Keys : Begin(r, k)
    \/ \E s \in Schedulers : Finalize(s)
    \/ \E k \in Keys : ReservationTimesOut(k)
    \/ Fail
    \/ NextPeriod

Spec == Init /\ [][Next]_vars

\* @Cron keeps firing, awaited calls return, clocks advance.
FairSpec ==
    /\ Spec
    /\ \A r \in Requests : WF_vars(Consume(r))
    /\ \A s \in Schedulers : WF_vars(Finalize(s))
    /\ \A k \in Keys : WF_vars(ReservationTimesOut(k))

-----------------------------------------------------------------------------
(* Properties *)

\* What is counted was recorded as an event.
CountedWasRecorded ==
    \A k \in Keys : reservation[k].status = "COMMITTED" => usage[k] # NoValue

\* A snapshot never reports more than was used.
SnapshotNotAbove ==
    \A p \in Periods : snapshot[p] # NoValue => snapshot[p] <= counter[p]

\* The books of the metering: the limit holds, the counter is the number of committed
\* keys, what is counted was recorded, and the marks of the thresholds and the
\* snapshots of closed periods agree with the counter.
MeteringInv ==
    /\ TypeOK
    /\ LimitHeld
    /\ CountedOnce
    /\ CountedWasRecorded
    /\ ThresholdsMarked
    /\ SnapshotNotAbove

\* A committed key stays committed, against the counter it was counted in.
CommitFinal ==
    [][\A k \in Keys : reservation[k].status = "COMMITTED" =>
           /\ reservation'[k].status = "COMMITTED"
           /\ reservation'[k].period = reservation[k].period]_vars

\* A hold whose key is no longer asked for ends: counted, released or expired,
\* also when the request that took it died.
HoldsEnd == \A k \in Keys : <>[]~InUse(k) => <>[]~Reserved(k)

=============================================================================
