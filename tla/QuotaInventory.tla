--------------------------- MODULE QuotaInventory ---------------------------
(***************************************************************************)
(* An inventory metric of the ledger: OPPORTUNITIES, whose usage is the    *)
(* number of opportunities not archived. OpportunitiesService reserves     *)
(* before it creates or restores one, commits after the write and releases *)
(* when the write failed; archiving writes and then sets the counter to    *)
(* the count (synchronizeInventory). Each of these is a transaction of its *)
(* own, and the guards of archive and restore are read before them all.    *)
(* An operator may run the reconciliation at any time.                     *)
(*                                                                         *)
(* A plan may give the metric periods (PlanQuota.resetPeriod is MONTHLY by *)
(* default): each period's counter opens at the count of that moment.      *)
(* Companies are not archived meanwhile. Users and their activation follow *)
(* the same steps.                                                         *)
(***************************************************************************)
EXTENDS QuotaLedger

CONSTANTS
    Opportunities,
    Requests,      \* requests under way at a time
    Operations,    \* those that are called, of create, restore and archive
    MaxFaults,     \* bound on requests that die before their last step
    MaxDelays,     \* bound on requests slower than the reservation's lifetime
    MaxRegrants,   \* bound on calls granted the reservation of an earlier call
    MaxReconciles, \* bound on runs of the reconciliation
    MaxDisturbances\* bound on all four together

ASSUME InventoryAssumption ==
    /\ Keys = {"create", "restore"} \X Opportunities
    /\ IsFiniteSet(Opportunities)
    /\ IsFiniteSet(Requests) /\ Requests # {}
    /\ Operations \subseteq {"create", "restore", "archive"}
    /\ {MaxFaults, MaxDelays, MaxRegrants, MaxReconciles, MaxDisturbances} \subseteq Nat

VARIABLES
    period,        \* the current period
    opportunity,   \* none, active or archived (archivedAt)
    request,       \* the call of each request
    reconciliation,\* its pc, its period and the count it read
    faults, delays, regrants, reconciles

vars == <<counter, reservation, marks, period, opportunity, request, reconciliation,
          faults, delays, regrants, reconciles>>

Call == [pc : {"idle", "reserve", "write", "commit", "release", "synchronize"},
         operation : {"create", "restore", "archive"},
         on : Opportunities \union {NoValue},
         period : Periods]

Idle == [pc |-> "idle", operation |-> "create", on |-> NoValue, period |-> 0]
Asleep == [pc |-> "idle", count |-> 0, period |-> 0]

TypeOK ==
    /\ LedgerType
    /\ period \in Periods
    /\ opportunity \in [Opportunities -> {"none", "active", "archived"}]
    /\ request \in [Requests -> Call]
    /\ reconciliation \in [pc : {"idle", "compare", "write"}, count : Nat,
                          period : Periods]
    /\ faults \in 0..MaxFaults
    /\ delays \in 0..MaxDelays
    /\ regrants \in 0..MaxRegrants
    /\ reconciles \in 0..MaxReconciles

Active == {o \in Opportunities : opportunity[o] = "active"}

\* The authoritative count.
Count == Cardinality(Active)

\* Metering starts on an organization that has opportunities already.
Init ==
    /\ LedgerInit
    /\ period = 0
    /\ opportunity \in [Opportunities -> {"none", "active", "archived"}]
    /\ Count <= HardLimit
    /\ request = [r \in Requests |-> Idle]
    /\ reconciliation = Asleep
    /\ faults = 0 /\ delays = 0 /\ regrants = 0 /\ reconciles = 0

At(r, pc) == request[r].pc = pc
Goto(r, pc) == request' = [request EXCEPT ![r].pc = pc]
Done(r) == request' = [request EXCEPT ![r] = Idle]

\* The idempotency key; a created opportunity has a key of its own.
Key(r) == <<request[r].operation, request[r].on>>

InUse(k) == \E r \in Requests : ~At(r, "idle") /\ Key(r) = k

\* One more of a kind is still within the bounds.
Allowed(n, max) == n < max /\ faults + delays + regrants + reconciles < MaxDisturbances

-----------------------------------------------------------------------------
(* create, restore and archive *)

Begin(r, operation, o) ==
    /\ At(r, "idle")
    /\ \/ /\ operation = "create"
          /\ opportunity[o] = "none"
          /\ reservation[<<"create", o>>].status = "none"
          /\ ~InUse(<<"create", o>>)
       \/ operation = "restore" /\ opportunity[o] = "archived"
       \/ operation = "archive" /\ opportunity[o] = "active"
    /\ request' = [request EXCEPT ![r] =
           [pc |-> IF operation = "archive" THEN "write" ELSE "reserve",
            operation |-> operation, on |-> o, period |-> period]]
    /\ UNCHANGED <<counter, reservation, marks, period, opportunity, reconciliation,
                   faults, delays, regrants, reconciles>>

ReserveRoom(r) ==
    /\ At(r, "reserve")
    /\ \E outcome \in Outcomes, late \in SUBSET Late(request[r].period) :
        /\ Reserve(Key(r), request[r].period, Count, late, outcome)
        /\ IF outcome = "EXCEEDED" THEN Done(r) ELSE Goto(r, "write")
        /\ outcome = "ALREADY_RESERVED" => Allowed(regrants, MaxRegrants)
        /\ regrants' = IF outcome = "ALREADY_RESERVED" THEN regrants + 1 ELSE regrants
    /\ UNCHANGED <<period, opportunity, reconciliation, faults, delays, reconciles>>

\* The write is by id, whatever the opportunity is by now.
Write(r) ==
    /\ At(r, "write")
    /\ IF request[r].operation = "archive"
       THEN /\ opportunity' = [opportunity EXCEPT ![request[r].on] = "archived"]
            /\ Goto(r, "synchronize")
       ELSE /\ opportunity' = [opportunity EXCEPT ![request[r].on] = "active"]
            /\ Goto(r, "commit")
    /\ UNCHANGED <<counter, reservation, marks, period, reconciliation, faults, delays,
                   regrants, reconciles>>

\* The write throws: an archive ends there, the others give the hold back.
WriteFails(r) ==
    /\ At(r, "write")
    /\ Allowed(faults, MaxFaults)
    /\ faults' = faults + 1
    /\ IF request[r].operation = "archive" THEN Done(r) ELSE Goto(r, "release")
    /\ UNCHANGED <<counter, reservation, marks, period, opportunity, reconciliation, delays,
                   regrants, reconciles>>

CommitRoom(r) ==
    /\ At(r, "commit")
    /\ Commit(Key(r))
    /\ Done(r)
    /\ UNCHANGED <<period, opportunity, reconciliation, faults, delays, regrants, reconciles>>

ReleaseRoom(r) ==
    /\ At(r, "release")
    /\ Release(Key(r))
    /\ Done(r)
    /\ UNCHANGED <<period, opportunity, reconciliation, faults, delays, regrants, reconciles>>

\* synchronizeInventory counts under the lock of the metric, which the writes
\* it counts do not take.
Synchronize(r) ==
    /\ At(r, "synchronize")
    /\ counter' = [counter EXCEPT ![period] = Count]
    /\ Done(r)
    /\ UNCHANGED <<reservation, marks, period, opportunity, reconciliation, faults, delays,
                   regrants, reconciles>>

-----------------------------------------------------------------------------
(* The reconciliation: count, compare, and write under the lock what was counted
   before it. *)

ReconcileCount ==
    /\ reconciliation.pc = "idle"
    /\ Allowed(reconciles, MaxReconciles)
    /\ reconciles' = reconciles + 1
    /\ reconciliation' = [pc |-> "compare", count |-> Count, period |-> period]
    /\ UNCHANGED <<counter, reservation, marks, period, opportunity, request, faults, delays, regrants>>

ReconcileCompare ==
    /\ reconciliation.pc = "compare"
    /\ reconciliation' = IF counter[reconciliation.period] = reconciliation.count
                         THEN Asleep
                         ELSE [reconciliation EXCEPT !.pc = "write"]
    /\ UNCHANGED <<counter, reservation, marks, period, opportunity, request, faults, delays,
                   regrants, reconciles>>

ReconcileWrite ==
    /\ reconciliation.pc = "write"
    /\ counter' = [counter EXCEPT ![reconciliation.period] = reconciliation.count]
    /\ reconciliation' = Asleep
    /\ UNCHANGED <<reservation, marks, period, opportunity, request, faults, delays, regrants, reconciles>>

-----------------------------------------------------------------------------
(* Failures and time *)

Crash(r) ==
    /\ ~At(r, "idle")
    /\ Allowed(faults, MaxFaults)
    /\ faults' = faults + 1
    /\ Done(r)
    /\ UNCHANGED <<counter, reservation, marks, period, opportunity, reconciliation, delays,
                   regrants, reconciles>>

ReservationTimesOut(k) ==
    /\ TimeOut(k)
    /\ InUse(k) => Allowed(delays, MaxDelays)
    /\ delays' = IF InUse(k) THEN delays + 1 ELSE delays
    /\ UNCHANGED <<period, opportunity, request, reconciliation, faults, regrants, reconciles>>

\* The hourly job; its snapshots are in QuotaEvents.
Expire ==
    /\ \E k \in Keys : Overdue(k)
    /\ ExpireOverdue
    /\ UNCHANGED <<period, opportunity, request, reconciliation, faults, delays, regrants, reconciles>>

NextPeriod ==
    /\ period < LastPeriod
    /\ period' = period + 1
    /\ UNCHANGED <<counter, reservation, marks, opportunity, request, reconciliation,
                   faults, delays, regrants, reconciles>>

-----------------------------------------------------------------------------

Serve(r) ==
    \/ ReserveRoom(r) \/ Write(r) \/ WriteFails(r) \/ CommitRoom(r)
    \/ ReleaseRoom(r) \/ Synchronize(r) \/ Crash(r)

Next ==
    \/ \E r \in Requests :
        Serve(r) \/ \E operation \in Operations, o \in Opportunities : Begin(r, operation, o)
    \/ ReconcileCount \/ ReconcileCompare \/ ReconcileWrite
    \/ \E k \in Keys : ReservationTimesOut(k)
    \/ Expire
    \/ NextPeriod

Spec == Init /\ [][Next]_vars

-----------------------------------------------------------------------------
(* Properties *)

Undisturbed == faults = 0 /\ delays = 0 /\ regrants = 0

\* Requests a change of period may find holding room of the closing one, which the
\* new counter does not see; the request that opens it is not among them.
Carried == period * (Cardinality(Requests) - 1)

\* Each unit over the hard limit has a failure, an overrun hold, a reused reservation
\* or a request carried into a new period behind it; nothing else oversells.
OvershootExplained ==
    reconciles = 0 => Count <= HardLimit + faults + delays + regrants + Carried

\* Before any reconciliation, what is active is counted or held, but for requests
\* carried into a new period: concurrency may count twice, never too low.
NeverUndercounted ==
    Undisturbed /\ reconciles = 0 /\ counter[period] # NoValue =>
        counter[period] + Cardinality(With("RESERVED", period, reservation)) + Carried >= Count

\* The ledger and the opportunities are what their tables allow, nothing is oversold
\* without a reason, and nothing undercounted.
InventoryInv == TypeOK /\ OvershootExplained /\ NeverUndercounted
=============================================================================
