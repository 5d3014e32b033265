---------------------------- MODULE QuotaLedger ----------------------------
(***************************************************************************)
(* The usage ledger of one organization and one metric (src/quota): the    *)
(* counter of each period, the reservations against it and the threshold   *)
(* marks.  QuotaService works in three steps that its callers spread over  *)
(* separate transactions: reserve before the business write, commit after  *)
(* it, release when it failed.                                             *)
(*                                                                         *)
(* reserve and commitReservations take the advisory lock of the metric, so *)
(* each is one step.  releaseReservation and the scheduler do not take it; *)
(* a release that lands inside a commit is overwritten by it, which is the *)
(* result of the two in the other order.  Every amount is one unit; the    *)
(* limit is enforced and does not change.                                  *)
(***************************************************************************)
EXTENDS Integers, FiniteSets

CONSTANTS
    Keys,         \* idempotency keys
    LastPeriod,   \* periods are numbered from 0 (resetPeriod NONE has only that)
    HardLimit,    \* effective hard limit
    NoValue       \* a row that does not exist

ASSUME LedgerAssumption ==
    /\ IsFiniteSet(Keys)
    /\ LastPeriod \in Nat
    /\ HardLimit \in Nat
    /\ NoValue \notin Nat

VARIABLES
    counter,      \* usage_counters.currentValue by period
    reservation,  \* usage_reservations by idempotency key
    marks         \* quota_threshold_events by period

ledger == <<counter, reservation, marks>>

Periods == 0..LastPeriod
QUOTA_THRESHOLDS == {80, 90}

Reservation == [status : {"none", "RESERVED", "COMMITTED", "RELEASED", "EXPIRED"},
                period : Periods,     \* of the counter it counts against
                overdue : BOOLEAN]    \* expiresAt has passed

LedgerType ==
    /\ counter \in [Periods -> Nat \union {NoValue}]
    /\ reservation \in [Keys -> Reservation]
    /\ marks \in [Periods -> SUBSET QUOTA_THRESHOLDS]

LedgerInit ==
    /\ counter = [p \in Periods |-> NoValue]
    /\ reservation = [k \in Keys |-> [status |-> "none", period |-> 0, overdue |-> FALSE]]
    /\ marks = [p \in Periods |-> {}]

-----------------------------------------------------------------------------

Reserved(k) == reservation[k].status = "RESERVED"
Overdue(k) == Reserved(k) /\ reservation[k].overdue

\* The keys with a given status against the counter of a period.
With(status, p, table) ==
    {k \in Keys : table[k].status = status /\ table[k].period = p}

Expired(ks) ==
    [k \in Keys |-> IF k \in ks THEN [reservation[k] EXCEPT !.status = "EXPIRED"]
                                ELSE reservation[k]]

\* Mutant: live holds take no room.
RoomIgnoringHolds(p, used, table) == HardLimit - used

\* What the limit leaves free of a period.
Room(p, used, table) == HardLimit - used - Cardinality(With("RESERVED", p, table))

Known(status) == status \in {"RESERVED", "COMMITTED"}

\* The overdue holds of a period.
Late(p) == {x \in Keys : Overdue(x) /\ reservation[x].period = p}

\* reserve: the counter is opened at the baseline, overdue holds against it
\* expire, a key that is held or counted is granted as it is, and a new hold
\* needs room. The call took its now before it waited for the lock, so some of
\* the holds that are overdue by then may still pass for live.
Reserve(k, p, baseline, late, outcome) ==
    LET table == Expired(late)
        used == IF counter[p] = NoValue THEN baseline ELSE counter[p]
        known == Known(table[k].status)
        fits == Room(p, used, table) >= 1
    IN  /\ outcome = IF known THEN "ALREADY_RESERVED"
                     ELSE IF fits THEN "RESERVED" ELSE "EXCEEDED"
        /\ counter' = [counter EXCEPT ![p] = used]
        /\ reservation' = IF known \/ ~fits THEN table
                          ELSE [table EXCEPT ![k] =
                              [status |-> "RESERVED", period |-> p, overdue |-> FALSE]]
        /\ UNCHANGED marks

Outcomes == {"RESERVED", "ALREADY_RESERVED", "EXCEEDED"}

Reached(value) ==
    {t \in QUOTA_THRESHOLDS : HardLimit > 0 /\ value * 100 >= HardLimit * t}

\* Mutants: the status of the reservation is not looked at; the thresholds are
\* judged by the value before the update; the unit is not added.
CommitAnyStatus(k) ==
    LET p == reservation[k].period IN
    /\ counter' = [counter EXCEPT ![p] = @ + 1]
    /\ reservation' = [reservation EXCEPT ![k].status = "COMMITTED"]
    /\ marks' = [marks EXCEPT ![p] = @ \union Reached(counter[p] + 1)]

CommitMarkingBefore(k) ==
    IF Reserved(k)
    THEN LET p == reservation[k].period IN
         /\ counter' = [counter EXCEPT ![p] = @ + 1]
         /\ reservation' = [reservation EXCEPT ![k].status = "COMMITTED"]
         /\ marks' = [marks EXCEPT ![p] = @ \union Reached(counter[p])]
    ELSE UNCHANGED ledger

\* commitReservations: only a live hold is counted; anything else is a no-op the
\* callers do not look at.
Commit(k) ==
    IF Reserved(k)
    THEN LET p == reservation[k].period IN
         /\ counter' = [counter EXCEPT ![p] = @ + 1]
         /\ reservation' = [reservation EXCEPT ![k].status = "COMMITTED"]
         /\ marks' = [marks EXCEPT ![p] = @ \union Reached(counter[p] + 1)]
    ELSE UNCHANGED ledger

Release(k) ==
    /\ reservation' = IF Reserved(k)
                      THEN [reservation EXCEPT ![k].status = "RELEASED"] ELSE reservation
    /\ UNCHANGED <<counter, marks>>

\* Mutant: the scheduler never expires anything.
ExpireNothing == UNCHANGED ledger

\* The first statement of finalizeClosedPeriods, over every period.
ExpireOverdue ==
    /\ reservation' = Expired({k \in Keys : Overdue(k)})
    /\ UNCHANGED <<counter, marks>>

\* QUOTA_RESERVATION_TTL_MS passes.
TimeOut(k) ==
    /\ Reserved(k) /\ ~reservation[k].overdue
    /\ reservation' = [reservation EXCEPT ![k].overdue = TRUE]
    /\ UNCHANGED <<counter, marks>>

-----------------------------------------------------------------------------
(* Properties *)

\* Usage and holds together stay within the hard limit in every period, however
\* requests, repeats, expiries and period changes interleave ("admits only when
\* committed usage plus live reservations plus the requested positive amount does
\* not exceed it", docs/quota-usage-metering-fix-000093.md:9).
LimitHeld ==
    \A p \in Periods : counter[p] # NoValue =>
        counter[p] + Cardinality(With("RESERVED", p, reservation)) <= HardLimit

\* The counter is the number of keys committed in the period: no repeat, late
\* commit or revived reservation counts a key twice.
CountedOnce ==
    \A p \in Periods : counter[p] # NoValue =>
        counter[p] = Cardinality(With("COMMITTED", p, reservation))

\* The marks of a period are the thresholds its counter is at or above, the one
\* it has just reached included.
ThresholdsMarked ==
    \A p \in Periods : counter[p] # NoValue =>
        marks[p] = {t \in QUOTA_THRESHOLDS : HardLimit > 0 /\ counter[p] * 100 >= HardLimit * t}

=============================================================================
