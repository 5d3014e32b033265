------------------------- MODULE NotificationOutbox -------------------------
(***************************************************************************)
(* What the notification queue promises about a delivery, without replicas,*)
(* claims, leases, retries or transactions: messages are handed over only  *)
(* while the delivery is open, and again only when mishaps account for the *)
(* copies made before; it is reported given only after a message was handed*)
(* over; a report is taken back only after a mishap, and only a failed     *)
(* delivery is opened again.                                               *)
(***************************************************************************)
EXTENDS Naturals, FiniteSets

CONSTANT Deliveries

VARIABLES
    outcome,
    copies,     \* messages handed over
    mishaps     \* crashes, failed database calls and lost answers so far

vars == <<outcome, copies, mishaps>>

\* Some deliveries are skipped from the start, as items of a digest.
Init ==
    /\ outcome \in [Deliveries -> {"open", "skipped"}]
    /\ copies = [d \in Deliveries |-> {}]
    /\ mishaps = 0

\* Each copy so far can be put down to a mishap of its own.
Excused(d) == Cardinality(copies[d]) <= mishaps

\* One more message goes to the provider.
Hand(d) ==
    /\ outcome[d] = "open" /\ Excused(d)
    /\ \E n \in copies'[d] \ copies[d] :
           copies' = [copies EXCEPT ![d] = @ \union {n}]

Settle(d, result) ==
    /\ outcome[d] = "open"
    /\ outcome' = [outcome EXCEPT ![d] = result]

HandOver(d) == Hand(d) /\ UNCHANGED outcome
Give(d) == Hand(d) /\ Settle(d, "given")              \* the inbox: both at once
Confirm(d) == copies[d] # {} /\ Settle(d, "given") /\ UNCHANGED copies
Drop(d) == \E r \in {"skipped", "failed"} : Settle(d, r) /\ UNCHANGED copies

\* A delivery that was given is reported failed after all.
TakeBack(d) ==
    /\ outcome[d] = "given" /\ Excused(d)
    /\ outcome' = [outcome EXCEPT ![d] = "failed"]
    /\ UNCHANGED copies

Reopen(d) ==
    /\ outcome[d] = "failed"
    /\ outcome' = [outcome EXCEPT ![d] = "open"]
    /\ UNCHANGED copies

Next ==
    /\ \/ \E d \in Deliveries : HandOver(d) \/ Give(d) \/ Confirm(d) \/ Drop(d)
                                  \/ TakeBack(d) \/ Reopen(d)
       \/ UNCHANGED <<outcome, copies>>
    /\ mishaps' \in {mishaps, mishaps + 1}

Spec == Init /\ [][Next]_vars

=============================================================================
