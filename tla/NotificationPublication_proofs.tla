------------------- MODULE NotificationPublication_proofs -------------------
(***************************************************************************)
(* Safety of publication, digests and escalations for any number of        *)
(* events, recipients, callers and schedulers, any rules and quiet hours,  *)
(* and any number of failures.                                             *)
(***************************************************************************)
EXTENDS NotificationPublication, FiniteSetTheorems, TLAPS

(***************************************************************************)
(* Every variable keeps its type.                                          *)
(***************************************************************************)
LEMMA DayType == ASSUME NEW t \in Nat, t <= LastHalf PROVE Day(t) \in Days
  BY PublicationAssumption DEF Day, Days

LEMMA DecideType ==
  ASSUME TypeOK, NEW rule, NEW u, NEW t \in Nat
  PROVE  Decide(rule, u, t) \in Row
  <1> DEFINE quieted == Quiet(t) /\ ~(rule.critical /\ AllowCritical)
             due == IF quieted THEN ResumeAt(t) ELSE t
  <1>1. clock \in 0..LastHalf /\ clock \in Nat
    BY PublicationAssumption DEF TypeOK
  <1>2. due \in Nat
    BY DEF ResumeAt
  <1>3. SendTime(t) \in Nat
    BY DEF SendTime
  <1>4. Later(SendTime(t), due) \in Nat
    BY <1>2, <1>3 DEF Later
  <1>5. \A n \in Nat : /\ Waiting("DIGESTED", n) \in Row
                       /\ Waiting("DEFERRED", n) \in Row
                       /\ Waiting("DIRECT", n) \in Row
    BY <1>1 DEF Waiting, Row
  <1>6. /\ Suppressed("SUPPRESSED_PREFERENCE") \in Row
        /\ Suppressed("SUPPRESSED_QUIET_HOURS") \in Row
    BY <1>1 DEF Suppressed, Row
  <1> HIDE DEF quieted, due
  <1>7. Decide(rule, u, t) \in
            {Suppressed("SUPPRESSED_PREFERENCE"), Suppressed("SUPPRESSED_QUIET_HOURS"),
             Waiting("DIGESTED", Later(SendTime(t), due)),
             Waiting("DEFERRED", due), Waiting("DIRECT", due)}
    BY Zenon DEF Decide, quieted, due
  <1>8. QED
    BY <1>2, <1>4, <1>5, <1>6, <1>7

LEMMA NewRowType ==
  ASSUME TypeOK, NEW o, NEW u, NEW t \in Nat
  PROVE  NewRow(o, u, t) \in Row
  <1>1. Decision(u, t) \in Row
    BY DecideType DEF Decision
  <1>2. [Decision(u, t) EXCEPT !.status = "SKIPPED", !.reason = "DIGEST_ITEM"] \in Row
    BY <1>1 DEF Row
  <1>3. NoRow \in Row
    BY PublicationAssumption DEF NoRow, Row
  <1>4. QED
    BY <1>1, <1>2, <1>3 DEF NewRow

LEMMA JoinedType ==
  ASSUME NEW b \in Bucket, NEW o \in Occurrences
  PROVE  Joined(b, o) \in Bucket
  <1>1. (IF b.carrier = None THEN o ELSE b.carrier) \in Occurrences \union {None}
    BY DEF Bucket
  <1>2. b.items \union {o} \in SUBSET Occurrences
    BY DEF Bucket
  <1>3. QED
    BY <1>1, <1>2 DEF Joined, Bucket

\* What a dispatch of a carrier writes.
LEMMA CarrierStep ==
  ASSUME TypeOK, NEW u \in Users, NEW d \in Days, bucket[u][d].carrier # None,
         NEW status \in {"PENDING", "PROCESSING", "SENT", "FAILED", "SKIPPED"},
         SetCarrier(u, d, status)
  PROVE  /\ bucket[u][d].carrier \in Occurrences
         /\ row' \in [Occurrences -> [Users -> Row]]
         /\ \A o \in Occurrences, v \in Users : row'[o][v].reason = row[o][v].reason
  <1> DEFINE c == bucket[u][d].carrier
  <1>1. bucket[u][d] \in Bucket
    BY DEF TypeOK
  <1>2. c \in Occurrences
    BY <1>1 DEF Bucket
  <1>3. /\ row \in [Occurrences -> [Users -> Row]]
        /\ row' = [row EXCEPT ![c] = [row[c] EXCEPT ![u] = [row[c][u] EXCEPT !.status = status]]]
    BY DEF TypeOK, SetCarrier
  <1> HIDE DEF c
  <1>4. row[c][u] \in Row
    BY <1>2, <1>3
  <1>5. [row[c][u] EXCEPT !.status = status] \in Row
    BY <1>4 DEF Row
  <1>6. [row[c][u] EXCEPT !.status = status].reason = row[c][u].reason
    BY <1>4 DEF Row
  <1>7. row' \in [Occurrences -> [Users -> Row]]
    BY <1>2, <1>3, <1>5
  <1>8. \A o \in Occurrences, v \in Users :
            row'[o][v] = IF o = c /\ v = u THEN [row[c][u] EXCEPT !.status = status]
                                           ELSE row[o][v]
    BY <1>2, <1>3
  <1>9. QED
    BY <1>2, <1>6, <1>7, <1>8 DEF c

Pass == [pc : {"idle", "claim", "check", "send", "cancel", "fail"},
         on : Occurrences \union {None}, rest : SUBSET Occurrences]

LEMMA AsleepType == Asleep \in Pass /\ Asleep.pc = "idle"
  BY DEF Asleep, Pass

\* What Advance and Goto do to a scheduler.
LEMMA AdvanceStep ==
  ASSUME pass \in [Schedulers -> Pass], NEW s \in Schedulers, NEW left \in SUBSET Occurrences,
         Advance(s, left)
  PROVE  \E q \in Pass : /\ pass' = [pass EXCEPT ![s] = q]
                         /\ q.pc \in {"idle", "claim"}
                         /\ q.pc # "idle" => q.on \in left
                         /\ q.rest \subseteq left
  <1>1. PICK q \in (IF left = {} THEN {Asleep}
                    ELSE {[pc |-> "claim", on |-> o, rest |-> left \ {o}] : o \in left}) :
            pass' = [pass EXCEPT ![s] = q]
    BY DEF Advance
  <1>2. CASE left = {}
    <2>1. q = Asleep
      BY <1>1, <1>2
    <2>2. QED
      BY <1>1, <2>1, AsleepType DEF Asleep
  <1>3. CASE left # {}
    <2>1. PICK o \in left : q = [pc |-> "claim", on |-> o, rest |-> left \ {o}]
      BY <1>1, <1>3
    <2>2. q \in Pass /\ q.pc = "claim" /\ q.on = o /\ q.rest = left \ {o}
      BY <2>1 DEF Pass
    <2>3. QED
      BY <1>1, <2>2
  <1>4. QED
    BY <1>2, <1>3

LEMMA GotoStep ==
  ASSUME pass \in [Schedulers -> Pass], NEW s \in Schedulers,
         NEW pc \in {"check", "send", "cancel", "fail"}, Goto(s, pc)
  PROVE  \E q \in Pass : /\ pass' = [pass EXCEPT ![s] = q]
                         /\ q.pc = pc /\ q.on = pass[s].on /\ q.rest = pass[s].rest
  <1>1. pass[s] \in Pass
    OBVIOUS
  <1>2. pass' = [pass EXCEPT ![s] = [pass[s] EXCEPT !.pc = pc]]
    BY DEF Goto
  <1> DEFINE q == [pass[s] EXCEPT !.pc = pc]
  <1>3. q \in Pass /\ q.pc = pc /\ q.on = pass[s].on /\ q.rest = pass[s].rest
    BY <1>1 DEF Pass
  <1>4. pass' = [pass EXCEPT ![s] = q]
    BY <1>2
  <1> HIDE DEF q
  <1>5. QED
    BY <1>3, <1>4

(***************************************************************************)
(* Each event is evaluated at most once, and each run is worked on by at   *)
(* most one scheduler.                                                     *)
(***************************************************************************)

\* Only the call that inserted the event evaluates it, and only that registers a run.
Once ==
    /\ \A p \in Publishers : call[p] # None => call[p] \in event /\ run[call[p]] = "none"
    /\ \A p, q \in Publishers : call[p] # None /\ call[p] = call[q] => p = q
    /\ \A o \in Occurrences : run[o] # "none" => o \in event

Working(s) == pass[s].pc \in {"check", "send", "cancel"}

\* Schedulers know of registered runs only, and what one works on is not PENDING.
Claimed ==
    \A s \in Schedulers :
        /\ ~At(s, "idle") => pass[s].on \in Occurrences /\ run[pass[s].on] # "none"
        /\ \A o \in pass[s].rest : run[o] # "none"
        /\ Working(s) => run[pass[s].on] # "PENDING"

\* A bucket holds evaluated events.
ItemsEvaluated ==
    \A u \in Users, d \in Days : \A o \in bucket[u][d].items : run[o] # "none"

Inv == TypeOK /\ Once /\ Claimed /\ RunsExclusive /\ ItemsEvaluated /\ OneCarrier

LEMMA InvInit == Init => Inv
  <1> SUFFICES ASSUME Init PROVE Inv
    OBVIOUS
  <1> USE PublicationAssumption
  <1>1. NoRow \in Row /\ NoBucket \in Bucket
    BY DEF NoRow, Row, NoBucket, Bucket
  <1>2. pass \in [Schedulers -> Pass] /\ \A s \in Schedulers : pass[s] = Asleep
    BY AsleepType DEF Init
  <1>3. \A u \in Users, d \in Days : bucket[u][d] = NoBucket
    BY DEF Init
  <1>4. TypeOK
    BY <1>1, <1>2 DEF Init, TypeOK, RunStatus, Pass
  <1>5. Once
    BY DEF Init, Once
  <1>6. Claimed /\ RunsExclusive
    BY <1>2 DEF Claimed, RunsExclusive, At, Working, Asleep
  <1>7. ItemsEvaluated /\ OneCarrier
    BY <1>3 DEF ItemsEvaluated, OneCarrier, NoBucket
  <1>8. QED
    BY <1>4, <1>5, <1>6, <1>7 DEF Inv

\* A scheduler's step: it ends runs or claims one that no other works on.
LEMMA RunStep ==
  ASSUME TypeOK, Once, Claimed, RunsExclusive, UNCHANGED <<call, event>>,
         NEW s \in Schedulers, NEW q \in Pass, pass' = [pass EXCEPT ![s] = q],
         \A o \in Occurrences :
             run'[o] = run[o] \/ (run[o] # "none" /\ run'[o] \notin {"none", "PENDING"}),
         q.pc # "idle" => q.on \in Occurrences /\ run[q.on] # "none",
         \A o \in q.rest : run[o] # "none",
         q.pc \in {"check", "send", "cancel"} =>
             /\ run'[q.on] # "PENDING"
             /\ \A t \in Schedulers \ {s} : ~(Working(t) /\ pass[t].on = q.on)
  PROVE  Once' /\ Claimed' /\ RunsExclusive'
  <1>1. pass \in [Schedulers -> Pass]
    BY DEF TypeOK, Pass
  <1>2. \A t \in Schedulers : pass'[t] = IF t = s THEN q ELSE pass[t]
    BY <1>1
  <1>3. \A o \in Occurrences : run[o] # "none" <=> run'[o] # "none"
    OBVIOUS
  <1>4. \A p \in Publishers : call[p] # None => call[p] \in Occurrences
    BY DEF TypeOK
  <1>5. Once'
    BY <1>3, <1>4 DEF Once
  <1>6. q.rest \subseteq Occurrences /\ \A t \in Schedulers : pass[t].rest \subseteq Occurrences
    BY <1>1 DEF Pass
  <1>7. ASSUME NEW t \in Schedulers
        PROVE  /\ ~At(t, "idle")' => pass'[t].on \in Occurrences /\ run'[pass'[t].on] # "none"
               /\ \A o \in pass'[t].rest : run'[o] # "none"
               /\ Working(t)' => run'[pass'[t].on] # "PENDING"
    <2>1. CASE t = s
      BY <1>2, <1>3, <1>6, <2>1 DEF At, Working
    <2>2. CASE t # s
      <3>1. pass'[t] = pass[t]
        BY <1>2, <2>2
      <3>2. Working(t) => pass[t].on \in Occurrences /\ run[pass[t].on] \notin {"none", "PENDING"}
        BY DEF Claimed, Working, At
      <3>3. QED
        BY <1>3, <1>6, <3>1, <3>2 DEF Claimed, At, Working
    <2>3. QED
      BY <2>1, <2>2
  <1>8. Claimed'
    BY <1>7 DEF Claimed
  <1>9. RunsExclusive'
    BY <1>2 DEF RunsExclusive, Working
  <1>10. QED
    BY <1>5, <1>8, <1>9

\* The digest's invariants survive what keeps reasons, buckets and runs' existence.
LEMMA DigestKept ==
  ASSUME TypeOK, ItemsEvaluated, OneCarrier,
         \A o \in Occurrences, u \in Users : row'[o][u].reason = row[o][u].reason,
         \A u \in Users, d \in Days : /\ bucket'[u][d].carrier = bucket[u][d].carrier
                                     /\ bucket'[u][d].items = bucket[u][d].items,
         \A o \in Occurrences : run[o] # "none" => run'[o] # "none"
  PROVE  ItemsEvaluated' /\ OneCarrier'
  <1>1. \A u \in Users, d \in Days : bucket[u][d].items \subseteq Occurrences
    BY DEF TypeOK, Bucket
  <1>2. ItemsEvaluated'
    BY <1>1 DEF ItemsEvaluated
  <1>3. OneCarrier'
    <2> SUFFICES ASSUME NEW u \in Users, NEW d \in Days
                 PROVE  {o \in bucket'[u][d].items : row'[o][u].reason # "DIGEST_ITEM"}
                        = {bucket'[u][d].carrier} \ {None}
      BY DEF OneCarrier
    <2>1. {o \in bucket[u][d].items : row[o][u].reason # "DIGEST_ITEM"}
          = {bucket[u][d].carrier} \ {None}
      BY DEF OneCarrier
    <2>2. {o \in bucket'[u][d].items : row'[o][u].reason # "DIGEST_ITEM"}
          = {o \in bucket[u][d].items : row[o][u].reason # "DIGEST_ITEM"}
      BY <1>1
    <2>3. QED
      BY <2>1, <2>2
  <1>4. QED
    BY <1>2, <1>3

(***************************************************************************)
(* The steps of a scheduler.                                               *)
(***************************************************************************)
LEMMA EscalationKept ==
  ASSUME Inv, UNCHANGED <<event, row, digests, task, call, clock>>,
         NEW s \in Schedulers, NEW q \in Pass, pass' = [pass EXCEPT ![s] = q],
         run' \in [Occurrences -> RunStatus],
         escalated' \subseteq Occurrences, faults' \in 0..MaxFaults,
         \A o \in Occurrences :
             run'[o] = run[o] \/ (run[o] # "none" /\ run'[o] \notin {"none", "PENDING"}),
         q.pc # "idle" => q.on \in Occurrences /\ run[q.on] # "none",
         \A o \in q.rest : run[o] # "none",
         q.pc \in {"check", "send", "cancel"} =>
             /\ run'[q.on] # "PENDING"
             /\ \A t \in Schedulers \ {s} : ~(Working(t) /\ pass[t].on = q.on)
  PROVE  Inv'
  <1>1. TypeOK'
    BY DEF Inv, TypeOK, Pass, digests
  <1>2. Once' /\ Claimed' /\ RunsExclusive'
    BY RunStep DEF Inv
  <1>3. ItemsEvaluated' /\ OneCarrier'
    BY DigestKept DEF Inv, digests
  <1>4. QED
    BY <1>1, <1>2, <1>3 DEF Inv

\* What a scheduler that is not idle knows of its run.
LEMMA OnRun ==
  ASSUME Inv, NEW s \in Schedulers
  PROVE  /\ pass \in [Schedulers -> Pass] /\ pass[s] \in Pass
         /\ pass[s].rest \in SUBSET Occurrences
         /\ \A o \in pass[s].rest : run[o] # "none"
         /\ run \in [Occurrences -> RunStatus]
         /\ ~At(s, "idle") => pass[s].on \in Occurrences /\ run[pass[s].on] # "none"
         /\ Working(s) => /\ run[pass[s].on] # "PENDING"
                          /\ \A t \in Schedulers \ {s} : ~(Working(t) /\ pass[t].on = pass[s].on)
  <1>1. pass \in [Schedulers -> Pass] /\ run \in [Occurrences -> RunStatus]
    BY DEF Inv, TypeOK, Pass
  <1>2. pass[s] \in Pass /\ pass[s].rest \in SUBSET Occurrences
    BY <1>1 DEF Pass
  <1>3. QED
    BY <1>1, <1>2 DEF Inv, Claimed, RunsExclusive, Working

LEMMA FinishStep ==
  ASSUME Inv, NEW s \in Schedulers, ~At(s, "idle"),
         NEW status \in {"SENT", "CANCELLED_RESOLVED", "FAILED"}, Finish(s, status),
         escalated' \subseteq Occurrences,
         UNCHANGED <<event, row, digests, task, call, clock, faults>>
  PROVE  Inv'
  <1>1. PICK q \in Pass : /\ pass' = [pass EXCEPT ![s] = q]
                          /\ q.pc \in {"idle", "claim"}
                          /\ q.pc # "idle" => q.on \in pass[s].rest
                          /\ q.rest \subseteq pass[s].rest
    BY OnRun, AdvanceStep DEF Finish
  <1>2. /\ run' \in [Occurrences -> RunStatus]
        /\ \A o \in Occurrences :
               run'[o] = run[o] \/ (run[o] # "none" /\ run'[o] \notin {"none", "PENDING"})
    BY OnRun DEF Finish, RunStatus
  <1>3. faults' \in 0..MaxFaults
    BY DEF Inv, TypeOK
  <1>4. /\ q.pc # "idle" => q.on \in Occurrences /\ run[q.on] # "none"
        /\ \A o \in q.rest : run[o] # "none"
    BY <1>1, OnRun
  <1>5. QED
    BY <1>1, <1>2, <1>3, <1>4, EscalationKept

LEMMA ProcessStep ==
  ASSUME Inv, NEW s \in Schedulers, ProcessRuns(s)
  PROVE  Inv'
  <1>1. escalated \subseteq Occurrences /\ faults \in 0..MaxFaults
    BY DEF Inv, TypeOK
  <1>2. CASE Scan(s)
    <2> DEFINE due == {o \in Occurrences : run[o] = "PENDING"}
    <2>1. PICK q \in Pass : /\ pass' = [pass EXCEPT ![s] = q]
                            /\ q.pc \in {"idle", "claim"}
                            /\ q.pc # "idle" => q.on \in due
                            /\ q.rest \subseteq due
      BY <1>2, OnRun, AdvanceStep DEF Scan
    <2>2. QED
      BY <1>1, <1>2, <2>1, OnRun, EscalationKept DEF Scan
  <1>3. CASE ClaimRun(s)
    <2>1. CASE run[pass[s].on] = "PENDING"
      <3>1. /\ run' = [run EXCEPT ![pass[s].on] = "PROCESSING"]
            /\ Goto(s, "check")
        BY <1>3, <2>1 DEF ClaimRun
      <3>2. PICK q \in Pass : /\ pass' = [pass EXCEPT ![s] = q]
                              /\ q.pc = "check" /\ q.on = pass[s].on /\ q.rest = pass[s].rest
        BY <3>1, OnRun, GotoStep
      <3>3. pass[s].on \in Occurrences
        BY <1>3, OnRun DEF ClaimRun, At
      <3>4. /\ run' \in [Occurrences -> RunStatus] /\ run'[pass[s].on] = "PROCESSING"
            /\ \A o \in Occurrences : run'[o] = run[o]
                   \/ (run[o] # "none" /\ run'[o] \notin {"none", "PENDING"})
        BY <2>1, <3>1, <3>3, OnRun DEF RunStatus
      <3>5. \A t \in Schedulers \ {s} : ~(Working(t) /\ pass[t].on = pass[s].on)
        BY <2>1, OnRun
      <3>6. /\ run[q.on] # "none" /\ run'[q.on] # "PENDING"
            /\ \A o \in q.rest : run[o] # "none"
        BY <2>1, <3>2, <3>4, OnRun
      <3>7. UNCHANGED <<event, row, digests, task, call, clock, escalated, faults>>
        BY <1>3 DEF ClaimRun
      <3>8. QED
        BY <1>1, <3>2, <3>3, <3>4, <3>5, <3>6, <3>7, EscalationKept
    <2>2. CASE run[pass[s].on] # "PENDING"
      <3>1. UNCHANGED run /\ Advance(s, pass[s].rest)
        BY <1>3, <2>2 DEF ClaimRun
      <3>2. PICK q \in Pass : /\ pass' = [pass EXCEPT ![s] = q]
                              /\ q.pc \in {"idle", "claim"}
                              /\ q.pc # "idle" => q.on \in pass[s].rest
                              /\ q.rest \subseteq pass[s].rest
        BY <3>1, OnRun, AdvanceStep
      <3>3. QED
        BY <1>1, <1>3, <3>1, <3>2, OnRun, EscalationKept DEF ClaimRun
    <2>3. QED
      BY <2>1, <2>2
  <1>4. CASE Check(s)
    <2>1. PICK q \in Pass : /\ pass' = [pass EXCEPT ![s] = q]
                            /\ q.pc \in {"send", "cancel"}
                            /\ q.on = pass[s].on /\ q.rest = pass[s].rest
      BY <1>4, OnRun, GotoStep DEF Check
    <2>2. Working(s) /\ ~At(s, "idle")
      BY <1>4 DEF Check, At, Working
    <2>3. QED
      BY ZenonT(40), <1>1, <1>4, <2>1, <2>2, OnRun, EscalationKept DEF Check
  <1>5. CASE Escalate(s)
    <2>1. ~At(s, "idle")
      BY <1>5 DEF Escalate, At
    <2>2. escalated' \subseteq Occurrences
      BY <1>1, <1>5, <2>1, OnRun DEF Escalate
    <2>3. QED
      BY <1>5, <2>1, <2>2, FinishStep DEF Escalate
  <1>6. CASE CancelRun(s)
    BY <1>1, <1>6, FinishStep DEF CancelRun, At
  <1>7. CASE FailRun(s)
    BY <1>1, <1>7, FinishStep DEF FailRun, At
  <1>8. QED
    BY <1>2, <1>3, <1>4, <1>5, <1>6, <1>7 DEF ProcessRuns

LEMMA EscalationFailsStep ==
  ASSUME Inv, NEW s \in Schedulers, EscalationFails(s)
  PROVE  Inv'
  <1>1. escalated \subseteq Occurrences /\ faults' \in 0..MaxFaults
    BY PublicationAssumption DEF Inv, TypeOK, EscalationFails
  <1>2. ~At(s, "idle") /\ UNCHANGED <<event, row, digests, task, call, clock>>
    BY DEF EscalationFails
  <1>3. CASE Goto(s, "fail") /\ UNCHANGED <<run, escalated>>
    <2>1. PICK q \in Pass : /\ pass' = [pass EXCEPT ![s] = q]
                            /\ q.pc = "fail" /\ q.on = pass[s].on /\ q.rest = pass[s].rest
      BY <1>3, OnRun, GotoStep
    <2>2. QED
      BY <1>1, <1>2, <1>3, <2>1, OnRun, EscalationKept
  <1>4. CASE pass' = [pass EXCEPT ![s] = Asleep] /\ UNCHANGED <<run, escalated>>
    <2>1. Asleep \in Pass /\ Asleep.pc = "idle" /\ Asleep.rest = {}
      BY AsleepType DEF Asleep
    <2>2. QED
      BY <1>1, <1>2, <1>4, <2>1, OnRun, EscalationKept
  <1>5. CASE /\ At(s, "send") /\ Goto(s, "fail")
             /\ escalated' = escalated \union {pass[s].on}
             /\ run' = [run EXCEPT ![pass[s].on] = "SENT"]
    <2>1. PICK q \in Pass : /\ pass' = [pass EXCEPT ![s] = q]
                            /\ q.pc = "fail" /\ q.on = pass[s].on /\ q.rest = pass[s].rest
      BY <1>5, OnRun, GotoStep
    <2>2. pass[s].on \in Occurrences /\ run[pass[s].on] # "none"
      BY <1>2, OnRun
    <2>3. /\ run' \in [Occurrences -> RunStatus]
          /\ \A o \in Occurrences :
                 run'[o] = run[o] \/ (run[o] # "none" /\ run'[o] \notin {"none", "PENDING"})
      BY <1>5, <2>2, OnRun DEF RunStatus
    <2>4. escalated' \subseteq Occurrences
      BY <1>1, <1>5, <2>2
    <2>5. QED
      BY <1>1, <1>2, <2>1, <2>2, <2>3, <2>4, OnRun, EscalationKept
  <1>6. QED
    BY <1>3, <1>4, <1>5 DEF EscalationFails

(***************************************************************************)
(* The steps of the digest's carrier.                                      *)
(***************************************************************************)

\* Whoever writes no run, call or event keeps what is said of them.
LEMMA CallsKept ==
  ASSUME Inv, UNCHANGED <<event, run, pass, call>>
  PROVE  Once' /\ Claimed' /\ RunsExclusive'
  BY DEF Inv, Once, Claimed, RunsExclusive, At, Working

\* Holds names a carrier that exists.
LEMMA CarrierKept ==
  ASSUME Inv, NEW u \in Users, NEW d \in Days, NEW status \in {"PENDING", "PROCESSING", "SENT", "FAILED", "SKIPPED"},
         bucket[u][d].carrier # None, SetCarrier(u, d, status),
         bucket' = bucket \/ bucket' = [bucket EXCEPT ![u][d].message = bucket[u][d].items],
         told' = told \/ told' = [told EXCEPT ![u] = @ \union bucket[u][d].message],
         faults' \in 0..MaxFaults,
         UNCHANGED <<event, escalations, task, call, clock>>
  PROVE  Inv'
  <1>1. bucket \in [Users -> [Days -> Bucket]] /\ bucket[u] \in [Days -> Bucket] /\ bucket[u][d] \in Bucket
    BY DEF Inv, TypeOK
  <1>2. [bucket[u][d] EXCEPT !.message = bucket[u][d].items] \in Bucket
    BY <1>1 DEF Bucket
  <1>3. /\ bucket' \in [Users -> [Days -> Bucket]]
        /\ \A v \in Users, e \in Days : /\ bucket'[v][e].carrier = bucket[v][e].carrier
                                       /\ bucket'[v][e].items = bucket[v][e].items
    <2>1. CASE bucket' = bucket
      BY <1>1, <2>1
    <2>2. CASE bucket' = [bucket EXCEPT ![u][d].message = bucket[u][d].items]
      <3> DEFINE b == [bucket[u][d] EXCEPT !.message = bucket[u][d].items]
      <3>1. b \in Bucket /\ b.carrier = bucket[u][d].carrier /\ b.items = bucket[u][d].items
        BY <1>1, <1>2 DEF Bucket
      <3>2. bucket' = [bucket EXCEPT ![u] = [bucket[u] EXCEPT ![d] = b]]
        BY <2>2
      <3> HIDE DEF b
      <3>3. QED
        BY <1>1, <3>1, <3>2
    <2>3. QED
      BY <2>1, <2>2
  <1>4. told' \in [Users -> SUBSET Occurrences]
    <2>1. bucket[u][d].message \subseteq Occurrences
      BY <1>1 DEF Bucket
    <2>2. told \in [Users -> SUBSET Occurrences]
      BY DEF Inv, TypeOK
    <2>3. QED
      BY <2>1, <2>2
  <1>5. /\ row' \in [Occurrences -> [Users -> Row]]
        /\ \A o \in Occurrences, v \in Users : row'[o][v].reason = row[o][v].reason
    BY CarrierStep DEF Inv
  <1>6. TypeOK'
    BY <1>3, <1>4, <1>5 DEF Inv, TypeOK, escalations
  <1>7. Once' /\ Claimed' /\ RunsExclusive'
    BY CallsKept DEF escalations
  <1>8. ItemsEvaluated' /\ OneCarrier'
    BY <1>3, <1>5, DigestKept DEF Inv, escalations
  <1>9. QED
    BY <1>6, <1>7, <1>8 DEF Inv

LEMMA DigestStep ==
  ASSUME Inv, NEW u \in Users, NEW d \in Days,
         Prepare(u, d) \/ SendDigest(u, d) \/ DigestFails(u, d)
  PROVE  Inv'
  <1>1. faults' \in 0..MaxFaults
    BY PublicationAssumption DEF Inv, TypeOK, Prepare, SendDigest, DigestFails
  <1>2. CASE Prepare(u, d)
    BY <1>1, <1>2, CarrierKept DEF Prepare, Holds
  <1>3. CASE SendDigest(u, d)
    BY <1>1, <1>3, CarrierKept DEF SendDigest, Holds
  <1>4. CASE DigestFails(u, d)
    BY <1>1, <1>4, CarrierKept DEF DigestFails, Holds
  <1>5. QED
    BY <1>2, <1>3, <1>4

(***************************************************************************)
(* The steps of publication.                                               *)
(***************************************************************************)

\* The evaluation of a call's event reaches no row, bucket or run of another event.
LEMMA EvaluateStep ==
  ASSUME Inv, NEW p \in Publishers, NEW t \in Nat, t <= clock, EvaluateAt(p, t)
  PROVE  Inv'
  <1> DEFINE o == call[p]
             d == Day(t)
  <1>1. o \in Occurrences /\ o # None /\ o \in event /\ run[o] = "none"
    BY PublicationAssumption DEF EvaluateAt, Inv, TypeOK, Once
  <1>2. d \in Days
    BY DayType, PublicationAssumption DEF Inv, TypeOK
  <1>3. /\ row' = [row EXCEPT ![o] = [u \in Users |-> NewRow(o, u, t)]]
        /\ bucket' = [u \in Users |->
               IF u \in Digested(t) THEN [bucket[u] EXCEPT ![d] = Joined(bucket[u][d], o)]
                                    ELSE bucket[u]]
        /\ run' = [run EXCEPT ![o] = "PENDING"]
        /\ call' = [call EXCEPT ![p] = None]
        /\ UNCHANGED <<event, told, escalated, task, pass, clock, faults>>
    BY DEF EvaluateAt
  <1>4. \A u \in Users : NewRow(o, u, t) \in Row
    BY NewRowType DEF Inv
  <1>5. bucket \in [Users -> [Days -> Bucket]]
    BY DEF Inv, TypeOK
  <1>6. \A u \in Users : Joined(bucket[u][d], o) \in Bucket
    BY <1>1, <1>2, <1>5, JoinedType
  <1> HIDE DEF o, d
  <1>7. TypeOK'
    <2>1. row' \in [Occurrences -> [Users -> Row]]
      BY <1>3, <1>4 DEF Inv, TypeOK
    <2>2. bucket' \in [Users -> [Days -> Bucket]]
      BY <1>3, <1>5, <1>6
    <2>3. run' \in [Occurrences -> RunStatus] /\ call' \in [Publishers -> Occurrences \union {None}]
      BY <1>3 DEF Inv, TypeOK, RunStatus
    <2>4. QED
      BY <1>3, <2>1, <2>2, <2>3 DEF Inv, TypeOK
  <1>8. \A e \in Occurrences : run'[e] = IF e = o THEN "PENDING" ELSE run[e]
    BY <1>3 DEF Inv, TypeOK
  <1>9. \A q \in Publishers : call'[q] = IF q = p THEN None ELSE call[q]
    BY <1>3 DEF Inv, TypeOK
  <1>10. \A q \in Publishers : call[q] \in Occurrences \union {None}
    BY DEF Inv, TypeOK
  <1>11. Once'
    <2>1. \A q \in Publishers : q # p => call[q] # o
      BY <1>1 DEF Inv, Once, o
    <2>2. QED
      BY <1>1, <1>3, <1>8, <1>9, <1>10, <2>1 DEF Inv, Once
  <1>12. Claimed' /\ RunsExclusive'
    <2>1. RunsExclusive'
      BY <1>3 DEF Inv, RunsExclusive
    <2>2. ASSUME NEW s \in Schedulers
          PROVE  /\ ~At(s, "idle")' => pass'[s].on \in Occurrences /\ run'[pass'[s].on] # "none"
                 /\ \A e \in pass'[s].rest : run'[e] # "none"
                 /\ Working(s)' => run'[pass'[s].on] # "PENDING"
      <3>1. pass'[s] = pass[s] /\ pass[s].rest \subseteq Occurrences
        BY <1>3, OnRun
      <3>2. ~At(s, "idle") => pass[s].on \in Occurrences /\ pass[s].on # o /\ run[pass[s].on] # "none"
        BY <1>1, OnRun
      <3>3. Working(s) => ~At(s, "idle") /\ run[pass[s].on] # "PENDING"
        BY OnRun DEF Working, At
      <3>4. \A e \in pass[s].rest : run[e] # "none"
        BY OnRun
      <3>5. QED
        BY <1>8, <3>1, <3>2, <3>3, <3>4 DEF Working, At
    <2>3. Claimed'
      BY <2>2 DEF Claimed
    <2>4. QED
      BY <2>1, <2>3
  <1>13. \A u \in Users, e \in Days : /\ bucket[u][e].items \subseteq Occurrences
                                      /\ o \notin bucket[u][e].items
    BY <1>1, <1>5 DEF Inv, ItemsEvaluated, Bucket
  <1>14. ASSUME NEW u \in Users, NEW e \in Days
         PROVE  bucket'[u][e] = IF u \in Digested(t) /\ e = d THEN Joined(bucket[u][d], o)
                                                            ELSE bucket[u][e]
    BY <1>2, <1>3, <1>5
  <1>15. \A u \in Users : /\ Joined(bucket[u][d], o).items = bucket[u][d].items \union {o}
                          /\ Joined(bucket[u][d], o).carrier =
                                 IF bucket[u][d].carrier = None THEN o ELSE bucket[u][d].carrier
    BY <1>2, <1>5 DEF Joined, Bucket
  <1>16. \A c \in Occurrences, u \in Users :
             row'[c][u] = IF c = o THEN NewRow(o, u, t) ELSE row[c][u]
    BY <1>1, <1>3 DEF Inv, TypeOK
  <1>17. ItemsEvaluated'
    <2> SUFFICES ASSUME NEW u \in Users, NEW e \in Days, NEW c \in bucket'[u][e].items
                 PROVE  run'[c] # "none"
      BY DEF ItemsEvaluated
    <2>1. c = o \/ c \in bucket[u][e].items
      BY <1>14, <1>15
    <2>2. CASE c = o
      BY <1>1, <1>8, <2>2
    <2>3. CASE c \in bucket[u][e].items
      BY <1>8, <1>13, <2>3 DEF Inv, ItemsEvaluated
    <2>4. QED
      BY <2>1, <2>2, <2>3
  <1>18. OneCarrier'
    <2> SUFFICES ASSUME NEW u \in Users, NEW e \in Days
                 PROVE  {c \in bucket'[u][e].items : row'[c][u].reason # "DIGEST_ITEM"}
                        = {bucket'[u][e].carrier} \ {None}
      BY DEF OneCarrier
    <2>1. {c \in bucket[u][e].items : row[c][u].reason # "DIGEST_ITEM"}
          = {bucket[u][e].carrier} \ {None}
      BY DEF Inv, OneCarrier
    <2>2. \A c \in bucket[u][e].items : row'[c][u] = row[c][u]
      BY <1>13, <1>16
    <2>3. CASE ~(u \in Digested(t) /\ e = d)
      BY <1>14, <2>1, <2>2, <2>3
    <2>4. CASE u \in Digested(t) /\ e = d
      <3>1. /\ bucket'[u][e].items = bucket[u][e].items \union {o}
            /\ bucket'[u][e].carrier =
                   IF bucket[u][e].carrier = None THEN o ELSE bucket[u][e].carrier
        BY <1>14, <1>15, <2>4
      <3>2. Covers(u) # {} /\ Decision(u, t).reason = "DIGESTED" /\ Decision(u, t) \in Row
        BY <2>4, DecideType DEF Digested, Decision, Inv
      <3>3. row'[o][u] = NewRow(o, u, t)
        BY <1>1, <1>16
      <3>4. CASE bucket[u][e].carrier = None
        <4>1. NewRow(o, u, t) = Decision(u, t)
          BY <1>15, <2>4, <3>2, <3>4 DEF NewRow, d
        <4>2. row'[o][u].reason # "DIGEST_ITEM"
          BY <3>2, <3>3, <4>1
        <4>3. QED
          BY <1>1, <2>1, <2>2, <3>1, <3>4, <4>2
      <3>5. CASE bucket[u][e].carrier # None
        <4>1. bucket[u][e].carrier # o
          BY <1>13, <2>1, <3>5
        <4>2. NewRow(o, u, t)
              = [Decision(u, t) EXCEPT !.status = "SKIPPED", !.reason = "DIGEST_ITEM"]
          BY <1>15, <2>4, <3>2, <3>5, <4>1 DEF NewRow, d
        <4>3. row'[o][u].reason = "DIGEST_ITEM"
          BY <3>2, <3>3, <4>2 DEF Row
        <4>4. QED
          BY <2>1, <2>2, <3>1, <3>5, <4>3
      <3>6. QED
        BY <3>4, <3>5
    <2>5. QED
      BY <2>3, <2>4
  <1>19. QED
    BY <1>7, <1>11, <1>12, <1>17, <1>18 DEF Inv

\* Recording an event and abandoning a call.
LEMMA CallStep ==
  ASSUME Inv, NEW p \in Publishers, UNCHANGED <<row, digests, escalations, task, clock>>,
         \/ \E o \in Occurrences : RecordEvent(p, o)
         \/ PublicationFails(p)
  PROVE  Inv'
  <1>1. ItemsEvaluated' /\ OneCarrier'
    BY DigestKept DEF Inv, digests, escalations
  <1>2. Claimed' /\ RunsExclusive'
    BY DEF Inv, Claimed, RunsExclusive, At, Working, escalations
  <1>3. ASSUME NEW o \in Occurrences, RecordEvent(p, o) PROVE TypeOK' /\ Once'
    <2>1. TypeOK'
      BY <1>3 DEF RecordEvent, Inv, TypeOK, digests, escalations
    <2>2. CASE o \in event
      <3>1. event' = event /\ call' = call /\ run' = run
        BY <1>3, <2>2 DEF RecordEvent, escalations
      <3>2. QED
        BY <2>1, <3>1 DEF Inv, Once
    <2>3. CASE o \notin event
      <3>1. event' = event \union {o} /\ run' = run
            /\ \A q \in Publishers : call'[q] = IF q = p THEN o ELSE call[q]
        BY <1>3, <2>3 DEF RecordEvent, Inv, TypeOK, escalations
      <3>2. run[o] = "none" /\ \A q \in Publishers : call[q] # None => call[q] # o
        BY <2>3 DEF Inv, Once
      <3>3. o # None
        BY PublicationAssumption
      <3>4. Once
        BY DEF Inv
      <3>5. \A q \in Publishers : call'[q] # None => call'[q] \in event' /\ run'[call'[q]] = "none"
        BY <3>1, <3>2, <3>4 DEF Once
      <3>6. \A q, r \in Publishers : call'[q] # None /\ call'[q] = call'[r] => q = r
        BY <3>1, <3>2, <3>3, <3>4 DEF Once
      <3>7. QED
        BY <2>1, <3>1, <3>4, <3>5, <3>6 DEF Once
    <2>4. QED
      BY <2>1, <2>2, <2>3
  <1>4. CASE PublicationFails(p)
    <2>1. TypeOK'
      BY <1>4, PublicationAssumption DEF PublicationFails, Inv, TypeOK, digests, escalations
    <2>2. \A q \in Publishers : call'[q] = IF q = p THEN None ELSE call[q]
      BY <1>4 DEF PublicationFails, Inv, TypeOK
    <2>3. Once'
      BY <1>4, <2>2 DEF PublicationFails, Inv, Once, escalations
    <2>4. QED
      BY <1>1, <1>2, <2>1, <2>3 DEF Inv
  <1>5. QED
    BY <1>1, <1>2, <1>3, <1>4 DEF Inv

(***************************************************************************)
(* The invariant, and what follows from it.                                *)
(***************************************************************************)
LEMMA InvStep == Inv /\ [Next]_vars => Inv'
  <1> SUFFICES ASSUME Inv, [Next]_vars PROVE Inv'
    OBVIOUS
  <1>1. ASSUME NEW p \in Publishers, \E o \in Occurrences : RecordEvent(p, o) PROVE Inv'
    BY <1>1, CallStep DEF RecordEvent
  <1>2. ASSUME NEW p \in Publishers, PublicationFails(p) PROVE Inv'
    BY <1>2, CallStep DEF PublicationFails
  <1>3. ASSUME NEW p \in Publishers, Evaluate(p) PROVE Inv'
    <2>1. PICK t \in {clock, clock - 1} \intersect Nat : EvaluateAt(p, t)
      BY <1>3 DEF Evaluate
    <2>2. t \in Nat /\ t <= clock
      BY <2>1, PublicationAssumption DEF Inv, TypeOK
    <2>3. QED
      BY <2>1, <2>2, EvaluateStep
  <1>4. ASSUME NEW u \in Users, NEW d \in Days,
               Prepare(u, d) \/ SendDigest(u, d) \/ DigestFails(u, d)
        PROVE  Inv'
    BY <1>4, DigestStep
  <1>5. ASSUME NEW s \in Schedulers, ProcessRuns(s) \/ EscalationFails(s) PROVE Inv'
    BY <1>5, ProcessStep, EscalationFailsStep
  <1>6. ASSUME UNCHANGED <<event, row, digests, escalations, call, faults>>,
               task' \in [Occurrences -> {"open", "closed"}], clock' \in 0..LastHalf
        PROVE  Inv'
    <2>1. TypeOK'
      BY <1>6 DEF Inv, TypeOK, digests, escalations
    <2>2. Once' /\ Claimed' /\ RunsExclusive'
      BY <1>6, CallsKept DEF escalations
    <2>3. ItemsEvaluated' /\ OneCarrier'
      BY <1>6, DigestKept DEF Inv, digests, escalations
    <2>4. QED
      BY <2>1, <2>2, <2>3 DEF Inv
  <1>7. ASSUME NEW o \in Occurrences, CloseTask(o) PROVE Inv'
    BY <1>6, <1>7 DEF CloseTask, Inv, TypeOK
  <1>8. CASE TimePasses
    BY <1>6, <1>8, PublicationAssumption DEF TimePasses, Inv, TypeOK
  <1>9. CASE UNCHANGED vars
    BY <1>6, <1>9 DEF vars, digests, escalations, Inv, TypeOK
  <1>10. QED
    BY <1>1, <1>2, <1>3, <1>4, <1>5, <1>7, <1>8, <1>9 DEF Next

LEMMA InvHolds == Spec => []Inv
  BY InvInit, InvStep, PTL DEF Spec

\* Every reachable state of publication has its type.
THEOREM Typing == Spec => []TypeOK
  <1>1. Inv => TypeOK
    BY DEF Inv
  <1>2. QED
    BY <1>1, InvHolds, PTL

\* The claim of processOrganization lets at most one scheduler work on a run, also
\* when failures, restarts and the catch block's write by id come in between.
THEOREM ClaimsExclusive == Spec => []RunsExclusive
  <1>1. Inv => RunsExclusive
    BY DEF Inv
  <1>2. QED
    BY <1>1, InvHolds, PTL

\* Every delivery that joined a digest's window is an item, but for the carrier.
THEOREM CarrierUnique == Spec => []OneCarrier
  <1>1. Inv => OneCarrier
    BY DEF Inv
  <1>2. QED
    BY <1>1, InvHolds, PTL

\* An event's rules are evaluated by one call, before it has an escalation run, and
\* no other: publishOnce tells one caller that it created the event.
THEOREM EvaluatedOnce == Spec => []Once
  <1>1. Inv => Once
    BY DEF Inv
  <1>2. QED
    BY <1>1, InvHolds, PTL

\* The types of the tables, and one carrier per digest.
THEOREM PublicationSafe == Spec => []PublicationInv
  BY Typing, CarrierUnique, PTL DEF PublicationInv

(***************************************************************************)
(* What a run's status tells.  It follows by induction with two facts more: *)
(* whoever works on a run has not escalated it yet, and only a failure     *)
(* leads to the catch block, whose write by id takes no heed of the status. *)
(***************************************************************************)
Truth ==
    /\ \A o \in Occurrences :
        /\ run[o] = "SENT" => o \in escalated
        /\ o \in escalated => run[o] = "SENT" \/ (run[o] = "FAILED" /\ faults > 0)
        /\ run[o] = "PROCESSING" =>
               faults > 0 \/ \E s \in Schedulers : Working(s) /\ pass[s].on = o
    /\ \A s \in Schedulers : /\ Working(s) => pass[s].on \notin escalated
                             /\ At(s, "fail") => faults > 0

LEMMA TruthInit == Init => Truth
  BY DEF Init, Truth, Working, At, Asleep

\* A scheduler that leaves the runs alone.
LEMMA TruthOfMove ==
  ASSUME Inv, Truth, NEW s \in Schedulers, NEW q \in Pass, pass' = [pass EXCEPT ![s] = q],
         UNCHANGED <<run, escalated>>, faults' \in Nat, faults <= faults',
         q.pc \in {"check", "send", "cancel"} => Working(s) /\ q.on = pass[s].on,
         \/ ~Working(s)
         \/ q.pc \in {"check", "send", "cancel"}
         \/ faults' > 0,
         q.pc = "fail" => faults' > 0
  PROVE  Truth'
  <1>1. /\ faults \in Nat
        /\ \A t \in Schedulers : pass'[t] = IF t = s THEN q ELSE pass[t]
    BY PublicationAssumption DEF Inv, TypeOK, Pass
  <1>2. ASSUME NEW o \in Occurrences, run[o] = "PROCESSING", ~(faults' > 0)
        PROVE  \E t \in Schedulers : Working(t)' /\ pass'[t].on = o
    <2>1. PICK t \in Schedulers : Working(t) /\ pass[t].on = o
      BY <1>1, <1>2 DEF Truth
    <2>2. Working(t)' /\ pass'[t].on = o
      BY <1>1, <1>2, <2>1 DEF Working
    <2>3. QED
      BY <2>2
  <1>3. \A t \in Schedulers : /\ Working(t)' => pass'[t].on \notin escalated
                              /\ At(t, "fail")' => faults' > 0
    BY <1>1 DEF Truth, Working, At
  <1>4. QED
    BY <1>1, <1>2, <1>3 DEF Truth

\* A scheduler that writes what became of its run and goes on.
LEMMA TruthOfWrite ==
  ASSUME Inv, Truth, NEW s \in Schedulers, NEW q \in Pass, pass' = [pass EXCEPT ![s] = q],
         ~At(s, "idle"), q.pc \notin {"check", "send", "cancel"},
         NEW status \in {"SENT", "CANCELLED_RESOLVED", "FAILED"},
         run' = [run EXCEPT ![pass[s].on] = status],
         escalated' = IF status = "SENT" THEN escalated \union {pass[s].on} ELSE escalated,
         status = "CANCELLED_RESOLVED" => Working(s),
         status = "FAILED" => faults > 0,
         status = "SENT" => Working(s),
         faults' \in Nat, faults <= faults', q.pc = "fail" => faults' > 0
  PROVE  Truth'
  <1> DEFINE on == pass[s].on
  <1>1. /\ faults \in Nat /\ on \in Occurrences
        /\ \A t \in Schedulers : pass'[t] = IF t = s THEN q ELSE pass[t]
        /\ \A o \in Occurrences : run'[o] = IF o = on THEN status ELSE run[o]
    BY OnRun, PublicationAssumption DEF Inv, TypeOK
  <1>2. ASSUME NEW o \in Occurrences
        PROVE  /\ run'[o] = "SENT" => o \in escalated'
               /\ o \in escalated' => run'[o] = "SENT" \/ (run'[o] = "FAILED" /\ faults' > 0)
    <2>1. CASE o = on
      BY <1>1, <2>1 DEF Truth
    <2>2. CASE o # on
      BY <1>1, <2>2 DEF Truth
    <2>3. QED
      BY <2>1, <2>2
  <1>3. ASSUME NEW o \in Occurrences, run'[o] = "PROCESSING", ~(faults' > 0)
        PROVE  \E t \in Schedulers : Working(t)' /\ pass'[t].on = o
    <2>1. o # on /\ run[o] = "PROCESSING" /\ ~(faults > 0)
      BY <1>1, <1>3
    <2>2. PICK t \in Schedulers : Working(t) /\ pass[t].on = o
      BY <2>1 DEF Truth
    <2>3. Working(t)' /\ pass'[t].on = o
      BY <1>1, <2>1, <2>2 DEF Working
    <2>4. QED
      BY <2>3
  <1>4. ASSUME NEW t \in Schedulers
        PROVE  /\ Working(t)' => pass'[t].on \notin escalated'
               /\ At(t, "fail")' => faults' > 0
    <2>1. CASE t = s
      BY <1>1, <2>1 DEF Working, At
    <2>2. CASE t # s
      <3>1. Working(t) /\ status = "SENT" => pass[t].on # on
        BY <2>2, OnRun
      <3>2. QED
        BY <1>1, <2>2, <3>1 DEF Truth, Working, At
    <2>3. QED
      BY <2>1, <2>2
  <1>5. QED
    BY <1>2, <1>3, <1>4 DEF Truth

LEMMA TruthOfClaim ==
  ASSUME Inv, Truth, NEW s \in Schedulers, At(s, "claim"), run[pass[s].on] = "PENDING",
         run' = [run EXCEPT ![pass[s].on] = "PROCESSING"], Goto(s, "check"),
         UNCHANGED <<escalated, faults>>
  PROVE  Truth'
  <1> DEFINE on == pass[s].on
  <1>1. PICK q \in Pass : pass' = [pass EXCEPT ![s] = q] /\ q.pc = "check" /\ q.on = on
    BY OnRun, GotoStep
  <1>2. /\ on \in Occurrences
        /\ \A t \in Schedulers : pass'[t] = IF t = s THEN q ELSE pass[t]
        /\ \A o \in Occurrences : run'[o] = IF o = on THEN "PROCESSING" ELSE run[o]
    BY <1>1, OnRun DEF At
  <1>3. on \notin escalated
    BY <1>2 DEF Truth
  <1>4. ASSUME NEW o \in Occurrences, run'[o] = "PROCESSING", ~(faults > 0)
        PROVE  \E t \in Schedulers : Working(t)' /\ pass'[t].on = o
    <2>1. CASE o = on
      BY <1>1, <1>2, <2>1 DEF Working
    <2>2. CASE o # on
      <3>1. PICK t \in Schedulers : Working(t) /\ pass[t].on = o
        BY <1>2, <1>4, <2>2 DEF Truth
      <3>2. Working(t)' /\ pass'[t].on = o
        BY <1>2, <2>2, <3>1 DEF Working
      <3>3. QED
        BY <3>2
    <2>3. QED
      BY <2>1, <2>2
  <1>5. \A t \in Schedulers : /\ Working(t)' => pass'[t].on \notin escalated
                              /\ At(t, "fail")' => faults > 0
    BY <1>1, <1>2, <1>3 DEF Truth, Working, At
  <1>6. QED
    BY <1>2, <1>3, <1>4, <1>5 DEF Truth

LEMMA TruthOfProcess ==
  ASSUME Inv, Truth, NEW s \in Schedulers, ProcessRuns(s)
  PROVE  Truth'
  <1>0. faults \in Nat /\ faults <= faults
    BY PublicationAssumption DEF Inv, TypeOK
  <1>1. CASE Scan(s)
    <2>1. PICK q \in Pass : pass' = [pass EXCEPT ![s] = q] /\ q.pc \in {"idle", "claim"}
      BY <1>1, OnRun, AdvanceStep DEF Scan
    <2>2. ~Working(s) /\ UNCHANGED <<run, escalated, faults>>
      BY <1>1 DEF Scan, At, Working
    <2>3. QED
      BY <1>0, <2>1, <2>2, TruthOfMove
  <1>2. CASE ClaimRun(s)
    <2>1. CASE run[pass[s].on] = "PENDING"
      BY <1>2, <2>1, TruthOfClaim DEF ClaimRun
    <2>2. CASE run[pass[s].on] # "PENDING"
      <3>1. PICK q \in Pass : pass' = [pass EXCEPT ![s] = q] /\ q.pc \in {"idle", "claim"}
        BY <1>2, <2>2, OnRun, AdvanceStep DEF ClaimRun
      <3>2. ~Working(s) /\ UNCHANGED <<run, escalated, faults>>
        BY <1>2, <2>2 DEF ClaimRun, At, Working
      <3>3. QED
        BY <1>0, <3>1, <3>2, TruthOfMove
    <2>3. QED
      BY <2>1, <2>2
  <1>3. CASE Check(s)
    <2>1. PICK q \in Pass : /\ pass' = [pass EXCEPT ![s] = q]
                            /\ q.pc \in {"send", "cancel"} /\ q.on = pass[s].on
      BY <1>3, OnRun, GotoStep DEF Check
    <2>2. Working(s) /\ UNCHANGED <<run, escalated, faults>>
      BY <1>3 DEF Check, At, Working
    <2>3. QED
      BY <1>0, <2>1, <2>2, TruthOfMove
  <1>4. ASSUME NEW status \in {"SENT", "CANCELLED_RESOLVED", "FAILED"}, Finish(s, status),
               ~At(s, "idle"),
               escalated' = IF status = "SENT" THEN escalated \union {pass[s].on} ELSE escalated,
               status # "FAILED" => Working(s), status = "FAILED" => faults > 0,
               UNCHANGED faults
        PROVE  Truth'
    <2>1. PICK q \in Pass : pass' = [pass EXCEPT ![s] = q] /\ q.pc \in {"idle", "claim"}
      BY <1>4, OnRun, AdvanceStep DEF Finish
    <2>2. run' = [run EXCEPT ![pass[s].on] = status]
      BY <1>4 DEF Finish
    <2>3. /\ status = "SENT" => Working(s)
          /\ status = "CANCELLED_RESOLVED" => Working(s)
          /\ faults' \in Nat /\ faults <= faults'
      BY <1>0, <1>4
    <2>4. QED
      BY <1>4, <2>1, <2>2, <2>3, TruthOfWrite
  <1>5. CASE Escalate(s)
    BY <1>4, <1>5 DEF Escalate, At, Working
  <1>6. CASE CancelRun(s)
    BY <1>4, <1>6 DEF CancelRun, At, Working
  <1>7. CASE FailRun(s)
    <2>1. faults > 0
      BY <1>7 DEF FailRun, Truth
    <2>2. QED
      BY <1>4, <1>7, <2>1 DEF FailRun, At
  <1>8. QED
    BY <1>1, <1>2, <1>3, <1>5, <1>6, <1>7 DEF ProcessRuns

LEMMA TruthOfFailure ==
  ASSUME Inv, Truth, NEW s \in Schedulers, EscalationFails(s)
  PROVE  Truth'
  <1>1. /\ faults' \in Nat /\ faults <= faults' /\ faults' > 0 /\ ~At(s, "idle")
    BY PublicationAssumption DEF Inv, TypeOK, EscalationFails
  <1>2. CASE Goto(s, "fail") /\ UNCHANGED <<run, escalated>>
    <2>1. PICK q \in Pass : pass' = [pass EXCEPT ![s] = q] /\ q.pc = "fail"
      BY <1>2, OnRun, GotoStep
    <2>2. QED
      BY <1>1, <1>2, <2>1, TruthOfMove
  <1>3. CASE pass' = [pass EXCEPT ![s] = Asleep] /\ UNCHANGED <<run, escalated>>
    BY <1>1, <1>3, AsleepType, TruthOfMove
  <1>4. CASE /\ At(s, "send") /\ Goto(s, "fail")
             /\ escalated' = escalated \union {pass[s].on}
             /\ run' = [run EXCEPT ![pass[s].on] = "SENT"]
    <2>1. PICK q \in Pass : pass' = [pass EXCEPT ![s] = q] /\ q.pc = "fail"
      BY <1>4, OnRun, GotoStep
    <2>2. Working(s)
      BY <1>4 DEF At, Working
    <2>3. QED
      BY <1>1, <1>4, <2>1, <2>2, TruthOfWrite
  <1>5. QED
    BY <1>2, <1>3, <1>4 DEF EscalationFails

LEMMA TruthStep == Inv /\ Truth /\ [Next]_vars => Truth'
  <1> SUFFICES ASSUME Inv, Truth, [Next]_vars PROVE Truth'
    OBVIOUS
  <1>0. faults \in Nat
    BY PublicationAssumption DEF Inv, TypeOK
  <1>1. ASSUME UNCHANGED escalations, faults' \in Nat, faults <= faults' PROVE Truth'
    BY <1>0, <1>1 DEF Truth, escalations, Working, At
  <1>2. ASSUME NEW p \in Publishers, Evaluate(p) PROVE Truth'
    <2>1. PICK t \in {clock, clock - 1} \intersect Nat : EvaluateAt(p, t)
      BY <1>2 DEF Evaluate
    <2>2. /\ call[p] # None /\ run' = [run EXCEPT ![call[p]] = "PENDING"]
          /\ UNCHANGED <<escalated, pass, faults>>
      BY <2>1 DEF EvaluateAt
    <2>3. call[p] \in Occurrences /\ run[call[p]] = "none" /\ call[p] \notin escalated
      BY <2>2 DEF Inv, TypeOK, Once, Truth
    <2>4. \A o \in Occurrences : run'[o] = IF o = call[p] THEN "PENDING" ELSE run[o]
      BY <2>2 DEF Inv, TypeOK
    <2>5. QED
      BY <2>2, <2>3, <2>4 DEF Truth, Working, At
  <1>3. ASSUME NEW s \in Schedulers, ProcessRuns(s) \/ EscalationFails(s) PROVE Truth'
    BY <1>3, TruthOfProcess, TruthOfFailure
  <1>4. ASSUME NEW p \in Publishers, (\E o \in Occurrences : RecordEvent(p, o)) \/ PublicationFails(p)
        PROVE  Truth'
    BY <1>0, <1>1, <1>4 DEF RecordEvent, PublicationFails
  <1>5. ASSUME NEW u \in Users, NEW d \in Days,
               Prepare(u, d) \/ SendDigest(u, d) \/ DigestFails(u, d)
        PROVE  Truth'
    BY <1>0, <1>1, <1>5 DEF Prepare, SendDigest, DigestFails
  <1>6. CASE \/ \E o \in Occurrences : CloseTask(o)
             \/ TimePasses
             \/ UNCHANGED vars
    BY <1>0, <1>1, <1>6 DEF CloseTask, TimePasses, vars, escalations
  <1>7. QED
    BY <1>2, <1>3, <1>4, <1>5, <1>6 DEF Next

\* Two schedulers, any failures and restarts: a run is worked on by one scheduler at
\* a time, SENT and its escalation go together, and none stays in progress unattended
\* unless something failed.
THEOREM RunsSafe == Spec => []RunsSound
  <1>1. Inv /\ Truth => RunsSound
    <2> SUFFICES ASSUME Inv, Truth PROVE RunsSound
      OBVIOUS
    <2>1. RunsTruthful
      BY DEF Truth, RunsTruthful, Working, At
    <2>2. QED
      BY <2>1 DEF Inv, RunsSound
  <1>2. QED
    BY <1>1, InvHolds, TruthInit, TruthStep, PTL DEF Spec

(***************************************************************************)
(* A task closed before its run was claimed is not escalated: nobody holds *)
(* the run past its check, and whoever claims it from now on finds the     *)
(* task closed.                                                            *)
(***************************************************************************)
Withheld(o) ==
    /\ task[o] = "closed" /\ o \notin escalated
    /\ \A s \in Schedulers : pass[s].on = o => ~At(s, "send")

LEMMA WithheldOfMove ==
  ASSUME Inv, NEW o \in Occurrences, Withheld(o), UNCHANGED task,
         NEW s \in Schedulers, NEW q \in Pass, pass' = [pass EXCEPT ![s] = q],
         q.pc = "send" => q.on # o,
         escalated' = escalated \/ (At(s, "send") /\ escalated' = escalated \union {pass[s].on})
  PROVE  Withheld(o)'
  <1>1. \A t \in Schedulers : pass'[t] = IF t = s THEN q ELSE pass[t]
    BY OnRun
  <1>2. QED
    BY <1>1 DEF Withheld, At

LEMMA WithheldStep ==
  ASSUME NEW o \in Occurrences
  PROVE  Inv /\ Withheld(o) /\ [Next]_vars => Withheld(o)'
  <1> SUFFICES ASSUME Inv, Withheld(o), [Next]_vars PROVE Withheld(o)'
    OBVIOUS
  <1>1. ASSUME UNCHANGED <<escalated, pass>>, task' = task \/ task'[o] = "closed"
        PROVE  Withheld(o)'
    BY <1>1 DEF Withheld, At
  <1>2. ASSUME NEW s \in Schedulers, ProcessRuns(s) PROVE Withheld(o)'
    <2>1. CASE Scan(s)
      <3>1. PICK q \in Pass : pass' = [pass EXCEPT ![s] = q] /\ q.pc \in {"idle", "claim"}
        BY <2>1, OnRun, AdvanceStep DEF Scan
      <3>2. QED
        BY <2>1, <3>1, WithheldOfMove DEF Scan
    <2>2. CASE ClaimRun(s)
      <3>1. PICK q \in Pass : pass' = [pass EXCEPT ![s] = q] /\ q.pc \in {"idle", "claim", "check"}
        BY <2>2, OnRun, AdvanceStep, GotoStep DEF ClaimRun
      <3>2. QED
        BY <2>2, <3>1, WithheldOfMove DEF ClaimRun
    <2>3. CASE Check(s)
      <3>1. PICK q \in Pass : /\ pass' = [pass EXCEPT ![s] = q] /\ q.on = pass[s].on
                              /\ q.pc = IF task[pass[s].on] = "open" THEN "send" ELSE "cancel"
        BY <2>3, OnRun, GotoStep DEF Check
      <3>2. q.pc = "send" => q.on # o
        BY <3>1 DEF Withheld
      <3>3. QED
        BY <2>3, <3>1, <3>2, WithheldOfMove DEF Check
    <2>4. CASE Escalate(s) \/ CancelRun(s) \/ FailRun(s)
      <3>1. PICK q \in Pass : pass' = [pass EXCEPT ![s] = q] /\ q.pc \in {"idle", "claim"}
        BY <2>4, OnRun, AdvanceStep DEF Escalate, CancelRun, FailRun, Finish
      <3>2. QED
        BY <2>4, <3>1, WithheldOfMove DEF Escalate, CancelRun, FailRun
    <2>5. QED
      BY <1>2, <2>1, <2>2, <2>3, <2>4 DEF ProcessRuns
  <1>3. ASSUME NEW s \in Schedulers, EscalationFails(s) PROVE Withheld(o)'
    <2>1. PICK q \in Pass : pass' = [pass EXCEPT ![s] = q] /\ q.pc \in {"idle", "fail"}
      BY <1>3, OnRun, GotoStep, AsleepType DEF EscalationFails
    <2>2. QED
      BY <1>3, <2>1, WithheldOfMove DEF EscalationFails
  <1>4. ASSUME NEW p \in Publishers,
               (\E e \in Occurrences : RecordEvent(p, e)) \/ Evaluate(p) \/ PublicationFails(p)
        PROVE  Withheld(o)'
    BY <1>1, <1>4 DEF RecordEvent, Evaluate, EvaluateAt, PublicationFails, escalations
  <1>5. ASSUME NEW u \in Users, NEW d \in Days,
               Prepare(u, d) \/ SendDigest(u, d) \/ DigestFails(u, d)
        PROVE  Withheld(o)'
    BY <1>1, <1>5 DEF Prepare, SendDigest, DigestFails, escalations
  <1>6. ASSUME NEW e \in Occurrences, CloseTask(e) PROVE Withheld(o)'
    <2>1. task' = task \/ task'[o] = "closed"
      BY <1>6 DEF CloseTask, Withheld, Inv, TypeOK
    <2>2. QED
      BY <1>1, <1>6, <2>1 DEF CloseTask, escalations
  <1>7. CASE TimePasses \/ UNCHANGED vars
    BY <1>1, <1>7 DEF TimePasses, vars, escalations
  <1>8. QED
    BY <1>2, <1>3, <1>4, <1>5, <1>6, <1>7 DEF Next

\* No scheduler escalates a run whose task was closed while it was PENDING, whatever
\* fails and whoever claims it.
THEOREM ClosedStaysQuiet == Spec => ClosedNotEscalated
  <1>1. ASSUME NEW o \in Occurrences
        PROVE  Spec => [](task[o] = "closed" /\ run[o] = "PENDING" => [](o \notin escalated))
    <2>1. Inv /\ Truth => (task[o] = "closed" /\ run[o] = "PENDING" => Withheld(o))
      <3> SUFFICES ASSUME Inv, Truth, task[o] = "closed", run[o] = "PENDING"
                   PROVE  Withheld(o)
        OBVIOUS
      <3>1. o \notin escalated
        BY DEF Truth
      <3>2. \A s \in Schedulers : pass[s].on = o => ~At(s, "send")
        BY OnRun DEF Working, At
      <3>3. QED
        BY <3>1, <3>2 DEF Withheld
    <2>2. Withheld(o) => o \notin escalated
      BY DEF Withheld
    <2>3. Inv /\ Withheld(o) /\ [Next]_vars => Withheld(o)'
      BY WithheldStep
    <2>4. Spec => []Truth
      BY InvHolds, TruthInit, TruthStep, PTL DEF Spec
    <2>5. QED
      BY <2>1, <2>2, <2>3, <2>4, InvHolds, PTL DEF Spec
  <1>2. QED
    BY <1>1 DEF ClosedNotEscalated

(***************************************************************************)
(* What becomes of the events: each one recorded is being evaluated, has   *)
(* its deliveries, or was lost to a fault of its own.                      *)
(***************************************************************************)
Lost == {o \in event : ~Evaluated(o) /\ \A p \in Publishers : call[p] # o}

LEMMA RecipientsAreUsers ==
  ASSUME NEW i \in 1..Len(Rules), NEW u \in Rules[i].to PROVE u \in Users /\ Covers(u) # {}
  <1>1. Rules[i] \in Rule
    BY PublicationAssumption
  <1>2. u \in Users
    BY <1>1 DEF Rule
  <1>3. i \in Covers(u)
    BY DEF Covers
  <1>4. QED
    BY <1>2, <1>3

\* Rows are only ever added.
RowsGrow ==
    \A o \in Occurrences, u \in Users : row[o][u].status # "none" => row'[o][u].status # "none"

LEMMA EvaluatedStays ==
  ASSUME RowsGrow, NEW o \in Occurrences, Evaluated(o)
  PROVE  Evaluated(o)'
  BY RecipientsAreUsers DEF Evaluated, RowsGrow

\* The rest of a row a dispatch of the carrier leaves as it is.
LEMMA CarrierRow ==
  ASSUME TypeOK, NEW u \in Users, NEW d \in Days, bucket[u][d].carrier # None,
         NEW status \in {"PENDING", "PROCESSING", "SENT", "FAILED", "SKIPPED"},
         SetCarrier(u, d, status)
  PROVE  \A o \in Occurrences, v \in Users :
            /\ row'[o][v].at = row[o][v].at /\ row'[o][v].due = row[o][v].due
            /\ row'[o][v].status = IF o = bucket[u][d].carrier /\ v = u THEN status
                                   ELSE row[o][v].status
  <1> DEFINE c == bucket[u][d].carrier
             r == [row[c][u] EXCEPT !.status = status]
  <1>1. c \in Occurrences
    BY CarrierStep
  <1>2. /\ row \in [Occurrences -> [Users -> Row]]
        /\ row' = [row EXCEPT ![c] = [row[c] EXCEPT ![u] = r]]
    BY DEF TypeOK, SetCarrier
  <1>3. row[c][u] \in Row
    BY <1>1, <1>2
  <1>4. r.status = status /\ r.at = row[c][u].at /\ r.due = row[c][u].due
    BY <1>3 DEF Row
  <1> HIDE DEF c, r
  <1>5. \A o \in Occurrences, v \in Users :
            row'[o][v] = IF o = c /\ v = u THEN r ELSE row[o][v]
    BY <1>1, <1>2
  <1>6. QED
    BY <1>4, <1>5 DEF c

\* What an evaluation writes.
LEMMA NewRowStatus ==
  ASSUME TypeOK, NEW o, NEW u, NEW t \in Nat, Covers(u) # {}
  PROVE  /\ NewRow(o, u, t).status \in {"PENDING", "SKIPPED"}
         /\ NewRow(o, u, t).at = clock
  <1>1. /\ Decision(u, t).status \in {"PENDING", "SKIPPED"}
        /\ Decision(u, t).at = clock
    BY DEF Decision, Decide, Waiting, Suppressed
  <1>2. Decision(u, t) \in Row
    BY DecideType DEF Decision
  <1>3. /\ [Decision(u, t) EXCEPT !.status = "SKIPPED", !.reason = "DIGEST_ITEM"].status = "SKIPPED"
        /\ [Decision(u, t) EXCEPT !.status = "SKIPPED", !.reason = "DIGEST_ITEM"].at
             = Decision(u, t).at
    BY <1>2 DEF Row
  <1>4. QED
    BY <1>1, <1>3 DEF NewRow

LEMMA LostCard ==
  ASSUME Inv
  PROVE  /\ IsFiniteSet(Lost) /\ Cardinality(Lost) \in Nat
         /\ \A S : S \subseteq Lost =>
               Cardinality(S) \in Nat /\ Cardinality(S) <= Cardinality(Lost)
         /\ \A S, o : S \subseteq Lost \union {o} =>
               Cardinality(S) \in Nat /\ Cardinality(S) <= Cardinality(Lost) + 1
  <1>1. Lost \subseteq Occurrences
    BY DEF Lost, Inv, TypeOK
  <1>2. IsFiniteSet(Lost)
    BY <1>1, PublicationAssumption, FS_Subset
  <1>3. Cardinality(Lost) \in Nat
    BY <1>2, FS_CardinalityType
  <1>4. ASSUME NEW S, S \subseteq Lost
        PROVE  Cardinality(S) \in Nat /\ Cardinality(S) <= Cardinality(Lost)
    BY <1>2, <1>4, FS_Subset, FS_CardinalityType
  <1>5. ASSUME NEW S, NEW o, S \subseteq Lost \union {o}
        PROVE  Cardinality(S) \in Nat /\ Cardinality(S) <= Cardinality(Lost) + 1
    <2>1. /\ IsFiniteSet(Lost \union {o})
          /\ Cardinality(Lost \union {o}) =
               IF o \in Lost THEN Cardinality(Lost) ELSE Cardinality(Lost) + 1
      BY <1>2, FS_AddElement
    <2>2. Cardinality(S) <= Cardinality(Lost \union {o}) /\ Cardinality(S) \in Nat
      BY <1>5, <2>1, FS_Subset, FS_CardinalityType
    <2>3. QED
      BY <1>3, <2>1, <2>2
  <1>6. QED
    BY <1>2, <1>3, <1>4, <1>5

\* An event that was not evaluated has no rows.
RowsAwaited == \A o \in Occurrences, u \in Users : run[o] = "none" => row[o][u].status = "none"

\* What a dispatch of a carrier does to the rows; it is that of an evaluated event.
Dispatched(u, d, status) ==
    /\ bucket[u][d].carrier \in Occurrences /\ bucket[u][d].carrier \in bucket[u][d].items
    /\ run[bucket[u][d].carrier] # "none"
    /\ \A o \in Occurrences, v \in Users :
          /\ row'[o][v].at = row[o][v].at /\ row'[o][v].due = row[o][v].due
          /\ row'[o][v].status = IF o = bucket[u][d].carrier /\ v = u THEN status
                                 ELSE row[o][v].status

LEMMA DispatchedStep ==
  ASSUME Inv, NEW u \in Users, NEW d \in Days, bucket[u][d].carrier # None,
         NEW status \in {"PENDING", "PROCESSING", "SENT", "FAILED", "SKIPPED"},
         SetCarrier(u, d, status)
  PROVE  Dispatched(u, d, status)
  <1>1. bucket[u][d].carrier \in Occurrences
    BY CarrierStep DEF Inv
  <1>2. bucket[u][d].carrier \in bucket[u][d].items
    BY <1>1 DEF Inv, OneCarrier
  <1>3. run[bucket[u][d].carrier] # "none"
    BY <1>2 DEF Inv, ItemsEvaluated
  <1>4. QED
    BY <1>1, <1>2, <1>3, CarrierRow DEF Dispatched, Inv

\* The three steps of a digest.
LEMMA DigestMoves ==
  ASSUME Inv, NEW u \in Users, NEW d \in Days,
         Prepare(u, d) \/ SendDigest(u, d) \/ DigestFails(u, d)
  PROVE  /\ UNCHANGED <<event, escalations, task, call, clock>>
         /\ bucket[u][d].carrier # None
         /\ faults' = faults \/ faults' = faults + 1
         /\ \E status \in {"PROCESSING", "SENT", "FAILED", "SKIPPED"} : Dispatched(u, d, status)
  BY DispatchedStep DEF Prepare, SendDigest, DigestFails, Holds

\* What an evaluation does to the rows and buckets of a recipient.
LEMMA EvaluateView ==
  ASSUME Inv, NEW p \in Publishers, Evaluate(p)
  PROVE  /\ call[p] \in event /\ call[p] \in Occurrences /\ run[call[p]] = "none"
         /\ \A o \in Occurrences : run'[o] = IF o = call[p] THEN "PENDING" ELSE run[o]
         /\ \A q \in Publishers : call'[q] = IF q = p THEN None ELSE call[q]
         /\ UNCHANGED <<event, told, clock, faults>>
         /\ \A o \in Occurrences, u \in Users : o # call[p] => row'[o][u] = row[o][u]
         /\ \A u \in Users : Covers(u) # {} =>
               row'[call[p]][u].status # "none" /\ row'[call[p]][u].at = clock
         /\ \A u \in Users, d \in Days :
               \/ bucket'[u][d] = bucket[u][d]
               \/ /\ bucket'[u][d].items = bucket[u][d].items \union {call[p]}
                  /\ bucket'[u][d].message = bucket[u][d].message
                  /\ row'[call[p]][u].at = clock
                  /\ \A e \in Days : e # d => bucket'[u][e] = bucket[u][e]
                  /\ \/ bucket[u][d].carrier # None /\ bucket'[u][d].carrier = bucket[u][d].carrier
                     \/ /\ bucket[u][d].carrier = None /\ bucket'[u][d].carrier = call[p]
                        /\ row'[call[p]][u].status = "PENDING"
  <1>1. PICK t \in Nat : EvaluateAt(p, t)
    BY DEF Evaluate
  <1>2. PICK o \in Occurrences : o = call[p]
    BY <1>1 DEF EvaluateAt, Inv, TypeOK
  <1>3. o \in event /\ run[o] = "none"
    BY <1>1, <1>2 DEF EvaluateAt, Inv, Once
  <1>4. /\ \A e \in Occurrences : run'[e] = IF e = o THEN "PENDING" ELSE run[e]
        /\ \A q \in Publishers : call'[q] = IF q = p THEN None ELSE call[q]
        /\ UNCHANGED <<event, told, clock, faults>>
    BY <1>1, <1>2 DEF EvaluateAt, Inv, TypeOK
  <1>5. \A e \in Occurrences, u \in Users :
           row'[e][u] = IF e = o THEN NewRow(o, u, t) ELSE row[e][u]
    BY <1>1, <1>2 DEF EvaluateAt, Inv, TypeOK
  <1>6. \A u \in Users : Covers(u) # {} =>
           row'[o][u].status # "none" /\ row'[o][u].at = clock
    BY <1>5, NewRowStatus DEF Inv
  <1>7. ASSUME NEW u \in Users, u \in Digested(t)
        PROVE  /\ row'[o][u].at = clock
               /\ Joined(bucket[u][Day(t)], o).carrier = o => row'[o][u].status = "PENDING"
    <2>1. Covers(u) # {} /\ Decision(u, t).reason = "DIGESTED"
      BY <1>7 DEF Digested
    <2>2. Decision(u, t).status = "PENDING"
      BY <2>1 DEF Decision, Decide, Waiting, Suppressed
    <2>3. Joined(bucket[u][Day(t)], o).carrier = o => row'[o][u] = Decision(u, t)
      BY <1>5, <2>1 DEF NewRow
    <2>4. QED
      BY <1>6, <2>1, <2>2, <2>3
  <1>8. ASSUME NEW u \in Users, NEW d \in Days
        PROVE  \/ bucket'[u][d] = bucket[u][d]
               \/ /\ bucket'[u][d].items = bucket[u][d].items \union {o}
                  /\ bucket'[u][d].message = bucket[u][d].message
                  /\ row'[o][u].at = clock
                  /\ \A e \in Days : e # d => bucket'[u][e] = bucket[u][e]
                  /\ \/ bucket[u][d].carrier # None /\ bucket'[u][d].carrier = bucket[u][d].carrier
                     \/ /\ bucket[u][d].carrier = None /\ bucket'[u][d].carrier = o
                        /\ row'[o][u].status = "PENDING"
    <2>1. bucket'[u] = IF u \in Digested(t)
                       THEN [bucket[u] EXCEPT ![Day(t)] = Joined(bucket[u][Day(t)], o)]
                       ELSE bucket[u]
      BY <1>1, <1>2 DEF EvaluateAt
    <2>2. bucket[u] \in [Days -> Bucket]
      BY DEF Inv, TypeOK
    <2>3. CASE u \notin Digested(t) \/ d # Day(t)
      BY <2>1, <2>2, <2>3
    <2>4. CASE u \in Digested(t) /\ d = Day(t)
      <3>1. /\ bucket'[u][d] = Joined(bucket[u][d], o)
            /\ \A e \in Days : e # d => bucket'[u][e] = bucket[u][e]
        BY <2>1, <2>2, <2>4
      <3>2. bucket[u][d] \in Bucket
        BY <2>2
      <3>3. /\ Joined(bucket[u][d], o).items = bucket[u][d].items \union {o}
            /\ Joined(bucket[u][d], o).message = bucket[u][d].message
            /\ Joined(bucket[u][d], o).carrier
                 = IF bucket[u][d].carrier = None THEN o ELSE bucket[u][d].carrier
        BY <3>2 DEF Joined, Bucket
      <3>4. row'[o][u].at = clock
            /\ (Joined(bucket[u][d], o).carrier = o => row'[o][u].status = "PENDING")
        BY <1>7, <2>4
      <3>5. QED
        BY <3>1, <3>3, <3>4
    <2>5. QED
      BY <2>3, <2>4
  <1>9. QED
    BY <1>2, <1>3, <1>4, <1>5, <1>6, <1>8

\* The other steps: of the tables they touch the events, at most.
Aside == UNCHANGED <<row, digests>>

LEMMA StepsApart ==
  ASSUME [Next]_vars
  PROVE  \/ \E p \in Publishers : Evaluate(p)
         \/ \E u \in Users, d \in Days : Prepare(u, d) \/ SendDigest(u, d) \/ DigestFails(u, d)
         \/ Aside
  BY DEF Next, RecordEvent, PublicationFails, ProcessRuns, Scan, ClaimRun, Check, Escalate,
         CancelRun, FailRun, EscalationFails, CloseTask, TimePasses, vars, Aside, digests

\* A run once registered stays so.
LEMMA RunsStay ==
  ASSUME Inv, [Next]_vars, NEW o \in Occurrences
  PROVE  run[o] # "none" => run'[o] # "none"
  <1> SUFFICES ASSUME run[o] # "none" PROVE run'[o] # "none"
    OBVIOUS
  <1>1. run \in [Occurrences -> RunStatus]
    BY DEF Inv, TypeOK
  <1>2. ASSUME NEW p \in Publishers, Evaluate(p) PROVE run'[o] # "none"
    BY <1>2, EvaluateView
  <1>3. ASSUME NEW s \in Schedulers, ProcessRuns(s) \/ EscalationFails(s)
        PROVE  run'[o] # "none"
    BY <1>1, <1>3 DEF ProcessRuns, Scan, ClaimRun, Check, Escalate, CancelRun, FailRun, Finish,
                      EscalationFails
  <1>4. QED
    BY <1>2, <1>3
       DEF Next, RecordEvent, PublicationFails, Prepare, SendDigest, DigestFails, CloseTask,
           TimePasses, vars, escalations

LEMMA RowsAwaitedInit == Init => RowsAwaited
  BY DEF Init, RowsAwaited, NoRow

LEMMA RowsAwaitedStep == Inv /\ RowsAwaited /\ [Next]_vars => RowsAwaited'
  <1> SUFFICES ASSUME Inv, RowsAwaited, [Next]_vars PROVE RowsAwaited'
    OBVIOUS
  <1>1. ASSUME NEW p \in Publishers, Evaluate(p) PROVE RowsAwaited'
    BY <1>1, EvaluateView DEF RowsAwaited
  <1>2. ASSUME NEW u \in Users, NEW d \in Days,
               Prepare(u, d) \/ SendDigest(u, d) \/ DigestFails(u, d)
        PROVE  RowsAwaited'
    BY <1>2, DigestMoves DEF RowsAwaited, Dispatched, escalations
  <1>3. CASE Aside
    BY <1>3, RunsStay DEF Aside, RowsAwaited
  <1>4. QED
    BY <1>1, <1>2, <1>3, StepsApart

LEMMA RowsOnlyGrow ==
  ASSUME Inv, RowsAwaited, [Next]_vars
  PROVE  RowsGrow
  <1>1. ASSUME NEW p \in Publishers, Evaluate(p) PROVE RowsGrow
    BY <1>1, EvaluateView DEF RowsGrow, RowsAwaited
  <1>2. ASSUME NEW u \in Users, NEW d \in Days,
               Prepare(u, d) \/ SendDigest(u, d) \/ DigestFails(u, d)
        PROVE  RowsGrow
    BY <1>2, DigestMoves DEF RowsGrow, Dispatched
  <1>3. CASE Aside
    BY <1>3 DEF Aside, RowsGrow
  <1>4. QED
    BY <1>1, <1>2, <1>3, StepsApart

\* A step adds at most one lost event, and a fault for it.
LEMMA LossStep ==
  ASSUME Inv, RowsAwaited, [Next]_vars
  PROVE  /\ faults' \in Nat /\ faults <= faults'
         /\ \/ Lost' \subseteq Lost
            \/ faults' = faults + 1 /\ \E o : Lost' \subseteq Lost \union {o}
  <1>0. /\ faults \in Nat /\ event \subseteq Occurrences
        /\ call \in [Publishers -> Occurrences \union {None}]
    BY PublicationAssumption DEF Inv, TypeOK
  <1>1. \A o \in Occurrences : Evaluated(o) => Evaluated(o)'
    BY RowsOnlyGrow, EvaluatedStays
  <1>2. ASSUME NEW p \in Publishers, NEW o \in Occurrences, RecordEvent(p, o)
        PROVE  Lost' \subseteq Lost /\ faults' = faults
    <2>1. \A q \in Publishers :
             call'[q] = IF q = p /\ o \notin event THEN o ELSE call[q]
      BY <1>0, <1>2 DEF RecordEvent
    <2>2. event' = event \union {o} /\ faults' = faults /\ call[p] = None
      BY <1>2 DEF RecordEvent
    <2>3. ASSUME NEW e \in Lost' PROVE e \in Lost
      <3>1. e \in event' /\ ~Evaluated(e)' /\ \A q \in Publishers : call'[q] # e
        BY DEF Lost
      <3>2. e \in event
        BY <2>1, <2>2, <3>1
      <3>3. \A q \in Publishers : call[q] # e
        BY <1>0, <2>1, <2>2, <3>1, <3>2, PublicationAssumption
      <3>4. QED
        BY <1>0, <1>1, <3>1, <3>2, <3>3 DEF Lost
    <2>4. QED
      BY <2>2, <2>3
  <1>3. ASSUME NEW p \in Publishers, Evaluate(p) PROVE Lost' \subseteq Lost /\ faults' = faults
    <2>0. PICK o \in Occurrences : o = call[p]
      BY <1>3, EvaluateView
    <2>1. Evaluated(o)'
      BY <1>3, <2>0, EvaluateView, RecipientsAreUsers DEF Evaluated
    <2>2. ASSUME NEW e \in Lost' PROVE e \in Lost
      <3>1. e \in event /\ ~Evaluated(e)' /\ \A q \in Publishers : call'[q] # e
        BY <1>3, EvaluateView DEF Lost
      <3>2. e # call[p]
        BY <2>0, <2>1, <3>1
      <3>3. \A q \in Publishers : call[q] # e
        BY <1>3, <3>1, <3>2, EvaluateView
      <3>4. QED
        BY <1>0, <1>1, <3>1, <3>3 DEF Lost
    <2>3. QED
      BY <1>3, <2>2, EvaluateView
  <1>4. ASSUME NEW p \in Publishers, PublicationFails(p)
        PROVE  Lost' \subseteq Lost \union {call[p]} /\ faults' = faults + 1
    <2>1. \A q \in Publishers : call'[q] = IF q = p THEN None ELSE call[q]
      BY <1>0, <1>4 DEF PublicationFails
    <2>2. event' = event /\ faults' = faults + 1
      BY <1>4 DEF PublicationFails
    <2>3. QED
      BY <1>0, <1>1, <2>1, <2>2 DEF Lost
  <1>5. ASSUME UNCHANGED <<event, call>> PROVE Lost' \subseteq Lost
    BY <1>0, <1>1, <1>5 DEF Lost
  <1>6. ASSUME UNCHANGED <<event, call>>, faults' = faults \/ faults' = faults + 1
        PROVE  Lost' \subseteq Lost /\ faults' \in Nat /\ faults <= faults'
    BY <1>0, <1>5, <1>6
  <1>7. ASSUME NEW u \in Users, NEW d \in Days,
               Prepare(u, d) \/ SendDigest(u, d) \/ DigestFails(u, d)
        PROVE  Lost' \subseteq Lost /\ faults' \in Nat /\ faults <= faults'
    BY <1>6, <1>7, DigestMoves
  <1>8. ASSUME NEW s \in Schedulers, ProcessRuns(s) \/ EscalationFails(s)
        PROVE  Lost' \subseteq Lost /\ faults' \in Nat /\ faults <= faults'
    BY <1>6, <1>8 DEF ProcessRuns, Scan, ClaimRun, Check, Escalate, CancelRun, FailRun,
                      EscalationFails
  <1>9. ASSUME (\E o \in Occurrences : CloseTask(o)) \/ TimePasses \/ UNCHANGED vars
        PROVE  Lost' \subseteq Lost /\ faults' \in Nat /\ faults <= faults'
    BY <1>6, <1>9 DEF CloseTask, TimePasses, vars
  <1>10. QED
    BY <1>0, <1>2, <1>3, <1>4, <1>7, <1>8, <1>9 DEF Next

LEMMA LossCounted ==
  Inv /\ RowsAwaited /\ [Next]_vars /\ OneEventLostPerFault => OneEventLostPerFault'
  <1> SUFFICES ASSUME Inv, RowsAwaited, [Next]_vars, OneEventLostPerFault
               PROVE  OneEventLostPerFault'
    OBVIOUS
  <1>1. Cardinality(Lost) <= faults /\ faults \in Nat
    BY PublicationAssumption DEF OneEventLostPerFault, Lost, Inv, TypeOK
  <1>2. Cardinality(Lost') <= faults'
    <2>1. CASE Lost' \subseteq Lost
      BY <1>1, <2>1, LossStep, LostCard
    <2>2. ASSUME NEW o, Lost' \subseteq Lost \union {o}, faults' = faults + 1
          PROVE  Cardinality(Lost') <= faults'
      BY <1>1, <2>2, LostCard
    <2>3. QED
      BY <2>1, <2>2, LossStep
  <1>3. QED
    BY <1>2 DEF OneEventLostPerFault, Lost

(***************************************************************************)
(* The digests: the message in hand of a claimed carrier names every item  *)
(* made before the digest was due, and a sent one has told it.             *)
(***************************************************************************)

\* An event is in one window of a recipient at most.
OneWindow ==
    \A u \in Users, d, e \in Days, o \in Occurrences :
        o \in bucket[u][d].items /\ o \in bucket[u][e].items => d = e

\* Items made before the digest was due.
Early(u, d) == {o \in bucket[u][d].items : row[o][u].at < Carrier(u, d).due}

DigestsKnown ==
    \A u \in Users, d \in Days :
        /\ Holds(u, d, "PROCESSING") \/ Holds(u, d, "SENT") =>
               /\ clock >= Carrier(u, d).due
               /\ Early(u, d) \subseteq bucket[u][d].message
        /\ Holds(u, d, "SENT") => Early(u, d) \subseteq told[u]

Digest == OneWindow /\ DigestsKnown

LEMMA DigestInit == Init => Digest
  <1> SUFFICES ASSUME Init PROVE Digest
    OBVIOUS
  <1>1. \A u \in Users, d \in Days : bucket[u][d] = NoBucket
    BY DEF Init
  <1>2. QED
    BY <1>1 DEF Digest, OneWindow, DigestsKnown, Holds, NoBucket

\* A bucket's items and carrier are events.
LEMMA BucketHolds ==
  ASSUME Inv, NEW u \in Users, NEW d \in Days
  PROVE  /\ bucket[u][d].items \subseteq Occurrences
         /\ bucket[u][d].carrier # None =>
               /\ bucket[u][d].carrier \in Occurrences
               /\ bucket[u][d].carrier \in bucket[u][d].items
         /\ \A o \in bucket[u][d].items : run[o] # "none"
  <1>1. bucket[u][d] \in Bucket
    BY DEF Inv, TypeOK
  <1>2. QED
    BY <1>1 DEF Bucket, Inv, OneCarrier, ItemsEvaluated

LEMMA DigestOfEvaluate ==
  ASSUME Inv, Digest, NEW p \in Publishers, Evaluate(p)
  PROVE  Digest'
  <1>1. PICK o \in Occurrences : o = call[p]
    BY EvaluateView
  <1>2. /\ run[o] = "none" /\ UNCHANGED <<told, clock>>
        /\ \A e \in Occurrences, u \in Users : e # o => row'[e][u] = row[e][u]
    BY <1>1, EvaluateView
  <1>3. \A u \in Users, d \in Days : o \notin bucket[u][d].items
    BY <1>2, BucketHolds
  <1>4. \A u \in Users, d \in Days :
               \/ bucket'[u][d] = bucket[u][d]
               \/ /\ bucket'[u][d].items = bucket[u][d].items \union {o}
                  /\ bucket'[u][d].message = bucket[u][d].message
                  /\ row'[o][u].at = clock
                  /\ \A e \in Days : e # d => bucket'[u][e] = bucket[u][e]
                  /\ \/ bucket[u][d].carrier # None /\ bucket'[u][d].carrier = bucket[u][d].carrier
                     \/ /\ bucket[u][d].carrier = None /\ bucket'[u][d].carrier = o
                        /\ row'[o][u].status = "PENDING"
    BY <1>1, EvaluateView
  <1>5. OneWindow'
    BY <1>3, <1>4 DEF Digest, OneWindow
  <1>6. ASSUME NEW u \in Users, NEW d \in Days
        PROVE  /\ Holds(u, d, "PROCESSING")' \/ Holds(u, d, "SENT")' =>
                     /\ clock' >= Carrier(u, d)'.due
                     /\ Early(u, d)' \subseteq bucket'[u][d].message
               /\ Holds(u, d, "SENT")' => Early(u, d)' \subseteq told'[u]
    <2>1. CASE bucket'[u][d] = bucket[u][d]
      <3>1. ASSUME bucket[u][d].carrier # None
            PROVE  Carrier(u, d)' = Carrier(u, d) /\ Early(u, d)' = Early(u, d)
        <4>1. Carrier(u, d)' = Carrier(u, d)
          BY <1>2, <1>3, <2>1, <3>1, BucketHolds DEF Carrier
        <4>2. \A e \in bucket[u][d].items : row'[e][u] = row[e][u]
          BY <1>2, <1>3, BucketHolds
        <4>3. QED
          BY <2>1, <4>1, <4>2 DEF Early
      <3>2. QED
        BY <1>2, <2>1, <3>1 DEF Digest, DigestsKnown, Holds
    <2>2. CASE /\ bucket[u][d].carrier # None /\ bucket'[u][d].carrier = bucket[u][d].carrier
               /\ bucket'[u][d].items = bucket[u][d].items \union {o}
               /\ bucket'[u][d].message = bucket[u][d].message
               /\ row'[o][u].at = clock
      <3>1. Carrier(u, d)' = Carrier(u, d)
        BY <1>2, <1>3, <2>2, BucketHolds DEF Carrier
      <3>2. clock >= Carrier(u, d).due => Early(u, d)' \subseteq Early(u, d)
        <4>1. \A e \in bucket[u][d].items : row'[e][u] = row[e][u]
          BY <1>2, <1>3, BucketHolds
        <4>2. Carrier(u, d) \in Row /\ clock \in Nat
          BY <2>2, BucketHolds DEF Carrier, Inv, TypeOK
        <4>3. Carrier(u, d).due \in Nat
          BY <4>2 DEF Row
        <4>4. QED
          BY <2>2, <3>1, <4>1, <4>2, <4>3 DEF Early
      <3>3. QED
        BY <1>2, <2>2, <3>1, <3>2 DEF Digest, DigestsKnown, Holds
    <2>3. CASE bucket'[u][d].carrier = o /\ row'[o][u].status = "PENDING"
      BY <2>3 DEF Holds, Carrier
    <2>4. QED
      BY <1>4, <2>1, <2>2, <2>3
  <1>7. QED
    BY <1>5, <1>6 DEF Digest, DigestsKnown

\* A dispatch leaves the windows, and what is early in them, as they are.
LEMMA DispatchKeeps ==
  ASSUME Inv, OneWindow, NEW u \in Users, NEW d \in Days, NEW status, Dispatched(u, d, status),
         \A v \in Users, e \in Days : /\ bucket'[v][e].carrier = bucket[v][e].carrier
                                     /\ bucket'[v][e].items = bucket[v][e].items
  PROVE  /\ OneWindow'
         /\ \A v \in Users, e \in Days : bucket[v][e].carrier # None =>
               /\ Early(v, e)' = Early(v, e)
               /\ Carrier(v, e)'.due = Carrier(v, e).due
               /\ Carrier(v, e)'.status = IF v = u /\ e = d THEN status
                                          ELSE Carrier(v, e).status
  <1>1. OneWindow'
    BY DEF OneWindow
  <1>2. ASSUME NEW v \in Users, NEW e \in Days, bucket[v][e].carrier # None
        PROVE  /\ Early(v, e)' = Early(v, e)
               /\ Carrier(v, e)'.due = Carrier(v, e).due
               /\ Carrier(v, e)'.status = IF v = u /\ e = d THEN status
                                          ELSE Carrier(v, e).status
    <2>1. Carrier(v, e)'.due = Carrier(v, e).due
      BY <1>2, BucketHolds DEF Carrier, Dispatched
    <2>2. \A o \in bucket[v][e].items : row'[o][v].at = row[o][v].at
      BY BucketHolds DEF Dispatched
    <2>3. Early(v, e)' = Early(v, e)
      BY <2>1, <2>2 DEF Early
    <2>4. v = u /\ bucket[v][e].carrier = bucket[u][d].carrier => e = d
      BY <1>2, BucketHolds DEF OneWindow, Dispatched
    <2>5. Carrier(v, e)'.status = IF v = u /\ e = d THEN status ELSE Carrier(v, e).status
      BY <1>2, <2>4, BucketHolds DEF Carrier, Dispatched
    <2>6. QED
      BY <2>1, <2>3, <2>5
  <1>3. QED
    BY <1>1, <1>2

LEMMA DigestOfDispatch ==
  ASSUME Inv, Digest, NEW u \in Users, NEW d \in Days,
         Prepare(u, d) \/ SendDigest(u, d) \/ DigestFails(u, d)
  PROVE  Digest'
  <1>1. /\ bucket[u][d].carrier # None /\ clock' = clock
        /\ bucket \in [Users -> [Days -> Bucket]] /\ told \in [Users -> SUBSET Occurrences]
    BY DigestMoves DEF Inv, TypeOK
  <1>2. ASSUME NEW v \in Users, NEW e \in Days, bucket[v][e].carrier = None,
               bucket'[v][e].carrier = bucket[v][e].carrier, NEW status
        PROVE  ~Holds(v, e, status)'
    BY <1>2 DEF Holds
  <1>3. CASE Prepare(u, d)
    <2>1. Dispatched(u, d, "PROCESSING") /\ told' = told /\ clock >= Carrier(u, d).due
      BY <1>1, <1>3, DispatchedStep DEF Prepare
    <2>2. \A v \in Users, e \in Days :
             /\ bucket'[v][e].carrier = bucket[v][e].carrier
             /\ bucket'[v][e].items = bucket[v][e].items
             /\ bucket'[v][e].message = IF v = u /\ e = d THEN bucket[v][e].items
                                        ELSE bucket[v][e].message
      <3>1. bucket' = [bucket EXCEPT ![u][d] = [bucket[u][d] EXCEPT !.message = bucket[u][d].items]]
        BY <1>3 DEF Prepare
      <3>2. PICK b : b = [bucket[u][d] EXCEPT !.message = bucket[u][d].items]
        OBVIOUS
      <3>3. /\ b.carrier = bucket[u][d].carrier /\ b.items = bucket[u][d].items
            /\ b.message = bucket[u][d].items
        BY <1>1, <3>2 DEF Bucket
      <3>4. \A v \in Users, e \in Days :
               bucket'[v][e] = IF v = u /\ e = d THEN b ELSE bucket[v][e]
        BY <1>1, <3>1, <3>2
      <3>5. QED
        BY <3>3, <3>4
    <2>3. /\ OneWindow'
          /\ \A v \in Users, e \in Days : bucket[v][e].carrier # None =>
               /\ Early(v, e)' = Early(v, e)
               /\ Carrier(v, e)'.due = Carrier(v, e).due
               /\ Carrier(v, e)'.status = IF v = u /\ e = d THEN "PROCESSING"
                                          ELSE Carrier(v, e).status
      BY <2>1, <2>2, DispatchKeeps DEF Digest
    <2>4. Early(u, d) \subseteq bucket[u][d].items
      BY DEF Early
    <2>5. DigestsKnown'
      BY SMTT(40), <1>1, <1>2, <2>1, <2>2, <2>3, <2>4 DEF Digest, DigestsKnown, Holds
    <2>6. QED
      BY <2>3, <2>5 DEF Digest
  <1>4. ASSUME NEW status \in {"PROCESSING", "SENT", "FAILED", "SKIPPED"},
               Dispatched(u, d, status), Holds(u, d, "PROCESSING"), bucket' = bucket,
               \/ status # "SENT" /\ told' = told
               \/ told' = [told EXCEPT ![u] = @ \union bucket[u][d].message]
        PROVE  Digest'
    <2>1. /\ OneWindow'
          /\ \A v \in Users, e \in Days : bucket[v][e].carrier # None =>
               /\ Early(v, e)' = Early(v, e)
               /\ Carrier(v, e)'.due = Carrier(v, e).due
               /\ Carrier(v, e)'.status = IF v = u /\ e = d THEN status
                                          ELSE Carrier(v, e).status
      BY <1>4, DispatchKeeps DEF Digest
    <2>2. \A v \in Users : told[v] \subseteq told'[v]
      BY <1>1, <1>4
    <2>3. status = "SENT" => bucket[u][d].message \subseteq told'[u]
      BY <1>1, <1>4
    <2>4. DigestsKnown'
      BY <1>1, <1>2, <1>4, <2>1, <2>2, <2>3 DEF Digest, DigestsKnown, Holds
    <2>5. QED
      BY <2>1, <2>4 DEF Digest
  <1>5. CASE SendDigest(u, d)
    BY <1>1, <1>4, <1>5, DispatchedStep DEF SendDigest
  <1>6. CASE DigestFails(u, d)
    BY <1>1, <1>4, <1>6, DispatchedStep DEF DigestFails
  <1>7. QED
    BY <1>3, <1>5, <1>6

LEMMA DigestStands == Inv /\ Digest /\ [Next]_vars => Digest'
  <1> SUFFICES ASSUME Inv, Digest, [Next]_vars PROVE Digest'
    OBVIOUS
  <1>1. CASE Aside
    <2>1. clock \in Nat /\ (clock' = clock \/ clock' = clock + 1)
      <3>1. clock' = clock \/ clock' = clock + 1
        BY DEF Next, RecordEvent, Evaluate, EvaluateAt, PublicationFails, Prepare, SendDigest,
               DigestFails, ProcessRuns, Scan, ClaimRun, Check, Escalate, CancelRun, FailRun,
               EscalationFails, CloseTask, TimePasses, vars
      <3>2. QED
        BY <3>1, PublicationAssumption DEF Inv, TypeOK
    <2>2. \A u \in Users, d \in Days : bucket[u][d].carrier # None => Carrier(u, d).due \in Nat
      <3> SUFFICES ASSUME NEW u \in Users, NEW d \in Days, bucket[u][d].carrier # None
                   PROVE  Carrier(u, d).due \in Nat
        OBVIOUS
      <3>1. Carrier(u, d) \in Row
        BY BucketHolds DEF Carrier, Inv, TypeOK
      <3>2. QED
        BY <3>1 DEF Row
    <2>3. UNCHANGED <<row, bucket, told>>
      BY <1>1 DEF Aside, digests
    <2>4. OneWindow'
      BY <2>3 DEF Digest, OneWindow
    <2>5. ASSUME NEW u \in Users, NEW d \in Days
          PROVE  /\ bucket'[u][d] = bucket[u][d] /\ told'[u] = told[u]
                 /\ Carrier(u, d)' = Carrier(u, d) /\ Early(u, d)' = Early(u, d)
                 /\ \A status : Holds(u, d, status)' <=> Holds(u, d, status)
      BY <2>3 DEF Carrier, Early, Holds
    <2>6. \A u \in Users, d \in Days : \A status :
            Holds(u, d, status) /\ clock >= Carrier(u, d).due => clock' >= Carrier(u, d).due
      BY <2>1, <2>2 DEF Holds
    <2>7. DigestsKnown'
      BY <2>5, <2>6 DEF Digest, DigestsKnown
    <2>8. QED
      BY <2>4, <2>7 DEF Digest
  <1>2. QED
    BY <1>1, DigestOfEvaluate, DigestOfDispatch, StepsApart

\* Whatever calls race, fail or die and however digests are retried: each recorded
\* event has the deliveries of its rules or was lost to a fault of its own, and a sent
\* digest has told every delivery made before it was due.
THEOREM LossesHold == Spec => []LossesExplained
  <1>1. Init => RowsAwaited /\ OneEventLostPerFault /\ Digest
    <2> SUFFICES ASSUME Init PROVE OneEventLostPerFault
      BY RowsAwaitedInit, DigestInit
    <2>1. Lost = {}
      BY DEF Init, Lost
    <2>2. Cardinality(Lost) = 0
      BY <2>1, FS_EmptySet
    <2>3. QED
      BY <2>2 DEF Init, OneEventLostPerFault, Lost
  <1>2. /\ Inv /\ RowsAwaited /\ [Next]_vars => RowsAwaited'
        /\ Inv /\ RowsAwaited /\ [Next]_vars /\ OneEventLostPerFault => OneEventLostPerFault'
        /\ Inv /\ Digest /\ [Next]_vars => Digest'
    BY RowsAwaitedStep, LossCounted, DigestStands
  <1>3. Digest => PunctualItemsTold
    BY DEF Digest, DigestsKnown, PunctualItemsTold, Early
  <1>4. Spec => [](RowsAwaited /\ OneEventLostPerFault /\ Digest)
    BY <1>1, <1>2, InvHolds, PTL DEF Spec
  <1>5. QED
    BY <1>3, <1>4, PTL DEF LossesExplained

=============================================================================
