----------------------------- MODULE Work_proofs -----------------------------
(***************************************************************************)
(* What people work on and when.                                           *)
(*                                                                         *)
(* Tasks and their review rounds for any number of tasks, users, requests  *)
(* and rounds: the review of a task agrees with its rounds, and a status   *)
(* changes along its table, unless a write landed on a row that was no     *)
(* longer the one it had read; and the tree of tasks is one, with the      *)
(* notices that a parent is ready.                                         *)
(*                                                                         *)
(* The timesheets and the leave of an employee for any number of bookings, *)
(* of requests in flight and of days: work never overlaps other work, the  *)
(* locks of the days are always granted, and what clashes or is edited     *)
(* late has the overlap that explains it.                                  *)
(***************************************************************************)
EXTENDS TaskWork, WorkCalendar, WellFoundedInduction, TLAPS

-----------------------------------------------------------------------------
(* Tasks                                                                   *)

(***************************************************************************)
(* A free row has no rounds, and a request has read a row that was there;  *)
(* when it has counted the subtasks, the row it read may be finished.      *)
(***************************************************************************)
FreeIsNew == \A t \in Tasks : task[t].status = "FREE" => rounds[t] = <<>>
SeenThere ==
  \A r \in Requests : req[r].step = "read" =>
    /\ req[r].seen.status \in Statuses
    /\ req[r].counted => MayMove(req[r].seen.status, "DONE")

IInv == TaskInv /\ FreeIsNew /\ SeenThere

Reqs == [step : {"idle", "read", "tell"}, task : Tasks \cup {None},
         seen : Rows, counted : BOOLEAN, kids : SUBSET Tasks, round : Nat]

LEMMA Types ==
  /\ TypeOK <=>
       /\ task \in [Tasks -> Rows] /\ rounds \in [Tasks -> Seq(Round)]
       /\ req \in [Requests -> Reqs]
       /\ \A r \in Requests : req[r].step # "idle" => req[r].task \in Tasks
       /\ told \subseteq Tasks /\ overtaken \subseteq Tasks /\ unheard \subseteq Tasks
  /\ TypeOK' <=>
       /\ task' \in [Tasks -> Rows] /\ rounds' \in [Tasks -> Seq(Round)]
       /\ req' \in [Requests -> Reqs]
       /\ \A r \in Requests : req'[r].step # "idle" => req'[r].task \in Tasks
       /\ told' \subseteq Tasks /\ overtaken' \subseteq Tasks /\ unheard' \subseteq Tasks
BY DEF TypeOK, Reqs

LEMMA FreeRowType ==
  /\ FreeRow \in Rows /\ FreeRow.status = "FREE" /\ FreeRow.review = "NOT_REQUIRED"
BY DEF FreeRow, Rows, Reviews

LEMMA IdleReqType == IdleReq \in Reqs /\ IdleReq.step = "idle"
BY FreeRowType DEF IdleReq, Reqs

LEMMA StatusTable ==
  /\ "FREE" \notin Statuses /\ "DONE" \notin Open /\ "FREE" \notin Open
  /\ \A s : s \in Closed => s \in Statuses /\ s \notin Open
  /\ \A s : s \in Open => s \in Statuses /\ s \notin Closed
  /\ \A from \in Closed : \A to : MayMove(from, to) => from = to
BY DEF Statuses, Open, Closed, MayMove

LEMMA InitInv == Init => IInv
<1> SUFFICES ASSUME Init PROVE IInv
  OBVIOUS
<1>1. /\ task = [t \in Tasks |-> FreeRow] /\ rounds = [t \in Tasks |-> <<>>]
      /\ req = [r \in Requests |-> IdleReq]
      /\ told = {} /\ overtaken = {} /\ unheard = {}
  BY DEF Init
<1>2. \A t \in Tasks : task[t] = FreeRow /\ rounds[t] = <<>>
  BY <1>1
<1>3. \A r \in Requests : req[r].step = "idle"
  BY <1>1, IdleReqType
<1>4. TypeOK
  <2>1. rounds \in [Tasks -> Seq(Round)]
    BY <1>1
  <2>2. QED
    BY <1>1, <1>3, <2>1, FreeRowType, IdleReqType, Types
<1>5. ApprovalIsReal
  BY <1>2, FreeRowType DEF ApprovalIsReal
<1>6. PendingInStep
  BY <1>2, FreeRowType DEF PendingInStep, Pending
<1>7. FreeIsNew /\ SeenThere
  BY <1>2, <1>3 DEF FreeIsNew, SeenThere
<1>8. QED
  BY <1>4, <1>5, <1>6, <1>7 DEF IInv, TaskInv

(***************************************************************************)
(* What a step does to a status.                                           *)
(***************************************************************************)
StepKept ==
  /\ \A t \in Tasks :
       task[t].status \in Closed /\ task'[t].status # task[t].status =>
         task'[t].status = "FREE" \/ t \in overtaken'
  /\ \A t \in Tasks :
       /\ task[t].status \in Open /\ task'[t].status = "DONE"
       /\ task[t].requires
       => task[t].review = "APPROVED" \/ t \in overtaken'

StepSound == IInv' /\ StepKept

(***************************************************************************)
(* Steps that leave the rows and the rounds alone.                         *)
(***************************************************************************)
LEMMA QuietStep ==
  ASSUME IInv, NEW r \in Requests, NEW next \in Reqs, req' = [req EXCEPT ![r] = next],
         next.step # "idle" => next.task \in Tasks,
         next.step = "read" =>
           /\ next.seen.status \in Statuses
           /\ next.counted => MayMove(next.seen.status, "DONE"),
         UNCHANGED <<task, rounds, overtaken>>, told' \subseteq Tasks, unheard' \subseteq Tasks
  PROVE  StepSound
<1>1. req \in [Requests -> Reqs]
  BY Types DEF IInv, TaskInv
<1>2. /\ req' \in [Requests -> Reqs] /\ req'[r] = next
      /\ \A q \in Requests \ {r} : req'[q] = req[q]
  BY <1>1
<1>3. TypeOK'
  BY <1>2, Types DEF IInv, TaskInv
<1>4. ApprovalIsReal' /\ PendingInStep' /\ FreeIsNew'
  BY DEF IInv, TaskInv, ApprovalIsReal, PendingInStep, Pending, FreeIsNew
<1>5. SeenThere'
  BY <1>2 DEF IInv, SeenThere
<1>6. StepKept
  BY StatusTable DEF StepKept
<1>7. QED
  BY <1>3, <1>4, <1>5, <1>6 DEF StepSound, IInv, TaskInv

LEMMA RequestFacts ==
  ASSUME IInv, NEW r \in Requests
  PROVE  /\ req \in [Requests -> Reqs] /\ req[r] \in Reqs
         /\ task \in [Tasks -> Rows] /\ rounds \in [Tasks -> Seq(Round)]
         /\ req[r].step # "idle" => req[r].task \in Tasks
         /\ req[r].step = "read" =>
              /\ req[r].seen \in Rows /\ req[r].seen.status \in Statuses
              /\ req[r].counted => MayMove(req[r].seen.status, "DONE")
         /\ told \subseteq Tasks /\ overtaken \subseteq Tasks /\ unheard \subseteq Tasks
BY Types DEF IInv, TaskInv, SeenThere, Reqs

LEMMA QuietSteps ==
  ASSUME IInv, NEW r \in Requests,
         \/ Read(r) \/ CountSubtasks(r) \/ FindPendingRound(r) \/ Fail(r)
         \/ Reschedule(r) \/ TellParent(r)
  PROVE  StepSound
<1>1. CASE Read(r)
  <2>1. PICK t \in Tasks :
          /\ Live(t) /\ UNCHANGED <<task, rounds, told, overtaken, unheard>>
          /\ req' = [req EXCEPT ![r] = [IdleReq EXCEPT !.step = "read", !.task = t,
                                                       !.seen = task[t]]]
    BY <1>1 DEF Read
  <2> DEFINE next == [IdleReq EXCEPT !.step = "read", !.task = t, !.seen = task[t]]
  <2>2. task[t] \in Rows
    BY RequestFacts
  <2>3. next \in Reqs /\ next.task = t /\ next.seen = task[t] /\ next.counted = FALSE
    BY <2>2 DEF IdleReq, Reqs
  <2> HIDE DEF next
  <2>4. next.seen.status \in Statuses /\ req' = [req EXCEPT ![r] = next]
    BY <2>1, <2>3 DEF Live, next
  <2>5. QED
    BY <2>1, <2>3, <2>4, RequestFacts, QuietStep
<1>2. CASE CountSubtasks(r)
  <2> DEFINE next == [req[r] EXCEPT !.counted = TRUE, !.kids = OpenKids(req[r].task)]
  <2>1. /\ req' = [req EXCEPT ![r] = next]
        /\ req[r].step = "read" /\ UNCHANGED <<task, rounds, told, overtaken, unheard>>
        /\ MayMove(req[r].seen.status, "DONE")
    BY <1>2, RequestFacts DEF CountSubtasks
  <2>2. OpenKids(req[r].task) \subseteq Tasks
    BY DEF OpenKids, Children
  <2>3. next \in Reqs /\ next.task = req[r].task /\ next.seen = req[r].seen
    BY <2>2, RequestFacts DEF Reqs
  <2> HIDE DEF next
  <2>4. QED
    BY <2>1, <2>3, RequestFacts, QuietStep
<1>3. CASE FindPendingRound(r)
  <2>1. PICK i \in Pending(req[r].task) :
          /\ req' = [req EXCEPT ![r].round = i]
          /\ req[r].step = "read" /\ UNCHANGED <<task, rounds, told, overtaken, unheard>>
    BY <1>3 DEF FindPendingRound
  <2> DEFINE next == [req[r] EXCEPT !.round = i]
  <2>2. rounds[req[r].task] \in Seq(Round)
    BY <2>1, RequestFacts
  <2>3. i \in Nat
    BY <2>2 DEF Pending
  <2>4. /\ next \in Reqs /\ next.task = req[r].task /\ next.seen = req[r].seen
        /\ next.counted = req[r].counted
    BY <2>3, RequestFacts DEF Reqs
  <2>5. req' = [req EXCEPT ![r] = next]
    BY <2>1, RequestFacts
  <2> HIDE DEF next
  <2>6. QED
    BY <2>1, <2>4, <2>5, RequestFacts, QuietStep
<1>4. CASE Fail(r)
  <2>1. /\ req' = [req EXCEPT ![r] = IdleReq] /\ UNCHANGED <<task, rounds, told, overtaken>>
        /\ unheard' \subseteq Tasks
    BY <1>4, RequestFacts DEF Fail
  <2>2. QED
    BY <2>1, IdleReqType, RequestFacts, QuietStep
<1>5. CASE Reschedule(r)
  <2>1. /\ req' = [req EXCEPT ![r] = IdleReq]
        /\ UNCHANGED <<task, rounds, told, overtaken, unheard>>
    BY <1>5 DEF Reschedule
  <2>2. QED
    BY <2>1, IdleReqType, RequestFacts, QuietStep
<1>6. CASE TellParent(r)
  <2>1. /\ req' = [req EXCEPT ![r] = IdleReq] /\ UNCHANGED <<task, rounds, overtaken>>
        /\ unheard' \subseteq Tasks /\ told' \subseteq Tasks
    BY <1>6, RequestFacts DEF TellParent
  <2>2. QED
    BY <2>1, IdleReqType, QuietStep
<1>7. QED
  BY <1>1, <1>2, <1>3, <1>4, <1>5, <1>6

(***************************************************************************)
(* Writes by id.                                                           *)
(***************************************************************************)
LEMMA Finished ==
  ASSUME IInv, NEW r \in Requests, req[r].step = "read", NEW row \in Rows, NEW late,
         NEW tells \in BOOLEAN, Finish(r, row, late, tells)
  PROVE  LET t == req[r].task IN
         /\ task' \in [Tasks -> Rows] /\ task'[t] = row
         /\ \A q \in Tasks \ {t} : task'[q] = task[q]
         /\ req' \in [Requests -> Reqs] /\ req'[r].step # "read"
         /\ \A q \in Requests \ {r} : req'[q] = req[q]
         /\ \A q \in Requests : req'[q].step # "idle" => req'[q].task \in Tasks
         /\ overtaken \subseteq overtaken' /\ overtaken' \subseteq Tasks
         /\ Overtaken(r) => t \in overtaken'
         /\ told' \subseteq Tasks /\ unheard' \subseteq Tasks
<1> DEFINE t == req[r].task
           p == task[t].parent
           next == IF tells /\ p # None THEN [IdleReq EXCEPT !.step = "tell", !.task = p] ELSE IdleReq
<1>1. /\ t \in Tasks /\ task \in [Tasks -> Rows] /\ req \in [Requests -> Reqs]
      /\ p \in Tasks \cup {None} /\ told \subseteq Tasks /\ overtaken \subseteq Tasks
      /\ unheard \subseteq Tasks
      /\ \A q \in Requests : req[q].step # "idle" => req[q].task \in Tasks
  BY RequestFacts DEF Rows
<1>2. task' = [task EXCEPT ![t] = row] /\ req' = [req EXCEPT ![r] = next]
  BY DEF Finish
<1>3. /\ next \in Reqs /\ next.step # "read" /\ (next.step # "idle" => next.task \in Tasks)
  <2>1. CASE tells /\ p # None
    <3>1. /\ [IdleReq EXCEPT !.step = "tell", !.task = p] \in Reqs
          /\ [IdleReq EXCEPT !.step = "tell", !.task = p].step = "tell"
          /\ [IdleReq EXCEPT !.step = "tell", !.task = p].task = p
      BY <1>1, FreeRowType DEF IdleReq, Reqs
    <3>2. QED
      BY <1>1, <2>1, <3>1
  <2>2. CASE ~(tells /\ p # None)
    BY <2>2, IdleReqType
  <2>3. QED
    BY <2>1, <2>2
<1> HIDE DEF next
<1>4. task' \in [Tasks -> Rows] /\ task'[t] = row /\ \A q \in Tasks \ {t} : task'[q] = task[q]
  BY <1>1, <1>2
<1>5. /\ req' \in [Requests -> Reqs] /\ req'[r].step # "read"
      /\ \A q \in Requests \ {r} : req'[q] = req[q]
      /\ \A q \in Requests : req'[q].step # "idle" => req'[q].task \in Tasks
  BY <1>1, <1>2, <1>3
<1>6. /\ overtaken \subseteq overtaken' /\ overtaken' \subseteq Tasks
      /\ Overtaken(r) => t \in overtaken'
  BY <1>1 DEF Finish
<1>7. told' \subseteq Tasks
  BY <1>1 DEF Finish
<1>8. unheard' \subseteq Tasks
  BY <1>1 DEF Finish
<1>9. QED
  BY <1>4, <1>5, <1>6, <1>7, <1>8

\* The rounds after a cancellation under review
Cancelled(t) ==
  [rounds EXCEPT ![t] = [i \in DOMAIN rounds[t] |->
     IF i \in Pending(t) THEN [rounds[t][i] EXCEPT !.decision = "CANCELLED"]
                         ELSE rounds[t][i]]]

LEMMA CancelledRounds ==
  ASSUME IInv, NEW t \in Tasks, rounds' = Cancelled(t)
  PROVE  /\ rounds' \in [Tasks -> Seq(Round)] /\ Pending(t)' = {}
         /\ \A q \in Tasks \ {t} : rounds'[q] = rounds[q]
         /\ DOMAIN rounds'[t] = DOMAIN rounds[t]
         /\ \A i \in DOMAIN rounds[t] :
              rounds[t][i].decision # "PENDING" => rounds'[t][i] = rounds[t][i]
<1> DEFINE drop(i) == [rounds[t][i] EXCEPT !.decision = "CANCELLED"]
           new == [i \in DOMAIN rounds[t] |-> IF i \in Pending(t) THEN drop(i) ELSE rounds[t][i]]
<1>1. rounds \in [Tasks -> Seq(Round)] /\ rounds[t] \in Seq(Round)
  BY Types DEF IInv, TaskInv
<1>2. \A i \in DOMAIN rounds[t] :
        /\ rounds[t][i] \in Round /\ drop(i) \in Round /\ drop(i).decision = "CANCELLED"
  <2> SUFFICES ASSUME NEW i \in DOMAIN rounds[t]
               PROVE  rounds[t][i] \in Round /\ drop(i) \in Round /\ drop(i).decision = "CANCELLED"
    OBVIOUS
  <2>1. rounds[t][i] \in Round
    BY <1>1
  <2>2. QED
    BY <2>1 DEF Round
<1>3. rounds' = [rounds EXCEPT ![t] = new]
  BY DEF Cancelled
<1> HIDE DEF drop
<1>4. \A i \in DOMAIN rounds[t] : new[i] = IF i \in Pending(t) THEN drop(i) ELSE rounds[t][i]
  OBVIOUS
<1>5. new \in Seq(Round) /\ DOMAIN new = DOMAIN rounds[t]
  <2>1. DOMAIN rounds[t] = 1..Len(rounds[t]) /\ Len(rounds[t]) \in Nat
    BY <1>1
  <2>2. new \in [1..Len(rounds[t]) -> Round]
    BY <1>2, <2>1
  <2>3. QED
    BY <2>1, <2>2
<1> HIDE DEF new
<1>6. rounds' \in [Tasks -> Seq(Round)] /\ rounds'[t] = new
      /\ \A q \in Tasks \ {t} : rounds'[q] = rounds[q]
  BY <1>1, <1>3, <1>5
<1>7. Pending(t)' = {}
  BY <1>2, <1>4, <1>5, <1>6 DEF Pending
<1>8. QED
  BY <1>4, <1>5, <1>6, <1>7 DEF Pending

\* A write by id keeps the invariant when an approval is not made, when a
\* write on a true reading leaves no pending round behind, and when it
\* finishes only what is approved.
LEMMA WriteSound ==
  ASSUME IInv, NEW r \in Requests, req[r].step = "read", NEW t, t = req[r].task,
         NEW row \in Rows, row.status \in Statuses, NEW late, NEW tells \in BOOLEAN,
         Finish(r, row, late, tells), rounds' = rounds \/ rounds' = Cancelled(t),
         row.review = "APPROVED" =>
           task[t].review = "APPROVED" /\ row.reviewer = task[t].reviewer,
         ~Overtaken(r) =>
           /\ row.review = "PENDING_REVIEW" =>
                /\ task[t].review = "PENDING_REVIEW" /\ row.reviewer = task[t].reviewer
                /\ rounds' = rounds
           /\ row.review # "PENDING_REVIEW" =>
                task[t].review # "PENDING_REVIEW" \/ rounds' = Cancelled(t)
           /\ task[t].status \in Closed => row.status = task[t].status
           /\ task[t].status \in Open /\ row.status = "DONE" /\ task[t].requires =>
                task[t].review = "APPROVED"
  PROVE  StepSound
<1>1. /\ t \in Tasks /\ task' \in [Tasks -> Rows] /\ task'[t] = row
      /\ \A q \in Tasks \ {t} : task'[q] = task[q]
      /\ req' \in [Requests -> Reqs] /\ req'[r].step # "read"
      /\ \A q \in Requests \ {r} : req'[q] = req[q]
      /\ \A q \in Requests : req'[q].step # "idle" => req'[q].task \in Tasks
      /\ overtaken \subseteq overtaken' /\ overtaken' \subseteq Tasks
      /\ Overtaken(r) => t \in overtaken'
      /\ told' \subseteq Tasks /\ unheard' \subseteq Tasks
  BY Finished, RequestFacts
<1>2. /\ rounds' \in [Tasks -> Seq(Round)]
      /\ \A q \in Tasks \ {t} : rounds'[q] = rounds[q]
      /\ DOMAIN rounds'[t] = DOMAIN rounds[t]
      /\ \A i \in DOMAIN rounds[t] :
           rounds[t][i].decision # "PENDING" => rounds'[t][i] = rounds[t][i]
      /\ rounds' = Cancelled(t) => Pending(t)' = {}
      /\ rounds' = rounds => Pending(t)' = Pending(t)
  BY <1>1, CancelledRounds, RequestFacts DEF Pending
<1>3. TypeOK'
  BY <1>1, <1>2, Types
<1>4. ApprovalIsReal'
  <2> SUFFICES ASSUME NEW q \in Tasks, task'[q].review = "APPROVED"
               PROVE  \E i \in DOMAIN rounds'[q] :
                        /\ rounds'[q][i].decision = "APPROVED"
                        /\ rounds'[q][i].reviewer = task'[q].reviewer \/ q \in overtaken'
    BY DEF ApprovalIsReal
  <2>1. task[q].review = "APPROVED" /\ task'[q].reviewer = task[q].reviewer
    BY <1>1
  <2>2. PICK i \in DOMAIN rounds[q] :
          /\ rounds[q][i].decision = "APPROVED"
          /\ rounds[q][i].reviewer = task[q].reviewer \/ q \in overtaken
    BY <2>1 DEF IInv, TaskInv, ApprovalIsReal
  <2>3. rounds'[q][i] = rounds[q][i] /\ i \in DOMAIN rounds'[q]
    BY <1>2, <2>2
  <2>4. QED
    BY <1>1, <2>1, <2>2, <2>3
<1>5. ASSUME NEW q \in Tasks \ overtaken'
      PROVE  IF task'[q].review = "PENDING_REVIEW"
               THEN \E i \in DOMAIN rounds'[q] :
                      Pending(q)' = {i} /\ rounds'[q][i].reviewer = task'[q].reviewer
               ELSE Pending(q)' = {}
  <2>1. IF task[q].review = "PENDING_REVIEW"
          THEN \E i \in DOMAIN rounds[q] :
                 Pending(q) = {i} /\ rounds[q][i].reviewer = task[q].reviewer
          ELSE Pending(q) = {}
    BY <1>1 DEF IInv, TaskInv, PendingInStep
  <2>2. CASE q # t
    <3>1. rounds'[q] = rounds[q] /\ task'[q] = task[q]
      BY <1>1, <1>2, <2>2
    <3>2. Pending(q)' = Pending(q)
      BY <3>1 DEF Pending
    <3>3. QED
      BY <2>1, <3>1, <3>2
  <2>3. CASE q = t
    <3>1. ~Overtaken(r)
      BY <1>1, <2>3
    <3>2. CASE row.review = "PENDING_REVIEW"
      BY <1>1, <1>2, <2>1, <2>3, <3>1, <3>2
    <3>3. CASE row.review # "PENDING_REVIEW"
      BY <1>1, <1>2, <2>1, <2>3, <3>1, <3>3
    <3>4. QED
      BY <3>2, <3>3
  <2>4. QED
    BY <2>2, <2>3
<1>6. PendingInStep'
  BY <1>5 DEF PendingInStep
<1>7. FreeIsNew'
  BY SMTT(40), <1>1, <1>2, StatusTable DEF IInv, FreeIsNew
<1>8. SeenThere'
  BY <1>1 DEF IInv, SeenThere
<1>9. StepKept
  <2>1. ASSUME NEW q \in Tasks, task[q].status \in Closed, task'[q].status # task[q].status
        PROVE  q \in overtaken'
    BY <1>1, <2>1
  <2>2. ASSUME NEW q \in Tasks, task[q].status \in Open, task'[q].status = "DONE",
               task[q].requires
        PROVE  task[q].review = "APPROVED" \/ q \in overtaken'
    BY <1>1, <2>2, StatusTable
  <2>3. QED
    BY <2>1, <2>2 DEF StepKept
<1>10. QED
  BY <1>3, <1>4, <1>6, <1>7, <1>8, <1>9 DEF StepSound, IInv, TaskInv

LEMMA ChangeStatusSound ==
  ASSUME IInv, NEW r \in Requests, ChangeStatus(r)
  PROVE  StepSound
<1> DEFINE t == req[r].task
           seen == req[r].seen
<1>1. req[r].step = "read" /\ Live(t)
  BY DEF ChangeStatus, Deciding
<1>2. t \in Tasks /\ task[t] \in Rows /\ seen \in Rows
  BY <1>1, RequestFacts
<1>3. PICK s \in Asked(r) :
        LET drops == s = "CANCELLED" /\ seen.review = "PENDING_REVIEW" IN
        /\ MayMove(seen.status, s)
        /\ s = "DONE" => ReviewAllows(seen)
        /\ rounds' = IF drops THEN Cancelled(t) ELSE rounds
        /\ Finish(r, [task[t] EXCEPT !.status = s, !.review = IF drops THEN Withdrawn(seen) ELSE @],
                  LateKids(r), s \in Closed)
  BY DEF ChangeStatus, Cancelled
<1> DEFINE drops == s = "CANCELLED" /\ seen.review = "PENDING_REVIEW"
           review == IF drops THEN Withdrawn(seen) ELSE task[t].review
           row == [task[t] EXCEPT !.status = s, !.review = review]
           tells == s \in Closed
<1>4. s \in Statuses
  BY <1>3, StatusTable DEF Asked, Statuses, Closed
<1>5. review \in Reviews /\ (drops => review \in {"DRAFT", "NOT_REQUIRED"})
  BY <1>2 DEF Withdrawn, Rows, Reviews
<1>6. /\ row \in Rows /\ row.status = s /\ row.review = review
      /\ row.reviewer = task[t].reviewer
  BY <1>2, <1>4, <1>5 DEF Rows
<1>7. tells \in BOOLEAN /\ Finish(r, row, LateKids(r), tells)
  BY <1>3
<1>8. rounds' = IF drops THEN Cancelled(t) ELSE rounds
  BY <1>3
<1>9. ~Overtaken(r) => seen = task[t]
  BY DEF Overtaken
<1> HIDE DEF t, row, tells, review
<1>10. row.review = "APPROVED" => task[t].review = "APPROVED"
  BY <1>5, <1>6 DEF review
<1>11. ~Overtaken(r) =>
        /\ row.review = "PENDING_REVIEW" => task[t].review = "PENDING_REVIEW" /\ rounds' = rounds
        /\ row.review # "PENDING_REVIEW" =>
             task[t].review # "PENDING_REVIEW" \/ rounds' = Cancelled(t)
  BY <1>5, <1>6, <1>8 DEF review
<1>12. ~Overtaken(r) =>
        /\ task[t].status \in Closed => row.status = task[t].status
        /\ row.status = "DONE" /\ task[t].requires => task[t].review = "APPROVED"
  BY <1>3, <1>6, <1>9, StatusTable DEF ReviewAllows
<1>13. QED
  BY <1>1, <1>2, <1>4, <1>6, <1>7, <1>8, <1>10, <1>11, <1>12, WriteSound DEF t

LEMMA CompleteSound ==
  ASSUME IInv, NEW r \in Requests, Complete(r)
  PROVE  StepSound
<1> DEFINE t == req[r].task
           seen == req[r].seen
           row == [task[t] EXCEPT !.status = "DONE"]
<1>1. /\ req[r].step = "read" /\ req[r].counted /\ ReviewAllows(seen)
      /\ Finish(r, row, LateKids(r), TRUE) /\ rounds' = rounds
  BY DEF Complete, Deciding
<1>2. t \in Tasks /\ task[t] \in Rows /\ seen \in Rows /\ MayMove(seen.status, "DONE")
  BY <1>1, RequestFacts
<1>3. /\ row \in Rows /\ row.status = "DONE" /\ row.review = task[t].review
      /\ row.reviewer = task[t].reviewer
  BY <1>2 DEF Rows, Statuses, Closed
<1>4. ~Overtaken(r) => seen = task[t]
  BY DEF Overtaken
<1> HIDE DEF t, row
<1>5. ~Overtaken(r) =>
        /\ task[t].status \in Closed => row.status = task[t].status
        /\ row.status = "DONE" /\ task[t].requires => task[t].review = "APPROVED"
  BY <1>1, <1>2, <1>3, <1>4, StatusTable DEF ReviewAllows
<1>6. row.status \in Statuses
  BY <1>3 DEF Statuses, Closed
<1>7. QED
  BY <1>1, <1>2, <1>3, <1>5, <1>6, WriteSound DEF t

LEMMA ReassignSound ==
  ASSUME IInv, NEW r \in Requests, Reassign(r)
  PROVE  StepSound
<1> DEFINE t == req[r].task
           seen == req[r].seen
<1>1. /\ req[r].step = "read" /\ Live(t) /\ seen.status \in Open /\ rounds' = rounds
  BY DEF Reassign, Deciding
<1>2. t \in Tasks /\ task[t] \in Rows /\ seen \in Rows
  BY <1>1, RequestFacts
<1> DEFINE review == IF seen.requires /\ seen.review = "APPROVED" THEN "DRAFT" ELSE task[t].review
<1>3. PICK to \in Users \cup {None} :
        Finish(r, [task[t] EXCEPT !.assignee = to, !.review = review], {}, FALSE)
  BY DEF Reassign
<1> DEFINE row == [task[t] EXCEPT !.assignee = to, !.review = review]
<1>4. review \in Reviews /\ review \in {"DRAFT", task[t].review}
  BY <1>2 DEF Rows, Reviews
<1>5. /\ row \in Rows /\ row.status = task[t].status /\ row.review = review
      /\ row.reviewer = task[t].reviewer
  BY ZenonT(40), <1>2, <1>4 DEF Rows
<1>6. Finish(r, row, {}, FALSE)
  BY <1>3
<1>7. ~Overtaken(r) => seen = task[t]
  BY DEF Overtaken
<1>8. task[t].status \in Statuses
  BY <1>1 DEF Live
<1>9. ~Overtaken(r) => (review # task[t].review => task[t].review = "APPROVED")
  BY <1>7
<1> HIDE DEF t, row, review
<1>10. QED
  BY ZenonT(40), <1>1, <1>2, <1>4, <1>5, <1>6, <1>8, <1>9, StatusTable, WriteSound DEF t

LEMMA ConfigurationTypes ==
  ASSUME NEW seen \in Rows, NEW c \in Configurations(seen)
  PROVE  c.requires \in BOOLEAN /\ c.reviewer \in Users \cup {None}
<1>1. seen.requires \in BOOLEAN /\ seen.reviewer \in Users \cup {None}
  BY DEF Rows
<1>2. ASSUME NEW q, NEW v \in Reviewers \cup {None}
      PROVE  /\ Configured(seen, q, v).requires \in BOOLEAN
             /\ Configured(seen, q, v).reviewer \in Users \cup {None}
  <2>1. (q = "on") \in BOOLEAN
    OBVIOUS
  <2>2. Configured(seen, q, v).requires = IF q = "keep" THEN seen.requires ELSE q = "on"
    BY Zenon DEF Configured
  <2>3. Configured(seen, q, v).requires \in BOOLEAN
    BY <1>1, <2>1, <2>2, Zenon
  <2>4. Configured(seen, q, v).reviewer =
          IF q = "off" THEN None ELSE IF v # None THEN v ELSE seen.reviewer
    BY Zenon DEF Configured
  <2>5. v \in Users \cup {None}
    BY TaskWorkAssumption
  <2>6. Configured(seen, q, v).reviewer \in Users \cup {None}
    BY <1>1, <2>4, <2>5, Zenon
  <2>7. QED
    BY <2>3, <2>6
<1>3. QED
  BY <1>2 DEF Configurations

\* What a call of update writes is one of its rows.
LEMMA SomeUpdatedRow ==
  ASSUME NEW r \in Requests, Update(r)
  PROVE  \E s \in NewStatuses(r), configures \in BOOLEAN, a \in Assignments(r),
            edit \in BOOLEAN :
           \E c \in Settled(req[r].seen, configures,
                           IF a.named THEN a.to ELSE req[r].seen.assignee) :
             Finish(r, UpdatedRow(r, s, configures, c, a, edit \/ a.named), LateKids(r), FALSE)
<1>1. PICK row \in UpdatedRows(r) : Finish(r, row, LateKids(r), FALSE)
  BY DEF Update
<1>2. PICK a \in Assignments(r), configures \in BOOLEAN,
           edit \in {x \in BOOLEAN : x => req[r].seen.review = "APPROVED"} :
        row \in {UpdatedRow(r, s, configures, c, a, edit \/ a.named) :
                   s \in NewStatuses(r),
                   c \in Settled(req[r].seen, configures,
                                 IF a.named THEN a.to ELSE req[r].seen.assignee)}
  BY <1>1 DEF UpdatedRows
<1>3. PICK s \in NewStatuses(r),
           c \in Settled(req[r].seen, configures,
                         IF a.named THEN a.to ELSE req[r].seen.assignee) :
        row = UpdatedRow(r, s, configures, c, a, edit \/ a.named)
  BY <1>2
<1>4. Finish(r, UpdatedRow(r, s, configures, c, a, edit \/ a.named), LateKids(r), FALSE)
  BY <1>1, <1>3
<1>5. QED
  BY <1>3, <1>4

LEMMA UpdateSound ==
  ASSUME IInv, NEW r \in Requests, Update(r)
  PROVE  StepSound
<1> DEFINE t == req[r].task
           seen == req[r].seen
<1>1. req[r].step = "read" /\ Live(t) /\ rounds' = rounds
  BY DEF Update, Deciding
<1>2. t \in Tasks /\ task[t] \in Rows /\ seen \in Rows /\ seen.status \in Statuses
  BY <1>1, RequestFacts
<1>3. PICK s \in NewStatuses(r), configures \in BOOLEAN, a \in Assignments(r),
           edit \in BOOLEAN :
        \E c \in Settled(seen, configures, IF a.named THEN a.to ELSE seen.assignee) :
          Finish(r, UpdatedRow(r, s, configures, c, a, edit \/ a.named), LateKids(r), FALSE)
  BY SomeUpdatedRow
<1>4. PICK c \in Settled(seen, configures, IF a.named THEN a.to ELSE seen.assignee) :
        Finish(r, UpdatedRow(r, s, configures, c, a, edit \/ a.named), LateKids(r), FALSE)
  BY <1>3
<1>a. /\ c \in IF configures THEN Configurations(seen)
               ELSE {[requires |-> seen.requires, reviewer |-> seen.reviewer]}
      /\ configures => Reconfigurable(seen)
  BY <1>4 DEF Settled
<1>b. /\ s \in IF req[r].counted THEN {"DONE"} ELSE {"keep", "TODO", "IN_PROGRESS"}
      /\ s # "keep" => MayMove(seen.status, s)
      /\ s = "DONE" => ReviewAllows(seen)
  BY <1>3 DEF NewStatuses
<1>5. c.requires \in BOOLEAN /\ c.reviewer \in Users \cup {None}
  BY <1>2, <1>a, ConfigurationTypes DEF Rows
<1>6. a.to \in Users \cup {None} /\ a.named \in BOOLEAN
  <2>1. Rescoped(seen) \subseteq Users \cup {None} /\ task[t].assignee \in Users \cup {None}
    BY <1>2 DEF Rescoped, Rows
  <2>2. QED
    BY <1>3, <2>1 DEF Assignments
<1> DEFINE status   == IF s = "keep" THEN task[t].status ELSE s
           requires == IF configures THEN c.requires ELSE task[t].requires
           reviewer == IF configures THEN c.reviewer ELSE task[t].reviewer
           sensitive == edit \/ a.named
           review   == ReviewAfter(seen, task[t].review, configures, c.requires, sensitive)
           row == [task[t] EXCEPT !.status = status, !.requires = requires,
                                  !.reviewer = reviewer, !.assignee = a.to, !.review = review]
<1>7. sensitive \in BOOLEAN /\ task[t].review \in Reviews
  BY <1>2, <1>6 DEF Rows
<1> HIDE DEF sensitive
<1>8. /\ review \in Reviews /\ review \in {"DRAFT", "NOT_REQUIRED", task[t].review}
      /\ configures => review \in {"DRAFT", "NOT_REQUIRED"}
      /\ ~configures /\ review # task[t].review => seen.review = "APPROVED"
  <2>1. review = ReviewAfter(seen, task[t].review, configures, c.requires, sensitive)
    OBVIOUS
  <2>2. ASSUME configures
        PROVE  review \in {"DRAFT", "NOT_REQUIRED"}
    BY <2>1, <2>2, Zenon DEF ReviewAfter
  <2>3. ASSUME ~configures
        PROVE  (review = "DRAFT" /\ seen.review = "APPROVED") \/ review = task[t].review
    BY <2>1, <2>3, Zenon DEF ReviewAfter
  <2> HIDE DEF review
  <2>4. review \in {"DRAFT", "NOT_REQUIRED", task[t].review}
    BY <2>2, <2>3
  <2>5. review \in Reviews
    BY <1>7, <2>4 DEF Reviews
  <2>6. QED
    BY <2>2, <2>3, <2>4, <2>5
<1>9. /\ status \in Statuses /\ requires \in BOOLEAN /\ reviewer \in Users \cup {None}
      /\ ~configures => reviewer = task[t].reviewer
  BY <1>1, <1>2, <1>5, <1>b DEF Live, Rows, Statuses, Open, Closed
<1>10. Finish(r, row, LateKids(r), FALSE)
  BY <1>4 DEF sensitive, UpdatedRow
<1>11. ~Overtaken(r) => seen = task[t]
  BY DEF Overtaken
<1>12. configures => seen.review # "PENDING_REVIEW"
  BY <1>a DEF Reconfigurable
<1>13. ~Overtaken(r) => (task[t].status \in Closed => status = task[t].status)
  BY <1>b, <1>11, StatusTable
<1>14. ~Overtaken(r) => (task[t].status \in Open /\ status = "DONE" /\ task[t].requires =>
                           task[t].review = "APPROVED")
  BY <1>b, <1>11, StatusTable DEF ReviewAllows
<1> HIDE DEF status, requires, reviewer, review
<1>15. /\ row \in Rows /\ row.status = status /\ row.review = review
       /\ row.reviewer = reviewer
  BY <1>2, <1>6, <1>8, <1>9 DEF Rows
<1> HIDE DEF t, row, seen
<1>16. row.review = "APPROVED" =>
         task[t].review = "APPROVED" /\ row.reviewer = task[t].reviewer
  BY <1>8, <1>9, <1>15
<1>17. ~Overtaken(r) =>
         /\ row.review = "PENDING_REVIEW" =>
              task[t].review = "PENDING_REVIEW" /\ row.reviewer = task[t].reviewer
         /\ row.review # "PENDING_REVIEW" => task[t].review # "PENDING_REVIEW"
  BY <1>8, <1>9, <1>11, <1>12, <1>15
<1>18. QED
  BY <1>1, <1>2, <1>9, <1>10, <1>13, <1>14, <1>15, <1>16, <1>17, WriteSound DEF t

(***************************************************************************)
(* Tasks come and go.                                                      *)
(***************************************************************************)
\* A row appears, or takes its rounds along.
LEMMA RowPlaced ==
  ASSUME IInv, NEW c \in Tasks, NEW row \in Rows, task' = [task EXCEPT ![c] = row],
         row.review \in {"DRAFT", "NOT_REQUIRED"},
         rounds' = [rounds EXCEPT ![c] = <<>>],
         task[c].status = "FREE" \/ row.status = "FREE",
         req' \in [Requests -> Reqs],
         \A q \in Requests : req'[q].step = "idle" \/ req'[q] = req[q],
         \A q \in Tasks \ {c} : q \in overtaken => q \in overtaken',
         overtaken' \subseteq Tasks, told' \subseteq Tasks, unheard' \subseteq Tasks
  PROVE  StepSound
<1>1. /\ task \in [Tasks -> Rows] /\ rounds \in [Tasks -> Seq(Round)]
      /\ \A q \in Requests : req[q].step # "idle" => req[q].task \in Tasks
  BY Types DEF IInv, TaskInv
<1>2. /\ task' \in [Tasks -> Rows] /\ task'[c] = row
      /\ \A q \in Tasks \ {c} : task'[q] = task[q]
  BY <1>1
<1>3. rounds' \in [Tasks -> Seq(Round)] /\ rounds'[c] = <<>>
      /\ \A q \in Tasks \ {c} : rounds'[q] = rounds[q]
  <2>1. <<>> \in Seq(Round)
    OBVIOUS
  <2>2. QED
    BY <1>1, <2>1
<1>4. Pending(c)' = {} /\ \A q \in Tasks \ {c} : Pending(q)' = Pending(q)
  BY <1>3 DEF Pending
<1>5. TypeOK'
  <2>1. \A q \in Requests : req'[q].step # "idle" => req'[q].task \in Tasks
    BY <1>1
  <2>2. QED
    BY <1>2, <1>3, <2>1, Types
<1>6. ApprovalIsReal'
  BY <1>2, <1>3 DEF IInv, TaskInv, ApprovalIsReal
<1>7. ASSUME NEW q \in Tasks \ overtaken'
      PROVE  IF task'[q].review = "PENDING_REVIEW"
               THEN \E i \in DOMAIN rounds'[q] :
                      Pending(q)' = {i} /\ rounds'[q][i].reviewer = task'[q].reviewer
               ELSE Pending(q)' = {}
  <2>1. CASE q = c
    BY <1>2, <1>4, <2>1
  <2>2. CASE q # c
    <3>1. IF task[q].review = "PENDING_REVIEW"
            THEN \E i \in DOMAIN rounds[q] :
                   Pending(q) = {i} /\ rounds[q][i].reviewer = task[q].reviewer
            ELSE Pending(q) = {}
      BY <2>2 DEF IInv, TaskInv, PendingInStep
    <3>2. task'[q] = task[q] /\ rounds'[q] = rounds[q] /\ Pending(q)' = Pending(q)
      BY <1>2, <1>3, <1>4, <2>2
    <3>3. QED
      BY <3>1, <3>2
  <2>3. QED
    BY <2>1, <2>2
<1>8. PendingInStep'
  BY <1>7 DEF PendingInStep
<1>9. FreeIsNew'
  BY <1>2, <1>3 DEF IInv, FreeIsNew
<1>10. SeenThere'
  <2> SUFFICES ASSUME NEW q \in Requests, req'[q].step = "read"
               PROVE  /\ req'[q].seen.status \in Statuses
                      /\ req'[q].counted => MayMove(req'[q].seen.status, "DONE")
    BY DEF SeenThere
  <2>1. req'[q] = req[q]
    OBVIOUS
  <2>2. QED
    BY <2>1 DEF IInv, SeenThere
<1>11. StepKept
  BY <1>2, StatusTable DEF StepKept, Closed, Open
<1>12. QED
  BY <1>5, <1>6, <1>8, <1>9, <1>10, <1>11 DEF StepSound, IInv, TaskInv

LEMMA FreeRounds ==
  ASSUME IInv, NEW c \in Tasks, task[c].status = "FREE", rounds' = rounds
  PROVE  rounds' = [rounds EXCEPT ![c] = <<>>]
BY Types DEF IInv, TaskInv, FreeIsNew

LEMMA CreateSound ==
  ASSUME IInv, NEW t \in Tasks, Create(t)
  PROVE  StepSound
<1>1. PICK s \in Statuses, a \in Users \cup {None}, v \in Reviewers \cup {None}, q \in BOOLEAN :
        /\ task[t].status = "FREE"
        /\ Cardinality({x \in Tasks : Live(x) /\ task[x].parent = None}) < MaxRoots
        /\ q => v # None
        /\ v # None => MayReview(v, a)
        /\ s = "DONE" => ~q
        /\ task' = [task EXCEPT ![t] =
             [status |-> s, parent |-> None, assignee |-> a, requires |-> q,
              review |-> IF q THEN "DRAFT" ELSE "NOT_REQUIRED", reviewer |-> v]]
        /\ UNCHANGED <<rounds, req, told, overtaken, unheard>>
  BY DEF Create
<1> DEFINE review == IF q THEN "DRAFT" ELSE "NOT_REQUIRED"
           row == [status |-> s, parent |-> None, assignee |-> a, requires |-> q,
                   review |-> review, reviewer |-> v]
<1>2. review \in Reviews /\ review \in {"DRAFT", "NOT_REQUIRED"}
  BY DEF Reviews
<1> HIDE DEF review
<1>3. v \in Users \cup {None}
  BY TaskWorkAssumption
<1>4. row \in Rows /\ row.review = review
  BY <1>2, <1>3 DEF Rows
<1>5. task' = [task EXCEPT ![t] = row]
  BY <1>1 DEF review
<1> HIDE DEF row
<1>6. rounds' = [rounds EXCEPT ![t] = <<>>]
  BY <1>1, FreeRounds
<1>7. /\ req \in [Requests -> Reqs] /\ told \subseteq Tasks
      /\ overtaken \subseteq Tasks /\ unheard \subseteq Tasks
  BY Types DEF IInv, TaskInv
<1>8. QED
  BY <1>1, <1>2, <1>4, <1>5, <1>6, <1>7, RowPlaced

LEMMA CreateSubtaskSound ==
  ASSUME IInv, NEW r \in Requests, CreateSubtask(r)
  PROVE  StepSound
<1> DEFINE p == req[r].task
<1>1. PICK c \in Tasks, a \in Users \cup {None} :
        /\ req[r].step = "read" /\ task[c].status = "FREE"
        /\ task' = [task EXCEPT ![c] = [FreeRow EXCEPT !.status = "TODO", !.parent = p,
                                                      !.assignee = a]]
        /\ req' = [req EXCEPT ![r] = IdleReq] /\ UNCHANGED rounds
        /\ overtaken' = IF task[p].status # req[r].seen.status THEN overtaken \cup {p}
                        ELSE overtaken
        /\ told' = told \ {p} /\ unheard' = unheard \ {p}
  BY DEF CreateSubtask, Deciding
<1>2. p \in Tasks
  BY <1>1, RequestFacts
<1> DEFINE row == [FreeRow EXCEPT !.status = "TODO", !.parent = p, !.assignee = a]
<1>3. row \in Rows /\ row.review = "NOT_REQUIRED"
  BY <1>2 DEF FreeRow, Rows, Reviews, Statuses, Open
<1>4. task' = [task EXCEPT ![c] = row]
  BY <1>1
<1> HIDE DEF row
<1>5. rounds' = [rounds EXCEPT ![c] = <<>>]
  BY <1>1, FreeRounds
<1>6. /\ req' \in [Requests -> Reqs]
      /\ \A q \in Requests : req'[q].step = "idle" \/ req'[q] = req[q]
  BY <1>1, RequestFacts, IdleReqType
<1>7. /\ overtaken' \subseteq Tasks /\ told' \subseteq Tasks /\ unheard' \subseteq Tasks
      /\ overtaken \subseteq overtaken'
  BY <1>1, <1>2, RequestFacts
<1>8. QED
  BY <1>1, <1>3, <1>4, <1>5, <1>6, <1>7, RowPlaced

LEMMA RemoveSound ==
  ASSUME IInv, NEW r \in Requests, Remove(r)
  PROVE  StepSound
<1> DEFINE t == req[r].task
           p == task[t].parent
<1>1. /\ req[r].step = "read" /\ task' = [task EXCEPT ![t] = FreeRow]
      /\ rounds' = [rounds EXCEPT ![t] = <<>>]
      /\ req' = [q \in Requests |-> IF req[q].task = t THEN IdleReq ELSE req[q]]
      /\ overtaken' = overtaken \ {t} /\ told' = told \ {t}
      /\ unheard' = IF p # None /\ OpenKids(p) = {t} THEN (unheard \ {t}) \cup {p}
                                                     ELSE unheard \ {t}
  BY DEF Remove, Deciding
<1>2. t \in Tasks /\ p \in Tasks \cup {None}
  <2>1. t \in Tasks
    BY <1>1, RequestFacts
  <2>2. task[t] \in Rows
    BY <2>1, RequestFacts
  <2>3. QED
    BY <2>1, <2>2 DEF Rows
<1>3. /\ req' \in [Requests -> Reqs]
      /\ \A q \in Requests : req'[q].step = "idle" \/ req'[q] = req[q]
  BY <1>1, RequestFacts, IdleReqType
<1>4. /\ overtaken' \subseteq Tasks /\ told' \subseteq Tasks /\ unheard' \subseteq Tasks
      /\ \A q \in Tasks \ {t} : q \in overtaken => q \in overtaken'
  BY <1>1, <1>2, RequestFacts
<1>5. QED
  BY <1>1, <1>2, <1>3, <1>4, FreeRowType, RowPlaced

(***************************************************************************)
(* The review operations.                                                  *)
(***************************************************************************)
LEMMA SubmitSound ==
  ASSUME IInv, NEW r \in Requests, SubmitReview(r)
  PROVE  StepSound
<1>0. PICK t \in Tasks : t = req[r].task /\ req[r].step = "read"
  BY RequestFacts DEF SubmitReview, Deciding
<1>1. PICK v \in Reviewers :
        /\ req[r].step = "read" /\ task[t].status \in Open
        /\ task[t].review \in {"DRAFT", "CHANGES_REQUESTED"}
        /\ task' = [task EXCEPT ![t].review = "PENDING_REVIEW", ![t].reviewer = v]
        /\ rounds' = [rounds EXCEPT ![t] =
             Append(rounds[t], [reviewer |-> v, decision |-> "PENDING"])]
        /\ req' = [req EXCEPT ![r] = IdleReq]
        /\ UNCHANGED <<told, overtaken, unheard>>
  BY <1>0 DEF SubmitReview
<1>2. /\ t \in Tasks /\ task \in [Tasks -> Rows] /\ rounds \in [Tasks -> Seq(Round)]
      /\ req \in [Requests -> Reqs] /\ v \in Users
  BY <1>1, RequestFacts, TaskWorkAssumption
<1> DEFINE new == [reviewer |-> v, decision |-> "PENDING"]
           row == [task[t] EXCEPT !.review = "PENDING_REVIEW", !.reviewer = v]
           list == Append(rounds[t], new)
           last == Len(rounds[t]) + 1
<1>3. /\ row \in Rows /\ row.status = task[t].status /\ row.review = "PENDING_REVIEW"
      /\ row.reviewer = v
  BY <1>2 DEF Rows, Reviews
<1>4. new \in Round /\ new.decision = "PENDING" /\ new.reviewer = v
  BY <1>2 DEF Round
<1>5. task' = [task EXCEPT ![t] = row] /\ rounds' = [rounds EXCEPT ![t] = list]
  BY <1>1, <1>2
<1> HIDE DEF new, row
<1>6. /\ list \in Seq(Round) /\ last \in DOMAIN list /\ list[last] = new
      /\ last \notin DOMAIN rounds[t]
      /\ DOMAIN list = DOMAIN rounds[t] \cup {last}
      /\ \A i \in DOMAIN rounds[t] : list[i] = rounds[t][i]
  BY <1>2, <1>4
<1> HIDE DEF list, last
<1>7. /\ task' \in [Tasks -> Rows] /\ task'[t] = row
      /\ \A q \in Tasks \ {t} : task'[q] = task[q]
      /\ rounds' \in [Tasks -> Seq(Round)] /\ rounds'[t] = list
      /\ \A q \in Tasks \ {t} : rounds'[q] = rounds[q]
  BY <1>2, <1>3, <1>5, <1>6
<1>8. /\ req' \in [Requests -> Reqs] /\ req'[r].step = "idle"
      /\ \A q \in Requests \ {r} : req'[q] = req[q]
  BY <1>1, <1>2, IdleReqType
<1>9. TypeOK'
  BY <1>1, <1>7, <1>8, Types DEF IInv, TaskInv
<1>10. ApprovalIsReal'
  BY <1>1, <1>3, <1>7 DEF IInv, TaskInv, ApprovalIsReal
<1>11. ASSUME NEW q \in Tasks \ overtaken'
      PROVE  IF task'[q].review = "PENDING_REVIEW"
               THEN \E i \in DOMAIN rounds'[q] :
                      Pending(q)' = {i} /\ rounds'[q][i].reviewer = task'[q].reviewer
               ELSE Pending(q)' = {}
  <2>1. IF task[q].review = "PENDING_REVIEW"
          THEN \E i \in DOMAIN rounds[q] :
                 Pending(q) = {i} /\ rounds[q][i].reviewer = task[q].reviewer
          ELSE Pending(q) = {}
    BY <1>1 DEF IInv, TaskInv, PendingInStep
  <2>2. CASE q = t
    <3>1. Pending(t) = {}
      BY <1>1, <2>1, <2>2
    <3>2. Pending(t)' = {last}
      BY <1>4, <1>6, <1>7, <3>1 DEF Pending
    <3>3. QED
      BY <1>3, <1>4, <1>6, <1>7, <2>2, <3>2
  <2>3. CASE q # t
    <3>1. task'[q] = task[q] /\ rounds'[q] = rounds[q]
      BY <1>7, <2>3
    <3>2. Pending(q)' = Pending(q)
      BY <3>1 DEF Pending
    <3>3. QED
      BY <2>1, <3>1, <3>2
  <2>4. QED
    BY <2>2, <2>3
<1>12. PendingInStep'
  BY <1>11 DEF PendingInStep
<1>13. FreeIsNew'
  BY <1>1, <1>3, <1>7, StatusTable DEF IInv, FreeIsNew
<1>14. SeenThere'
  BY <1>8 DEF IInv, SeenThere
<1>15. StepKept
  BY <1>3, <1>7, StatusTable DEF StepKept
<1>16. QED
  BY <1>9, <1>10, <1>12, <1>13, <1>14, <1>15 DEF StepSound, IInv, TaskInv

LEMMA DecideSound ==
  ASSUME IInv, NEW r \in Requests, DecideReview(r)
  PROVE  StepSound
<1>0. PICK t \in Tasks, i \in Nat : t = req[r].task /\ i = req[r].round
  BY RequestFacts DEF DecideReview, Reqs
<1>1. PICK d \in {"APPROVED", "CHANGES_REQUESTED"} :
        /\ req[r].step = "read" /\ Live(t) /\ i \in Pending(t)
        /\ task[t].review = "PENDING_REVIEW"
        /\ rounds' = [rounds EXCEPT ![t][i].decision = d]
        /\ task' = [task EXCEPT ![t].review = d]
        /\ req' = [req EXCEPT ![r] = IdleReq]
        /\ UNCHANGED <<told, overtaken, unheard>>
  BY <1>0 DEF DecideReview, Decidable
<1>2. /\ t \in Tasks /\ task \in [Tasks -> Rows] /\ rounds \in [Tasks -> Seq(Round)]
      /\ req \in [Requests -> Reqs]
  BY <1>1, RequestFacts
<1> DEFINE new == [rounds[t][i] EXCEPT !.decision = d]
           row == [task[t] EXCEPT !.review = d]
           list == [rounds[t] EXCEPT ![i] = new]
<1>3. /\ row \in Rows /\ row.status = task[t].status /\ row.review = d
      /\ row.reviewer = task[t].reviewer
  BY <1>2 DEF Rows, Reviews
<1>4. i \in DOMAIN rounds[t] /\ rounds[t] \in Seq(Round)
  BY <1>1, <1>2 DEF Pending
<1>5. rounds[t][i] \in Round
  BY <1>4
<1>6. new \in Round /\ new.decision = d /\ new.reviewer = rounds[t][i].reviewer
  BY <1>5 DEF Round
<1>7. task' = [task EXCEPT ![t] = row] /\ rounds' = [rounds EXCEPT ![t] = list]
  BY <1>1, <1>2
<1> HIDE DEF new, row
<1>8. /\ list \in Seq(Round) /\ DOMAIN list = DOMAIN rounds[t] /\ list[i] = new
      /\ \A j \in DOMAIN rounds[t] \ {i} : list[j] = rounds[t][j]
  BY <1>4, <1>6
<1> HIDE DEF list
<1>9. /\ task' \in [Tasks -> Rows] /\ task'[t] = row
      /\ \A q \in Tasks \ {t} : task'[q] = task[q]
      /\ rounds' \in [Tasks -> Seq(Round)] /\ rounds'[t] = list
      /\ \A q \in Tasks \ {t} : rounds'[q] = rounds[q]
  BY <1>2, <1>3, <1>7, <1>8
<1>10. /\ req' \in [Requests -> Reqs] /\ req'[r].step = "idle"
       /\ \A q \in Requests \ {r} : req'[q] = req[q]
  BY <1>1, <1>2, IdleReqType
<1>11. TypeOK'
  BY <1>1, <1>9, <1>10, Types DEF IInv, TaskInv
<1>12. t \notin overtaken => Pending(t) = {i} /\ rounds[t][i].reviewer = task[t].reviewer
  <2>1. PendingInStep
    BY DEF IInv, TaskInv
  <2>2. t \notin overtaken =>
          \E j \in DOMAIN rounds[t] : Pending(t) = {j} /\ rounds[t][j].reviewer = task[t].reviewer
    BY <1>1, <1>2, <2>1, Zenon DEF PendingInStep
  <2>3. i \in Pending(t)
    BY <1>1
  <2>4. CASE t \notin overtaken
    <3>1. PICK j \in DOMAIN rounds[t] :
            Pending(t) = {j} /\ rounds[t][j].reviewer = task[t].reviewer
      BY <2>2, <2>4
    <3>2. i = j
      BY <2>3, <3>1
    <3>3. QED
      BY <3>1, <3>2, Zenon
  <2>5. QED
    BY <2>4
<1>13. ApprovalIsReal'
  <2> SUFFICES ASSUME NEW q \in Tasks, task'[q].review = "APPROVED"
               PROVE  \E j \in DOMAIN rounds'[q] :
                        /\ rounds'[q][j].decision = "APPROVED"
                        /\ rounds'[q][j].reviewer = task'[q].reviewer \/ q \in overtaken'
    BY DEF ApprovalIsReal
  <2>1. CASE q = t
    BY <1>1, <1>3, <1>4, <1>6, <1>8, <1>9, <1>12, <2>1
  <2>2. CASE q # t
    BY <1>1, <1>9, <2>2 DEF IInv, TaskInv, ApprovalIsReal
  <2>3. QED
    BY <2>1, <2>2
<1>14. ASSUME NEW q \in Tasks \ overtaken'
      PROVE  IF task'[q].review = "PENDING_REVIEW"
               THEN \E j \in DOMAIN rounds'[q] :
                      Pending(q)' = {j} /\ rounds'[q][j].reviewer = task'[q].reviewer
               ELSE Pending(q)' = {}
  <2>1. CASE q = t
    <3>1. Pending(t) = {i}
      BY <1>1, <1>12, <2>1
    <3>2. Pending(t)' = {}
      BY <1>6, <1>8, <1>9, <3>1 DEF Pending
    <3>3. QED
      BY <1>3, <1>9, <2>1, <3>2
  <2>2. CASE q # t
    <3>1. IF task[q].review = "PENDING_REVIEW"
            THEN \E j \in DOMAIN rounds[q] :
                   Pending(q) = {j} /\ rounds[q][j].reviewer = task[q].reviewer
            ELSE Pending(q) = {}
      BY <1>1 DEF IInv, TaskInv, PendingInStep
    <3>2. task'[q] = task[q] /\ rounds'[q] = rounds[q]
      BY <1>9, <2>2
    <3>3. Pending(q)' = Pending(q)
      BY <3>2 DEF Pending
    <3>4. QED
      BY <3>1, <3>2, <3>3
  <2>3. QED
    BY <2>1, <2>2
<1>15. PendingInStep'
  BY <1>14 DEF PendingInStep
<1>16. FreeIsNew'
  BY <1>1, <1>3, <1>9, StatusTable DEF IInv, FreeIsNew, Live
<1>17. SeenThere'
  BY <1>10 DEF IInv, SeenThere
<1>18. StepKept
  BY <1>3, <1>9, StatusTable DEF StepKept
<1>19. QED
  BY <1>11, <1>13, <1>15, <1>16, <1>17, <1>18 DEF StepSound, IInv, TaskInv

LEMMA NextSound == IInv /\ [Next]_vars => StepSound
<1> SUFFICES ASSUME IInv, [Next]_vars PROVE StepSound
  OBVIOUS
<1>1. CASE UNCHANGED vars
  <2>1. IInv'
    <3>1. UNCHANGED <<task, rounds, req, told, overtaken, unheard>>
      BY <1>1 DEF vars
    <3>2. TypeOK'
      BY <3>1, Types DEF IInv, TaskInv
    <3>3. ApprovalIsReal' /\ PendingInStep' /\ FreeIsNew' /\ SeenThere'
      BY <3>1 DEF IInv, TaskInv, ApprovalIsReal, PendingInStep, Pending, FreeIsNew, SeenThere
    <3>4. QED
      BY <3>2, <3>3 DEF IInv, TaskInv
  <2>2. StepKept
    BY <1>1, StatusTable DEF vars, StepKept
  <2>3. QED
    BY <2>1, <2>2 DEF StepSound
<1>2. CASE Next
  BY <1>2, CreateSound, QuietSteps, ChangeStatusSound, CompleteSound, UpdateSound,
     ReassignSound, CreateSubtaskSound, RemoveSound, SubmitSound, DecideSound
     DEF Next, Step
<1>3. QED
  BY <1>1, <1>2

(***************************************************************************)
(* Decided rounds: only two actions write a round that exists, and each    *)
(* writes pending ones.                                                    *)
(***************************************************************************)
DecisionKept ==
  \A t \in Tasks : \A i \in DOMAIN rounds[t] :
    rounds[t][i].decision # "PENDING" =>
      task'[t].status = "FREE" \/ rounds'[t][i] = rounds[t][i]

LEMMA DecisionStep == IInv /\ [Next]_vars => DecisionKept
<1> SUFFICES ASSUME IInv, [Next]_vars PROVE DecisionKept
  OBVIOUS
<1>1. rounds \in [Tasks -> Seq(Round)]
  BY DEF IInv, TaskInv, TypeOK
<1>2. CASE UNCHANGED rounds
  BY <1>2 DEF DecisionKept
<1>3. ASSUME NEW r \in Requests, ChangeStatus(r) PROVE DecisionKept
  <2> DEFINE t == req[r].task
  <2>1. CASE UNCHANGED rounds
    BY <2>1 DEF DecisionKept
  <2>2. CASE rounds' = [rounds EXCEPT ![t] = [i \in DOMAIN @ |->
                 IF i \in Pending(t) THEN [@[i] EXCEPT !.decision = "CANCELLED"] ELSE @[i]]]
    BY <1>1, <2>2 DEF DecisionKept, Pending
  <2>3. QED
    BY <1>3, <2>1, <2>2 DEF ChangeStatus
<1>4. ASSUME NEW r \in Requests, Remove(r) PROVE DecisionKept
  <2>1. /\ task' = [task EXCEPT ![req[r].task] = FreeRow]
        /\ rounds' = [rounds EXCEPT ![req[r].task] = <<>>]
    BY <1>4 DEF Remove
  <2>2. task \in [Tasks -> Rows]
    BY DEF IInv, TaskInv, TypeOK
  <2>3. QED
    BY <1>1, <2>1, <2>2 DEF DecisionKept, FreeRow
<1>5. ASSUME NEW r \in Requests, SubmitReview(r) PROVE DecisionKept
  <2>1. PICK n \in [reviewer : Reviewers, decision : {"PENDING"}] :
          rounds' = [rounds EXCEPT ![req[r].task] = Append(@, n)]
    BY <1>5 DEF SubmitReview
  <2>2. ASSUME NEW t \in Tasks, NEW i \in DOMAIN rounds[t]
        PROVE rounds'[t][i] = rounds[t][i]
    <3>1. rounds[t] \in Seq(Round)
      BY <1>1
    <3>2. Append(rounds[t], n)[i] = rounds[t][i]
      BY <3>1
    <3>3. QED
      BY <1>1, <2>1, <3>2
  <2>3. QED
    BY <2>2 DEF DecisionKept
<1>6. ASSUME NEW r \in Requests, DecideReview(r) PROVE DecisionKept
  <2>1. PICK d \in {"APPROVED", "CHANGES_REQUESTED"} :
          /\ req[r].round \in Pending(req[r].task)
          /\ rounds' = [rounds EXCEPT ![req[r].task][req[r].round].decision = d]
    BY <1>6 DEF DecideReview, Decidable
  <2>2. QED
    BY <1>1, <2>1 DEF DecisionKept, Pending
<1>7. CASE UNCHANGED vars
  BY <1>2, <1>7 DEF vars
<1>8. CASE Next
  <2>1. ASSUME NEW t \in Tasks, Create(t) PROVE UNCHANGED rounds
    BY <2>1 DEF Create
  <2>2. ASSUME NEW r \in Requests, Step(r)
        PROVE DecisionKept
    BY <1>2, <1>3, <1>4, <1>5, <1>6, <2>2
       DEF Step, Read, CountSubtasks, FindPendingRound, Fail, Complete, Update, Reassign,
           Reschedule, CreateSubtask, TellParent
  <2>3. QED
    BY <1>2, <1>8, <2>1, <2>2 DEF Next
<1>9. QED
  BY <1>7, <1>8

(***************************************************************************)
(* The theorems.                                                           *)
(***************************************************************************)
\* An approved task rests on an approved round, and a task is under review
\* exactly while it has one pending round of its reviewer, unless a write of
\* changeStatus or update landed on a row it had not read
\* (tasks.service.ts).
THEOREM TaskSafe == Spec => []TaskInv
<1>1. IInv /\ [Next]_vars => IInv'
  BY NextSound DEF StepSound
<1>2. IInv => TaskInv
  BY DEF IInv
<1>3. QED
  BY InitInv, <1>1, <1>2, PTL DEF Spec

\* A finished task is reopened, and one that requires a review finished
\* without an approval, only by a write on a reading that was overtaken
\* (assertStatusTransition, assertReviewApproved); a decided round is never
\* decided again (decideReview).
THEOREM StatusStepsKept == Spec => StatusSteps
<1>1. IInv /\ [Next]_vars => IInv' /\ StepKept
  BY NextSound DEF StepSound
<1>2. StepKept =>
        [\A t \in Tasks :
           task[t].status \in Closed /\ task'[t].status # task[t].status =>
             task'[t].status = "FREE" \/ t \in overtaken']_vars
  BY DEF StepKept
<1>3. StepKept =>
        [\A t \in Tasks :
           /\ task[t].status \in Open /\ task'[t].status = "DONE"
           /\ task[t].requires
           => task[t].review = "APPROVED" \/ t \in overtaken']_vars
  BY DEF StepKept
<1>4. IInv /\ [Next]_vars =>
        [\A t \in Tasks : \A i \in DOMAIN rounds[t] :
           rounds[t][i].decision # "PENDING" =>
             \/ task'[t].status = "FREE"
             \/ rounds'[t][i] = rounds[t][i]]_vars
  BY DecisionStep DEF DecisionKept
<1>5. QED
  BY InitInv, <1>1, <1>2, <1>3, <1>4, PTL
     DEF Spec, StatusSteps, ReopenedOnlyByOverlap, CompletionsApproved, DecisionsFinal

(***************************************************************************)
(* The tree.  A ranking of the tasks is what makes it one: the depth of a  *)
(* task is its rank, and a walk up the parents ends.                       *)
(***************************************************************************)
Rooted ==
  \A t \in Tasks :
    /\ task[t].status = "FREE" => task[t].parent = None
    /\ task[t].parent # None => Live(task[t].parent)

Ranking(f) ==
  /\ f \in [Tasks -> Nat]
  /\ \A t \in Tasks :
       /\ f[t] >= 1 /\ f[t] <= MaxDepth
       /\ f[t] = IF task[t].parent = None THEN 1 ELSE 1 + f[task[t].parent]

\* A completion counts open subtasks and goes on when there are none.
CountedNone ==
  \A r \in Requests : req[r].step = "read" /\ req[r].counted => req[r].kids = {}

TreeIInv ==
  /\ Rooted /\ (\E f : Ranking(f)) /\ CountedNone
  /\ OpenKidNeedsOverlap /\ ParentHears

\* Every set of numbers has a least one: that they are well founded.
LEMMA LeastNat == \A T \in SUBSET Nat : T # {} => \E x \in T : \A y \in T : x <= y
<1> DEFINE R == OpToRel(<, Nat)
<1>1. SUFFICES ASSUME NEW T \in SUBSET Nat, T # {} PROVE \E x \in T : \A y \in T : x <= y
  OBVIOUS
<1>2. IsWellFoundedOn(R, Nat)
  BY NatLessThanWellFounded
<1>3. \A x, y \in Nat : y < x => <<y, x>> \in R
  BY DEF OpToRel
<1> HIDE DEF R
<1>4. PICK x \in T : \A y \in T : ~ (<<y, x>> \in R)
  BY <1>1, <1>2, WFMin
<1>5. \A y \in T : ~ (y < x)
  BY <1>3, <1>4
<1>6. \A y \in T : x <= y
  BY <1>5
<1>7. QED
  BY <1>6

LEMMA DepthIsRank ==
  ASSUME IInv, NEW f, Ranking(f), NEW t \in Tasks
  PROVE  Depth(t) = f[t]
<1> DEFINE Walk(g) == [x \in Tasks |-> IF task[x].parent = None THEN 1
                                       ELSE 1 + g[task[x].parent]]
           up == CHOOSE g : g = Walk(g)
           Odd == {f[x] : x \in {x \in Tasks : up[x] # f[x]}}
<1>1. /\ f \in [Tasks -> Nat]
      /\ \A x \in Tasks : f[x] = IF task[x].parent = None THEN 1 ELSE 1 + f[task[x].parent]
  BY DEF Ranking
<1>2. f = Walk(f)
  BY <1>1
<1>3. up = Walk(up)
  BY <1>2
<1>4. Depth(t) = up[t]
  BY DEF Depth
<1>5. \A x \in Tasks : up[x] = IF task[x].parent = None THEN 1 ELSE 1 + up[task[x].parent]
  BY <1>3
<1>6. \A x \in Tasks : task[x].parent \in Tasks \cup {None}
  <2> SUFFICES ASSUME NEW x \in Tasks PROVE task[x].parent \in Tasks \cup {None}
    OBVIOUS
  <2>1. task[x] \in Rows
    BY Types DEF IInv, TaskInv
  <2>2. QED
    BY <2>1 DEF Rows
<1> HIDE DEF up
<1>7. Odd = {}
  <2> SUFFICES ASSUME Odd # {} PROVE FALSE
    OBVIOUS
  <2>1. Odd \in SUBSET Nat
    BY <1>1
  <2>2. PICK n \in Odd : \A m \in Odd : n <= m
    BY <2>1, LeastNat
  <2>3. PICK x \in Tasks : n = f[x] /\ up[x] # f[x]
    BY <2>2
  <2>4. task[x].parent \in Tasks /\ task[x].parent # None
    BY <1>1, <1>5, <1>6, <2>3
  <2>5. f[x] = 1 + f[task[x].parent] /\ up[x] = 1 + up[task[x].parent]
    BY <1>1, <1>5, <2>3, <2>4
  <2>6. f[task[x].parent] \in Odd
    BY <2>3, <2>4, <2>5
  <2>7. f[task[x].parent] \in Nat /\ f[x] \in Nat
    BY <1>1, <2>4
  <2> HIDE DEF Odd
  <2>8. n <= f[task[x].parent]
    BY <2>2, <2>6
  <2>9. QED
    BY <2>3, <2>5, <2>7, <2>8
<1>8. QED
  BY <1>4, <1>7

LEMMA TreeInit == Init => TreeIInv
<1> SUFFICES ASSUME Init PROVE TreeIInv
  OBVIOUS
<1>1. /\ \A t \in Tasks : task[t].status = "FREE" /\ task[t].parent = None
      /\ \A r \in Requests : req[r].step = "idle"
  BY DEF Init, FreeRow, IdleReq
<1>2. \A t \in Tasks : ~Live(t)
  BY <1>1, StatusTable DEF Live
<1>3. Ranking([t \in Tasks |-> 1])
  BY <1>1, TaskWorkAssumption DEF Ranking
<1>4. Rooted /\ CountedNone
  BY <1>1 DEF Rooted, CountedNone
<1>5. OpenKidNeedsOverlap /\ ParentHears
  BY <1>1, <1>2 DEF OpenKidNeedsOverlap, ParentHears
<1>6. QED
  BY <1>3, <1>4, <1>5 DEF TreeIInv

\* What TreeIInv says of the rows.
LEMMA TreeFacts ==
  ASSUME IInv, TreeIInv
  PROVE  /\ None \notin Tasks
         /\ \A q \in Tasks : /\ task[q].parent \in Tasks \cup {None}
                             /\ Live(q) <=> task[q].status # "FREE"
                             /\ task[q].parent # q
                             /\ task[q].parent # None =>
                                  task[q].parent \in Tasks /\ Live(task[q].parent) /\ Live(q)
<1> SUFFICES ASSUME NEW q \in Tasks
             PROVE  /\ task[q].parent \in Tasks \cup {None}
                    /\ Live(q) <=> task[q].status # "FREE"
                    /\ task[q].parent # q
                    /\ task[q].parent # None =>
                         task[q].parent \in Tasks /\ Live(task[q].parent) /\ Live(q)
  BY TaskWorkAssumption
<1>1. task[q] \in Rows
  BY Types DEF IInv, TaskInv
<1>2. task[q].parent \in Tasks \cup {None} /\ task[q].status \in Statuses \cup {"FREE"}
  BY <1>1 DEF Rows
<1>3. Live(q) <=> task[q].status # "FREE"
  BY <1>2, StatusTable DEF Live
<1>4. PICK f : Ranking(f)
  BY DEF TreeIInv
<1>5. task[q].parent # q
  <2>1. f[q] \in Nat /\ f[q] = IF task[q].parent = None THEN 1 ELSE 1 + f[task[q].parent]
    BY <1>4 DEF Ranking
  <2>2. QED
    BY <2>1, TaskWorkAssumption
<1>6. QED
  BY <1>2, <1>3, <1>5 DEF TreeIInv, Rooted

\* Steps that leave the tree alone: what a request knew of a notice is told or lost.
LEMMA TreeQuiet ==
  ASSUME IInv, TreeIInv, NEW r \in Requests,
         \A t \in Tasks : /\ task'[t].status = task[t].status
                          /\ task'[t].parent = task[t].parent,
         overtaken' = overtaken, told \subseteq told', unheard \subseteq unheard',
         \A q \in Requests \ {r} : req'[q] = req[q],
         req'[r].step = "read" /\ req'[r].counted => req'[r].kids = {},
         req[r].step = "tell" =>
           \/ OpenKids(req[r].task) # {}
           \/ req[r].task \in told' \cup unheard'
  PROVE  TreeIInv'
<1>1. \A q \in Tasks : /\ Live(q)' = Live(q) /\ Children(q)' = Children(q)
                       /\ OpenKids(q)' = OpenKids(q)
  BY DEF Live, Children, OpenKids
<1>2. Rooted'
  BY <1>1, TreeFacts DEF TreeIInv, Rooted
<1>3. \E f : Ranking(f)'
  <2>1. PICK f : Ranking(f)
    BY DEF TreeIInv
  <2>2. Ranking(f)'
    BY <2>1 DEF Ranking
  <2>3. QED
    BY <2>2
<1>4. CountedNone'
  BY DEF TreeIInv, CountedNone
<1>5. OpenKidNeedsOverlap'
  BY <1>1 DEF TreeIInv, OpenKidNeedsOverlap
<1>6. ParentHears'
  <2> SUFFICES ASSUME NEW p \in Tasks, Live(p), Children(p) # {}, OpenKids(p) = {},
                      p \notin unheard',
                      \A q \in Requests : ~(req'[q].step = "tell" /\ req'[q].task = p)
               PROVE  p \in told'
    BY <1>1 DEF ParentHears
  <2>1. CASE req[r].step = "tell" /\ req[r].task = p
    BY <2>1
  <2>2. CASE ~(req[r].step = "tell" /\ req[r].task = p)
    BY <2>2 DEF TreeIInv, ParentHears
  <2>3. QED
    BY <2>1, <2>2
<1>7. QED
  BY <1>2, <1>3, <1>4, <1>5, <1>6 DEF TreeIInv

(***************************************************************************)
(* The writes by id.                                                       *)
(***************************************************************************)
Rewrites(r, row, late, tells) ==
  LET t == req[r].task IN
  /\ req[r].step = "read" /\ t \in Tasks /\ Live(t)
  /\ row.status \in Statuses /\ row.parent = task[t].parent
  /\ row.status = "DONE" /\ task[t].status # "DONE" => req[r].counted /\ late = LateKids(r)
  /\ tells \in BOOLEAN /\ Finish(r, row, late, tells)

LEMMA WritesRewrite ==
  ASSUME IInv, NEW r \in Requests,
         ChangeStatus(r) \/ Complete(r) \/ Update(r) \/ Reassign(r)
  PROVE  \E row, late, tells : Rewrites(r, row, late, tells)
<1> DEFINE t == req[r].task
           seen == req[r].seen
<1>1. req[r].step = "read" /\ Live(t)
  BY DEF ChangeStatus, Complete, Update, Reassign, Deciding
<1>2. t \in Tasks /\ task[t] \in Rows /\ task[t].status \in Statuses
  BY <1>1, RequestFacts DEF Live
<1>3. CASE ChangeStatus(r)
  <2>0. PICK s \in Asked(r) : \E review :
          Finish(r, [task[t] EXCEPT !.status = s, !.review = review], LateKids(r), s \in Closed)
    BY <1>3 DEF ChangeStatus
  <2>1. PICK review :
          Finish(r, [task[t] EXCEPT !.status = s, !.review = review], LateKids(r), s \in Closed)
    BY <2>0
  <2>2. PICK row : row = [task[t] EXCEPT !.status = s, !.review = review]
    OBVIOUS
  <2>3. row.status = s /\ row.parent = task[t].parent
    BY <1>2, <2>2 DEF Rows
  <2>4. s \in Statuses /\ (s = "DONE" => req[r].counted)
    BY DEF Asked, Statuses, Closed
  <2>5. (s \in Closed) \in BOOLEAN
    OBVIOUS
  <2>6. Rewrites(r, row, LateKids(r), s \in Closed)
    BY <1>1, <1>2, <2>1, <2>2, <2>3, <2>4, <2>5 DEF Rewrites
  <2>7. QED
    BY <2>6
<1>4. CASE Complete(r)
  <2>1. PICK row : row = [task[t] EXCEPT !.status = "DONE"]
    OBVIOUS
  <2>2. row.status = "DONE" /\ row.parent = task[t].parent
    BY <1>2, <2>1 DEF Rows
  <2>3. Rewrites(r, row, LateKids(r), TRUE)
    BY <1>1, <1>2, <1>4, <2>1, <2>2 DEF Complete, Rewrites, Statuses, Closed
  <2>4. QED
    BY <2>3
<1>5. CASE Update(r)
  <2>0. PICK s \in NewStatuses(r) :
          \E configures, a, edit, c :
            Finish(r, UpdatedRow(r, s, configures, c, a, edit \/ a.named), LateKids(r), FALSE)
    BY <1>5, SomeUpdatedRow
  <2>1. PICK configures, a, edit, c :
          Finish(r, UpdatedRow(r, s, configures, c, a, edit \/ a.named), LateKids(r), FALSE)
    BY <2>0
  <2>2. Finish(r,
          [task[t] EXCEPT
             !.status   = IF s = "keep" THEN @ ELSE s,
             !.requires = IF configures THEN c.requires ELSE @,
             !.reviewer = IF configures THEN c.reviewer ELSE @,
             !.assignee = a.to,
             !.review   = ReviewAfter(seen, @, configures, c.requires, edit \/ a.named)],
          LateKids(r), FALSE)
    BY <2>1 DEF UpdatedRow
  <2>3. PICK status, requires, reviewer, review :
          /\ status = IF s = "keep" THEN task[t].status ELSE s
          /\ Finish(r, [task[t] EXCEPT !.status = status, !.requires = requires,
                          !.reviewer = reviewer, !.assignee = a.to, !.review = review],
                    LateKids(r), FALSE)
    <3> DEFINE st == IF s = "keep" THEN task[t].status ELSE s
               rq == IF configures THEN c.requires ELSE task[t].requires
               rv == IF configures THEN c.reviewer ELSE task[t].reviewer
               rw == ReviewAfter(seen, task[t].review, configures, c.requires,
                                 edit \/ a.named)
    <3>1. Finish(r, [task[t] EXCEPT !.status = st, !.requires = rq, !.reviewer = rv,
                                    !.assignee = a.to, !.review = rw], LateKids(r), FALSE)
      BY <2>2
    <3> HIDE DEF rq, rv, rw
    <3>2. QED
      BY <3>1
  <2>4. PICK row : row = [task[t] EXCEPT !.status = status, !.requires = requires,
                            !.reviewer = reviewer, !.assignee = a.to, !.review = review]
    OBVIOUS
  <2>5. row.status = status /\ row.parent = task[t].parent
    BY <1>2, <2>4 DEF Rows
  <2>6. /\ status \in Statuses
        /\ status = "DONE" /\ task[t].status # "DONE" => req[r].counted
    BY <1>2, <2>0, <2>3 DEF NewStatuses, Statuses, Open, Closed
  <2>7. Rewrites(r, row, LateKids(r), FALSE)
    BY <1>1, <1>2, <2>3, <2>4, <2>5, <2>6 DEF Rewrites
  <2>8. QED
    BY <2>7
<1>6. CASE Reassign(r)
  <2>1. PICK to, review :
          Finish(r, [task[t] EXCEPT !.assignee = to, !.review = review], {}, FALSE)
    BY <1>6 DEF Reassign
  <2>2. PICK row : row = [task[t] EXCEPT !.assignee = to, !.review = review]
    OBVIOUS
  <2>3. row.status = task[t].status /\ row.parent = task[t].parent
    BY <1>2, <2>2 DEF Rows
  <2>4. Rewrites(r, row, {}, FALSE)
    BY <1>1, <1>2, <2>1, <2>2, <2>3 DEF Rewrites
  <2>5. QED
    BY <2>4
<1>7. QED
  BY <1>3, <1>4, <1>5, <1>6

LEMMA TreeWrite ==
  ASSUME IInv, TreeIInv, StepKept, NEW r \in Requests, NEW row, NEW late, NEW tells,
         Rewrites(r, row, late, tells)
  PROVE  TreeIInv'
<1>1. PICK t \in Tasks, p \in Tasks \cup {None} :
        /\ t = req[r].task /\ p = task[t].parent
    BY TreeFacts DEF Rewrites
<1>2. /\ req[r].step = "read" /\ Live(t) /\ row.status \in Statuses /\ row.parent = p
      /\ row.status = "DONE" /\ task[t].status # "DONE" => req[r].counted /\ late = LateKids(r)
      /\ tells \in BOOLEAN /\ Finish(r, row, late, tells)
  BY <1>1 DEF Rewrites
<1>3. /\ task' = [task EXCEPT ![t] = row]
      /\ req' = [req EXCEPT ![r] = IF tells /\ p # None
                                     THEN [IdleReq EXCEPT !.step = "tell", !.task = p]
                                     ELSE IdleReq]
      /\ overtaken \subseteq overtaken' /\ (late # {} => t \in overtaken')
      /\ LET opens  == row.status \in Open /\ task[t].status \in Closed
             closes == row.status \in Closed /\ task[t].status \in Open
         IN  /\ told' = IF opens THEN told \ {p} ELSE told
             /\ unheard' = IF opens THEN unheard \ {p}
                           ELSE IF closes /\ ~tells /\ p # None /\ OpenKids(p) \subseteq {t}
                           THEN unheard \cup {p} ELSE unheard
  BY <1>1, <1>2 DEF Finish
<1>4. \A q \in Requests : /\ q # r => req'[q] = req[q]
                          /\ q = r => req'[q].step \in {"tell", "idle"}
                          /\ q = r /\ tells /\ p # None => req'[q].step = "tell" /\ req'[q].task = p
  <2>1. /\ IdleReq.step = "idle" /\ [IdleReq EXCEPT !.step = "tell", !.task = p].step = "tell"
        /\ [IdleReq EXCEPT !.step = "tell", !.task = p].task = p
    BY DEF IdleReq
  <2>2. QED
    BY <1>3, <2>1, RequestFacts
<1>5. task \in [Tasks -> Rows]
  BY RequestFacts
<1>6. \A q \in Tasks : /\ task'[q].parent = task[q].parent
                       /\ task'[q].status = IF q = t THEN row.status ELSE task[q].status
  BY <1>1, <1>2, <1>3, <1>5
<1>7. \A q \in Tasks : Live(q)' = Live(q) /\ Children(q)' = Children(q)
  BY <1>2, <1>6 DEF Live, Children
<1>8. task[t].status \in Statuses
  BY <1>2 DEF Live
<1>9. Rooted'
  <2> SUFFICES ASSUME NEW q \in Tasks
               PROVE  (/\ task[q].status = "FREE" => task[q].parent = None
                       /\ task[q].parent # None => Live(task[q].parent))'
    BY DEF Rooted
  <2>1. task'[q].status = "FREE" => q # t
    BY <1>2, <1>6, StatusTable
  <2>2. (task[q].parent # None => Live(task[q].parent))'
    <3> SUFFICES ASSUME task'[q].parent # None PROVE Live(task[q].parent)'
      OBVIOUS
    <3>1. PICK x \in Tasks : x = task[q].parent /\ Live(x)
      BY <1>6, TreeFacts
    <3>2. Live(x)' /\ task'[q].parent = x
      BY <1>6, <1>7, <3>1
    <3>3. QED
      BY <3>2 DEF Live
  <2>3. QED
    BY <1>6, <2>1, <2>2, TreeFacts
<1>10. \E f : Ranking(f)'
  <2>1. PICK f : Ranking(f)
    BY DEF TreeIInv
  <2>2. Ranking(f)'
    BY <1>6, <2>1 DEF Ranking
  <2>3. QED
    BY <2>2
<1>11. CountedNone'
  BY <1>4 DEF TreeIInv, CountedNone
<1>12. OpenKidNeedsOverlap'
  <2> SUFFICES ASSUME NEW q \in Tasks, task'[q].status = "DONE", q \notin overtaken',
                      NEW c \in OpenKids(q)'
               PROVE  c \in overtaken'
    BY DEF OpenKidNeedsOverlap
  <2>1. c \in Tasks /\ c \in Children(q) /\ task'[c].status \in Open /\ task[c].parent = q
    BY <1>6, <1>7 DEF OpenKids, Children
  <2>2. c # q
    BY <2>1, TreeFacts
  <2>3. CASE task[c].status \notin Open
    <3>1. c = t /\ task[c].status \in Closed
      BY <1>6, <1>8, <2>1, <2>3 DEF Statuses
    <3>2. task'[c].status # task[c].status /\ task'[c].status # "FREE"
      BY <2>1, <3>1, StatusTable
    <3>3. QED
      BY <3>1, <3>2 DEF StepKept
  <2>4. CASE task[c].status \in Open
    <3>1. c \in OpenKids(q)
      BY <2>1, <2>4 DEF OpenKids
    <3>2. CASE task[q].status = "DONE"
      BY <1>3, <3>1, <3>2 DEF TreeIInv, OpenKidNeedsOverlap
    <3>3. CASE task[q].status # "DONE"
      <4>1. q = t /\ req[r].counted /\ late = LateKids(r)
        BY <1>2, <1>6, <3>3
      <4>2. late = OpenKids(q)
        BY <1>1, <1>2, <4>1 DEF LateKids, TreeIInv, CountedNone
      <4>3. QED
        BY <1>3, <3>1, <4>1, <4>2
    <3>4. QED
      BY <3>2, <3>3
  <2>5. QED
    BY <2>3, <2>4
<1>13. ParentHears'
  <2> SUFFICES ASSUME NEW q \in Tasks, Live(q), Children(q) # {}, OpenKids(q)' = {},
                      q \notin unheard',
                      \A x \in Requests : ~(req'[x].step = "tell" /\ req'[x].task = q)
               PROVE  q \in told'
    BY <1>7 DEF ParentHears
  <2>1. \A c \in Children(q) : task'[c].status \notin Open
    BY <1>7 DEF OpenKids, Children
  <2>2. t \in Children(p) \/ p = None
    BY <1>1, <1>2 DEF Children
  <2>3. q = p => row.status \notin Open
    BY <1>6, <2>1, <2>2, TaskWorkAssumption
  <2>4. CASE OpenKids(q) = {}
    <3>1. \A x \in Requests : ~(req[x].step = "tell" /\ req[x].task = q)
      BY <1>2, <1>4
    <3>2. q \notin unheard
      BY <1>3, <2>3
    <3>3. q \in told
      BY <2>4, <3>1, <3>2 DEF TreeIInv, ParentHears
    <3>4. QED
      BY <1>3, <2>3, <3>3
  <2>5. CASE OpenKids(q) # {}
    <3>1. PICK c \in Children(q) : task[c].status \in Open
      BY <2>5 DEF OpenKids
    <3>2. \A x \in OpenKids(q) : x = t
      BY <1>6, <2>1 DEF OpenKids, Children
    <3>3. c = t /\ q = p
      BY <1>1, <3>1, <3>2 DEF OpenKids, Children
    <3>4. row.status \in Closed /\ task[t].status \in Open /\ p # None
      BY <1>2, <2>3, <3>1, <3>3, TaskWorkAssumption DEF Statuses
    <3>5. OpenKids(p) \subseteq {t}
      BY <3>2, <3>3
    <3>6. ~(row.status \in Open /\ task[t].status \in Closed)
      BY <3>4, StatusTable
    <3>7. tells
      BY <1>3, <3>3, <3>4, <3>5, <3>6
    <3>8. QED
      BY <1>4, <3>3, <3>4, <3>7
  <2>6. QED
    BY <2>4, <2>5
<1>14. QED
  BY <1>9, <1>10, <1>11, <1>12, <1>13 DEF TreeIInv

(***************************************************************************)
(* Creation and removal: a leaf comes or goes.                             *)
(***************************************************************************)
LEMMA TreeCreate ==
  ASSUME IInv, TreeIInv, NEW t \in Tasks, Create(t)
  PROVE  TreeIInv'
<1>1. /\ task[t].status = "FREE" /\ task[t].parent = None
      /\ UNCHANGED <<req, told, overtaken, unheard>>
  BY DEF Create, TreeIInv, Rooted
<1>2. PICK row : /\ task' = [task EXCEPT ![t] = row]
                 /\ row.parent = None /\ row.status # "FREE"
  <2>1. PICK s \in Statuses, a \in Users \cup {None}, v \in Reviewers \cup {None}, q \in BOOLEAN :
          /\ task[t].status = "FREE"
          /\ Cardinality({x \in Tasks : Live(x) /\ task[x].parent = None}) < MaxRoots
          /\ q => v # None
          /\ v # None => MayReview(v, a)
          /\ s = "DONE" => ~q
          /\ task' = [task EXCEPT ![t] =
               [status |-> s, parent |-> None, assignee |-> a, requires |-> q,
                review |-> IF q THEN "DRAFT" ELSE "NOT_REQUIRED", reviewer |-> v]]
          /\ UNCHANGED <<rounds, req, told, overtaken, unheard>>
    BY DEF Create
  <2>2. PICK row : row = [status |-> s, parent |-> None, assignee |-> a, requires |-> q,
                          review |-> IF q THEN "DRAFT" ELSE "NOT_REQUIRED", reviewer |-> v]
    OBVIOUS
  <2>3. row.parent = None /\ row.status # "FREE"
    BY <2>2, StatusTable
  <2>4. QED
    BY <2>1, <2>2, <2>3
<1>3. \A q \in Tasks : /\ task'[q].parent = task[q].parent
                       /\ q # t => task'[q].status = task[q].status
                       /\ Live(q) => Live(q)'
  BY <1>1, <1>2, Types, TreeFacts DEF Live, IInv, TaskInv
<1>4. \A q \in Tasks : task[q].parent # t
  BY <1>1, TreeFacts
<1>5. \A q \in Tasks : Children(q)' = Children(q) /\ OpenKids(q)' = OpenKids(q)
  <2> SUFFICES ASSUME NEW q \in Tasks PROVE Children(q)' = Children(q) /\ OpenKids(q)' = OpenKids(q)
    OBVIOUS
  <2>1. t \notin Children(q) /\ t \notin Children(q)'
    BY <1>1, <1>3, TreeFacts DEF Children
  <2>2. \A c \in Tasks \ {t} : Live(c)' = Live(c) /\ task'[c].parent = task[c].parent
                               /\ task'[c].status = task[c].status
    BY <1>3 DEF Live
  <2>3. Children(q)' = Children(q)
    BY <2>1, <2>2 DEF Children
  <2>4. QED
    BY <2>1, <2>2, <2>3 DEF OpenKids, Children
<1>6. Children(t) = {} /\ OpenKids(t) = {}
  BY <1>4 DEF Children, OpenKids
<1>7. Rooted'
  <2> SUFFICES ASSUME NEW q \in Tasks
               PROVE  (/\ task[q].status = "FREE" => task[q].parent = None
                       /\ task[q].parent # None => Live(task[q].parent))'
    BY DEF Rooted
  <2>1. (task[q].parent # None => Live(task[q].parent))'
    <3> SUFFICES ASSUME task[q].parent # None PROVE Live(task[q].parent)'
      BY <1>3
    <3>1. PICK x \in Tasks : x = task[q].parent /\ Live(x)
      BY TreeFacts
    <3>2. Live(x)' /\ task'[q].parent = x
      BY <1>3, <3>1
    <3>3. QED
      BY <3>2 DEF Live
  <2>2. QED
    BY <1>1, <1>3, <2>1, TreeFacts
<1>8. \E f : Ranking(f)'
  <2>1. PICK f : Ranking(f)
    BY DEF TreeIInv
  <2>2. Ranking(f)'
    BY <1>3, <2>1 DEF Ranking
  <2>3. QED
    BY <2>2
<1>9. CountedNone'
  BY <1>1 DEF TreeIInv, CountedNone
<1>10. OpenKidNeedsOverlap'
  BY <1>1, <1>3, <1>5, <1>6 DEF TreeIInv, OpenKidNeedsOverlap
<1>11. ParentHears'
  <2> SUFFICES ASSUME NEW q \in Tasks, Live(q)', Children(q) # {}, OpenKids(q) = {},
                      q \notin unheard,
                      \A x \in Requests : ~(req[x].step = "tell" /\ req[x].task = q)
               PROVE  q \in told
    BY <1>1, <1>5 DEF ParentHears
  <2>1. q # t /\ Live(q)
    BY <1>3, <1>6 DEF Live
  <2>2. QED
    BY <2>1 DEF TreeIInv, ParentHears
<1>12. QED
  BY <1>7, <1>8, <1>9, <1>10, <1>11 DEF TreeIInv

LEMMA TreeCreateSubtask ==
  ASSUME IInv, TreeIInv, NEW r \in Requests, CreateSubtask(r)
  PROVE  TreeIInv'
<1>1. PICK p \in Tasks : p = req[r].task
  BY RequestFacts DEF CreateSubtask, Deciding
<1>2. PICK c \in Tasks, a \in Users \cup {None} :
        /\ req[r].step = "read" /\ req[r].seen.status \in Open
        /\ Live(p) /\ Fits(p) /\ task[c].status = "FREE"
        /\ task' = [task EXCEPT ![c] = [FreeRow EXCEPT !.status = "TODO", !.parent = p,
                                                      !.assignee = a]]
        /\ req' = [req EXCEPT ![r] = IdleReq]
        /\ overtaken' = IF task[p].status # req[r].seen.status THEN overtaken \cup {p}
                        ELSE overtaken
        /\ told' = told \ {p} /\ unheard' = unheard \ {p}
  BY <1>1 DEF CreateSubtask, Deciding
<1>3. PICK row : row = [FreeRow EXCEPT !.status = "TODO", !.parent = p, !.assignee = a]
  OBVIOUS
<1>4. row.status = "TODO" /\ row.parent = p
  BY <1>3 DEF FreeRow
<1>5. \A q \in Tasks : task'[q] = IF q = c THEN row ELSE task[q]
  BY <1>2, <1>3, RequestFacts
<1>6. c # p /\ \A q \in Tasks : task[q].parent # c
  BY <1>2, TreeFacts
<1>7. \A q \in Tasks : /\ q # c => Live(q)' = Live(q)
                       /\ Live(q) => Live(q)'
                       /\ Live(c)'
  BY <1>2, <1>4, <1>5, StatusTable DEF Live, Statuses, Open
<1>8. \A q \in Requests : /\ q # r => req'[q] = req[q]
                          /\ q = r => req'[q].step = "idle"
  BY <1>2, IdleReqType, RequestFacts
<1>9. \A q \in Tasks : /\ q # p => Children(q)' = Children(q) /\ OpenKids(q)' = OpenKids(q)
                       /\ q = p => c \in OpenKids(q)'
                       /\ q = c => Children(q)' = {}
  <2>1. ASSUME NEW q \in Tasks, q # p
        PROVE  Children(q)' = Children(q) /\ OpenKids(q)' = OpenKids(q)
    <3>1. c \notin Children(q) /\ c \notin Children(q)'
      BY <1>2, <1>4, <1>5, <2>1, TreeFacts DEF Children
    <3>2. \A x \in Tasks \ {c} : Live(x)' = Live(x) /\ task'[x] = task[x]
      BY <1>5, <1>7
    <3>3. Children(q)' = Children(q)
      BY <3>1, <3>2 DEF Children
    <3>4. QED
      BY <3>1, <3>2, <3>3 DEF OpenKids, Children
  <2>2. c \in OpenKids(p)'
    BY <1>4, <1>5, <1>7 DEF OpenKids, Children, Open
  <2>3. Children(c)' = {}
    BY <1>4, <1>5, <1>6 DEF Children
  <2>4. QED
    BY <2>1, <2>2, <2>3
<1>10. Rooted'
  <2> SUFFICES ASSUME NEW q \in Tasks
               PROVE  (/\ task[q].status = "FREE" => task[q].parent = None
                       /\ task[q].parent # None => Live(task[q].parent))'
    BY DEF Rooted
  <2>1. (task[q].parent # None => Live(task[q].parent))'
    <3> SUFFICES ASSUME task'[q].parent # None PROVE Live(task[q].parent)'
      OBVIOUS
    <3>1. PICK x \in Tasks : x = task'[q].parent /\ Live(x)
      BY <1>2, <1>4, <1>5, TreeFacts
    <3>2. Live(x)'
      BY <1>7, <3>1
    <3>3. QED
      BY <3>1, <3>2 DEF Live
  <2>2. QED
    BY <1>4, <1>5, <2>1, TreeFacts
<1>11. \E f : Ranking(f)'
  <2>1. PICK f : Ranking(f)
    BY DEF TreeIInv
  <2>2. f[p] < MaxDepth
    BY <2>1, DepthIsRank, <1>2 DEF Fits
  <2>3. f \in [Tasks -> Nat] /\ MaxDepth \in Nat
    BY <2>1, TaskWorkAssumption DEF Ranking
  <2>4. PICK g : g = [f EXCEPT ![c] = 1 + f[p]]
    OBVIOUS
  <2>5. g \in [Tasks -> Nat] /\ \A q \in Tasks : g[q] = IF q = c THEN 1 + f[p] ELSE f[q]
    BY <2>3, <2>4
  <2>6. ASSUME NEW q \in Tasks
        PROVE  /\ g[q] >= 1 /\ g[q] <= MaxDepth
               /\ g[q] = IF task'[q].parent = None THEN 1 ELSE 1 + g[task'[q].parent]
    <3>1. CASE q = c
      BY <1>4, <1>5, <1>6, <2>2, <2>3, <2>5, <3>1, TreeFacts
    <3>2. CASE q # c
      <4>1. task'[q] = task[q] /\ task[q].parent # c
        BY <1>5, <1>6, <3>2
      <4>2. task[q].parent # None => g[task[q].parent] = f[task[q].parent]
        BY <2>5, <4>1, TreeFacts
      <4>3. QED
        BY <2>1, <2>5, <3>2, <4>1, <4>2 DEF Ranking
    <3>3. QED
      BY <3>1, <3>2
  <2>7. Ranking(g)'
    BY <2>5, <2>6 DEF Ranking
  <2>8. QED
    BY <2>7
<1>12. CountedNone'
  BY <1>8 DEF TreeIInv, CountedNone
<1>13. OpenKidNeedsOverlap'
  <2> SUFFICES ASSUME NEW q \in Tasks, task'[q].status = "DONE", q \notin overtaken'
               PROVE  OpenKids(q)' \subseteq overtaken'
    BY DEF OpenKidNeedsOverlap
  <2>1. q # c /\ task[q].status = "DONE" /\ q \notin overtaken /\ overtaken \subseteq overtaken'
    BY <1>2, <1>4, <1>5
  <2>2. q # p
    BY <1>2, <2>1, StatusTable
  <2>3. QED
    BY <1>9, <2>1, <2>2 DEF TreeIInv, OpenKidNeedsOverlap
<1>14. ParentHears'
  <2> SUFFICES ASSUME NEW q \in Tasks, Live(q)', Children(q)' # {}, OpenKids(q)' = {},
                      q \notin unheard',
                      \A x \in Requests : ~(req'[x].step = "tell" /\ req'[x].task = q)
               PROVE  q \in told'
    BY DEF ParentHears
  <2>1. q # p /\ q # c /\ Live(q)
    BY <1>7, <1>9
  <2>2. Children(q) # {} /\ OpenKids(q) = {} /\ q \notin unheard
    BY <1>2, <1>9, <2>1
  <2>3. \A x \in Requests : ~(req[x].step = "tell" /\ req[x].task = q)
    BY <1>2, <1>8
  <2>4. q \in told
    BY <2>1, <2>2, <2>3 DEF TreeIInv, ParentHears
  <2>5. QED
    BY <1>2, <2>1, <2>4
<1>15. QED
  BY <1>10, <1>11, <1>12, <1>13, <1>14 DEF TreeIInv

LEMMA TreeRemove ==
  ASSUME IInv, TreeIInv, NEW r \in Requests, Remove(r)
  PROVE  TreeIInv'
<1>1. PICK t \in Tasks, p \in Tasks \cup {None} :
        t = req[r].task /\ p = task[t].parent
  BY TreeFacts, RequestFacts DEF Remove, Deciding
<1>2. /\ req[r].step = "read" /\ Live(t) /\ Children(t) = {}
      /\ task' = [task EXCEPT ![t] = FreeRow]
      /\ req' = [q \in Requests |-> IF req[q].task = t THEN IdleReq ELSE req[q]]
      /\ overtaken' = overtaken \ {t} /\ told' = told \ {t}
      /\ unheard' = IF p # None /\ OpenKids(p) = {t} THEN (unheard \ {t}) \cup {p}
                                                     ELSE unheard \ {t}
  BY <1>1 DEF Remove, Deciding
<1>3. /\ FreeRow.status = "FREE" /\ FreeRow.parent = None
      /\ \A q \in Tasks : task'[q] = IF q = t THEN FreeRow ELSE task[q]
  BY <1>2, RequestFacts DEF FreeRow
<1>4. \A q \in Tasks : task[q].parent # t
  BY <1>2, TreeFacts DEF Children
<1>5. \A q \in Tasks : Live(q)' <=> Live(q) /\ q # t
  BY <1>3, StatusTable DEF Live
<1>6. \A q \in Requests : \/ req'[q] = req[q] /\ req[q].task # t
                          \/ req'[q].step = "idle" /\ req[q].task = t
  BY <1>2, IdleReqType
<1>7. \A q \in Tasks : /\ Children(q)' = Children(q) \ {t}
                       /\ OpenKids(q)' = OpenKids(q) \ {t}
  BY <1>3, <1>5 DEF Children, OpenKids
<1>8. Rooted'
  <2> SUFFICES ASSUME NEW q \in Tasks
               PROVE  (/\ task[q].status = "FREE" => task[q].parent = None
                       /\ task[q].parent # None => Live(task[q].parent))'
    BY DEF Rooted
  <2>1. (task[q].parent # None => Live(task[q].parent))'
    <3> SUFFICES ASSUME task'[q].parent # None PROVE Live(task[q].parent)'
      OBVIOUS
    <3>1. PICK x \in Tasks : x = task'[q].parent /\ Live(x) /\ x # t
      BY <1>3, <1>4, TreeFacts
    <3>2. Live(x)'
      BY <1>5, <3>1
    <3>3. QED
      BY <3>1, <3>2 DEF Live
  <2>2. QED
    BY <1>3, <2>1, TreeFacts
<1>9. \E f : Ranking(f)'
  <2>1. PICK f : Ranking(f)
    BY DEF TreeIInv
  <2>2. f \in [Tasks -> Nat] /\ MaxDepth \in Nat \ {0}
    BY <2>1, TaskWorkAssumption DEF Ranking
  <2>3. PICK g : g = [f EXCEPT ![t] = 1]
    OBVIOUS
  <2>4. g \in [Tasks -> Nat] /\ \A q \in Tasks : g[q] = IF q = t THEN 1 ELSE f[q]
    BY <2>2, <2>3
  <2>5. ASSUME NEW q \in Tasks
        PROVE  /\ g[q] >= 1 /\ g[q] <= MaxDepth
               /\ g[q] = IF task'[q].parent = None THEN 1 ELSE 1 + g[task'[q].parent]
    <3>1. CASE q = t
      BY <1>3, <2>2, <2>4, <3>1
    <3>2. CASE q # t
      <4>1. task'[q] = task[q] /\ task[q].parent # t
        BY <1>3, <1>4, <3>2
      <4>2. task[q].parent # None => g[task[q].parent] = f[task[q].parent]
        BY <2>4, <4>1, TreeFacts
      <4>3. QED
        BY <2>1, <2>4, <3>2, <4>1, <4>2 DEF Ranking
    <3>3. QED
      BY <3>1, <3>2
  <2>6. Ranking(g)'
    BY <2>4, <2>5 DEF Ranking
  <2>7. QED
    BY <2>6
<1>10. CountedNone'
  BY <1>6 DEF TreeIInv, CountedNone
<1>11. OpenKidNeedsOverlap'
  <2> SUFFICES ASSUME NEW q \in Tasks, task'[q].status = "DONE", q \notin overtaken'
               PROVE  OpenKids(q)' \subseteq overtaken'
    BY DEF OpenKidNeedsOverlap
  <2>1. q # t /\ task[q].status = "DONE" /\ q \notin overtaken
    BY <1>2, <1>3
  <2>2. OpenKids(q) \subseteq overtaken
    BY <2>1 DEF TreeIInv, OpenKidNeedsOverlap
  <2>3. QED
    BY <1>2, <1>7, <2>2
<1>12. ParentHears'
  <2> SUFFICES ASSUME NEW q \in Tasks, Live(q)', Children(q)' # {}, OpenKids(q)' = {},
                      q \notin unheard',
                      \A x \in Requests : ~(req'[x].step = "tell" /\ req'[x].task = q)
               PROVE  q \in told'
    BY DEF ParentHears
  <2>1. q # t /\ Live(q) /\ Children(q) # {} /\ q \notin unheard
    BY <1>2, <1>5, <1>7
  <2>2. \A x \in Requests : ~(req[x].step = "tell" /\ req[x].task = q)
    BY <1>6, <2>1
  <2>3. OpenKids(q) = {}
    <3>1. SUFFICES ASSUME OpenKids(q) # {} PROVE FALSE
      OBVIOUS
    <3>2. OpenKids(q) = {t}
      BY <1>7, <3>1
    <3>3. q = p
      BY <1>1, <3>2 DEF OpenKids, Children
    <3>4. p # None
      BY <3>3, TaskWorkAssumption
    <3>5. QED
      BY <1>2, <3>2, <3>3, <3>4
  <2>4. q \in told
    BY <2>1, <2>2, <2>3 DEF TreeIInv, ParentHears
  <2>5. QED
    BY <1>2, <2>1, <2>4
<1>13. QED
  BY <1>8, <1>9, <1>10, <1>11, <1>12 DEF TreeIInv

LEMMA TreeQuietSteps ==
  ASSUME IInv, TreeIInv, NEW r \in Requests,
         \/ Read(r) \/ CountSubtasks(r) \/ FindPendingRound(r) \/ Fail(r) \/ Reschedule(r)
         \/ SubmitReview(r) \/ DecideReview(r) \/ TellParent(r)
  PROVE  TreeIInv'
<1>0. req \in [Requests -> Reqs] /\ task \in [Tasks -> Rows]
  BY RequestFacts
<1>1. \A t \in Tasks : /\ task'[t].status = task[t].status
                       /\ task'[t].parent = task[t].parent
  <2>1. ASSUME NEW t \in Tasks, NEW review, NEW reviewer
        PROVE  /\ [task[t] EXCEPT !.review = review].status = task[t].status
               /\ [task[t] EXCEPT !.review = review].parent = task[t].parent
               /\ [task[t] EXCEPT !.review = review, !.reviewer = reviewer].status = task[t].status
               /\ [task[t] EXCEPT !.review = review, !.reviewer = reviewer].parent = task[t].parent
    BY <1>0 DEF Rows
  <2>2. CASE SubmitReview(r)
    <3>1. PICK t \in Tasks : t = req[r].task
      BY <2>2, RequestFacts DEF SubmitReview, Deciding
    <3>2. PICK v : task' = [task EXCEPT ![t].review = "PENDING_REVIEW", ![t].reviewer = v]
      BY <2>2, <3>1 DEF SubmitReview
    <3>3. task' = [task EXCEPT ![t] =
                     [task[t] EXCEPT !.review = "PENDING_REVIEW", !.reviewer = v]]
      BY <1>0, <3>2
    <3>4. QED
      BY <1>0, <2>1, <3>3
  <2>3. CASE DecideReview(r)
    <3>1. PICK d : task' = [task EXCEPT ![req[r].task] = [task[req[r].task] EXCEPT !.review = d]]
      BY <1>0, <2>3 DEF DecideReview
    <3>2. QED
      BY <1>0, <2>1, <3>1
  <2>4. QED
    BY <2>2, <2>3 DEF Read, CountSubtasks, FindPendingRound, Fail, Reschedule, TellParent
<1>2. PICK next : req' = [req EXCEPT ![r] = next]
  BY <1>0 DEF Read, CountSubtasks, FindPendingRound, Fail, Reschedule, SubmitReview, DecideReview,
              TellParent
<1>3. req'[r] = next /\ \A q \in Requests \ {r} : req'[q] = req[q]
  BY <1>0, <1>2
<1>4. /\ overtaken' = overtaken /\ told \subseteq told' /\ unheard \subseteq unheard'
      /\ req[r].step = "tell" => \/ OpenKids(req[r].task) # {}
                                 \/ req[r].task \in told' \cup unheard'
  BY DEF Read, CountSubtasks, FindPendingRound, Fail, Reschedule, SubmitReview, DecideReview,
         TellParent, NoneUnresolved, Deciding
<1>5. req'[r].step = "read" /\ req'[r].counted => req'[r].kids = {}
  <2>1. CASE CountSubtasks(r)
    BY <1>0, <2>1 DEF CountSubtasks, Resolved, Reqs
  <2>2. CASE FindPendingRound(r)
    BY <1>0, <2>2 DEF FindPendingRound, Reqs
  <2>3. CASE Read(r)
    BY <1>0, <2>3 DEF Read, IdleReq
  <2>4. CASE Fail(r) \/ Reschedule(r) \/ SubmitReview(r) \/ DecideReview(r) \/ TellParent(r)
    BY <1>0, <2>4, IdleReqType DEF Fail, Reschedule, SubmitReview, DecideReview, TellParent
  <2>5. QED
    BY <2>1, <2>2, <2>3, <2>4
<1>6. QED
  BY <1>1, <1>3, <1>4, <1>5, TreeQuiet

LEMMA TreeStep == IInv /\ TreeIInv /\ [Next]_vars => TreeIInv'
<1> SUFFICES ASSUME IInv, TreeIInv, [Next]_vars PROVE TreeIInv'
  OBVIOUS
<1>1. CASE UNCHANGED vars
  <2>1. UNCHANGED <<task, req, told, overtaken, unheard>>
    BY <1>1 DEF vars
  <2>2. QED
    BY <2>1 DEF TreeIInv, Rooted, Ranking, CountedNone, OpenKidNeedsOverlap, ParentHears, Live,
                Children, OpenKids
<1>2. ASSUME NEW r \in Requests,
             ChangeStatus(r) \/ Complete(r) \/ Update(r) \/ Reassign(r)
      PROVE  TreeIInv'
  BY <1>2, NextSound, WritesRewrite, TreeWrite DEF StepSound
<1>3. CASE Next
  BY <1>2, <1>3, TreeCreate, TreeCreateSubtask, TreeRemove, TreeQuietSteps DEF Next, Step
<1>4. QED
  BY <1>1, <1>3

\* The tree of tasks stays within its depth and under living parents for any tasks and
\* requests at once (createSubtask, remove); a finished task has an open subtask only by
\* an overlap, and the assignee of a parent hears when the last subtask is closed
\* (notifyParentReady).
THEOREM TreeSafe == Spec => []TreeInv
<1>1. IInv /\ [Next]_vars => IInv'
  BY NextSound DEF StepSound
<1>2. IInv /\ TreeIInv => TreeInv
  <2> SUFFICES ASSUME IInv, TreeIInv PROVE HierarchySound
    BY DEF TreeIInv, TreeInv
  <2>1. PICK f : Ranking(f)
    BY DEF TreeIInv
  <2>2. \A t \in Tasks : Depth(t) <= MaxDepth
    BY <2>1, DepthIsRank DEF Ranking
  <2>3. QED
    BY <2>2 DEF HierarchySound, TreeIInv, Rooted
<1>3. QED
  BY InitInv, TreeInit, <1>1, <1>2, TreeStep, PTL DEF Spec

-----------------------------------------------------------------------------
(* Timesheets and leave                                                    *)

(***************************************************************************)
(* Time.  A booking covers halves of its own days only, and work a day or  *)
(* a night: so two bookings that cannot both be have a day in common.      *)
(***************************************************************************)
LEMMA ExtentFacts ==
  ASSUME NEW x \in AnyExtent
  PROVE  /\ x.first \in Days /\ x.last \in Days /\ x.first <= x.last
         /\ \A h \in x.halves :
              \E d \in Int : /\ x.first <= d /\ d <= x.last
                             /\ h = 2*d \/ h = 2*d + 1
         /\ x \in Extents("work") => x.last <= x.first + 1
<1> USE DEF Extent, Days
<1>0. LastDay \in Nat
  BY WorkCalendarAssumption
<1>1. CASE x \in WholeDays
  <2>1. PICK d \in Days : x = Extent(d, d, {})
    BY <1>1 DEF WholeDays
  <2>2. x.first = d /\ x.last = d /\ x.halves = {}
    BY <2>1
  <2>3. QED
    BY <2>2, <1>0
<1>2. CASE x \in Evenings
  <2>1. PICK d \in 1..(LastDay - 1) : x = Extent(d, d, {2*d + 1})
    BY <1>2 DEF Evenings
  <2>2. x.first = d /\ x.last = d /\ x.halves = {2*d + 1}
    BY <2>1
  <2>3. QED
    BY <2>2, <1>0
<1>3. CASE x \in Mornings
  <2>1. PICK d \in 2..LastDay : x = Extent(d, d, {2*d})
    BY <1>3 DEF Mornings
  <2>2. x.first = d /\ x.last = d /\ x.halves = {2*d}
    BY <2>1
  <2>3. QED
    BY <2>2, <1>0
<1>4. CASE x \in Nights
  <2>1. PICK d \in 1..(LastDay - 1) : x = Extent(d, d + 1, {2*d + 1, 2*d + 2})
    BY <1>4 DEF Nights
  <2>2. x.first = d /\ x.last = d + 1 /\ x.halves = {2*d + 1, 2*d + 2}
    BY <2>1
  <2>3. 2*d + 2 = 2*(d + 1)
    BY <1>0
  <2>4. QED
    BY <2>2, <2>3, <1>0
<1>5. CASE x \in LongDays
  <2>1. PICK d \in {y \in Days \X Days : y[1] < y[2]} : x = Extent(d[1], d[2], {})
    BY <1>5 DEF LongDays
  <2>2. x.first = d[1] /\ x.last = d[2] /\ x.halves = {} /\ d[1] < d[2]
    BY <2>1
  <2>3. x \in Extents("work") => x.last <= x.first + 1
    <3>1. SUFFICES ASSUME x \in Extents("work") PROVE x.last <= x.first + 1
      OBVIOUS
    <3>2. x \in WholeDays \/ x \in Evenings \/ x \in Mornings \/ x \in Nights
      BY <3>1 DEF Extents
    <3>3. QED
      BY <3>2, <2>2, <1>0 DEF WholeDays, Evenings, Mornings, Nights
  <2>4. QED
    BY <2>2, <2>3, <1>0
<1>6. QED
  BY <1>1, <1>2, <1>3, <1>4, <1>5 DEF AnyExtent, Extents

LEMMA ExtentsTyped == \A k : Extents(k) \subseteq AnyExtent
BY DEF Extents, AnyExtent

DaysOf(x) == x.first .. x.last

\* Bookings that cannot both be have a day in common.
LEMMA ClashShareDay ==
  ASSUME NEW x \in AnyExtent, NEW y \in AnyExtent, NEW k, NEW l, WouldClash(k, x, l, y)
  PROVE  DaysOf(x) \cap DaysOf(y) # {}
<1>1. x.first \in Int /\ x.last \in Int /\ y.first \in Int /\ y.last \in Int
  BY ExtentFacts, WorkCalendarAssumption DEF Days
<1>2. CASE Crosses(x, y)
  <2>1. PICK h \in x.halves : h \in y.halves
    BY <1>2 DEF Crosses
  <2>2. PICK d \in Int : x.first <= d /\ d <= x.last /\ (h = 2*d \/ h = 2*d + 1)
    BY <2>1, ExtentFacts
  <2>3. PICK e \in Int : y.first <= e /\ e <= y.last /\ (h = 2*e \/ h = 2*e + 1)
    BY <2>1, ExtentFacts
  <2>4. d = e
    BY <2>2, <2>3
  <2>5. QED
    BY <2>2, <2>3, <2>4, <1>1 DEF DaysOf
<1>3. CASE Meets(x, y)
  <2>1. x.first <= y.last /\ y.first <= x.last /\ x.first <= x.last /\ y.first <= y.last
    BY <1>3, ExtentFacts DEF Meets
  <2>2. CASE x.first <= y.first
    BY <2>1, <2>2, <1>1 DEF DaysOf
  <2>3. CASE y.first <= x.first
    BY <2>1, <2>3, <1>1 DEF DaysOf
  <2>4. QED
    BY <2>2, <2>3, <1>1
<1>4. QED
  BY <1>2, <1>3 DEF WouldClash

LEMMA ClashSymmetric ==
  ASSUME NEW x, NEW y, NEW k, NEW l
  PROVE  WouldClash(k, x, l, y) <=> WouldClash(l, y, k, x)
BY DEF WouldClash, Meets, Vague, Crosses

-----------------------------------------------------------------------------
(***************************************************************************)
(* The inductive invariant.  A clerk holds the days of its booking up to   *)
(* some day and no day is held twice; who has checked holds them all; what *)
(* it has read of its row is still so unless it was moved; and what it     *)
(* checked against stays clear of what it will write, of other work always *)
(* and of leave until leave is submitted.                                  *)
(***************************************************************************)
Against(c, b) ==
  WouldClash(sort[clerk[c].target], clerk[c].want, sort[b], booking[b].covers)
BothWork(c, b) == sort[clerk[c].target] = "work" /\ sort[b] = "work"

StaysClear(c) ==
  \A b \in Bookings \ {clerk[c].target} :
    Counts(b) /\ Against(c, b) => clerk[c].stale /\ ~BothWork(c, b)

HeldUpTo(c, d) ==
  /\ clerk[c].want.first <= d /\ d <= clerk[c].want.last + 1
  /\ clerk[c].held = clerk[c].want.first .. (d - 1)

ClerkSound(c) ==
  /\ clerk[c].step = "idle" => clerk[c].held = {}
  /\ clerk[c].step # "idle" =>
       /\ clerk[c].want \in Extents(sort[clerk[c].target])
       /\ \E d \in Int : HeldUpTo(c, d)
       /\ clerk[c].moved \/ booking[clerk[c].target].status = clerk[c].seen
  /\ clerk[c].step = "checked" =>
       clerk[c].held = DaysOf(clerk[c].want) /\ StaysClear(c)

BookingsFit == \A b \in Bookings : booking[b].covers \in Extents(sort[b])
HeldOnce == \A c, o \in Clerks : c # o => clerk[c].held \cap clerk[o].held = {}

CalendarIInv ==
  /\ CalendarTypeOK /\ BookingsFit
  /\ \A c \in Clerks : ClerkSound(c)
  /\ HeldOnce /\ WorkDisjoint

LEMMA NoExtentFits == NoExtent \in AnyExtent /\ \A k : NoExtent \in Extents(k)
<1>1. NoExtent \in WholeDays
  BY WorkCalendarAssumption DEF NoExtent, WholeDays, Days
<1>2. QED
  BY <1>1 DEF Extents, AnyExtent

LEMMA IdleClerkSound ==
  /\ IdleClerk \in ClerkRows
  /\ IdleClerk.step = "idle" /\ IdleClerk.held = {}
BY NoExtentFits DEF IdleClerk, ClerkRows

LEMMA CalendarInitially == CalendarInit => CalendarIInv
<1> SUFFICES ASSUME CalendarInit PROVE CalendarIInv
  OBVIOUS
<1>1. /\ sort \in [Bookings -> {"work", "leave"}]
      /\ booking = [b \in Bookings |-> [status |-> "NONE", covers |-> NoExtent]]
      /\ clerk = [c \in Clerks |-> IdleClerk]
  BY DEF CalendarInit
<1>2. \A b \in Bookings : booking[b].status = "NONE" /\ booking[b].covers = NoExtent
  BY <1>1
<1>3. booking \in [Bookings -> BookingRows]
  BY <1>1, NoExtentFits DEF BookingRows
<1>4. \A c \in Clerks : clerk[c] = IdleClerk
  BY <1>1
<1>5. clerk \in [Clerks -> ClerkRows]
  BY <1>1, IdleClerkSound
<1>6. CalendarTypeOK
  BY <1>1, <1>3, <1>4, <1>5, IdleClerkSound DEF CalendarTypeOK
<1>7. BookingsFit
  BY <1>2, NoExtentFits DEF BookingsFit
<1>8. \A c \in Clerks : ClerkSound(c)
  BY <1>4, IdleClerkSound DEF ClerkSound
<1>9. HeldOnce
  BY <1>4, IdleClerkSound DEF HeldOnce
<1>10. \A b \in Bookings : ~Counts(b)
  BY <1>2 DEF Counts, BookingStatuses
<1>11. WorkDisjoint
  BY <1>10 DEF WorkDisjoint, Clash
<1>12. QED
  BY <1>6, <1>7, <1>8, <1>9, <1>11 DEF CalendarIInv

-----------------------------------------------------------------------------
(* The steps that leave the bookings alone                                 *)

\* Only the clerk that steps has to be looked at.
LEMMA OneClerk ==
  ASSUME CalendarIInv, NEW c \in Clerks, NEW row \in ClerkRows,
         UNCHANGED <<sort, booking>>, clerk' = [clerk EXCEPT ![c] = row],
         row.step # "idle" => row.target \in Bookings,
         \A o \in Clerks \ {c} : row.held \cap clerk[o].held = {},
         ClerkSound(c)'
  PROVE  CalendarIInv'
<1>1. clerk' \in [Clerks -> ClerkRows] /\ clerk'[c] = row
  BY DEF CalendarIInv, CalendarTypeOK
<1>2. \A o \in Clerks \ {c} : clerk'[o] = clerk[o]
  BY DEF CalendarIInv, CalendarTypeOK
<1>3. CalendarTypeOK'
  BY <1>1, <1>2 DEF CalendarIInv, CalendarTypeOK
<1>4. BookingsFit' /\ WorkDisjoint'
  BY DEF CalendarIInv, BookingsFit, WorkDisjoint, Clash, Counts
<1>5. \A o \in Clerks \ {c} : ClerkSound(o)'
  BY <1>2 DEF CalendarIInv, ClerkSound, HeldUpTo, StaysClear, Against, BothWork, Counts
<1>6. HeldOnce'
  BY <1>1, <1>2 DEF CalendarIInv, HeldOnce
<1>7. QED
  BY <1>3, <1>4, <1>5, <1>6 DEF CalendarIInv

LEMMA BeginKeeps ==
  ASSUME CalendarIInv, NEW c \in Clerks, NEW b \in Bookings, NEW x \in Extents(sort[b]),
         booking[b].status \in {"NONE"} \cup Editable, Begin(c, b, x), UNCHANGED <<sort, booking>>
  PROVE  CalendarIInv'
<1> DEFINE row == [step |-> "locking", target |-> b, seen |-> booking[b].status, want |-> x,
                   held |-> {}, moved |-> FALSE, stale |-> FALSE]
<1>1. x \in AnyExtent
  BY ExtentsTyped
<1>2. row \in ClerkRows
  BY <1>1 DEF ClerkRows
<1>3. clerk' = [clerk EXCEPT ![c] = row]
  BY DEF Begin
<1>4. clerk'[c] = row
  BY <1>3 DEF CalendarIInv, CalendarTypeOK
<1>5. x.first \in Int /\ x.last \in Int /\ x.first <= x.last
  BY <1>1, ExtentFacts, WorkCalendarAssumption DEF Days
<1>6. x.first <= x.first /\ x.first <= x.last + 1 /\ {} = x.first .. (x.first - 1)
  BY <1>5
<1>7. HeldUpTo(c, x.first)'
  BY <1>4, <1>6 DEF HeldUpTo
<1>8. ClerkSound(c)'
  BY <1>4, <1>5, <1>7 DEF ClerkSound
<1>9. \A o \in Clerks \ {c} : row.held \cap clerk[o].held = {}
  OBVIOUS
<1> HIDE DEF row
<1>10. row.step # "idle" => row.target \in Bookings
  BY DEF row
<1>11. QED
  BY <1>2, <1>3, <1>8, <1>9, <1>10, OneClerk

LEMMA NextDayIs ==
  ASSUME CalendarIInv, NEW c \in Clerks, clerk[c].step = "locking", Missing(c) # {},
         NEW d \in Int, HeldUpTo(c, d)
  PROVE  NextDay(c) = d /\ d <= clerk[c].want.last /\ d \in Days
<1>1. clerk[c].want \in AnyExtent
  BY ExtentsTyped DEF CalendarIInv, CalendarTypeOK, ClerkRows
<1> DEFINE a == clerk[c].want.first
           z == clerk[c].want.last
<1>2. /\ a \in Int /\ z \in Int /\ a <= z /\ 1 <= a /\ z <= LastDay /\ LastDay \in Int
  BY <1>1, ExtentFacts, WorkCalendarAssumption DEF Days
<1>3. a <= d /\ d <= z + 1 /\ clerk[c].held = a .. (d - 1)
  BY DEF HeldUpTo
<1>4. Missing(c) = d .. z
  BY <1>2, <1>3 DEF Missing
<1>5. d <= z
  BY <1>2, <1>4
<1>6. d \in Missing(c) /\ \A o \in Missing(c) : d <= o
  BY <1>2, <1>4, <1>5
<1>7. \A e \in Missing(c) : (\A o \in Missing(c) : e <= o) => e = d
  BY <1>4, <1>6, <1>2
<1>8. NextDay(c) = d
  BY <1>6, <1>7 DEF NextDay
<1>9. QED
  BY <1>2, <1>3, <1>5, <1>8 DEF Days

LEMMA LockKeeps ==
  ASSUME CalendarIInv, NEW c \in Clerks, LockDay(c)
  PROVE  CalendarIInv'
<1>1. /\ clerk[c].step = "locking" /\ Missing(c) # {} /\ UNCHANGED <<sort, booking>>
      /\ \A o \in Clerks \ {c} : NextDay(c) \notin clerk[o].held
      /\ clerk' = [clerk EXCEPT ![c].held = @ \cup {NextDay(c)}]
  BY DEF LockDay, CanLock
<1>2. ClerkSound(c)
  BY DEF CalendarIInv
<1>3. PICK d \in Int : HeldUpTo(c, d)
  BY <1>1, <1>2 DEF ClerkSound
<1>4. NextDay(c) = d /\ d <= clerk[c].want.last /\ d \in Days
  BY <1>1, <1>3, NextDayIs
<1> DEFINE row == [clerk[c] EXCEPT !.held = @ \cup {d}]
<1>5. clerk[c] \in ClerkRows
  BY DEF CalendarIInv, CalendarTypeOK
<1>6. /\ row \in ClerkRows /\ row.step = clerk[c].step /\ row.target = clerk[c].target
      /\ row.want = clerk[c].want /\ row.moved = clerk[c].moved /\ row.seen = clerk[c].seen
      /\ row.held = clerk[c].held \cup {d}
  BY <1>4, <1>5 DEF ClerkRows
<1>7. clerk' = [clerk EXCEPT ![c] = row] /\ clerk'[c] = row
  BY <1>1, <1>4 DEF CalendarIInv, CalendarTypeOK
<1> HIDE DEF row
<1>8. clerk[c].want \in AnyExtent
  BY <1>5 DEF ClerkRows
<1>9. clerk[c].want.first \in Int /\ clerk[c].want.last \in Int
  BY <1>8, ExtentFacts, WorkCalendarAssumption DEF Days
<1>10. HeldUpTo(c, d + 1)'
  <2>1. /\ clerk[c].want.first <= d /\ d <= clerk[c].want.last + 1
        /\ clerk[c].held = clerk[c].want.first .. (d - 1)
    BY <1>3 DEF HeldUpTo
  <2>2. row.held = row.want.first .. ((d + 1) - 1)
    <3>1. (row.want.first .. (d - 1)) \cup {d} = row.want.first .. ((d + 1) - 1)
      BY <2>1, <1>6, <1>9
    <3>2. QED
      BY <2>1, <1>6, <3>1
  <2>3. row.want.first <= d + 1 /\ d + 1 <= row.want.last + 1
    BY <2>1, <1>4, <1>6, <1>9
  <2>4. QED
    BY <1>7, <2>2, <2>3 DEF HeldUpTo
<1>11. ClerkSound(c)'
  BY <1>1, <1>2, <1>6, <1>7, <1>10 DEF ClerkSound
<1>12. \A o \in Clerks \ {c} : row.held \cap clerk[o].held = {}
  BY <1>1, <1>4, <1>6 DEF CalendarIInv, HeldOnce
<1>13. row.target \in Bookings
  BY <1>1, <1>6 DEF CalendarIInv, CalendarTypeOK
<1>14. QED
  BY <1>1, <1>6, <1>7, <1>11, <1>12, <1>13, OneClerk

\* What a check compares with is all that would clash.
LEMMA ConflictsFound ==
  ASSUME CalendarIInv, NEW c \in Clerks, clerk[c].step # "idle",
         NEW b \in Bookings \ {clerk[c].target}, Counts(b), Against(c, b)
  PROVE  b \in Conflicts(c)
<1> DEFINE x == clerk[c].want
           y == booking[b].covers
           t == clerk[c].target
<1>1. t \in Bookings /\ x \in AnyExtent /\ x \in Extents(sort[t])
  BY DEF CalendarIInv, CalendarTypeOK, ClerkSound, ClerkRows
<1>2. y \in AnyExtent /\ y \in Extents(sort[b])
  BY DEF CalendarIInv, CalendarTypeOK, BookingsFit, BookingRows
<1>3. sort[t] \in {"work", "leave"} /\ sort[b] \in {"work", "leave"}
  BY <1>1 DEF CalendarIInv, CalendarTypeOK
<1>4. /\ x.first \in Int /\ x.last \in Int /\ y.first \in Int /\ y.last \in Int
      /\ x.first <= x.last /\ y.first <= y.last
      /\ sort[b] = "work" => y.last <= y.first + 1
  BY <1>1, <1>2, ExtentFacts, WorkCalendarAssumption DEF Days
<1>5. WouldClash(sort[t], x, sort[b], y)
  BY DEF Against
<1>6. PICK d : d \in DaysOf(x) /\ d \in DaysOf(y)
  BY <1>1, <1>2, <1>5, ClashShareDay
<1>7. Meets(x, y)
  BY <1>4, <1>6 DEF Meets, DaysOf
<1>8. CASE sort[b] = "work"
  <2>1. NearWork(b, x)
    BY <1>4, <1>7, <1>8 DEF NearWork, Counts, Meets, BookingStatuses
  <2>2. Conflict(sort[t], x, b)
    BY <1>3, <1>5, <1>8, <2>1 DEF Conflict, WorkConflict, LeaveConflict, WouldClash
  <2>3. QED
    BY <2>2 DEF Conflicts
<1>9. CASE sort[b] = "leave"
  <2>1. StandingLeave(b, x)
    BY <1>7, <1>9 DEF StandingLeave, Counts, Meets
  <2>2. Conflict(sort[t], x, b)
    BY <1>3, <1>5, <1>9, <2>1 DEF Conflict, WorkConflict, LeaveConflict, WouldClash
  <2>3. QED
    BY <2>2 DEF Conflicts
<1>10. QED
  BY <1>3, <1>8, <1>9

LEMMA CheckKeeps ==
  ASSUME CalendarIInv, NEW c \in Clerks, CheckConflicts(c)
  PROVE  CalendarIInv'
<1>1. /\ clerk[c].step = "locking" /\ Missing(c) = {} /\ Conflicts(c) = {}
      /\ clerk' = [clerk EXCEPT ![c].step = "checked"] /\ UNCHANGED <<sort, booking>>
  BY DEF CheckConflicts
<1>2. ClerkSound(c) /\ clerk[c] \in ClerkRows
  BY DEF CalendarIInv, CalendarTypeOK
<1> DEFINE row == [clerk[c] EXCEPT !.step = "checked"]
<1>3. /\ row \in ClerkRows /\ row.step = "checked" /\ row.target = clerk[c].target
      /\ row.want = clerk[c].want /\ row.moved = clerk[c].moved /\ row.seen = clerk[c].seen
      /\ row.held = clerk[c].held /\ row.stale = clerk[c].stale
  BY <1>2 DEF ClerkRows
<1>4. clerk' = [clerk EXCEPT ![c] = row] /\ clerk'[c] = row
  BY <1>1 DEF CalendarIInv, CalendarTypeOK
<1> HIDE DEF row
<1>5. PICK d \in Int : HeldUpTo(c, d)
  BY <1>1, <1>2 DEF ClerkSound
<1>6. clerk[c].want \in AnyExtent
  BY <1>2 DEF ClerkRows
<1>7. clerk[c].want.first \in Int /\ clerk[c].want.last \in Int
  BY <1>6, ExtentFacts, WorkCalendarAssumption DEF Days
<1>8. clerk[c].held = DaysOf(clerk[c].want)
  BY <1>1, <1>5, <1>7 DEF HeldUpTo, Missing, DaysOf
<1>9. \A b \in Bookings \ {clerk[c].target} : ~(Counts(b) /\ Against(c, b))
  BY <1>1, ConflictsFound
<1>10. StaysClear(c)'
  BY <1>1, <1>3, <1>4, <1>9 DEF StaysClear, Against, Counts
<1>11. HeldUpTo(c, d)'
  BY <1>3, <1>4, <1>5 DEF HeldUpTo
<1>12. ClerkSound(c)'
  BY <1>1, <1>2, <1>3, <1>4, <1>8, <1>10, <1>11 DEF ClerkSound
<1>13. \A o \in Clerks \ {c} : row.held \cap clerk[o].held = {}
  BY <1>3 DEF CalendarIInv, HeldOnce
<1>14. row.target \in Bookings
  BY <1>1, <1>3 DEF CalendarIInv, CalendarTypeOK
<1>15. QED
  BY <1>1, <1>3, <1>4, <1>12, <1>13, <1>14, OneClerk

LEMMA RollBackKeeps ==
  ASSUME CalendarIInv, NEW c \in Clerks, RollBack(c)
  PROVE  CalendarIInv'
<1>1. clerk' = [clerk EXCEPT ![c] = IdleClerk] /\ UNCHANGED <<sort, booking>>
  BY DEF RollBack
<1>2. clerk'[c] = IdleClerk
  BY <1>1 DEF CalendarIInv, CalendarTypeOK
<1>3. ClerkSound(c)'
  BY <1>2, IdleClerkSound DEF ClerkSound
<1>4. QED
  BY <1>1, <1>3, IdleClerkSound, OneClerk

LEMMA BeginsAndLocksKeep ==
  ASSUME CalendarIInv, NEW c \in Clerks,
         BeginCreate(c) \/ BeginUpdate(c) \/ LockDay(c) \/ CheckConflicts(c) \/ RollBack(c)
  PROVE  CalendarIInv' /\ UNCHANGED <<sort, booking>>
<1>1. CASE BeginCreate(c)
  BY <1>1, BeginKeeps DEF BeginCreate
<1>2. CASE BeginUpdate(c)
  BY <1>2, BeginKeeps DEF BeginUpdate, MayEdit
<1>3. CASE LockDay(c)
  BY <1>3, LockKeeps DEF LockDay
<1>4. CASE CheckConflicts(c)
  BY <1>4, CheckKeeps DEF CheckConflicts
<1>5. CASE RollBack(c)
  BY <1>5, RollBackKeeps DEF RollBack
<1>6. QED
  BY <1>1, <1>2, <1>3, <1>4, <1>5

-----------------------------------------------------------------------------
(* The steps that write a booking                                          *)

\* What a write leaves behind
LEMMA WriteSets ==
  ASSUME CalendarIInv, NEW c \in Clerks, WriteBooking(c)
  PROVE  /\ clerk[c].step = "checked" /\ sort' = sort
         /\ clerk[c].target \in Bookings /\ clerk[c].want \in Extents(sort[clerk[c].target])
         /\ booking' \in [Bookings -> BookingRows] /\ clerk' \in [Clerks -> ClerkRows]
         /\ booking'[clerk[c].target].status = StatusWritten(c)
         /\ booking'[clerk[c].target].covers = clerk[c].want
         /\ \A b \in Bookings \ {clerk[c].target} : booking'[b] = booking[b]
         /\ clerk'[c].step = "idle" /\ clerk'[c].held = {}
         /\ \A o \in Clerks \ {c} :
              /\ clerk'[o].step = clerk[o].step /\ clerk'[o].target = clerk[o].target
              /\ clerk'[o].want = clerk[o].want /\ clerk'[o].held = clerk[o].held
              /\ clerk'[o].seen = clerk[o].seen /\ clerk'[o].stale = clerk[o].stale
              /\ clerk[o].moved => clerk'[o].moved
              /\ clerk[o].target = clerk[c].target
                   /\ StatusWritten(c) # booking[clerk[c].target].status => clerk'[o].moved
<1> DEFINE t == clerk[c].target
<1>1. /\ clerk[c].step = "checked" /\ sort' = sort
      /\ booking' = [booking EXCEPT ![t] = [status |-> StatusWritten(c), covers |-> clerk[c].want]]
      /\ clerk' = [o \in Clerks |->
           IF o = c THEN IdleClerk
           ELSE [clerk[o] EXCEPT
                   !.moved = @ \/ (clerk[o].target = t /\ StatusWritten(c) # booking[t].status)]]
  BY DEF WriteBooking
<1>2. t \in Bookings /\ clerk[c] \in ClerkRows /\ clerk[c].want \in Extents(sort[t])
  BY <1>1 DEF CalendarIInv, CalendarTypeOK, ClerkSound
<1>3. booking \in [Bookings -> BookingRows] /\ clerk \in [Clerks -> ClerkRows]
  BY DEF CalendarIInv, CalendarTypeOK
<1>4. StatusWritten(c) \in BookingStatuses \cup {"NONE"}
  BY <1>2, <1>3 DEF StatusWritten, BookingRows, BookingStatuses
<1>5. [status |-> StatusWritten(c), covers |-> clerk[c].want] \in BookingRows
  BY <1>2, <1>4 DEF BookingRows, ClerkRows
<1>6. /\ booking' \in [Bookings -> BookingRows]
      /\ booking'[t] = [status |-> StatusWritten(c), covers |-> clerk[c].want]
      /\ \A b \in Bookings \ {t} : booking'[b] = booking[b]
  BY <1>1, <1>2, <1>3, <1>5
<1> DEFINE m(o) == clerk[o].moved \/ (clerk[o].target = t /\ StatusWritten(c) # booking[t].status)
<1>7. clerk'[c] = IdleClerk /\ \A o \in Clerks \ {c} : clerk'[o] = [clerk[o] EXCEPT !.moved = m(o)]
  BY <1>1
<1>8. \A o \in Clerks : m(o) \in BOOLEAN
  BY <1>3 DEF ClerkRows
<1> HIDE DEF m
<1>9. ASSUME NEW o \in Clerks \ {c}
      PROVE  /\ clerk'[o] \in ClerkRows /\ clerk'[o].moved = m(o)
             /\ clerk'[o].step = clerk[o].step /\ clerk'[o].target = clerk[o].target
             /\ clerk'[o].want = clerk[o].want /\ clerk'[o].held = clerk[o].held
             /\ clerk'[o].seen = clerk[o].seen /\ clerk'[o].stale = clerk[o].stale
  <2>1. clerk'[o] = [clerk[o] EXCEPT !.moved = m(o)] /\ clerk[o] \in ClerkRows /\ m(o) \in BOOLEAN
    BY <1>3, <1>7, <1>8
  <2>2. QED
    BY <2>1 DEF ClerkRows
<1>10. clerk' \in [Clerks -> ClerkRows]
  BY <1>1, <1>7, <1>9, IdleClerkSound
<1>11. \A o \in Clerks \ {c} :
         /\ clerk[o].moved => clerk'[o].moved
         /\ clerk[o].target = t /\ StatusWritten(c) # booking[t].status => clerk'[o].moved
  BY <1>9 DEF m
<1>12. clerk'[c].step = "idle" /\ clerk'[c].held = {}
  BY <1>7, IdleClerkSound
<1>13. QED
  BY <1>1, <1>2, <1>6, <1>9, <1>10, <1>11, <1>12

\* Whoever else has checked holds other days, so what is written is clear of it.
LEMMA WriteKeeps ==
  ASSUME CalendarIInv, NEW c \in Clerks, WriteBooking(c)
  PROVE  CalendarIInv'
<1> PICK t \in Bookings : t = clerk[c].target
  BY WriteSets
<1>1. /\ clerk[c].step = "checked" /\ sort' = sort
      /\ t \in Bookings /\ clerk[c].want \in Extents(sort[t])
      /\ booking' \in [Bookings -> BookingRows] /\ clerk' \in [Clerks -> ClerkRows]
      /\ booking'[t].status = StatusWritten(c) /\ booking'[t].covers = clerk[c].want
      /\ \A b \in Bookings \ {t} : booking'[b] = booking[b]
      /\ clerk'[c].step = "idle" /\ clerk'[c].held = {}
  BY WriteSets
<1>2. \A o \in Clerks : clerk[o] \in ClerkRows
  BY DEF CalendarIInv, CalendarTypeOK
<1>3. \A o \in Clerks \ {c} :
        /\ clerk'[o].step = clerk[o].step /\ clerk'[o].target = clerk[o].target
        /\ clerk'[o].want = clerk[o].want /\ clerk'[o].held = clerk[o].held
        /\ clerk'[o].seen = clerk[o].seen /\ clerk'[o].stale = clerk[o].stale
        /\ clerk[o].moved => clerk'[o].moved
        /\ clerk[o].target = t /\ StatusWritten(c) # booking[t].status => clerk'[o].moved
  BY <1>2, WriteSets DEF ClerkRows
<1>4. CalendarTypeOK'
  BY <1>1, <1>3 DEF CalendarIInv, CalendarTypeOK
<1>5. BookingsFit'
  BY <1>1 DEF CalendarIInv, BookingsFit
<1>6. HeldOnce'
  BY <1>1, <1>3 DEF CalendarIInv, HeldOnce
<1>7. StaysClear(c) /\ clerk[c].held = DaysOf(clerk[c].want)
  BY <1>1 DEF CalendarIInv, ClerkSound
<1>8. WorkDisjoint'
  <2>1. SUFFICES ASSUME NEW a \in Bookings, NEW b \in Bookings, a # b,
                        sort[a] = "work", sort[b] = "work", Counts(a)', Counts(b)',
                        WouldClash("work", booking'[a].covers, "work", booking'[b].covers)
                 PROVE  FALSE
    BY <1>1 DEF WorkDisjoint, Clash
  <2>2. CASE a # t /\ b # t
    BY <1>1, <2>1, <2>2 DEF CalendarIInv, WorkDisjoint, Clash, Counts
  <2>3. CASE a = t
    BY <1>1, <1>7, <2>1, <2>3 DEF StaysClear, Against, BothWork, Counts
  <2>4. CASE b = t
    <3>1. WouldClash("work", booking'[b].covers, "work", booking'[a].covers)
      BY <2>1, ClashSymmetric
    <3>2. QED
      BY <1>1, <1>7, <2>1, <2>4, <3>1 DEF StaysClear, Against, BothWork, Counts
  <2>5. QED
    BY <2>2, <2>3, <2>4
<1>9. \A o \in Clerks : ClerkSound(o)'
  <2>1. SUFFICES ASSUME NEW o \in Clerks \ {c} PROVE ClerkSound(o)'
    BY <1>1 DEF ClerkSound
  <2>2. ClerkSound(o)
    BY DEF CalendarIInv
  <2>3. ASSUME clerk[o].step # "idle"
        PROVE  clerk'[o].moved \/ booking'[clerk[o].target].status = clerk[o].seen
    <3>1. clerk[o].target \in Bookings
      BY <2>3 DEF CalendarIInv, CalendarTypeOK
    <3>2. QED
      BY <1>1, <1>3, <2>2, <2>3, <3>1 DEF ClerkSound
  <2>4. \A d : HeldUpTo(o, d) => HeldUpTo(o, d)'
    BY <1>3 DEF HeldUpTo
  <2>5. ASSUME clerk[o].step = "checked" PROVE StaysClear(o)'
    <3>1. clerk[o].held = DaysOf(clerk[o].want) /\ StaysClear(o)
      BY <2>2, <2>5 DEF ClerkSound
    <3>2. DaysOf(clerk[c].want) \cap DaysOf(clerk[o].want) = {}
      BY <1>7, <3>1 DEF CalendarIInv, HeldOnce
    <3>3. clerk[c].want \in AnyExtent /\ clerk[o].want \in AnyExtent
      BY <1>2 DEF ClerkRows
    <3>4. ~WouldClash(sort[clerk[o].target], clerk[o].want, sort[t], clerk[c].want)
      BY <3>2, <3>3, ClashShareDay
    <3>5. ~Against(o, t)'
      BY <1>1, <1>3, <3>4 DEF Against
    <3>6. \A b \in Bookings \ {t} : (Counts(b)' <=> Counts(b)) /\ (Against(o, b)' <=> Against(o, b))
      BY <1>1, <1>3 DEF Counts, Against
    <3>7. QED
      BY <1>1, <1>3, <3>1, <3>5, <3>6 DEF StaysClear, BothWork
  <2>6. QED
    BY <1>1, <1>3, <2>2, <2>3, <2>4, <2>5 DEF ClerkSound
<1>10. QED
  BY <1>4, <1>5, <1>6, <1>8, <1>9 DEF CalendarIInv

\* Where a conditional write leads: only leave that is submitted takes up time.
Moves(from, to) ==
  \/ from = Editable /\ to \in {"SUBMITTED", "CANCELLED"}
  \/ from = {"SUBMITTED"} /\ to \in {"APPROVED", "REJECTED"}

LEMMA MoveSets ==
  ASSUME CalendarIInv, NEW b \in Bookings, NEW from, NEW to, Moves(from, to), Move(b, from, to)
  PROVE  /\ sort' = sort /\ booking[b].status \in from
         /\ booking' \in [Bookings -> BookingRows] /\ clerk' \in [Clerks -> ClerkRows]
         /\ booking'[b].status = to /\ booking'[b].covers = booking[b].covers
         /\ \A a \in Bookings \ {b} : booking'[a] = booking[a]
         /\ \A c \in Clerks :
              /\ clerk'[c].step = clerk[c].step /\ clerk'[c].target = clerk[c].target
              /\ clerk'[c].want = clerk[c].want /\ clerk'[c].held = clerk[c].held
              /\ clerk'[c].seen = clerk[c].seen
              /\ clerk[c].moved \/ clerk[c].target = b => clerk'[c].moved
              /\ clerk[c].stale => clerk'[c].stale
              /\ clerk[c].step = "checked" /\ clerk[c].target # b
                   /\ sort[b] = "leave" /\ to = "SUBMITTED" => clerk'[c].stale
<1> DEFINE m(c) == clerk[c].moved \/ clerk[c].target = b
           s(c) == clerk[c].stale \/ (/\ clerk[c].step = "checked" /\ clerk[c].target # b
                                      /\ sort[b] = "leave" /\ to = "SUBMITTED")
<1>1. /\ sort' = sort /\ booking[b].status \in from
      /\ booking' = [booking EXCEPT ![b].status = to]
      /\ clerk' = [c \in Clerks |-> [clerk[c] EXCEPT !.moved = m(c), !.stale = s(c)]]
  BY DEF Move
<1>2. booking \in [Bookings -> BookingRows] /\ clerk \in [Clerks -> ClerkRows]
  BY DEF CalendarIInv, CalendarTypeOK
<1>3. to \in BookingStatuses
  BY DEF Moves, BookingStatuses
<1>4. [booking[b] EXCEPT !.status = to] \in BookingRows
  BY <1>2, <1>3 DEF BookingRows
<1>5. /\ booking'[b].status = to /\ booking'[b].covers = booking[b].covers
      /\ \A a \in Bookings \ {b} : booking'[a] = booking[a]
      /\ booking' \in [Bookings -> BookingRows]
  BY <1>1, <1>2, <1>4 DEF BookingRows
<1>6. \A c \in Clerks : m(c) \in BOOLEAN /\ s(c) \in BOOLEAN
  BY <1>2 DEF ClerkRows
<1> HIDE DEF m, s
<1>7. \A c \in Clerks :
        /\ clerk'[c] \in ClerkRows /\ clerk'[c].moved = m(c) /\ clerk'[c].stale = s(c)
        /\ clerk'[c].step = clerk[c].step /\ clerk'[c].target = clerk[c].target
        /\ clerk'[c].want = clerk[c].want /\ clerk'[c].held = clerk[c].held
        /\ clerk'[c].seen = clerk[c].seen
  BY ZenonT(40), <1>1, <1>2, <1>6 DEF ClerkRows
<1>8. clerk' \in [Clerks -> ClerkRows]
  BY <1>1, <1>7
<1>9. QED
  BY ZenonT(40), <1>1, <1>5, <1>7, <1>8 DEF m, s

LEMMA MoveCounts ==
  ASSUME CalendarIInv, NEW b \in Bookings, NEW from, NEW to, Moves(from, to), Move(b, from, to)
  PROVE  \A a \in Bookings :
           Counts(a)' /\ ~Counts(a) =>
             /\ a = b /\ sort[b] = "leave" /\ to = "SUBMITTED" /\ from = Editable
             /\ booking'[a].status = "SUBMITTED" /\ booking[a].status \in Editable
<1>1. /\ sort' = sort /\ booking[b].status \in from /\ booking'[b].status = to
      /\ \A a \in Bookings \ {b} : booking'[a] = booking[a]
  BY MoveSets
<1>2. \A a \in Bookings : sort[a] \in {"work", "leave"}
  BY DEF CalendarIInv, CalendarTypeOK
<1>3. QED
  BY <1>1, <1>2 DEF Counts, Moves, Editable, BookingStatuses

LEMMA MoveKeeps ==
  ASSUME CalendarIInv, NEW b \in Bookings, NEW from, NEW to, Moves(from, to), Move(b, from, to)
  PROVE  CalendarIInv'
<1>1. /\ sort' = sort
      /\ booking' \in [Bookings -> BookingRows] /\ clerk' \in [Clerks -> ClerkRows]
      /\ \A a \in Bookings : booking'[a].covers = booking[a].covers
      /\ \A a \in Bookings \ {b} : booking'[a] = booking[a]
  BY MoveSets
<1>2. \A c \in Clerks :
        /\ clerk'[c].step = clerk[c].step /\ clerk'[c].target = clerk[c].target
        /\ clerk'[c].want = clerk[c].want /\ clerk'[c].held = clerk[c].held
        /\ clerk'[c].seen = clerk[c].seen
        /\ clerk[c].moved \/ clerk[c].target = b => clerk'[c].moved
        /\ clerk[c].stale => clerk'[c].stale
        /\ clerk[c].step = "checked" /\ clerk[c].target # b
             /\ sort[b] = "leave" /\ to = "SUBMITTED" => clerk'[c].stale
  BY MoveSets
<1>3. CalendarTypeOK'
  BY <1>1, <1>2 DEF CalendarIInv, CalendarTypeOK
<1>4. BookingsFit' /\ HeldOnce'
  BY <1>1, <1>2 DEF CalendarIInv, BookingsFit, HeldOnce
<1>5. \A a \in Bookings : Counts(a)' /\ ~Counts(a) => a = b /\ sort[b] = "leave" /\ to = "SUBMITTED"
  BY MoveCounts
<1>6. WorkDisjoint'
  BY <1>1, <1>5 DEF CalendarIInv, WorkDisjoint, Clash
<1>7. \A c \in Clerks : ClerkSound(c)'
  <2>1. SUFFICES ASSUME NEW c \in Clerks PROVE ClerkSound(c)'
    OBVIOUS
  <2>2. ClerkSound(c)
    BY DEF CalendarIInv
  <2>3. ASSUME clerk[c].step # "idle"
        PROVE  clerk'[c].moved \/ booking'[clerk[c].target].status = clerk[c].seen
    <3>1. clerk[c].target \in Bookings
      BY <2>3 DEF CalendarIInv, CalendarTypeOK
    <3>2. QED
      BY <1>1, <1>2, <2>2, <2>3, <3>1 DEF ClerkSound
  <2>4. \A d : HeldUpTo(c, d) => HeldUpTo(c, d)'
    BY <1>2 DEF HeldUpTo
  <2>5. ASSUME clerk[c].step = "checked" PROVE StaysClear(c)'
    <3>1. SUFFICES ASSUME NEW a \in Bookings \ {clerk[c].target}, Counts(a)', Against(c, a)'
                   PROVE  clerk'[c].stale /\ ~BothWork(c, a)
      BY <1>1, <1>2 DEF StaysClear, BothWork
    <3>2. Against(c, a)
      BY <1>1, <1>2, <3>1 DEF Against
    <3>3. CASE Counts(a)
      BY <1>2, <2>2, <2>5, <3>1, <3>2, <3>3 DEF ClerkSound, StaysClear
    <3>4. CASE ~Counts(a)
      BY <1>2, <1>5, <2>5, <3>1, <3>4 DEF BothWork
    <3>5. QED
      BY <3>3, <3>4
  <2>6. QED
    BY <1>1, <1>2, <2>2, <2>3, <2>4, <2>5 DEF ClerkSound
<1>8. QED
  BY <1>3, <1>4, <1>6, <1>7 DEF CalendarIInv

\* Submitting, cancelling and deciding are such writes.
LEMMA MovesNamed ==
  ASSUME NEW b \in Bookings,
         SubmitBooking(b) \/ CancelBooking(b) \/ ApproveBooking(b) \/ RejectBooking(b)
  PROVE  \E from, to : Moves(from, to) /\ Move(b, from, to)
<1>1. CASE SubmitBooking(b)
  BY <1>1 DEF SubmitBooking, Submittable, Moves
<1>2. CASE CancelBooking(b)
  BY <1>2 DEF CancelBooking, Moves
<1>3. CASE ApproveBooking(b)
  BY <1>3 DEF ApproveBooking, Moves
<1>4. CASE RejectBooking(b)
  BY <1>4 DEF RejectBooking, Moves
<1>5. QED
  BY <1>1, <1>2, <1>3, <1>4

LEMMA CalendarKept == CalendarIInv /\ [CalendarNext]_calendarVars => CalendarIInv'
<1> SUFFICES ASSUME CalendarIInv, [CalendarNext]_calendarVars PROVE CalendarIInv'
  OBVIOUS
<1>1. ASSUME NEW c \in Clerks,
             BeginCreate(c) \/ BeginUpdate(c) \/ LockDay(c) \/ CheckConflicts(c) \/ RollBack(c)
      PROVE  CalendarIInv'
  BY <1>1, BeginsAndLocksKeep
<1>2. ASSUME NEW c \in Clerks, WriteBooking(c) PROVE CalendarIInv'
  BY <1>2, WriteKeeps
<1>3. ASSUME NEW b \in Bookings,
             SubmitBooking(b) \/ CancelBooking(b) \/ ApproveBooking(b) \/ RejectBooking(b)
      PROVE  CalendarIInv'
  BY <1>3, MovesNamed, MoveKeeps
<1>4. CASE UNCHANGED calendarVars
  BY <1>4 DEF calendarVars, CalendarIInv, CalendarTypeOK, BookingsFit, ClerkSound, HeldUpTo,
              StaysClear, Against, BothWork, Counts, HeldOnce, WorkDisjoint, Clash
<1>5. QED
  BY <1>1, <1>2, <1>3, <1>4 DEF CalendarNext

-----------------------------------------------------------------------------
(***************************************************************************)
(* Locks.  The clerk that waits for the latest day waits for nobody: who   *)
(* holds that day would wait for a later one.                              *)
(***************************************************************************)
LEMMA LockGranted == CalendarIInv => LocksGranted
<1> SUFFICES ASSUME CalendarIInv, NEW c0 \in Clerks, clerk[c0].step = "locking",
                    \A c \in Clerks : ~CanLock(c),
                    \A c \in Clerks : clerk[c].step # "idle" => Missing(c) # {}
             PROVE  FALSE
  BY DEF LocksGranted
<1>1. LastDay \in Nat
  BY WorkCalendarAssumption
<1>2. ASSUME NEW c \in Clerks, clerk[c].step # "idle"
      PROVE  /\ clerk[c].step = "locking" /\ NextDay(c) \in Days
             /\ clerk[c].held = clerk[c].want.first .. (NextDay(c) - 1)
  <2>1. ClerkSound(c) /\ clerk[c] \in ClerkRows
    BY DEF CalendarIInv, CalendarTypeOK
  <2>2. clerk[c].step # "checked"
    BY <1>2, <2>1 DEF ClerkSound, Missing, DaysOf
  <2>3. clerk[c].step = "locking"
    BY <1>2, <2>1, <2>2 DEF ClerkRows
  <2>4. PICK d \in Int : HeldUpTo(c, d)
    BY <1>2, <2>1 DEF ClerkSound
  <2>5. NextDay(c) = d /\ d \in Days
    BY <1>2, <2>3, <2>4, NextDayIs
  <2>6. QED
    BY <2>3, <2>4, <2>5 DEF HeldUpTo
<1> DEFINE T == {LastDay - NextDay(c) : c \in {o \in Clerks : clerk[o].step # "idle"}}
<1>3. T \in SUBSET Nat
  BY <1>1, <1>2 DEF Days
<1>4. T # {}
  OBVIOUS
<1>5. PICK n \in T : \A m \in T : n <= m
  BY <1>3, <1>4, LeastNat
<1>6. PICK c \in Clerks : clerk[c].step # "idle" /\ n = LastDay - NextDay(c)
  OBVIOUS
<1>7. PICK o \in Clerks \ {c} : NextDay(c) \in clerk[o].held
  BY <1>2, <1>6 DEF CanLock
<1>8. clerk[o].step # "idle"
  BY <1>7 DEF CalendarIInv, ClerkSound
<1>9. clerk[o].held = clerk[o].want.first .. (NextDay(o) - 1) /\ NextDay(o) \in Days
  BY <1>2, <1>8
<1>10. NextDay(c) \in Days
  BY <1>2, <1>6
<1>11. clerk[o].want \in AnyExtent
  BY DEF CalendarIInv, CalendarTypeOK, ClerkRows
<1>12. clerk[o].want.first \in Int
  BY <1>11, ExtentFacts, WorkCalendarAssumption DEF Days
<1>13. NextDay(c) < NextDay(o)
  BY <1>1, <1>7, <1>9, <1>10, <1>12 DEF Days
<1>14. n <= LastDay - NextDay(o)
  BY <1>5, <1>8
<1>15. QED
  BY <1>1, <1>6, <1>9, <1>10, <1>13, <1>14 DEF Days

LEMMA Refusals == CalendarIInv => RefusalsExplained
<1> SUFFICES ASSUME CalendarIInv, NEW c \in Clerks, clerk[c].step = "locking",
                    NEW b \in Conflicts(c)
             PROVE  /\ Counts(b)
                    /\ \/ Against(c, b)
                       \/ /\ sort[clerk[c].target] = "leave" /\ sort[b] = "work"
                          /\ booking[b].covers.last = clerk[c].want.first - 1
  BY DEF RefusalsExplained, Against
<1> DEFINE x == clerk[c].want
           y == booking[b].covers
           t == clerk[c].target
<1>1. b \in Bookings /\ Conflict(sort[t], x, b)
  BY DEF Conflicts
<1>2. t \in Bookings /\ sort[t] \in {"work", "leave"} /\ sort[b] \in {"work", "leave"}
  BY <1>1 DEF CalendarIInv, CalendarTypeOK
<1>3. x \in AnyExtent /\ y \in AnyExtent /\ booking[b].status \in BookingStatuses \cup {"NONE"}
  BY <1>1 DEF CalendarIInv, CalendarTypeOK, ClerkRows, BookingRows
<1>4. /\ x.first \in Int /\ x.last \in Int /\ y.first \in Int /\ y.last \in Int
      /\ x.first <= x.last /\ y.first <= y.last
  BY <1>3, ExtentFacts, WorkCalendarAssumption DEF Days
<1>5. CASE StandingLeave(b, x) /\ (Vague(x, y) \/ Crosses(x, y))
  BY <1>2, <1>5 DEF StandingLeave, Counts, Against, WouldClash, Meets, Vague, Crosses
<1>6. CASE NearWork(b, x) /\ sort[t] = "work" /\ Crosses(x, y)
  BY <1>2, <1>3, <1>6 DEF NearWork, Counts, Against, WouldClash
<1>7. CASE NearWork(b, x) /\ sort[t] = "leave" /\ (Vague(x, y) \/ Crosses(x, y))
  <2>1. Counts(b) /\ sort[b] = "work"
    BY <1>3, <1>7 DEF NearWork, Counts
  <2>2. x.first - 1 <= y.first /\ y.first <= x.last
    BY <1>4, <1>7 DEF NearWork
  <2>3. CASE Meets(x, y)
    BY <1>7, <2>1, <2>3 DEF Against, WouldClash
  <2>4. CASE ~Meets(x, y)
    BY <1>4, <1>7, <2>1, <2>2, <2>4 DEF Meets
  <2>5. QED
    BY <2>3, <2>4
<1>8. QED
  BY <1>1, <1>2, <1>5, <1>6, <1>7 DEF Conflict, WorkConflict, LeaveConflict

\* In every state of the calendar no work overlaps other work, the transactions that
\* wait for a day never wait in a circle, and every refusal has its reason, for any
\* number of bookings, requests and days.
THEOREM CalendarSafe == CalendarSpec => []CalendarInv
<1>1. CalendarIInv => CalendarInv
  BY LockGranted, Refusals DEF CalendarIInv, CalendarInv
<1>2. QED
  BY <1>1, CalendarInitially, CalendarKept, PTL DEF CalendarSpec

-----------------------------------------------------------------------------
(* What a step may do                                                      *)

ClashBegins(a, b) ==
  \/ \E l \in {a, b} : /\ sort[l] = "leave" /\ booking[l].status \in Editable
                       /\ booking'[l].status = "SUBMITTED"
  \/ \E c \in Clerks : /\ clerk[c].step = "checked" /\ clerk'[c].step = "idle"
                       /\ clerk[c].target \in {a, b} /\ clerk[c].stale

EditOverlaps(b) ==
  \/ booking'[b] = booking[b]
  \/ booking[b].status \in {"NONE"} \cup Editable
  \/ booking[b].status = "SUBMITTED" /\ booking'[b].covers = booking[b].covers
       /\ booking'[b].status \in {"APPROVED", "REJECTED"}
  \/ \E c \in Clerks : /\ clerk[c].step = "checked" /\ clerk'[c].step = "idle"
                       /\ clerk[c].target = b /\ clerk[c].moved

LEMMA WriteAllowed ==
  ASSUME CalendarIInv, NEW c \in Clerks, WriteBooking(c)
  PROVE  /\ \A a, b \in Bookings : Clash(a, b)' /\ ~Clash(a, b) => ClashBegins(a, b)
         /\ \A b \in Bookings : EditOverlaps(b)
<1> PICK t \in Bookings : t = clerk[c].target
  BY WriteSets
<1>1. /\ clerk[c].step = "checked" /\ sort' = sort
      /\ booking'[t].covers = clerk[c].want
      /\ \A b \in Bookings \ {t} : booking'[b] = booking[b]
      /\ clerk'[c].step = "idle"
  BY WriteSets
<1>2. ClerkSound(c) /\ StaysClear(c)
  BY <1>1 DEF CalendarIInv, ClerkSound
<1>3. ASSUME NEW a \in Bookings, NEW b \in Bookings, Clash(a, b)', ~Clash(a, b)
      PROVE  ClashBegins(a, b)
  <2>1. /\ a # b /\ Counts(a)' /\ Counts(b)'
        /\ WouldClash(sort[a], booking'[a].covers, sort[b], booking'[b].covers)
    BY <1>1, <1>3 DEF Clash
  <2>2. WouldClash(sort[b], booking'[b].covers, sort[a], booking'[a].covers)
    BY <2>1, ClashSymmetric
  <2>3. CASE a # t /\ b # t
    BY <1>1, <1>3, <2>3 DEF Clash, Counts
  <2>4. CASE a = t
    <3>1. Counts(b) /\ Against(c, b)
      BY <1>1, <2>1, <2>4 DEF Counts, Against
    <3>2. QED
      BY <1>1, <1>2, <2>1, <2>4, <3>1 DEF StaysClear, ClashBegins
  <2>5. CASE b = t
    <3>1. Counts(a) /\ Against(c, a)
      BY <1>1, <2>1, <2>2, <2>5 DEF Counts, Against
    <3>2. QED
      BY <1>1, <1>2, <2>1, <2>5, <3>1 DEF StaysClear, ClashBegins
  <2>6. QED
    BY <2>3, <2>4, <2>5
<1>4. clerk[c].moved \/ booking[t].status = clerk[c].seen
  BY <1>1, <1>2 DEF ClerkSound
<1>5. clerk[c].seen \in {"NONE"} \cup Editable
  BY DEF CalendarIInv, CalendarTypeOK, ClerkRows
<1>6. \A b \in Bookings : EditOverlaps(b)
  BY <1>1, <1>4, <1>5 DEF EditOverlaps
<1>7. QED
  BY <1>3, <1>6

LEMMA MoveAllowed ==
  ASSUME CalendarIInv, NEW m \in Bookings, NEW from, NEW to, Moves(from, to), Move(m, from, to)
  PROVE  /\ \A a, b \in Bookings : Clash(a, b)' /\ ~Clash(a, b) => ClashBegins(a, b)
         /\ \A b \in Bookings : EditOverlaps(b)
<1>1. /\ sort' = sort /\ booking[m].status \in from /\ booking'[m].status = to
      /\ booking'[m].covers = booking[m].covers
      /\ \A a \in Bookings \ {m} : booking'[a] = booking[a]
  BY MoveSets
<1>2. \A a, b \in Bookings : Clash(a, b)' /\ ~Clash(a, b) => ClashBegins(a, b)
  <2>1. SUFFICES ASSUME NEW a \in Bookings, NEW b \in Bookings, Clash(a, b)', ~Clash(a, b)
                 PROVE  ClashBegins(a, b)
    OBVIOUS
  <2>2. (Counts(a)' /\ ~Counts(a)) \/ (Counts(b)' /\ ~Counts(b))
    BY <1>1, <2>1 DEF Clash
  <2>3. QED
    BY <2>2, MoveCounts DEF ClashBegins
<1>3. \A b \in Bookings : EditOverlaps(b)
  BY <1>1 DEF EditOverlaps, Moves
<1>4. QED
  BY <1>2, <1>3

LEMMA CalendarStepAllowed ==
  ASSUME CalendarIInv, CalendarNext
  PROVE  /\ \A a, b \in Bookings : Clash(a, b)' /\ ~Clash(a, b) => ClashBegins(a, b)
         /\ \A b \in Bookings : EditOverlaps(b)
<1>1. ASSUME NEW c \in Clerks,
             BeginCreate(c) \/ BeginUpdate(c) \/ LockDay(c) \/ CheckConflicts(c) \/ RollBack(c)
      PROVE  /\ \A a, b \in Bookings : Clash(a, b)' /\ ~Clash(a, b) => ClashBegins(a, b)
             /\ \A b \in Bookings : EditOverlaps(b)
  <2>1. UNCHANGED <<sort, booking>>
    BY <1>1, BeginsAndLocksKeep
  <2>2. QED
    BY <2>1 DEF Clash, Counts, EditOverlaps
<1>2. ASSUME NEW c \in Clerks, WriteBooking(c)
      PROVE  /\ \A a, b \in Bookings : Clash(a, b)' /\ ~Clash(a, b) => ClashBegins(a, b)
             /\ \A b \in Bookings : EditOverlaps(b)
  BY <1>2, WriteAllowed
<1>3. ASSUME NEW m \in Bookings,
             SubmitBooking(m) \/ CancelBooking(m) \/ ApproveBooking(m) \/ RejectBooking(m)
      PROVE  /\ \A a, b \in Bookings : Clash(a, b)' /\ ~Clash(a, b) => ClashBegins(a, b)
             /\ \A b \in Bookings : EditOverlaps(b)
  BY <1>3, MovesNamed, MoveAllowed
<1>4. QED
  BY <1>1, <1>2, <1>3 DEF CalendarNext

\* A clash with leave begins only where leave is submitted or by a booking that was
\* checked before that, and what left the editable statuses is edited only by an edit
\* that read the row before (timesheet-conflict.service.ts, leave-request.service.ts:157).
THEOREM CalendarStepsKept == CalendarSpec => CalendarSteps
<1>1. CalendarIInv /\ [CalendarNext]_calendarVars =>
        [\A a, b \in Bookings : Clash(a, b)' /\ ~Clash(a, b) => ClashBegins(a, b)]_calendarVars
  BY CalendarStepAllowed
<1>2. CalendarIInv /\ [CalendarNext]_calendarVars =>
        [\A b \in Bookings : EditOverlaps(b)]_calendarVars
  BY CalendarStepAllowed
<1>3. CalendarSpec => [][\A a, b \in Bookings : Clash(a, b)' /\ ~Clash(a, b) => ClashBegins(a, b)]_calendarVars
  BY <1>1, CalendarInitially, CalendarKept, PTL DEF CalendarSpec
<1>4. CalendarSpec => [][\A b \in Bookings : EditOverlaps(b)]_calendarVars
  BY <1>2, CalendarInitially, CalendarKept, PTL DEF CalendarSpec
<1>5. QED
  BY <1>3, <1>4 DEF CalendarSteps, ClashesBySubmission, EditedOnlyByOverlap, ClashBegins, EditOverlaps

=============================================================================
