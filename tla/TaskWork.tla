------------------------------ MODULE TaskWork ------------------------------
(***************************************************************************)
(* Tasks, their subtasks and their review rounds                           *)
(* (src/tasks/tasks.service.ts).                                           *)
(*                                                                         *)
(* A request on an existing task reads the row, decides on what it has     *)
(* read (sometimes after a second read, of the subtasks or of the pending  *)
(* review round) and writes the row by its id.  Only the two review        *)
(* operations repeat their conditions in the write.  req holds what each   *)
(* request in flight has read; every guard on it is the code's check, made *)
(* on the copy and not on the row.                                         *)
(*                                                                         *)
(* overtaken, unheard are history variables that only properties read.     *)
(***************************************************************************)
EXTENDS Integers, FiniteSets, Sequences

CONSTANTS Tasks, Users, Reviewers, Requests, None,
          MaxRounds,     \* bound: review rounds of a task
          MaxRoots,      \* bound: tasks at the top of a hierarchy
          MaxOvertaken,  \* bound: tasks with a write on a stale reading
          MaxDepth       \* levels of the hierarchy, 3 in the code

ASSUME TaskWorkAssumption ==
  /\ Reviewers \subseteq Users
  /\ None \notin Tasks \cup Users
  /\ MaxRounds \in Nat /\ MaxRoots \in Nat /\ MaxOvertaken \in Nat /\ MaxDepth \in Nat \ {0}

VARIABLES task,       \* rows of Task
          rounds,     \* rows of TaskReviewRound, by task and round number
          req,        \* the requests in flight
          told,       \* tasks whose assignee heard that every subtask is closed
          overtaken,  \* tasks written on a reading that was no longer true
          unheard     \* tasks whose notice was lost or never due

vars == <<task, rounds, req, told, overtaken, unheard>>

Open     == {"TODO", "IN_PROGRESS"}
Closed   == {"DONE", "CANCELLED"}
Statuses == Open \cup Closed
Reviews  == {"NOT_REQUIRED", "DRAFT", "PENDING_REVIEW", "CHANGES_REQUESTED", "APPROVED"}

Rows == [status   : Statuses \cup {"FREE"},
         parent   : Tasks \cup {None},
         assignee : Users \cup {None},
         requires : BOOLEAN,
         review   : Reviews,
         reviewer : Users \cup {None}]

Round == [reviewer : Users,
          decision : {"PENDING", "APPROVED", "CHANGES_REQUESTED", "CANCELLED"}]

FreeRow == [status |-> "FREE", parent |-> None, assignee |-> None,
            requires |-> FALSE, review |-> "NOT_REQUIRED", reviewer |-> None]

\* A request has read its task ("read") or has closed a subtask of it and
\* has yet to tell ("tell").  counted and kids are the second read of a
\* completion, round that of a decision.
IdleReq == [step |-> "idle", task |-> None, seen |-> FreeRow,
            counted |-> FALSE, kids |-> {}, round |-> 0]

Live(t)     == task[t].status \in Statuses
Children(t) == {c \in Tasks : Live(c) /\ task[c].parent = t}
OpenKids(t) == {c \in Children(t) : task[c].status \in Open}
Pending(t)  == {i \in DOMAIN rounds[t] : rounds[t][i].decision = "PENDING"}

\* taskDepth: the walk up the parents.
Depth(t) ==
  LET up[x \in Tasks] ==
        IF task[x].parent = None THEN 1 ELSE 1 + up[task[x].parent]
  IN  up[t]

TypeOK ==
  /\ task \in [Tasks -> Rows]
  /\ rounds \in [Tasks -> Seq(Round)]
  /\ req \in [Requests -> [step : {"idle", "read", "tell"}, task : Tasks \cup {None},
                           seen : Rows, counted : BOOLEAN, kids : SUBSET Tasks,
                           round : Nat]]
  /\ \A r \in Requests : req[r].step # "idle" => req[r].task \in Tasks
  /\ told \subseteq Tasks /\ overtaken \subseteq Tasks /\ unheard \subseteq Tasks

Init ==
  /\ task = [t \in Tasks |-> FreeRow]
  /\ rounds = [t \in Tasks |-> <<>>]
  /\ req = [r \in Requests |-> IdleReq]
  /\ told = {} /\ overtaken = {} /\ unheard = {}

-----------------------------------------------------------------------------
(* The checks of the code, on the copy a request has read.                 *)

\* assertStatusTransition
MayMove(from, to) ==
  \/ from = to
  \/ from = "TODO" /\ to \in {"IN_PROGRESS"} \cup Closed
  \/ from = "IN_PROGRESS" /\ to \in Closed

\* Mutant: only a rejected review keeps a task from being finished.
ReviewAllowsUnlessRejected(row) == row.requires => row.review # "CHANGES_REQUESTED"

\* assertReviewApproved
ReviewAllows(row) == row.requires => row.review = "APPROVED"

\* Mutant: only subtasks in progress count as open.
ResolvedIfIdle(t) == \A c \in Children(t) : task[c].status # "IN_PROGRESS"

\* update: the configuration of the review may change.
Reconfigurable(seen) == seen.review # "PENDING_REVIEW"

\* assertSubtasksResolved; the same count in notifyParentReady
Resolved(t)     == OpenKids(t) = {}
NoneUnresolved(t) == OpenKids(t) = {}

\* decideReview: the condition of the write on the round
Decidable(t, i) == i \in Pending(t)

\* createSubtask
Fits(p) == Depth(p) < MaxDepth

\* Mutant: a new configuration keeps the review.
ReviewAfterKeeping(seen, now, configures, requires, sensitive) ==
  IF seen.requires /\ seen.review = "APPROVED" /\ sensitive THEN "DRAFT" ELSE now

\* changeStatus: the review of a task cancelled under review
Withdrawn(seen) == IF seen.requires THEN "DRAFT" ELSE "NOT_REQUIRED"

\* update: the review after a change; sensitive when the call holds the title,
\* the description, a linked record or the assignee.
ReviewAfter(seen, now, configures, requires, sensitive) ==
  CASE configures -> IF requires THEN "DRAFT" ELSE "NOT_REQUIRED"
    [] ~configures /\ seen.requires /\ seen.review = "APPROVED" /\ sensitive -> "DRAFT"
    [] OTHER -> now

\* The reading a write rests on, compared with the row it lands on.
Overtaken(r) == task[req[r].task] # req[r].seen

\* A subtask that opened after a completion had counted the open ones.
LateKids(r) == IF req[r].counted THEN OpenKids(req[r].task) \ req[r].kids ELSE {}

\* The request may write now; it asks for DONE exactly when it has counted.
Deciding(r) == req[r].step = "read" /\ req[r].round = 0
Asked(r)    == IF req[r].counted THEN {"DONE"} ELSE Statuses \ {"DONE"}

\* validateReviewer and the self-review checks
MayReview(u, assignee) == u \in Reviewers /\ u # assignee

-----------------------------------------------------------------------------
(* Creation.  Nothing that is read can change under it, so it is one step. *)

\* create: assignee of the resolved assignment, review required by default
\* when a reviewer is named, never DONE while a review is required.
Create(t) ==
  \E s \in Statuses, a \in Users \cup {None}, v \in Reviewers \cup {None}, q \in BOOLEAN :
    /\ task[t].status = "FREE"
    /\ Cardinality({x \in Tasks : Live(x) /\ task[x].parent = None}) < MaxRoots
    /\ q => v # None
    /\ v # None => MayReview(v, a)
    /\ s = "DONE" => ~q
    /\ task' = [task EXCEPT ![t] =
         [status |-> s, parent |-> None, assignee |-> a, requires |-> q,
          review |-> IF q THEN "DRAFT" ELSE "NOT_REQUIRED", reviewer |-> v]]
    /\ UNCHANGED <<rounds, req, told, overtaken, unheard>>

-----------------------------------------------------------------------------
(* Requests on an existing task: the reads.                                *)

\* getTaskForMutation
Read(r) ==
  \E t \in Tasks :
    /\ req[r].step = "idle" /\ Live(t)
    /\ req' = [req EXCEPT ![r] = [IdleReq EXCEPT !.step = "read", !.task = t,
                                                 !.seen = task[t]]]
    /\ UNCHANGED <<task, rounds, told, overtaken, unheard>>

\* assertSubtasksResolved: the request goes on only when none is open.
CountSubtasks(r) ==
  /\ req[r].step = "read" /\ ~req[r].counted /\ req[r].round = 0
  /\ MayMove(req[r].seen.status, "DONE")
  /\ Resolved(req[r].task)
  /\ req' = [req EXCEPT ![r].counted = TRUE, ![r].kids = OpenKids(req[r].task)]
  /\ UNCHANGED <<task, rounds, told, overtaken, unheard>>

\* decideReview: the newest pending round, read after the task.
FindPendingRound(r) ==
  LET t == req[r].task IN
  /\ req[r].step = "read" /\ ~req[r].counted /\ req[r].round = 0
  /\ req[r].seen.status \in Open /\ req[r].seen.review = "PENDING_REVIEW"
  /\ Live(t)
  /\ \E i \in Pending(t) : /\ \A j \in Pending(t) : j <= i
                           /\ req' = [req EXCEPT ![r].round = i]
  /\ UNCHANGED <<task, rounds, told, overtaken, unheard>>

\* A check refuses, the database fails or the process stops.  When the row
\* is already written, what is lost is the notice to the parent's assignee.
Fail(r) ==
  /\ req[r].step # "idle"
  /\ req' = [req EXCEPT ![r] = IdleReq]
  /\ unheard' = IF req[r].step = "tell" THEN unheard \cup {req[r].task} ELSE unheard
  /\ UNCHANGED <<task, rounds, told, overtaken>>

-----------------------------------------------------------------------------
(* Requests on an existing task: the writes, by id.                        *)

\* The row is written, whatever it has become since it was read.  tells: the
\* handler goes on to notifyParentReady.
Finish(r, row, late, tells) ==
  LET t == req[r].task
      p == task[t].parent
      opens  == row.status \in Open /\ task[t].status \in Closed
      closes == row.status \in Closed /\ task[t].status \in Open
  IN
  /\ task' = [task EXCEPT ![t] = row]
  /\ req' = [req EXCEPT ![r] = IF tells /\ p # None
                                 THEN [IdleReq EXCEPT !.step = "tell", !.task = p]
                                 ELSE IdleReq]
  /\ overtaken' = IF Overtaken(r) \/ late # {} THEN overtaken \cup {t} ELSE overtaken
  /\ Cardinality(overtaken') <= MaxOvertaken
  /\ told' = IF opens THEN told \ {p} ELSE told
  /\ unheard' = IF opens THEN unheard \ {p}
                ELSE IF closes /\ ~tells /\ p # None /\ OpenKids(p) \subseteq {t}
                  THEN unheard \cup {p} ELSE unheard

\* changeStatus: cancelling a task seen under review takes the review back.
ChangeStatus(r) ==
  LET t == req[r].task
      seen == req[r].seen
  IN
  /\ Deciding(r) /\ Live(t)
  /\ \E s \in Asked(r) :
       LET drops == s = "CANCELLED" /\ seen.review = "PENDING_REVIEW" IN
       /\ MayMove(seen.status, s)
       /\ s = "DONE" => ReviewAllows(seen)
       /\ rounds' = IF drops
            THEN [rounds EXCEPT ![t] = [i \in DOMAIN @ |->
                    IF i \in Pending(t) THEN [@[i] EXCEPT !.decision = "CANCELLED"] ELSE @[i]]]
            ELSE rounds
       /\ Finish(r, [task[t] EXCEPT !.status = s,
                       !.review = IF drops THEN Withdrawn(seen) ELSE @],
                 LateKids(r), s \in Closed)

\* complete
Complete(r) ==
  LET t == req[r].task IN
  /\ Deciding(r) /\ req[r].counted
  /\ ReviewAllows(req[r].seen)
  /\ Live(t)
  /\ Finish(r, [task[t] EXCEPT !.status = "DONE"], LateKids(r), TRUE)
  /\ UNCHANGED rounds

\* The review configurations update can write: q the flag asked for, v the
\* reviewer asked for, none of them in a call that leaves them alone.
Configured(seen, q, v) ==
  [requires |-> IF q = "keep" THEN seen.requires ELSE q = "on",
   reviewer |-> IF q = "off" THEN None ELSE IF v # None THEN v ELSE seen.reviewer]

Configurations(seen) ==
  {Configured(seen, q, v) : q \in {"on", "off"}, v \in Reviewers \cup {None}}
    \cup {Configured(seen, "keep", v) : v \in Reviewers}

\* The assignees it can write without naming one, when the scope or the team
\* is in the call: the one it has read, or the acting user for SELF.
Rescoped(seen) == IF seen.assignee = None THEN Users \cup {None} ELSE {seen.assignee}

\* What becomes of the assignee: kept, taken from the scope, or named in the call.
Assignments(r) ==
  LET kept == {task[req[r].task].assignee} \cup Rescoped(req[r].seen)
  IN [named : {FALSE}, to : kept] \cup [named : {TRUE}, to : Users]

\* The configuration that update writes, or leaves as it read it, for the assignee
\* of the call or else the one it read.
Settled(seen, configures, assignee) ==
  {c \in IF configures THEN Configurations(seen)
         ELSE {[requires |-> seen.requires, reviewer |-> seen.reviewer]} :
     /\ configures => Reconfigurable(seen)
     /\ c.requires => c.reviewer # None
     /\ c.reviewer # None => c.reviewer # assignee
     /\ c.reviewer \notin {None, seen.reviewer} => MayReview(c.reviewer, assignee)}

\* The statuses update can be asked for.
NewStatuses(r) ==
  {s \in IF req[r].counted THEN {"DONE"} ELSE {"keep", "TODO", "IN_PROGRESS"} :
     /\ s # "keep" => MayMove(req[r].seen.status, s)
     /\ s = "DONE" => ReviewAllows(req[r].seen)}

\* What a call of update writes into the row.
UpdatedRow(r, s, configures, c, a, sensitive) ==
  [task[req[r].task] EXCEPT
     !.status   = IF s = "keep" THEN @ ELSE s,
     !.requires = IF configures THEN c.requires ELSE @,
     !.reviewer = IF configures THEN c.reviewer ELSE @,
     !.assignee = a.to,
     !.review   = ReviewAfter(req[r].seen, @, configures, c.requires, sensitive)]

\* The rows that calls of update can leave: edit says that the call holds the title,
\* the description or a linked record (which matters on an approved task).
UpdatedRows(r) ==
  UNION {
    {UpdatedRow(r, s, configures, c, a, edit \/ a.named) :
       s \in NewStatuses(r),
       c \in Settled(req[r].seen, configures, IF a.named THEN a.to ELSE req[r].seen.assignee)}
    : a \in Assignments(r), configures \in BOOLEAN,
      edit \in {x \in BOOLEAN : x => req[r].seen.review = "APPROVED"}}

\* update
Update(r) ==
  /\ Deciding(r) /\ Live(req[r].task)
  /\ \E row \in UpdatedRows(r) : Finish(r, row, LateKids(r), FALSE)
  /\ UNCHANGED rounds

\* assign and reassign (reassignWithOperation)
Reassign(r) ==
  LET t == req[r].task
      seen == req[r].seen
  IN
  /\ Deciding(r) /\ ~req[r].counted /\ Live(t)
  /\ seen.status \in Open
  /\ \E to \in Users \cup {None} :
    /\ seen.reviewer # None => to # seen.reviewer
    /\ Finish(r, [task[t] EXCEPT !.assignee = to,
                    !.review = IF seen.requires /\ seen.review = "APPROVED"
                                 THEN "DRAFT" ELSE @], {}, FALSE)
  /\ UNCHANGED rounds

\* reschedule: the due and reminder dates are not part of the row here.
Reschedule(r) ==
  /\ Deciding(r) /\ ~req[r].counted
  /\ Live(req[r].task)
  /\ req' = [req EXCEPT ![r] = IdleReq]
  /\ UNCHANGED <<task, rounds, told, overtaken, unheard>>

\* createSubtask: the foreign key is all that checks the parent at the insert.
CreateSubtask(r) ==
  LET p == req[r].task
      seen == req[r].seen
  IN \E c \in Tasks, a \in Users \cup {None} :
    /\ Deciding(r) /\ ~req[r].counted
    /\ seen.status \in Open
    /\ Live(p) /\ Fits(p)
    /\ task[c].status = "FREE"
    /\ task' = [task EXCEPT ![c] = [FreeRow EXCEPT !.status = "TODO", !.parent = p,
                                                   !.assignee = a]]
    /\ req' = [req EXCEPT ![r] = IdleReq]
    /\ overtaken' = IF task[p].status # seen.status THEN overtaken \cup {p} ELSE overtaken
    /\ Cardinality(overtaken') <= MaxOvertaken
    /\ told' = told \ {p}
    /\ unheard' = unheard \ {p}
    /\ UNCHANGED rounds

\* remove: review rounds go with the task, subtasks forbid it.  What is in
\* flight on the task can only fail now; its id is never given out again, so
\* here it becomes free with its history.
Remove(r) ==
  LET t == req[r].task
      p == task[t].parent
  IN
  /\ Deciding(r) /\ ~req[r].counted
  /\ Live(t) /\ Children(t) = {}
  /\ task' = [task EXCEPT ![t] = FreeRow]
  /\ rounds' = [rounds EXCEPT ![t] = <<>>]
  /\ req' = [q \in Requests |-> IF req[q].task = t THEN IdleReq ELSE req[q]]
  /\ overtaken' = overtaken \ {t}
  /\ told' = told \ {t}
  /\ unheard' = IF p # None /\ OpenKids(p) = {t} THEN (unheard \ {t}) \cup {p}
                                                 ELSE unheard \ {t}

-----------------------------------------------------------------------------
(* The review operations, whose writes repeat their conditions.            *)

\* submitReview: v the reviewer of the round, by the submitter.
SubmitReview(r) ==
  LET t == req[r].task
      seen == req[r].seen
  IN \E v \in Reviewers, by \in Users :
    /\ Deciding(r) /\ ~req[r].counted
    /\ seen.status \in Open /\ seen.requires
    /\ seen.review \notin {"PENDING_REVIEW", "APPROVED"}
    /\ MayReview(v, seen.assignee) /\ v # by
    /\ Len(rounds[t]) < MaxRounds
    /\ task[t].status \in Open
    /\ task[t].review \in {"DRAFT", "CHANGES_REQUESTED"}
    /\ task' = [task EXCEPT ![t].review = "PENDING_REVIEW", ![t].reviewer = v]
    /\ rounds' = [rounds EXCEPT ![t] = Append(@, [reviewer |-> v, decision |-> "PENDING"])]
    /\ req' = [req EXCEPT ![r] = IdleReq]
    /\ UNCHANGED <<told, overtaken, unheard>>

\* decideReview by the reviewer the request has read; the round and the task
\* change together or not at all.
DecideReview(r) ==
  LET t == req[r].task
      i == req[r].round
      seen == req[r].seen
  IN \E d \in {"APPROVED", "CHANGES_REQUESTED"} :
    /\ req[r].step = "read" /\ i # 0
    /\ seen.reviewer # None
    /\ Live(t) /\ Decidable(t, i)
    /\ task[t].review = "PENDING_REVIEW" /\ task[t].reviewer = seen.reviewer
    /\ rounds' = [rounds EXCEPT ![t][i].decision = d]
    /\ task' = [task EXCEPT ![t].review = d]
    /\ req' = [req EXCEPT ![r] = IdleReq]
    /\ UNCHANGED <<told, overtaken, unheard>>

\* notifyParentReady, after a subtask is closed: the count is read now. Requests have no
\* actor here: told holds an assignee who closed the last subtask himself, whom skipSelf
\* leaves out.
TellParent(r) ==
  LET p == req[r].task IN
  /\ req[r].step = "tell"
  /\ told' = IF NoneUnresolved(p) /\ task[p].assignee # None THEN told \cup {p} ELSE told
  /\ unheard' = IF NoneUnresolved(p) /\ task[p].assignee = None THEN unheard \cup {p} ELSE unheard
  /\ req' = [req EXCEPT ![r] = IdleReq]
  /\ UNCHANGED <<task, rounds, overtaken>>

-----------------------------------------------------------------------------
Step(r) ==
  \/ Read(r) \/ CountSubtasks(r) \/ FindPendingRound(r) \/ Fail(r)
  \/ ChangeStatus(r) \/ Complete(r) \/ Update(r) \/ Reassign(r) \/ Reschedule(r)
  \/ CreateSubtask(r) \/ Remove(r) \/ SubmitReview(r) \/ DecideReview(r)
  \/ TellParent(r)

Next == (\E t \in Tasks : Create(t)) \/ (\E r \in Requests : Step(r))

Spec == Init /\ [][Next]_vars

-----------------------------------------------------------------------------
(* Properties                                                              *)

\* An approved task rests on an approved round, whatever the writes that
\* overtook each other, and on one of its present reviewer unless one did: no
\* write changes the reviewer and leaves the approval (tasks.service.ts:405,
\* :772, :811).
ApprovalIsReal ==
  \A t \in Tasks : task[t].review = "APPROVED" =>
    \E i \in DOMAIN rounds[t] :
      /\ rounds[t][i].decision = "APPROVED"
      /\ rounds[t][i].reviewer = task[t].reviewer \/ t \in overtaken

\* A decided round is never decided again, by a second reviewer, a second
\* call or a cancellation that comes late (docs/phase-4.6: immutable
\* decision history); it goes only with its task.
DecisionsFinal ==
  [][\A t \in Tasks : \A i \in DOMAIN rounds[t] :
       rounds[t][i].decision # "PENDING" =>
         \/ task'[t].status = "FREE"
         \/ rounds'[t][i] = rounds[t][i]]_vars

\* A task is under review exactly when it has a pending round, then only one
\* and addressed to its reviewer: only a write that landed on a row changed
\* since it was read can leave a pending round behind (changeStatus and update
\* decide on their copy, tasks.service.ts:564, :388).
PendingInStep ==
  \A t \in Tasks \ overtaken :
    IF task[t].review = "PENDING_REVIEW"
      THEN \E i \in DOMAIN rounds[t] :
             Pending(t) = {i} /\ rounds[t][i].reviewer = task[t].reviewer
      ELSE Pending(t) = {}

\* The review of a task agrees with its rounds, in whatever order requests write.
TaskInv == TypeOK /\ ApprovalIsReal /\ PendingInStep

\* A DONE or CANCELLED task changes its status only by being deleted or by a
\* write that read it open: assertStatusTransition judges a copy.
ReopenedOnlyByOverlap ==
  [][\A t \in Tasks :
       task[t].status \in Closed /\ task'[t].status # task[t].status =>
         task'[t].status = "FREE" \/ t \in overtaken']_vars

\* A task that requires a review becomes DONE only when it is approved,
\* unless the write overtook a change of the review.
CompletionsApproved ==
  [][\A t \in Tasks :
       /\ task[t].status \in Open /\ task'[t].status = "DONE"
       /\ task[t].requires
       => task[t].review = "APPROVED" \/ t \in overtaken']_vars

\* What is decided stays decided: a task is finished approved and stays finished,
\* and so does each round of its review.
StatusSteps == ReopenedOnlyByOverlap /\ CompletionsApproved /\ DecisionsFinal

\* A DONE task has an open subtask only when one of the two was written on a
\* reading that no longer held: completion counts the subtasks before it
\* writes and createSubtask reads the parent before it inserts
\* (tasks.service.ts:556, :655, :697).
OpenKidNeedsOverlap ==
  \A t \in Tasks : task[t].status = "DONE" =>
    t \in overtaken \/ OpenKids(t) \subseteq overtaken

\* The hierarchy never exceeds its depth and every parent exists, under
\* creations, deletions and the foreign key that stands between them.
HierarchySound ==
  \A t \in Tasks : Live(t) =>
    /\ Depth(t) <= MaxDepth
    /\ task[t].parent # None => Live(task[t].parent)

\* When the last subtask is closed through the status endpoints the parent's
\* assignee hears of it, also when two subtasks are closed at once: each
\* counts after its own write (tasks.service.ts:590, :728).
ParentHears ==
  \A p \in Tasks :
    /\ Live(p) /\ Children(p) # {} /\ OpenKids(p) = {}
    /\ p \notin unheard
    /\ \A r \in Requests : ~(req[r].step = "tell" /\ req[r].task = p)
    => p \in told

\* The task tree stays within its depth and under living parents, a finished task
\* has no open subtask that overlap does not explain, and who waits for subtasks
\* hears that they are closed.
TreeInv == HierarchySound /\ OpenKidNeedsOverlap /\ ParentHears
=============================================================================
