---------------------------- MODULE Conversations -----------------------------
(***************************************************************************)
(* Questions to the assistant in a channel, and the owners of the channel  *)
(* (askBot of src/conversations/conversations.service.ts, removeMember and *)
(* addMember of src/collaboration/collaboration.service.ts).               *)
(*                                                                         *)
(* A question is one message, unique by the key of the request, and its    *)
(* answer one message, unique by the question.  Every statement is a       *)
(* transaction of its own; the status of the question says whether it is   *)
(* being worked on, and only its row connects the calls of a retry.        *)
(***************************************************************************)
EXTENDS Naturals, FiniteSets

CONSTANTS Questions,  \* the keys of requests
          Askers, Members, Removers, NoQuestion, NoMember

ASSUME ConversationsAssumption ==
  NoQuestion \notin Questions /\ NoMember \notin Members /\ IsFiniteSet(Members)

VARIABLES question,   \* botStatus of the message of a key
          answer,     \* the messages that answer it
          asker,      \* the calls of askBot
          dropped,    \* history: questions a call left without an outcome
          reopened,   \* history: questions a retry set PENDING after they were answered
          role,       \* CollaborationChannelMember of one channel
          remover,    \* the calls of removeMember
          ownerless   \* history: an owner went on a count that was out of date

conversationVars == <<question, answer, asker, dropped, reopened, role, remover, ownerless>>

Statuses == {"NONE", "PENDING", "FAILED", "COMPLETE"}
IdleAsker == [step |-> "idle", key |-> NoQuestion, seen |-> "NONE", mine |-> FALSE]
IdleRemover == [step |-> "idle", member |-> NoMember, fresh |-> FALSE]

ConversationsTypeOK ==
  /\ question \in [Questions -> Statuses]
  /\ answer \in [Questions -> {0, 1}]
  /\ asker \in [Askers -> [step : {"idle", "post", "posted", "found", "retry", "context",
                                   "ask", "answer", "fail"},
                           key : Questions \cup {NoQuestion},
                           seen : Statuses,     \* of the question as it was read
                           mine : BOOLEAN]]     \* createdRequest, or set PENDING here
  /\ dropped \subseteq Questions /\ reopened \subseteq Questions
  /\ role \in [Members -> {"NONE", "MEMBER", "OWNER"}]
  /\ remover \in [Removers -> [step : {"idle", "read", "judged"},
                               member : Members \cup {NoMember}, fresh : BOOLEAN]]
  /\ ownerless \in BOOLEAN

\* A channel starts with its creator as owner.
ConversationsInit ==
  /\ question = [k \in Questions |-> "NONE"] /\ answer = [k \in Questions |-> 0]
  /\ asker = [a \in Askers |-> IdleAsker] /\ dropped = {} /\ reopened = {}
  /\ role \in [Members -> {"NONE", "MEMBER", "OWNER"}]
  /\ Cardinality({u \in Members : role[u] = "OWNER"}) = 1
  /\ remover = [r \in Removers |-> IdleRemover] /\ ownerless = FALSE

channel == <<role, remover, ownerless>>
asking == <<question, answer, asker, dropped, reopened>>

-----------------------------------------------------------------------------
(* askBot                                                                  *)

AskerAt(a, step) == asker[a].step = step
Go(a, step) == asker' = [asker EXCEPT ![a].step = step]
Leave(a) == asker' = [asker EXCEPT ![a] = IdleAsker]
Found(a, k) == asker' = [asker EXCEPT ![a] = [step |-> "found", key |-> k,
                                              seen |-> question[k], mine |-> FALSE]]

FindQuestion(a) ==
  /\ AskerAt(a, "idle")
  /\ \E k \in Questions :
       IF question[k] = "NONE"
       THEN asker' = [asker EXCEPT ![a] = [IdleAsker EXCEPT !.step = "post", !.key = k]]
       ELSE Found(a, k)
  /\ UNCHANGED <<question, answer, dropped, reopened, channel>>

\* createMessage commits the question; another's key makes it fail, and the
\* question is read again.
PostQuestion(a) ==
  LET k == asker[a].key IN
  /\ AskerAt(a, "post")
  /\ IF question[k] = "NONE"
     THEN /\ question' = [question EXCEPT ![k] = "PENDING"]
          /\ asker' = [asker EXCEPT ![a].step = "posted", ![a].mine = TRUE]
     ELSE Found(a, k) /\ UNCHANGED question
  /\ UNCHANGED <<answer, dropped, reopened, channel>>

\* It fails for another reason and leaves nothing.
PostFails(a) ==
  /\ AskerAt(a, "post") /\ question[asker[a].key] = "NONE" /\ Leave(a)
  /\ UNCHANGED <<question, answer, dropped, reopened, channel>>

\* The audit, after the commit
Audited(a) ==
  /\ AskerAt(a, "posted") /\ Go(a, "found")
  /\ UNCHANGED <<question, answer, dropped, reopened, channel>>

\* It fails: the call finds its own question and takes it for another's.
AuditFails(a) ==
  /\ AskerAt(a, "posted") /\ Found(a, asker[a].key)
  /\ dropped' = dropped \cup {asker[a].key}
  /\ UNCHANGED <<question, answer, reopened, channel>>

\* What there is to do for a question that is there: hand out its answer,
\* refuse while it is pending, or work on it.
LookForAnswer(a) ==
  LET c == asker[a] IN
  /\ AskerAt(a, "found")
  /\ IF answer[c.key] = 1 \/ (~c.mine /\ c.seen = "PENDING") THEN Leave(a)
     ELSE Go(a, IF c.seen = "FAILED" THEN "retry" ELSE "context")
  /\ UNCHANGED <<question, answer, dropped, reopened, channel>>

\* A question read as FAILED is pending again, by its id.
Retry(a) ==
  LET k == asker[a].key IN
  /\ AskerAt(a, "retry")
  /\ question' = [question EXCEPT ![k] = "PENDING"]
  /\ reopened' = IF question[k] = "COMPLETE" THEN reopened \cup {k} ELSE reopened
  /\ asker' = [asker EXCEPT ![a].step = "context", ![a].mine = TRUE]
  /\ UNCHANGED <<answer, dropped, channel>>

BuildBotContext(a) ==
  /\ AskerAt(a, "context") /\ Go(a, "ask")
  /\ UNCHANGED <<question, answer, dropped, reopened, channel>>

\* Before the try: nothing is recorded.
ContextFails(a) ==
  /\ AskerAt(a, "context") /\ Leave(a)
  /\ dropped' = dropped \cup {asker[a].key}
  /\ UNCHANGED <<question, answer, reopened, channel>>

AskAssistant(a) ==
  /\ AskerAt(a, "ask") /\ \/ Go(a, "answer") \/ Go(a, "fail")
  /\ UNCHANGED <<question, answer, dropped, reopened, channel>>

\* The answer and COMPLETE, in one transaction; a second answer is refused.
PostAnswer(a) ==
  LET k == asker[a].key IN
  /\ AskerAt(a, "answer") /\ answer[k] = 0
  /\ answer' = [answer EXCEPT ![k] = 1]
  /\ question' = [question EXCEPT ![k] = "COMPLETE"]
  /\ Leave(a)
  /\ UNCHANGED <<dropped, reopened, channel>>

AnswerFails(a) ==
  /\ AskerAt(a, "answer") /\ Go(a, "fail")
  /\ UNCHANGED <<question, answer, dropped, reopened, channel>>

\* Mutant: the status is written whatever it is.
FailedStatusAny(status) == "FAILED"

\* updateMany where botStatus is PENDING
FailedStatus(status) == IF status = "PENDING" THEN "FAILED" ELSE status

MarkFailed(a) ==
  /\ AskerAt(a, "fail")
  /\ question' = [question EXCEPT ![asker[a].key] = FailedStatus(@)]
  /\ Leave(a)
  /\ UNCHANGED <<answer, dropped, reopened, channel>>

\* The process stops, or the failure cannot be recorded.
StopAsking(a) ==
  /\ ~AskerAt(a, "idle") /\ Leave(a)
  /\ dropped' = IF asker[a].mine THEN dropped \cup {asker[a].key} ELSE dropped
  /\ UNCHANGED <<question, answer, reopened, channel>>

-----------------------------------------------------------------------------
(* Members of the channel                                                  *)

Owners == {u \in Members : role[u] = "OWNER"}
Outdated == [r \in Removers |-> [remover[r] EXCEPT !.fresh = FALSE]]

\* addMember, and joinPublicChannel, of a user who is no member
AddMember(u) ==
  /\ role[u] = "NONE"
  /\ \E as \in {"MEMBER", "OWNER"} : role' = [role EXCEPT ![u] = as]
  /\ remover' = Outdated
  /\ UNCHANGED <<ownerless, asking>>

\* removeMember reads the member,
ReadMember(r) ==
  /\ remover[r] = IdleRemover
  /\ \E u \in Members :
       /\ role[u] # "NONE"
       /\ remover' = [remover EXCEPT ![r] =
            [step |-> IF role[u] = "OWNER" THEN "read" ELSE "judged", member |-> u,
             fresh |-> TRUE]]
  /\ UNCHANGED <<role, ownerless, asking>>

\* counts the owners when it was one,
CountOwners(r) ==
  /\ remover[r].step = "read"
  /\ remover' = [remover EXCEPT ![r] = IF Cardinality(Owners) <= 1 THEN IdleRemover
                                       ELSE [@ EXCEPT !.step = "judged", !.fresh = TRUE]]
  /\ UNCHANGED <<role, ownerless, asking>>

\* and deletes it by its key.
DeleteMember(r) ==
  LET u == remover[r].member IN
  /\ remover[r].step = "judged" /\ role[u] # "NONE"
  /\ role' = [role EXCEPT ![u] = "NONE"]
  /\ remover' = [Outdated EXCEPT ![r] = IdleRemover]
  /\ ownerless' = (ownerless \/ (role[u] = "OWNER" /\ ~remover[r].fresh))
  /\ UNCHANGED asking

StopRemoving(r) ==
  /\ remover[r].step # "idle" /\ remover' = [remover EXCEPT ![r] = IdleRemover]
  /\ UNCHANGED <<role, ownerless, asking>>

ConversationsNext ==
  \/ \E a \in Askers :
       \/ FindQuestion(a) \/ PostQuestion(a) \/ PostFails(a) \/ Audited(a) \/ AuditFails(a)
       \/ LookForAnswer(a) \/ Retry(a) \/ BuildBotContext(a) \/ ContextFails(a)
       \/ AskAssistant(a) \/ PostAnswer(a) \/ AnswerFails(a) \/ MarkFailed(a) \/ StopAsking(a)
  \/ \E u \in Members : AddMember(u)
  \/ \E r \in Removers : ReadMember(r) \/ CountOwners(r) \/ DeleteMember(r) \/ StopRemoving(r)

ConversationsSpec == ConversationsInit /\ [][ConversationsNext]_conversationVars

-----------------------------------------------------------------------------
(* Properties                                                              *)

\* A question is COMPLETE just when it has its answer, unless a retry that had
\* read it as FAILED took it up again after it was answered
\* (conversations.service.ts:73).
CompleteIsAnswered ==
  \A k \in Questions :
    /\ question[k] = "COMPLETE" => answer[k] = 1
    /\ answer[k] = 1 => question[k] = "COMPLETE" \/ k \in reopened

\* A question that stays PENDING, which every retry is refused for, has a call
\* at work on it, or one stopped, failed before the try, or took its own
\* question for another's (conversations.service.ts:71, :76).
PendingHasAsker ==
  \A k \in Questions : question[k] = "PENDING" =>
    k \in dropped \/ \E a \in Askers : asker[a].mine /\ asker[a].key = k

\* A channel keeps an owner, unless two removals counted each other's
\* (collaboration.service.ts:104).
OwnerRemains == ownerless \/ Owners # {}

ConversationsInv == ConversationsTypeOK /\ CompleteIsAnswered /\ PendingHasAsker /\ OwnerRemains
=============================================================================
