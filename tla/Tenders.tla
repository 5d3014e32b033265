------------------------------ MODULE Tenders -------------------------------
(***************************************************************************)
(* The lifecycle of a tender, its reviews and the readiness it is          *)
(* submitted with (src/technical-center/technical-center.service.ts).      *)
(*                                                                         *)
(* A request reads the tender with its requirements, deliverables and      *)
(* reviews, judges what it has read and writes.  Writes to the tender and  *)
(* to its reviews carry the revision that was read: they happen only when  *)
(* no other such write came between, and that is all that `fresh' says of  *)
(* a reading.  Requirements, deliverables, documents and the clock are not *)
(* under the revision.                                                     *)
(*                                                                         *)
(* `steady' is a history variable: nothing outside the revision has        *)
(* changed since a reading that was found ready.                           *)
(***************************************************************************)
EXTENDS Integers, Sequences

CONSTANTS TenderCalls, Needs,
          MaxReviews       \* bound: review rounds of a tender, of both types

ASSUME TendersAssumption == MaxReviews \in Nat

VARIABLES tender,       \* row of Tender: status, the qualification, the fields
          reviews,      \* rows of TenderReview by type, oldest first
          need,         \* rows of TenderRequirement
          deliverable,  \* the required TenderDeliverable, if any
          visit         \* the requests in flight

tenderVars == <<tender, reviews, need, deliverable, visit>>

Types == {"TECHNICAL", "COMMERCIAL"}

\* technical-lifecycle.policy.ts, tenderTransitions
TenderMoves ==
  [DRAFT                |-> {"IDENTIFIED", "CANCELLED"},
   IDENTIFIED           |-> {"QUALIFICATION", "CANCELLED"},
   QUALIFICATION        |-> {"PREPARING", "CANCELLED"},
   PREPARING            |-> {"TECHNICAL_REVIEW", "CANCELLED"},
   TECHNICAL_REVIEW     |-> {"PREPARING", "COMMERCIAL_REVIEW", "CANCELLED"},
   COMMERCIAL_REVIEW    |-> {"TECHNICAL_REVIEW", "READY_FOR_SUBMISSION", "CANCELLED"},
   READY_FOR_SUBMISSION |-> {"COMMERCIAL_REVIEW", "SUBMITTED", "CANCELLED"},
   SUBMITTED            |-> {"UNDER_EVALUATION", "CANCELLED"},
   UNDER_EVALUATION     |-> {"CLARIFICATION", "WON", "LOST", "CANCELLED"},
   CLARIFICATION        |-> {"UNDER_EVALUATION", "CANCELLED"},
   WON                  |-> {"ARCHIVED"},
   LOST                 |-> {"ARCHIVED"},
   CANCELLED            |-> {"ARCHIVED"},
   ARCHIVED             |-> {}]

TenderStatuses == DOMAIN TenderMoves
ClosedTender   == {"WON", "LOST", "CANCELLED", "ARCHIVED"}

\* From the first check of readiness on.
Checked == {"READY_FOR_SUBMISSION", "SUBMITTED", "UNDER_EVALUATION", "CLARIFICATION",
            "WON", "LOST"}

\* decided: bid BID and qualification GO or CONDITIONAL_GO.  complete: the
\* required fields are there and the deadline, unless submitted, lies ahead.
TenderRow == [status : TenderStatuses \cup {"NONE"}, decided : BOOLEAN, complete : BOOLEAN]

\* REJECTED stands for CANCELLED too, which has the same effect.
Decisions == {"APPROVED", "REJECTED"}

\* A requirement is mandatory and not VERIFIED, mandatory and VERIFIED, or
\* optional; a deliverable has its approved document with a file, or misses it.
NeedStates        == {"NONE", "UNRESOLVED", "VERIFIED", "OPTIONAL"}
DeliverableStates == {"NONE", "MISSING", "COMPLETE"}

Copies == [status : TenderStatuses, decided : BOOLEAN, ready : BOOLEAN,
           approved : SUBSET Types, pending : SUBSET Types]

BlankCopy == [status |-> "DRAFT", decided |-> FALSE, ready |-> FALSE,
              approved |-> {}, pending |-> {}]
IdleVisit == [busy |-> FALSE, fresh |-> FALSE, steady |-> TRUE, seen |-> BlankCopy]

TendersTypeOK ==
  /\ tender \in TenderRow
  /\ reviews \in [Types -> Seq({"PENDING"} \cup Decisions)]
  /\ need \in [Needs -> NeedStates]
  /\ deliverable \in DeliverableStates
  /\ visit \in [TenderCalls -> [busy : BOOLEAN, fresh : BOOLEAN, steady : BOOLEAN,
                                seen : Copies]]

TenderInit ==
  /\ tender = [status |-> "NONE", decided |-> FALSE, complete |-> FALSE]
  /\ reviews = [k \in Types |-> <<>>]
  /\ need = [n \in Needs |-> "NONE"]
  /\ deliverable = "NONE"
  /\ visit = [r \in TenderCalls |-> IdleVisit]

-----------------------------------------------------------------------------
(* Readiness and the revision                                              *)

\* The newest review of the type is approved.
Approved(k) == reviews[k] # <<>> /\ reviews[k][Len(reviews[k])] = "APPROVED"

PendingOf(k) == \E i \in DOMAIN reviews[k] : reviews[k][i] = "PENDING"

\* evaluateReadiness, overallReady
Ready ==
  /\ tender.decided /\ tender.complete
  /\ \A k \in Types : Approved(k)
  /\ \A n \in Needs : need[n] # "UNRESOLVED"
  /\ deliverable # "MISSING"

\* The reading of request r is the last revision.
Current(r) == visit[r].busy /\ visit[r].fresh

\* What is left of a reading whose revision is gone: no write under the
\* revision can follow, the others look only at whether the tender was open.
Outdated(v) ==
  [v EXCEPT !.fresh = FALSE, !.steady = TRUE,
            !.seen = [BlankCopy EXCEPT !.status =
                        IF v.seen.status \in ClosedTender THEN "ARCHIVED" ELSE "DRAFT"]]

\* Mutant: the write forgets to raise the revision.
BumpNothing(r) == visit' = [visit EXCEPT ![r] = IdleVisit]

\* optimistic, and the same updateMany in the review transactions: request r
\* is answered and raises the revision under every other reading.
Bump(r) ==
  visit' = [q \in TenderCalls |->
              IF q = r THEN IdleVisit
              ELSE IF visit[q].busy THEN Outdated(visit[q]) ELSE visit[q]]

\* A change outside the revision by the requests in A.
Slip(A) ==
  visit' = [q \in TenderCalls |->
              IF q \in A THEN IdleVisit
              ELSE [visit[q] EXCEPT !.steady = @ /\ ~visit[q].seen.ready]]

-----------------------------------------------------------------------------
(* Requests                                                                *)

CreateTender ==
  /\ tender.status = "NONE"
  /\ \E c \in BOOLEAN :
       tender' = [status |-> "DRAFT", decided |-> FALSE, complete |-> c]
  /\ UNCHANGED <<reviews, need, deliverable, visit>>

\* getTender
ReadTender(r) ==
  /\ ~visit[r].busy /\ tender.status # "NONE"
  /\ visit' = [visit EXCEPT ![r] =
       [busy |-> TRUE, fresh |-> TRUE, steady |-> TRUE,
        seen |-> [status |-> tender.status, decided |-> tender.decided, ready |-> Ready,
                  approved |-> {k \in Types : Approved(k)},
                  pending |-> {k \in Types : PendingOf(k)}]]]
  /\ UNCHANGED <<tender, reviews, need, deliverable>>

\* A check refuses, the revision is gone or the process stops.
GiveUp(r) ==
  /\ visit[r].busy
  /\ visit' = [visit EXCEPT ![r] = IdleVisit]
  /\ UNCHANGED <<tender, reviews, need, deliverable>>

\* updateTender: only an archived tender is closed to it.
UpdateTender(r) ==
  /\ Current(r) /\ visit[r].seen.status # "ARCHIVED"
  /\ \E c \in BOOLEAN : tender' = [tender EXCEPT !.complete = c]
  /\ Bump(r)
  /\ UNCHANGED <<reviews, need, deliverable>>

\* updateTenderQualification
UpdateTenderQualification(r) ==
  /\ Current(r) /\ visit[r].seen.status \notin ClosedTender
  /\ \E d \in BOOLEAN : tender' = [tender EXCEPT !.decided = d]
  /\ Bump(r)
  /\ UNCHANGED <<reviews, need, deliverable>>

\* transitionTender
TransitionTender(r) ==
  LET seen == visit[r].seen
      from == seen.status
  IN
  /\ Current(r)
  /\ \E to \in TenderMoves[from] :
       /\ from = "QUALIFICATION" /\ to = "PREPARING" => seen.decided
       /\ from = "TECHNICAL_REVIEW" /\ to = "COMMERCIAL_REVIEW" =>
            "TECHNICAL" \in seen.approved
       /\ to \in {"READY_FOR_SUBMISSION", "SUBMITTED"} => seen.ready
       /\ tender' = [tender EXCEPT !.status = to]
  /\ Bump(r)
  /\ UNCHANGED <<reviews, need, deliverable>>

\* Mutant: a review may be asked for at any stage.
AvailableAlways(k, status) == TRUE

\* requestTenderReview: the stage of the review
Available(k, status) ==
  status = IF k = "TECHNICAL" THEN "TECHNICAL_REVIEW" ELSE "COMMERCIAL_REVIEW"

\* The default of TenderReview.status
NewReview == "PENDING"

\* requestTenderReview: under the revision and the partial unique index.
RequestTenderReview(r) ==
  LET seen == visit[r].seen IN
  /\ Current(r)
  /\ \E k \in Types \ seen.pending :
       /\ Available(k, seen.status)
       /\ Len(reviews["TECHNICAL"]) + Len(reviews["COMMERCIAL"]) < MaxReviews
       /\ ~PendingOf(k)
       /\ reviews' = [reviews EXCEPT ![k] = Append(@, NewReview)]
  /\ Bump(r)
  /\ UNCHANGED <<tender, need, deliverable>>

\* decideTenderReview: the condition of the write
DecidableReview(k, i) == reviews[k][i] = "PENDING"

\* decideTenderReview, at any stage before the tender is closed.  The review
\* is read after the tender; a status other than PENDING refuses then or at
\* the write.
DecideTenderReview(r) ==
  /\ Current(r) /\ visit[r].seen.status \notin ClosedTender
  /\ \E k \in Types : \E i \in DOMAIN reviews[k], d \in Decisions :
       /\ DecidableReview(k, i)
       /\ reviews' = [reviews EXCEPT ![k][i] = d]
  /\ Bump(r)
  /\ UNCHANGED <<tender, need, deliverable>>

\* assertTenderOpen, on the reading and whatever its revision
ReadOpen(r) == visit[r].busy /\ visit[r].seen.status \notin ClosedTender

\* What is written outside the revision ends request r.
Outside(r) ==
  /\ ReadOpen(r)
  /\ Slip({r})
  /\ UNCHANGED <<tender, reviews>>

AddTenderNeed(r) ==
  /\ Outside(r)
  /\ \E n \in Needs, to \in NeedStates \ {"NONE"} :
       need[n] = "NONE" /\ need' = [need EXCEPT ![n] = to]
  /\ UNCHANGED deliverable

UpdateTenderNeed(r) ==
  /\ Outside(r)
  /\ \E n \in Needs, to \in NeedStates \ {"NONE"} :
       need[n] # "NONE" /\ need' = [need EXCEPT ![n] = to]
  /\ UNCHANGED deliverable

RemoveTenderNeed(r) ==
  /\ Outside(r)
  /\ \E n \in Needs : need[n] # "NONE" /\ need' = [need EXCEPT ![n] = "NONE"]
  /\ UNCHANGED deliverable

\* addDeliverable: once per document
AddDeliverable(r) ==
  /\ Outside(r)
  /\ deliverable = "NONE" /\ deliverable' \in {"MISSING", "COMPLETE"}
  /\ UNCHANGED need

RemoveDeliverable(r) ==
  /\ Outside(r)
  /\ deliverable # "NONE" /\ deliverable' = "NONE"
  /\ UNCHANGED need

-----------------------------------------------------------------------------
(* Around the tender                                                       *)

\* The document of the deliverable is approved, archived or gets a version.
DocumentMoves ==
  /\ deliverable # "NONE"
  /\ deliverable' \in {"MISSING", "COMPLETE"} \ {deliverable}
  /\ Slip({})
  /\ UNCHANGED <<tender, reviews, need>>

DeadlinePasses ==
  /\ tender.status # "NONE" /\ tender.complete
  /\ tender' = [tender EXCEPT !.complete = FALSE]
  /\ Slip({})
  /\ UNCHANGED <<reviews, need, deliverable>>

TenderStep(r) ==
  \/ ReadTender(r) \/ GiveUp(r)
  \/ UpdateTender(r) \/ UpdateTenderQualification(r) \/ TransitionTender(r)
  \/ RequestTenderReview(r) \/ DecideTenderReview(r)
  \/ AddTenderNeed(r) \/ UpdateTenderNeed(r) \/ RemoveTenderNeed(r)
  \/ AddDeliverable(r) \/ RemoveDeliverable(r)

TenderNext ==
  \/ CreateTender \/ DocumentMoves \/ DeadlinePasses
  \/ \E r \in TenderCalls : TenderStep(r)

TenderSpec == TenderInit /\ [][TenderNext]_tenderVars

-----------------------------------------------------------------------------
(* Properties                                                              *)

\* From READY_FOR_SUBMISSION to the result the newest review of both types is
\* an approval: readiness is judged on a reading, reviews are requested and
\* decided by others meanwhile, and only the revision keeps them apart
\* (technical-center.service.ts:708, :937, :970).
ReadyStaysReviewed ==
  tender.status \in Checked => \A k \in Types : Approved(k)

\* A pending review is the newest of its type, so readiness never judges by
\* an older one than the round that is running (docs/tender-workflow.md: a
\* pending review cannot be duplicated).
PendingIsNewest ==
  \A k \in Types : \A i \in DOMAIN reviews[k] :
    reviews[k][i] = "PENDING" => i = Len(reviews[k])

\* A decided review is never decided again, whoever read it as pending.
ReviewsFinal ==
  [][\A k \in Types : \A i \in DOMAIN reviews[k] :
       reviews[k][i] # "PENDING" => reviews'[k][i] = reviews[k][i]]_tenderVars

\* A tender becomes ready or is submitted by a decided bid, and with every
\* mandatory requirement verified, every deliverable there and the deadline
\* ahead, unless one of those changed after the reading that was judged: they
\* do not raise the revision.
SubmittedReady ==
  [][tender'.status # tender.status
       /\ tender'.status \in {"READY_FOR_SUBMISSION", "SUBMITTED"}
     => /\ tender.decided
        /\ Ready \/ \E r \in TenderCalls : /\ visit[r].busy /\ ~visit'[r].busy
                                           /\ ~visit[r].steady]_tenderVars

\* Under a closed tender requirements and deliverables change only by a
\* request that had read it open, or with the document of the deliverable.
ClosedTenderFrozen ==
  [][tender.status \in ClosedTender /\ <<need, deliverable>>' # <<need, deliverable>>
     => \/ \E r \in TenderCalls : /\ visit[r].busy /\ ~visit'[r].busy
                                  /\ visit[r].seen.status \notin ClosedTender
        \/ need' = need /\ {deliverable, deliverable'} = {"MISSING", "COMPLETE"}]_tenderVars

\* A tender and its reviews: one running round per type at most, and nothing ready
\* or submitted on a review that is no longer the newest.
TendersInv == TendersTypeOK /\ ReadyStaysReviewed /\ PendingIsNewest

\* What no request does to a tender, whatever it overlaps: decide a review twice,
\* submit what is not ready, or work on what is closed.
TenderSteps == ReviewsFinal /\ SubmittedReady /\ ClosedTenderFrozen
=============================================================================
