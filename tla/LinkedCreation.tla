--------------------------- MODULE LinkedCreation ---------------------------
(***************************************************************************)
(* Tasks, opportunities and documents created for a customer request under *)
(* the key of the caller, and their links to the request                   *)
(* (src/customer-requests/customer-request-operations.service.ts).         *)
(*                                                                         *)
(* The row of CustomerRequestCrmCreationAttempt, unique by request and     *)
(* key, says who may create; the record is created by another service;     *)
(* its id is noted, the link written and the attempt completed, each in a  *)
(* transaction of its own.  A write that fails has had no effect.          *)
(***************************************************************************)
EXTENDS Naturals, FiniteSets

CONSTANTS CreationKeys, Linkers, Records, NoRecord, NoKey

ASSUME LinkedCreationAssumption ==
  /\ NoRecord \notin Records
  /\ NoKey \notin CreationKeys /\ {"none", "other"} \cap CreationKeys = {}

VARIABLES attempt,   \* the attempt rows, by key
          link,      \* the link rows of the request, by record
          birth,     \* the key a record was created under, or none
          linker,    \* the calls of createIdempotent
          orphaned,  \* history: records whose creator could not note them
          cut        \* history: keys whose creator stopped or could not record

linkedVars == <<attempt, link, birth, linker, orphaned, cut>>

AttemptStatuses == {"NONE", "PENDING", "FAILED", "TARGET_CREATED", "COMPLETED"}
IdleLinker == [step |-> "idle", key |-> NoKey, record |-> NoRecord]

\* "other": a record of the company that was not created here.
LinkedTypeOK ==
  /\ attempt \in [CreationKeys -> [status : AttemptStatuses,
                                   target : Records \cup {NoRecord}]]
  /\ link \in [Records -> [state : {"NONE", "LIVE", "REMOVED"},
                           key : CreationKeys \cup {NoKey}]]
  /\ birth \in [Records -> CreationKeys \cup {"none", "other"}]
  /\ linker \in [Linkers ->
       [step : {"idle", "looked", "absent", "claim", "create", "note", "fail", "link",
                "complete"},
        key : CreationKeys \cup {NoKey}, record : Records \cup {NoRecord}]]
  /\ orphaned \subseteq Records /\ cut \subseteq CreationKeys

LinkedInit ==
  /\ attempt = [k \in CreationKeys |-> [status |-> "NONE", target |-> NoRecord]]
  /\ link = [r \in Records |-> [state |-> "NONE", key |-> NoKey]]
  /\ birth = [r \in Records |-> "none"]
  /\ linker = [c \in Linkers |-> IdleLinker]
  /\ orphaned = {} /\ cut = {}

Linking(c, step) == linker[c].step = step
KeyOf(c) == linker[c].key
Advance(c, step, r) == linker' = [linker EXCEPT ![c].step = step, ![c].record = r]
Done(c) == linker' = [linker EXCEPT ![c] = IdleLinker]

-----------------------------------------------------------------------------
(* Who may create                                                          *)

\* byKey finds no live link of the key.
LookUp(c) ==
  /\ Linking(c, "idle")
  /\ \E k \in CreationKeys :
       /\ \A r \in Records : ~(link[r].state = "LIVE" /\ link[r].key = k)
       /\ linker' = [linker EXCEPT ![c] = [step |-> "looked", key |-> k, record |-> NoRecord]]
  /\ UNCHANGED <<attempt, link, birth, orphaned, cut>>

\* A row that names its target goes on to the link, another must be claimed.
Follow(c) ==
  LET target == attempt[KeyOf(c)].target
  IN  Advance(c, IF target = NoRecord THEN "claim" ELSE "link", target)

FindAttempt(c) ==
  /\ Linking(c, "looked")
  /\ IF attempt[KeyOf(c)].status = "NONE" THEN Advance(c, "absent", NoRecord) ELSE Follow(c)
  /\ UNCHANGED <<attempt, link, birth, orphaned, cut>>

InsertAttempt(c) ==
  /\ Linking(c, "absent") /\ attempt[KeyOf(c)].status = "NONE"
  /\ attempt' = [attempt EXCEPT ![KeyOf(c)].status = "PENDING"]
  /\ Advance(c, "create", NoRecord)
  /\ UNCHANGED <<link, birth, orphaned, cut>>

\* P2002: somebody else's row is read instead.
InsertConflict(c) ==
  /\ Linking(c, "absent") /\ attempt[KeyOf(c)].status # "NONE"
  /\ Follow(c)
  /\ UNCHANGED <<attempt, link, birth, orphaned, cut>>

\* Mutant: a pending attempt is taken over.
TakeableAny(a) == a.status \in {"FAILED", "PENDING"} /\ a.target = NoRecord

\* The condition of the claim
Takeable(a) == a.status = "FAILED" /\ a.target = NoRecord

ClaimAttempt(c) ==
  /\ Linking(c, "claim") /\ Takeable(attempt[KeyOf(c)])
  /\ attempt' = [attempt EXCEPT ![KeyOf(c)].status = "PENDING"]
  /\ Advance(c, "create", NoRecord)
  /\ UNCHANGED <<link, birth, orphaned, cut>>

\* CUSTOMER_REQUEST_CREATION_IN_PROGRESS
ClaimRefused(c) ==
  /\ Linking(c, "claim") /\ ~Takeable(attempt[KeyOf(c)])
  /\ Done(c)
  /\ UNCHANGED <<attempt, link, birth, orphaned, cut>>

-----------------------------------------------------------------------------
(* Create, note and link                                                   *)

CreateRecord(c) ==
  /\ Linking(c, "create")
  /\ \E r \in Records :
       /\ birth[r] = "none"
       /\ birth' = [birth EXCEPT ![r] = KeyOf(c)]
       /\ Advance(c, "note", r)
  /\ UNCHANGED <<attempt, link, orphaned, cut>>

\* create throws, before the record is there or after.
CreateRecordThrows(c) ==
  /\ Linking(c, "create")
  /\ \/ UNCHANGED <<birth, orphaned>>
     \/ \E r \in Records : /\ birth[r] = "none"
                           /\ birth' = [birth EXCEPT ![r] = KeyOf(c)]
                           /\ orphaned' = orphaned \cup {r}
  /\ Advance(c, "fail", NoRecord)
  /\ UNCHANGED <<attempt, link, cut>>

Noted(a, r) == [status |-> "TARGET_CREATED", target |-> r]

NoteTarget(c) ==
  LET r == linker[c].record IN
  /\ Linking(c, "note")
  /\ attempt' = [attempt EXCEPT ![KeyOf(c)] = Noted(@, r)]
  /\ Advance(c, "link", r)
  /\ UNCHANGED <<link, birth, orphaned, cut>>

NoteFails(c) ==
  /\ Linking(c, "note")
  /\ orphaned' = orphaned \cup {linker[c].record}
  /\ Advance(c, "fail", NoRecord)
  /\ UNCHANGED <<attempt, link, birth, cut>>

Failed(a) == [a EXCEPT !.status = "FAILED"]

RecordFailed(c) ==
  /\ Linking(c, "fail")
  /\ attempt' = [attempt EXCEPT ![KeyOf(c)] = Failed(@)]
  /\ Done(c)
  /\ UNCHANGED <<link, birth, orphaned, cut>>

\* The link of the record is revived or made, under the key of the caller if
\* there is one; no two links of the request have the same key, live or not.
WriteLink(r, k) ==
  /\ k = NoKey \/ \A o \in Records \ {r} : link[o].key # k
  /\ link' = [link EXCEPT ![r] = [state |-> "LIVE",
                                  key |-> IF k = NoKey THEN @.key ELSE k]]

PersistLink(c) ==
  /\ Linking(c, "link")
  /\ WriteLink(linker[c].record, KeyOf(c))
  /\ Advance(c, "complete", linker[c].record)
  /\ UNCHANGED <<attempt, birth, orphaned, cut>>

Complete(c) ==
  /\ Linking(c, "complete")
  /\ attempt' = [attempt EXCEPT ![KeyOf(c)].status = "COMPLETED"]
  /\ Done(c)
  /\ UNCHANGED <<link, birth, orphaned, cut>>

\* The process stops, or a write fails whose failure nothing records.
StopLinker(c) ==
  /\ linker[c].step # "idle"
  /\ orphaned' = IF Linking(c, "note") THEN orphaned \cup {linker[c].record} ELSE orphaned
  /\ cut' = IF linker[c].step \in {"create", "note", "fail"} THEN cut \cup {KeyOf(c)} ELSE cut
  /\ Done(c)
  /\ UNCHANGED <<attempt, link, birth>>

-----------------------------------------------------------------------------
(* linkExisting and unlink                                                 *)

LinkExisting(r) ==
  /\ WriteLink(r, NoKey)
  /\ birth' = [birth EXCEPT ![r] = IF @ = "none" THEN "other" ELSE @]
  /\ UNCHANGED <<attempt, linker, orphaned, cut>>

Unlink(r) ==
  /\ link[r].state = "LIVE"
  /\ link' = [link EXCEPT ![r].state = "REMOVED"]
  /\ UNCHANGED <<attempt, birth, linker, orphaned, cut>>

LinkedNext ==
  \/ \E c \in Linkers :
       \/ LookUp(c) \/ FindAttempt(c) \/ InsertAttempt(c) \/ InsertConflict(c)
       \/ ClaimAttempt(c) \/ ClaimRefused(c) \/ CreateRecord(c) \/ CreateRecordThrows(c)
       \/ NoteTarget(c) \/ NoteFails(c) \/ RecordFailed(c) \/ PersistLink(c) \/ Complete(c)
       \/ StopLinker(c)
  \/ \E r \in Records : LinkExisting(r) \/ Unlink(r)

LinkedSpec == LinkedInit /\ [][LinkedNext]_linkedVars

-----------------------------------------------------------------------------
(* Properties                                                              *)

\* Makers of a key: the calls between the claim and its outcome.
Making(c) == linker[c].step \in {"create", "note", "fail"}

\* Two calls with one key never create at the same time, and none does once
\* the record is noted.
OneMaker ==
  \A c \in Linkers : Making(c) =>
    /\ attempt[KeyOf(c)] = [status |-> "PENDING", target |-> NoRecord]
    /\ \A o \in Linkers \ {c} : Making(o) => KeyOf(o) # KeyOf(c)

\* A second record under a key exists only when the creator of the first was
\* stopped or failed before its id was noted
\* (customer-request-operations.service.ts:77).
DuplicatesNeedFault ==
  \A k \in CreationKeys : Cardinality({r \in Records \ orphaned : birth[r] = k}) <= 1

\* A pending attempt nobody works on, which no retry can take over, is the
\* trace of a creator that stopped (customer-request-operations.service.ts:76).
PendingHasMaker ==
  \A k \in CreationKeys : attempt[k].status = "PENDING" =>
    k \in cut \/ \E c \in Linkers : Making(c) /\ KeyOf(c) = k

\* The link under a key, which byKey answers with, is to the record that was
\* noted for the key, and a completed attempt has its link.
LinkFollowsAttempt ==
  /\ \A r \in Records : link[r].key \in CreationKeys =>
       attempt[link[r].key].target = r /\ birth[r] = link[r].key
  /\ \A k \in CreationKeys : attempt[k].status = "COMPLETED" =>
       attempt[k].target \in Records /\ link[attempt[k].target].key = k

\* The keys of the linked records, under retries and failures.
LinkedInv ==
  /\ LinkedTypeOK
  /\ OneMaker
  /\ DuplicatesNeedFault
  /\ PendingHasMaker
  /\ LinkFollowsAttempt
=============================================================================
