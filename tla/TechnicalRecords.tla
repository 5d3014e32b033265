-------------------------- MODULE TechnicalRecords --------------------------
(***************************************************************************)
(* Releases, documents with their versions, knowledge articles and         *)
(* resources of the technical centre                                       *)
(* (src/technical-center/technical-center.service.ts).                     *)
(*                                                                         *)
(* One record, of one of the four kinds.  Releases and documents are       *)
(* written under the revision that was read, articles and resources by id. *)
(* The approval of a document is two writes: its status, under the         *)
(* revision, and then the newest version, by id and after a second read.   *)
(*                                                                         *)
(* steady, overtaken and lost are history variables.                       *)
(***************************************************************************)
EXTENDS Integers, Sequences

CONSTANTS RecordCalls,
          MaxVersions      \* bound: versions of a document

ASSUME TechnicalRecordsAssumption == MaxVersions \in Nat

VARIABLES kind,       \* which of the four records this is
          row,        \* its status, release date and edition
          versions,   \* rows of TechnicalDocumentVersion, oldest first
          errand,     \* the requests in flight
          overtaken,  \* an article or resource was written on an old reading
          lost        \* a request died between the two writes of an approval

recordVars == <<kind, row, versions, errand, overtaken, lost>>

Kinds == {"RELEASE", "DOCUMENT", "ARTICLE", "RESOURCE"}

\* technical-lifecycle.policy.ts; a resource takes any status it is given.
LifecycleMoves ==
  [RELEASE |->
     [DRAFT       |-> {"PLANNED", "ARCHIVED"},
      PLANNED     |-> {"DRAFT", "RELEASED", "ARCHIVED"},
      RELEASED    |-> {"DEPRECATED", "ARCHIVED"},
      DEPRECATED  |-> {"END_OF_LIFE", "ARCHIVED"},
      END_OF_LIFE |-> {"ARCHIVED"},
      ARCHIVED    |-> {}],
   DOCUMENT |->
     [DRAFT      |-> {"IN_REVIEW", "ARCHIVED"},
      IN_REVIEW  |-> {"DRAFT", "APPROVED", "ARCHIVED"},
      APPROVED   |-> {"ACTIVE", "ARCHIVED"},
      ACTIVE     |-> {"SUPERSEDED", "EXPIRED", "ARCHIVED"},
      SUPERSEDED |-> {"ARCHIVED"},
      EXPIRED    |-> {"ARCHIVED"},
      ARCHIVED   |-> {}],
   ARTICLE |->
     [DRAFT     |-> {"IN_REVIEW", "ARCHIVED"},
      IN_REVIEW |-> {"DRAFT", "PUBLISHED", "ARCHIVED"},
      PUBLISHED |-> {"IN_REVIEW", "ARCHIVED"},
      ARCHIVED  |-> {}],
   RESOURCE |->
     [DRAFT      |-> {"ACTIVE", "DEPRECATED", "ARCHIVED"},
      ACTIVE     |-> {"DRAFT", "DEPRECATED", "ARCHIVED"},
      DEPRECATED |-> {"DRAFT", "ACTIVE", "ARCHIVED"},
      ARCHIVED   |-> {}]]

RecordStatuses == UNION {DOMAIN LifecycleMoves[k] : k \in Kinds}
Identified     == {"RELEASED", "DEPRECATED", "END_OF_LIFE"}
AfterApproval  == {"APPROVED", "ACTIVE", "SUPERSEDED", "EXPIRED"}

\* date: of a release.  edition: the product and version number of a release,
\* the content of an article; it flips whenever they change.
Dates     == {"NONE", "AHEAD", "REACHED"}
RecordRow == [status : RecordStatuses \cup {"NONE"}, date : Dates,
              edition : BOOLEAN]
Version   == [file : BOOLEAN, approved : BOOLEAN]

NoRow == [status |-> "NONE", date |-> "NONE", edition |-> FALSE]

\* A request has read the record, has found the newest version with its file
\* for the status `target', or has approved the record and has the version
\* still to approve.
Errands == [step : {"idle", "read", "checked", "stamp"}, fresh : BOOLEAN, steady : BOOLEAN,
            seen : RecordRow, target : RecordStatuses \cup {"NONE"}]
IdleErrand == [step |-> "idle", fresh |-> FALSE, steady |-> TRUE, seen |-> NoRow,
               target |-> "NONE"]

Moves(status) == LifecycleMoves[kind][status]

RecordsTypeOK ==
  /\ kind \in Kinds
  /\ row \in RecordRow
  /\ row.status \in {"NONE"} \cup DOMAIN LifecycleMoves[kind]
  /\ versions \in Seq(Version)
  /\ errand \in [RecordCalls -> Errands]
  /\ overtaken \in BOOLEAN /\ lost \in BOOLEAN

RecordsInit ==
  /\ kind \in Kinds
  /\ row = NoRow
  /\ versions = <<>>
  /\ errand = [r \in RecordCalls |-> IdleErrand]
  /\ overtaken = FALSE /\ lost = FALSE

-----------------------------------------------------------------------------
(* The two ways to write                                                   *)

\* Mutant: documents and releases, too, are written by id.
MayWriteById(r) == TRUE

\* optimistic: the revision is the one that was read; by id otherwise.
MayWrite(r) == kind \in {"RELEASE", "DOCUMENT"} => errand[r].fresh

\* Request r writes the record and goes on as `next'.
WriteRow(r, new, next) ==
  /\ row' = new
  /\ errand' = [q \in RecordCalls |->
                  IF q = r THEN next
                  ELSE IF errand[q].step \in {"read", "checked"}
                    THEN [errand[q] EXCEPT !.fresh = FALSE] ELSE errand[q]]
  /\ overtaken' = (overtaken \/ ~errand[r].fresh)

\* A version or a file changed, by the requests in A.
Disturb(A) ==
  errand' = [q \in RecordCalls |->
               IF q \in A THEN IdleErrand
               ELSE IF errand[q].step \in {"checked", "stamp"}
                 THEN [errand[q] EXCEPT !.steady = FALSE] ELSE errand[q]]

\* The newest version has a file that is not deleted.
FileThere == versions # <<>> /\ versions[Len(versions)].file

-----------------------------------------------------------------------------
(* Requests                                                                *)

Created(new) ==
  /\ row.status = "NONE"
  /\ row' = new
  /\ UNCHANGED <<kind, versions, errand, overtaken, lost>>

CreateRelease ==
  kind = "RELEASE" /\ \E d \in Dates : Created([NoRow EXCEPT !.status = "DRAFT", !.date = d])

CreateDocument == kind = "DOCUMENT" /\ Created([NoRow EXCEPT !.status = "DRAFT"])

CreateKnowledge == kind = "ARTICLE" /\ Created([NoRow EXCEPT !.status = "DRAFT"])

\* createResource takes the status from the call.
CreateResource ==
  kind = "RESOURCE" /\ \E s \in DOMAIN LifecycleMoves.RESOURCE :
                        Created([NoRow EXCEPT !.status = s])

\* getRelease, getDocument, getKnowledge, getResource
ReadRecord(r) ==
  /\ errand[r].step = "idle" /\ row.status # "NONE"
  /\ errand' = [errand EXCEPT ![r] =
                  [IdleErrand EXCEPT !.step = "read", !.fresh = TRUE, !.seen = row]]
  /\ UNCHANGED <<kind, row, versions, overtaken, lost>>

\* A check refuses, the revision is gone or the process stops.
DropErrand(r) ==
  /\ errand[r].step # "idle"
  /\ errand' = [errand EXCEPT ![r] = IdleErrand]
  /\ lost' = (lost \/ errand[r].step = "stamp")
  /\ UNCHANGED <<kind, row, versions, overtaken>>

\* assertMutable, RELEASE_IDENTITY_LOCKED and PUBLISHED_KNOWLEDGE_LOCKED: the
\* edition may change.
Editable(seen) ==
  /\ seen.status # "ARCHIVED"
  /\ kind = "RELEASE" => seen.status \notin Identified
  /\ kind = "ARTICLE" => seen.status # "PUBLISHED"

\* The reading of request r is of a record that is not archived.
Updating(r) ==
  /\ errand[r].step = "read" /\ errand[r].seen.status # "ARCHIVED"
  /\ MayWrite(r)
  /\ UNCHANGED <<kind, versions, lost>>

\* updateRelease: the identity only while it is open, the dates always.
UpdateRelease(r) ==
  /\ kind = "RELEASE" /\ Updating(r)
  /\ \E e \in IF Editable(errand[r].seen) THEN BOOLEAN ELSE {row.edition},
        d \in {row.date, "AHEAD", "REACHED"} :
       WriteRow(r, [row EXCEPT !.date = d, !.edition = e], IdleErrand)

UpdateDocument(r) ==
  /\ kind = "DOCUMENT" /\ Updating(r)
  /\ WriteRow(r, row, IdleErrand)

\* updateKnowledge: all of it or nothing.
UpdateKnowledge(r) ==
  /\ kind = "ARTICLE" /\ Updating(r) /\ Editable(errand[r].seen)
  /\ WriteRow(r, [row EXCEPT !.edition = ~@], IdleErrand)

\* updateResource takes a status, too.
UpdateResource(r) ==
  /\ kind = "RESOURCE" /\ Updating(r)
  /\ \E s \in DOMAIN LifecycleMoves.RESOURCE :
       WriteRow(r, [row EXCEPT !.status = s], IdleErrand)

NeedsFile(target) == target \in {"IN_REVIEW", "APPROVED"}

\* transitionDocument: the newest version is looked at.
CheckFile(r) ==
  /\ kind = "DOCUMENT" /\ errand[r].step = "read"
  /\ \E t \in Moves(errand[r].seen.status) :
       /\ NeedsFile(t) /\ FileThere
       /\ errand' = [errand EXCEPT ![r].step = "checked", ![r].target = t]
  /\ UNCHANGED <<kind, row, versions, overtaken, lost>>

\* transitionRelease: RELEASE_DATE_REQUIRED, RELEASE_DATE_IN_FUTURE
DateAllows(seen, target) ==
  /\ target \in {"PLANNED", "RELEASED"} => seen.date # "NONE"
  /\ target = "RELEASED" => seen.date = "REACHED"

\* transitionRelease
TransitionRelease(r) ==
  /\ kind = "RELEASE" /\ errand[r].step = "read" /\ MayWrite(r)
  /\ \E t \in Moves(errand[r].seen.status) :
       /\ DateAllows(errand[r].seen, t)
       /\ WriteRow(r, [row EXCEPT !.status = t], IdleErrand)
  /\ UNCHANGED <<kind, versions, lost>>

\* transitionDocument: the status, and on to the version when it is APPROVED.
TransitionDocument(r) ==
  LET e == errand[r] IN
  /\ kind = "DOCUMENT" /\ MayWrite(r)
  /\ \E t \in RecordStatuses :
       /\ \/ e.step = "read" /\ t \in Moves(e.seen.status) /\ ~NeedsFile(t)
          \/ e.step = "checked" /\ t = e.target
       /\ WriteRow(r, [row EXCEPT !.status = t],
                   IF t = "APPROVED" THEN [e EXCEPT !.step = "stamp", !.seen = NoRow]
                                     ELSE IdleErrand)
  /\ UNCHANGED <<kind, versions, lost>>

\* transitionKnowledge: by id.
TransitionKnowledge(r) ==
  /\ kind = "ARTICLE" /\ errand[r].step = "read" /\ MayWrite(r)
  /\ \E t \in Moves(errand[r].seen.status) :
       WriteRow(r, [row EXCEPT !.status = t], IdleErrand)
  /\ UNCHANGED <<kind, versions, lost>>

\* Mutant: a version whose file has gone meanwhile is not approved.
StampVersionWithFile(r) ==
  /\ errand[r].step = "stamp"
  /\ versions' = IF FileThere THEN [versions EXCEPT ![Len(versions)].approved = TRUE]
                             ELSE versions
  /\ errand' = [errand EXCEPT ![r] = IdleErrand]
  /\ UNCHANGED <<kind, row, overtaken, lost>>

\* transitionDocument: the newest version now is approved, unless it is.
StampVersion(r) ==
  /\ errand[r].step = "stamp"
  /\ versions' = [versions EXCEPT ![Len(versions)].approved = TRUE]
  /\ errand' = [errand EXCEPT ![r] = IdleErrand]
  /\ UNCHANGED <<kind, row, overtaken, lost>>

\* addDocumentVersion, with or without a file, whatever the revision
AddDocumentVersion(r) ==
  /\ errand[r].step = "read" /\ kind = "DOCUMENT"
  /\ errand[r].seen.status \in {"DRAFT", "IN_REVIEW"}
  /\ Len(versions) < MaxVersions
  /\ \E f \in BOOLEAN : versions' = Append(versions, [file |-> f, approved |-> FALSE])
  /\ Disturb({r})
  /\ UNCHANGED <<kind, row, overtaken, lost>>

-----------------------------------------------------------------------------
(* Around the record                                                       *)

\* The attachment of a version is deleted.
FileDeleted ==
  /\ \E i \in DOMAIN versions :
       versions[i].file /\ versions' = [versions EXCEPT ![i].file = FALSE]
  /\ Disturb({})
  /\ UNCHANGED <<kind, row, overtaken, lost>>

\* The release date is reached, also for those who have read it.
DateReached ==
  /\ row.date = "AHEAD"
  /\ row' = [row EXCEPT !.date = "REACHED"]
  /\ errand' = [q \in RecordCalls |->
       IF errand[q].seen.date = "AHEAD" THEN [errand[q] EXCEPT !.seen.date = "REACHED"]
                                        ELSE errand[q]]
  /\ UNCHANGED <<kind, versions, overtaken, lost>>

RecordStep(r) ==
  \/ ReadRecord(r) \/ DropErrand(r)
  \/ UpdateRelease(r) \/ UpdateDocument(r) \/ UpdateKnowledge(r) \/ UpdateResource(r)
  \/ TransitionRelease(r) \/ TransitionKnowledge(r)
  \/ CheckFile(r) \/ TransitionDocument(r) \/ StampVersion(r) \/ AddDocumentVersion(r)

RecordsNext ==
  \/ CreateRelease \/ CreateDocument \/ CreateKnowledge \/ CreateResource
  \/ FileDeleted \/ DateReached
  \/ \E r \in RecordCalls : RecordStep(r)

RecordsSpec == RecordsInit /\ [][RecordsNext]_recordVars

-----------------------------------------------------------------------------
(* Properties                                                              *)

\* A record changes its status only along its lifecycle, whichever requests
\* decided on the same reading; an article or resource only as long as no
\* write overtook another (technical-center.service.ts:398, :606).
LifecycleFollowed ==
  [][row.status # "NONE" /\ row'.status # row.status =>
       \/ row'.status \in Moves(row.status)
       \/ kind \in {"ARTICLE", "RESOURCE"} /\ overtaken']_recordVars

\* A release is published only with a date that has come, whoever moves the
\* date while the transition is under way.
ReleasedWhenDue ==
  [][kind = "RELEASE" /\ row'.status = "RELEASED" /\ row.status # "RELEASED"
       => row.date = "REACHED"]_recordVars

\* The identity of a published release never changes; neither does the content
\* of a published article, unless a write overtook its publication
\* (technical-center.service.ts:210, :367).
PublishedStable ==
  [][row'.edition # row.edition =>
       /\ kind = "RELEASE" => row.status \notin Identified
       /\ kind = "ARTICLE" => row.status # "PUBLISHED" \/ overtaken']_recordVars

\* A document past its approval has an approved version, is about to have one,
\* or lost it with the request between the two writes; the lifecycle offers
\* no second approval (technical-center.service.ts:486).
ApprovalNamesAVersion ==
  kind = "DOCUMENT" /\ row.status \in AfterApproval =>
    \/ \E i \in DOMAIN versions : versions[i].approved
    \/ \E r \in RecordCalls : errand[r].step = "stamp"
    \/ lost

\* The version that is approved has its file, unless one was added or deleted
\* between the check and the approval (technical-center.service.ts:473, :493).
ApprovedWithFile ==
  [][\A i \in DOMAIN versions :
       ~versions[i].approved /\ versions'[i].approved =>
         versions[i].file \/ \E r \in RecordCalls : /\ errand[r].step = "stamp"
                                                    /\ errand'[r].step = "idle"
                                                    /\ ~errand[r].steady]_recordVars

\* A record has a status of its kind, and what is approved names a version.
RecordsInv == RecordsTypeOK /\ ApprovalNamesAVersion

\* What no request does to a record, whatever it overlaps: leave the lifecycle, release
\* early, change what is published, or approve a version without its file.
RecordSteps ==
  /\ LifecycleFollowed
  /\ ReleasedWhenDue
  /\ PublishedStable
  /\ ApprovedWithFile
=============================================================================
