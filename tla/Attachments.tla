----------------------------- MODULE Attachments ------------------------------
(***************************************************************************)
(* Uploads of files, for themselves or for a legal document of a company   *)
(* (src/attachments/attachments.service.ts and                             *)
(* src/companies/company-legal-documents.service.ts).                      *)
(*                                                                         *)
(* An upload holds quota of two metrics, stores an object, inserts a row   *)
(* and commits the holds; a legal document is inserted before all that and *)
(* linked after.  Each is a transaction or a call of its own, and each     *)
(* failure is answered by undoing what the code knows of.                  *)
(*                                                                         *)
(* Whether a hold is granted is up to the ledger, here to chance.          *)
(***************************************************************************)
EXTENDS Naturals

CONSTANT Uploads  \* each stores a file of its own, under a name of its own

VARIABLES upload,    \* how far upload is
          object,    \* whether the storage has the file
          file,      \* FileAttachment
          hold,      \* UsageReservation by metric
          document,  \* CompanyLegalDocument
          removal,   \* the call of remove of a document, by what it has read
          cut,       \* history: the process stopped, or what was to be undone,
                     \* committed or recorded was not
          lost,      \* history: a call took effect and reported a failure
          stripped   \* history: the file was removed on its own, its document not
                     \* after it, or the document while its file was linked

attachmentVars == <<upload, object, file, hold, document, removal, cut, lost, stripped>>

Metrics == {"FILES", "STORAGE_BYTES"}
Holds == {"NONE", "RESERVED", "COMMITTED", "RELEASED", "EXPIRED"}
UploadSteps == {"idle", "begun", "files", "held", "stored", "inserted", "erase", "release",
                "failed", "counted", "withdraw", "clean", "over"}

AttachmentsTypeOK ==
  /\ upload \in [Uploads -> UploadSteps]
  /\ object \in [Uploads -> BOOLEAN]
  /\ file \in [Uploads -> {"NONE", "LIVE", "DELETED"}]
  /\ hold \in [Uploads -> [Metrics -> Holds]]
  /\ document \in [Uploads -> {"NONE", "BARE", "LINKED", "GONE"}]
  /\ removal \in [Uploads -> {"none", "BARE", "LINKED", "fileless"}]
  /\ cut \subseteq Uploads /\ lost \subseteq Uploads /\ stripped \subseteq Uploads

AttachmentsInit ==
  /\ upload = [u \in Uploads |-> "idle"] /\ object = [u \in Uploads |-> FALSE]
  /\ file = [u \in Uploads |-> "NONE"]
  /\ hold = [u \in Uploads |-> [m \in Metrics |-> "NONE"]]
  /\ document = [u \in Uploads |-> "NONE"] /\ removal = [u \in Uploads |-> "none"]
  /\ cut = {} /\ lost = {} /\ stripped = {}

Uploading(u, step) == upload[u] = step
Proceed(u, step) == upload' = [upload EXCEPT ![u] = step]
Cuts(u) == cut' = cut \cup {u}

-----------------------------------------------------------------------------
(* upload                                                                  *)

\* On its own, or after the row of a legal document
BeginUpload(u) ==
  /\ Uploading(u, "idle") /\ Proceed(u, "begun")
  /\ \E made \in {"NONE", "BARE"} : document' = [document EXCEPT ![u] = made]
  /\ UNCHANGED <<object, file, hold, removal, cut, lost, stripped>>

Held(u, m) == hold' = [hold EXCEPT ![u][m] = "RESERVED"]

\* Granted, or refused with nothing to undo
ReserveFile(u) ==
  /\ Uploading(u, "begun")
  /\ \/ Proceed(u, "files") /\ Held(u, "FILES")
     \/ Proceed(u, "failed") /\ UNCHANGED hold
  /\ UNCHANGED <<object, file, document, removal, cut, lost, stripped>>

\* Granted, or refused with the first to release
ReserveBytes(u) ==
  /\ Uploading(u, "files")
  /\ \/ Proceed(u, "held") /\ Held(u, "STORAGE_BYTES")
     \/ Proceed(u, "release") /\ UNCHANGED hold
  /\ UNCHANGED <<object, file, document, removal, cut, lost, stripped>>

\* save: a failure may have left the object, of which the code then knows
\* nothing.
StoreObject(u) ==
  /\ Uploading(u, "held")
  /\ \E there \in BOOLEAN, reported \in BOOLEAN :
       /\ reported => there
       /\ object' = [object EXCEPT ![u] = there]
       /\ Proceed(u, IF reported THEN "stored" ELSE "release")
       /\ lost' = IF there /\ ~reported THEN lost \cup {u} ELSE lost
  /\ UNCHANGED <<file, hold, document, removal, cut, stripped>>

\* The row, its link and the resource, in one transaction, which may fail
\* after it was committed
InsertFile(u) ==
  /\ Uploading(u, "stored")
  /\ \E there \in BOOLEAN, reported \in BOOLEAN :
       /\ reported => there
       /\ file' = [file EXCEPT ![u] = IF there THEN "LIVE" ELSE @]
       /\ Proceed(u, IF reported THEN "inserted" ELSE "erase")
       /\ lost' = IF there /\ ~reported THEN lost \cup {u} ELSE lost
  /\ UNCHANGED <<object, hold, document, removal, cut, stripped>>

\* The object goes when no row was reported; when that fails the holds stay.
EraseObject(u) ==
  /\ Uploading(u, "erase")
  /\ \/ /\ object' = [object EXCEPT ![u] = FALSE]
        /\ Proceed(u, "release") /\ UNCHANGED cut
     \/ Proceed(u, "failed") /\ Cuts(u) /\ UNCHANGED object
  /\ UNCHANGED <<file, hold, document, removal, lost, stripped>>

\* Mutant: what is to be released stays held.
ReleasedFile(holds, done) ==
  [m \in Metrics |-> IF holds[m] = "RESERVED" /\ m \in done \ {"STORAGE_BYTES"}
                     THEN "RELEASED" ELSE holds[m]]

\* releaseReservation of some
Released(holds, done) ==
  [m \in Metrics |-> IF holds[m] = "RESERVED" /\ m \in done THEN "RELEASED" ELSE holds[m]]

\* Each hold is released by a call of its own.
ReleaseHolds(u) ==
  /\ Uploading(u, "release") /\ Proceed(u, "failed")
  /\ \E done \in SUBSET Metrics :
       /\ hold' = [hold EXCEPT ![u] = Released(@, done)]
       /\ cut' = IF done = Metrics THEN cut ELSE cut \cup {u}
  /\ UNCHANGED <<object, file, document, removal, lost, stripped>>

Committed(holds) ==
  [m \in Metrics |-> IF holds[m] = "RESERVED" THEN "COMMITTED" ELSE holds[m]]

\* commitReservations, outside the try: its failure undoes nothing.
CommitHolds(u) ==
  /\ Uploading(u, "inserted")
  /\ \/ /\ hold' = [hold EXCEPT ![u] = Committed(@)]
        /\ Proceed(u, "counted") /\ UNCHANGED cut
     \/ Proceed(u, "failed") /\ Cuts(u) /\ UNCHANGED hold
  /\ UNCHANGED <<object, file, document, removal, lost, stripped>>

\* The audit, as much outside it
RecordFails(u) ==
  /\ Uploading(u, "counted") /\ Proceed(u, "failed") /\ Cuts(u)
  /\ UNCHANGED <<object, file, hold, document, removal, lost, stripped>>

\* A hold nobody ends expires after its time.
ExpireHold(u) ==
  /\ \E m \in Metrics : /\ hold[u][m] = "RESERVED"
                        /\ hold' = [hold EXCEPT ![u][m] = "EXPIRED"]
  /\ UNCHANGED <<upload, object, file, document, removal, cut, lost, stripped>>

\* The process stops, and leaves all there is.
StopUpload(u) ==
  /\ upload[u] \notin {"idle", "over"} /\ Proceed(u, "over") /\ Cuts(u)
  /\ UNCHANGED <<object, file, hold, document, removal, lost, stripped>>

-----------------------------------------------------------------------------
(* Legal documents                                                         *)

\* The document names its file; a failure withdraws both.
LinkDocument(u) ==
  /\ Uploading(u, "counted")
  /\ \/ document[u] = "NONE" /\ Proceed(u, "over") /\ UNCHANGED document
     \/ /\ document[u] = "BARE" /\ Proceed(u, "over")
        /\ document' = [document EXCEPT ![u] = "LINKED"]
     \/ document[u] # "NONE" /\ Proceed(u, "withdraw") /\ UNCHANGED document
  /\ UNCHANGED <<object, file, hold, removal, cut, lost, stripped>>

\* The file first, whose failure is logged
WithdrawFile(u) ==
  /\ Uploading(u, "withdraw") /\ Proceed(u, "clean")
  /\ \/ file' = [file EXCEPT ![u] = "DELETED"] /\ UNCHANGED cut
     \/ Cuts(u) /\ UNCHANGED file
  /\ UNCHANGED <<object, hold, document, removal, lost, stripped>>

\* The document, whether a file was withdrawn or none was reported
WithdrawDocument(u) ==
  /\ upload[u] \in {"failed", "clean"} /\ Proceed(u, "over")
  /\ IF document[u] = "NONE" THEN UNCHANGED <<document, cut>>
     ELSE \/ document' = [document EXCEPT ![u] = "GONE"] /\ UNCHANGED cut
          \/ Cuts(u) /\ UNCHANGED document
  /\ UNCHANGED <<object, file, hold, removal, lost, stripped>>

\* remove of an attachment: the row is marked, and the object stays.  The file
\* of a document may go alone.
RemoveFile(u) ==
  /\ file[u] = "LIVE"
  /\ file' = [file EXCEPT ![u] = "DELETED"]
  /\ stripped' = stripped \cup {u}
  /\ UNCHANGED <<upload, object, hold, document, removal, cut, lost>>

\* remove of a document reads whether it has a file,
ReadDocument(u) ==
  /\ removal[u] = "none" /\ document[u] \in {"BARE", "LINKED"}
  /\ removal' = [removal EXCEPT ![u] = document[u]]
  /\ UNCHANGED <<upload, object, file, hold, document, cut, lost, stripped>>

\* removes that, which is not found when it went before,
RemoveItsFile(u) ==
  /\ removal[u] = "LINKED" /\ file[u] = "LIVE"
  /\ file' = [file EXCEPT ![u] = "DELETED"]
  /\ removal' = [removal EXCEPT ![u] = "fileless"]
  /\ UNCHANGED <<upload, object, hold, document, cut, lost, stripped>>

\* and deletes the document by its id.
DeleteDocument(u) ==
  /\ removal[u] \in {"BARE", "fileless"} /\ document[u] # "GONE"
  /\ document' = [document EXCEPT ![u] = "GONE"]
  /\ removal' = [removal EXCEPT ![u] = "none"]
  /\ stripped' = IF removal[u] # "fileless" /\ document[u] = "LINKED"
                 THEN stripped \cup {u} ELSE stripped
  /\ UNCHANGED <<upload, object, file, hold, cut, lost>>

StopRemoval(u) ==
  /\ removal[u] # "none" /\ removal' = [removal EXCEPT ![u] = "none"]
  /\ stripped' = IF removal[u] = "fileless" THEN stripped \cup {u} ELSE stripped
  /\ UNCHANGED <<upload, object, file, hold, document, cut, lost>>

AttachmentsNext ==
  \E u \in Uploads :
    \/ BeginUpload(u) \/ ReserveFile(u) \/ ReserveBytes(u) \/ StoreObject(u) \/ InsertFile(u)
    \/ EraseObject(u) \/ ReleaseHolds(u) \/ CommitHolds(u) \/ ExpireHold(u) \/ StopUpload(u)
    \/ LinkDocument(u) \/ WithdrawFile(u) \/ WithdrawDocument(u)
    \/ RecordFails(u) \/ RemoveFile(u) \/ ReadDocument(u) \/ RemoveItsFile(u)
    \/ DeleteDocument(u) \/ StopRemoval(u)

AttachmentsSpec == AttachmentsInit /\ [][AttachmentsNext]_attachmentVars

-----------------------------------------------------------------------------
(* Properties                                                              *)

\* A file that can be asked for is in the storage, unless the insertion of its
\* row took effect and reported a failure (attachments.service.ts:197).
FilesAreStored == \A u \in Uploads : file[u] = "LIVE" => object[u] \/ u \in lost

\* An object without a row is one of an upload in progress, or one was stopped
\* or could not undo it.
ObjectsHaveFiles ==
  \A u \in Uploads : object[u] /\ file[u] = "NONE" =>
    upload[u] \in {"stored", "erase"} \/ u \in cut \cup lost

\* An upload that ends leaves no hold to expire, and a file is counted for both
\* metrics unless the holds overran, or else something failed on the way
\* (attachments.service.ts:196-206).
HoldsSettled ==
  \A u \in Uploads : Uploading(u, "over") /\ u \notin cut =>
    \A m \in Metrics :
      /\ hold[u][m] # "RESERVED"
      /\ file[u] = "LIVE" /\ u \notin lost => hold[u][m] \in {"COMMITTED", "EXPIRED"}

\* "Storage/attachment/link failures cannot produce false success"
\* (README.md:1887): a document that stands has its file, and a document that
\* goes leaves none, where nothing failed beyond what the code undoes and no
\* removal overtook the link (company-legal-documents.service.ts:231).
DocumentsWhole ==
  \A u \in Uploads : Uploading(u, "over") /\ u \notin cut \cup lost \cup stripped =>
    /\ document[u] = "LINKED" => file[u] = "LIVE" \/ removal[u] = "fileless"
    /\ document[u] = "GONE" => file[u] # "LIVE"
    /\ document[u] # "BARE"

AttachmentsInv ==
  AttachmentsTypeOK /\ FilesAreStored /\ ObjectsHaveFiles /\ HoldsSettled /\ DocumentsWhole
=============================================================================
