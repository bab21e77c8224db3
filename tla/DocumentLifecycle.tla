------------------------- MODULE DocumentLifecycle -------------------------
(***************************************************************************)
(* The life of an uploaded document: upload, processing into units, chunks *)
(* and embeddings, embedding rebuild, deletion.  Two stores are written    *)
(* without a common transaction, the upload directory and PostgreSQL, by   *)
(* requests that run in different threads and server processes and that    *)
(* may die at any point.                                                   *)
(*                                                                         *)
(* The database runs at READ COMMITTED.  A request that writes keeps its   *)
(* rows locked and invisible to others until it commits, so an open        *)
(* transaction is a stage of its request: nothing is in rec, indexed or    *)
(* embedded before the stage that commits.  All documents belong to one    *)
(* user, which is the scope of the uniqueness constraint.                  *)
(***************************************************************************)
EXTENDS Naturals, FiniteSets

CONSTANTS
    Requests,    \* request slots: at most this many requests are open at once
    Docs,        \* identities of uploads; one is reused when nothing names it
    Contents,    \* the file contents a user may upload (their checksums)
    ContentOf,   \* the content uploaded under each identity
    Unparsable,  \* contents no parser accepts
    Blank,       \* contents that parse into units without text (scanned pages)
    Models,      \* embedding models an operator may configure
    NoDoc,       \* the document of an idle request
    CanCrash,    \* may a server process die while it serves requests?
    DbFaults     \* may the database fail at a statement or around a commit?

ASSUME ContentAssumption ==
    /\ ContentOf \in [Docs -> Contents]
    /\ Unparsable \subseteq Contents
    /\ Blank \subseteq Contents \ Unparsable
ASSUME NoDocAssumption == NoDoc \notin Docs
ASSUME FaultAssumption == CanCrash \in BOOLEAN /\ DbFaults \in BOOLEAN

VARIABLES
    temp,      \* uploads with a .part file under UPLOAD_DIR/.tmp
    files,     \* uploads with a file at their storage_path
    rec,       \* documents.status, or "absent" when there is no record
    indexed,   \* documents with committed unit and chunk rows
    embedded,  \* the models for which all chunks have embedding rows
    model,     \* the configured embedding model
    pc,        \* the stage of each request
    doc,       \* the document each request works on
    seen,      \* documents.status as the session of the request last loaded it
    view       \* what the request knows of the committed rows of its document

disk == <<temp, files>>
db   == <<rec, indexed, embedded>>
reqs == <<pc, doc, seen, view>>
vars == <<temp, files, rec, indexed, embedded, model, pc, doc, seen, view>>

Status == {"uploaded", "queued", "processing", "ready", "failed"}
DocState == Status \cup {"absent"}

UploadStages  == {"u_saving", "u_saved", "u_checked", "u_finalized", "u_discard"}
ProcessStages == {"p_loaded", "p_claimed", "p_parsed", "p_clearing",
                  "p_cleared", "p_indexed", "p_failing"}
RebuildStages == {"r_loaded", "r_selected", "r_cleared"}
DeleteStages  == {"d_loaded", "d_deleting", "d_unlink"}
Stages == {"idle"} \cup UploadStages \cup ProcessStages
                   \cup RebuildStages \cup DeleteStages

(* "current": the rows the request deleted or selected are those committed *)
(* now; "stale": they were replaced or deleted since; "none": it saw none. *)
Views == {"none", "current", "stale"}

TypeOK ==
    /\ temp \subseteq Docs
    /\ files \subseteq Docs
    /\ rec \in [Docs -> DocState]
    /\ indexed \subseteq Docs
    /\ embedded \in [Docs -> SUBSET Models]
    /\ model \in Models
    /\ pc \in [Requests -> Stages]
    /\ doc \in [Requests -> Docs \cup {NoDoc}]
    /\ seen \in [Requests -> DocState]
    /\ view \in [Requests -> Views]
    /\ \A r \in Requests : doc[r] = NoDoc <=> pc[r] = "idle"

Init ==
    /\ temp = {}
    /\ files = {}
    /\ rec = [d \in Docs |-> "absent"]
    /\ indexed = {}
    /\ embedded = [d \in Docs |-> {}]
    /\ model \in Models
    /\ pc = [r \in Requests |-> "idle"]
    /\ doc = [r \in Requests |-> NoDoc]
    /\ seen = [r \in Requests |-> "absent"]
    /\ view = [r \in Requests |-> "none"]

----------------------------------------------------------------------------
(* Requests *)

Recorded(d) == rec[d] # "absent"

(* get_document_by_checksum, and the unique constraint on the table *)
Duplicate(d) == \E e \in Docs : Recorded(e) /\ ContentOf[e] = ContentOf[d]

(* uuid4 never returns an identity in use: nothing names d any more *)
Unused(d) ==
    /\ d \notin temp \cup files
    /\ ~Recorded(d)
    /\ \A r \in Requests : doc[r] # d

Goto(r, stage) == pc' = [pc EXCEPT ![r] = stage]

Begin(r, d, stage) ==
    /\ pc[r] = "idle"
    /\ Goto(r, stage)
    /\ doc' = [doc EXCEPT ![r] = d]
    /\ seen' = [seen EXCEPT ![r] = rec[d]]
    /\ UNCHANGED view

(* the response is sent, or the exception reaches it; the session closes *)
(* and an open transaction is rolled back                                 *)
End(r) ==
    /\ Goto(r, "idle")
    /\ doc' = [doc EXCEPT ![r] = NoDoc]
    /\ seen' = [seen EXCEPT ![r] = "absent"]
    /\ view' = [view EXCEPT ![r] = "none"]

Advance(r, stage) == Goto(r, stage) /\ UNCHANGED <<doc, seen, view>>

(* the committed rows of d were replaced or deleted by r *)
Outdate(d, r) ==
    view' = [s \in Requests |->
                IF s = r THEN "none"
                ELSE IF doc[s] = d /\ view[s] = "current" THEN "stale"
                ELSE view[s]]

----------------------------------------------------------------------------
(* Row locks *)

(* s deleted the committed chunk and unit rows of d and has not committed *)
HoldsRows(s, d) ==
    /\ doc[s] = d
    /\ view[s] = "current"
    /\ pc[s] \in {"p_clearing", "p_cleared", "p_indexed"}

(* s deleted the committed embeddings of d and has not committed *)
HoldsEmbeddings(s, d) ==
    /\ doc[s] = d
    /\ \/ pc[s] = "r_cleared" /\ view[s] = "current" /\ model \in embedded[d]
       \/ pc[s] \in {"p_cleared", "p_indexed"} /\ view[s] = "current"

(* s inserted unit rows of d: it holds their unique keys and, through the *)
(* foreign key, a share of the document row                                *)
HoldsUnits(s, d) == doc[s] = d /\ pc[s] = "p_indexed"

(* s is in the middle of DELETE FROM documents: it owns the document row *)
HoldsDocument(s, d) == doc[s] = d /\ pc[s] = "d_deleting"

(* the requests whose locks the next statement of r waits for *)
BlockedBy(r) ==
    {s \in Requests \ {r} : LET d == doc[r] IN
        \/ /\ pc[r] \in {"p_loaded", "p_failing"}     \* UPDATE documents
           /\ HoldsDocument(s, d)
        \/ /\ pc[r] = "p_parsed"                      \* DELETE chunks, units
           /\ HoldsRows(s, d) \/ HoldsDocument(s, d)
        \/ /\ pc[r] = "p_clearing"                    \* cascade to embeddings
           /\ view[r] = "current" /\ HoldsEmbeddings(s, d)
        \/ /\ pc[r] = "p_cleared"                     \* INSERT units
           /\ \/ HoldsUnits(s, d) \/ HoldsDocument(s, d)
              \/ HoldsRows(s, d) /\ view[r] # "current"
        \/ /\ pc[r] = "r_selected"                    \* DELETE embeddings
           /\ HoldsEmbeddings(s, d) \/ HoldsDocument(s, d)
        \/ /\ pc[r] = "r_cleared"                     \* INSERT embeddings
           /\ HoldsRows(s, d) \/ HoldsDocument(s, d)
        \/ /\ pc[r] = "d_loaded"                      \* DELETE documents
           /\ HoldsUnits(s, d) \/ HoldsDocument(s, d)
        \/ /\ pc[r] = "d_deleting"                    \* its cascade
           /\ HoldsRows(s, d) \/ HoldsEmbeddings(s, d)}

Free(r) == BlockedBy(r) = {}

----------------------------------------------------------------------------
(* POST /documents/upload *)

(* the temporary file is opened and written chunk by chunk *)
OpenUpload(r, d) ==
    /\ Unused(d)
    /\ Begin(r, d, "u_saving")
    /\ temp' = temp \cup {d}
    /\ UNCHANGED <<files, db, model>>

(* too large, empty or invalid: the temporary file is unlinked *)
RejectUpload(r) ==
    /\ pc[r] = "u_saving"
    /\ temp' = temp \ {doc[r]}
    /\ End(r)
    /\ UNCHANGED <<files, db, model>>

SaveUpload(r) ==
    /\ pc[r] = "u_saving"
    /\ Advance(r, "u_saved")
    /\ UNCHANGED <<disk, db, model>>

CheckDuplicate(r) ==
    /\ pc[r] = "u_saved"
    /\ \/ /\ Duplicate(doc[r])
          /\ temp' = temp \ {doc[r]}
          /\ End(r)
       \/ /\ ~Duplicate(doc[r])
          /\ Advance(r, "u_checked")
          /\ UNCHANGED temp
    /\ UNCHANGED <<files, db, model>>

FinalizeUpload(r) ==
    /\ pc[r] = "u_checked"
    /\ temp' = temp \ {doc[r]}
    /\ files' = files \cup {doc[r]}
    /\ Advance(r, "u_finalized")
    /\ UNCHANGED <<db, model>>

(* fault: the upload that loses the race keeps its stored file *)
CreateKeepsFile(r) ==
    /\ pc[r] = "u_finalized"
    /\ rec' = IF Duplicate(doc[r]) THEN rec ELSE [rec EXCEPT ![doc[r]] = "uploaded"]
    /\ End(r)
    /\ UNCHANGED <<disk, indexed, embedded, model>>

(* INSERT and COMMIT; the unique constraint decides between two uploads of *)
(* the same content that both passed CheckDuplicate                         *)
CreateDocument(r) ==
    /\ pc[r] = "u_finalized"
    /\ \/ /\ Duplicate(doc[r])
          /\ Advance(r, "u_discard")
          /\ UNCHANGED rec
       \/ /\ ~Duplicate(doc[r])
          /\ rec' = [rec EXCEPT ![doc[r]] = "uploaded"]
          /\ End(r)
    /\ UNCHANGED <<disk, indexed, embedded, model>>

(* the commit raises, or the refresh after a successful commit does: both *)
(* leave create_document as an exception, and the caller discards the file *)
CreateDocumentFault(r) ==
    /\ DbFaults
    /\ pc[r] = "u_finalized"
    /\ \/ UNCHANGED rec
       \/ ~Duplicate(doc[r]) /\ rec' = [rec EXCEPT ![doc[r]] = "uploaded"]
    /\ Advance(r, "u_discard")
    /\ UNCHANGED <<disk, indexed, embedded, model>>

DiscardStoredUpload(r) ==
    /\ pc[r] = "u_discard"
    /\ files' = files \ {doc[r]}
    /\ End(r)
    /\ UNCHANGED <<temp, db, model>>

----------------------------------------------------------------------------
(* POST /documents/{id}/process *)

(* the record is loaded and its status checked; 404 and 409 change nothing *)
LoadForProcessing(r, d) ==
    /\ rec[d] \in {"uploaded", "failed"}
    /\ Begin(r, d, "p_loaded")
    /\ UNCHANGED <<disk, db, model>>

(* UPDATE documents SET status = 'processing' WHERE id = ..., committed at *)
(* once; a row that is gone raises StaleDataError inside the try            *)
ClaimDocument(r) ==
    /\ pc[r] = "p_loaded"
    /\ Free(r)
    /\ \/ /\ ~Recorded(doc[r])
          /\ Advance(r, "p_failing")
          /\ UNCHANGED rec
       \/ /\ Recorded(doc[r])
          /\ rec' = [rec EXCEPT ![doc[r]] = "processing"]
          /\ Advance(r, "p_claimed")
    /\ UNCHANGED <<disk, indexed, embedded, model>>

(* refresh the record, resolve the stored file and parse it *)
ParseDocument(r) ==
    /\ pc[r] = "p_claimed"
    /\ LET ok == /\ Recorded(doc[r])
                 /\ doc[r] \in files
                 /\ ContentOf[doc[r]] \notin Unparsable
       IN  Goto(r, IF ok THEN "p_parsed" ELSE "p_failing")
    /\ seen' = [seen EXCEPT ![r] = rec[doc[r]]]
    /\ UNCHANGED <<disk, db, model, doc, view>>

(* fault: the old rows are deleted in a transaction of their own *)
ClearIndexCommits(r) ==
    /\ pc[r] = "p_parsed"
    /\ Free(r)
    /\ indexed' = indexed \ {doc[r]}
    /\ embedded' = [embedded EXCEPT ![doc[r]] = {}]
    /\ Goto(r, "p_clearing")
    /\ Outdate(doc[r], r)
    /\ UNCHANGED <<disk, rec, model, doc, seen>>

(* DELETE of the chunk and unit rows committed by an earlier run *)
ClearIndex(r) ==
    /\ pc[r] = "p_parsed"
    /\ Free(r)
    /\ Goto(r, "p_clearing")
    /\ view' = [view EXCEPT ![r] = IF doc[r] \in indexed THEN "current" ELSE "none"]
    /\ UNCHANGED <<disk, db, model, doc, seen>>

ClearEmbeddings(r) ==
    /\ pc[r] = "p_clearing"
    /\ Free(r)
    /\ Advance(r, "p_cleared")
    /\ UNCHANGED <<disk, db, model>>

(* the unit rows of this run: the foreign key needs the document, and the *)
(* unique index refuses rows committed by another run since the DELETE    *)
InsertUnits(r) ==
    /\ pc[r] = "p_cleared"
    /\ Free(r)
    /\ LET ok == /\ Recorded(doc[r])
                 /\ doc[r] \in indexed => view[r] = "current"
       IN  Advance(r, IF ok THEN "p_indexed" ELSE "p_failing")
    /\ UNCHANGED <<disk, db, model>>

(* fault: a failing provider is retried without a limit *)
EmbeddingRetries(r) ==
    /\ pc[r] = "p_indexed"
    /\ ContentOf[doc[r]] \notin Blank
    /\ Advance(r, "p_parsed")
    /\ UNCHANGED <<disk, db, model>>

(* the embedding provider fails; without text it is not called *)
EmbeddingFails(r) ==
    /\ pc[r] = "p_indexed"
    /\ ContentOf[doc[r]] \notin Blank
    /\ Advance(r, "p_failing")
    /\ UNCHANGED <<disk, db, model>>

(* the final commit; an attribute set to the value the session loaded is  *)
(* left out of the UPDATE, so a run that refreshed "ready" does not write *)
(* the status                                                             *)
CommitIndex(r) ==
    /\ pc[r] = "p_indexed"
    /\ LET d == doc[r] IN
        /\ rec' = IF seen[r] = "ready" THEN rec ELSE [rec EXCEPT ![d] = "ready"]
        /\ indexed' = indexed \cup {d}
        /\ embedded' = [embedded EXCEPT
                ![d] = IF ContentOf[d] \in Blank THEN {} ELSE {model}]
        /\ Outdate(d, r)
    /\ UNCHANGED <<disk, model>>

FinishProcessing(r) ==
    /\ CommitIndex(r)
    /\ Goto(r, "idle")
    /\ doc' = [doc EXCEPT ![r] = NoDoc]
    /\ seen' = [seen EXCEPT ![r] = "absent"]

(* the commit takes effect, but its answer is lost or the refresh after it *)
(* raises, inside the try: the run goes on to mark its complete index as   *)
(* failed                                                                  *)
FinishFault(r) ==
    /\ DbFaults
    /\ CommitIndex(r)
    /\ Goto(r, "p_failing")
    /\ UNCHANGED <<doc, seen>>

(* fault: the failure is answered but not recorded *)
FailureNotRecorded(r) == pc[r] = "p_failing" /\ End(r) /\ UNCHANGED <<disk, db, model>>

(* _mark_document_failed: roll back, load the record again, write "failed" *)
MarkFailed(r) ==
    /\ pc[r] = "p_failing"
    /\ Free(r)
    /\ rec' = IF Recorded(doc[r]) THEN [rec EXCEPT ![doc[r]] = "failed"] ELSE rec
    /\ End(r)
    /\ UNCHANGED <<disk, indexed, embedded, model>>

----------------------------------------------------------------------------
(* POST /documents/{id}/embeddings/rebuild *)

LoadForRebuild(r, d) ==
    /\ rec[d] = "ready"
    /\ Begin(r, d, "r_loaded")
    /\ UNCHANGED <<disk, db, model>>

(* the chunks are selected; without any the request is refused *)
SelectChunks(r) ==
    /\ pc[r] = "r_loaded"
    /\ \/ /\ doc[r] \in indexed
          /\ ContentOf[doc[r]] \notin Blank
          /\ Goto(r, "r_selected")
          /\ view' = [view EXCEPT ![r] = "current"]
          /\ UNCHANGED <<doc, seen>>
       \/ /\ doc[r] \notin indexed \/ ContentOf[doc[r]] \in Blank
          /\ End(r)
    /\ UNCHANGED <<disk, db, model>>

(* fault: the old vectors are deleted in a commit of their own *)
ClearForRebuildCommits(r) ==
    /\ pc[r] = "r_selected"
    /\ Free(r)
    /\ embedded' = [embedded EXCEPT ![doc[r]] = @ \ {model}]
    /\ Advance(r, "r_cleared")
    /\ UNCHANGED <<disk, rec, indexed, model>>

ClearForRebuild(r) ==
    /\ pc[r] = "r_selected"
    /\ Free(r)
    /\ Advance(r, "r_cleared")
    /\ UNCHANGED <<disk, db, model>>

(* the provider fails: the transaction is rolled back *)
RebuildFails(r) ==
    /\ pc[r] = "r_cleared"
    /\ End(r)
    /\ UNCHANGED <<disk, db, model>>

(* embeddings of chunks that are gone violate the foreign key *)
CommitRebuild(r) ==
    /\ pc[r] = "r_cleared"
    /\ Free(r)
    /\ embedded' = IF view[r] = "current"
                   THEN [embedded EXCEPT ![doc[r]] = @ \cup {model}]
                   ELSE embedded
    /\ End(r)
    /\ UNCHANGED <<disk, rec, indexed, model>>

----------------------------------------------------------------------------
(* DELETE /documents/{id} *)

LoadForDelete(r, d) ==
    /\ Recorded(d)
    /\ Begin(r, d, "d_loaded")
    /\ UNCHANGED <<disk, db, model>>

(* fault: the file is unlinked before the record is deleted *)
UnlinkFirst(r) ==
    /\ pc[r] = "d_loaded"
    /\ Free(r)
    /\ files' = files \ {doc[r]}
    /\ Advance(r, IF Recorded(doc[r]) THEN "d_deleting" ELSE "d_unlink")
    /\ UNCHANGED <<temp, db, model>>

(* a row another request deleted matches nothing, which is only a warning *)
DeleteDocument(r) ==
    /\ pc[r] = "d_loaded"
    /\ Free(r)
    /\ Advance(r, IF Recorded(doc[r]) THEN "d_deleting" ELSE "d_unlink")
    /\ UNCHANGED <<disk, db, model>>

(* ON DELETE CASCADE to units, chunks and embeddings, and the commit *)
CommitDelete(r) ==
    /\ pc[r] = "d_deleting"
    /\ Free(r)
    /\ rec' = [rec EXCEPT ![doc[r]] = "absent"]
    /\ indexed' = indexed \ {doc[r]}
    /\ embedded' = [embedded EXCEPT ![doc[r]] = {}]
    /\ Goto(r, "d_unlink")
    /\ Outdate(doc[r], r)
    /\ UNCHANGED <<disk, model, doc, seen>>

UnlinkFile(r) ==
    /\ pc[r] = "d_unlink"
    /\ files' = files \ {doc[r]}
    /\ End(r)
    /\ UNCHANGED <<temp, db, model>>

----------------------------------------------------------------------------
(* PostgreSQL aborts one of two transactions that wait for each other: a   *)
(* processing run records the failure, the other requests answer with 500 *)
AbortDeadlock(r) ==
    /\ \E s \in BlockedBy(r) : r \in BlockedBy(s)
    /\ IF pc[r] \in ProcessStages
       THEN /\ Goto(r, "p_failing")
            /\ view' = [view EXCEPT ![r] = "none"]
            /\ UNCHANGED <<doc, seen>>
       ELSE End(r)
    /\ UNCHANGED <<disk, db, model>>

(* A statement or a commit raises, a refresh does, or the answer of a      *)
(* commit that took effect is lost.  A run goes on to record the failure,  *)
(* unless recording it is what fails; nothing else is cleaned up: an       *)
(* upload leaves its temporary file at the lookup of duplicates, and a     *)
(* deletion the file of a record that may be gone by then.                 *)
DatabaseFails(r) ==
    /\ DbFaults
    /\ \/ /\ pc[r] \in ProcessStages \ {"p_failing"}
          /\ Advance(r, "p_failing")
       \/ /\ pc[r] \in {"u_saved", "p_failing"} \cup RebuildStages \cup DeleteStages
          /\ End(r)
    /\ UNCHANGED <<disk, db, model>>

(* the process that serves r dies; what it committed or moved stays *)
Crash(r) ==
    /\ CanCrash
    /\ pc[r] # "idle"
    /\ End(r)
    /\ UNCHANGED <<disk, db, model>>

(* the servers restart with another embedding model *)
Reconfigure ==
    /\ \A r \in Requests : pc[r] = "idle"
    /\ \E m \in Models \ {model} : model' = m
    /\ UNCHANGED <<disk, db, reqs>>

Begins(r) ==
    \E d \in Docs : \/ OpenUpload(r, d) \/ LoadForProcessing(r, d)
                    \/ LoadForRebuild(r, d) \/ LoadForDelete(r, d)

UploadStep(r) ==
    \/ RejectUpload(r) \/ SaveUpload(r) \/ CheckDuplicate(r)
    \/ FinalizeUpload(r) \/ CreateDocument(r) \/ CreateDocumentFault(r)
    \/ DiscardStoredUpload(r)

ProcessStep(r) ==
    \/ ClaimDocument(r) \/ ParseDocument(r) \/ ClearIndex(r)
    \/ ClearEmbeddings(r) \/ InsertUnits(r) \/ EmbeddingFails(r)
    \/ FinishProcessing(r) \/ FinishFault(r) \/ MarkFailed(r)

RebuildStep(r) ==
    \/ SelectChunks(r) \/ ClearForRebuild(r) \/ RebuildFails(r) \/ CommitRebuild(r)

DeleteStep(r) ==
    \/ DeleteDocument(r) \/ CommitDelete(r) \/ UnlinkFile(r)

Work(r) ==
    \/ UploadStep(r) \/ ProcessStep(r) \/ RebuildStep(r) \/ DeleteStep(r)
    \/ AbortDeadlock(r) \/ DatabaseFails(r)

Next ==
    \/ \E r \in Requests : Begins(r) \/ Work(r) \/ Crash(r)
    \/ Reconfigure

(* a thread runs its request to the end; a lock PostgreSQL hands out in   *)
(* order of arrival is not missed for ever                                *)
Fairness == \A r \in Requests : SF_vars(Work(r))

Spec == Init /\ [][Next]_vars
FairSpec == Spec /\ Fairness
----------------------------------------------------------------------------
(* Properties *)

(* Every record has its file (get content, and processing, find it): the   *)
(* file is in place before the record commits and is unlinked only after   *)
(* the record is gone, whatever requests interleave and wherever a server  *)
(* dies.  Holds when the database does not fail between a commit and the   *)
(* refresh that follows it (DbFaults = FALSE): such a fault makes the      *)
(* upload unlink the file of the record it has just committed.             *)
RecordHasFile == \A d \in Docs : Recorded(d) => d \in files

(* A document reported "ready" has committed units, and embeddings of all  *)
(* its chunks for some model, even while other runs of processing and      *)
(* rebuilding are under way, fail, or are cut off.                         *)
ReadyIsSearchable ==
    \A d \in Docs : rec[d] = "ready" =>
        /\ d \in indexed
        /\ ContentOf[d] \notin Blank => embedded[d] # {}

(* A document is "processing" only while some request still has to write   *)
(* its outcome: two runs of one document never leave it in that status,    *)
(* which refuses every later run.  Needs servers that do not die and a     *)
(* database that takes the outcome.                                        *)
ProcessingHasWorker ==
    \A d \in Docs : rec[d] = "processing" =>
        \E r \in Requests : doc[r] = d /\ pc[r] \in ProcessStages \ {"p_loaded"}

(* A user has one record per content, also when two uploads of it pass the *)
(* duplicate check together.                                               *)
OneRecordPerContent ==
    \A d, e \in Docs :
        Recorded(d) /\ Recorded(e) /\ ContentOf[d] = ContentOf[e] => d = e

(* When no request is open nothing is left over: no temporary file, no     *)
(* file without a record, no index rows without one.  Holds while servers  *)
(* do not die and the database does not fail: a failed lookup of           *)
(* duplicates leaves the temporary file, a failed answer to the commit of  *)
(* a deletion the stored one.                                              *)
NoResidueAtRest ==
    (\A r \in Requests : pc[r] = "idle") =>
        /\ temp = {}
        /\ \A d \in Docs : d \in files \/ d \in indexed => Recorded(d)

(* The index of a document is only ever replaced or extended in one commit *)
(* or deleted with its record: no reader meets a document whose index has  *)
(* vanished, or lost its embeddings, half way through a run or a rebuild.  *)
IndexStaysWhole ==
    [][\A d \in Docs : d \in indexed /\ Recorded(d)' =>
            /\ d \in indexed'
            /\ embedded[d] # {} => embedded'[d] # {}]_vars

(* What a search, the list of documents and a conversation's scope see of  *)
(* the rows is a catalog: whatever requests, crashes and faults interleave, *)
(* each commit changes one document as DocumentCatalog says, and no         *)
(* half-done run, rebuild or deletion is ever seen.                         *)
Catalog == INSTANCE DocumentCatalog WITH
    status   <- rec,
    models   <- embedded,
    Textless <- {d \in Docs : ContentOf[d] \in Blank}

KeepsCatalog == Catalog!Spec

(* Every request is answered: waiting for rows, two requests never block   *)
(* each other for ever.                                                    *)
RequestsFinish == \A r \in Requests : pc[r] # "idle" ~> pc[r] = "idle"

(* tests/test_upload_adversarial.py: a document whose processing failed    *)
(* has no units, "Processing must be atomic".                              *)
FailedHasNoIndex == \A d \in Docs : rec[d] = "failed" => d \notin indexed
=============================================================================
