---------------------- MODULE DocumentLifecycleProofs ----------------------
(***************************************************************************)
(* What holds of the document life cycle for any number of requests,       *)
(* documents, contents and embedding models.                               *)
(***************************************************************************)
EXTENDS DocumentLifecycle, TLAPS

(* The variables hold values of their types, and a request names a         *)
(* document exactly while it is open.                                      *)
THEOREM TypeCorrect == Spec => []TypeOK
<1>1. Init => TypeOK
  BY NoDocAssumption DEF Init, TypeOK, DocState, Status, Stages, Views
<1>2. TypeOK /\ [Next]_vars => TypeOK'
  <2> SUFFICES ASSUME TypeOK, [Next]_vars PROVE TypeOK'
    OBVIOUS
  <2> USE NoDocAssumption DEF TypeOK, DocState, Status, Views, Stages, UploadStages,
        ProcessStages, RebuildStages, DeleteStages, disk, db, reqs
  <2>1. ASSUME NEW r \in Requests, Begins(r) PROVE TypeOK'
    BY <2>1 DEF Begins, OpenUpload, LoadForProcessing, LoadForRebuild, LoadForDelete,
        Begin, Goto
  <2>2. ASSUME NEW r \in Requests, UploadStep(r) PROVE TypeOK'
    BY <2>2 DEF UploadStep, RejectUpload, SaveUpload, CheckDuplicate, FinalizeUpload,
        CreateDocument, CreateDocumentFault, DiscardStoredUpload, End, Advance, Goto
  <2>3. ASSUME NEW r \in Requests, ProcessStep(r) PROVE TypeOK'
    BY <2>3 DEF ProcessStep, ClaimDocument, ParseDocument, ClearIndex, ClearEmbeddings,
        InsertUnits, EmbeddingFails, CommitIndex, FinishProcessing, FinishFault, MarkFailed,
        End, Advance, Goto, Outdate
  <2>4. ASSUME NEW r \in Requests, RebuildStep(r) PROVE TypeOK'
    BY <2>4 DEF RebuildStep, SelectChunks, ClearForRebuild, RebuildFails, CommitRebuild,
        End, Advance, Goto
  <2>5. ASSUME NEW r \in Requests, DeleteStep(r) PROVE TypeOK'
    BY <2>5 DEF DeleteStep, DeleteDocument, CommitDelete, UnlinkFile, End, Advance, Goto,
        Outdate
  <2>6. ASSUME NEW r \in Requests, AbortDeadlock(r) \/ DatabaseFails(r) \/ Crash(r)
               PROVE  TypeOK'
    BY <2>6 DEF AbortDeadlock, DatabaseFails, Crash, Advance, End, Goto
  <2>7. CASE Reconfigure
    BY <2>7 DEF Reconfigure
  <2>8. CASE UNCHANGED vars
    BY <2>8 DEF vars
  <2> QED
    BY <2>1, <2>2, <2>3, <2>4, <2>5, <2>6, <2>7, <2>8 DEF Next, Work
<1> QED
  BY <1>1, <1>2, PTL DEF Spec

----------------------------------------------------------------------------
(* The facts behind the safety properties.  Until its INSERT an upload owns *)
(* its identity: nothing else names it, it has no record, and from the      *)
(* rename on it has its file.                                               *)
UploadsArePrivate ==
    \A r \in Requests : pc[r] \in UploadStages \ {"u_discard"} =>
        /\ ~Recorded(doc[r])
        /\ pc[r] = "u_finalized" => doc[r] \in files
        /\ \A s \in Requests \ {r} : doc[s] # doc[r]

(* The row locks work: at most one request is deleting a document, its     *)
(* record is still there, and no run has inserted units meanwhile.  The    *)
(* file is unlinked only once the record is gone.                          *)
DeletesAreExclusive ==
    \A r \in Requests :
        /\ pc[r] = "d_deleting" =>
                /\ Recorded(doc[r])
                /\ \A s \in Requests \ {r} :
                        doc[s] = doc[r] => pc[s] \notin {"d_deleting", "p_indexed"}
        /\ pc[r] = "p_indexed" => Recorded(doc[r])
        /\ pc[r] = "d_unlink" => ~Recorded(doc[r])

Ownership == UploadsArePrivate /\ DeletesAreExclusive

(* Ownership holds under every fault.                                      *)
LEMMA OwnershipHolds == Spec => []Ownership
<1>1. Init => Ownership
  BY DEF Init, Ownership, UploadsArePrivate, DeletesAreExclusive, UploadStages
<1>2. TypeOK /\ Ownership /\ [Next]_vars => Ownership'
  <2> SUFFICES ASSUME TypeOK, Ownership, [Next]_vars PROVE Ownership'
    OBVIOUS
  <2> USE NoDocAssumption DEF TypeOK, UploadStages, ProcessStages, Ownership,
        UploadsArePrivate, DeletesAreExclusive, Recorded
  <2>1. ASSUME NEW r \in Requests, Begins(r) PROVE Ownership'
    BY <2>1 DEF Begins, OpenUpload, LoadForProcessing, LoadForRebuild, LoadForDelete,
        Begin, Goto, Unused, disk, db
  <2>2. ASSUME NEW r \in Requests, UploadStep(r) PROVE Ownership'
    BY <2>2 DEF UploadStep, RejectUpload, SaveUpload, CheckDuplicate, FinalizeUpload,
        CreateDocument, CreateDocumentFault, DiscardStoredUpload, Duplicate, End, Advance,
        Goto, disk, db
  <2>3. ASSUME NEW r \in Requests, ProcessStep(r) PROVE Ownership'
    BY <2>3 DEF ProcessStep, ClaimDocument, ParseDocument, ClearIndex, ClearEmbeddings,
        InsertUnits, EmbeddingFails, CommitIndex, FinishProcessing, FinishFault, MarkFailed,
        Free, BlockedBy, HoldsDocument, Outdate, End, Advance, Goto, disk, db
  <2>4. ASSUME NEW r \in Requests, RebuildStep(r) PROVE Ownership'
    BY <2>4 DEF RebuildStep, SelectChunks, ClearForRebuild, RebuildFails, CommitRebuild,
        End, Advance, Goto, disk, db
  <2>5. ASSUME NEW r \in Requests, DeleteStep(r) PROVE Ownership'
    BY <2>5 DEF DeleteStep, DeleteDocument, CommitDelete, UnlinkFile, Free, BlockedBy,
        HoldsDocument, HoldsUnits, Outdate, End, Advance, Goto, disk, db
  <2>6. ASSUME NEW r \in Requests, AbortDeadlock(r) \/ DatabaseFails(r) \/ Crash(r)
               PROVE  Ownership'
    BY <2>6 DEF AbortDeadlock, DatabaseFails, Crash, Advance, End, Goto, disk, db
  <2>7. CASE Reconfigure
    BY <2>7 DEF Reconfigure, disk, db, reqs
  <2>8. CASE UNCHANGED vars
    BY <2>8 DEF vars
  <2> QED
    BY <2>1, <2>2, <2>3, <2>4, <2>5, <2>6, <2>7, <2>8 DEF Next, Work
<1> QED
  BY <1>1, <1>2, TypeCorrect, PTL DEF Spec

----------------------------------------------------------------------------
(* A refused upload discards a file that no record names: the identity is  *)
(* still its own.  A database fault after the commit would break this.     *)
DiscardsArePrivate ==
    \A r \in Requests : pc[r] = "u_discard" =>
        /\ ~Recorded(doc[r])
        /\ \A s \in Requests \ {r} : doc[s] # doc[r]

StorageInv == DiscardsArePrivate /\ RecordHasFile

(* Every record has its file, for any interleaving of requests and any     *)
(* crashes, as long as the database does not fail around a commit: the     *)
(* upload's rename precedes its INSERT, the unlink follows the DELETE, and *)
(* the identity is the request's own until the INSERT commits.             *)
THEOREM RecordedFilesExist ==
    ASSUME ~DbFaults PROVE Spec => []RecordHasFile
<1>1. Init => StorageInv
  BY DEF Init, StorageInv, DiscardsArePrivate, RecordHasFile, Recorded
<1>2. TypeOK /\ Ownership /\ StorageInv /\ [Next]_vars => StorageInv'
  <2> SUFFICES ASSUME TypeOK, Ownership, StorageInv, [Next]_vars PROVE StorageInv'
    OBVIOUS
  <2> USE NoDocAssumption DEF TypeOK, UploadStages, ProcessStages, Ownership,
        UploadsArePrivate, DeletesAreExclusive, StorageInv, DiscardsArePrivate,
        RecordHasFile, Recorded
  <2>1. ASSUME NEW r \in Requests, Begins(r) PROVE StorageInv'
    BY <2>1 DEF Begins, OpenUpload, LoadForProcessing, LoadForRebuild, LoadForDelete,
        Begin, Goto, Unused, disk, db
  <2>2. ASSUME NEW r \in Requests, UploadStep(r) PROVE StorageInv'
    BY <2>2 DEF UploadStep, RejectUpload, SaveUpload, CheckDuplicate, FinalizeUpload,
        CreateDocument, CreateDocumentFault, DiscardStoredUpload, Duplicate, End, Advance,
        Goto, disk, db
  <2>3. ASSUME NEW r \in Requests, ProcessStep(r) PROVE StorageInv'
    BY <2>3 DEF ProcessStep, ClaimDocument, ParseDocument, ClearIndex, ClearEmbeddings,
        InsertUnits, EmbeddingFails, CommitIndex, FinishProcessing, FinishFault, MarkFailed,
        Free, BlockedBy, HoldsDocument, Outdate, End, Advance, Goto, disk, db
  <2>4. ASSUME NEW r \in Requests, RebuildStep(r) PROVE StorageInv'
    BY <2>4 DEF RebuildStep, SelectChunks, ClearForRebuild, RebuildFails, CommitRebuild,
        End, Advance, Goto, disk, db
  <2>5. ASSUME NEW r \in Requests, DeleteStep(r) PROVE StorageInv'
    BY <2>5 DEF DeleteStep, DeleteDocument, CommitDelete, UnlinkFile, Free, BlockedBy,
        HoldsDocument, HoldsUnits, Outdate, End, Advance, Goto, disk, db
  <2>6. ASSUME NEW r \in Requests, AbortDeadlock(r) \/ DatabaseFails(r) \/ Crash(r)
               PROVE  StorageInv'
    BY <2>6 DEF AbortDeadlock, DatabaseFails, Crash, Advance, End, Goto, disk, db
  <2>7. CASE Reconfigure
    BY <2>7 DEF Reconfigure, disk, db, reqs
  <2>8. CASE UNCHANGED vars
    BY <2>8 DEF vars
  <2> QED
    BY <2>1, <2>2, <2>3, <2>4, <2>5, <2>6, <2>7, <2>8 DEF Next, Work
<1> QED
  BY <1>1, <1>2, TypeCorrect, OwnershipHolds, PTL DEF Spec, StorageInv

----------------------------------------------------------------------------
(* Whatever is stored without a record has a request that will remove it,  *)
(* or record it: a temporary file its upload, a file an upload on its way  *)
(* or a deletion.  Index rows never are without one.                       *)
ResidueIsOwned ==
    /\ \A d \in temp : \E r \in Requests :
        doc[r] = d /\ pc[r] \in {"u_saving", "u_saved", "u_checked"}
    /\ \A d \in files : Recorded(d) \/ \E r \in Requests :
        doc[r] = d /\ pc[r] \in {"u_finalized", "u_discard", "d_unlink"}
    /\ \A d \in indexed : Recorded(d)

(* No request leaves anything behind, whatever order uploads, runs and     *)
(* deletions take, as long as servers do not die and the database does not *)
(* fail.  (The last part of ResidueIsOwned needs neither: RowsAreThere.)   *)
THEOREM NothingIsLeftAtRest ==
    ASSUME ~CanCrash, ~DbFaults PROVE Spec => []NoResidueAtRest
<1>1. Init => ResidueIsOwned
  BY DEF Init, ResidueIsOwned
<1>2. TypeOK /\ Ownership /\ ResidueIsOwned /\ [Next]_vars => ResidueIsOwned'
  <2> SUFFICES ASSUME TypeOK, Ownership, ResidueIsOwned, [Next]_vars PROVE ResidueIsOwned'
    OBVIOUS
  <2> USE NoDocAssumption DEF TypeOK, UploadStages, ProcessStages, Ownership,
        DeletesAreExclusive, ResidueIsOwned, Recorded
  <2>1. ASSUME NEW r \in Requests, Begins(r) PROVE ResidueIsOwned'
    BY <2>1 DEF Begins, OpenUpload, LoadForProcessing, LoadForRebuild, LoadForDelete,
        Begin, Goto, Unused, disk, db
  <2>2. ASSUME NEW r \in Requests, UploadStep(r) PROVE ResidueIsOwned'
    BY <2>2 DEF UploadStep, RejectUpload, SaveUpload, CheckDuplicate, FinalizeUpload,
        CreateDocument, CreateDocumentFault, DiscardStoredUpload, End, Advance,
        Goto, disk, db
  <2>3. ASSUME NEW r \in Requests, ProcessStep(r) PROVE ResidueIsOwned'
    BY <2>3 DEF ProcessStep, ClaimDocument, ParseDocument, ClearIndex, ClearEmbeddings,
        InsertUnits, EmbeddingFails, CommitIndex, FinishProcessing, FinishFault, MarkFailed,
        Outdate, End, Advance, Goto, disk, db
  <2>4. ASSUME NEW r \in Requests, RebuildStep(r) PROVE ResidueIsOwned'
    BY <2>4 DEF RebuildStep, SelectChunks, ClearForRebuild, RebuildFails, CommitRebuild,
        End, Advance, Goto, disk, db
  <2>5. ASSUME NEW r \in Requests, DeleteStep(r) PROVE ResidueIsOwned'
    BY <2>5 DEF DeleteStep, DeleteDocument, CommitDelete, UnlinkFile, Outdate, End,
        Advance, Goto, disk, db
  <2>6. ASSUME NEW r \in Requests, AbortDeadlock(r) \/ DatabaseFails(r) \/ Crash(r)
               PROVE  ResidueIsOwned'
    BY <2>6 DEF AbortDeadlock, DatabaseFails, Crash, Advance, BlockedBy, End, Goto, disk, db
  <2>7. CASE Reconfigure
    BY <2>7 DEF Reconfigure, disk, db, reqs
  <2>8. CASE UNCHANGED vars
    BY <2>8 DEF vars
  <2> QED
    BY <2>1, <2>2, <2>3, <2>4, <2>5, <2>6, <2>7, <2>8 DEF Next, Work
<1>3. TypeOK /\ ResidueIsOwned => NoResidueAtRest
  BY DEF TypeOK, ResidueIsOwned, NoResidueAtRest
<1> QED
  BY <1>1, <1>2, <1>3, TypeCorrect, OwnershipHolds, PTL DEF Spec

----------------------------------------------------------------------------
(* One record per content, however many uploads of it pass the duplicate   *)
(* check together: the INSERT decides.                                     *)
THEOREM ContentsAreUnique == Spec => []OneRecordPerContent
<1>1. Init => OneRecordPerContent
  BY DEF Init, OneRecordPerContent, Recorded
<1>2. TypeOK /\ Ownership /\ OneRecordPerContent /\ [Next]_vars => OneRecordPerContent'
  <2> SUFFICES ASSUME TypeOK, Ownership, OneRecordPerContent, [Next]_vars PROVE OneRecordPerContent'
    OBVIOUS
  <2> USE NoDocAssumption DEF TypeOK, ProcessStages, Ownership,
        DeletesAreExclusive, OneRecordPerContent, Recorded
  <2>1. ASSUME NEW r \in Requests, Begins(r) PROVE OneRecordPerContent'
    BY <2>1 DEF Begins, OpenUpload, LoadForProcessing, LoadForRebuild, LoadForDelete,
        Begin, Goto, Unused, disk, db
  <2>2. ASSUME NEW r \in Requests, UploadStep(r) PROVE OneRecordPerContent'
    BY <2>2 DEF UploadStep, RejectUpload, SaveUpload, CheckDuplicate, FinalizeUpload,
        CreateDocument, CreateDocumentFault, DiscardStoredUpload, Duplicate, End, Advance,
        Goto, disk, db
  <2>3. ASSUME NEW r \in Requests, ProcessStep(r) PROVE OneRecordPerContent'
    BY <2>3 DEF ProcessStep, ClaimDocument, ParseDocument, ClearIndex, ClearEmbeddings,
        InsertUnits, EmbeddingFails, CommitIndex, FinishProcessing, FinishFault, MarkFailed,
        Free, BlockedBy, HoldsDocument, Outdate, End, Advance, Goto, disk, db
  <2>4. ASSUME NEW r \in Requests, RebuildStep(r) PROVE OneRecordPerContent'
    BY <2>4 DEF RebuildStep, SelectChunks, ClearForRebuild, RebuildFails, CommitRebuild,
        End, Advance, Goto, disk, db
  <2>5. ASSUME NEW r \in Requests, DeleteStep(r) PROVE OneRecordPerContent'
    BY <2>5 DEF DeleteStep, DeleteDocument, CommitDelete, UnlinkFile, Free, BlockedBy,
        HoldsDocument, HoldsUnits, Outdate, End, Advance, Goto, disk, db
  <2>6. ASSUME NEW r \in Requests, AbortDeadlock(r) \/ DatabaseFails(r) \/ Crash(r)
               PROVE  OneRecordPerContent'
    BY <2>6 DEF AbortDeadlock, DatabaseFails, Crash, Advance, End, Goto, disk, db
  <2>7. CASE Reconfigure
    BY <2>7 DEF Reconfigure, disk, db, reqs
  <2>8. CASE UNCHANGED vars
    BY <2>8 DEF vars
  <2> QED
    BY <2>1, <2>2, <2>3, <2>4, <2>5, <2>6, <2>7, <2>8 DEF Next, Work
<1> QED
  BY <1>1, <1>2, TypeCorrect, OwnershipHolds, PTL DEF Spec

----------------------------------------------------------------------------
(* The request that will write the outcome: it has not refreshed yet, or   *)
(* it refreshed another status than "ready", or it is about to write       *)
(* "failed".  ProcessingHasWorker alone is not inductive: a run that       *)
(* refreshed "ready" leaves the status as it is.                           *)
HasWriter(d) ==
    \E r \in Requests :
        /\ doc[r] = d
        /\ \/ pc[r] \in {"p_claimed", "p_failing"}
           \/ /\ pc[r] \in {"p_parsed", "p_clearing", "p_cleared", "p_indexed"}
              /\ seen[r] # "ready"

ProcessingHasWriter == \A d \in Docs : rec[d] = "processing" => HasWriter(d)

(* Without crashes and database faults a document is "processing" only     *)
(* while a request still has to write its outcome, for any number of       *)
(* concurrent runs of it.                                                  *)
THEOREM ProcessingIsOwned ==
    ASSUME ~DbFaults, ~CanCrash PROVE Spec => []ProcessingHasWorker
<1>1. Init => ProcessingHasWriter
  BY DEF Init, ProcessingHasWriter
<1>2. TypeOK /\ Ownership /\ ProcessingHasWriter /\ [Next]_vars => ProcessingHasWriter'
  <2> SUFFICES ASSUME TypeOK, Ownership, ProcessingHasWriter, [Next]_vars PROVE ProcessingHasWriter'
    OBVIOUS
  <2> USE NoDocAssumption DEF TypeOK, ProcessStages, Ownership,
        UploadsArePrivate, UploadStages, ProcessingHasWriter, HasWriter, Recorded
  <2>1. ASSUME NEW r \in Requests, Begins(r) PROVE ProcessingHasWriter'
    BY <2>1 DEF Begins, OpenUpload, LoadForProcessing, LoadForRebuild, LoadForDelete,
        Begin, Goto, Unused, disk, db
  <2>2. ASSUME NEW r \in Requests, UploadStep(r) PROVE ProcessingHasWriter'
    BY <2>2 DEF UploadStep, RejectUpload, SaveUpload, CheckDuplicate, FinalizeUpload,
        CreateDocument, CreateDocumentFault, DiscardStoredUpload, Duplicate, End, Advance,
        Goto, disk, db
  <2>3. ASSUME NEW r \in Requests, ProcessStep(r) PROVE ProcessingHasWriter'
    BY <2>3 DEF ProcessStep, ClaimDocument, ParseDocument, ClearIndex, ClearEmbeddings,
        InsertUnits, EmbeddingFails, CommitIndex, FinishProcessing, FinishFault, MarkFailed,
        Free, BlockedBy, HoldsDocument, Outdate, End, Advance, Goto, disk, db
  <2>4. ASSUME NEW r \in Requests, RebuildStep(r) PROVE ProcessingHasWriter'
    BY <2>4 DEF RebuildStep, SelectChunks, ClearForRebuild, RebuildFails, CommitRebuild,
        End, Advance, Goto, disk, db
  <2>5. ASSUME NEW r \in Requests, DeleteStep(r) PROVE ProcessingHasWriter'
    BY <2>5 DEF DeleteStep, DeleteDocument, CommitDelete, UnlinkFile, Free, BlockedBy,
        HoldsDocument, HoldsUnits, Outdate, End, Advance, Goto, disk, db
  <2>6. ASSUME NEW r \in Requests, AbortDeadlock(r) \/ DatabaseFails(r) \/ Crash(r)
               PROVE  ProcessingHasWriter'
    BY <2>6 DEF AbortDeadlock, DatabaseFails, Crash, Advance, End, Goto, disk, db
  <2>7. CASE Reconfigure
    BY <2>7 DEF Reconfigure, disk, db, reqs
  <2>8. CASE UNCHANGED vars
    BY <2>8 DEF vars
  <2> QED
    BY <2>1, <2>2, <2>3, <2>4, <2>5, <2>6, <2>7, <2>8 DEF Next, Work
<1>3. ProcessingHasWriter => ProcessingHasWorker
  BY DEF ProcessingHasWriter, HasWriter, ProcessingHasWorker, ProcessStages
<1> QED
  BY <1>1, <1>2, <1>3, TypeCorrect, OwnershipHolds, PTL DEF Spec

----------------------------------------------------------------------------
(* Documents without text never get embeddings, not by a rebuild either.   *)
BlankHasNoEmbeddings ==
    /\ \A d \in Docs : ContentOf[d] \in Blank => embedded[d] = {}
    /\ \A r \in Requests :
            pc[r] \in {"r_selected", "r_cleared"} => ContentOf[doc[r]] \notin Blank

IndexInv == BlankHasNoEmbeddings /\ ReadyIsSearchable

LEMMA IndexInvHolds == Spec => []IndexInv
<1>1. Init => IndexInv
  BY DEF Init, IndexInv, BlankHasNoEmbeddings, ReadyIsSearchable
<1>2. TypeOK /\ IndexInv /\ [Next]_vars => IndexInv'
  <2> SUFFICES ASSUME TypeOK, IndexInv, [Next]_vars PROVE IndexInv'
    OBVIOUS
  <2> USE NoDocAssumption DEF TypeOK, ProcessStages, IndexInv, BlankHasNoEmbeddings,
        ReadyIsSearchable, Recorded
  <2>1. ASSUME NEW r \in Requests, Begins(r) PROVE IndexInv'
    BY <2>1 DEF Begins, OpenUpload, LoadForProcessing, LoadForRebuild, LoadForDelete,
        Begin, Goto, Unused, disk, db
  <2>2. ASSUME NEW r \in Requests, UploadStep(r) PROVE IndexInv'
    BY <2>2 DEF UploadStep, RejectUpload, SaveUpload, CheckDuplicate, FinalizeUpload,
        CreateDocument, CreateDocumentFault, DiscardStoredUpload, Duplicate, End, Advance,
        Goto, disk, db
  <2>3. ASSUME NEW r \in Requests, ProcessStep(r) PROVE IndexInv'
    <3>1. CASE FinishProcessing(r) \/ FinishFault(r)
      <4>1. doc[r] \in Docs /\ {model} # {} /\ CommitIndex(r)
        BY <3>1 DEF CommitIndex, FinishProcessing, FinishFault
      <4>2. BlankHasNoEmbeddings'
        BY <3>1, <4>1 DEF CommitIndex, FinishProcessing, FinishFault, Goto
      <4>3. /\ rec' = rec \/ rec' = [rec EXCEPT ![doc[r]] = "ready"]
            /\ indexed' = indexed \cup {doc[r]}
            /\ embedded' = [embedded EXCEPT
                  ![doc[r]] = IF ContentOf[doc[r]] \in Blank THEN {} ELSE {model}]
        BY <4>1 DEF CommitIndex
      <4>4. ASSUME NEW d \in Docs, rec'[d] = "ready"
            PROVE  d \in indexed' /\ (ContentOf[d] \notin Blank => embedded'[d] # {})
        <5>1. CASE d = doc[r]
          BY <4>1, <4>3, <5>1
        <5>2. CASE d # doc[r]
          BY <4>1, <4>3, <4>4, <5>2
        <5> QED
          BY <5>1, <5>2
      <4> QED
        BY <4>2, <4>4
    <3>2. ASSUME ~FinishProcessing(r), ~FinishFault(r) PROVE IndexInv'
      BY <2>3, <3>2 DEF ProcessStep, ClaimDocument, ParseDocument, ClearIndex,
        ClearEmbeddings, InsertUnits, EmbeddingFails, MarkFailed,
        End, Advance, Goto, disk, db
    <3> QED
      BY <3>1, <3>2
  <2>4. ASSUME NEW r \in Requests, RebuildStep(r) PROVE IndexInv'
    BY <2>4 DEF RebuildStep, SelectChunks, ClearForRebuild, RebuildFails, CommitRebuild,
        End, Advance, Goto, disk, db
  <2>5. ASSUME NEW r \in Requests, DeleteStep(r) PROVE IndexInv'
    BY <2>5 DEF DeleteStep, DeleteDocument, CommitDelete, UnlinkFile, Free, BlockedBy,
        HoldsDocument, HoldsUnits, Outdate, End, Advance, Goto, disk, db
  <2>6. ASSUME NEW r \in Requests, AbortDeadlock(r) \/ DatabaseFails(r) \/ Crash(r)
               PROVE  IndexInv'
    BY <2>6 DEF AbortDeadlock, DatabaseFails, Crash, Advance, End, Goto, disk, db
  <2>7. CASE Reconfigure
    BY <2>7 DEF Reconfigure, disk, db, reqs
  <2>8. CASE UNCHANGED vars
    BY <2>8 DEF vars
  <2> QED
    BY <2>1, <2>2, <2>3, <2>4, <2>5, <2>6, <2>7, <2>8 DEF Next, Work
<1> QED
  BY <1>1, <1>2, TypeCorrect, PTL DEF Spec

(* A ready document can be searched, whatever runs and rebuilds of it are  *)
(* open, fail or are cut off: units, embeddings and status commit together *)
(* and later transactions replace them in one commit.                      *)
THEOREM ReadyDocumentsAreSearchable == Spec => []ReadyIsSearchable
BY IndexInvHolds, PTL DEF IndexInv

(* No step takes the index away from a document that keeps its record.     *)
THEOREM IndexesStayWhole == Spec => IndexStaysWhole
<1> DEFINE Whole == \A d \in Docs : d \in indexed /\ Recorded(d)' =>
                        /\ d \in indexed'
                        /\ embedded[d] # {} => embedded'[d] # {}
<1>1. TypeOK /\ IndexInv /\ [Next]_vars => [Whole]_vars
  <2> SUFFICES ASSUME TypeOK, IndexInv, Next PROVE Whole
    OBVIOUS
  <2> USE NoDocAssumption DEF TypeOK, ProcessStages, IndexInv, BlankHasNoEmbeddings, Recorded
  <2>1. ASSUME NEW r \in Requests, Begins(r) PROVE Whole
    BY <2>1 DEF Begins, OpenUpload, LoadForProcessing, LoadForRebuild, LoadForDelete,
        Begin, Goto, Unused, disk, db
  <2>2. ASSUME NEW r \in Requests, UploadStep(r) PROVE Whole
    BY <2>2 DEF UploadStep, RejectUpload, SaveUpload, CheckDuplicate, FinalizeUpload,
        CreateDocument, CreateDocumentFault, DiscardStoredUpload, Duplicate, End, Advance,
        Goto, disk, db
  <2>3. ASSUME NEW r \in Requests, ProcessStep(r) PROVE Whole
    BY <2>3 DEF ProcessStep, ClaimDocument, ParseDocument, ClearIndex, ClearEmbeddings,
        InsertUnits, EmbeddingFails, CommitIndex, FinishProcessing, FinishFault, MarkFailed,
        Free, BlockedBy, HoldsDocument, Outdate, End, Advance, Goto, disk, db
  <2>4. ASSUME NEW r \in Requests, RebuildStep(r) PROVE Whole
    BY <2>4 DEF RebuildStep, SelectChunks, ClearForRebuild, RebuildFails, CommitRebuild,
        End, Advance, Goto, disk, db
  <2>5. ASSUME NEW r \in Requests, DeleteStep(r) PROVE Whole
    BY <2>5 DEF DeleteStep, DeleteDocument, CommitDelete, UnlinkFile, Free, BlockedBy,
        HoldsDocument, HoldsUnits, Outdate, End, Advance, Goto, disk, db
  <2>6. ASSUME NEW r \in Requests, AbortDeadlock(r) \/ DatabaseFails(r) \/ Crash(r)
               PROVE  Whole
    BY <2>6 DEF AbortDeadlock, DatabaseFails, Crash, Advance, End, Goto, disk, db
  <2>7. CASE Reconfigure
    BY <2>7 DEF Reconfigure, disk, db, reqs
  <2> QED
    BY <2>1, <2>2, <2>3, <2>4, <2>5, <2>6, <2>7 DEF Next, Work
<1> QED
  BY <1>1, TypeCorrect, IndexInvHolds, PTL DEF Spec, IndexStaysWhole

----------------------------------------------------------------------------
(* A status moves on from "uploaded" with the first claim: a request that   *)
(* has claimed its document finds another status, or no document.  One that *)
(* has only to write "failed" may have failed to claim it.                  *)
ClaimsAreFirst ==
    /\ \A d \in Docs : rec[d] # "queued"
    /\ \A r \in Requests :
            pc[r] \in ProcessStages \ {"p_loaded", "p_failing"} => rec[doc[r]] # "uploaded"

(* Rows of an index belong to a record, and rows a request has read and     *)
(* nobody replaced are there.                                               *)
RowsAreThere ==
    /\ \A d \in Docs : ~Recorded(d) => d \notin indexed /\ embedded[d] = {}
    /\ \A r \in Requests :
            /\ view[r] = "current" => pc[r] # "idle" /\ doc[r] \in indexed
            /\ pc[r] \in {"r_selected", "r_cleared"} => ContentOf[doc[r]] \notin Blank

(* A run that has loaded "ready" was overtaken by one that completed the    *)
(* index; unless the document was deleted since, the index is still there.  *)
OvertakenByIndex ==
    \A r \in Requests :
        pc[r] \in ProcessStages /\ seen[r] = "ready" /\ Recorded(doc[r]) => doc[r] \in indexed

CatalogInv == ClaimsAreFirst /\ RowsAreThere /\ OvertakenByIndex

LEMMA CatalogInvHolds == Spec => []CatalogInv
<1>1. Init => CatalogInv
  BY DEF Init, CatalogInv, ClaimsAreFirst, RowsAreThere,
        OvertakenByIndex, ProcessStages, Recorded
<1>2. TypeOK /\ Ownership /\ ReadyIsSearchable /\ CatalogInv /\ [Next]_vars => CatalogInv'
  <2> SUFFICES ASSUME TypeOK, Ownership, ReadyIsSearchable, CatalogInv, [Next]_vars
               PROVE  CatalogInv'
    OBVIOUS
  <2> USE NoDocAssumption DEF TypeOK, UploadStages, ProcessStages, Ownership,
        UploadsArePrivate, DeletesAreExclusive, CatalogInv, ClaimsAreFirst, RowsAreThere,
        OvertakenByIndex, ReadyIsSearchable, Recorded
  <2>1. ASSUME NEW r \in Requests, Begins(r) PROVE CatalogInv'
    BY <2>1 DEF Begins, OpenUpload, LoadForProcessing, LoadForRebuild, LoadForDelete,
        Begin, Goto, Unused, disk, db
  <2>2. ASSUME NEW r \in Requests, UploadStep(r) PROVE CatalogInv'
    BY <2>2 DEF UploadStep, RejectUpload, SaveUpload, CheckDuplicate, FinalizeUpload,
        CreateDocument, CreateDocumentFault, DiscardStoredUpload, Duplicate, End, Advance,
        Goto, disk, db
  <2>3. ASSUME NEW r \in Requests, ProcessStep(r) PROVE CatalogInv'
    BY <2>3 DEF ProcessStep, ClaimDocument, ParseDocument, ClearIndex, ClearEmbeddings,
        InsertUnits, EmbeddingFails, CommitIndex, FinishProcessing, FinishFault, MarkFailed,
        Outdate, End, Advance, Goto, disk, db
  <2>4. ASSUME NEW r \in Requests, RebuildStep(r) PROVE CatalogInv'
    BY <2>4 DEF RebuildStep, SelectChunks, ClearForRebuild, RebuildFails, CommitRebuild,
        End, Advance, Goto, disk, db
  <2>5. ASSUME NEW r \in Requests, DeleteStep(r) PROVE CatalogInv'
    BY <2>5 DEF DeleteStep, DeleteDocument, CommitDelete, UnlinkFile, Outdate, End,
        Advance, Goto, disk, db
  <2>6. ASSUME NEW r \in Requests, AbortDeadlock(r) \/ DatabaseFails(r) \/ Crash(r)
               PROVE  CatalogInv'
    BY <2>6 DEF AbortDeadlock, DatabaseFails, Crash, Advance, BlockedBy, HoldsRows,
        HoldsEmbeddings, HoldsUnits, HoldsDocument, End, Goto, disk, db
  <2>7. CASE Reconfigure
    BY <2>7 DEF Reconfigure, disk, db, reqs
  <2>8. CASE UNCHANGED vars
    BY <2>8 DEF vars
  <2> QED
    BY <2>1, <2>2, <2>3, <2>4, <2>5, <2>6, <2>7, <2>8 DEF Next, Work
<1> QED
  BY <1>1, <1>2, TypeCorrect, OwnershipHolds, ReadyDocumentsAreSearchable, PTL DEF Spec

(* The document life cycle implements the catalog that searches and lists   *)
(* of documents rely on, under every fault and crash: an index appears and  *)
(* is replaced as a whole, only rebuilds add to it, it goes with its record *)
(* and a document becomes ready in the commit that completes its index.     *)
THEOREM LifecycleKeepsCatalog == Spec => KeepsCatalog
<1>1. Init => Catalog!Init
  BY DEF Init, Catalog!Init
<1>2. TypeOK /\ Ownership /\ CatalogInv /\ [Next]_vars => [Catalog!Next]_(Catalog!vars)
  <2> SUFFICES ASSUME TypeOK, Ownership, CatalogInv, [Next]_vars
               PROVE  Catalog!Next \/ UNCHANGED db
    BY DEF Catalog!vars, db
  <2>1. ASSUME NEW r \in Requests, Begins(r) PROVE UNCHANGED db
    BY <2>1 DEF Begins, OpenUpload, LoadForProcessing, LoadForRebuild, LoadForDelete
  <2>2. ASSUME NEW r \in Requests, UploadStep(r) PROVE Catalog!Next \/ UNCHANGED db
    <3>1. CASE /\ pc[r] = "u_finalized" /\ ~Duplicate(doc[r])
               /\ rec' = [rec EXCEPT ![doc[r]] = "uploaded"]
               /\ UNCHANGED <<indexed, embedded>>
      <4>1. PICK d \in Docs : d = doc[r] /\ d \notin indexed
        BY <3>1, NoDocAssumption
           DEF TypeOK, Ownership, UploadsArePrivate, UploadStages, CatalogInv, RowsAreThere
      <4>2. \A e \in Docs : Catalog!Listed(e) => ContentOf[e] # ContentOf[d]
        BY <3>1, <4>1 DEF Catalog!Listed, Duplicate, Recorded
      <4> QED
        BY <3>1, <4>1, <4>2 DEF Catalog!Next, Catalog!Upload, Catalog!Becomes
    <3> QED
      BY <2>2, <3>1 DEF UploadStep, RejectUpload, SaveUpload, CheckDuplicate,
          FinalizeUpload, CreateDocument, CreateDocumentFault, DiscardStoredUpload, db
  <2>3. ASSUME NEW r \in Requests, ProcessStep(r) PROVE Catalog!Next \/ UNCHANGED db
    <3>1. PICK d \in Docs : d = doc[r]
      BY <2>3, NoDocAssumption DEF TypeOK, ProcessStep, ClaimDocument, ParseDocument,
          ClearIndex, ClearEmbeddings, InsertUnits, EmbeddingFails, CommitIndex,
          FinishProcessing, FinishFault, MarkFailed
    <3>2. pc[r] = "p_indexed" /\ Recorded(d) => Catalog!Claimed(d)
      BY <3>1 DEF ProcessStages, CatalogInv, ClaimsAreFirst, TypeOK, DocState, Status,
          Recorded, Catalog!Claimed
    <3>3. CASE ClaimDocument(r) /\ Recorded(d)
      <4>1. Catalog!Claim(d)
        BY <3>1, <3>3
           DEF ClaimDocument, Recorded, Catalog!Claim, Catalog!Listed, Catalog!Becomes
      <4> QED
        BY <4>1 DEF Catalog!Next
    <3>4. CASE MarkFailed(r) /\ Recorded(d)
      <4>1. Catalog!Fail(d)
        BY <3>1, <3>4 DEF MarkFailed, Recorded, Catalog!Fail, Catalog!Listed, Catalog!Becomes
      <4> QED
        BY <4>1 DEF Catalog!Next
    <3>5. CASE CommitIndex(r)
      <4>1. Catalog!Claimed(d)
        BY <3>1, <3>2, <3>5 DEF CommitIndex, Ownership, DeletesAreExclusive
      <4> DEFINE new == IF ContentOf[d] \in Blank THEN {} ELSE {model}
      <4>2. /\ new \in SUBSET Models
            /\ IF d \in {e \in Docs : ContentOf[e] \in Blank} THEN new = {}
               ELSE \E m \in Models : new = {m}
        BY DEF TypeOK
      <4>3. /\ indexed' = indexed \cup {d}
            /\ embedded' = [embedded EXCEPT ![d] = new]
            /\ \/ Catalog!Becomes(d, "ready")
               \/ UNCHANGED rec /\ d \in indexed
        <5>1. Recorded(d) /\ pc[r] \in ProcessStages
          BY <3>1, <3>5 DEF CommitIndex, Ownership, DeletesAreExclusive, ProcessStages
        <5>2. seen[r] = "ready" => d \in indexed
          BY <3>1, <5>1 DEF CatalogInv, OvertakenByIndex
        <5>3. CASE seen[r] = "ready"
          BY <3>1, <3>5, <5>2, <5>3 DEF CommitIndex
        <5>4. CASE seen[r] # "ready"
          BY <3>1, <3>5, <5>4 DEF CommitIndex, Catalog!Becomes
        <5> QED
          BY <5>3, <5>4
      <4> HIDE DEF new
      <4>4. Catalog!Index(d)
        BY <4>1, <4>2, <4>3 DEF Catalog!Index
      <4> QED
        BY <4>4 DEF Catalog!Next
    <3> QED
      BY <2>3, <3>1, <3>3, <3>4, <3>5 DEF ProcessStep, ClaimDocument, ParseDocument,
          ClearIndex, ClearEmbeddings, InsertUnits, EmbeddingFails, FinishProcessing,
          FinishFault, MarkFailed, db
  <2>4. ASSUME NEW r \in Requests, RebuildStep(r) PROVE Catalog!Next \/ UNCHANGED db
    <3>1. CASE CommitRebuild(r) /\ view[r] = "current"
      <4>1. PICK d \in Docs : d = doc[r] /\ d \in indexed /\ ContentOf[d] \notin Blank
        BY <3>1, NoDocAssumption DEF TypeOK, CommitRebuild, CatalogInv, RowsAreThere
      <4>2. Catalog!Embed(d)
        BY <3>1, <4>1 DEF TypeOK, CommitRebuild, Catalog!Embed
      <4> QED
        BY <4>2 DEF Catalog!Next
    <3> QED
      BY <2>4, <3>1 DEF RebuildStep, SelectChunks, ClearForRebuild, RebuildFails,
          CommitRebuild, db
  <2>5. ASSUME NEW r \in Requests, DeleteStep(r) PROVE Catalog!Next \/ UNCHANGED db
    <3>1. CASE CommitDelete(r)
      <4>1. PICK d \in Docs : d = doc[r] /\ Recorded(d)
        BY <3>1, NoDocAssumption DEF TypeOK, CommitDelete, Ownership, DeletesAreExclusive
      <4>2. Catalog!Delete(d)
        BY <3>1, <4>1
           DEF CommitDelete, Recorded, Catalog!Delete, Catalog!Listed, Catalog!Becomes
      <4> QED
        BY <4>2 DEF Catalog!Next
    <3> QED
      BY <2>5, <3>1 DEF DeleteStep, DeleteDocument, UnlinkFile
  <2>6. ASSUME NEW r \in Requests, AbortDeadlock(r) \/ DatabaseFails(r) \/ Crash(r)
               PROVE  UNCHANGED db
    BY <2>6 DEF AbortDeadlock, DatabaseFails, Crash
  <2>7. CASE Reconfigure \/ UNCHANGED vars
    BY <2>7 DEF Reconfigure, vars, db
  <2> QED
    BY <2>1, <2>2, <2>3, <2>4, <2>5, <2>6, <2>7 DEF Next, Work
<1> QED
  BY <1>1, <1>2, TypeCorrect, OwnershipHolds, CatalogInvHolds, PTL
     DEF Spec, KeepsCatalog, Catalog!Spec

(* What the catalog keeps true of its documents.                            *)
CatalogIsWhole ==
    /\ rec \in [Docs -> DocState] /\ embedded \in [Docs -> SUBSET Models]
    /\ \A d \in Docs :
        /\ rec[d] = "ready" => d \in indexed
        /\ ContentOf[d] \in Blank => embedded[d] = {}
        /\ ContentOf[d] \notin Blank /\ d \in indexed => embedded[d] # {}
    /\ OneRecordPerContent

(* The catalog is enough to rely on: whatever implements it keeps ready     *)
(* documents searchable and their index whole, and one record per content.  *)
THEOREM CatalogPromises ==
    Catalog!Spec => [](ReadyIsSearchable /\ OneRecordPerContent) /\ IndexStaysWhole
<1> DEFINE Whole == \A d \in Docs : d \in indexed /\ Recorded(d)' =>
                        /\ d \in indexed'
                        /\ embedded[d] # {} => embedded'[d] # {}
<1>1. Catalog!Init => CatalogIsWhole
  BY DEF Catalog!Init, CatalogIsWhole, OneRecordPerContent, Recorded, DocState, Status
<1>2. CatalogIsWhole /\ Catalog!Next => CatalogIsWhole' /\ Whole
  <2> SUFFICES ASSUME CatalogIsWhole, NEW d \in Docs,
                      \/ Catalog!Upload(d) \/ Catalog!Claim(d) \/ Catalog!Fail(d)
                      \/ Catalog!Index(d) \/ Catalog!Embed(d) \/ Catalog!Delete(d)
               PROVE  CatalogIsWhole' /\ Whole
    BY DEF Catalog!Next
  <2> USE DEF CatalogIsWhole, OneRecordPerContent, Recorded, DocState, Status,
        Catalog!Becomes, Catalog!Listed
  <2>1. CASE Catalog!Upload(d)
    BY <2>1 DEF Catalog!Upload
  <2>2. CASE Catalog!Claim(d)
    BY <2>2 DEF Catalog!Claim
  <2>3. CASE Catalog!Fail(d)
    BY <2>3 DEF Catalog!Fail
  <2>4. CASE Catalog!Index(d)
    BY <2>4 DEF Catalog!Index, Catalog!Claimed
  <2>5. CASE Catalog!Embed(d)
    BY <2>5 DEF Catalog!Embed
  <2>6. CASE Catalog!Delete(d)
    BY <2>6 DEF Catalog!Delete
  <2> QED
    BY <2>1, <2>2, <2>3, <2>4, <2>5, <2>6
<1>3. UNCHANGED Catalog!vars => (CatalogIsWhole => CatalogIsWhole') /\ Whole
  BY DEF Catalog!vars, CatalogIsWhole, OneRecordPerContent, Recorded
<1>4. CatalogIsWhole => ReadyIsSearchable /\ OneRecordPerContent
  BY DEF CatalogIsWhole, ReadyIsSearchable
<1>5. CatalogIsWhole /\ [Catalog!Next]_(Catalog!vars) => CatalogIsWhole' /\ [Whole]_vars
  BY <1>2, <1>3
<1> QED
  BY <1>1, <1>4, <1>5, PTL DEF Catalog!Spec, IndexStaysWhole

----------------------------------------------------------------------------
(* No document is processed by two runs that are open together; everything  *)
(* else may interleave, and servers may die.                                *)
RunsAreSingle ==
    \A r, s \in Requests :
        pc[r] \in ProcessStages /\ pc[s] \in ProcessStages /\ doc[r] = doc[s] => r = s

(* An index is complete only under "ready", and no run of its document is   *)
(* open.                                                                    *)
IndexIsFinal ==
    /\ \A d \in Docs : d \in indexed => rec[d] = "ready"
    /\ \A r \in Requests : pc[r] \in ProcessStages =>
            doc[r] \notin indexed /\ rec[doc[r]] # "ready" /\ seen[r] # "ready"

(* A failed document has no index as long as the runs of each document are  *)
(* single and the database does not fail; the run doc_failed_index shows    *)
(* that two runs are enough to break it, so that, faults aside, the claim   *)
(* without a condition is its whole cause.  A fault is another one: when    *)
(* the refresh after the final commit raises, a single run marks the index  *)
(* it has just completed as failed (FinishFault).                           *)
THEOREM SingleRunsFailClean ==
    ASSUME ~DbFaults PROVE Spec /\ []RunsAreSingle => []FailedHasNoIndex
<1>1. Init => IndexIsFinal
  BY DEF Init, IndexIsFinal, ProcessStages
<1>2. TypeOK /\ Ownership /\ IndexIsFinal /\ RunsAreSingle /\ [Next]_vars => IndexIsFinal'
  <2> SUFFICES ASSUME TypeOK, Ownership, IndexIsFinal, RunsAreSingle, [Next]_vars
               PROVE  IndexIsFinal'
    OBVIOUS
  <2> USE NoDocAssumption DEF TypeOK, UploadStages, ProcessStages, IndexIsFinal
  <2>1. ASSUME NEW r \in Requests, Begins(r) PROVE IndexIsFinal'
    BY <2>1 DEF Begins, OpenUpload, LoadForProcessing, LoadForRebuild, LoadForDelete,
        Begin, Goto, Unused, disk, db
  <2>2. ASSUME NEW r \in Requests, UploadStep(r) PROVE IndexIsFinal'
    BY <2>2 DEF UploadStep, RejectUpload, SaveUpload, CheckDuplicate, FinalizeUpload,
        CreateDocument, CreateDocumentFault, DiscardStoredUpload, Ownership,
        UploadsArePrivate, Recorded, End, Advance, Goto, disk, db
  <2>3. ASSUME NEW r \in Requests, ProcessStep(r) PROVE IndexIsFinal'
    BY <2>3 DEF ProcessStep, ClaimDocument, ParseDocument, ClearIndex, ClearEmbeddings,
        InsertUnits, EmbeddingFails, CommitIndex, FinishProcessing, FinishFault, MarkFailed,
        RunsAreSingle, Outdate, End, Advance, Goto, disk, db
  <2>4. ASSUME NEW r \in Requests, RebuildStep(r) PROVE IndexIsFinal'
    BY <2>4 DEF RebuildStep, SelectChunks, ClearForRebuild, RebuildFails, CommitRebuild,
        End, Advance, Goto, disk, db
  <2>5. ASSUME NEW r \in Requests, DeleteStep(r) PROVE IndexIsFinal'
    BY <2>5 DEF DeleteStep, DeleteDocument, CommitDelete, UnlinkFile, Outdate, End,
        Advance, Goto, disk, db
  <2>6. ASSUME NEW r \in Requests, AbortDeadlock(r) \/ DatabaseFails(r) \/ Crash(r)
               PROVE  IndexIsFinal'
    BY <2>6 DEF AbortDeadlock, DatabaseFails, Crash, Advance, End, Goto, disk, db
  <2>7. CASE Reconfigure
    BY <2>7 DEF Reconfigure, disk, db, reqs
  <2>8. CASE UNCHANGED vars
    BY <2>8 DEF vars
  <2> QED
    BY <2>1, <2>2, <2>3, <2>4, <2>5, <2>6, <2>7, <2>8 DEF Next, Work
<1>3. IndexIsFinal => FailedHasNoIndex
  BY DEF IndexIsFinal, FailedHasNoIndex
<1> QED
  BY <1>1, <1>2, <1>3, TypeCorrect, OwnershipHolds, PTL DEF Spec
=============================================================================
