------------------------ MODULE WorkspaceLedgerProofs ------------------------
(***************************************************************************)
(* Proofs about the workspace ledger, for every set of contents and of     *)
(* uploaders and any number of jobs and index jobs: the four registries    *)
(* and the files never contradict each other, and nothing brings a deleted *)
(* document back.                                                          *)
(***************************************************************************)
EXTENDS WorkspaceLedger, TLAPS

USE BoundAssumption, ContentAssumption
USE DEF vars, ledger, store, JobIds, IndexIds, NoJobId, Storages, Hashes, Known, HasDocument,
        UploadJob, Document, IndexJob

\* numbers are handed out in order: what has none yet is untouched
Fresh ==
  /\ \A j \in JobIds : j > jobSeq =>
       ~Known(j) /\ ~HasDocument(j) /\ bytesOf[j] = NoContent
  /\ \A i \in IndexIds : i > indexSeq => indexJobs[i].document = NoJobId
  /\ \A j \in JobIds : HasDocument(j) => Known(j)
  /\ \A j \in JobIds : ~HasDocument(j) => documents[j].storage = "none"

\* an upload that nobody else has the bytes of still has its file
UploadHasFile ==
  \A u \in Uploaders :
    /\ upload[u] # NoContent
    /\ \A v \in Uploaders : v # u => upload[v] # upload[u]
    /\ \A j \in JobIds : bytesOf[j] # upload[u]
    => upload[u] \in files

\* the inductive invariant
LedgerInv == TypeOK /\ Fresh /\ LedgerAgrees /\ UploadHasFile /\ BytesAccounted

-----------------------------------------------------------------------------
(* Types.                                                                  *)

\* a source made from a job of a known readiness is one of the sources
LEMMA SourceTyped ==
  ASSUME NEW job, NEW r,
         job \in [status : {"none", "accepted", "failed", "deleted",
                            "stored_pending_index", "indexing_requested"},
                  index : {"none", "not_started", "failed", "searchable", "deleted",
                           "indexing_requested"},
                  storage : Storages, hash : Hashes],
         r \in {"none", "metadata_only", "failed", "deleted", "searchable",
                "stored_pending_index", "indexing_requested"}
  PROVE  SourceFromJob(job, r) \in
           [readiness : {"none", "metadata_only", "failed", "deleted", "searchable",
                         "stored_pending_index", "indexing_requested"},
            index : {"none", "not_started", "failed", "searchable", "deleted",
                     "indexing_requested"},
            storage : Storages, hash : Hashes, storedLocal : BOOLEAN]
BY DEF SourceFromJob

\* every job has a readiness
LEMMA ReadinessTyped ==
  ASSUME NEW job
  PROVE  ReadinessForJob(job) \in {"none", "metadata_only", "failed", "deleted", "searchable",
                                   "stored_pending_index", "indexing_requested"}
BY DEF ReadinessForJob

\* a job that is set to one of the jobs leaves jobs and sources typed
LEMMA SetTyped ==
  ASSUME JobTypes, SourceTypes, NEW j \in JobIds, NEW job, SetJob(j, job),
         job \in [status : {"none", "accepted", "failed", "deleted",
                            "stored_pending_index", "indexing_requested"},
                  index : {"none", "not_started", "failed", "searchable", "deleted",
                           "indexing_requested"},
                  storage : Storages, hash : Hashes]
  PROVE  JobTypes' /\ SourceTypes'
<1>1. JobTypes'
  BY DEF JobTypes, SetJob
<1>2. SourceTypes'
  BY SourceTyped, ReadinessTyped DEF SourceTypes, SetJob
<1> QED BY <1>1, <1>2

\* the ledger starts empty
LEMMA InitTyped == Init => TypeOK
BY DEF Init, TypeOK, JobTypes, DocumentTypes, SourceTypes, IndexTypes, NoJob, NoDocument,
       NoSource, NoIndexJob

\* types survive uploads and new jobs
LEMMA CreationTyped ==
  ASSUME TypeOK, \/ CreateJob
                 \/ \E u \in Uploaders : RecordUpload(u) \/ \E c \in Contents : StoreFile(u, c)
  PROVE  TypeOK'
<1>1. CASE CreateJob
  <2>1. JobTypes' BY <1>1 DEF CreateJob, TypeOK, JobTypes, NoJob
  <2>2. SourceTypes'
    BY <1>1, SourceTyped DEF CreateJob, TypeOK, SourceTypes, NoJob
  <2> QED BY <1>1, <2>1, <2>2 DEF CreateJob, TypeOK, DocumentTypes, IndexTypes
<1>2. ASSUME NEW u \in Uploaders, RecordUpload(u) PROVE TypeOK'
  <2>1. JobTypes' BY <1>2 DEF RecordUpload, TypeOK, JobTypes
  <2>2. SourceTypes'
    BY <1>2, SourceTyped DEF RecordUpload, TypeOK, SourceTypes
  <2>3. DocumentTypes' BY <1>2 DEF RecordUpload, TypeOK, DocumentTypes
  <2> QED BY <1>2, <2>1, <2>2, <2>3 DEF RecordUpload, TypeOK, IndexTypes
<1>3. ASSUME NEW u \in Uploaders, NEW c \in Contents, StoreFile(u, c) PROVE TypeOK'
  BY <1>3 DEF StoreFile, TypeOK, JobTypes, SourceTypes, DocumentTypes, IndexTypes
<1> QED BY <1>1, <1>2, <1>3

\* types survive the actions on a job
LEMMA ActionTyped ==
  ASSUME TypeOK, NEW j \in JobIds, MarkJob(j) \/ Retry(j) \/ Delete(j) \/ RequestIndex(j)
  PROVE  TypeOK'
<1> USE DEF TypeOK
<1>1. CASE MarkJob(j)
  <2>1. JobTypes' /\ SourceTypes'
    BY <1>1, SetTyped DEF MarkJob, SetStatus, JobTypes
  <2> QED BY <1>1, <2>1 DEF MarkJob, DocumentTypes, IndexTypes
<1>2. CASE Retry(j)
  <2>1. JobTypes' /\ SourceTypes'
    BY <1>2, SetTyped DEF Retry, SetStatus, JobTypes
  <2> QED BY <1>2, <2>1 DEF Retry, DocumentTypes, IndexTypes
<1>3. CASE Delete(j)
  <2>1. JobTypes' /\ SourceTypes'
    BY <1>3, SetTyped DEF Delete, SetStatus, JobTypes
  <2>2. DocumentTypes' /\ IndexTypes'
    BY <1>3 DEF Delete, DeleteDocument, Tombstone, DocumentTypes, IndexTypes
  <2>3. files' \subseteq Contents /\ strays' \subseteq Contents
    BY <1>3 DEF Delete, DeleteDocument, Remove
  <2> QED BY <1>3, <2>1, <2>2, <2>3 DEF Delete
<1>4. CASE RequestIndex(j)
  <2>1. JobTypes' BY <1>4 DEF RequestIndex, JobTypes
  <2>2. SourceTypes'
    BY <1>4, SourceTyped DEF RequestIndex, JobTypes, SourceTypes
  <2>3. DocumentTypes' BY <1>4 DEF RequestIndex, DocumentTypes
  <2>4. IndexTypes' BY <1>4 DEF RequestIndex, DocumentTypes, IndexTypes
  <2> QED BY <1>4, <2>1, <2>2, <2>3, <2>4 DEF RequestIndex
<1> QED BY <1>1, <1>2, <1>3, <1>4

-----------------------------------------------------------------------------
(* One lemma per action: the rest of the invariant.                        *)

USE DEF LedgerAgrees, SourcesFollow, DocumentsFollow, IndexJobsFollow, BytesAccounted,
        NoOrphanFile, StoredHasFile, Sole

\* an empty ledger contradicts nothing, and knows no file of its own
LEMMA InitLedger == Init => LedgerInv
<1> SUFFICES ASSUME Init PROVE LedgerInv
  OBVIOUS
<1>1. TypeOK BY InitTyped
<1>2. Fresh BY DEF Init, Fresh, NoJob, NoDocument, NoIndexJob
<1>3. LedgerAgrees BY DEF Init, NoJob, NoDocument, NoIndexJob, NoSource
<1>4. UploadHasFile BY DEF Init, UploadHasFile
<1>5. BytesAccounted BY DEF Init, NoDocument
<1> QED BY <1>1, <1>2, <1>3, <1>4, <1>5 DEF LedgerInv

\* a file is put in place before anything is recorded
LEMMA StoreKeeps ==
  ASSUME LedgerInv, NEW u \in Uploaders, NEW c \in Contents, StoreFile(u, c)
  PROVE  LedgerInv'
<1> USE DEF LedgerInv, StoreFile
<1>1. TypeOK' BY CreationTyped
<1>2. Fresh' BY DEF Fresh
<1>3. LedgerAgrees' OBVIOUS
<1>4. UploadHasFile' BY DEF UploadHasFile, TypeOK
<1>5. NoOrphanFile' BY DEF TypeOK
<1>6. StoredHasFile'
  <2> SUFFICES ASSUME NEW j \in JobIds, documents[j].storage = "stored_local", Sole(j)'
               PROVE  documents[j].hash \in files
    OBVIOUS
  <2>1. bytesOf[j] # NoContent BY DEF Fresh
  <2>2. Sole(j) BY <2>1 DEF TypeOK
  <2> QED BY <2>2
<1> QED BY <1>1, <1>2, <1>3, <1>4, <1>5, <1>6

\* a metadata-only job
LEMMA CreateKeeps ==
  ASSUME LedgerInv, CreateJob
  PROVE  LedgerInv'
<1> USE DEF LedgerInv, CreateJob
<1>1. TypeOK' BY CreationTyped
<1>2. Fresh' BY DEF Fresh, TypeOK, JobTypes
<1>3. SourcesFollow' BY DEF TypeOK, JobTypes, SourceTypes, ReadinessForJob
<1>4. DocumentsFollow' BY DEF Fresh, TypeOK, JobTypes
<1>5. IndexJobsFollow' OBVIOUS
<1>6. UploadHasFile' BY DEF UploadHasFile
<1>7. BytesAccounted' OBVIOUS
<1> QED BY <1>1, <1>2, <1>3, <1>4, <1>5, <1>6, <1>7

\* an upload's job, document and source
LEMMA RecordKeeps ==
  ASSUME LedgerInv, NEW u \in Uploaders, RecordUpload(u)
  PROVE  LedgerInv'
<1> USE DEF LedgerInv, RecordUpload
<1>1. TypeOK' BY CreationTyped
<1>2. Fresh' BY DEF Fresh, TypeOK, JobTypes, DocumentTypes
<1>3. SourcesFollow' BY DEF TypeOK, JobTypes, SourceTypes, ReadinessForJob
<1>4. DocumentsFollow' BY DEF Fresh, TypeOK, JobTypes, DocumentTypes
<1>5. IndexJobsFollow' BY DEF Fresh, TypeOK, DocumentTypes, IndexTypes
<1>6. UploadHasFile' BY DEF UploadHasFile, Fresh, TypeOK
<1>7. NoOrphanFile'
  <2> SUFFICES ASSUME NEW c \in files \ strays
               PROVE  \/ \E v \in Uploaders : upload'[v] = c
                      \/ \E j \in JobIds : documents'[j].storage = "stored_local"
                                          /\ documents'[j].hash = c
    OBVIOUS
  <2>1. CASE upload[u] = c
    <3>1. jobSeq + 1 \in JobIds BY DEF TypeOK
    <3>2. documents'[jobSeq + 1] = Document("stored_pending_index", "stored_local", c)
      BY <2>1, <3>1 DEF TypeOK, DocumentTypes
    <3> QED BY <3>1, <3>2
  <2>2. CASE \E v \in Uploaders : v # u /\ upload[v] = c
    BY <2>2 DEF TypeOK
  <2>3. CASE \E j \in JobIds : documents[j].storage = "stored_local" /\ documents[j].hash = c
    <3>1. PICK j \in JobIds : documents[j].storage = "stored_local" /\ documents[j].hash = c
      BY <2>3
    <3>2. j # jobSeq + 1 BY <3>1 DEF Fresh, TypeOK
    <3>3. documents'[j] = documents[j] BY <3>2 DEF TypeOK, DocumentTypes
    <3> QED BY <3>1, <3>3
  <2> QED BY <2>1, <2>2, <2>3
<1>8. StoredHasFile'
  <2> SUFFICES ASSUME NEW j \in JobIds, documents'[j].storage = "stored_local", Sole(j)'
               PROVE  documents'[j].hash \in files
    OBVIOUS
  <2>0. jobSeq + 1 \in JobIds BY DEF TypeOK
  <2>1. CASE j = jobSeq + 1
    <3>1. documents'[j].hash = upload[u] /\ bytesOf'[j] = upload[u]
      BY <2>1 DEF TypeOK, DocumentTypes
    <3>2. \A v \in Uploaders : v # u => upload[v] # upload[u]
      BY <3>1 DEF TypeOK
    <3>3. \A k \in JobIds : bytesOf[k] # upload[u]
      BY <2>1, <3>1 DEF Fresh, TypeOK
    <3> QED BY <3>1, <3>2, <3>3 DEF UploadHasFile
  <2>2. CASE j # jobSeq + 1
    <3>1. documents'[j] = documents[j] /\ bytesOf'[j] = bytesOf[j]
      BY <2>2 DEF TypeOK, DocumentTypes
    <3>2. bytesOf'[jobSeq + 1] = upload[u] BY <2>0 DEF TypeOK
    <3>3. upload[u] # bytesOf[j] BY <2>0, <2>2, <3>1, <3>2
    <3>4. \A v \in Uploaders : upload[v] # bytesOf[j] BY <3>1, <3>3 DEF TypeOK
    <3>5. \A k \in JobIds : k # j => bytesOf[k] # bytesOf[j]
      <4> SUFFICES ASSUME NEW k \in JobIds, k # j PROVE bytesOf[k] # bytesOf[j]
        OBVIOUS
      <4>1. CASE k = jobSeq + 1
        <5>1. bytesOf[k] = NoContent BY <4>1 DEF Fresh, TypeOK
        <5>2. bytesOf[j] # NoContent BY <3>1 DEF Fresh
        <5> QED BY <5>1, <5>2
      <4>2. CASE k # jobSeq + 1
        BY <3>1, <4>2 DEF TypeOK
      <4> QED BY <4>1, <4>2
    <3> QED BY <3>1, <3>4, <3>5
  <2> QED BY <2>1, <2>2
<1> QED BY <1>1, <1>2, <1>3, <1>4, <1>5, <1>6, <1>7, <1>8

\* marks and retries only change a job's two statuses
LEMMA StatusKeeps ==
  ASSUME LedgerInv, NEW j \in JobIds, MarkJob(j) \/ Retry(j)
  PROVE  LedgerInv'
<1>1. PICK status \in {"accepted", "failed", "stored_pending_index"},
           index \in {"failed", "searchable", "not_started"} : SetStatus(j, status, index)
  BY DEF MarkJob, Retry
<1>2. /\ Known(j)
      /\ UNCHANGED <<documents, indexJobs, jobSeq, indexSeq, store, upload, bytesOf>>
  BY DEF MarkJob, Retry
<1> USE <1>1, <1>2 DEF LedgerInv, SetStatus, SetJob
<1>3. TypeOK' BY ActionTyped
<1>4. Fresh' BY DEF Fresh, TypeOK, JobTypes
<1>5. SourcesFollow' BY DEF TypeOK, JobTypes, SourceTypes
<1>6. DocumentsFollow' BY DEF TypeOK, JobTypes
<1>7. IndexJobsFollow' OBVIOUS
<1>8. UploadHasFile' BY DEF UploadHasFile
<1>9. BytesAccounted' OBVIOUS
<1> QED BY <1>3, <1>4, <1>5, <1>6, <1>7, <1>8, <1>9

\* a deletion: the file may stay behind, as a stray
LEMMA DeleteKeeps ==
  ASSUME LedgerInv, NEW j \in JobIds, Delete(j)
  PROVE  LedgerInv'
<1>1. TypeOK' BY ActionTyped DEF LedgerInv
<1>2. CASE ~HasDocument(j)
  <2>0. /\ SetStatus(j, "deleted", "deleted") /\ Known(j)
        /\ UNCHANGED <<documents, indexJobs, jobSeq, indexSeq, store, upload, bytesOf>>
    BY <1>2 DEF Delete
  <2>1. Fresh'
    <3>1. \A k \in JobIds : Known(k)' <=> Known(k)
      BY <2>0 DEF LedgerInv, SetStatus, SetJob, TypeOK, JobTypes
    <3>2. Fresh
      BY DEF LedgerInv
    <3> QED BY <2>0, <3>1, <3>2 DEF Fresh, HasDocument
  <2> USE <2>0 DEF LedgerInv, SetStatus, SetJob
  <2>2. SourcesFollow' BY DEF TypeOK, JobTypes, SourceTypes
  <2>3. DocumentsFollow' BY DEF TypeOK, JobTypes
  <2>4. IndexJobsFollow' OBVIOUS
  <2>5. UploadHasFile' BY DEF UploadHasFile
  <2>6. BytesAccounted' OBVIOUS
  <2> QED BY <1>1, <2>1, <2>2, <2>3, <2>4, <2>5, <2>6
<1>3. CASE HasDocument(j)
  <2>1. /\ documents' = [documents EXCEPT ![j] = Tombstone]
        /\ indexJobs' = [i \in IndexIds |->
             IF indexJobs[i].document # j THEN indexJobs[i]
             ELSE IndexJob(j, "deleted", "deleted_local", NoContent)]
        /\ SetJob(j, UploadJob("deleted", "deleted", "deleted_local", NoContent))
        /\ Known(j)
        /\ UNCHANGED <<jobSeq, indexSeq, upload, bytesOf>>
    BY <1>3 DEF Delete, DeleteDocument
  <2>2. \/ documents[j].hash = NoContent /\ UNCHANGED store
        \/ documents[j].hash # NoContent /\ Remove(documents[j].hash)
    BY <1>3 DEF Delete, DeleteDocument
  <2> USE <1>3, <2>1 DEF LedgerInv, SetJob, Tombstone
  <2>3. Fresh' BY DEF Fresh, TypeOK, JobTypes, DocumentTypes, IndexTypes
  <2>4. SourcesFollow' BY DEF TypeOK, JobTypes, SourceTypes
  <2>5. DocumentsFollow' BY DEF TypeOK, JobTypes, DocumentTypes
  <2>6. IndexJobsFollow' BY DEF TypeOK, DocumentTypes, IndexTypes
  <2>7. UploadHasFile' BY <2>2 DEF UploadHasFile, Remove
  <2>8. NoOrphanFile'
    <3> SUFFICES ASSUME NEW c \in files' \ strays'
                 PROVE  \/ \E v \in Uploaders : upload[v] = c
                        \/ \E k \in JobIds : documents'[k].storage = "stored_local"
                                            /\ documents'[k].hash = c
      OBVIOUS
    <3>1. c \in files \ strays /\ c # documents[j].hash
      BY <2>2 DEF Remove, TypeOK
    <3>2. CASE \E k \in JobIds : documents[k].storage = "stored_local" /\ documents[k].hash = c
      <4>1. PICK k \in JobIds : documents[k].storage = "stored_local" /\ documents[k].hash = c
        BY <3>2
      <4>2. documents'[k] = documents[k] BY <3>1, <4>1 DEF TypeOK, DocumentTypes
      <4> QED BY <4>1, <4>2
    <3> QED BY <3>1, <3>2
  <2>9. StoredHasFile'
    <3> SUFFICES ASSUME NEW k \in JobIds, documents'[k].storage = "stored_local", Sole(k)'
                 PROVE  documents'[k].hash \in files'
      OBVIOUS
    <3>1. k # j BY DEF TypeOK, DocumentTypes
    <3>2. documents'[k] = documents[k] BY <3>1 DEF TypeOK, DocumentTypes
    <3>3. Sole(k) OBVIOUS
    <3>4. documents[k].hash \in files BY <3>2, <3>3
    <3>5. documents[k].hash = bytesOf[k] BY <3>2 DEF Fresh, Tombstone
    <3>6. documents[j].hash = NoContent \/ documents[j].hash = bytesOf[j]
      BY DEF TypeOK
    <3>7. documents[j].hash # documents[k].hash \/ documents[j].hash = NoContent
      BY <3>1, <3>3, <3>5, <3>6
    <3> QED BY <2>2, <3>2, <3>4, <3>7 DEF Remove
  <2> QED BY <1>1, <2>3, <2>4, <2>5, <2>6, <2>7, <2>8, <2>9
<1> QED BY <1>2, <1>3

\* an index request for a document whose file is there
LEMMA RequestKeeps ==
  ASSUME LedgerInv, NEW j \in JobIds, RequestIndex(j)
  PROVE  LedgerInv'
<1> USE DEF LedgerInv, RequestIndex, Indexable
<1>1. TypeOK' BY ActionTyped
<1>2. Fresh' BY DEF Fresh, TypeOK, JobTypes, DocumentTypes, IndexTypes
<1>3. SourcesFollow' BY DEF TypeOK, JobTypes, SourceTypes, ReadinessForJob
<1>4. DocumentsFollow' BY DEF TypeOK, JobTypes, DocumentTypes
<1>5. IndexJobsFollow' BY DEF Fresh, TypeOK, DocumentTypes, IndexTypes
<1>6. UploadHasFile' BY DEF UploadHasFile
<1>7. NoOrphanFile' BY DEF TypeOK, DocumentTypes
<1>8. StoredHasFile' BY DEF TypeOK, DocumentTypes
<1> QED BY <1>1, <1>2, <1>3, <1>4, <1>5, <1>6, <1>7, <1>8

\* the invariant is inductive
LEMMA NextLedger == LedgerInv /\ [Next]_vars => LedgerInv'
<1> SUFFICES ASSUME LedgerInv, [Next]_vars PROVE LedgerInv'
  OBVIOUS
<1>1. CASE UNCHANGED vars
  <2> USE <1>1 DEF LedgerInv
  <2>1. TypeOK' BY DEF TypeOK, JobTypes, DocumentTypes, SourceTypes, IndexTypes
  <2>2. Fresh' /\ UploadHasFile' BY DEF Fresh, UploadHasFile
  <2>3. LedgerAgrees' /\ BytesAccounted' OBVIOUS
  <2> QED BY <2>1, <2>2, <2>3
<1>2. CASE CreateJob
  BY <1>2, CreateKeeps
<1>3. ASSUME NEW u \in Uploaders, RecordUpload(u) PROVE LedgerInv'
  BY <1>3, RecordKeeps
<1>4. ASSUME NEW u \in Uploaders, NEW c \in Contents, StoreFile(u, c) PROVE LedgerInv'
  BY <1>4, StoreKeeps
<1>5. ASSUME NEW j \in JobIds, MarkJob(j) \/ Retry(j) PROVE LedgerInv'
  BY <1>5, StatusKeeps
<1>6. ASSUME NEW j \in JobIds, Delete(j) PROVE LedgerInv'
  BY <1>6, DeleteKeeps
<1>7. ASSUME NEW j \in JobIds, RequestIndex(j) PROVE LedgerInv'
  BY <1>7, RequestKeeps
<1> QED BY <1>1, <1>2, <1>3, <1>4, <1>5, <1>6, <1>7 DEF Next

\* what a step leaves of a deleted document and of what was made from it
DeletedStep ==
  \A j \in JobIds : documents[j].status = "deleted" =>
    /\ documents'[j] = documents[j]
    /\ jobs'[j].storage = "deleted_local" /\ ~sources'[j].storedLocal
    /\ \A i \in IndexIds : indexJobs'[i].document = j => indexJobs'[i].status = "deleted"

\* a tombstone is touched by no action
LEMMA TombstoneStays ==
  ASSUME LedgerInv, [Next]_vars, NEW j \in JobIds, documents[j].status = "deleted"
  PROVE  documents'[j] = documents[j]
<1> USE DEF LedgerInv
<1>0. documents[j] = Tombstone OBVIOUS
<1>1. ASSUME NEW u \in Uploaders, RecordUpload(u) PROVE documents'[j] = documents[j]
  <2>1. j # jobSeq + 1 BY <1>1 DEF Fresh, TypeOK, RecordUpload
  <2> QED BY <1>1, <2>1 DEF RecordUpload, TypeOK, DocumentTypes
<1>2. ASSUME NEW k \in JobIds, Delete(k) PROVE documents'[j] = documents[j]
  BY <1>0, <1>2 DEF Delete, DeleteDocument, TypeOK, DocumentTypes
<1>3. ASSUME NEW k \in JobIds, RequestIndex(k) PROVE documents'[j] = documents[j]
  BY <1>3 DEF RequestIndex, Indexable, TypeOK, DocumentTypes
<1>4. ASSUME NEW k \in JobIds, MarkJob(k) \/ Retry(k) PROVE documents'[j] = documents[j]
  BY <1>4 DEF MarkJob, Retry
<1> QED BY <1>1, <1>2, <1>3, <1>4 DEF Next, CreateJob, StoreFile

\* a source made from a job whose upload was deleted names no stored file
LEMMA DeletedNotLocal ==
  ASSUME NEW job, NEW r, job.storage = "deleted_local"
  PROVE  ~SourceFromJob(job, r).storedLocal
<1>1. SourceFromJob(job, r).storedLocal = (job.storage = "stored_local" /\ r # "deleted")
  BY DEF SourceFromJob
<1> QED BY <1>1

\* the other registries follow the tombstone, in the next state as in any other
LEMMA DeletedFollows == LedgerInv /\ [Next]_vars => DeletedStep
<1> SUFFICES ASSUME LedgerInv, [Next]_vars, NEW j \in JobIds, documents[j].status = "deleted"
             PROVE  /\ documents'[j] = documents[j]
                    /\ jobs'[j].storage = "deleted_local" /\ ~sources'[j].storedLocal
                    /\ \A i \in IndexIds :
                         indexJobs'[i].document = j => indexJobs'[i].status = "deleted"
  BY DEF DeletedStep
<1>1. documents'[j] = documents[j] BY TombstoneStays
<1>2. documents'[j] = Tombstone BY <1>1 DEF LedgerInv
<1>3. LedgerInv' BY NextLedger
<1>4. jobs'[j].storage = "deleted_local" BY <1>2, <1>3 DEF LedgerInv, Tombstone
<1>5. ~sources'[j].storedLocal
  <2>1. Known(j)' BY <1>2, <1>3 DEF LedgerInv, Fresh, Tombstone
  <2>2. sources'[j] = SourceFromJob(jobs'[j], ReadinessForJob(jobs'[j]))
    BY <1>3, <2>1 DEF LedgerInv
  <2> QED BY <1>4, <2>2, DeletedNotLocal
<1>6. \A i \in IndexIds : indexJobs'[i].document = j => indexJobs'[i].status = "deleted"
  BY <1>2, <1>3 DEF LedgerInv, Tombstone
<1> QED BY <1>1, <1>4, <1>5, <1>6

-----------------------------------------------------------------------------
(* Theorems.                                                               *)

\* the invariant holds throughout
LEMMA LedgerInvariant == Spec => []LedgerInv
BY InitLedger, NextLedger, PTL DEF Spec

\* Every job, document, source and index job has one of the statuses the code
\* gives it, and one of the files' hashes or none.
THEOREM LedgerTyped == Spec => []TypeOK
BY LedgerInvariant, PTL DEF LedgerInv

\* The four registries agree on what is stored, after any uploads, marks,
\* retries, deletions and index requests of any number of requests.
THEOREM RegistriesAgree == Spec => []LedgerAgrees
<1>1. LedgerInv => LedgerAgrees BY DEF LedgerInv
<1> QED BY <1>1, LedgerInvariant, PTL

\* Files and records match: no file of this process without an upload or a
\* document that names it, and no stored document without its file unless
\* other uploads had the same bytes.
THEOREM BytesMatch == Spec => []BytesAccounted
<1>1. LedgerInv => BytesAccounted BY DEF LedgerInv
<1> QED BY <1>1, LedgerInvariant, PTL

\* No step brings back a deleted document, its job's stored file or its index
\* jobs.
THEOREM GoneForGood == Spec => DeletedForGood
<1>1. LedgerInv /\ [Next]_vars => [DeletedStep]_vars BY DeletedFollows
<1> QED BY <1>1, LedgerInvariant, PTL DEF Spec, DeletedForGood, DeletedStep
=============================================================================
