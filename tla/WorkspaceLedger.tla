-------------------------- MODULE WorkspaceLedger --------------------------
(***************************************************************************)
(* The workspace ledger: upload jobs, documents, sources and index jobs,   *)
(* kept in memory under s.mu, and the content-addressed files of the       *)
(* uploads, written before s.mu is taken (internal/gateway/server.go).     *)
(*                                                                         *)
(* A job, its source and, for an upload, its document are created in one   *)
(* critical section and share a number.  A content stands for the path of  *)
(* a file: user, workspace, scope and SHA-256.  The suffixes of statuses   *)
(* (_no_execute, _metadata_only), labels, sizes, traces, findings, times   *)
(* and attempts are left out.                                              *)
(***************************************************************************)
EXTENDS Naturals

CONSTANTS
  Contents,     \* what may be uploaded
  NoContent,
  Uploaders,    \* requests that may upload at the same time
  MaxJobs,      \* bound: upload jobs
  MaxIndexJobs  \* bound: index jobs

ASSUME BoundAssumption   == {MaxJobs, MaxIndexJobs} \subseteq Nat
ASSUME ContentAssumption == NoContent \notin Contents

JobIds    == 1..MaxJobs
IndexIds  == 1..MaxIndexJobs
NoJobId   == 0

Storages  == {"none", "stored_local", "deleted_local"}
Hashes    == Contents \cup {NoContent}

VARIABLES
  files,       \* the store's directory
  upload,      \* each uploader: the content it has stored and not yet recorded
  jobSeq, indexSeq,
  jobs,        \* workspaceUploadJobs
  documents,   \* workspaceDocuments, by the number of their job
  sources,     \* workspaceSources, likewise
  indexJobs,   \* workspaceIndexJobs
  bytesOf,     \* the content each job was recorded for
  strays       \* files of an earlier process, or that could not be removed

ledger == <<jobs, documents, sources, indexJobs, jobSeq, indexSeq>>
store  == <<files, strays>>
vars   == <<ledger, store, upload, bytesOf>>

UploadJob(status, index, storage, hash) ==
  [status |-> status, index |-> index, storage |-> storage, hash |-> hash]
IndexJob(document, status, storage, hash) ==
  [document |-> document, status |-> status, storage |-> storage, hash |-> hash]
Document(status, storage, hash) == [status |-> status, storage |-> storage, hash |-> hash]

NoJob      == UploadJob("none", "none", "none", NoContent)
NoDocument == Document("none", "none", NoContent)
Tombstone  == Document("deleted", "deleted_local", NoContent)
NoSource   == [readiness |-> "none", index |-> "none", storage |-> "none", hash |-> NoContent,
               storedLocal |-> FALSE]
NoIndexJob == IndexJob(NoJobId, "none", "none", NoContent)

\* a new process knows nothing of the files an earlier one left
Init ==
  /\ files \in SUBSET Contents /\ strays = files
  /\ upload = [u \in Uploaders |-> NoContent]
  /\ jobSeq = 0 /\ indexSeq = 0
  /\ jobs = [j \in JobIds |-> NoJob]
  /\ documents = [j \in JobIds |-> NoDocument]
  /\ sources = [j \in JobIds |-> NoSource]
  /\ indexJobs = [i \in IndexIds |-> NoIndexJob]
  /\ bytesOf = [j \in JobIds |-> NoContent]

-----------------------------------------------------------------------------
(* Sources are made from their jobs.                                       *)

SourceFromJob(job, readiness) ==
  [readiness |-> readiness, index |-> job.index, storage |-> job.storage, hash |-> job.hash,
   storedLocal |-> job.storage = "stored_local" /\ readiness # "deleted"]

ReadinessForJob(job) ==
  CASE job.status \in {"deleted", "failed"} -> job.status
    [] "indexing_requested" \in {job.status, job.index} -> "indexing_requested"
    [] OTHER -> IF job.status = "stored_pending_index" THEN job.status
                ELSE IF job.index = "searchable" THEN job.index ELSE "metadata_only"

\* job j is now as given, and so is its source
SetJob(j, job) ==
  /\ jobs' = [jobs EXCEPT ![j] = job]
  /\ sources' = [sources EXCEPT ![j] = SourceFromJob(job, ReadinessForJob(job))]

\* only the two statuses of job j change
SetStatus(j, status, index) ==
  SetJob(j, UploadJob(status, index, jobs[j].storage, jobs[j].hash))

-----------------------------------------------------------------------------
(* Uploads.                                                                *)

\* storeWorkspaceDocumentFile: the bytes are renamed into place, no lock held
StoreFile(u, c) ==
  /\ upload[u] = NoContent
  /\ files' = files \cup {c}
  /\ upload' = [upload EXCEPT ![u] = c]
  /\ UNCHANGED <<ledger, strays, bytesOf>>

\* storeWorkspaceDocumentUpload: job, document and source, under s.mu
RecordUpload(u) ==
  LET job == UploadJob("stored_pending_index", "not_started", "stored_local", upload[u])
  IN  /\ upload[u] # NoContent /\ jobSeq < MaxJobs
      /\ jobSeq' = jobSeq + 1
      /\ jobs' = [jobs EXCEPT ![jobSeq + 1] = job]
      /\ documents' = [documents EXCEPT ![jobSeq + 1] =
           Document("stored_pending_index", "stored_local", upload[u])]
      /\ sources' = [sources EXCEPT ![jobSeq + 1] = SourceFromJob(job, "stored_pending_index")]
      /\ bytesOf' = [bytesOf EXCEPT ![jobSeq + 1] = upload[u]]
      /\ upload' = [upload EXCEPT ![u] = NoContent]
      /\ UNCHANGED <<indexJobs, indexSeq, store>>

\* createWorkspaceUploadJob: metadata only
CreateJob ==
  LET job == UploadJob("accepted", "not_started", "none", NoContent)
  IN  /\ jobSeq < MaxJobs
      /\ jobSeq' = jobSeq + 1
      /\ jobs' = [jobs EXCEPT ![jobSeq + 1] = job]
      /\ sources' = [sources EXCEPT ![jobSeq + 1] = SourceFromJob(job, "metadata_only")]
      /\ UNCHANGED <<documents, indexJobs, indexSeq, store, upload, bytesOf>>

-----------------------------------------------------------------------------
(* Actions on a job: applyWorkspaceUploadJobAction.  Any job takes any of  *)
(* them, a deleted one too.                                                *)

Known(j) == jobs[j].status # "none"
HasDocument(j) == documents[j].status # "none"

\* mutant of MarkJob: searchable is the job's status, not its index status
MarkJobStatus(j) ==
  /\ Known(j)
  /\ \/ SetStatus(j, "failed", "failed")
     \/ SetStatus(j, "searchable", jobs[j].index)
  /\ UNCHANGED <<documents, indexJobs, jobSeq, indexSeq, store, upload, bytesOf>>

\* mark_failed, mark_searchable
MarkJob(j) ==
  /\ Known(j)
  /\ SetStatus(j, "failed", "failed") \/ SetStatus(j, "accepted", "searchable")
  /\ UNCHANGED <<documents, indexJobs, jobSeq, indexSeq, store, upload, bytesOf>>

\* mutant of Retry: a retry takes the upload for stored again
RetryRestores(j) ==
  /\ Known(j)
  /\ IF HasDocument(j)
     THEN SetJob(j, UploadJob("stored_pending_index", "not_started", "stored_local", bytesOf[j]))
     ELSE SetStatus(j, "accepted", "not_started")
  /\ UNCHANGED <<documents, indexJobs, jobSeq, indexSeq, store, upload, bytesOf>>

Retry(j) ==
  /\ Known(j)
  /\ IF HasDocument(j) /\ jobs[j].storage = "stored_local"
     THEN SetStatus(j, "stored_pending_index", "not_started")
     ELSE SetStatus(j, "accepted", "not_started")
  /\ UNCHANGED <<documents, indexJobs, jobSeq, indexSeq, store, upload, bytesOf>>

\* os.Remove, whose error is ignored
Remove(c) ==
  \/ files' = files \ {c} /\ strays' = strays \ {c}
  \/ c \in files /\ strays' = strays \cup {c} /\ UNCHANGED files

\* mutant of DeleteDocument: the hash is gone when the file's path is built from it
DeleteDocumentAfterHash(j) ==
  /\ documents' = [documents EXCEPT ![j] = Tombstone]
  /\ indexJobs' = [i \in IndexIds |->
       IF indexJobs[i].document # j THEN indexJobs[i]
       ELSE IndexJob(j, "deleted", "deleted_local", NoContent)]
  /\ UNCHANGED store

\* mutant of DeleteDocument: the index jobs are forgotten
DeleteDocumentOnly(j) ==
  /\ IF documents[j].hash = NoContent THEN UNCHANGED store ELSE Remove(documents[j].hash)
  /\ documents' = [documents EXCEPT ![j] = Tombstone]
  /\ UNCHANGED indexJobs

\* deleteWorkspaceDocumentForJobLocked: the file, the document and its index jobs
DeleteDocument(j) ==
  /\ IF documents[j].hash = NoContent THEN UNCHANGED store ELSE Remove(documents[j].hash)
  /\ documents' = [documents EXCEPT ![j] = Tombstone]
  /\ indexJobs' = [i \in IndexIds |->
       IF indexJobs[i].document # j THEN indexJobs[i]
       ELSE IndexJob(j, "deleted", "deleted_local", NoContent)]

Delete(j) ==
  /\ Known(j)
  /\ IF HasDocument(j)
     THEN /\ DeleteDocument(j)
          /\ SetJob(j, UploadJob("deleted", "deleted", "deleted_local", NoContent))
     ELSE /\ SetStatus(j, "deleted", "deleted")
          /\ UNCHANGED <<documents, indexJobs, store>>
  /\ UNCHANGED <<jobSeq, indexSeq, upload, bytesOf>>

-----------------------------------------------------------------------------
(* Index requests: createWorkspaceIndexJob.                                *)

Indexable(j) ==
  /\ HasDocument(j) /\ "deleted" \notin {documents[j].status, jobs[j].status}
  /\ documents[j].storage = "stored_local" /\ jobs[j].storage = "stored_local"
  /\ documents[j].hash \in files

\* nothing executes: the request is recorded in all four registries
RequestIndex(j) ==
  LET job == UploadJob("indexing_requested", "indexing_requested",
                       jobs[j].storage, jobs[j].hash)
  IN  /\ Indexable(j) /\ indexSeq < MaxIndexJobs
      /\ indexSeq' = indexSeq + 1
      /\ documents' = [documents EXCEPT ![j] =
           Document("indexing_requested", documents[j].storage, documents[j].hash)]
      /\ jobs' = [jobs EXCEPT ![j] = job]
      /\ sources' = [sources EXCEPT ![j] = SourceFromJob(job, "indexing_requested")]
      /\ indexJobs' = [indexJobs EXCEPT ![indexSeq + 1] =
           IndexJob(j, "indexing_requested", documents[j].storage, documents[j].hash)]
      /\ UNCHANGED <<jobSeq, store, upload, bytesOf>>

Next ==
  \/ \E u \in Uploaders : RecordUpload(u) \/ \E c \in Contents : StoreFile(u, c)
  \/ CreateJob
  \/ \E j \in JobIds : MarkJob(j) \/ Retry(j) \/ Delete(j) \/ RequestIndex(j)

Spec == Init /\ [][Next]_vars
-----------------------------------------------------------------------------
(* Properties.                                                             *)

JobTypes ==
  jobs \in [JobIds -> [status : {"none", "accepted", "failed", "deleted",
                                "stored_pending_index", "indexing_requested"},
                       index : {"none", "not_started", "failed", "searchable", "deleted",
                                "indexing_requested"},
                       storage : Storages, hash : Hashes]]

DocumentTypes ==
  documents \in [JobIds -> [status : {"none", "deleted", "stored_pending_index",
                                     "indexing_requested"},
                            storage : Storages, hash : Hashes]]

SourceTypes ==
  sources \in [JobIds -> [readiness : {"none", "metadata_only", "failed", "deleted", "searchable",
                                      "stored_pending_index", "indexing_requested"},
                          index : {"none", "not_started", "failed", "searchable", "deleted",
                                   "indexing_requested"},
                          storage : Storages, hash : Hashes, storedLocal : BOOLEAN]]

IndexTypes ==
  indexJobs \in [IndexIds -> [document : JobIds \cup {NoJobId}, storage : Storages,
                             hash : Hashes,
                             status : {"none", "deleted", "indexing_requested"}]]

TypeOK ==
  /\ JobTypes /\ DocumentTypes /\ SourceTypes /\ IndexTypes
  /\ jobSeq \in 0..MaxJobs /\ indexSeq \in 0..MaxIndexJobs
  /\ files \subseteq Contents /\ strays \subseteq Contents
  /\ upload \in [Uploaders -> Hashes] /\ bytesOf \in [JobIds -> Hashes]

\* A source says what its job says.
SourcesFollow ==
  \A j \in JobIds :
    sources[j] = IF Known(j) THEN SourceFromJob(jobs[j], ReadinessForJob(jobs[j])) ELSE NoSource

\* A job and its document agree on what is stored, and a tombstone names nothing.
DocumentsFollow ==
  \A j \in JobIds : HasDocument(j) =>
    /\ jobs[j].storage = documents[j].storage /\ jobs[j].hash = documents[j].hash
    /\ bytesOf[j] # NoContent
    /\ IF documents[j].status = "deleted" THEN documents[j] = Tombstone
       ELSE documents[j].storage = "stored_local" /\ documents[j].hash = bytesOf[j]

\* An index job agrees with the document it was asked for.
IndexJobsFollow ==
  \A i \in IndexIds : indexJobs[i].document # NoJobId =>
    LET d == documents[indexJobs[i].document]
    IN  /\ HasDocument(indexJobs[i].document)
        /\ indexJobs[i].storage = d.storage /\ indexJobs[i].hash = d.hash
        /\ indexJobs[i].status = "deleted" <=> d.status = "deleted"

\* The four registries never contradict each other on what is stored, whatever
\* uploads, retries, marks, deletions and index requests do in whatever order.
LedgerAgrees == SourcesFollow /\ DocumentsFollow /\ IndexJobsFollow

\* Nothing brings a deleted document back: not a retry of its job, not another
\* upload of the same bytes, not an index request.
DeletedForGood ==
  [][\A j \in JobIds : documents[j].status = "deleted" =>
       /\ documents'[j] = documents[j]
       /\ jobs'[j].storage = "deleted_local" /\ ~sources'[j].storedLocal
       /\ \A i \in IndexIds : indexJobs'[i].document = j => indexJobs'[i].status = "deleted"]_vars

\* no other upload has the bytes of job j
Sole(j) ==
  /\ \A k \in JobIds : k # j => bytesOf[k] # bytesOf[j]
  /\ \A u \in Uploaders : upload[u] # bytesOf[j]

\* No bytes without a record: a file of this process that could be removed is
\* being uploaded or is a document's.
NoOrphanFile ==
  \A c \in files \ strays :
    \/ \E u \in Uploaders : upload[u] = c
    \/ \E j \in JobIds : documents[j].storage = "stored_local" /\ documents[j].hash = c

\* No record without bytes: a document that is said to be stored has its file,
\* unless the same bytes were uploaded once more.
StoredHasFile ==
  \A j \in JobIds : documents[j].storage = "stored_local" /\ Sole(j) => documents[j].hash \in files

\* Files and records match, although files are written and renamed before the
\* lock is taken and removed under it.
BytesAccounted == NoOrphanFile /\ StoredHasFile
=============================================================================
