--------------------------- MODULE DocumentStore ---------------------------
(***************************************************************************)
(* The shared state of the document pipeline: the tables documents,        *)
(* ingestion_jobs and document_chunks, the object storage, and the         *)
(* in-process list of background tasks of the API.  The modules            *)
(* IngestionWorker, DocumentRequests and StaleRecovery act on this state;  *)
(* DocumentPipeline composes them.                                         *)
(*                                                                         *)
(* One document stands for its documents row, its single document_versions *)
(* row (no endpoint creates a second version) and its storage key.         *)
(***************************************************************************)
EXTENDS Integers, FiniteSets

CONSTANTS
  Docs,       \* identities of documents; each is uploaded at most once
  Jobs,       \* identities of ingestion_jobs rows; bounds the attempts
  Providers,  \* values of EMBEDDING_PROVIDER
  None        \* "no value": a NULL column

ASSUME NoneAssumption == None \notin Docs \cup Jobs \cup Providers

VARIABLES
  status,       \* documents.processing_status, or whether there is a row
  docProvider,  \* documents.embedding_provider
  file,         \* the documents whose storage key holds an object
  chunks,       \* document_chunks rows of each document, by writing attempt
  job,          \* ingestion_jobs.status, or whether there is a row
  jobDoc,       \* ingestion_jobs.document_id
  attempt,      \* ingestion_jobs.attempt_number
  task,         \* where the background task of each job is
  provider      \* the EMBEDDING_PROVIDER the API was started with

docVars == <<status, docProvider, file, chunks>>
jobVars == <<job, jobDoc, attempt>>
storeVars == <<docVars, jobVars, task, provider>>

Live == {"PENDING", "PROCESSING", "COMPLETED", "FAILED"}
DocStatus == Live \cup {"absent", "deleted"}
Active == {"PENDING", "RUNNING"}
JobStatus == Active \cup {"COMPLETED", "FAILED"} \cup {"unused", "gone"}

(* A chunk row carries the attempt that wrote it and, as a history field,  *)
(* the provider that computed its vector (the table has no such column).   *)
(* The rows one attempt writes are one element: they are inserted together.*)
ChunkRows == [by : Jobs, vector : Providers]

(* Program counter of IngestionService.process_job; "none" is a task that  *)
(* was never scheduled, has returned, or was lost with its process.        *)
TaskPc == {"none", "queued", "claimed", "started", "extracting", "chunking",
           "embedding", "indexing", "replacing", "refreshing", "indexed",
           "jobDone", "failing", "jobFailed"}

StoreTypeOK ==
  /\ status \in [Docs -> DocStatus]
  /\ docProvider \in [Docs -> Providers \cup {None}]
  /\ file \in SUBSET Docs
  /\ chunks \in [Docs -> SUBSET ChunkRows]
  /\ job \in [Jobs -> JobStatus]
  /\ jobDoc \in [Jobs -> Docs \cup {None}]
  /\ attempt \in [Jobs -> Nat]
  /\ task \in [Jobs -> TaskPc]
  /\ provider \in Providers

StoreInit ==
  /\ status = [d \in Docs |-> "absent"]
  /\ docProvider = [d \in Docs |-> None]
  /\ file = {}
  /\ chunks = [d \in Docs |-> {}]
  /\ job = [j \in Jobs |-> "unused"]
  /\ jobDoc = [j \in Jobs |-> None]
  /\ attempt = [j \in Jobs |-> 0]
  /\ task = [j \in Jobs |-> "none"]
  /\ provider \in Providers

-----------------------------------------------------------------------------
(* Queries of DocumentRepository.                                          *)

RowExists(d) == status[d] \in Live

JobExists(j) == job[j] \notin {"unused", "gone"}

(* The rows of ingestion_jobs of document d. *)
JobsOf(d) == {j \in Jobs : jobDoc[j] = d /\ JobExists(j)}

ActiveJobs(d) == {j \in JobsOf(d) : job[j] \in Active}

HasActiveJob(d) == ActiveJobs(d) # {}

(* The + 1 forgotten (see IngestionWorker on names ending in Faulty). *)
IsNextAttemptFaulty(d, n) ==
  \/ JobsOf(d) = {} /\ n = 1
  \/ \E j \in JobsOf(d) : n = attempt[j] /\ \A k \in JobsOf(d) : attempt[k] <= attempt[j]

(* n is max(attempt_number) + 1, or 1 when the document has no job. *)
IsNextAttempt(d, n) ==
  \/ JobsOf(d) = {} /\ n = 1
  \/ \E j \in JobsOf(d) :
       /\ n = attempt[j] + 1
       /\ \A k \in JobsOf(d) : attempt[k] <= attempt[j]

(* The INSERT of a pending job: row j for document d, attempt n. *)
InsertJob(j, d, n) ==
  /\ job[j] = "unused"
  /\ job' = [job EXCEPT ![j] = "PENDING"]
  /\ jobDoc' = [jobDoc EXCEPT ![j] = d]
  /\ attempt' = [attempt EXCEPT ![j] = n]

(* The stale sweep marks the jobs of the set js FAILED and, with them, the *)
(* documents ds; other columns of those rows are left alone.               *)
FailTogether(js, ds) ==
  /\ job' = [j \in Jobs |-> IF j \in js THEN "FAILED" ELSE job[j]]
  /\ status' = [d \in Docs |-> IF d \in ds THEN "FAILED" ELSE status[d]]
=============================================================================
