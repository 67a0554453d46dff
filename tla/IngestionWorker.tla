-------------------------- MODULE IngestionWorker --------------------------
(***************************************************************************)
(* IngestionService.process_job, the background task of one ingestion job, *)
(* cut at its commits: between two of them any other task, request or      *)
(* sweep may run.  A job is scheduled once, so its task is named by it.    *)
(*                                                                         *)
(* The task keeps one Document object in its SQLAlchemy session.  save()   *)
(* writes only the columns that differ from the values last loaded; its    *)
(* commit expires them and its refresh loads them again.  `seen` is the    *)
(* processing_status loaded, "absent" while it is expired.                 *)
(***************************************************************************)
EXTENDS DocumentStore

VARIABLES
  seen,    \* processing_status as loaded by the task of each job
  erased   \* chunk rows the open transaction of the task has deleted

workerVars == <<seen, erased>>

WorkerTypeOK ==
  /\ seen \in [Jobs -> DocStatus]
  /\ erased \in [Jobs -> SUBSET ChunkRows]

WorkerInit ==
  /\ seen = [j \in Jobs |-> "absent"]
  /\ erased = [j \in Jobs |-> {}]

GoTo(j, pc) == task' = [task EXCEPT ![j] = pc]

(* The runner's finally: the session is closed, an open transaction is     *)
(* rolled back.                                                            *)
EndTask(j) ==
  /\ GoTo(j, "none")
  /\ seen' = [seen EXCEPT ![j] = "absent"]
  /\ erased' = [erased EXCEPT ![j] = {}]

-----------------------------------------------------------------------------
(* Definitions named ...Faulty are not the code: each is the operation     *)
(* named by the rest of its name with one plausible mistake in it, kept to *)
(* show that the properties notice the mistake.                            *)

(* The UPDATE ... WHERE status = 'pending' is one statement: it either     *)
(* takes the job or matches no row, and then the task returns.  The        *)
(* session is new, nothing is loaded.                                      *)
ClaimJob(j) ==
  /\ task[j] = "queued"
  /\ job[j] = "PENDING"
  /\ job' = [job EXCEPT ![j] = "RUNNING"]
  /\ GoTo(j, "claimed")
  /\ seen' = [seen EXCEPT ![j] = "absent"]
  /\ UNCHANGED <<docVars, jobDoc, attempt, provider, erased>>

(* A task whose claim matched no row loads its job and goes on. *)
SkipJobFaulty(j) ==
  /\ task[j] = "queued"
  /\ JobExists(j) /\ job[j] # "PENDING"
  /\ GoTo(j, "claimed")
  /\ UNCHANGED <<docVars, jobVars, provider, workerVars>>

SkipJob(j) ==
  /\ task[j] = "queued"
  /\ job[j] # "PENDING"
  /\ EndTask(j)
  /\ UNCHANGED <<docVars, jobVars, provider>>

(* get_by_id after the claim, and the refresh() of each save. *)
LoadDocument(j) ==
  /\ task[j] \in {"claimed", "started", "extracting", "chunking", "embedding", "indexing"}
  /\ seen[j] = "absent"
  /\ RowExists(jobDoc[j])
  /\ seen' = [seen EXCEPT ![j] = status[jobDoc[j]]]
  /\ UNCHANGED <<docVars, jobVars, task, provider, erased>>

(* A save of the document with a new stage, and with PROCESSING unless     *)
(* that is what was loaded.                                                *)
SaveStage(j, stage) ==
  LET d == jobDoc[j] IN
  /\ seen[j] # "absent"
  /\ RowExists(d)
  /\ status' = [status EXCEPT ![d] = IF seen[j] = "PROCESSING" THEN @ ELSE "PROCESSING"]
  /\ seen' = [seen EXCEPT ![j] = "absent"]
  /\ GoTo(j, stage)
  /\ UNCHANGED <<docProvider, file, chunks, jobVars, provider, erased>>

(* The job's status is written to the document: the enums resemble. *)
StartProcessingFaulty(j) ==
  /\ task[j] = "claimed"
  /\ RowExists(jobDoc[j])
  /\ status' = [status EXCEPT ![jobDoc[j]] = job[j]]
  /\ seen' = [seen EXCEPT ![j] = "absent"]
  /\ GoTo(j, "started")
  /\ UNCHANGED <<docProvider, file, chunks, jobVars, provider, erased>>

(* The document goes PROCESSING. *)
StartProcessing(j) == task[j] = "claimed" /\ SaveStage(j, "started")

(* storage.read, then stage EXTRACTING. *)
ReadFile(j) ==
  task[j] = "started" /\ jobDoc[j] \in file /\ SaveStage(j, "extracting")

(* extract_text, then stage CHUNKING. *)
ExtractText(j) == task[j] = "extracting" /\ SaveStage(j, "chunking")

(* chunk_segments returned chunks, then stage EMBEDDING. *)
ChunkText(j) == task[j] = "chunking" /\ SaveStage(j, "embedding")

(* embed_documents returned one vector per chunk, then stage INDEXING. *)
EmbedChunks(j) == task[j] = "embedding" /\ SaveStage(j, "indexing")

(* The work of a stage raises: no stored file, no text, no chunks, an      *)
(* embedding call that failed.  The session is still usable.               *)
StageRaises(j) ==
  /\ task[j] \in {"started", "extracting", "chunking", "embedding"}
  /\ GoTo(j, "failing")
  /\ UNCHANGED <<docVars, jobVars, provider, workerVars>>

(* replace_version_chunks, DELETE: it sees the rows committed so far. *)
DeleteOldChunks(j) ==
  /\ task[j] = "indexing"
  /\ seen[j] # "absent"
  /\ RowExists(jobDoc[j])
  /\ erased' = [erased EXCEPT ![j] = chunks[jobDoc[j]]]
  /\ GoTo(j, "replacing")
  /\ UNCHANGED <<docVars, jobVars, provider, seen>>

(* No unique constraint: rows committed since the DELETE stay. *)
CommitChunksFaulty(j) ==
  LET d == jobDoc[j] IN
  /\ task[j] = "replacing"
  /\ RowExists(d)
  /\ chunks' = [chunks EXCEPT ![d] = (@ \ erased[j]) \cup {[by |-> j, vector |-> provider]}]
  /\ erased' = [erased EXCEPT ![j] = {}]
  /\ GoTo(j, "refreshing")
  /\ UNCHANGED <<status, docProvider, file, jobVars, provider, seen>>

(* replace_version_chunks, INSERT and commit.  Rows another attempt        *)
(* committed since the DELETE have the same (version, chunk_index) keys.   *)
CommitChunks(j) ==
  LET d == jobDoc[j] IN
  /\ task[j] = "replacing"
  /\ RowExists(d)
  /\ chunks[d] \subseteq erased[j]
  /\ chunks' = [chunks EXCEPT ![d] = {[by |-> j, vector |-> provider]}]
  /\ erased' = [erased EXCEPT ![j] = {}]
  /\ GoTo(j, "refreshing")
  /\ UNCHANGED <<status, docProvider, file, jobVars, provider, seen>>

(* The unique constraint refuses the INSERT.  The failed flush leaves the  *)
(* session unusable, so _fail_job raises as well: the task ends in the     *)
(* runner's handler and its job stays RUNNING.                             *)
ChunkConflict(j) ==
  LET d == jobDoc[j] IN
  /\ task[j] = "replacing"
  /\ RowExists(d)
  /\ ~(chunks[d] \subseteq erased[j])
  /\ EndTask(j)
  /\ UNCHANGED <<docVars, jobVars, provider>>

(* refresh() of the inserted rows finds them, or raises because another    *)
(* attempt or a delete has removed them since the commit.                  *)
RefreshChunks(j) ==
  /\ task[j] = "refreshing"
  /\ GoTo(j, IF \E c \in chunks[jobDoc[j]] : c.by = j THEN "indexed" ELSE "failing")
  /\ UNCHANGED <<docVars, jobVars, provider, workerVars>>

(* First commit of a success: the job, whatever its status is by now. *)
CompleteJob(j) ==
  /\ task[j] = "indexed"
  /\ JobExists(j)
  /\ job' = [job EXCEPT ![j] = "COMPLETED"]
  /\ GoTo(j, "jobDone")
  /\ UNCHANGED <<docVars, jobDoc, attempt, provider, workerVars>>

(* Second commit of a success: the document and the provider it used. *)
CompleteDocument(j) ==
  LET d == jobDoc[j] IN
  /\ task[j] = "jobDone"
  /\ RowExists(d)
  /\ status' = [status EXCEPT ![d] = "COMPLETED"]
  /\ docProvider' = [docProvider EXCEPT ![d] = provider]
  /\ EndTask(j)
  /\ UNCHANGED <<file, chunks, jobVars, provider>>

(* The failure is recorded on the document only. *)
FailJobFaulty(j) ==
  /\ task[j] = "failing"
  /\ JobExists(j)
  /\ GoTo(j, "jobFailed")
  /\ UNCHANGED <<docVars, jobVars, provider, workerVars>>

(* _fail_job, first commit: the job, whatever its status is by now. *)
FailJob(j) ==
  /\ task[j] = "failing"
  /\ JobExists(j)
  /\ job' = [job EXCEPT ![j] = "FAILED"]
  /\ GoTo(j, "jobFailed")
  /\ UNCHANGED <<docVars, jobDoc, attempt, provider, workerVars>>

(* The failure is recorded on the job only. *)
FailDocumentFaulty(j) ==
  /\ task[j] = "jobFailed"
  /\ EndTask(j)
  /\ UNCHANGED <<docVars, jobVars, provider>>

(* The save merges a copy: a row that is gone is inserted again. *)
FailDocumentMergeFaulty(j) ==
  /\ task[j] = "jobFailed"
  /\ status' = [status EXCEPT ![jobDoc[j]] = "FAILED"]
  /\ EndTask(j)
  /\ UNCHANGED <<docProvider, file, chunks, jobVars, provider>>

(* _fail_job, second commit: the document. *)
FailDocument(j) ==
  LET d == jobDoc[j] IN
  /\ task[j] = "jobFailed"
  /\ RowExists(d)
  /\ status' = [status EXCEPT ![d] = "FAILED"]
  /\ EndTask(j)
  /\ UNCHANGED <<docProvider, file, chunks, jobVars, provider>>

(* The document was deleted under the task.  Every later step finds no row *)
(* (None, StaleDataError, a foreign key error) and the task ends.          *)
DocumentVanished(j) ==
  /\ task[j] \notin {"none", "queued", "refreshing"}
  /\ ~RowExists(jobDoc[j])
  /\ EndTask(j)
  /\ UNCHANGED <<docVars, jobVars, provider>>

TaskStep(j) ==
  \/ ClaimJob(j) \/ SkipJob(j) \/ LoadDocument(j) \/ StartProcessing(j)
  \/ ReadFile(j) \/ ExtractText(j) \/ ChunkText(j) \/ EmbedChunks(j)
  \/ StageRaises(j)
  \/ DeleteOldChunks(j) \/ CommitChunks(j) \/ ChunkConflict(j)
  \/ RefreshChunks(j)
  \/ CompleteJob(j) \/ CompleteDocument(j) \/ FailJob(j) \/ FailDocument(j)
  \/ DocumentVanished(j)
=============================================================================
