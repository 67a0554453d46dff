-------------------------- MODULE DocumentRequests -------------------------
(***************************************************************************)
(* The admin requests that change documents: upload, reprocess and delete  *)
(* (DocumentService and its routes), cut at their commits and storage      *)
(* calls.  A request runs in one thread of the API; when its handler       *)
(* returns, the background task it scheduled may start.                    *)
(***************************************************************************)
EXTENDS DocumentStore

CONSTANTS
  Requests,  \* request slots: how many admin requests may be in flight
  Faults     \* whether a database or storage call of a request may fail

ASSUME FaultsAssumption == Faults \in BOOLEAN

VARIABLE req  \* for each slot, where its handler is and what it holds

RequestPc == {"idle", "stored", "saved", "loaded", "free", "checked",
              "reopened", "created", "unlinking"}

(* n: the attempt number computed; loaded: the processing_status loaded. *)
RequestState == [pc : RequestPc, doc : Docs \cup {None}, job : Jobs \cup {None},
                 n : Nat, loaded : DocStatus]

Idle == [pc |-> "idle", doc |-> None, job |-> None, n |-> 0, loaded |-> "absent"]

RequestTypeOK == req \in [Requests -> RequestState]

RequestInit == req = [r \in Requests |-> Idle]

Begin(r, pc, d, n) ==
  req' = [req EXCEPT ![r] = [pc |-> pc, doc |-> d, job |-> None, n |-> n,
                             loaded |-> status[d]]]

Proceed(r, pc) == req' = [req EXCEPT ![r].pc = pc]

Return(r) == req' = [req EXCEPT ![r] = Idle]

(* Bound: a request that will insert a job starts only while Jobs has an   *)
(* identity left for it.                                                   *)
JobLeft ==
  Cardinality({r \in Requests : req[r].pc \in {"stored", "saved", "loaded", "free",
                                               "checked", "reopened"}})
    < Cardinality({j \in Jobs : job[j] = "unused"})

-----------------------------------------------------------------------------
(* upload: validate_upload, then the bytes go to storage. *)
StoreUpload(r, d) ==
  /\ req[r].pc = "idle"
  /\ status[d] = "absent"
  /\ d \notin file
  /\ JobLeft
  /\ file' = file \cup {d}
  /\ Begin(r, "stored", d, 1)
  /\ UNCHANGED <<status, docProvider, chunks, jobVars, task, provider>>

(* upload: add_document commits the document and its version 1. *)
AddDocument(r) ==
  /\ req[r].pc = "stored"
  /\ status' = [status EXCEPT ![req[r].doc] = "PENDING"]
  /\ Proceed(r, "saved")
  /\ UNCHANGED <<docProvider, file, chunks, jobVars, task, provider>>

(* upload and reprocess: create_ingestion_job commits the pending job. *)
CreateJob(r, j) ==
  /\ req[r].pc \in {"saved", "reopened"}
  /\ RowExists(req[r].doc)
  /\ InsertJob(j, req[r].doc, req[r].n)
  /\ req' = [req EXCEPT ![r].pc = "created", ![r].job = j]
  /\ UNCHANGED <<docVars, task, provider>>

(* The rest of both handlers: get_document (404 once the document is       *)
(* deleted), the audit entry, and the background task.                     *)
ScheduleJob(r) ==
  /\ req[r].pc = "created"
  /\ task' = IF RowExists(req[r].doc)
             THEN [task EXCEPT ![req[r].job] = "queued"] ELSE task
  /\ Return(r)
  /\ UNCHANGED <<docVars, jobVars, provider>>

(* upload: a failure after the bytes were stored (an insert or a reload    *)
(* fails, or the document was deleted meanwhile) removes them again.  Rows *)
(* that were committed stay.  The removal itself may fail.                 *)
UploadFails(r) ==
  /\ \/ req[r].pc = "stored" /\ Faults
     \/ /\ req[r].pc \in {"saved", "created"}
        /\ req[r].loaded = "absent"
        /\ Faults \/ ~RowExists(req[r].doc)
  /\ file' \in {file \ {req[r].doc}} \cup (IF Faults THEN {file} ELSE {})
  /\ Return(r)
  /\ UNCHANGED <<status, docProvider, chunks, jobVars, task, provider>>

(* reprocess: get_by_id, with the 404 and the 409 already_processing.      *)
BeginReprocess(r, d) ==
  /\ req[r].pc = "idle"
  /\ RowExists(d)
  /\ status[d] # "PROCESSING"
  /\ JobLeft
  /\ Begin(r, "loaded", d, 0)
  /\ UNCHANGED <<docVars, jobVars, task, provider>>

(* The 409 for a pending or running job is missing. *)
CheckActiveJobFaulty(r) ==
  /\ req[r].pc = "loaded"
  /\ Proceed(r, "free")
  /\ UNCHANGED <<docVars, jobVars, task, provider>>

(* reprocess: no pending or running job, in a query of its own. *)
CheckActiveJob(r) ==
  /\ req[r].pc = "loaded"
  /\ ~HasActiveJob(req[r].doc)
  /\ Proceed(r, "free")
  /\ UNCHANGED <<docVars, jobVars, task, provider>>

(* reprocess: the attempt number, in the next query. *)
NumberAttempt(r) ==
  /\ req[r].pc = "free"
  /\ \E n \in {1} \cup {attempt[j] + 1 : j \in Jobs} :
       /\ IsNextAttempt(req[r].doc, n)
       /\ req' = [req EXCEPT ![r].pc = "checked", ![r].n = n]
  /\ UNCHANGED <<docVars, jobVars, task, provider>>

(* reprocess: the document goes back to PENDING, in a commit of its own;   *)
(* the column is written only when another status was loaded.              *)
ReopenDocument(r) ==
  LET d == req[r].doc IN
  /\ req[r].pc = "checked"
  /\ RowExists(d)
  /\ status' = IF req[r].loaded = "PENDING" THEN status
               ELSE [status EXCEPT ![d] = "PENDING"]
  /\ Proceed(r, "reopened")
  /\ UNCHANGED <<docProvider, file, chunks, jobVars, task, provider>>

(* reprocess answers an error: the 409 duplicate_ingestion_job, a document *)
(* deleted meanwhile, or a query or commit that fails.  So may the reads   *)
(* after the job was created, of either handler; what was committed stays. *)
RequestFails(r) ==
  /\ \/ Faults /\ req[r].pc \in {"loaded", "free", "checked", "reopened", "created"}
     \/ req[r].pc = "loaded" /\ HasActiveJob(req[r].doc)
     \/ req[r].pc \in {"checked", "reopened"} /\ ~RowExists(req[r].doc)
  /\ Return(r)
  /\ UNCHANGED <<docVars, jobVars, task, provider>>

(* The file goes before the row. *)
DeleteFileFirstFaulty(r, d) ==
  /\ req[r].pc = "idle"
  /\ RowExists(d)
  /\ file' = file \ {d}
  /\ Begin(r, "unlinking", d, 0)
  /\ UNCHANGED <<status, docProvider, chunks, jobVars, task, provider>>

(* The file is forgotten. *)
DeleteRowOnlyFaulty(r, d) ==
  /\ req[r].pc = "idle"
  /\ RowExists(d)
  /\ status' = [status EXCEPT ![d] = "deleted"]
  /\ job' = [j \in Jobs |-> IF j \in JobsOf(d) THEN "gone" ELSE job[j]]
  /\ chunks' = [chunks EXCEPT ![d] = {}]
  /\ UNCHANGED <<docProvider, file, jobDoc, attempt, req, task, provider>>

(* delete_document: the row goes, and by cascade its version, jobs and     *)
(* chunks.                                                                 *)
DeleteDocument(r, d) ==
  /\ req[r].pc = "idle"
  /\ RowExists(d)
  /\ status' = [status EXCEPT ![d] = "deleted"]
  /\ job' = [j \in Jobs |-> IF j \in JobsOf(d) THEN "gone" ELSE job[j]]
  /\ chunks' = [chunks EXCEPT ![d] = {}]
  /\ Begin(r, "unlinking", d, 0)
  /\ UNCHANGED <<docProvider, file, jobDoc, attempt, task, provider>>

(* delete_document: the stored file, best effort. *)
UnlinkFile(r) ==
  /\ req[r].pc = "unlinking"
  /\ file' \in {file \ {req[r].doc}} \cup (IF Faults THEN {file} ELSE {})
  /\ Return(r)
  /\ UNCHANGED <<status, docProvider, chunks, jobVars, task, provider>>

(* What a request in flight does next; its slot's thread is running.       *)
RequestContinues(r) ==
  \/ AddDocument(r) \/ (\E j \in Jobs : CreateJob(r, j)) \/ ScheduleJob(r)
  \/ UploadFails(r) \/ CheckActiveJob(r) \/ NumberAttempt(r) \/ ReopenDocument(r)
  \/ RequestFails(r) \/ UnlinkFile(r)

RequestArrives(r) ==
  \E d \in Docs : StoreUpload(r, d) \/ BeginReprocess(r, d) \/ DeleteDocument(r, d)
=============================================================================
