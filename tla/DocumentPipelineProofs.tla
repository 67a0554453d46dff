----------------------- MODULE DocumentPipelineProofs -----------------------
(***************************************************************************)
(* Proofs about DocumentPipeline for every number of documents, jobs,      *)
(* requests, providers and crashes.                                        *)
(***************************************************************************)
EXTENDS DocumentPipeline, TLAPS

-----------------------------------------------------------------------------
(* The inductive invariant, in parts.                                      *)

(* Program counters of a task that has claimed its job. *)
Claimed == TaskPc \ {"none", "queued"}

(* ... that has also set its document PROCESSING, or left it so. *)
Working == Claimed \ {"claimed"}

(* A task whose document is PROCESSING unless somebody changed that since. *)
HasProcessing(j) ==
  task[j] \in Working \/ (task[j] = "claimed" /\ seen[j] = "PROCESSING")

(* ... that has committed its chunks and not failed since. *)
Indexed == {"refreshing", "indexed", "jobDone"}

(* A stopped API runs no task and no request. *)
DownIsIdle ==
  ~up => /\ \A j \in Jobs : task[j] = "none"
         /\ \A r \in Requests : req[r] = Idle

(* Identities that are held denote rows that were inserted. *)
JobsAreKnown ==
  /\ \A j \in Jobs : job[j] # "unused" => jobDoc[j] \in Docs
  /\ \A j \in Jobs : task[j] # "none" => job[j] # "unused"
  /\ \A r \in Requests : req[r].pc # "idle" => req[r].doc \in Docs
  /\ \A r \in Requests : req[r].pc = "created" =>
       req[r].job \in Jobs /\ job[req[r].job] # "unused"

(* A task past its claim does not work on a job still to be claimed. *)
ClaimedJobs == \A j \in Jobs : task[j] \in Claimed => job[j] # "PENDING"

(* The chunks of a document are those of one of its attempts. *)
OneWriter ==
  \A d \in Docs : \A c \in chunks[d] :
    /\ job[c.by] # "unused"
    /\ jobDoc[c.by] = d
    /\ \A e \in chunks[d] : e = c

(* A task past its INSERT finds its document indexed with the provider of  *)
(* this process, by itself or by a concurrent task, or finds it deleted.   *)
IndexedHere ==
  \A j \in Jobs : task[j] \in Indexed /\ RowExists(jobDoc[j]) =>
    /\ chunks[jobDoc[j]] # {}
    /\ \A c \in chunks[jobDoc[j]] : c.vector = provider

(* COMPLETED means indexed, with the provider recorded on the document. *)
CompletedMatches ==
  \A d \in Docs : status[d] = "COMPLETED" =>
    /\ chunks[d] # {}
    /\ \A c \in chunks[d] : c.vector = docProvider[d]

(* Since a task set or found its document PROCESSING, only a task of the   *)
(* same process can have completed it.                                     *)
CompletedHere ==
  \A j \in Jobs : HasProcessing(j) /\ status[jobDoc[j]] = "COMPLETED" =>
    docProvider[jobDoc[j]] = provider

(* The cascade: an attempt has a row exactly while its document has one.   *)
JobRows ==
  \A j \in Jobs : /\ JobExists(j) => RowExists(jobDoc[j])
                  /\ job[j] = "gone" => status[jobDoc[j]] = "deleted"

(* A sweep that has read fails only documents of the jobs it fails. *)
SweptRows ==
  /\ \A j \in sweep.jobs : job[j] # "unused"
  /\ \A d \in sweep.docs : \E j \in sweep.jobs : jobDoc[j] = d

(* A document being uploaded is new, its bytes are stored and no other     *)
(* request uploads it; any other document a request holds once had a row.  *)
RequestRows ==
  \A r \in Requests :
    /\ req[r].pc = "stored" => /\ status[req[r].doc] = "absent"
                               /\ req[r].doc \in file
                               /\ \A q \in Requests :
                                    req[q].pc = "stored" /\ req[q].doc = req[r].doc => q = r
    /\ req[r].pc \notin {"idle", "stored"} => status[req[r].doc] # "absent"
    /\ req[r].pc = "unlinking" => status[req[r].doc] = "deleted"

(* The base of both arguments. *)
RowInv ==
  /\ TypeOK
  /\ DownIsIdle
  /\ JobsAreKnown
  /\ JobRows
  /\ SweptRows
  /\ RequestRows

Indexing == ClaimedJobs /\ OneWriter /\ IndexedHere /\ CompletedMatches /\ CompletedHere

IndexInv == RowInv /\ Indexing

-----------------------------------------------------------------------------
(* Type correctness.  It needs to know that the identities held in program *)
(* counters and requests denote rows.                                      *)

(* The first state is typed.                                               *)
LEMMA InitTyped == Init => TypeOK /\ DownIsIdle /\ JobsAreKnown
  <1> SUFFICES ASSUME Init PROVE TypeOK /\ DownIsIdle /\ JobsAreKnown
    OBVIOUS
  <1>1. StoreTypeOK
    BY DEF Init, StoreInit, StoreTypeOK, DocStatus, JobStatus, Active, TaskPc
  <1>2. WorkerTypeOK /\ SweepTypeOK
    BY DEF Init, WorkerInit, SweepInit, WorkerTypeOK, SweepTypeOK, SweepState, NoSweep,
           DocStatus
  <1>3. RequestTypeOK
    BY DEF Init, RequestInit, RequestTypeOK, RequestState, Idle, RequestPc, DocStatus
  <1>4. up = TRUE /\ crashes \in 0..MaxCrashes
    BY MaxCrashesAssumption DEF Init
  <1>5. JobsAreKnown
    BY DEF Init, StoreInit, RequestInit, Idle, JobsAreKnown
  <1>6. QED
    BY <1>1, <1>2, <1>3, <1>4, <1>5 DEF TypeOK, DownIsIdle

(* What every step of a task leaves alone, and who it is about. *)
LEMMA TaskFrame ==
  ASSUME TypeOK, JobsAreKnown, NEW j \in Jobs, Task(j)
  PROVE  /\ task[j] # "none"
         /\ jobDoc[j] \in Docs
         /\ UNCHANGED <<req, sweep, up, crashes, file, jobDoc, attempt, provider>>
  <1>1. /\ task[j] # "none"
        /\ UNCHANGED <<req, sweep, up, crashes, file, jobDoc, attempt, provider>>
    BY DEF Task, TaskStep, ClaimJob, SkipJob, LoadDocument, StartProcessing, ReadFile, ExtractText,
           ChunkText, EmbedChunks, SaveStage, StageRaises, DeleteOldChunks, CommitChunks,
           ChunkConflict, RefreshChunks, CompleteJob, CompleteDocument, FailJob,
           FailDocument, DocumentVanished, docVars, jobVars, workerVars
  <1>2. QED
    BY <1>1 DEF JobsAreKnown

(* A step of a task keeps the types.                                       *)
LEMMA TaskTyped ==
  ASSUME TypeOK, JobsAreKnown, NEW j \in Jobs, Task(j)
  PROVE  TypeOK' /\ JobsAreKnown'
  <1> USE DEF GoTo, EndTask, docVars, jobVars, workerVars, TypeOK, StoreTypeOK,
              WorkerTypeOK, DocStatus, Live, JobStatus, Active
  <1>1. /\ task[j] # "none"
        /\ jobDoc[j] \in Docs
        /\ UNCHANGED <<req, sweep, up, crashes, file, jobDoc, attempt, provider>>
    BY TaskFrame
  <1> DEFINE Goal == /\ StoreTypeOK' /\ WorkerTypeOK'
                     /\ \A k \in Jobs : task'[k] # "none" => task[k] # "none"
                     /\ \A k \in Jobs : job'[k] = "unused" <=> job[k] = "unused"
  <1> SUFFICES Goal
    <2>1. ASSUME Goal PROVE TypeOK'
      BY <1>1, <2>1 DEF RequestTypeOK, SweepTypeOK
    <2>2. ASSUME Goal PROVE JobsAreKnown'
      BY <1>1, <2>2 DEF JobsAreKnown
    <2>3. QED
      BY <2>1, <2>2
  <1>2. CASE ClaimJob(j)
    BY <1>2, <1>1 DEF ClaimJob, TaskPc
  <1>3. CASE SkipJob(j)
    BY <1>3, <1>1 DEF SkipJob, TaskPc
  <1>4. CASE LoadDocument(j)
    BY <1>4, <1>1 DEF LoadDocument
  <1>5. ASSUME NEW stage \in TaskPc, SaveStage(j, stage) PROVE Goal
    BY <1>5, <1>1 DEF SaveStage
  <1>6. CASE StartProcessing(j) \/ ReadFile(j) \/ ExtractText(j) \/ ChunkText(j) \/ EmbedChunks(j)
    BY <1>6, <1>5 DEF StartProcessing, ReadFile, ExtractText, ChunkText, EmbedChunks, TaskPc
  <1>7. CASE StageRaises(j)
    BY <1>7, <1>1 DEF StageRaises, TaskPc
  <1>8. CASE DeleteOldChunks(j)
    BY <1>8, <1>1 DEF DeleteOldChunks, TaskPc
  <1>9. CASE CommitChunks(j)
    BY <1>9, <1>1 DEF CommitChunks, TaskPc, ChunkRows
  <1>10. CASE ChunkConflict(j)
    BY <1>10, <1>1 DEF ChunkConflict, TaskPc
  <1>11. CASE RefreshChunks(j)
    BY <1>11, <1>1 DEF RefreshChunks, TaskPc
  <1>12. CASE CompleteJob(j)
    BY <1>12, <1>1 DEF CompleteJob, JobExists, TaskPc
  <1>13. CASE CompleteDocument(j)
    BY <1>13, <1>1 DEF CompleteDocument, TaskPc
  <1>14. CASE FailJob(j)
    BY <1>14, <1>1 DEF FailJob, JobExists, TaskPc
  <1>15. CASE FailDocument(j)
    BY <1>15, <1>1 DEF FailDocument, TaskPc
  <1>16. CASE DocumentVanished(j)
    BY <1>16, <1>1 DEF DocumentVanished, TaskPc
  <1> QED
    BY <1>2, <1>3, <1>4, <1>6, <1>7, <1>8, <1>9, <1>10, <1>11, <1>12, <1>13, <1>14, <1>15, <1>16
       DEF Task, TaskStep

(* A step of a request keeps the types.                                    *)
LEMMA RequestTyped ==
  ASSUME TypeOK, JobsAreKnown, NEW r \in Requests, Request(r)
  PROVE  TypeOK' /\ JobsAreKnown'
  <1> USE DEF docVars, jobVars, workerVars, TypeOK, StoreTypeOK, RequestTypeOK,
              RequestState, RequestPc, DocStatus, Live, JobStatus, Active
  <1>1. /\ UNCHANGED <<seen, erased, sweep, up, crashes>>
        /\ req[r] \in RequestState
        /\ req[r].pc # "idle" => req[r].doc \in Docs
    BY DEF Request, JobsAreKnown
  <1>2. Idle \in RequestState /\ Idle.pc = "idle"
    BY DEF Idle
  <1> DEFINE Goal ==
        /\ StoreTypeOK' /\ RequestTypeOK'
        /\ \A j \in Jobs : job[j] # "unused" => job'[j] # "unused" /\ jobDoc'[j] = jobDoc[j]
        /\ \A j \in Jobs : job[j] = "unused" /\ job'[j] # "unused" => jobDoc'[j] \in Docs
        /\ \A j \in Jobs : task'[j] # "none" => job'[j] # "unused"
        /\ \A q \in Requests : q # r => req'[q] = req[q]
        /\ req'[r].pc # "idle" => req'[r].doc \in Docs
        /\ req'[r].pc = "created" => req'[r].job \in Jobs /\ job'[req'[r].job] # "unused"
  <1> SUFFICES Goal
    <2>1. ASSUME Goal PROVE TypeOK'
      BY <1>1, <2>1 DEF SweepTypeOK, WorkerTypeOK
    <2>2. ASSUME Goal PROVE JobsAreKnown'
      <3>1. \A j \in Jobs : job'[j] # "unused" => jobDoc'[j] \in Docs
        BY <2>2 DEF JobsAreKnown
      <3>2. \A q \in Requests : req'[q].pc # "idle" => req'[q].doc \in Docs
        BY <2>2 DEF JobsAreKnown
      <3>3. \A q \in Requests : req'[q].pc = "created" =>
              req'[q].job \in Jobs /\ job'[req'[q].job] # "unused"
        BY <2>2 DEF JobsAreKnown
      <3>4. QED
        BY <2>2, <3>1, <3>2, <3>3 DEF JobsAreKnown
    <2>3. QED
      BY <2>1, <2>2
  <1>3. ASSUME NEW d \in Docs, StoreUpload(r, d) PROVE Goal
    BY <1>1, <1>3 DEF StoreUpload, Begin, JobsAreKnown
  <1>4. ASSUME NEW d \in Docs, BeginReprocess(r, d) PROVE Goal
    BY <1>1, <1>4 DEF BeginReprocess, Begin, JobsAreKnown
  <1>4a. CASE CheckActiveJob(r)
    BY <1>1, <1>4a DEF CheckActiveJob, Proceed, JobsAreKnown
  <1>4b. CASE NumberAttempt(r)
    <2>1. PICK n \in {1} \cup {attempt[j] + 1 : j \in Jobs} :
            req' = [req EXCEPT ![r].pc = "checked", ![r].n = n]
      BY <1>4b DEF NumberAttempt
    <2>2. n \in Nat
      BY <1>1
    <2>3. UNCHANGED <<docVars, jobVars, task, provider>> /\ req[r].pc = "free"
      BY <1>4b DEF NumberAttempt
    <2>4. /\ req' \in [Requests -> RequestState]
          /\ req'[r].pc = "checked" /\ req'[r].doc = req[r].doc
          /\ \A q \in Requests : q # r => req'[q] = req[q]
      BY <1>1, <2>1, <2>2 DEF RequestState, RequestPc
    <2>5. QED
      BY <1>1, <2>3, <2>4 DEF JobsAreKnown
  <1>5. ASSUME NEW d \in Docs, DeleteDocument(r, d) PROVE Goal
    BY <1>1, <1>5 DEF DeleteDocument, Begin, JobsAreKnown, JobsOf, JobExists
  <1>6. CASE AddDocument(r)
    BY <1>1, <1>6 DEF AddDocument, Proceed, JobsAreKnown
  <1>7. ASSUME NEW j \in Jobs, CreateJob(r, j) PROVE Goal
    BY <1>1, <1>7 DEF CreateJob, InsertJob, JobsAreKnown
  <1>8. CASE ScheduleJob(r)
    BY <1>1, <1>2, <1>8 DEF ScheduleJob, Return, JobsAreKnown, TaskPc
  <1>9. CASE UploadFails(r)
    BY <1>1, <1>2, <1>9 DEF UploadFails, Return, JobsAreKnown
  <1>10. CASE ReopenDocument(r)
    BY <1>1, <1>10 DEF ReopenDocument, Proceed, JobsAreKnown
  <1>11. CASE RequestFails(r)
    BY <1>1, <1>2, <1>11 DEF RequestFails, Return, JobsAreKnown
  <1>12. CASE UnlinkFile(r)
    BY <1>1, <1>2, <1>12 DEF UnlinkFile, Return, JobsAreKnown
  <1> QED
    BY <1>3, <1>4, <1>4a, <1>4b, <1>5, <1>6, <1>7, <1>8, <1>9, <1>10, <1>11, <1>12
       DEF Request, RequestArrives, RequestContinues

(* The sweep, its startup form, a lost task, a crash and a restart. *)
LEMMA EnvironmentTyped ==
  ASSUME TypeOK, DownIsIdle, JobsAreKnown,
         AdminSweep \/ Crash \/ Restart \/ \E j \in Jobs : TaskLost(j)
  PROVE  TypeOK' /\ JobsAreKnown'
  <1> USE DEF docVars, jobVars, workerVars, storeVars, TypeOK, StoreTypeOK, WorkerTypeOK,
              DocStatus, Live, JobStatus, Active, DocsToFail, StaleSets, FailTogether
  <1>1. Idle \in RequestState /\ Idle.pc = "idle"
    BY DEF Idle, RequestState, RequestPc
  <1>2. NoSweep \in SweepState
    BY DEF NoSweep, SweepState
  <1>3. ASSUME NEW js \in SUBSET Jobs, SweepReads(js), AdminSweep
        PROVE  TypeOK' /\ JobsAreKnown'
    <2>1. sweep' \in SweepState
      BY <1>3 DEF SweepReads, SweepState
    <2>2. UNCHANGED <<storeVars, workerVars, req, up, crashes>>
      BY <1>3 DEF SweepReads, AdminSweep
    <2>3. QED
      BY <2>1, <2>2 DEF SweepTypeOK, RequestTypeOK, JobsAreKnown
  <1>3a. ASSUME SweepReadsDocuments, AdminSweep
        PROVE  TypeOK' /\ JobsAreKnown'
    <2>1. sweep' \in SweepState
      BY <1>3a DEF SweepReadsDocuments, SweepTypeOK, SweepState
    <2>2. UNCHANGED <<storeVars, workerVars, req, up, crashes>>
      BY <1>3a DEF SweepReadsDocuments, AdminSweep
    <2>3. QED
      BY <2>1, <2>2 DEF SweepTypeOK, RequestTypeOK, JobsAreKnown
  <1>4. ASSUME SweepCommits, AdminSweep
        PROVE  TypeOK' /\ JobsAreKnown'
    <2>1. sweep.jobs \in SUBSET Jobs /\ sweep.docs \in SUBSET Docs
      BY DEF SweepTypeOK, SweepState
    <2>2. StoreTypeOK' /\ \A j \in Jobs : job'[j] = "unused" <=> job[j] = "unused"
      BY <1>4, <2>1 DEF SweepCommits, JobExists
    <2>3. sweep' = NoSweep
          /\ UNCHANGED <<jobDoc, task, workerVars, req, up, crashes>>
      BY <1>4 DEF SweepCommits, AdminSweep
    <2>4. QED
      BY <2>2, <2>3, <1>2 DEF SweepTypeOK, RequestTypeOK, JobsAreKnown
  <1>5. CASE Crash
    <2>1. up' = FALSE /\ crashes' \in 0..MaxCrashes
      BY <1>5, MaxCrashesAssumption DEF Crash
    <2>2. StoreTypeOK' /\ WorkerTypeOK'
      BY <1>5 DEF Crash, TaskPc
    <2>3. RequestTypeOK' /\ SweepTypeOK'
      BY <1>5, <1>1, <1>2 DEF Crash, RequestTypeOK, SweepTypeOK
    <2>4. JobsAreKnown'
      BY <1>5, <1>1 DEF Crash, JobsAreKnown
    <2>5. QED
      BY <2>1, <2>2, <2>3, <2>4
  <1>6. CASE Restart
    <2>1. StoreTypeOK' /\ \A j \in Jobs : job'[j] = "unused" <=> job[j] = "unused"
      BY <1>6 DEF Restart, StartupSweep
    <2>2. up' = TRUE /\ UNCHANGED <<jobDoc, task, workerVars, req, sweep, crashes>>
      BY <1>6 DEF Restart
    <2>3. QED
      BY <2>1, <2>2 DEF SweepTypeOK, RequestTypeOK, JobsAreKnown
  <1>7. ASSUME NEW j \in Jobs, TaskLost(j)
        PROVE  TypeOK' /\ JobsAreKnown'
    BY <1>7 DEF TaskLost, EndTask, GoTo, TaskPc, SweepTypeOK, RequestTypeOK, JobsAreKnown
  <1>8. QED
    BY <1>3, <1>3a, <1>4, <1>5, <1>6, <1>7 DEF AdminSweep

(* While the API is stopped nothing is under way in it.                    *)
LEMMA DownStaysIdle ==
  ASSUME TypeOK, DownIsIdle, JobsAreKnown, [Next]_vars
  PROVE  DownIsIdle'
  <1>1. ASSUME NEW j \in Jobs, Task(j) PROVE DownIsIdle'
    BY <1>1, TaskFrame DEF DownIsIdle, Task
  <1>2. ASSUME NEW j \in Jobs, TaskLost(j) PROVE DownIsIdle'
    BY <1>2 DEF TaskLost, DownIsIdle
  <1>3. ASSUME NEW r \in Requests, Request(r) PROVE DownIsIdle'
    BY <1>3 DEF Request, DownIsIdle
  <1>4. CASE AdminSweep
    BY <1>4 DEF AdminSweep, DownIsIdle
  <1>5. CASE Crash
    BY <1>5 DEF Crash, DownIsIdle
  <1>6. CASE Restart
    BY <1>6 DEF Restart, DownIsIdle
  <1>7. CASE UNCHANGED vars
    BY <1>7 DEF vars, storeVars, DownIsIdle
  <1>8. QED
    BY <1>1, <1>2, <1>3, <1>4, <1>5, <1>6, <1>7 DEF Next

(* Every step keeps the types.                                             *)
LEMMA NextTyped ==
  ASSUME TypeOK, DownIsIdle, JobsAreKnown, [Next]_vars
  PROVE  TypeOK' /\ DownIsIdle' /\ JobsAreKnown'
  <1>1. CASE UNCHANGED vars
    BY <1>1, DownStaysIdle
       DEF vars, storeVars, docVars, jobVars, workerVars, TypeOK, StoreTypeOK, WorkerTypeOK,
           RequestTypeOK, SweepTypeOK, JobsAreKnown
  <1>2. CASE Next
    BY <1>2, DownStaysIdle, TaskTyped, RequestTyped, EnvironmentTyped DEF Next
  <1>3. QED
    BY <1>1, <1>2

(* Every variable keeps its type: in particular no job is claimed, settled *)
(* or queued without a row, and no request holds a document it never read. *)
THEOREM TypeCorrect == Spec => [](TypeOK /\ DownIsIdle /\ JobsAreKnown)
  <1>1. Init => TypeOK /\ DownIsIdle /\ JobsAreKnown
    BY InitTyped
  <1>2. (TypeOK /\ DownIsIdle /\ JobsAreKnown) /\ [Next]_vars
          => (TypeOK /\ DownIsIdle /\ JobsAreKnown)'
    BY NextTyped
  <1>3. QED
    BY <1>1, <1>2, PTL DEF Spec

-----------------------------------------------------------------------------
(* Rows: which documents and jobs have one, and who holds their identity.  *)

Rows == JobRows /\ SweptRows /\ RequestRows

(* A step that only moves statuses between live ones keeps all rows. *)
LEMMA RowsStay ==
  ASSUME RowInv,
         \A d \in Docs : status'[d] = status[d] \/ (RowExists(d) /\ RowExists(d)'),
         \A k \in Jobs : job'[k] = job[k] \/ (JobExists(k) /\ JobExists(k)'),
         jobDoc' = jobDoc, req' = req, file' = file, sweep' \in {sweep, NoSweep}
  PROVE  Rows'
  <1> USE DEF RowInv, RowExists, JobExists, Live
  <1>1. JobRows'
    BY DEF JobRows, JobsAreKnown
  <1>2. SweptRows'
    <2>1. sweep.jobs \in SUBSET Jobs
      BY DEF TypeOK, SweepTypeOK, SweepState
    <2>2. QED
      BY <2>1 DEF SweptRows, NoSweep
  <1>3. RequestRows'
    BY DEF RequestRows, JobsAreKnown
  <1>4. QED
    BY <1>1, <1>2, <1>3 DEF Rows

(* A task moves statuses of rows and creates or removes none. *)
LEMMA TaskKeepsRows ==
  ASSUME RowInv, NEW j \in Jobs, Task(j)
  PROVE  /\ \A d \in Docs : status'[d] = status[d] \/ (RowExists(d) /\ RowExists(d)')
         /\ \A k \in Jobs : job'[k] = job[k] \/ (JobExists(k) /\ JobExists(k)')
  <1>1. /\ task[j] # "none"
        /\ jobDoc[j] \in Docs
        /\ UNCHANGED <<req, sweep, up, crashes, file, jobDoc, attempt, provider>>
    BY TaskFrame DEF RowInv
  <1> USE DEF docVars, jobVars, workerVars, RowInv, TypeOK, StoreTypeOK, RowExists,
              JobExists, Live
  <1>2. CASE ClaimJob(j)
    BY <1>2 DEF ClaimJob
  <1>3. CASE LoadDocument(j)
    BY <1>3 DEF LoadDocument
  <1>4. CASE StartProcessing(j) \/ ReadFile(j) \/ ExtractText(j) \/ ChunkText(j) \/ EmbedChunks(j)
    BY <1>4 DEF StartProcessing, ReadFile, ExtractText, ChunkText, EmbedChunks, SaveStage
  <1>5. CASE SkipJob(j) \/ StageRaises(j) \/ DeleteOldChunks(j) \/ CommitChunks(j)
             \/ ChunkConflict(j) \/ RefreshChunks(j) \/ DocumentVanished(j)
    BY <1>5 DEF SkipJob, StageRaises, DeleteOldChunks, CommitChunks, ChunkConflict,
                RefreshChunks, DocumentVanished
  <1>6. CASE CompleteJob(j) \/ FailJob(j)
    BY <1>6 DEF CompleteJob, FailJob
  <1>7. CASE CompleteDocument(j) \/ FailDocument(j)
    BY <1>7 DEF CompleteDocument, FailDocument
  <1> QED
    BY <1>2, <1>3, <1>4, <1>5, <1>6, <1>7 DEF Task, TaskStep

(* A task leaves no row without the row it refers to.                      *)
LEMMA TaskRows ==
  ASSUME RowInv, NEW j \in Jobs, Task(j)
  PROVE  Rows'
  BY TaskKeepsRows, TaskFrame, RowsStay DEF RowInv

(* So does a sweep, which only fails documents that still have a row. *)
LEMMA SweepKeepsRows ==
  ASSUME RowInv, SweepCommits
  PROVE  /\ \A d \in Docs : status'[d] = status[d] \/ (status'[d] = "FAILED" /\ RowExists(d))
         /\ \A k \in Jobs : job'[k] = job[k] \/ (job'[k] = "FAILED" /\ JobExists(k))
  <1>1. sweep.jobs \in SUBSET Jobs /\ sweep.docs \in SUBSET Docs
    BY DEF RowInv, TypeOK, SweepTypeOK, SweepState
  <1>2. SweptRows /\ JobRows
    BY DEF RowInv
  <1>3. \A k \in Jobs : job'[k] = job[k] \/ (job'[k] = "FAILED" /\ JobExists(k))
    BY <1>1 DEF SweepCommits, FailTogether
  <1>4. ASSUME NEW d \in Docs, status'[d] # status[d]
        PROVE  status'[d] = "FAILED" /\ RowExists(d)
    BY <1>1, <1>2, <1>4 DEF SweepCommits, FailTogether, SweptRows, JobRows
  <1>5. QED
    BY <1>3, <1>4

(* Nor does a sweep, a crash, a restart or the loss of a task.             *)
LEMMA EnvironmentRows ==
  ASSUME RowInv,
         AdminSweep \/ Crash \/ Restart \/ (\E j \in Jobs : TaskLost(j)) \/ UNCHANGED vars
  PROVE  Rows'
  <1> USE DEF docVars, jobVars, workerVars, storeVars, RowExists, JobExists, Live
  <1>1. ASSUME NEW js \in SUBSET Jobs, SweepReads(js), AdminSweep
        PROVE  Rows'
    <2>1. UNCHANGED <<storeVars, req>>
      BY <1>1 DEF SweepReads, AdminSweep
    <2>2. JobRows' /\ RequestRows'
      BY <2>1 DEF RowInv, JobRows, RequestRows
    <2>3. SweptRows'
      BY <1>1, <2>1 DEF SweepReads, StaleSets, Active, DocsToFail, SweptRows
    <2>4. QED
      BY <2>2, <2>3 DEF Rows
  <1>1a. ASSUME SweepReadsDocuments, AdminSweep
        PROVE  Rows'
    <2>1. UNCHANGED <<storeVars, req>>
      BY <1>1a DEF SweepReadsDocuments, AdminSweep
    <2>2. JobRows' /\ RequestRows'
      BY <2>1 DEF RowInv, JobRows, RequestRows
    <2>3. SweptRows'
      BY <1>1a, <2>1
         DEF SweepReadsDocuments, DocsToFail, SweptRows, RowInv, TypeOK, SweepTypeOK, SweepState
    <2>4. QED
      BY <2>2, <2>3 DEF Rows
  <1>2. ASSUME SweepCommits, AdminSweep
        PROVE  Rows'
    <2>1. UNCHANGED <<jobDoc, req, file>> /\ sweep' = NoSweep
      BY <1>2 DEF SweepCommits, AdminSweep
    <2>2. QED
      BY <1>2, <2>1, SweepKeepsRows, RowsStay
  <1>3. CASE Restart
    <2>1. UNCHANGED <<jobDoc, req, file, sweep>>
      BY <1>3 DEF Restart
    <2>2. PICK js \in StaleSets : FailTogether(js, DocsToFail(js))
      BY <1>3 DEF Restart, StartupSweep
    <2>3. QED
      BY <2>1, <2>2, RowsStay DEF FailTogether, StaleSets, DocsToFail, Active
  <1>4. CASE Crash
    <2>1. UNCHANGED <<docVars, jobVars>> /\ sweep' = NoSweep /\ req' = [r \in Requests |-> Idle]
      BY <1>4 DEF Crash
    <2>2. Idle.pc = "idle"
      BY DEF Idle
    <2>3. QED
      BY <2>1, <2>2 DEF RowInv, Rows, JobRows, SweptRows, RequestRows, NoSweep
  <1>5. CASE (\E j \in Jobs : TaskLost(j)) \/ UNCHANGED vars
    BY <1>5, RowsStay DEF TaskLost, vars
  <1>6. QED
    BY <1>1, <1>1a, <1>2, <1>3, <1>4, <1>5 DEF AdminSweep

(* Nor does a request.                                                     *)
LEMMA RequestRowsKept ==
  ASSUME RowInv, NEW r \in Requests, Request(r)
  PROVE  Rows'
  <1> USE DEF docVars, jobVars, RowExists, JobExists, Live
  <1>1. sweep' = sweep /\ sweep.jobs \in SUBSET Jobs /\ sweep.docs \in SUBSET Docs
    BY DEF Request, RowInv, TypeOK, SweepTypeOK, SweepState
  <1>2. /\ req \in [Requests -> RequestState]
        /\ req[r].pc # "idle" => req[r].doc \in Docs
        /\ Idle.pc = "idle"
    BY DEF RowInv, TypeOK, RequestTypeOK, JobsAreKnown, Idle
  <1>3. /\ status \in [Docs -> DocStatus]
        /\ job \in [Jobs -> JobStatus]
        /\ jobDoc \in [Jobs -> Docs \cup {None}]
        /\ \A j \in Jobs : job[j] # "unused" => jobDoc[j] \in Docs
    BY DEF RowInv, TypeOK, StoreTypeOK, JobsAreKnown
  <1>4. JobRows /\ SweptRows /\ RequestRows
    BY DEF RowInv
  <1>5. ASSUME NEW d \in Docs, StoreUpload(r, d) PROVE Rows'
    <2>1. JobRows'
      BY <1>2, <1>3, <1>4, <1>5 DEF StoreUpload, JobRows, Begin
    <2>2. SweptRows'
      BY <1>1, <1>3, <1>4, <1>5 DEF StoreUpload, SweptRows, Begin
    <2>3. RequestRows'
      BY <1>2, <1>3, <1>4, <1>5 DEF StoreUpload, RequestRows, RequestState, Begin
    <2>4. QED
      BY <2>1, <2>2, <2>3 DEF Rows
  <1>6. ASSUME NEW d \in Docs, BeginReprocess(r, d) PROVE Rows'
    <2>1. JobRows'
      BY <1>2, <1>3, <1>4, <1>6 DEF BeginReprocess, JobRows, Begin
    <2>2. SweptRows'
      BY <1>1, <1>3, <1>4, <1>6 DEF BeginReprocess, SweptRows, Begin
    <2>3. RequestRows'
      BY <1>2, <1>3, <1>4, <1>6 DEF BeginReprocess, RequestRows, RequestState, Begin
    <2>4. QED
      BY <2>1, <2>2, <2>3 DEF Rows
  <1>7. ASSUME NEW d \in Docs, DeleteDocument(r, d) PROVE Rows'
    <2>1. JobRows'
      BY <1>2, <1>3, <1>4, <1>7 DEF DeleteDocument, JobRows, Begin, JobsOf
    <2>2. SweptRows'
      BY <1>1, <1>3, <1>4, <1>7 DEF DeleteDocument, SweptRows, Begin, JobsOf
    <2>3. RequestRows'
      BY <1>2, <1>3, <1>4, <1>7 DEF DeleteDocument, RequestRows, RequestState, Begin
    <2>4. QED
      BY <2>1, <2>2, <2>3 DEF Rows
  <1>8. CASE AddDocument(r)
    <2>1. JobRows'
      BY <1>2, <1>3, <1>4, <1>8 DEF AddDocument, JobRows, RequestRows, Proceed
    <2>2. SweptRows'
      BY <1>1, <1>3, <1>4, <1>8 DEF AddDocument, SweptRows, Proceed
    <2>3. RequestRows'
      BY <1>2, <1>3, <1>4, <1>8 DEF AddDocument, RequestRows, RequestState, Proceed
    <2>4. QED
      BY <2>1, <2>2, <2>3 DEF Rows
  <1>9. ASSUME NEW j \in Jobs, CreateJob(r, j) PROVE Rows'
    <2>1. JobRows'
      BY <1>2, <1>3, <1>4, <1>9 DEF CreateJob, JobRows, InsertJob
    <2>2. SweptRows'
      BY <1>1, <1>3, <1>4, <1>9 DEF CreateJob, SweptRows, InsertJob
    <2>3. RequestRows'
      BY <1>2, <1>3, <1>4, <1>9 DEF CreateJob, RequestRows, RequestState, InsertJob
    <2>4. QED
      BY <2>1, <2>2, <2>3 DEF Rows
  <1>10. CASE ReopenDocument(r)
    <2>1. JobRows'
      BY <1>2, <1>3, <1>4, <1>10 DEF ReopenDocument, JobRows, Proceed
    <2>2. SweptRows'
      BY <1>1, <1>3, <1>4, <1>10 DEF ReopenDocument, SweptRows, Proceed
    <2>3. RequestRows'
      BY <1>2, <1>3, <1>4, <1>10 DEF ReopenDocument, RequestRows, RequestState, Proceed
    <2>4. QED
      BY <2>1, <2>2, <2>3 DEF Rows
  <1>11. CASE UploadFails(r) \/ UnlinkFile(r)
    <2>1. JobRows'
      BY <1>2, <1>3, <1>4, <1>11 DEF UploadFails, UnlinkFile, JobRows, Return
    <2>2. SweptRows'
      BY <1>1, <1>3, <1>4, <1>11 DEF UploadFails, UnlinkFile, SweptRows, Return
    <2>3. RequestRows'
      BY <1>2, <1>3, <1>4, <1>11 DEF UploadFails, UnlinkFile, RequestRows, RequestState, Return
    <2>4. QED
      BY <2>1, <2>2, <2>3 DEF Rows
  <1>11a. CASE CheckActiveJob(r) \/ NumberAttempt(r)
    <2>1. JobRows'
      BY <1>2, <1>3, <1>4, <1>11a DEF CheckActiveJob, NumberAttempt, JobRows, Proceed
    <2>2. SweptRows'
      BY <1>1, <1>3, <1>4, <1>11a DEF CheckActiveJob, NumberAttempt, SweptRows, Proceed
    <2>3. RequestRows'
      BY <1>2, <1>3, <1>4, <1>11a
         DEF CheckActiveJob, NumberAttempt, RequestRows, RequestState, Proceed
    <2>4. QED
      BY <2>1, <2>2, <2>3 DEF Rows
  <1>12. CASE ScheduleJob(r) \/ RequestFails(r)
    <2>1. JobRows'
      BY <1>2, <1>3, <1>4, <1>12 DEF ScheduleJob, RequestFails, JobRows, Return
    <2>2. SweptRows'
      BY <1>1, <1>3, <1>4, <1>12 DEF ScheduleJob, RequestFails, SweptRows, Return
    <2>3. RequestRows'
      BY <1>2, <1>3, <1>4, <1>12 DEF ScheduleJob, RequestFails, RequestRows, RequestState, Return
    <2>4. QED
      BY <2>1, <2>2, <2>3 DEF Rows
  <1> QED
    BY <1>5, <1>6, <1>7, <1>8, <1>9, <1>10, <1>11, <1>11a, <1>12
       DEF Request, RequestArrives, RequestContinues

(* RowInv is inductive by itself.                                          *)
LEMMA RowInvInductive == RowInv /\ [Next]_vars => RowInv'
  BY NextTyped, TaskRows, RequestRowsKept, EnvironmentRows DEF RowInv, Rows, Next

(* RowInv always holds.                                                    *)
LEMMA RowInvHolds == Spec => []RowInv
  <1>1. Init => RowInv
    BY InitTyped
       DEF RowInv, Init, StoreInit, RequestInit, SweepInit, NoSweep, Idle, JobRows,
           SweptRows, RequestRows, JobExists
  <1>2. QED
    BY <1>1, RowInvInductive, PTL DEF Spec

-----------------------------------------------------------------------------
(* The index: which chunks a document has and which provider they are of.  *)

(* A step that leaves chunks alone and completes no document, and in which *)
(* no task enters one of the phases the invariant is about.                *)
LEMMA IndexStays ==
  ASSUME IndexInv,
         UNCHANGED <<chunks, docProvider, provider, jobDoc>>,
         \A d \in Docs : \/ status'[d] = status[d]
                         \/ (status'[d] # "COMPLETED" /\ (RowExists(d)' => RowExists(d))),
         \A k \in Jobs : job'[k] = job[k] \/ job'[k] \notin {"unused", "PENDING"},
         \A k \in Jobs : \/ task'[k] \notin Claimed
                         \/ task'[k] = task[k] /\ seen'[k] = seen[k]
                         \/ /\ task[k] # "none"
                            /\ job'[k] # "PENDING"
                            /\ task'[k] \in Indexed => task[k] \in Indexed
                            /\ HasProcessing(k)' => \/ HasProcessing(k)
                                                    \/ status'[jobDoc[k]] # "COMPLETED"
  PROVE  Indexing'
  <1>1. \A k \in Jobs : task[k] # "none" => jobDoc[k] \in Docs
    BY DEF IndexInv, RowInv, JobsAreKnown
  <1>2. \A k \in Jobs : task[k] \in Claimed => task[k] # "none"
    BY DEF Claimed
  <1>3. ClaimedJobs'
    BY DEF IndexInv, Indexing, ClaimedJobs
  <1>4. OneWriter'
    <2>1. \A d \in Docs : \A c \in chunks[d] : c.by \in Jobs
      BY DEF IndexInv, RowInv, TypeOK, StoreTypeOK, ChunkRows
    <2>2. QED
      BY <2>1 DEF IndexInv, Indexing, OneWriter
  <1>5. IndexedHere'
    BY <1>1, <1>2 DEF IndexInv, Indexing, IndexedHere, RowExists, Indexed, Claimed, TaskPc
  <1>6. CompletedMatches'
    BY DEF IndexInv, Indexing, CompletedMatches
  <1>7. CompletedHere'
    BY <1>1, <1>2 DEF IndexInv, Indexing, CompletedHere, HasProcessing, Working, Claimed, TaskPc
  <1>8. QED
    BY <1>3, <1>4, <1>5, <1>6, <1>7 DEF Indexing

(* A task keeps the index of one attempt and one provider.                 *)
LEMMA TaskIndex ==
  ASSUME IndexInv, NEW j \in Jobs, Task(j)
  PROVE  Indexing'
  <1>1. /\ task[j] # "none"
        /\ jobDoc[j] \in Docs
        /\ UNCHANGED <<req, sweep, up, crashes, file, jobDoc, attempt, provider>>
    BY TaskFrame DEF IndexInv, RowInv
  <1>2. /\ status \in [Docs -> DocStatus] /\ docProvider \in [Docs -> Providers \cup {None}]
        /\ chunks \in [Docs -> SUBSET ChunkRows]
        /\ job \in [Jobs -> JobStatus] /\ task \in [Jobs -> TaskPc]
        /\ seen \in [Jobs -> DocStatus] /\ provider \in Providers
    BY DEF IndexInv, RowInv, TypeOK, StoreTypeOK, WorkerTypeOK
  <1>3. Indexing /\ JobsAreKnown
    BY DEF IndexInv, RowInv
  <1> USE DEF docVars, jobVars, workerVars, GoTo, EndTask, RowExists, JobExists, Live
  <1>4. CASE ClaimJob(j)
    BY <1>1, <1>2, <1>4, IndexStays DEF ClaimJob, HasProcessing, Working, Indexed
  <1>5. CASE SkipJob(j) \/ ChunkConflict(j) \/ DocumentVanished(j) \/ FailDocument(j)
    BY <1>1, <1>2, <1>5, IndexStays
       DEF SkipJob, ChunkConflict, DocumentVanished, FailDocument, Claimed
  <1>6. CASE LoadDocument(j)
    BY <1>1, <1>2, <1>3, <1>6, IndexStays
       DEF LoadDocument, HasProcessing, Working, Claimed, Indexing, ClaimedJobs
  <1>7. CASE StartProcessing(j) \/ ReadFile(j) \/ ExtractText(j) \/ ChunkText(j) \/ EmbedChunks(j)
    <2>1. PICK stage \in {"started", "extracting", "chunking", "embedding", "indexing"} :
            SaveStage(j, stage)
      BY <1>7 DEF StartProcessing, ReadFile, ExtractText, ChunkText, EmbedChunks
    <2>2. task[j] \in {"claimed", "started", "extracting", "chunking", "embedding"}
      BY <1>7 DEF StartProcessing, ReadFile, ExtractText, ChunkText, EmbedChunks
    <2>3. /\ UNCHANGED <<chunks, docProvider, job>>
          /\ task'[j] = stage
          /\ \A k \in Jobs : k # j => task'[k] = task[k] /\ seen'[k] = seen[k]
          /\ \A d \in Docs : d # jobDoc[j] => status'[d] = status[d]
          /\ RowExists(jobDoc[j])
          /\ IF seen[j] = "PROCESSING" THEN status'[jobDoc[j]] = status[jobDoc[j]]
                                       ELSE status'[jobDoc[j]] = "PROCESSING"
      BY <1>1, <1>2, <2>1 DEF SaveStage
    <2>4. task'[j] \notin Indexed /\ task[j] \in Claimed
      BY <2>1, <2>2, <2>3 DEF Indexed, Claimed, TaskPc
    <2>5. HasProcessing(j) \/ status'[jobDoc[j]] # "COMPLETED"
      BY <2>2, <2>3 DEF HasProcessing, Working, Claimed, TaskPc
    <2>6. job'[j] # "PENDING"
      BY <1>3, <2>3, <2>4 DEF Indexing, ClaimedJobs
    <2>7. \A k \in Jobs : \/ task'[k] = task[k] /\ seen'[k] = seen[k]
                         \/ /\ task[k] # "none"
                            /\ job'[k] # "PENDING"
                            /\ task'[k] \in Indexed => task[k] \in Indexed
                            /\ HasProcessing(k)' => \/ HasProcessing(k)
                                                    \/ status'[jobDoc[k]] # "COMPLETED"
      BY <1>1, <2>3, <2>4, <2>5, <2>6
    <2>8. \A d \in Docs : \/ status'[d] = status[d]
                         \/ (status'[d] # "COMPLETED" /\ (RowExists(d)' => RowExists(d)))
      BY <1>1, <2>3
    <2>9. QED
      BY <1>1, <2>3, <2>7, <2>8, IndexStays
  <1>8. CASE StageRaises(j) \/ DeleteOldChunks(j) \/ RefreshChunks(j) \/ FailJob(j) \/ CompleteJob(j)
    BY <1>1, <1>2, <1>3, <1>8, IndexStays
       DEF StageRaises, DeleteOldChunks, RefreshChunks, FailJob, CompleteJob,
           HasProcessing, Working, Claimed, TaskPc, Indexed, Indexing, ClaimedJobs
  <1>9. CASE CommitChunks(j)
    <2> DEFINE row == [by |-> j, vector |-> provider]
    <2>1. /\ chunks' = [chunks EXCEPT ![jobDoc[j]] = {row}]
          /\ task' = [task EXCEPT ![j] = "refreshing"] /\ task[j] = "replacing"
          /\ UNCHANGED <<status, docProvider, job, seen>>
      BY <1>9 DEF CommitChunks
    <2>1a. chunks'[jobDoc[j]] = {row} /\ row.vector = provider /\ row.by = j
      BY <1>1, <1>2, <2>1
    <2>2. ClaimedJobs'
      BY <1>3, <2>1 DEF Indexing, ClaimedJobs, Claimed, TaskPc
    <2>3. OneWriter'
      <3>1. job[j] # "unused"
        BY <1>1, <1>3 DEF JobsAreKnown
      <3>2. QED
        BY <1>1, <1>2, <1>3, <2>1, <3>1 DEF Indexing, OneWriter
    <2>4. IndexedHere'
      <3>1. \A k \in Jobs : k # j /\ task'[k] \in Indexed => task[k] \in Indexed /\ jobDoc[k] \in Docs
        BY <1>2, <1>3, <2>1 DEF JobsAreKnown, Indexed
      <3>2. ASSUME NEW k \in Jobs, task'[k] \in Indexed, RowExists(jobDoc[k])'
            PROVE  /\ chunks'[jobDoc[k]] # {}
                   /\ \A c \in chunks'[jobDoc[k]] : c.vector = provider
        <4>1. CASE jobDoc[k] = jobDoc[j]
          BY <1>1, <1>2, <2>1, <2>1a, <4>1
        <4>2. CASE jobDoc[k] # jobDoc[j]
          BY <1>1, <1>2, <1>3, <2>1, <3>1, <3>2, <4>2 DEF Indexing, IndexedHere
        <4>3. QED
          BY <4>1, <4>2
      <3>3. QED
        BY <1>1, <3>2 DEF IndexedHere
    <2>5. HasProcessing(j)
      BY <2>1 DEF HasProcessing, Working, Claimed, TaskPc
    <2>6. CompletedMatches'
      <3>1. ASSUME NEW d \in Docs, status[d] = "COMPLETED"
            PROVE  chunks'[d] # {} /\ \A c \in chunks'[d] : c.vector = docProvider[d]
        <4>1. CASE d = jobDoc[j]
          <5>1. docProvider[d] = provider
            BY <1>3, <2>5, <3>1, <4>1 DEF Indexing, CompletedHere
          <5>2. QED
            BY <2>1a, <4>1, <5>1
        <4>2. CASE d # jobDoc[j]
          BY <1>2, <1>3, <2>1, <3>1, <4>2 DEF Indexing, CompletedMatches
        <4>3. QED
          BY <4>1, <4>2
      <3>2. QED
        BY <2>1, <3>1 DEF CompletedMatches
    <2>7. CompletedHere'
      BY <1>1, <1>2, <1>3, <2>1, <2>5 DEF Indexing, CompletedHere, HasProcessing
    <2>8. QED
      BY <2>2, <2>3, <2>4, <2>6, <2>7 DEF Indexing
  <1>10. CASE CompleteDocument(j)
    <2>1. /\ status' = [status EXCEPT ![jobDoc[j]] = "COMPLETED"]
          /\ docProvider' = [docProvider EXCEPT ![jobDoc[j]] = provider]
          /\ task' = [task EXCEPT ![j] = "none"] /\ task[j] = "jobDone"
          /\ RowExists(jobDoc[j])
          /\ UNCHANGED <<chunks, job>>
          /\ \A k \in Jobs : k # j => seen'[k] = seen[k]
      BY <1>2, <1>10 DEF CompleteDocument
    <2>2. \A k \in Jobs : task'[k] # "none" => k # j /\ task'[k] = task[k] /\ jobDoc[k] \in Docs
      BY <1>2, <1>3, <2>1 DEF JobsAreKnown
    <2>3. ClaimedJobs' /\ OneWriter'
      BY <1>1, <1>3, <2>1, <2>2 DEF Indexing, ClaimedJobs, OneWriter, Claimed
    <2>4. /\ chunks[jobDoc[j]] # {}
          /\ \A c \in chunks[jobDoc[j]] : c.vector = provider
      BY <1>3, <2>1 DEF Indexing, IndexedHere, Indexed
    <2>5. IndexedHere'
      BY <1>1, <1>2, <1>3, <2>1, <2>2, <2>4 DEF Indexing, IndexedHere, Indexed
    <2>6. CompletedMatches'
      BY <1>1, <1>2, <1>3, <2>1, <2>4 DEF Indexing, CompletedMatches
    <2>7. CompletedHere'
      BY <1>1, <1>2, <1>3, <2>1, <2>2 DEF Indexing, CompletedHere, HasProcessing, Working, Claimed
    <2>8. QED
      BY <2>3, <2>5, <2>6, <2>7 DEF Indexing
  <1> QED
    BY <1>4, <1>5, <1>6, <1>7, <1>8, <1>9, <1>10 DEF Task, TaskStep

(* Sweeps, crashes, restarts and lost tasks do no harm to the index.       *)
LEMMA EnvironmentIndex ==
  ASSUME IndexInv,
         AdminSweep \/ Crash \/ Restart \/ (\E j \in Jobs : TaskLost(j)) \/ UNCHANGED vars
  PROVE  Indexing'
  <1> USE DEF docVars, jobVars, workerVars, storeVars
  <1>1. CASE AdminSweep /\ sweep.pc # "documents"
    BY <1>1, IndexStays DEF AdminSweep, SweepReads, SweepReadsDocuments, SweepCommits
  <1>2. CASE AdminSweep /\ sweep.pc = "documents"
    <2>1. SweepCommits /\ UNCHANGED <<chunks, docProvider, provider, jobDoc, task, workerVars>>
      BY <1>2 DEF AdminSweep, SweepReads, SweepReadsDocuments, SweepCommits
    <2>2. QED
      BY <2>1, SweepKeepsRows, IndexStays DEF IndexInv
  <1>3. CASE Restart
    <2>1. PICK js \in StaleSets : FailTogether(js, DocsToFail(js))
      BY <1>3 DEF Restart, StartupSweep
    <2>2. UNCHANGED <<chunks, docProvider, jobDoc, task>> /\ \A j \in Jobs : task[j] = "none"
      BY <1>3 DEF Restart, IndexInv, RowInv, DownIsIdle
    <2>3. /\ \A k \in Jobs : job'[k] = "unused" => job[k] = "unused"
          /\ \A d \in Docs : status'[d] = "COMPLETED" => status[d] = "COMPLETED"
      BY <2>1 DEF FailTogether, StaleSets, Active
    <2>4. OneWriter'
      <3>1. \A d \in Docs : \A c \in chunks[d] : c.by \in Jobs
        BY DEF IndexInv, RowInv, TypeOK, StoreTypeOK, ChunkRows
      <3>2. QED
        BY <2>2, <2>3, <3>1 DEF IndexInv, Indexing, OneWriter
    <2>5. CompletedMatches'
      BY <2>2, <2>3 DEF IndexInv, Indexing, CompletedMatches
    <2>6. ClaimedJobs' /\ IndexedHere' /\ CompletedHere'
      BY <2>2 DEF ClaimedJobs, IndexedHere, CompletedHere, HasProcessing, Working, Claimed,
                  Indexed
    <2>7. QED
      BY <2>4, <2>5, <2>6 DEF Indexing
  <1>4. CASE Crash
    BY <1>4, IndexStays DEF Crash, Claimed
  <1>5. ASSUME NEW j \in Jobs, TaskLost(j) PROVE Indexing'
    <2>1. task \in [Jobs -> TaskPc] /\ seen \in [Jobs -> DocStatus]
      BY DEF IndexInv, RowInv, TypeOK, StoreTypeOK, WorkerTypeOK
    <2>2. QED
      BY <1>5, <2>1, IndexStays DEF TaskLost, EndTask, GoTo, Claimed
  <1>6. CASE UNCHANGED vars
    BY <1>6, IndexStays DEF vars
  <1>7. QED
    BY <1>1, <1>2, <1>3, <1>4, <1>5, <1>6

(* Nor do requests.                                                        *)
LEMMA RequestIndex ==
  ASSUME IndexInv, NEW r \in Requests, Request(r)
  PROVE  Indexing'
  <1> USE DEF docVars, jobVars, workerVars, RowExists, Live
  <1>1. UNCHANGED <<seen, provider>>
    BY DEF Request, RequestArrives, RequestContinues, StoreUpload, BeginReprocess,
           CheckActiveJob, NumberAttempt,
           DeleteDocument, AddDocument, CreateJob, ScheduleJob, UploadFails,
           ReopenDocument, RequestFails, UnlinkFile
  <1>2. /\ status \in [Docs -> DocStatus] /\ docProvider \in [Docs -> Providers \cup {None}]
        /\ chunks \in [Docs -> SUBSET ChunkRows]
        /\ job \in [Jobs -> JobStatus] /\ task \in [Jobs -> TaskPc]
        /\ jobDoc \in [Jobs -> Docs \cup {None}]
        /\ req \in [Requests -> RequestState]
        /\ req[r].pc # "idle" => req[r].doc \in Docs
    BY DEF IndexInv, RowInv, TypeOK, StoreTypeOK, RequestTypeOK, JobsAreKnown
  <1>3. Indexing /\ JobsAreKnown /\ JobRows /\ RequestRows
    BY DEF IndexInv, RowInv
  <1>4. \A k \in Jobs : task[k] \in Claimed => /\ jobDoc[k] \in Docs
                                               /\ job[k] # "unused"
    BY <1>3 DEF JobsAreKnown, Claimed
  <1>5. ASSUME NEW d \in Docs, StoreUpload(r, d) \/ BeginReprocess(r, d) PROVE Indexing'
    BY <1>1, <1>5, IndexStays DEF StoreUpload, BeginReprocess
  <1>6. ASSUME NEW d \in Docs, DeleteDocument(r, d) PROVE Indexing'
    <2>1. /\ status' = [status EXCEPT ![d] = "deleted"]
          /\ chunks' = [chunks EXCEPT ![d] = {}]
          /\ \A k \in Jobs : job'[k] = job[k] \/ job'[k] = "gone"
          /\ UNCHANGED <<docProvider, jobDoc, task>>
      BY <1>6 DEF DeleteDocument
    <2>2. ClaimedJobs'
      BY <1>3, <2>1 DEF Indexing, ClaimedJobs
    <2>3. OneWriter'
      <3>1. \A e \in Docs : \A c \in chunks[e] : c.by \in Jobs
        BY <1>2 DEF ChunkRows
      <3>2. QED
        BY <1>2, <1>3, <2>1, <3>1 DEF Indexing, OneWriter
    <2>4. IndexedHere'
      <3>1. ASSUME NEW k \in Jobs, task[k] \in Indexed, RowExists(jobDoc[k])'
            PROVE  /\ RowExists(jobDoc[k])
                   /\ chunks'[jobDoc[k]] = chunks[jobDoc[k]]
        BY <1>2, <1>4, <2>1, <3>1 DEF Indexed, Claimed, TaskPc
      <3>2. QED
        BY <1>1, <1>3, <2>1, <3>1 DEF Indexing, IndexedHere
    <2>5. CompletedMatches'
      BY <1>2, <1>3, <2>1 DEF Indexing, CompletedMatches
    <2>6. CompletedHere'
      <3>1. \A k \in Jobs : HasProcessing(k) => jobDoc[k] \in Docs
        BY <1>4 DEF HasProcessing, Working, Claimed, TaskPc
      <3>2. QED
        BY <1>1, <1>2, <1>3, <2>1, <3>1 DEF Indexing, CompletedHere, HasProcessing
    <2>7. QED
      BY <2>2, <2>3, <2>4, <2>5, <2>6 DEF Indexing
  <1>7. CASE AddDocument(r)
    <2>1. /\ status' = [status EXCEPT ![req[r].doc] = "PENDING"]
          /\ status[req[r].doc] = "absent"
          /\ UNCHANGED <<chunks, docProvider, job, jobDoc, task>>
      BY <1>3, <1>7 DEF AddDocument, RequestRows
    <2>2. ClaimedJobs' /\ OneWriter' /\ CompletedMatches'
      BY <1>2, <1>3, <2>1 DEF Indexing, ClaimedJobs, OneWriter, CompletedMatches
    <2>3. \A k \in Jobs : task[k] \in Claimed => status'[jobDoc[k]] = status[jobDoc[k]]
      BY <1>2, <1>3, <1>4, <2>1 DEF JobRows, JobExists
    <2>4. IndexedHere'
      BY <1>1, <1>3, <2>1, <2>3 DEF Indexing, IndexedHere, Indexed, Claimed, TaskPc
    <2>5. CompletedHere'
      BY <1>1, <1>3, <2>1, <2>3
         DEF Indexing, CompletedHere, HasProcessing, Working, Claimed, TaskPc
    <2>6. QED
      BY <2>2, <2>4, <2>5 DEF Indexing
  <1>8. ASSUME NEW j \in Jobs, CreateJob(r, j) PROVE Indexing'
    <2>1. /\ job[j] = "unused"
          /\ job' = [job EXCEPT ![j] = "PENDING"]
          /\ \A k \in Jobs : k # j => jobDoc'[k] = jobDoc[k]
          /\ UNCHANGED <<status, chunks, docProvider, task>>
      BY <1>2, <1>8 DEF CreateJob, InsertJob
    <2>2. task[j] \notin Claimed
      BY <1>4, <2>1
    <2>3. ClaimedJobs'
      BY <1>2, <1>3, <2>1, <2>2 DEF Indexing, ClaimedJobs
    <2>4. OneWriter'
      <3>1. \A d \in Docs : \A c \in chunks[d] : c.by \in Jobs /\ c.by # j
        BY <1>2, <1>3, <2>1 DEF ChunkRows, Indexing, OneWriter
      <3>2. QED
        BY <1>2, <1>3, <2>1, <3>1 DEF Indexing, OneWriter
    <2>5. IndexedHere'
      BY <1>1, <1>3, <2>1, <2>2 DEF Indexing, IndexedHere, Indexed, Claimed, TaskPc
    <2>6. CompletedMatches'
      BY <1>3, <2>1 DEF Indexing, CompletedMatches
    <2>7. CompletedHere'
      BY <1>1, <1>3, <2>1, <2>2
         DEF Indexing, CompletedHere, HasProcessing, Working, Claimed, TaskPc
    <2>8. QED
      BY <2>3, <2>4, <2>5, <2>6, <2>7 DEF Indexing
  <1>9. CASE ScheduleJob(r)
    BY <1>1, <1>2, <1>9, IndexStays DEF ScheduleJob, Claimed
  <1>10. CASE ReopenDocument(r)
    BY <1>1, <1>2, <1>10, IndexStays DEF ReopenDocument
  <1>11. CASE \/ UploadFails(r) \/ RequestFails(r) \/ UnlinkFile(r)
              \/ CheckActiveJob(r) \/ NumberAttempt(r)
    BY <1>1, <1>11, IndexStays
       DEF UploadFails, RequestFails, UnlinkFile, CheckActiveJob, NumberAttempt
  <1> QED
    BY <1>5, <1>6, <1>7, <1>8, <1>9, <1>10, <1>11
       DEF Request, RequestArrives, RequestContinues

(* IndexInv always holds.                                                  *)
LEMMA IndexInvHolds == Spec => []IndexInv
  <1>1. Init => IndexInv
    <2>1. Init => Indexing
      BY DEF Init, StoreInit, WorkerInit, Indexing, ClaimedJobs, OneWriter, IndexedHere,
             CompletedMatches, CompletedHere, HasProcessing, Working, Claimed, Indexed
    <2>2. Init => RowInv
      BY InitTyped
         DEF RowInv, Init, StoreInit, RequestInit, SweepInit, NoSweep, Idle, JobRows,
             SweptRows, RequestRows, JobExists
    <2>3. QED
      BY <2>1, <2>2 DEF IndexInv
  <1>2. IndexInv /\ [Next]_vars => IndexInv'
    BY RowInvInductive, TaskIndex, RequestIndex, EnvironmentIndex DEF IndexInv, Next
  <1>3. QED
    BY <1>1, <1>2, PTL DEF Spec

(* A COMPLETED document is indexed by exactly one of its attempts, whatever *)
(* tasks, requests, sweeps, crashes and restarts interleave                 *)
(* (replace_version_chunks with its unique constraint).                     *)
THEOREM CompletedIndexed == Spec => []CompletedIsIndexed
  <1>1. IndexInv => CompletedIsIndexed
    <2> SUFFICES ASSUME IndexInv, NEW d \in Docs, status[d] = "COMPLETED"
                 PROVE  \E j \in Jobs : /\ jobDoc[j] = d
                                        /\ chunks[d] # {}
                                        /\ \A c \in chunks[d] : c.by = j
      BY DEF CompletedIsIndexed
    <2>1. PICK c \in chunks[d] : c.by \in Jobs /\ jobDoc[c.by] = d /\ \A e \in chunks[d] : e = c
      BY DEF IndexInv, Indexing, CompletedMatches, OneWriter, RowInv, TypeOK, StoreTypeOK, ChunkRows
    <2>2. QED
      BY <2>1
  <1>2. QED
    BY <1>1, IndexInvHolds, PTL

(* Search under one embedding provider only meets vectors of that provider, *)
(* although the provider may change with every restart while tasks fail and *)
(* documents stay COMPLETED (IngestionService sets documents.               *)
(* embedding_provider; similarity_search filters on it).                    *)
THEOREM VectorsMatch == Spec => []SearchableVectorsMatch
  <1>1. IndexInv => SearchableVectorsMatch
    BY DEF IndexInv, Indexing, CompletedMatches, SearchableVectorsMatch, Searchable
  <1>2. QED
    BY <1>1, IndexInvHolds, PTL

-----------------------------------------------------------------------------
(* Storage.                                                                *)

(* Without faults no step removes the file of a document that exists.      *)
LEMMA FilesStay ==
  ASSUME RowInv, DocumentHasFile, Faults = FALSE, [Next]_vars
  PROVE  DocumentHasFile'
  <1> USE DEF docVars, jobVars, storeVars
  <1>1. ASSUME file' = file,
               \A d \in Docs : RowExists(d)' => RowExists(d)
        PROVE  DocumentHasFile'
    BY <1>1 DEF DocumentHasFile
  <1>2. ASSUME NEW j \in Jobs, Task(j) \/ TaskLost(j) PROVE DocumentHasFile'
    BY <1>1, <1>2, TaskKeepsRows, TaskFrame DEF RowInv, TaskLost, RowExists
  <1>3. CASE AdminSweep
    BY <1>1, <1>3, SweepKeepsRows
       DEF AdminSweep, SweepReads, SweepReadsDocuments, SweepCommits, RowExists
  <1>4. CASE Restart
    <2>1. \A d \in Docs : RowExists(d)' => RowExists(d)
      BY <1>4 DEF Restart, StartupSweep, FailTogether, DocsToFail, RowExists, Live
    <2>2. QED
      BY <1>1, <1>4, <2>1 DEF Restart
  <1>5. CASE Crash \/ UNCHANGED vars
    BY <1>1, <1>5 DEF Crash, vars, RowExists
  <1>6. ASSUME NEW r \in Requests, Request(r) PROVE DocumentHasFile'
    <2>1. /\ status \in [Docs -> DocStatus]
          /\ req[r].pc # "idle" => req[r].doc \in Docs
          /\ RequestRows
      BY DEF RowInv, TypeOK, StoreTypeOK, JobsAreKnown
    <2>2. ASSUME NEW d \in Docs, StoreUpload(r, d) PROVE DocumentHasFile'
      BY <2>2 DEF StoreUpload, DocumentHasFile, RowExists
    <2>3. ASSUME NEW d \in Docs, BeginReprocess(r, d) \/ DeleteDocument(r, d)
          PROVE  DocumentHasFile'
      BY <1>1, <2>1, <2>3 DEF BeginReprocess, DeleteDocument, RowExists, Live
    <2>4. CASE AddDocument(r)
      BY <2>1, <2>4 DEF AddDocument, RequestRows, DocumentHasFile, RowExists
    <2>5. CASE ReopenDocument(r)
      BY <1>1, <2>1, <2>5 DEF ReopenDocument, RowExists
    <2>6. CASE \/ (\E j \in Jobs : CreateJob(r, j)) \/ ScheduleJob(r) \/ RequestFails(r)
               \/ CheckActiveJob(r) \/ NumberAttempt(r)
      BY <1>1, <2>6
         DEF CreateJob, ScheduleJob, RequestFails, CheckActiveJob, NumberAttempt, RowExists
    <2>7. CASE UploadFails(r) \/ UnlinkFile(r)
      <3>1. ~RowExists(req[r].doc) /\ file' = file \ {req[r].doc} /\ status' = status
        BY <2>1, <2>7 DEF UploadFails, UnlinkFile, RequestRows, RowExists, Live
      <3>2. QED
        BY <3>1 DEF DocumentHasFile, RowExists
    <2>8. QED
      BY <1>6, <2>2, <2>3, <2>4, <2>5, <2>6, <2>7
         DEF Request, RequestArrives, RequestContinues
  <1>7. QED
    BY <1>2, <1>3, <1>4, <1>5, <1>6 DEF Next

(* While calls to the storage and the database succeed, a document has its *)
(* bytes for as long as it has a row, over any number of requests, tasks   *)
(* and crashes: upload stores before it commits, delete commits before it  *)
(* removes.                                                                *)
THEOREM FilesKept ==
  ASSUME Faults = FALSE
  PROVE  Spec => []DocumentHasFile
  <1>1. Init => DocumentHasFile
    BY DEF Init, StoreInit, DocumentHasFile, RowExists, Live
  <1>2. RowInv /\ DocumentHasFile /\ [Next]_vars => DocumentHasFile'
    BY FilesStay
  <1>3. QED
    BY <1>1, <1>2, RowInvHolds, PTL DEF Spec

(* Steps other than requests and crashes leave the bytes, the requests and *)
(* the number of crashes alone and remove no row.                          *)
LEMMA RowsOutliveSteps ==
  ASSUME RowInv, [Next]_vars, ~Crash, \A r \in Requests : ~Request(r)
  PROVE  /\ UNCHANGED <<file, req, crashes>>
         /\ \A d \in Docs : RowExists(d) => RowExists(d)'
  <1> USE DEF docVars, jobVars, storeVars
  <1>1. ASSUME NEW j \in Jobs, Task(j) \/ TaskLost(j)
        PROVE  /\ UNCHANGED <<file, req, crashes>>
               /\ \A d \in Docs : RowExists(d) => RowExists(d)'
    BY <1>1, TaskKeepsRows, TaskFrame DEF RowInv, TaskLost, RowExists
  <1>2. CASE AdminSweep
    BY <1>2, SweepKeepsRows
       DEF AdminSweep, SweepReads, SweepReadsDocuments, SweepCommits, RowExists, Live
  <1>3. CASE Restart
    BY <1>3 DEF Restart, StartupSweep, FailTogether, DocsToFail, RowExists, Live
  <1>4. CASE UNCHANGED vars
    BY <1>4 DEF vars, RowExists
  <1>5. QED
    BY <1>1, <1>2, <1>3, <1>4 DEF Next

(* Without faults and crashes no step leaves bytes without a row.          *)
LEMMA NothingLeaks ==
  ASSUME RowInv, NoLeakUntilCrash, Faults = FALSE, [Next]_vars
  PROVE  NoLeakUntilCrash'
  <1> DEFINE Holds(r, d) == req[r].doc = d /\ req[r].pc \in {"stored", "saved", "unlinking"}
  <1> USE DEF docVars, jobVars
  <1>0. /\ crashes \in Nat
        /\ status \in [Docs -> DocStatus]
        /\ file \subseteq Docs
        /\ req \in [Requests -> RequestState]
    BY MaxCrashesAssumption DEF RowInv, TypeOK, StoreTypeOK, RequestTypeOK
  <1>1. CASE Crash
    BY <1>0, <1>1 DEF Crash, NoLeakUntilCrash
  <1>2. CASE ~Crash /\ \A r \in Requests : ~Request(r)
    BY <1>0, <1>2, RowsOutliveSteps DEF NoLeakUntilCrash
  <1>3. ASSUME NEW r \in Requests, Request(r), crashes = 0,
               NEW d \in file', ~RowExists(d)'
        PROVE  \E q \in Requests : Holds(q, d)'
    <2>1. \A q \in Requests : q # r => req'[q] = req[q]
      BY <1>0, <1>3
         DEF Request, RequestArrives, RequestContinues, StoreUpload, BeginReprocess,
             CheckActiveJob, NumberAttempt,
             DeleteDocument, AddDocument, CreateJob, ScheduleJob, UploadFails, ReopenDocument,
             RequestFails, UnlinkFile, Begin, Proceed, Return
    <2>2. ASSUME d \in file, ~RowExists(d), ~Holds(r, d) PROVE \E q \in Requests : Holds(q, d)'
      <3>1. PICK q \in Requests : Holds(q, d)
        BY <1>3, <2>2 DEF NoLeakUntilCrash
      <3>2. q # r
        BY <2>2, <3>1
      <3>3. Holds(q, d)'
        BY <2>1, <3>1, <3>2
      <3>4. QED
        BY <3>3
    <2>3. ASSUME NEW e \in Docs, StoreUpload(r, e) PROVE \E q \in Requests : Holds(q, d)'
      <3>1. CASE d = e
        BY <1>0, <2>3, <3>1 DEF StoreUpload, Begin
      <3>2. CASE d # e
        BY <1>3, <2>2, <2>3, <3>2 DEF StoreUpload, RowExists
      <3>3. QED
        BY <3>1, <3>2
    <2>4. ASSUME NEW e \in Docs, BeginReprocess(r, e) PROVE \E q \in Requests : Holds(q, d)'
      BY <1>3, <2>2, <2>4 DEF BeginReprocess, RowExists
    <2>5. ASSUME NEW e \in Docs, DeleteDocument(r, e) PROVE \E q \in Requests : Holds(q, d)'
      <3>1. CASE d = e
        BY <1>0, <2>5, <3>1 DEF DeleteDocument, Begin
      <3>2. CASE d # e
        BY <1>0, <1>3, <2>2, <2>5, <3>2 DEF DeleteDocument, RowExists
      <3>3. QED
        BY <3>1, <3>2
    <2>6. CASE AddDocument(r)
      <3>1. PICK e \in Docs : e = req[r].doc
        BY <2>6 DEF AddDocument, RowInv, JobsAreKnown
      <3>2. status' = [status EXCEPT ![e] = "PENDING"] /\ file' = file
        BY <2>6, <3>1 DEF AddDocument
      <3>3. d # e /\ d \in file /\ ~RowExists(d)
        BY <1>0, <1>3, <3>2 DEF RowExists, Live
      <3>4. QED
        BY <2>2, <3>1, <3>3
    <2>7. CASE \E j \in Jobs : CreateJob(r, j)
      BY <1>3, <2>2, <2>7 DEF CreateJob, RowExists
    <2>8. CASE ScheduleJob(r) \/ RequestFails(r) \/ CheckActiveJob(r) \/ NumberAttempt(r)
      BY <1>3, <2>2, <2>8
         DEF ScheduleJob, RequestFails, CheckActiveJob, NumberAttempt, RowExists
    <2>9. CASE UploadFails(r) \/ UnlinkFile(r)
      BY <1>3, <2>2, <2>9 DEF UploadFails, UnlinkFile, RowExists
    <2>10. CASE ReopenDocument(r)
      <3>1. PICK e \in Docs : e = req[r].doc
        BY <2>10 DEF ReopenDocument, RowInv, JobsAreKnown
      <3>2. \/ status' = status
            \/ RowExists(e) /\ status' = [status EXCEPT ![e] = "PENDING"]
        BY <2>10, <3>1 DEF ReopenDocument
      <3>3. file' = file /\ d \in Docs
        BY <1>0, <1>3, <2>10 DEF ReopenDocument
      <3>4. ~RowExists(d)
        BY <1>0, <1>3, <3>2, <3>3 DEF RowExists, Live
      <3>5. QED
        BY <1>3, <2>2, <2>10, <3>3, <3>4 DEF ReopenDocument
    <2>11. QED
      BY <1>3, <2>3, <2>4, <2>5, <2>6, <2>7, <2>8, <2>9, <2>10
         DEF Request, RequestArrives, RequestContinues
  <1>4. ASSUME NEW r \in Requests, Request(r) PROVE NoLeakUntilCrash'
    BY <1>3, <1>4 DEF Request, NoLeakUntilCrash
  <1>5. QED
    BY <1>1, <1>2, <1>4

(* While calls to the storage succeed and the process lives, no object is  *)
(* stored for nothing: whoever stored or orphaned it is still there to     *)
(* commit the row or to remove the object (upload's cleanup and            *)
(* delete_document).                                                       *)
THEOREM NoLeaks ==
  ASSUME Faults = FALSE
  PROVE  Spec => []NoLeakUntilCrash
  <1>1. Init => NoLeakUntilCrash
    BY DEF Init, StoreInit, NoLeakUntilCrash
  <1>2. RowInv /\ NoLeakUntilCrash /\ [Next]_vars => NoLeakUntilCrash'
    BY NothingLeaks
  <1>3. QED
    BY <1>1, <1>2, RowInvHolds, PTL DEF Spec

-----------------------------------------------------------------------------
(* One admin at a time.                                                    *)

(* Between its check and its insert a request is right about the jobs of   *)
(* its document: an upload finds none, a reprocess finds none that is      *)
(* active and, once it has numbered its attempt, none with that number or  *)
(* a later one.                                                            *)
ChecksHold ==
  \A r \in Requests :
    /\ req[r].pc \in {"stored", "saved"} => JobsOf(req[r].doc) = {}
    /\ req[r].pc \in {"free", "checked", "reopened"} => ~HasActiveJob(req[r].doc)
    /\ req[r].pc \in {"checked", "reopened"} =>
         \A j \in JobsOf(req[r].doc) : attempt[j] < req[r].n

SerialInv == ChecksHold /\ OneActiveJob /\ AttemptsDistinct

(* A step that adds no job and makes none active leaves the jobs of every  *)
(* document in order.                                                      *)
LEMMA FewerJobs ==
  ASSUME RowInv, SerialInv, UNCHANGED <<jobDoc, attempt>>,
         \A j \in Jobs : JobExists(j)' => JobExists(j),
         \A j \in Jobs : job'[j] \in Active => job[j] \in Active
  PROVE  /\ OneActiveJob' /\ AttemptsDistinct'
         /\ \A d \in Docs : JobsOf(d)' \subseteq JobsOf(d) /\ ActiveJobs(d)' \subseteq ActiveJobs(d)
  <1>1. \A d \in Docs : JobsOf(d)' \subseteq JobsOf(d) /\ ActiveJobs(d)' \subseteq ActiveJobs(d)
    BY DEF JobsOf, ActiveJobs
  <1>2. OneActiveJob'
    BY <1>1 DEF SerialInv, OneActiveJob
  <1>3. AttemptsDistinct'
    BY <1>1 DEF SerialInv, AttemptsDistinct
  <1>4. QED
    BY <1>1, <1>2, <1>3

(* A request that runs alone is right about the jobs it has checked.       *)
LEMMA SerialStep ==
  ASSUME RowInv, SerialInv, [Next]_vars,
         \A q, r \in Requests : q = r
  PROVE  SerialInv'
  <1> USE DEF docVars, jobVars, storeVars
  <1>0. /\ job \in [Jobs -> JobStatus]
        /\ jobDoc \in [Jobs -> Docs \cup {None}]
        /\ attempt \in [Jobs -> Nat]
        /\ status \in [Docs -> DocStatus]
        /\ req \in [Requests -> RequestState]
        /\ \A r \in Requests : req[r].pc # "idle" => req[r].doc \in Docs
    BY DEF RowInv, TypeOK, StoreTypeOK, RequestTypeOK, JobsAreKnown
  <1>1. ASSUME UNCHANGED <<jobDoc, attempt>>,
               req' = req \/ \A r \in Requests : req'[r].pc = "idle",
               \A j \in Jobs : JobExists(j)' => JobExists(j),
               \A j \in Jobs : job'[j] \in Active => job[j] \in Active
        PROVE  SerialInv'
    <2>1. /\ OneActiveJob' /\ AttemptsDistinct'
          /\ \A d \in Docs : JobsOf(d)' \subseteq JobsOf(d) /\ ActiveJobs(d)' \subseteq ActiveJobs(d)
      BY <1>1, FewerJobs
    <2>2. ASSUME req' = req PROVE ChecksHold'
      BY <1>0, <1>1, <2>1, <2>2 DEF SerialInv, ChecksHold, HasActiveJob
    <2>3. ASSUME \A r \in Requests : req'[r].pc = "idle" PROVE ChecksHold'
      BY <2>3 DEF ChecksHold
    <2>4. QED
      BY <1>1, <2>1, <2>2, <2>3 DEF SerialInv
  <1>2. ASSUME NEW j \in Jobs, Task(j) \/ TaskLost(j) PROVE SerialInv'
    <2>1. UNCHANGED <<jobDoc, attempt, req>>
      BY <1>2, TaskFrame DEF RowInv, TaskLost
    <2>2. /\ \A k \in Jobs : JobExists(k)' => JobExists(k)
          /\ \A k \in Jobs : job'[k] \in Active => job[k] \in Active
      BY <1>0, <1>2
         DEF Task, TaskStep, TaskLost, ClaimJob, SkipJob, LoadDocument, StartProcessing,
             ReadFile, ExtractText, ChunkText, EmbedChunks, SaveStage, StageRaises,
             DeleteOldChunks, CommitChunks, ChunkConflict, RefreshChunks, CompleteJob,
             CompleteDocument, FailJob, FailDocument, DocumentVanished, JobExists, Active
    <2>3. QED
      BY <1>1, <2>1, <2>2
  <1>3. CASE AdminSweep \/ Restart
    <2>1. UNCHANGED <<jobDoc, attempt, req>>
      BY <1>3 DEF AdminSweep, SweepReads, SweepReadsDocuments, SweepCommits, Restart
    <2>2. \A k \in Jobs : job'[k] = job[k] \/ (job'[k] = "FAILED" /\ JobExists(k))
      BY <1>0, <1>3, SweepKeepsRows
         DEF AdminSweep, SweepReads, SweepReadsDocuments, Restart, StartupSweep,
             FailTogether, StaleSets, JobExists, Active
    <2>3. QED
      BY <1>1, <2>1, <2>2 DEF JobExists, Active
  <1>4. CASE Crash \/ UNCHANGED vars
    BY <1>1, <1>4 DEF Crash, vars, Idle, JobExists
  <1>5. ASSUME NEW r \in Requests, Request(r) PROVE SerialInv'
    <2>1. ASSUME UNCHANGED job, UNCHANGED jobDoc, UNCHANGED attempt
          PROVE  /\ OneActiveJob' /\ AttemptsDistinct'
                 /\ \A d \in Docs : JobsOf(d)' = JobsOf(d) /\ HasActiveJob(d)' = HasActiveJob(d)
      BY <2>1 DEF SerialInv, OneActiveJob, AttemptsDistinct, JobsOf, ActiveJobs, HasActiveJob,
                  JobExists
    <2>2. ASSUME NEW d \in Docs, StoreUpload(r, d) PROVE SerialInv'
      <3>1. JobsOf(d) = {}
        BY <2>2 DEF StoreUpload, JobsOf, RowInv, JobRows, RowExists, Live
      <3>2. req'[r].pc = "stored" /\ req'[r].doc = d
        BY <1>0, <2>2 DEF StoreUpload, Begin
      <3>3. QED
        BY <2>1, <2>2, <3>1, <3>2 DEF StoreUpload, SerialInv, ChecksHold
    <2>3. ASSUME NEW d \in Docs, BeginReprocess(r, d) PROVE SerialInv'
      <3>1. req'[r].pc = "loaded"
        BY <1>0, <2>3 DEF BeginReprocess, Begin
      <3>2. QED
        BY <2>1, <2>3, <3>1 DEF BeginReprocess, SerialInv, ChecksHold
    <2>3a. CASE CheckActiveJob(r)
      <3>1. PICK d \in Docs : d = req[r].doc
        BY <1>0, <2>3a DEF CheckActiveJob
      <3>2. req'[r].pc = "free" /\ req'[r].doc = d /\ ~HasActiveJob(d)
        BY <1>0, <2>3a, <3>1 DEF CheckActiveJob, Proceed, RequestState
      <3>3. QED
        BY <2>1, <2>3a, <3>2 DEF CheckActiveJob, SerialInv, ChecksHold
    <2>3b. CASE NumberAttempt(r)
      <3>1. PICK d \in Docs : d = req[r].doc
        BY <1>0, <2>3b DEF NumberAttempt
      <3>2. PICK n \in {1} \cup {attempt[j] + 1 : j \in Jobs} :
              /\ IsNextAttempt(d, n)
              /\ req' = [req EXCEPT ![r].pc = "checked", ![r].n = n]
        BY <2>3b, <3>1 DEF NumberAttempt
      <3>3. \A j \in JobsOf(d) : attempt[j] < n
        BY <1>0, <3>2 DEF IsNextAttempt, JobsOf
      <3>4. req'[r].pc = "checked" /\ req'[r].doc = d /\ req'[r].n = n
        BY <1>0, <3>1, <3>2 DEF RequestState
      <3>5. ~HasActiveJob(d)
        BY <2>3b, <3>1 DEF NumberAttempt, SerialInv, ChecksHold
      <3>6. QED
        BY <2>1, <2>3b, <3>3, <3>4, <3>5 DEF NumberAttempt, SerialInv, ChecksHold
    <2>4. ASSUME NEW d \in Docs, DeleteDocument(r, d) PROVE SerialInv'
      <3>1. UNCHANGED <<jobDoc, attempt>> /\ req'[r].pc = "unlinking"
        BY <1>0, <2>4 DEF DeleteDocument, Begin
      <3>2. \A j \in Jobs : job'[j] = job[j] \/ job'[j] = "gone"
        BY <2>4 DEF DeleteDocument
      <3>3. OneActiveJob' /\ AttemptsDistinct'
        BY <3>1, <3>2, FewerJobs DEF JobExists, Active
      <3>4. QED
        BY <3>1, <3>3 DEF SerialInv, ChecksHold
    <2>5. CASE AddDocument(r) \/ ReopenDocument(r)
      <3>1. /\ UNCHANGED <<job, jobDoc, attempt>>
            /\ req[r].pc \in {"stored", "checked"}
        BY <2>5 DEF AddDocument, ReopenDocument
      <3>2. /\ req'[r].doc = req[r].doc /\ req'[r].n = req[r].n
            /\ req'[r].pc = IF req[r].pc = "stored" THEN "saved" ELSE "reopened"
        BY <1>0, <2>5 DEF AddDocument, ReopenDocument, Proceed, RequestState
      <3>3. PICK d \in Docs : d = req[r].doc
        BY <1>0, <3>1
      <3>4. JobsOf(d)' = JobsOf(d) /\ HasActiveJob(d)' = HasActiveJob(d)
        BY <2>1, <3>1
      <3>5. CASE req[r].pc = "stored"
        <4>1. JobsOf(d) = {}
          BY <3>3, <3>5 DEF SerialInv, ChecksHold
        <4>2. ChecksHold'
          BY <3>2, <3>3, <3>4, <3>5, <4>1 DEF ChecksHold
        <4>3. QED
          BY <2>1, <3>1, <4>2 DEF SerialInv
      <3>6. CASE req[r].pc = "checked"
        <4>1. ~HasActiveJob(d) /\ \A j \in JobsOf(d) : attempt[j] < req[r].n
          BY <3>3, <3>6 DEF SerialInv, ChecksHold
        <4>2. ChecksHold'
          BY <3>1, <3>2, <3>3, <3>4, <3>6, <4>1 DEF ChecksHold
        <4>3. QED
          BY <2>1, <3>1, <4>2 DEF SerialInv
      <3>7. QED
        BY <3>1, <3>5, <3>6
    <2>6. ASSUME NEW j \in Jobs, CreateJob(r, j) PROVE SerialInv'
      <3>1. PICK d \in Docs : d = req[r].doc
        BY <1>0, <2>6 DEF CreateJob
      <3>2. /\ ~HasActiveJob(d)
            /\ \A k \in JobsOf(d) : attempt[k] < req[r].n
        BY <2>6, <3>1 DEF CreateJob, SerialInv, ChecksHold, HasActiveJob, ActiveJobs
      <3>3. /\ job[j] = "unused" /\ job'[j] = "PENDING"
            /\ jobDoc'[j] = d /\ attempt'[j] = req[r].n
            /\ \A k \in Jobs : k # j => /\ job'[k] = job[k]
                                        /\ jobDoc'[k] = jobDoc[k]
                                        /\ attempt'[k] = attempt[k]
            /\ req'[r].pc = "created"
        BY <1>0, <2>6, <3>1 DEF CreateJob, InsertJob
      <3>4. /\ JobsOf(d)' = JobsOf(d) \cup {j}
            /\ ActiveJobs(d)' = {j}
        BY <3>2, <3>3 DEF JobsOf, ActiveJobs, HasActiveJob, JobExists, Active
      <3>5. \A e \in Docs : e # d => /\ JobsOf(e)' = JobsOf(e)
                                     /\ ActiveJobs(e)' = ActiveJobs(e)
        BY <3>3 DEF JobsOf, ActiveJobs, JobExists
      <3>6. OneActiveJob'
        BY <3>4, <3>5 DEF SerialInv, OneActiveJob
      <3>7. ASSUME NEW e \in Docs, NEW k \in JobsOf(e)', NEW l \in JobsOf(e)',
                   attempt'[k] = attempt'[l]
            PROVE  k = l
        <4>1. CASE e = d
          <5>1. k \in Jobs /\ l \in Jobs /\ \A m \in JobsOf(d) : m \in Jobs /\ m # j
            BY <3>3, <3>7 DEF JobsOf, JobExists
          <5>2. req[r].n \in Nat
            BY <1>0 DEF RequestState
          <5>3. QED
            BY <1>0, <3>2, <3>3, <3>4, <3>7, <4>1, <5>1, <5>2 DEF SerialInv, AttemptsDistinct
        <4>2. CASE e # d
          <5>1. k \in JobsOf(e) /\ l \in JobsOf(e) /\ k # j /\ l # j /\ k \in Jobs /\ l \in Jobs
            BY <3>3, <3>5, <3>7, <4>2 DEF JobsOf, JobExists
          <5>2. QED
            BY <3>3, <3>7, <5>1 DEF SerialInv, AttemptsDistinct
        <4>3. QED
          BY <4>1, <4>2
      <3>8. AttemptsDistinct'
        BY <3>7 DEF AttemptsDistinct
      <3>9. QED
        BY <3>3, <3>6, <3>8 DEF SerialInv, ChecksHold
    <2>7. CASE ScheduleJob(r) \/ UploadFails(r) \/ RequestFails(r) \/ UnlinkFile(r)
      <3>1. UNCHANGED <<job, jobDoc, attempt>> /\ req'[r].pc = "idle"
        BY <1>0, <2>7 DEF ScheduleJob, UploadFails, RequestFails, UnlinkFile, Return, Idle
      <3>2. QED
        BY <2>1, <3>1 DEF SerialInv, ChecksHold
    <2>8. QED
      BY <1>5, <2>2, <2>3, <2>3a, <2>3b, <2>4, <2>5, <2>6, <2>7
         DEF Request, RequestArrives, RequestContinues
  <1>6. QED
    BY <1>2, <1>3, <1>4, <1>5 DEF Next

(* With one request slot at most, SerialInv always holds.                  *)
LEMMA SerialInvHolds ==
  ASSUME \A q, r \in Requests : q = r
  PROVE  Spec => []SerialInv
  <1>1. Init => SerialInv
    BY DEF Init, StoreInit, RequestInit, Idle, SerialInv, ChecksHold, OneActiveJob,
           AttemptsDistinct, ActiveJobs, JobsOf, JobExists
  <1>2. RowInv /\ SerialInv /\ [Next]_vars => SerialInv'
    BY SerialStep
  <1>3. QED
    BY <1>1, <1>2, RowInvHolds, PTL DEF Spec

(* With one admin request at a time reprocess keeps what it checks: a      *)
(* document never has two pending or running jobs, whatever fails, however *)
(* slow the tasks are and whenever the process crashes.  With two          *)
(* requests it fails (run DuplicateJobs).                                  *)
THEOREM OneJobAtATime ==
  ASSUME \A q, r \in Requests : q = r
  PROVE  Spec => []OneActiveJob
  <1>1. SerialInv => OneActiveJob
    BY DEF SerialInv
  <1>2. QED
    BY <1>1, SerialInvHolds, PTL

(* ... and the attempts of a document have numbers of their own: the       *)
(* maximum plus one that reprocess has read is still free at its insert.   *)
THEOREM AttemptsAreDistinct ==
  ASSUME \A q, r \in Requests : q = r
  PROVE  Spec => []AttemptsDistinct
  <1>1. SerialInv => AttemptsDistinct
    BY DEF SerialInv
  <1>2. QED
    BY <1>1, SerialInvHolds, PTL

-----------------------------------------------------------------------------
(* Who owns a PROCESSING document.                                         *)

(* A job just created has no task yet, and one request will schedule it. *)
CreatedWaits ==
  \A r \in Requests : req[r].pc = "created" =>
    /\ task[req[r].job] = "none"
    /\ \A q \in Requests : req[q].pc = "created" /\ req[q].job = req[r].job => q = r

(* A task that will still write the status of its document: its INSERT, if *)
(* that is ahead, does not run into the chunks of another attempt.         *)
WillWrite(j) ==
  task[j] \in Working /\ (task[j] = "replacing" => chunks[jobDoc[j]] \subseteq erased[j])

ProcessingHasWriter ==
  crashes = 0 => \A d \in Docs : status[d] = "PROCESSING" =>
    \E j \in Jobs : jobDoc[j] = d /\ WillWrite(j)

OwnerInv == CreatedWaits /\ ProcessingHasWriter

(* A step of a task moves that task and no other. *)
LEMMA OneTaskMoves ==
  ASSUME RowInv, NEW j \in Jobs, Task(j)
  PROVE  \A k \in Jobs : k # j => task'[k] = task[k] /\ erased'[k] = erased[k]
  <1> USE DEF docVars, jobVars, workerVars, GoTo, EndTask
  <1>1. task \in [Jobs -> TaskPc] /\ erased \in [Jobs -> SUBSET ChunkRows]
    BY DEF RowInv, TypeOK, StoreTypeOK, WorkerTypeOK
  <1>2. CASE StartProcessing(j) \/ ReadFile(j) \/ ExtractText(j) \/ ChunkText(j) \/ EmbedChunks(j)
    BY <1>1, <1>2 DEF StartProcessing, ReadFile, ExtractText, ChunkText, EmbedChunks, SaveStage
  <1>3. CASE ClaimJob(j) \/ SkipJob(j) \/ LoadDocument(j) \/ StageRaises(j) \/ RefreshChunks(j)
    BY <1>1, <1>3 DEF ClaimJob, SkipJob, LoadDocument, StageRaises, RefreshChunks
  <1>4. CASE DeleteOldChunks(j) \/ CommitChunks(j) \/ ChunkConflict(j) \/ DocumentVanished(j)
    BY <1>1, <1>4 DEF DeleteOldChunks, CommitChunks, ChunkConflict, DocumentVanished
  <1>5. CASE CompleteJob(j) \/ CompleteDocument(j) \/ FailJob(j) \/ FailDocument(j)
    BY <1>1, <1>5 DEF CompleteJob, CompleteDocument, FailJob, FailDocument
  <1>6. QED
    BY <1>2, <1>3, <1>4, <1>5 DEF Task, TaskStep

(* A job that was created waits for the one task scheduled for it.         *)
LEMMA CreatedStep ==
  ASSUME RowInv, CreatedWaits, [Next]_vars
  PROVE  CreatedWaits'
  <1> USE DEF docVars, jobVars, storeVars
  <1>0. /\ task \in [Jobs -> TaskPc]
        /\ req \in [Requests -> RequestState]
        /\ \A r \in Requests : req[r].pc = "created" =>
             req[r].job \in Jobs /\ job[req[r].job] # "unused"
    BY DEF RowInv, TypeOK, StoreTypeOK, RequestTypeOK, JobsAreKnown
  <1>1. ASSUME req' = req, \A k \in Jobs : task[k] = "none" => task'[k] = "none"
        PROVE  CreatedWaits'
    BY <1>0, <1>1 DEF CreatedWaits
  <1>2. ASSUME NEW j \in Jobs, Task(j) PROVE CreatedWaits'
    BY <1>1, <1>2, TaskFrame, OneTaskMoves DEF RowInv
  <1>3. ASSUME NEW j \in Jobs, TaskLost(j) PROVE CreatedWaits'
    BY <1>0, <1>1, <1>3 DEF TaskLost, EndTask, GoTo
  <1>4. CASE AdminSweep \/ Restart \/ UNCHANGED vars
    BY <1>1, <1>4
       DEF AdminSweep, SweepReads, SweepReadsDocuments, SweepCommits, Restart, vars
  <1>5. CASE Crash
    BY <1>5 DEF Crash, Idle, CreatedWaits
  <1>6. ASSUME NEW r \in Requests, Request(r) PROVE CreatedWaits'
    <2>1. \A q \in Requests : q # r => req'[q] = req[q]
      BY <1>0, <1>6
         DEF Request, RequestArrives, RequestContinues, StoreUpload, BeginReprocess,
             CheckActiveJob, NumberAttempt,
             DeleteDocument, AddDocument, CreateJob, ScheduleJob, UploadFails, ReopenDocument,
             RequestFails, UnlinkFile, Begin, Proceed, Return
    <2>2. ASSUME NEW j \in Jobs, CreateJob(r, j) PROVE CreatedWaits'
      <3>1. task' = task /\ task[j] = "none" /\ job[j] = "unused"
        BY <2>2 DEF CreateJob, InsertJob, RowInv, JobsAreKnown
      <3>2. req'[r].job = j
        BY <1>0, <2>2 DEF CreateJob, RequestState
      <3>3. \A q \in Requests : q # r /\ req[q].pc = "created" => req[q].job # j
        BY <1>0, <3>1
      <3>4. QED
        BY <2>1, <3>1, <3>2, <3>3 DEF CreatedWaits
    <2>3. CASE ScheduleJob(r)
      <3>1. /\ req'[r].pc # "created"
            /\ \A k \in Jobs : k # req[r].job => task'[k] = task[k]
            /\ req[r].pc = "created"
        BY <1>0, <2>3 DEF ScheduleJob, Return, Idle
      <3>2. \A q \in Requests : q # r /\ req[q].pc = "created" => req[q].job # req[r].job
        BY <3>1 DEF CreatedWaits
      <3>3. QED
        BY <1>0, <2>1, <3>1, <3>2 DEF CreatedWaits
    <2>4. ASSUME task' = task, req'[r].pc # "created" PROVE CreatedWaits'
      BY <2>1, <2>4 DEF CreatedWaits
    <2>5. ASSUME NEW d \in Docs,
                 StoreUpload(r, d) \/ BeginReprocess(r, d) \/ DeleteDocument(r, d)
          PROVE  CreatedWaits'
      BY <1>0, <2>4, <2>5 DEF StoreUpload, BeginReprocess, DeleteDocument, Begin
    <2>6. CASE AddDocument(r) \/ ReopenDocument(r) \/ CheckActiveJob(r) \/ NumberAttempt(r)
      <3>1. task' = task
        BY <2>6 DEF AddDocument, ReopenDocument, CheckActiveJob, NumberAttempt
      <3>2. req'[r].pc \in {"saved", "reopened", "free", "checked"}
        BY <1>0, <2>6
           DEF AddDocument, ReopenDocument, CheckActiveJob, NumberAttempt, Proceed, RequestState
      <3>3. QED
        BY <2>4, <3>1, <3>2
    <2>7. CASE UploadFails(r) \/ RequestFails(r) \/ UnlinkFile(r)
      BY <1>0, <2>4, <2>7 DEF UploadFails, RequestFails, UnlinkFile, Return, Idle
    <2>8. QED
      BY <1>6, <2>2, <2>3, <2>5, <2>6, <2>7 DEF Request, RequestArrives, RequestContinues
  <1>7. QED
    BY <1>2, <1>3, <1>4, <1>5, <1>6 DEF Next

(* A task that leaves PROCESSING behind leaves a writer, too.              *)
LEMMA TaskKeepsWriter ==
  ASSUME RowInv, ProcessingHasWriter, NEW j \in Jobs, Task(j)
  PROVE  ProcessingHasWriter'
  <1> DEFINE d0 == jobDoc[j]
             Written(d) == \E k \in Jobs : jobDoc[k] = d /\ WillWrite(k)
  <1> USE DEF docVars, jobVars, workerVars, GoTo, EndTask
  <1>1. /\ task[j] # "none" /\ d0 \in Docs
        /\ UNCHANGED <<jobDoc, crashes>>
        /\ \A k \in Jobs : k # j => task'[k] = task[k] /\ erased'[k] = erased[k]
    BY TaskFrame, OneTaskMoves DEF RowInv
  <1>2. /\ task \in [Jobs -> TaskPc] /\ erased \in [Jobs -> SUBSET ChunkRows]
        /\ status \in [Docs -> DocStatus] /\ chunks \in [Docs -> SUBSET ChunkRows]
    BY DEF RowInv, TypeOK, StoreTypeOK, WorkerTypeOK
  <1>3. ASSUME WillWrite(j)', \A d \in Docs : d # d0 => status'[d] = status[d] /\ chunks'[d] = chunks[d]
        PROVE  ProcessingHasWriter'
    <2>1. ASSUME crashes = 0, NEW d \in Docs, status'[d] = "PROCESSING" PROVE Written(d)'
      <3>1. CASE d = d0
        BY <1>1, <1>3, <3>1
      <3>2. CASE d # d0
        <4>1. PICK k \in Jobs : jobDoc[k] = d /\ WillWrite(k)
          BY <1>3, <2>1, <3>2 DEF ProcessingHasWriter
        <4>2. jobDoc'[k] = d /\ WillWrite(k)'
          BY <1>1, <1>3, <3>2, <4>1 DEF WillWrite
        <4>3. QED
          BY <4>2
      <3>3. QED
        BY <3>1, <3>2
    <2>2. QED
      BY <1>1, <2>1 DEF ProcessingHasWriter
  <1>4. ASSUME ~WillWrite(j) \/ status'[d0] # "PROCESSING", chunks' = chunks,
               \A d \in Docs : status'[d] = "PROCESSING" => status[d] = "PROCESSING"
        PROVE  ProcessingHasWriter'
    <2>1. ASSUME crashes = 0, NEW d \in Docs, status'[d] = "PROCESSING" PROVE Written(d)'
      <3>1. PICK k \in Jobs : jobDoc[k] = d /\ WillWrite(k)
        BY <1>4, <2>1 DEF ProcessingHasWriter
      <3>2. k # j
        BY <1>4, <2>1, <3>1
      <3>3. jobDoc'[k] = d /\ WillWrite(k)'
        BY <1>1, <1>4, <3>1, <3>2 DEF WillWrite
      <3>4. QED
        BY <3>3
    <2>2. QED
      BY <1>1, <2>1 DEF ProcessingHasWriter
  <1>5. ASSUME UNCHANGED <<status, chunks>>, task[j] \in {"queued", "claimed"}
        PROVE  ProcessingHasWriter'
    BY <1>4, <1>5 DEF WillWrite, Working, Claimed
  <1>6. CASE ClaimJob(j) \/ SkipJob(j)
    BY <1>5, <1>6 DEF ClaimJob, SkipJob
  <1>7. CASE LoadDocument(j)
    <2>1. UNCHANGED <<status, chunks, task, erased>>
      BY <1>7 DEF LoadDocument
    <2>2. QED
      BY <1>1, <2>1 DEF ProcessingHasWriter, WillWrite
  <1>8. CASE StartProcessing(j) \/ ReadFile(j) \/ ExtractText(j) \/ ChunkText(j) \/ EmbedChunks(j)
    <2>1. /\ task'[j] \in {"started", "extracting", "chunking", "embedding", "indexing"}
          /\ chunks' = chunks
          /\ \A d \in Docs : d # d0 => status'[d] = status[d]
      BY <1>2, <1>8
         DEF StartProcessing, ReadFile, ExtractText, ChunkText, EmbedChunks, SaveStage
    <2>2. WillWrite(j)'
      BY <2>1 DEF WillWrite, Working, Claimed, TaskPc
    <2>3. QED
      BY <1>3, <2>1, <2>2
  <1>9. CASE StageRaises(j) \/ RefreshChunks(j) \/ CompleteJob(j) \/ FailJob(j)
    <2>1. /\ task'[j] \in {"failing", "indexed", "jobDone", "jobFailed"}
          /\ UNCHANGED <<chunks, status>>
      BY <1>2, <1>9 DEF StageRaises, RefreshChunks, CompleteJob, FailJob
    <2>2. WillWrite(j)'
      BY <2>1 DEF WillWrite, Working, Claimed, TaskPc
    <2>3. QED
      BY <1>3, <2>1, <2>2
  <1>10. CASE DeleteOldChunks(j)
    <2>1. task'[j] = "replacing" /\ erased'[j] = chunks[d0] /\ UNCHANGED <<chunks, status, jobDoc>>
      BY <1>2, <1>10 DEF DeleteOldChunks
    <2>2. WillWrite(j)'
      BY <2>1 DEF WillWrite, Working, Claimed, TaskPc
    <2>3. QED
      BY <1>3, <2>1, <2>2
  <1>11. CASE CommitChunks(j)
    <2>1. /\ task'[j] = "refreshing" /\ status' = status
          /\ \A d \in Docs : d # d0 => chunks'[d] = chunks[d]
      BY <1>2, <1>11 DEF CommitChunks
    <2>2. WillWrite(j)'
      BY <2>1 DEF WillWrite, Working, Claimed, TaskPc
    <2>3. QED
      BY <1>3, <2>1, <2>2
  <1>12. CASE ChunkConflict(j)
    BY <1>4, <1>12 DEF ChunkConflict, WillWrite
  <1>13. CASE CompleteDocument(j) \/ FailDocument(j)
    <2>1. /\ chunks' = chunks
          /\ status'[d0] # "PROCESSING"
          /\ \A d \in Docs : d # d0 => status'[d] = status[d]
      BY <1>1, <1>2, <1>13 DEF CompleteDocument, FailDocument
    <2>2. QED
      BY <1>4, <2>1
  <1>14. CASE DocumentVanished(j)
    BY <1>1, <1>4, <1>14 DEF DocumentVanished, RowExists, Live
  <1>15. QED
    BY <1>6, <1>7, <1>8, <1>9, <1>10, <1>11, <1>12, <1>13, <1>14 DEF Task, TaskStep

(* Without faults every step does.                                         *)
LEMMA WriterStep ==
  ASSUME RowInv, OwnerInv, Faults = FALSE, [Next]_vars
  PROVE  ProcessingHasWriter'
  <1> USE DEF docVars, jobVars, storeVars, workerVars
  <1>0. /\ status \in [Docs -> DocStatus] /\ chunks \in [Docs -> SUBSET ChunkRows]
        /\ task \in [Jobs -> TaskPc] /\ crashes \in Nat /\ jobDoc \in [Jobs -> Docs \cup {None}]
        /\ \A r \in Requests : req[r].pc # "idle" => req[r].doc \in Docs
        /\ \A j \in Jobs : task[j] # "none" => job[j] # "unused"
    BY MaxCrashesAssumption DEF RowInv, TypeOK, StoreTypeOK, JobsAreKnown
  <1>1. ASSUME crashes' = crashes, erased' = erased,
               \A d \in Docs : status'[d] = "PROCESSING" =>
                 status[d] = "PROCESSING" /\ chunks'[d] = chunks[d],
               \A j \in Jobs : task[j] # "none" => task'[j] = task[j] /\ jobDoc'[j] = jobDoc[j]
        PROVE  ProcessingHasWriter'
    <2>1. ASSUME crashes = 0, NEW d \in Docs, status'[d] = "PROCESSING"
          PROVE  \E j \in Jobs : jobDoc'[j] = d /\ WillWrite(j)'
      <3>1. PICK j \in Jobs : jobDoc[j] = d /\ WillWrite(j)
        BY <1>1, <2>1 DEF OwnerInv, ProcessingHasWriter
      <3>2. task[j] # "none"
        BY <3>1 DEF WillWrite, Working, Claimed
      <3>3. jobDoc'[j] = d /\ WillWrite(j)'
        BY <1>1, <2>1, <3>1, <3>2 DEF WillWrite
      <3>4. QED
        BY <3>3
    <2>2. QED
      BY <1>1, <2>1 DEF ProcessingHasWriter
  <1>2. ASSUME NEW j \in Jobs, Task(j) \/ TaskLost(j) PROVE ProcessingHasWriter'
    BY <1>2, TaskKeepsWriter DEF OwnerInv, TaskLost
  <1>3. CASE AdminSweep
    <2>1. UNCHANGED <<crashes, erased, chunks, task, jobDoc>>
      BY <1>3 DEF AdminSweep, SweepReads, SweepReadsDocuments, SweepCommits
    <2>2. \A d \in Docs : status'[d] = status[d] \/ status'[d] = "FAILED"
      BY <1>3, SweepKeepsRows DEF AdminSweep, SweepReads, SweepReadsDocuments
    <2>3. QED
      BY <1>1, <2>1, <2>2
  <1>4. CASE Restart
    BY <1>1, <1>4 DEF Restart, StartupSweep, FailTogether
  <1>5. CASE Crash
    BY <1>0, <1>5 DEF Crash, ProcessingHasWriter
  <1>6. CASE UNCHANGED vars
    BY <1>1, <1>6 DEF vars
  <1>7. ASSUME NEW r \in Requests, Request(r) PROVE ProcessingHasWriter'
    <2>1. crashes' = crashes /\ erased' = erased
      BY <1>7 DEF Request
    <2>2. ASSUME NEW d \in Docs,
                 StoreUpload(r, d) \/ BeginReprocess(r, d) \/ DeleteDocument(r, d)
          PROVE  ProcessingHasWriter'
      <3>1. UNCHANGED <<task, jobDoc>>
        BY <2>2 DEF StoreUpload, BeginReprocess, DeleteDocument
      <3>2. \A e \in Docs : status'[e] = "PROCESSING" =>
              status[e] = "PROCESSING" /\ chunks'[e] = chunks[e]
        BY <1>0, <2>2 DEF StoreUpload, BeginReprocess, DeleteDocument
      <3>3. QED
        BY <1>1, <2>1, <3>1, <3>2
    <2>3. CASE AddDocument(r) \/ ReopenDocument(r)
      <3>1. UNCHANGED <<task, jobDoc, chunks>>
        BY <2>3 DEF AddDocument, ReopenDocument
      <3>2. \A e \in Docs : status'[e] = "PROCESSING" => status[e] = "PROCESSING"
        BY <1>0, <2>3 DEF AddDocument, ReopenDocument
      <3>3. QED
        BY <1>1, <2>1, <3>1, <3>2
    <2>4. ASSUME NEW j \in Jobs, CreateJob(r, j) PROVE ProcessingHasWriter'
      <3>1. UNCHANGED <<task, chunks, status>>
        BY <2>4 DEF CreateJob
      <3>2. \A k \in Jobs : task[k] # "none" => jobDoc'[k] = jobDoc[k]
        BY <1>0, <2>4 DEF CreateJob, InsertJob
      <3>3. QED
        BY <1>1, <2>1, <3>1, <3>2
    <2>5. CASE ScheduleJob(r)
      <3>1. task[req[r].job] = "none"
        BY <2>5 DEF ScheduleJob, OwnerInv, CreatedWaits
      <3>2. \A k \in Jobs : task[k] # "none" => task'[k] = task[k]
        BY <1>0, <2>5, <3>1 DEF ScheduleJob
      <3>3. UNCHANGED <<jobDoc, chunks, status>>
        BY <2>5 DEF ScheduleJob
      <3>4. QED
        BY <1>1, <2>1, <3>2, <3>3
    <2>6. CASE \/ UploadFails(r) \/ RequestFails(r) \/ UnlinkFile(r)
               \/ CheckActiveJob(r) \/ NumberAttempt(r)
      BY <1>1, <2>1, <2>6
         DEF UploadFails, RequestFails, UnlinkFile, CheckActiveJob, NumberAttempt
    <2>7. QED
      BY <1>7, <2>2, <2>3, <2>4, <2>5, <2>6 DEF Request, RequestArrives, RequestContinues
  <1>8. QED
    BY <1>2, <1>3, <1>4, <1>5, <1>6, <1>7 DEF Next

(* While no call of a request fails and the process lives, no document is  *)
(* left PROCESSING by everybody: overlapping attempts may conflict in      *)
(* replace_version_chunks, and a sweep may fail their jobs under them, but *)
(* one of them has written its chunks and will write the status            *)
(* (process_job, _fail_job).                                               *)
THEOREM ProcessingOwned ==
  ASSUME Faults = FALSE
  PROVE  Spec => []ProcessingIsOwnedUntilCrash
  <1>1. Init => OwnerInv
    BY DEF Init, StoreInit, RequestInit, Idle, OwnerInv, CreatedWaits, ProcessingHasWriter
  <1>2. RowInv /\ OwnerInv /\ [Next]_vars => OwnerInv'
    BY CreatedStep, WriterStep DEF OwnerInv
  <1>3. OwnerInv => ProcessingIsOwnedUntilCrash
    <2>1. \A j \in Jobs : WillWrite(j) => task[j] # "none"
      BY DEF WillWrite, Working, Claimed
    <2>2. QED
      BY <2>1
         DEF OwnerInv, ProcessingHasWriter, ProcessingIsOwnedUntilCrash, ProcessingIsOwned
  <1>4. QED
    BY <1>1, <1>2, <1>3, RowInvHolds, PTL DEF Spec

-----------------------------------------------------------------------------
(* The life cycle of an attempt.                                           *)

(* Every step is one of the life cycle of its attempt, or a stutter.       *)
LEMMA LifecycleStep ==
  ASSUME IndexInv, [Next]_vars
  PROVE  [Lifecycle!Next]_<<job, Held>>
  <1> USE DEF docVars, jobVars, storeVars, workerVars
  <1>1. job \in [Jobs -> JobStatus] /\ task \in [Jobs -> TaskPc]
    BY DEF IndexInv, RowInv, TypeOK, StoreTypeOK
  <1>2. ASSUME NEW js \in SUBSET Jobs, \A j \in js : JobExists(j), task' = task,
               job' = [j \in Jobs |-> IF j \in js THEN "FAILED" ELSE job[j]]
        PROVE  Lifecycle!Next
    <2>1. js \in SUBSET Lifecycle!Existing /\ Lifecycle!GiveUp(js)
      BY <1>2 DEF Lifecycle!Existing, Lifecycle!GiveUp, JobExists, Held
    <2>2. QED
      BY <2>1 DEF Lifecycle!Next
  <1>2a. ASSUME job' = job, Held' \subseteq Held PROVE Lifecycle!Next
    <2>1. Held \ Held' \in SUBSET Held /\ Lifecycle!Release(Held \ Held')
      BY <1>2a DEF Lifecycle!Release
    <2>2. QED
      BY <2>1 DEF Lifecycle!Next
  <1>3. ASSUME NEW j \in Jobs, Task(j) PROVE [Lifecycle!Next]_<<job, Held>>
    <2>1. \A k \in Jobs : k # j => task'[k] = task[k]
      BY <1>3, OneTaskMoves DEF IndexInv
    <2>2. CASE ClaimJob(j)
      <3>1. Held' = Held \cup {j}
        BY <1>1, <2>1, <2>2 DEF ClaimJob, GoTo, Held
      <3>2. QED
        BY <2>2, <3>1 DEF ClaimJob, Lifecycle!Next, Lifecycle!Claim
    <2>3. CASE CompleteJob(j) \/ FailJob(j)
      <3>1. JobExists(j) /\ task[j] \in {"indexed", "failing"}
        BY <2>3 DEF CompleteJob, FailJob
      <3>2. j \in Held \cap Lifecycle!Existing /\ Held' = Held
        BY <1>1, <2>1, <2>3, <3>1
           DEF CompleteJob, FailJob, GoTo, Held, Lifecycle!Existing, JobExists
      <3>3. \E outcome \in {"COMPLETED", "FAILED"} : Lifecycle!Settle(j, outcome)
        BY <2>3, <3>2 DEF CompleteJob, FailJob, Lifecycle!Settle
      <3>4. QED
        BY <3>3 DEF Lifecycle!Next
    <2>4. CASE SkipJob(j)
      BY <1>1, <1>2a, <2>1, <2>4 DEF SkipJob, EndTask, GoTo, Held
    <2>5. ASSUME job' = job, task[j] \notin {"none", "queued"} PROVE Lifecycle!Next
      BY <1>2a, <2>1, <2>5 DEF Held
    <2>6. QED
      BY <1>3, <2>2, <2>3, <2>4, <2>5
         DEF Task, TaskStep, LoadDocument, StartProcessing, ReadFile, ExtractText,
             ChunkText, EmbedChunks, SaveStage, StageRaises, DeleteOldChunks, CommitChunks,
             ChunkConflict, RefreshChunks, CompleteDocument, FailDocument, DocumentVanished
  <1>4. ASSUME NEW r \in Requests, Request(r) PROVE [Lifecycle!Next]_<<job, Held>>
    <2>1. ASSUME NEW j \in Jobs, CreateJob(r, j) PROVE Lifecycle!Next
      BY <2>1 DEF CreateJob, InsertJob, Lifecycle!Next, Lifecycle!Create, Held
    <2>2. ASSUME NEW d \in Docs, DeleteDocument(r, d) PROVE Lifecycle!Next
      <3>1. JobsOf(d) \in SUBSET Lifecycle!Existing /\ Lifecycle!Erase(JobsOf(d))
        BY <2>2 DEF DeleteDocument, JobsOf, JobExists, Lifecycle!Existing, Lifecycle!Erase, Held
      <3>2. QED
        BY <3>1 DEF Lifecycle!Next
    <2>3. CASE ScheduleJob(r)
      BY <1>1, <1>2a, <2>3 DEF ScheduleJob, Held
    <2>4. CASE job' = job /\ task' = task
      BY <2>4 DEF Held
    <2>5. QED
      BY <1>4, <2>1, <2>2, <2>3, <2>4
         DEF Request, RequestArrives, RequestContinues, StoreUpload, BeginReprocess,
             CheckActiveJob, NumberAttempt, AddDocument, UploadFails, ReopenDocument,
             RequestFails, UnlinkFile
  <1>5. CASE AdminSweep
    <2>1. sweep.jobs \in SUBSET Jobs
      BY DEF IndexInv, RowInv, TypeOK, SweepTypeOK, SweepState
    <2>2. CASE job' = job /\ task' = task
      BY <2>2 DEF Held
    <2>3. CASE SweepCommits
      <3>1. task' = task
        BY <2>3 DEF SweepCommits
      <3>2. CASE \A j \in sweep.jobs : JobExists(j)
        BY <1>2, <2>1, <2>3, <3>1, <3>2 DEF SweepCommits, FailTogether
      <3>3. CASE ~ \A j \in sweep.jobs : JobExists(j)
        BY <2>2, <2>3, <3>1, <3>3 DEF SweepCommits
      <3>4. QED
        BY <3>2, <3>3
    <2>4. QED
      BY <1>5, <2>2, <2>3 DEF AdminSweep, SweepReads, SweepReadsDocuments
  <1>6. CASE Restart
    <2>1. PICK js \in StaleSets : FailTogether(js, DocsToFail(js))
      BY <1>6 DEF Restart, StartupSweep
    <2>2. QED
      BY <1>2, <1>6, <2>1 DEF Restart, FailTogether, StaleSets, Active, JobExists
  <1>7. CASE Crash \/ (\E j \in Jobs : TaskLost(j))
    <2>1. job' = job /\ \A k \in Jobs : task'[k] \in {task[k], "none"}
      BY <1>1, <1>7 DEF Crash, TaskLost, EndTask, GoTo
    <2>2. QED
      BY <1>2a, <2>1 DEF Held
  <1>8. CASE UNCHANGED vars
    BY <1>8 DEF vars, Held
  <1>9. QED
    BY <1>3, <1>4, <1>5, <1>6, <1>7, <1>8 DEF Next

(* The ingestion_jobs table implements the life cycle of an attempt         *)
(* (JobLifecycle) under every interleaving: it is claimed at most once and *)
(* only while pending, only the task that holds the claim records an       *)
(* outcome, and nothing that was settled, given up or deleted runs again.  *)
THEOREM RefinesLifecycle == Spec => ImplementsLifecycle
  <1>1. Init => Lifecycle!Init
    BY DEF Init, StoreInit, Lifecycle!Init, Held
  <1>2. IndexInv /\ [Next]_vars => [Lifecycle!Next]_<<job, Held>>
    BY LifecycleStep
  <1>3. QED
    BY <1>1, <1>2, IndexInvHolds, PTL DEF Spec, ImplementsLifecycle, Lifecycle!Spec

-----------------------------------------------------------------------------
(* What readers see of the index.                                          *)

(* Every step is one of the index, or a stutter.                           *)
LEMMA IndexStep ==
  ASSUME IndexInv, IndexInv', [Next]_vars
  PROVE  [Index!IndexNext]_(Index!indexVars)
  <1> DEFINE rowOf(d) == IF RowExists(d) THEN "live" ELSE status[d]
             attemptsOf(d) == {c.by : c \in chunks[d]}
             meets == {d \in Docs : Searchable(d)}
  <1> USE DEF docVars, jobVars, storeVars, workerVars
  <1>1. /\ status \in [Docs -> DocStatus] /\ chunks \in [Docs -> SUBSET ChunkRows]
        /\ provider \in Providers
    BY DEF IndexInv, RowInv, TypeOK, StoreTypeOK
  <1>2. \A d \in Docs : Searchable(d)' => RowExists(d)' /\ attemptsOf(d)' # {}
    BY DEF IndexInv, Indexing, CompletedMatches, Searchable, RowExists, Live
  <1>3. ASSUME chunks' = chunks, \A d \in Docs : rowOf(d)' = rowOf(d)
        PROVE  Index!IndexNext
    <2>1. \A d \in Docs : Searchable(d)' => rowOf(d) = "live" /\ attemptsOf(d) # {}
      BY <1>2, <1>3
    <2>2. Index!Publish
      BY <1>3, <2>1 DEF Index!Publish
    <2>3. QED
      BY <2>2 DEF Index!IndexNext
  <1>4. ASSUME NEW j \in Jobs, Task(j) \/ TaskLost(j) PROVE Index!IndexNext
    <2>1. CASE CommitChunks(j)
      <3>1. /\ jobDoc[j] \in Docs /\ RowExists(jobDoc[j])
            /\ chunks' = [chunks EXCEPT ![jobDoc[j]] = {[by |-> j, vector |-> provider]}]
            /\ UNCHANGED <<status, docProvider, provider>>
        BY <2>1 DEF CommitChunks, IndexInv, RowInv, JobsAreKnown
      <3>1a. PICK d \in Docs : d = jobDoc[j]
        BY <3>1
      <3>1b. chunks'[d] = {[by |-> j, vector |-> provider]}
        BY <1>1, <3>1, <3>1a
      <3>1c. \A e \in Docs : e # d => chunks'[e] = chunks[e]
        BY <1>1, <3>1, <3>1a
      <3>1d. {c.by : c \in chunks'[d]} = {j}
        BY <3>1b
      <3>2. [e \in Docs |-> attemptsOf(e)]' = [[e \in Docs |-> attemptsOf(e)] EXCEPT ![d] = {j}]
        BY <3>1c, <3>1d
      <3>3. Index!ReplaceChunks(d, j)
        BY <3>1, <3>1a, <3>2 DEF Index!ReplaceChunks, RowExists, Searchable
      <3>4. QED
        BY <3>3 DEF Index!IndexNext
    <2>2. CASE ~CommitChunks(j)
      <3>1. chunks' = chunks
        BY <1>4, <2>2
           DEF Task, TaskStep, TaskLost, ClaimJob, SkipJob, LoadDocument, StartProcessing,
               ReadFile, ExtractText, ChunkText, EmbedChunks, SaveStage, StageRaises,
               DeleteOldChunks, ChunkConflict, RefreshChunks, CompleteJob, CompleteDocument,
               FailJob, FailDocument, DocumentVanished
      <3>2. \A d \in Docs : status'[d] = status[d] \/ (RowExists(d) /\ RowExists(d)')
        BY <1>4, TaskKeepsRows DEF IndexInv, TaskLost
      <3>3. QED
        BY <1>3, <3>1, <3>2 DEF RowExists
    <2>3. QED
      BY <2>1, <2>2
  <1>5. ASSUME NEW r \in Requests, Request(r) PROVE Index!IndexNext
    <2>1. req[r].pc # "idle" => req[r].doc \in Docs
      BY DEF IndexInv, RowInv, JobsAreKnown
    <2>2. ASSUME NEW d \in Docs, DeleteDocument(r, d) PROVE Index!IndexNext
      <3>1. /\ RowExists(d)
            /\ status' = [status EXCEPT ![d] = "deleted"]
            /\ chunks' = [chunks EXCEPT ![d] = {}]
            /\ UNCHANGED <<docProvider, provider>>
        BY <2>2 DEF DeleteDocument
      <3>2. [e \in Docs |-> attemptsOf(e)]' = [[e \in Docs |-> attemptsOf(e)] EXCEPT ![d] = {}]
        BY <1>1, <3>1
      <3>3. [e \in Docs |-> rowOf(e)]' = [[e \in Docs |-> rowOf(e)] EXCEPT ![d] = "deleted"]
        BY <1>1, <3>1 DEF RowExists, Live
      <3>4. meets' = meets \ {d}
        BY <1>1, <3>1 DEF Searchable
      <3>5. Index!RemoveDocument(d)
        BY <3>1, <3>2, <3>3, <3>4 DEF Index!RemoveDocument
      <3>6. QED
        BY <3>5 DEF Index!IndexNext
    <2>3. CASE AddDocument(r)
      <3>1. /\ req[r].doc \in Docs /\ status[req[r].doc] = "absent"
            /\ status' = [status EXCEPT ![req[r].doc] = "PENDING"]
            /\ UNCHANGED <<chunks, docProvider, provider>>
        BY <2>1, <2>3 DEF AddDocument, IndexInv, RowInv, RequestRows
      <3>2. [e \in Docs |-> rowOf(e)]' = [[e \in Docs |-> rowOf(e)] EXCEPT ![req[r].doc] = "live"]
        BY <1>1, <3>1 DEF RowExists, Live
      <3>3. meets' = meets
        BY <1>1, <3>1 DEF Searchable
      <3>3a. PICK d \in Docs : d = req[r].doc
        BY <3>1
      <3>4. Index!AddDocument(d)
        BY <3>1, <3>2, <3>3, <3>3a DEF Index!AddDocument, RowExists, Live
      <3>5. QED
        BY <3>4 DEF Index!IndexNext
    <2>4. CASE ReopenDocument(r)
      <3>1. /\ chunks' = chunks
            /\ \A d \in Docs : status'[d] = status[d] \/ (RowExists(d) /\ status'[d] = "PENDING")
        BY <1>1, <2>1, <2>4 DEF ReopenDocument
      <3>2. QED
        BY <1>3, <3>1 DEF RowExists, Live
    <2>5. CASE UNCHANGED <<chunks, status>>
      BY <1>3, <2>5 DEF RowExists
    <2>6. QED
      BY <1>5, <2>2, <2>3, <2>4, <2>5
         DEF Request, RequestArrives, RequestContinues, StoreUpload, BeginReprocess,
             CheckActiveJob, NumberAttempt,
             CreateJob, ScheduleJob, UploadFails, RequestFails, UnlinkFile
  <1>6. CASE AdminSweep
    <2>1. chunks' = chunks
      BY <1>6 DEF AdminSweep, SweepReads, SweepReadsDocuments, SweepCommits
    <2>2. \A d \in Docs : status'[d] = status[d] \/ (RowExists(d) /\ status'[d] = "FAILED")
      BY <1>6, SweepKeepsRows
         DEF AdminSweep, SweepReads, SweepReadsDocuments, IndexInv
    <2>3. QED
      BY <1>3, <2>1, <2>2 DEF RowExists, Live
  <1>7. CASE Restart
    <2>1. PICK js \in StaleSets : FailTogether(js, DocsToFail(js))
      BY <1>7 DEF Restart, StartupSweep
    <2>2. chunks' = chunks /\ \A d \in Docs : rowOf(d)' = rowOf(d)
      BY <1>7, <2>1 DEF Restart, FailTogether, DocsToFail, RowExists, Live
    <2>3. QED
      BY <1>3, <2>2
  <1>8. CASE Crash \/ UNCHANGED vars
    BY <1>3, <1>8 DEF Crash, vars, RowExists
  <1>9. QED
    BY <1>4, <1>5, <1>6, <1>7, <1>8 DEF Next

(* Readers of the index see what ChunkIndex promises: a document's chunks   *)
(* change hands in one step (replace_version_chunks), search meets only    *)
(* documents that have chunks, and a deleted document stays away.          *)
THEOREM RefinesIndex == Spec => ImplementsIndex
  <1>1. Init => Index!IndexInit
    BY DEF Init, StoreInit, Index!IndexInit, RowExists, Live, Searchable
  <1>2. IndexInv /\ IndexInv' /\ [Next]_vars => [Index!IndexNext]_(Index!indexVars)
    BY IndexStep
  <1>3. QED
    BY <1>1, <1>2, IndexInvHolds, PTL DEF Spec, ImplementsIndex, Index!IndexSpec

=============================================================================
