-------------------------- MODULE DocumentPipeline -------------------------
(***************************************************************************)
(* The document pipeline: admin requests, background tasks and the stale   *)
(* sweep over one database and one object storage, with loss of single     *)
(* tasks, crashes of the API and restarts (possibly with another embedding *)
(* provider configured).                                                   *)
(***************************************************************************)
EXTENDS IngestionWorker, DocumentRequests, StaleRecovery

CONSTANT
  MaxCrashes  \* bound on crashes and deploys of the API

ASSUME MaxCrashesAssumption == MaxCrashes \in Nat

VARIABLES
  up,      \* whether the API process is running
  crashes  \* how often it has stopped

vars == <<storeVars, workerVars, req, sweep, up, crashes>>

TypeOK ==
  /\ StoreTypeOK
  /\ WorkerTypeOK
  /\ RequestTypeOK
  /\ SweepTypeOK
  /\ up \in BOOLEAN
  /\ crashes \in 0..MaxCrashes

Init ==
  /\ StoreInit
  /\ WorkerInit
  /\ RequestInit
  /\ SweepInit
  /\ up = TRUE
  /\ crashes = 0

-----------------------------------------------------------------------------
Task(j) == TaskStep(j) /\ UNCHANGED <<req, sweep, up, crashes>>

Request(r) ==
  /\ RequestArrives(r) \/ RequestContinues(r)
  /\ up
  /\ UNCHANGED <<workerVars, sweep, up, crashes>>

(* With SlowTasks = FALSE the timeout exceeds what requests and tasks take, *)
(* so a job in the hands of either is not stale.                           *)
AdminSweep ==
  /\ \/ \E js \in SUBSET Jobs :
          /\ SweepReads(js)
          /\ SlowTasks \/ \A r \in Requests : req[r].job \notin js
     \/ SweepReadsDocuments
     \/ SweepCommits
  /\ up
  /\ UNCHANGED <<workerVars, req, up, crashes>>

(* One task is lost: an error escapes process_job into the runner, or one  *)
(* of several server processes dies.                                       *)
TaskLost(j) ==
  /\ Faults
  /\ task[j] # "none"
  /\ EndTask(j)
  /\ UNCHANGED <<docVars, jobVars, provider, req, sweep, up, crashes>>

(* Everything in memory is lost: BackgroundTasks run in the API process.   *)
Crash ==
  /\ up
  /\ crashes < MaxCrashes
  /\ up' = FALSE
  /\ crashes' = crashes + 1
  /\ task' = [j \in Jobs |-> "none"]
  /\ seen' = [j \in Jobs |-> "absent"]
  /\ erased' = [j \in Jobs |-> {}]
  /\ req' = [r \in Requests |-> Idle]
  /\ sweep' = NoSweep
  /\ UNCHANGED <<docVars, jobVars, provider>>

(* lifespan: the settings are read anew and stale jobs are swept. *)
Restart ==
  /\ ~up
  /\ up' = TRUE
  /\ provider' \in Providers
  /\ StartupSweep
  /\ UNCHANGED <<docProvider, file, chunks, jobDoc, attempt, task,
                 workerVars, req, sweep, crashes>>

Next ==
  \/ \E j \in Jobs : Task(j) \/ TaskLost(j)
  \/ \E r \in Requests : Request(r)
  \/ AdminSweep
  \/ Crash
  \/ Restart

Spec == Init /\ [][Next]_vars

(* A started handler and a scheduled background task keep running while    *)
(* their process lives, and a stopped API is restarted (docker-compose:    *)
(* restart: unless-stopped).  Nothing makes an admin send a request or     *)
(* start a sweep, and nothing makes a crash happen.                        *)
Fairness ==
  /\ \A j \in Jobs : WF_vars(Task(j))
  /\ \A r \in Requests :
       WF_vars(up /\ RequestContinues(r) /\ UNCHANGED <<workerVars, sweep, up, crashes>>)
  /\ WF_vars(/\ SweepReadsDocuments \/ SweepCommits
             /\ up /\ UNCHANGED <<workerVars, req, up, crashes>>)
  /\ WF_vars(Restart)

FairSpec == Spec /\ Fairness

-----------------------------------------------------------------------------
(* Invariants.                                                             *)

(* Search without the filter on the provider. *)
SearchableFaulty(d) == status[d] = "COMPLETED"

(* What retrieval searches for document d: similarity_search joins the     *)
(* documents that are COMPLETED and were indexed with the active provider. *)
Searchable(d) == status[d] = "COMPLETED" /\ docProvider[d] = provider

(* A COMPLETED document is fully indexed by one attempt: it has chunks,    *)
(* and never chunks of two attempts, although two tasks of one document    *)
(* may index it at the same time and either may fail or be lost.           *)
CompletedIsIndexed ==
  \A d \in Docs : status[d] = "COMPLETED" =>
    \E j \in Jobs : /\ jobDoc[j] = d
                    /\ chunks[d] # {}
                    /\ \A c \in chunks[d] : c.by = j

(* Search compares the query only with vectors of the provider it uses:    *)
(* no interleaving of attempts, crashes and restarts under another         *)
(* provider leaves a searchable document with vectors of a different one.  *)
SearchableVectorsMatch ==
  \A d \in Docs : Searchable(d) => \A c \in chunks[d] : c.vector = provider

(* A PROCESSING document is in somebody's hands: a live task will finish   *)
(* it, or a pending or running job lets the stale sweep find it.           *)
(* Otherwise reprocess refuses it (already_processing) for good.           *)
ProcessingIsOwned ==
  \A d \in Docs : status[d] = "PROCESSING" =>
    \/ HasActiveJob(d)
    \/ \E j \in Jobs : jobDoc[j] = d /\ task[j] # "none"

(* While the process lives nobody loses a PROCESSING document.             *)
ProcessingIsOwnedUntilCrash == crashes = 0 => ProcessingIsOwned

(* reprocess refuses a document that has a pending or running job, so a    *)
(* document never has two of them (DocumentService.reprocess).             *)
OneActiveJob ==
  \A d \in Docs : \A j, k \in ActiveJobs(d) : j = k

(* Each reprocess is a new attempt: the attempt numbers of a document's    *)
(* jobs tell them apart.                                                   *)
AttemptsDistinct ==
  \A d \in Docs : \A j, k \in JobsOf(d) : attempt[j] = attempt[k] => j = k

(* The bytes of a document outlive its row: they are stored before it is   *)
(* committed and removed after it is deleted, so an attempt always finds   *)
(* them, whatever requests and crashes interleave.                         *)
DocumentHasFile == \A d \in Docs : RowExists(d) => d \in file

(* A stored object without a documents row belongs to a request that is    *)
(* about to commit the row or to remove the object: while the process      *)
(* lives nothing leaks.                                                    *)
NoLeakUntilCrash ==
  crashes = 0 => \A d \in file : ~RowExists(d) =>
    \E r \in Requests : req[r].doc = d /\ req[r].pc \in {"stored", "saved", "unlinking"}

(* A RUNNING job has a task that is running it; the error handling of      *)
(* process_job is there so that a task that ends records how.              *)
RunningHasTask == \A j \in Jobs : job[j] = "RUNNING" => task[j] # "none"

-----------------------------------------------------------------------------
(* Refinement and liveness properties.                                     *)

(* The attempts whose task got past its claim. *)
Held == {j \in Jobs : task[j] \notin {"none", "queued"}}

Lifecycle == INSTANCE JobLifecycle WITH phase <- job, held <- Held

(* The jobs table implements the life cycle of an attempt: it is claimed   *)
(* at most once and only while pending, an outcome is recorded only by the *)
(* task that holds that claim (a task whose job the sweep failed before    *)
(* the claim records none), and what was settled or given up never becomes *)
(* pending or running again.                                               *)
ImplementsLifecycle == Lifecycle!Spec

Index == INSTANCE ChunkIndex WITH
  Chunks <- Jobs,
  document <- [d \in Docs |-> IF RowExists(d) THEN "live" ELSE status[d]],
  indexed <- [d \in Docs |-> {c.by : c \in chunks[d]}],
  searchable <- {d \in Docs : Searchable(d)}

(* The pipeline keeps the promise of ChunkIndex: readers see the chunks of *)
(* a document change from one attempt's to another's in one step, meet     *)
(* only documents that have chunks, and never meet a deleted one again.    *)
ImplementsIndex == Index!IndexSpec

(* Every accepted attempt is settled: a pending or running job eventually  *)
(* is completed, failed or deleted with its document, until the process    *)
(* crashes: then it is left to the sweep, which nobody has to start.       *)
AttemptsSettle ==
  \A j \in Jobs : job[j] \in Active ~> job[j] \notin Active \/ crashes > 0

(* A document does not stay pending or processing while the process lives; *)
(* after a crash it may (ProcessingIsOwned, StuckProcessing.cfg).          *)
DocumentsSettle ==
  \A d \in Docs : status[d] \in {"PENDING", "PROCESSING"}
                    ~> status[d] \notin {"PENDING", "PROCESSING"} \/ crashes > 0
=============================================================================
