--------------------------- MODULE StaleRecovery ---------------------------
(***************************************************************************)
(* fail_stale_ingestion_jobs: run once when the API starts, and by admins  *)
(* through POST /admin/ingestion-jobs/recover-stale at any time.  It reads *)
(* the stale jobs, then their documents, and commits all its changes at    *)
(* once; nothing locks the rows in between.                                *)
(***************************************************************************)
EXTENDS DocumentStore

CONSTANT
  SlowTasks  \* whether a task may still be alive when its job is stale

ASSUME SlowTasksAssumption == SlowTasks \in BOOLEAN

VARIABLE sweep  \* the admin sweep: whether it has read, and what it will fail

SweepState == [pc : {"idle", "jobs", "documents"}, jobs : SUBSET Jobs, docs : SUBSET Docs]

NoSweep == [pc |-> "idle", jobs |-> {}, docs |-> {}]

SweepTypeOK == sweep \in SweepState

SweepInit == sweep = NoSweep

(* Sets of jobs a sweep may find older than INGESTION_STALE_JOB_MINUTES.   *)
(* Time is not modelled: a pending or running job may or may not have      *)
(* exceeded the timeout.                                                   *)
StaleSets == {js \in SUBSET {j \in Jobs : job[j] \in Active} :
                SlowTasks \/ \A j \in js : task[j] = "none"}

(* A document that already reached a terminal status keeps it. *)
DocsToFail(js) == {d \in Docs : /\ status[d] \in {"PENDING", "PROCESSING"}
                                /\ \E j \in js : jobDoc[j] = d}

SweepReads(js) ==
  /\ sweep.pc = "idle"
  /\ js \in StaleSets \ {{}}
  /\ sweep' = [pc |-> "jobs", jobs |-> js, docs |-> {}]
  /\ UNCHANGED storeVars

SweepReadsDocuments ==
  /\ sweep.pc = "jobs"
  /\ sweep' = [sweep EXCEPT !.pc = "documents", !.docs = DocsToFail(sweep.jobs)]
  /\ UNCHANGED storeVars

(* One commit for all; a row deleted since the read makes the whole commit *)
(* fail and roll back.                                                     *)
SweepCommits ==
  /\ sweep.pc = "documents"
  /\ IF \A j \in sweep.jobs : JobExists(j)
     THEN FailTogether(sweep.jobs, sweep.docs)
     ELSE UNCHANGED <<job, status>>
  /\ sweep' = NoSweep
  /\ UNCHANGED <<docProvider, file, chunks, jobDoc, attempt, task, provider>>

(* The sweep of the startup hook, before the API serves anything.          *)
StartupSweep == \E js \in StaleSets : FailTogether(js, DocsToFail(js))
=============================================================================
