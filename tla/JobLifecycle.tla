---------------------------- MODULE JobLifecycle ----------------------------
(***************************************************************************)
(* What the ingestion_jobs table promises about one attempt, whoever       *)
(* writes it: the request that creates it, its background task, the stale  *)
(* sweep, or the delete of its document.  An outcome is recorded only by   *)
(* the task that claimed the attempt; it may record it after the sweep     *)
(* gave the attempt up (a task that outlived the stale timeout), but no    *)
(* attempt is claimed twice and none that was given up is ever claimed.    *)
(***************************************************************************)
CONSTANT Jobs

VARIABLES
  phase,  \* ingestion_jobs.status of each attempt
  held    \* the attempts in the hands of the task that claimed them

Init == phase = [j \in Jobs |-> "unused"] /\ held = {}

Create(j) ==
  /\ phase[j] = "unused"
  /\ phase' = [phase EXCEPT ![j] = "PENDING"]
  /\ held' = held

Claim(j) ==
  /\ phase[j] = "PENDING"
  /\ phase' = [phase EXCEPT ![j] = "RUNNING"]
  /\ held' = held \cup {j}

Existing == {j \in Jobs : phase[j] \notin {"unused", "gone"}}

(* The task that claimed attempt j records an outcome. *)
Settle(j, outcome) ==
  /\ j \in held \cap Existing
  /\ phase' = [phase EXCEPT ![j] = outcome]
  /\ held' = held

(* The tasks of the attempts js return or are lost. *)
Release(js) == phase' = phase /\ held' = held \ js

(* Recovery gives up on a set of attempts, claimed or not. *)
GiveUp(js) ==
  /\ phase' = [j \in Jobs |-> IF j \in js THEN "FAILED" ELSE phase[j]]
  /\ held' = held

(* The attempts of a document go with it. *)
Erase(js) ==
  /\ phase' = [j \in Jobs |-> IF j \in js THEN "gone" ELSE phase[j]]
  /\ held' = held

Next ==
  \/ \E j \in Jobs : \/ Create(j) \/ Claim(j)
                     \/ \E outcome \in {"COMPLETED", "FAILED"} : Settle(j, outcome)
  \/ \E js \in SUBSET held : Release(js)
  \/ \E js \in SUBSET Existing : GiveUp(js) \/ Erase(js)

Spec == Init /\ [][Next]_<<phase, held>>
=============================================================================
