----------------------------- MODULE Grounding -----------------------------
(***************************************************************************)
(* One thread of the API at work on a file or on a question.  A file is    *)
(* extracted, cleaned and chunked, and its chunks are embedded             *)
(* (process_job); a question is embedded, searched for, gated and answered *)
(* (ask).  What both store meanwhile is in IngestionWorker and in          *)
(* Conversations.                                                          *)
(***************************************************************************)
EXTENDS TextChunks, ProviderCalls, EvidenceSelection

VARIABLE stage

vars == <<stage, textVars, providerVars, evidenceVars>>

Ends == {"indexed", "failed", "answered", "refused"}

Init ==
  /\ CallInit
  /\ EvidenceInit
  /\ \/ stage = "text" /\ TextInit
     \/ stage = "question" /\ NoText

-----------------------------------------------------------------------------
(* process_job: what the attempt fails of is recorded by _fail_job.        *)
Text ==
  /\ stage = "text"
  /\ TextNext
  /\ stage' = IF pc' \in {"unreadable", "failed"} THEN "failed" ELSE stage
  /\ UNCHANGED <<providerVars, evidenceVars>>

NothingToEmbed ==
  /\ stage = "text" /\ pc = "done" /\ chunks = <<>>
  /\ stage' = "failed"
  /\ UNCHANGED <<textVars, providerVars, evidenceVars>>

EmbedChunks ==
  /\ stage = "text" /\ pc = "done" /\ chunks # <<>>
  /\ BeginCall("embed_documents", Len(chunks))
  /\ ReturnChunks
  /\ stage' = "vectors"
  /\ UNCHANGED evidenceVars

-----------------------------------------------------------------------------
(* ask *)
EmbedQuestion ==
  /\ stage = "question" /\ callPc = "idle"
  /\ BeginCall("embed_query", 1)
  /\ UNCHANGED <<stage, textVars, evidenceVars>>

Search ==
  /\ stage = "question" /\ callPc = "over" /\ outcome = "result"
  /\ BeginSearch
  /\ EndCall
  /\ stage' = "evidence"
  /\ UNCHANGED textVars

SelectEvidence ==
  /\ stage = "evidence"
  /\ EvidenceStep
  /\ UNCHANGED <<stage, textVars, providerVars>>

(* The answer to too little evidence is fixed and costs no call.           *)
CompleteAnswer ==
  /\ stage = "evidence" /\ searchPc = "over"
  /\ IF reason = "ok"
     THEN BeginCall("complete", 0) /\ stage' = "answer"
     ELSE stage' = "refused" /\ UNCHANGED providerVars
  /\ ReturnEvidence
  /\ UNCHANGED textVars

-----------------------------------------------------------------------------
Call ==
  /\ CallStep
  /\ UNCHANGED <<stage, textVars, evidenceVars>>

(* An error of the provider fails the attempt, or the question. *)
CallReturns ==
  /\ callPc = "over"
  /\ \/ outcome # "result" /\ stage \notin Ends /\ stage' = "failed"
     \/ outcome = "result" /\ stage = "vectors" /\ stage' = "indexed"
     \/ outcome = "result" /\ stage = "answer" /\ stage' = "answered"
  /\ UNCHANGED <<textVars, providerVars, evidenceVars>>

Next ==
  \/ Text \/ NothingToEmbed \/ EmbedChunks
  \/ EmbedQuestion \/ Search \/ SelectEvidence \/ CompleteAnswer
  \/ Call \/ CallReturns

(* The thread runs, every post ends, at the latest with its timeout, and   *)
(* sleeps end.                                                             *)
Spec == Init /\ [][Next]_vars /\ WF_vars(Next)

-----------------------------------------------------------------------------
(* Every file and every question is done with in the end: the window loop  *)
(* makes progress for every size and overlap, and no order of errors and   *)
(* Retry-After headers keeps a call retrying.                              *)
WorkEnds == <>(stage \in Ends)

TypeOK ==
  /\ stage \in Ends \cup {"text", "vectors", "question", "evidence", "answer"}
  /\ TextTypeOK
  /\ CallTypeOK
  /\ EvidenceTypeOK
=============================================================================
