---------------------------- MODULE DocumentPage ----------------------------
(***************************************************************************)
(* DocumentDetailPage: a document whose state at the server is reported by *)
(* polls, and that the page can have processed again or deleted.  What the *)
(* worker does is in IngestionWorker; here only its effect on the status   *)
(* matters.  No other client changes the document.                         *)
(***************************************************************************)
EXTENDS BrowserTab

CONSTANT MaxRev  \* bound on the changes of the document

ASSUME MaxRevAssumption == MaxRev \in Nat \ {0}

VARIABLES
  document,  \* the server's: processing_status and, counted, its changes
  shown,     \* the document in the state of the page
  working    \* busy of the page

documentVars == <<document, shown, working>>

Active == {"pending", "processing"}
Statuses == Active \cup {"completed", "failed", "deleted"}

Nothing == [status |-> "none", rev |-> 0]

DocumentInit ==
  /\ document = [status |-> "pending", rev |-> 1]
  /\ shown = Nothing
  /\ working = FALSE

ClearDocument ==
  /\ document' = [status |-> "pending", rev |-> 1]
  /\ shown' = Nothing
  /\ working' = FALSE

Changed(status) == [status |-> status, rev |-> document.rev + 1]

-----------------------------------------------------------------------------
(* The first load of a document in any state. *)
OpenDocument(s) ==
  /\ OpenPage("document")
  /\ document' \in [status : Statuses, rev : {1}]
  /\ Begins(s, [Idle EXCEPT !.kind = "load", !.at = "document"])
  /\ UNCHANGED <<trouble, astray, shown, working>>

StartsHere(s, function) ==
  /\ page = "document"
  /\ Begins(s, function)
  /\ UNCHANGED <<serverVars, sessionVars, page, trouble, astray, document, shown>>

(* A document that still waits is not polled. *)
PollFaulty(s) ==
  /\ shown.status = "processing"
  /\ StartsHere(s, [Idle EXCEPT !.kind = "load", !.at = "document"])
  /\ UNCHANGED working

(* The interval does not wait for the answer to the poll before.           *)
Poll(s) ==
  /\ shown.status \in Active
  /\ StartsHere(s, [Idle EXCEPT !.kind = "load", !.at = "document"])
  /\ UNCHANGED working

(* The button for a first load that failed. *)
Retry(s) ==
  /\ shown = Nothing /\ \A r \in Slots : Free(r)
  /\ StartsHere(s, [Idle EXCEPT !.kind = "load", !.at = "document"])
  /\ UNCHANGED working

Reprocess(s) ==
  /\ shown # Nothing /\ shown.status \notin Active /\ ~working
  /\ StartsHere(s, [Idle EXCEPT !.kind = "reprocess", !.at = "reprocess"])
  /\ working' = TRUE

DeleteDocument(s) ==
  /\ shown # Nothing /\ ~working
  /\ StartsHere(s, [Idle EXCEPT !.kind = "remove", !.at = "remove"])
  /\ working' = TRUE

-----------------------------------------------------------------------------
(* What the server does. *)

(* The document and its jobs are asked for at once. *)
ServeLoad(s) ==
  /\ Asks(s, "document")
  /\ IF document.status = "deleted" THEN Reply(s, "failed", None) /\ UNCHANGED trouble
     ELSE Done(s, document)
  /\ UNCHANGED document

(* 409 while an attempt is active. *)
ServeReprocess(s) ==
  /\ Asks(s, "reprocess")
  /\ IF document.status \in Active \cup {"deleted"}
     THEN Reply(s, "failed", None) /\ UNCHANGED <<trouble, document>>
     ELSE /\ document.rev < MaxRev - 2
          /\ document' = Changed("pending")
          /\ Done(s, document')

(* 404 for a document that is gone. *)
ServeRemove(s) ==
  /\ Asks(s, "remove")
  /\ IF document.status = "deleted"
     THEN Reply(s, "failed", None) /\ UNCHANGED <<trouble, document>>
     ELSE /\ document' = [document EXCEPT !.status = "deleted"]
          /\ Done(s, None)

ServeJobs(s) ==
  /\ Asks(s, "jobs")
  /\ Done(s, None)
  /\ UNCHANGED document

ServeDocument(s) ==
  /\ page = "document"
  /\ ServeLoad(s) \/ ServeReprocess(s) \/ ServeRemove(s) \/ ServeJobs(s)
  /\ UNCHANGED <<serverVars, sessionVars, page, astray, shown, working>>

(* The worker begins and ends an attempt, or the sweep fails it.           *)
Work ==
  /\ page = "document"
  /\ document.rev < MaxRev
  /\ \/ document.status = "pending" /\ document' = Changed("processing")
     \/ /\ document.status \in Active
        /\ \E end \in {"completed", "failed"} : document' = Changed(end)
  /\ UNCHANGED <<tabVars, shown, working>>

-----------------------------------------------------------------------------
(* What the functions do with the answers. *)

(* An answer may be older than what is shown; one that shows an end of the *)
(* processing stops the polls.                                             *)
Shown(s) ==
  /\ shown' = run[s].body
  /\ astray' = (astray \/ (run[s].body.rev < shown.rev /\ run[s].body.status \notin Active))

Loaded(s) ==
  /\ Answered(s, "load", "document")
  /\ Shown(s)
  /\ Ends(s)
  /\ UNCHANGED <<page, document, working>>

Reprocessed(s) ==
  /\ Answered(s, "reprocess", "reprocess")
  /\ Shown(s)
  /\ GoesOn(s, "jobs", None)
  /\ UNCHANGED <<page, document, working>>

JobsLoaded(s) ==
  /\ Answered(s, "reprocess", "jobs")
  /\ working' = FALSE
  /\ Ends(s)
  /\ UNCHANGED <<page, astray, document, shown>>

(* navigate("/documents"); the other functions of the page show nothing    *)
(* any more.                                                               *)
Removed(s) ==
  /\ Answered(s, "remove", "remove")
  /\ Unmount
  /\ ClearDocument

(* A document that is processed again although the answer got lost is not  *)
(* polled.                                                                 *)
DocumentFails(s) ==
  /\ \E kind \in {"load", "reprocess", "remove"} : Failed(s, kind)
  /\ working' = (working /\ run[s].kind = "load")
  /\ astray' = (astray \/ run[s].at \in {"reprocess", "remove"})
  /\ Ends(s)
  /\ UNCHANGED <<page, document, shown>>

DocumentGoesOn(s) ==
  /\ page = "document"
  /\ Loaded(s) \/ Reprocessed(s) \/ JobsLoaded(s) \/ Removed(s) \/ DocumentFails(s)
  /\ UNCHANGED <<serverVars, sessionVars, trouble>>

-----------------------------------------------------------------------------
(* The page reports the end of the processing, unless an old answer has    *)
(* overtaken a newer one or the answer to a command was lost.              *)
PageCatchesUp ==
  shown # Nothing ~> page # "document" \/ astray \/ shown = document
=============================================================================
