----------------------------- MODULE WebClient -----------------------------
(***************************************************************************)
(* A tab with the pages that are modelled, one mounted at a time.          *)
(***************************************************************************)
EXTENDS AssistantPage, DocumentPage

vars == <<tabVars, pageVars, documentVars>>

Init == TabInit /\ AssistantInit /\ DocumentInit

(* React drops the state of a page that is unmounted; the next one finds   *)
(* the server as it then is.                                               *)
LeavesPages ==
  /\ ClearAssistant
  /\ ClearDocument

Session ==
  \/ /\ RefreshReturns \/ LoginReturns \/ (\E u \in Users : SubmitLogin(u))
        \/ \E t \in valid : Expire(t)
     /\ UNCHANGED <<pageVars, documentVars>>
  \/ (Reload \/ Logout) /\ LeavesPages

(* Another page is opened. What is under way at the server is dropped.     *)
Navigate ==
  /\ page # "other"
  /\ Unmount
  /\ LeavesPages
  /\ UNCHANGED <<serverVars, sessionVars, trouble>>

Answer(s) ==
  \/ Fails(s) /\ UNCHANGED <<pageVars, documentVars>>
  \/ ServeAssistant(s) /\ UNCHANGED documentVars
  \/ ServeDocument(s) /\ UNCHANGED pageVars

GoOn(s) ==
  \/ SessionLost(s) /\ LeavesPages
  \/ AssistantGoesOn(s) /\ UNCHANGED documentVars
  \/ DocumentGoesOn(s) /\ UNCHANGED pageVars

AssistantUser(s) ==
  /\ \/ OpenAssistant(s)
     \/ \E c \in Convs : Select(s, c) \/ Delete(s, c)
     \/ Create(s)
     \/ \E n \in 1..MaxAsks : Submit(s, n)
  /\ UNCHANGED documentVars

DocumentUser(s) ==
  /\ \/ OpenDocument(s) \/ Retry(s) \/ Reprocess(s) \/ DeleteDocument(s)
  /\ UNCHANGED pageVars

Next ==
  \/ Session \/ Navigate
  \/ \E s \in Slots : Answer(s) \/ GoOn(s) \/ AssistantUser(s) \/ DocumentUser(s)
  \/ (\E s \in Slots : Poll(s)) /\ UNCHANGED pageVars
  \/ Work /\ UNCHANGED pageVars

(* Requests are answered or fail in the end, timers fire, and the worker   *)
(* ends; nobody has to log in, click or ask.                               *)
Fairness ==
  /\ WF_vars(RefreshReturns /\ UNCHANGED <<pageVars, documentVars>>)
  /\ WF_vars(Work /\ UNCHANGED pageVars)
  /\ WF_vars((\E s \in Slots : Poll(s)) /\ UNCHANGED pageVars)
  /\ \A s \in Slots : WF_vars(Answer(s)) /\ WF_vars(GoOn(s))

Spec == Init /\ [][Next]_vars /\ Fairness
=============================================================================
