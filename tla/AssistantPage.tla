--------------------------- MODULE AssistantPage ---------------------------
(***************************************************************************)
(* AssistantPage: the list of conversations, the thread of one of them,    *)
(* and the functions that load, create, delete and ask, each a chain of    *)
(* requests between which anything may happen to the page.  What the       *)
(* server does for a request is in Conversations; here it is one step.     *)
(***************************************************************************)
EXTENDS BrowserTab, Subsequences

CONSTANTS
  Convs,   \* conversations; bounds how many are created
  MaxAsks  \* bound on the questions a user thinks of

ASSUME ConvsAssumption == None \notin Convs

VARIABLES
  created,   \* the server's: all conversations that ever were
  live,      \* ... and those that are not deleted
  thread,    \* ... and their messages
  asked,     \* how many questions have been thought of; they are numbered
  active,    \* activeId
  messages,
  busy,
  retry,     \* the question in pendingRetry and in the input, or 0
  latest     \* history: the question submitted last, or 0

convVars == <<created, live, thread, asked>>
assistantVars == <<active, messages, busy, retry, latest>>
pageVars == <<convVars, assistantVars>>

Message(n, role) == [ask |-> n, role |-> role]

Blank ==
  /\ active = None
  /\ messages = <<>>
  /\ busy = FALSE
  /\ retry = 0
  /\ latest = 0

ClearAssistant ==
  /\ created' = {}
  /\ live' = {}
  /\ thread' = [c \in Convs |-> <<>>]
  /\ asked' = 0
  /\ active' = None
  /\ messages' = <<>>
  /\ busy' = FALSE
  /\ retry' = 0
  /\ latest' = 0

AssistantInit ==
  /\ created = {}
  /\ live = {}
  /\ thread = [c \in Convs |-> <<>>]
  /\ asked = 0
  /\ Blank

Writes == {"create", "delete", "ask"}

(* Whoever lets functions overlap may end with a thread of another         *)
(* conversation than the active one.                                       *)
Starts(s, function) ==
  /\ page = "assistant"
  /\ Begins(s, function)
  /\ astray' = (astray \/ ~Alone(s))
  /\ UNCHANGED <<serverVars, sessionVars, page, trouble, created, live, thread>>

-----------------------------------------------------------------------------
(* What the user does.  The list of conversations is taken to be up to     *)
(* date when something in it is clicked.                                   *)

(* bootstrap, when the page mounts.  There may be conversations of earlier *)
(* visits.                                                                 *)
OpenAssistant(s) ==
  /\ OpenPage("assistant")
  /\ created' \in SUBSET Convs
  /\ live' = created'
  /\ thread' = [c \in Convs |-> IF c \in created'
                               THEN <<Message(0, "user"), Message(0, "assistant")>> ELSE <<>>]
  /\ Begins(s, [Idle EXCEPT !.kind = "boot", !.at = "list"])
  /\ UNCHANGED <<trouble, astray, asked, assistantVars>>

(* The conversation does not become the active one. *)
SelectFaulty(s, c) ==
  /\ c \in live
  /\ Starts(s, [Idle EXCEPT !.kind = "select", !.at = "thread", !.id = c])
  /\ UNCHANGED <<asked, assistantVars>>

(* onSelect; the buttons of the list are never disabled. *)
Select(s, c) ==
  /\ c \in live
  /\ Starts(s, [Idle EXCEPT !.kind = "select", !.at = "thread", !.id = c])
  /\ active' = c
  /\ UNCHANGED <<asked, messages, busy, retry, latest>>

(* onNewConversation *)
Create(s) ==
  /\ ~busy
  /\ Starts(s, [Idle EXCEPT !.kind = "create", !.at = "create"])
  /\ busy' = TRUE
  /\ UNCHANGED <<asked, active, messages, retry, latest>>

(* onDeleteConversation; it remembers which conversation was active.       *)
Delete(s, c) ==
  /\ ~busy /\ c \in live
  /\ Starts(s, [Idle EXCEPT !.kind = "delete", !.at = "delete", !.id = c, !.was = active])
  /\ busy' = TRUE
  /\ UNCHANGED <<asked, active, messages, retry, latest>>

(* The form is not disabled while a question is under way. *)
SubmitFaulty(s, n) ==
  /\ n = asked + 1 \/ (n = retry /\ n # 0)
  /\ Starts(s, [Idle EXCEPT !.kind = "ask", !.at = IF active = None THEN "create" ELSE "ask",
                            !.id = active, !.ask = n])
  /\ asked' = (IF n > asked THEN n ELSE asked)
  /\ messages' = Append(messages, Message(n, "local"))
  /\ busy' = TRUE
  /\ retry' = 0
  /\ latest' = n
  /\ UNCHANGED active

(* submitQuestion, of a new question or again of the one that failed.      *)
Submit(s, n) ==
  /\ ~busy
  /\ n = asked + 1 \/ (n = retry /\ n # 0)
  /\ Starts(s, [Idle EXCEPT !.kind = "ask", !.at = IF active = None THEN "create" ELSE "ask",
                            !.id = active, !.ask = n])
  /\ asked' = (IF n > asked THEN n ELSE asked)
  /\ messages' = Append(messages, Message(n, "local"))
  /\ busy' = TRUE
  /\ retry' = 0
  /\ latest' = n
  /\ UNCHANGED active

-----------------------------------------------------------------------------
(* What the server does. Which conversation comes first in the list is the *)
(* matter of Conversations.                                                *)

ServeList(s) ==
  /\ Asks(s, "list")
  /\ \E first \in IF live = {} THEN {None} ELSE live : Done(s, first)
  /\ UNCHANGED convVars

ServeThread(s) ==
  /\ Asks(s, "thread") /\ run[s].id \in live
  /\ Done(s, thread[run[s].id])
  /\ UNCHANGED convVars

ServeCreate(s) ==
  /\ Asks(s, "create")
  /\ \E c \in Convs \ created :
       /\ created' = created \cup {c}
       /\ live' = live \cup {c}
       /\ Done(s, c)
  /\ UNCHANGED <<thread, asked>>

ServeDelete(s) ==
  /\ Asks(s, "delete") /\ run[s].id \in live
  /\ live' = live \ {run[s].id}
  /\ Done(s, None)
  /\ UNCHANGED <<created, thread, asked>>

(* A question whose answer fails stays where it is. *)
ServeAsk(s) ==
  LET c == run[s].id  n == run[s].ask IN
  /\ Asks(s, "ask") /\ c \in live
  /\ \/ /\ thread' = [thread EXCEPT ![c] = @ \o <<Message(n, "user"), Message(n, "assistant")>>]
        /\ Done(s, None)
     \/ /\ thread' = [thread EXCEPT ![c] = Append(@, Message(n, "user"))]
        /\ Fails(s)
  /\ UNCHANGED <<created, live, asked>>

(* 404 *)
NotFound(s) ==
  /\ Asks(s, run[s].at) /\ run[s].at \in {"thread", "delete", "ask"} /\ run[s].id \notin live
  /\ Reply(s, "failed", None)
  /\ UNCHANGED <<trouble, convVars>>

ServeAssistant(s) ==
  /\ page = "assistant"
  /\ \/ ServeList(s) \/ ServeThread(s) \/ ServeCreate(s) \/ ServeDelete(s)
     \/ ServeAsk(s) \/ NotFound(s)
  /\ UNCHANGED <<serverVars, sessionVars, page, astray, assistantVars>>

-----------------------------------------------------------------------------
(* What the functions do with the answers.                                 *)

(* refreshList() of create and delete, and the same in bootstrap: which    *)
(* conversation is active from now on.                                     *)
Listed(s) ==
  LET call == run[s]
      next == CASE call.kind = "create" -> call.id
                [] call.kind = "delete" /\ call.was # call.id -> call.was
                [] OTHER -> None
      resolved == IF next = None THEN call.body ELSE next
  IN /\ \E kind \in {"boot", "create", "delete"} : Answered(s, kind, "list")
     /\ active' = resolved
     /\ IF resolved # None
        THEN GoesOn(s, "thread", resolved) /\ UNCHANGED <<messages, busy>>
        ELSE Ends(s) /\ messages' = <<>> /\ busy' = (busy /\ call.kind = "boot")
     /\ UNCHANGED <<astray, asked, retry, latest>>

(* A thread is shown whatever has become active since it was asked for;    *)
(* onNewConversation then empties it.                                      *)
ThreadShown(s) ==
  /\ \E kind \in {"boot", "select", "create", "delete"} : Answered(s, kind, "thread")
  /\ messages' = (IF run[s].kind = "create" THEN <<>> ELSE run[s].body)
  /\ busy' = (busy /\ run[s].kind \notin Writes)
  /\ astray' = (astray /\ ~(Alone(s) /\ active = run[s].id))
  /\ Ends(s)
  /\ UNCHANGED <<asked, active, retry, latest>>

Created(s) ==
  /\ Answered(s, "create", "create")
  /\ GoesOn(s, "list", run[s].body)
  /\ UNCHANGED <<astray, asked, assistantVars>>

Deleted(s) ==
  /\ Answered(s, "delete", "delete")
  /\ IF run[s].was = run[s].id
     THEN active' = None /\ messages' = <<>>
     ELSE UNCHANGED <<active, messages>>
  /\ GoesOn(s, "list", run[s].id)
  /\ UNCHANGED <<astray, asked, busy, retry, latest>>

(* Only the bubble of this question goes. *)
Others(n) == Filtered(messages, LAMBDA m : m # Message(n, "local"))

(* ask has created a conversation for its question. *)
AskCreated(s) ==
  /\ Answered(s, "ask", "create")
  /\ active' = run[s].body
  /\ GoesOn(s, "ask", run[s].body)
  /\ UNCHANGED <<astray, asked, messages, busy, retry, latest>>

(* The answer goes below whatever is shown. *)
AskAnswered(s) ==
  LET n == run[s].ask IN
  /\ Answered(s, "ask", "ask")
  /\ messages' = Others(n) \o <<Message(n, "user"), Message(n, "assistant")>>
  /\ GoesOn(s, "list", run[s].id)
  /\ UNCHANGED <<astray, asked, active, busy, retry, latest>>

AskListed(s) ==
  /\ Answered(s, "ask", "list")
  /\ busy' = FALSE
  /\ Ends(s)
  /\ UNCHANGED <<astray, asked, active, messages, retry, latest>>

(* The bubble of the question stays. *)
AskFailsFaulty(s) ==
  /\ Failed(s, "ask")
  /\ retry' = run[s].ask
  /\ busy' = FALSE
  /\ Ends(s)
  /\ UNCHANGED <<astray, asked, active, messages, latest>>

(* The question is not put back. *)
AskForgetsFaulty(s) ==
  /\ Failed(s, "ask")
  /\ messages' = Others(run[s].ask)
  /\ busy' = FALSE
  /\ Ends(s)
  /\ UNCHANGED <<astray, asked, active, retry, latest>>

(* Also when only the list could not be loaded after the answer.           *)
AskFails(s) ==
  /\ Failed(s, "ask")
  /\ messages' = Others(run[s].ask)
  /\ retry' = run[s].ask
  /\ busy' = FALSE
  /\ Ends(s)
  /\ UNCHANGED <<astray, asked, active, latest>>

(* What has been set before stays: a conversation that could not be loaded *)
(* is active all the same.                                                 *)
OtherFails(s) ==
  /\ \E kind \in {"boot", "select", "create", "delete"} : Failed(s, kind)
  /\ busy' = (busy /\ run[s].kind \notin Writes)
  /\ astray' = (astray \/ (run[s].kind \in {"select", "create"} /\ run[s].at = "thread"))
  /\ Ends(s)
  /\ UNCHANGED <<asked, active, messages, retry, latest>>

AssistantGoesOn(s) ==
  /\ page = "assistant"
  /\ \/ Listed(s) \/ ThreadShown(s) \/ Created(s) \/ Deleted(s)
     \/ AskCreated(s) \/ AskAnswered(s) \/ AskListed(s) \/ AskFails(s) \/ OtherFails(s)
  /\ UNCHANGED <<serverVars, sessionVars, page, trouble, created, live, thread>>

-----------------------------------------------------------------------------
Under(s) == run[s].kind \in Writes

(* The page writes one thing at a time, and it is busy exactly as long:    *)
(* no error on the way leaves its buttons disabled.                        *)
BusyWhileWriting ==
  /\ busy <=> \E s \in Slots : Under(s)
  /\ \A r, s \in Slots : Under(r) /\ Under(s) => r = s

PartOf(part, whole) == \E D \in SUBSET DOMAIN whole : part = Picked(whole, D)

(* When nothing is under way, the thread shown is the one of the active    *)
(* conversation, in order and without what was never sent, as long as the  *)
(* user lets one function end before the next and threads can be loaded.   *)
ThreadOfActive ==
  page = "assistant" /\ ~astray /\ (\A s \in Slots : Free(s)) =>
    IF active = None THEN messages = <<>> ELSE PartOf(messages, thread[active])

(* The bubble of a question goes with its request, whatever else has been  *)
(* loaded into the thread meanwhile.                                       *)
BubblesGo ==
  \A i \in DOMAIN messages :
    messages[i].role = "local" => \E s \in Slots : run[s].kind = "ask" /\ run[s].ask = messages[i].ask

(* A question that was submitted is under way, answered, or offered again, *)
(* as long as the page is mounted: a 401 or a navigation drops it.         *)
QuestionKept ==
  latest # 0 =>
    \/ \E s \in Slots : run[s].kind = "ask" /\ run[s].ask = latest
    \/ \E c \in Convs : \E i \in DOMAIN thread[c] : thread[c][i] = Message(latest, "assistant")
    \/ retry = latest
=============================================================================
