-------------------------- MODULE WebClientProofs --------------------------
(***************************************************************************)
(* The session of a tab, and what its assistant page is busy with and      *)
(* shows, for any number of users, tokens, conversations, questions and    *)
(* functions of its pages.                                                 *)
(***************************************************************************)
EXTENDS WebClient, SubsequenceProofs

Tokens == {0} \cup DOMAIN owner

(* What is shown belongs to the token of AuthProvider; a session that is   *)
(* being restored is restored from the stored token, before anything else  *)
(* can happen in the tab; functions run only on a page, and pages are      *)
(* opened only when nothing is being restored.                             *)
SessionInv ==
  /\ owner \in Seq(Users)
  /\ stored \in Tokens /\ token \in Tokens /\ me \in Tokens
  /\ user \in Users \cup {None} /\ login \in Users \cup {None}
  /\ TabPairsUp
  /\ ShownIsStored
  /\ me # 0 /\ ~hasty => stored = me /\ user = None /\ login = None
  /\ page = "other" => \A s \in Slots : Free(s)
  /\ page # "other" => me = 0

(* A tab is opened with nobody shown.                                      *)
LEMMA SessionInvInit == Init => SessionInv
BY DEF Init, TabInit, SessionInv, Tokens, TabPairsUp, ShownIsStored, Free, Idle

-----------------------------------------------------------------------------
(* The steps of the session.                                               *)

Reset == page' = "other" /\ \A s \in Slots : Free(s)'

(* Leaving a page drops its functions.                                     *)
LEMMA UnmountResets == Unmount => Reset
BY DEF Unmount, Reset, Free, Idle

(* A reload asks about the stored token.                                   *)
LEMMA ReloadKeeps == SessionInv /\ Reload => SessionInv'
<1> SUFFICES ASSUME SessionInv, Reload PROVE SessionInv'
  OBVIOUS
<1>1. Reset
  BY UnmountResets DEF Reload
<1>2. /\ user' = None /\ token' = stored /\ me' = stored /\ login' = None /\ hasty' = FALSE
      /\ UNCHANGED <<owner, stored>>
  BY DEF Reload, serverVars
<1>3. QED
  BY <1>1, <1>2 DEF SessionInv, Tokens, TabPairsUp, ShownIsStored, Reset

(* The answer about a token is believed while it is stored.                *)
LEMMA RefreshKeeps == SessionInv /\ RefreshReturns => SessionInv'
<1> SUFFICES ASSUME SessionInv, RefreshReturns PROVE SessionInv'
  OBVIOUS
<1>1. /\ me # 0 /\ me' = 0
      /\ UNCHANGED <<owner, login, hasty, page, run>>
  BY DEF RefreshReturns, serverVars
<1>2. owner[me] \in Users
  BY <1>1 DEF SessionInv, Tokens
<1>3. CASE user' = owner[me] /\ token' = me /\ UNCHANGED stored
  BY <1>1, <1>2, <1>3 DEF SessionInv, Tokens, TabPairsUp, ShownIsStored, Free
<1>4. CASE ClearSession
  BY <1>1, <1>4 DEF ClearSession, SessionInv, Tokens, TabPairsUp, ShownIsStored, Free
<1>5. CASE UNCHANGED <<stored, user, token>>
  BY <1>1, <1>5 DEF SessionInv, Tokens, TabPairsUp, ShownIsStored, Free
<1>6. QED
  BY <1>3, <1>4, <1>5 DEF RefreshReturns

(* A submitted login shows nobody yet.                                     *)
LEMMA SubmitKeeps ==
  ASSUME SessionInv, NEW u \in Users, SubmitLogin(u)
  PROVE  SessionInv'
BY DEF SubmitLogin, serverVars, SessionInv, Tokens, TabPairsUp, ShownIsStored, Free

(* A login shows the user its token was issued to.                         *)
LEMMA LoginKeeps == SessionInv /\ LoginReturns => SessionInv'
<1> SUFFICES ASSUME SessionInv, LoginReturns PROVE SessionInv'
  OBVIOUS
<1>1. /\ login # None /\ login \in Users /\ login' = None
      /\ UNCHANGED <<me, hasty, page, run>>
  BY DEF LoginReturns, SessionInv
<1>2. CASE UNCHANGED <<owner, stored, token, user>>
  BY <1>1, <1>2 DEF SessionInv, Tokens, TabPairsUp, ShownIsStored, Free
<1>3. CASE /\ owner' = Append(owner, login)
           /\ stored' = Len(owner') /\ token' = Len(owner') /\ user' = login
  <2> DEFINE n == Len(owner) + 1
  <2>1. /\ owner' \in Seq(Users) /\ Len(owner') = n /\ n \in Nat \ {0}
        /\ owner'[n] = login
        /\ DOMAIN owner \subseteq DOMAIN owner' /\ n \in DOMAIN owner'
    BY <1>1, <1>3, AppendProperties DEF SessionInv
  <2>2. stored' = n /\ token' = n /\ user' = login
    BY <1>3, <2>1
  <2> HIDE DEF n
  <2>3. QED
    BY <1>1, <2>1, <2>2 DEF SessionInv, Tokens, TabPairsUp, ShownIsStored, Free
<1>4. QED
  BY <1>2, <1>3 DEF LoginReturns

(* A logout removes user and token together.                               *)
LEMMA LogoutKeeps == SessionInv /\ Logout => SessionInv'
<1> SUFFICES ASSUME SessionInv, Logout PROVE SessionInv'
  OBVIOUS
<1>1. Reset
  BY UnmountResets DEF Logout
<1>2. /\ user # None
      /\ stored' = 0 /\ user' = None /\ token' = 0 /\ UNCHANGED <<owner, me, login, hasty>>
  BY DEF Logout, ClearSession, serverVars
<1>3. QED
  BY <1>1, <1>2 DEF SessionInv, Tokens, TabPairsUp, ShownIsStored, Reset

(* So does a request answered 401.                                         *)
LEMMA SessionLostKeeps ==
  ASSUME SessionInv, NEW s \in Slots, SessionLost(s)
  PROVE  SessionInv'
<1>1. Reset
  BY UnmountResets DEF SessionLost
<1>2. /\ ~Free(s)
      /\ stored' = 0 /\ user' = None /\ token' = 0 /\ UNCHANGED <<owner, me, login, hasty>>
  BY DEF SessionLost, ClearSession, Waiting
<1>3. QED
  BY <1>1, <1>2 DEF SessionInv, Tokens, TabPairsUp, ShownIsStored, Reset

(* Pages are opened once the session is settled.                           *)
LEMMA OpenKeeps ==
  ASSUME SessionInv, NEW p \in Pages \ {"other"}, OpenPage(p)
  PROVE  SessionInv'
<1>1. /\ user \in Users /\ page' = p /\ owner' = <<user>> /\ stored' = 1 /\ token' = 1
      /\ me = 0 /\ UNCHANGED <<user, me, login, hasty>>
  <2>1. user \in Users
    BY UsersAssumption DEF OpenPage, Reader, SessionInv
  <2>2. QED
    BY <2>1 DEF OpenPage
<1>2. /\ <<user>> \in Seq(Users) /\ DOMAIN <<user>> = {1} /\ <<user>>[1] = user
  BY <1>1
<1>3. QED
  BY <1>1, <1>2 DEF SessionInv, Tokens, TabPairsUp, ShownIsStored

-----------------------------------------------------------------------------
(* The steps of the pages leave the session alone.                         *)

PageStep ==
  /\ UNCHANGED <<owner, sessionVars>>
  /\ \/ page # "other" /\ page' = page
     \/ Reset
     \/ UNCHANGED <<page, run>>

(* A step of a page does not touch the session.                            *)
LEMMA PageStepKeeps == SessionInv /\ PageStep => SessionInv'
BY DEF PageStep, sessionVars, SessionInv, Tokens, TabPairsUp, ShownIsStored, Free, Reset

(* The answers of the server to a page are such steps.                     *)
LEMMA AnswersArePageSteps ==
  ASSUME SessionInv, NEW s \in Slots, Answer(s)
  PROVE  PageStep
<1>1. CASE Fails(s)
  BY <1>1 DEF Fails, Waiting, SessionInv, PageStep, serverVars
<1>2. CASE ServeAssistant(s) \/ ServeDocument(s)
  BY <1>2 DEF ServeAssistant, ServeDocument, PageStep, serverVars
<1>3. QED
  BY <1>1, <1>2 DEF Answer

(* So are the steps of its functions,                                      *)
LEMMA FunctionsArePageSteps ==
  ASSUME NEW s \in Slots, AssistantGoesOn(s) \/ DocumentGoesOn(s)
  PROVE  PageStep
<1>1. CASE AssistantGoesOn(s)
  BY <1>1 DEF AssistantGoesOn, PageStep, serverVars
<1>2. CASE DocumentGoesOn(s)
  BY <1>2, UnmountResets
     DEF DocumentGoesOn, Loaded, Reprocessed, JobsLoaded, Removed, DocumentFails, PageStep, serverVars
<1>3. QED
  BY <1>1, <1>2

(* and the clicks of its user.                                             *)
LEMMA ClicksArePageSteps ==
  ASSUME NEW s \in Slots,
         \/ \E c \in Convs : Select(s, c) \/ Delete(s, c)
         \/ Create(s)
         \/ \E n \in 1..MaxAsks : Submit(s, n)
         \/ Retry(s) \/ Reprocess(s) \/ DeleteDocument(s) \/ Poll(s)
  PROVE  PageStep
BY DEF Select, Delete, Create, Submit, Starts, Retry, Reprocess, DeleteDocument, Poll, StartsHere,
       PageStep, serverVars

-----------------------------------------------------------------------------
(* No step of the tab breaks SessionInv.                                   *)
LEMMA SessionInvStep == SessionInv /\ [Next]_vars => SessionInv'
<1> SUFFICES ASSUME SessionInv, [Next]_vars PROVE SessionInv'
  OBVIOUS
<1>1. CASE Session
  <2>1. ASSUME NEW t, Expire(t) PROVE SessionInv'
    BY <2>1, PageStepKeeps DEF Expire, PageStep
  <2>2. QED
    BY <1>1, <2>1, ReloadKeeps, RefreshKeeps, SubmitKeeps, LoginKeeps, LogoutKeeps DEF Session
<1>2. CASE Navigate
  BY <1>2, UnmountResets, PageStepKeeps DEF Navigate, PageStep, serverVars
<1>3. ASSUME NEW s \in Slots, Answer(s) PROVE SessionInv'
  BY <1>3, AnswersArePageSteps, PageStepKeeps
<1>4. ASSUME NEW s \in Slots, GoOn(s) PROVE SessionInv'
  BY <1>4, FunctionsArePageSteps, SessionLostKeeps, PageStepKeeps DEF GoOn
<1>5. ASSUME NEW s \in Slots, AssistantUser(s) PROVE SessionInv'
  <2>1. CASE OpenAssistant(s)
    BY <2>1, OpenKeeps DEF OpenAssistant, Pages
  <2>2. CASE ~OpenAssistant(s)
    BY <1>5, <2>2, ClicksArePageSteps, PageStepKeeps DEF AssistantUser
  <2>3. QED
    BY <2>1, <2>2
<1>6. ASSUME NEW s \in Slots, DocumentUser(s) PROVE SessionInv'
  <2>1. CASE OpenDocument(s)
    BY <2>1, OpenKeeps DEF OpenDocument, Pages
  <2>2. CASE ~OpenDocument(s)
    BY <1>6, <2>2, ClicksArePageSteps, PageStepKeeps DEF DocumentUser
  <2>3. QED
    BY <2>1, <2>2
<1>7. ASSUME NEW s \in Slots, Poll(s) PROVE SessionInv'
  BY <1>7, ClicksArePageSteps, PageStepKeeps
<1>8. CASE Work
  BY <1>8, PageStepKeeps DEF Work, PageStep, tabVars, serverVars
<1>9. CASE UNCHANGED vars
  BY <1>9, PageStepKeeps DEF vars, PageStep, tabVars, serverVars
<1>10. QED
  BY <1>1, <1>2, <1>3, <1>4, <1>5, <1>6, <1>7, <1>8, <1>9 DEF Next

(* SessionInv always holds.                                                *)
LEMMA SessionInvHolds == Spec => []SessionInv
BY SessionInvInit, SessionInvStep, PTL DEF Spec

(* The user shown is the owner of the token of AuthProvider, in whatever   *)
(* order /auth/me, logins, logouts and lost sessions are answered.         *)
THEOREM TabsPairUp == Spec => []TabPairsUp
<1>1. SessionInv => TabPairsUp
  BY DEF SessionInv
<1>2. QED
  BY <1>1, SessionInvHolds, PTL

(* Requests act for the user that is shown (AuthProvider, api/http.ts),    *)
(* unless somebody logs in before the stored session was restored.         *)
THEOREM ShownAreStored == Spec => []ShownIsStored
<1>1. SessionInv => ShownIsStored
  BY DEF SessionInv
<1>2. QED
  BY <1>1, SessionInvHolds, PTL

-----------------------------------------------------------------------------
(* What the assistant page keeps.                                          *)

(* A function is a record with the fields of Idle. *)
Functions(V) ==
  [kind : V, at : V, id : V, was : V, ask : V, status : V, body : V]

RunShape == \E V : run \in [Slots -> Functions(V)]

(* What the server keeps of a question, and what the page may show.        *)
Stored == [ask : Nat, role : {"user", "assistant"}]
Messages == [ask : Nat, role : {"user", "assistant", "local"}]

(* The question submitted last has an answer at the server. *)
LatestAnswered ==
  \E c \in Convs : \E i \in DOMAIN thread[c] : thread[c][i] = Message(latest, "assistant")

(* Where the function that asks knows that it was answered. *)
Told(s) == run[s].at = "list" \/ (run[s].at = "ask" /\ run[s].status = "ok")

(* A question under way is the one submitted last, because the page writes *)
(* one thing at a time; its function goes on to the list only once the     *)
(* question is answered.                                                   *)
AsksAreLatest ==
  \A s \in Slots :
    /\ run[s].at = "ask" => run[s].kind = "ask"
    /\ run[s].kind = "ask" => run[s].ask = latest /\ latest # 0
    /\ run[s].kind = "ask" /\ Told(s) => LatestAnswered

AssistantTypeOK ==
  /\ RunShape
  /\ live \subseteq Convs
  /\ thread \in [Convs -> Seq(Stored)]
  /\ latest \in Nat /\ asked \in Nat /\ retry \in Nat
  /\ busy \in BOOLEAN
  /\ page # "assistant" => ~busy /\ latest = 0

WriteInv == AssistantTypeOK /\ BusyWhileWriting /\ AsksAreLatest /\ QuestionKept

(* No page is mounted at the start.                                        *)
LEMMA WriteInvInit == Init => WriteInv
<1> SUFFICES ASSUME Init PROVE WriteInv
  OBVIOUS
<1>1. \A s \in Slots : run[s] = Idle
  BY DEF Init, TabInit
<1>2. RunShape
  <2>1. run \in [Slots -> Functions({"none", None, 0})]
    BY DEF Init, TabInit, Idle, Functions
  <2>2. QED
    BY <2>1 DEF RunShape
<1>3. \A c \in Convs : <<>> \in Seq(Stored)
  OBVIOUS
<1>4. AssistantTypeOK
  BY <1>2, <1>3 DEF Init, TabInit, AssistantInit, Blank, AssistantTypeOK
<1>5. BusyWhileWriting /\ AsksAreLatest /\ QuestionKept
  BY <1>1 DEF Init, AssistantInit, Blank, BusyWhileWriting, Under, Writes, AsksAreLatest,
              QuestionKept, Idle
<1>6. QED
  BY <1>4, <1>5 DEF WriteInv

(* The four ways in which a function changes. *)
LEMMA ReplyMoves ==
  ASSUME RunShape, NEW s \in Slots, NEW status, NEW body, Reply(s, status, body)
  PROVE  /\ RunShape'
         /\ \A r \in Slots : r # s => run'[r] = run[r]
         /\ run'[s].kind = run[s].kind /\ run'[s].at = run[s].at /\ run'[s].ask = run[s].ask
         /\ run'[s].id = run[s].id /\ run'[s].was = run[s].was
         /\ run'[s].status = status /\ run'[s].body = body
<1>1. PICK V : run \in [Slots -> Functions(V)]
  BY DEF RunShape
<1>2. run' \in [Slots -> Functions(V \cup {status, body})]
  BY <1>1 DEF Reply, Functions
<1>3. QED
  BY <1>1, <1>2 DEF Reply, RunShape, Functions

(* A function that goes on to its next request leaves the others alone.    *)
LEMMA GoesOnMoves ==
  ASSUME RunShape, NEW s \in Slots, NEW at, NEW id, GoesOn(s, at, id)
  PROVE  /\ RunShape'
         /\ \A r \in Slots : r # s => run'[r] = run[r]
         /\ run'[s].kind = run[s].kind /\ run'[s].at = at /\ run'[s].ask = run[s].ask
         /\ run'[s].id = id /\ run'[s].was = run[s].was
         /\ run'[s].status = "none"
<1>1. PICK V : run \in [Slots -> Functions(V)]
  BY DEF RunShape
<1>2. run' \in [Slots -> Functions(V \cup {at, id, "none", None})]
  BY <1>1 DEF GoesOn, Functions
<1>3. QED
  BY <1>1, <1>2 DEF GoesOn, RunShape, Functions

(* So does one that begins,                                                *)
LEMMA BeginsMoves ==
  ASSUME RunShape, NEW s \in Slots, NEW W, NEW f \in Functions(W), Begins(s, f)
  PROVE  /\ RunShape'
         /\ run[s].kind = "none"
         /\ \A r \in Slots : r # s => run'[r] = run[r]
         /\ run'[s] = f
<1>1. PICK V : run \in [Slots -> Functions(V)]
  BY DEF RunShape
<1>2. run' \in [Slots -> Functions(V \cup W)]
  BY <1>1 DEF Begins, Functions
<1>3. QED
  BY <1>1, <1>2 DEF Begins, Free, RunShape

(* and one that ends.                                                      *)
LEMMA EndsMoves ==
  ASSUME RunShape, NEW s \in Slots, Ends(s)
  PROVE  /\ RunShape'
         /\ \A r \in Slots : r # s => run'[r] = run[r]
         /\ run'[s].kind = "none" /\ run'[s].at = "none" /\ run'[s].status = "none"
<1>1. PICK V : run \in [Slots -> Functions(V)]
  BY DEF RunShape
<1>2. run' \in [Slots -> Functions(V \cup {"none", None, 0})]
  BY <1>1 DEF Ends, Idle, Functions
<1>3. QED
  BY <1>1, <1>2 DEF Ends, Idle, RunShape

(* What such a change has to respect to keep the invariant: an answer to a *)
(* question comes from the server, which keeps it.                         *)
LEMMA RepliesKeep ==
  ASSUME WriteInv, NEW s \in Slots, NEW status, NEW body, Reply(s, status, body),
         live' \subseteq Convs, thread' \in [Convs -> Seq(Stored)],
         UNCHANGED <<asked, retry, latest, busy, page>>,
         LatestAnswered => LatestAnswered',
         run[s].at = "ask" /\ status = "ok" => LatestAnswered'
  PROVE  WriteInv'
<1>1. /\ RunShape'
      /\ \A r \in Slots : /\ run'[r].kind = run[r].kind /\ run'[r].at = run[r].at
                          /\ run'[r].ask = run[r].ask
                          /\ r # s => run'[r].status = run[r].status
      /\ run'[s].status = status
  BY ReplyMoves DEF WriteInv, AssistantTypeOK
<1>2. AssistantTypeOK'
  BY <1>1 DEF WriteInv, AssistantTypeOK
<1>3. BusyWhileWriting'
  BY <1>1 DEF WriteInv, BusyWhileWriting, Under
<1>4. AsksAreLatest'
  BY <1>1 DEF WriteInv, AsksAreLatest, Told
<1>5. QuestionKept'
  BY <1>1 DEF WriteInv, QuestionKept, LatestAnswered
<1>6. QED
  BY <1>2, <1>3, <1>4, <1>5 DEF WriteInv

(* The next request of a function keeps WriteInv.                          *)
LEMMA NextRequestsKeep ==
  ASSUME WriteInv, NEW s \in Slots, NEW at, NEW id, GoesOn(s, at, id),
         UNCHANGED <<live, thread, asked, retry, latest, busy, page>>,
         at = "ask" => run[s].kind = "ask",
         run[s].kind = "ask" /\ at = "list" => LatestAnswered
  PROVE  WriteInv'
<1>1. /\ RunShape'
      /\ \A r \in Slots : /\ run'[r].kind = run[r].kind /\ run'[r].ask = run[r].ask
                          /\ r # s => run'[r] = run[r]
      /\ run'[s].at = at /\ run'[s].status = "none"
  BY GoesOnMoves DEF WriteInv, AssistantTypeOK
<1>2. AssistantTypeOK'
  BY <1>1 DEF WriteInv, AssistantTypeOK
<1>3. BusyWhileWriting'
  BY <1>1 DEF WriteInv, BusyWhileWriting, Under
<1>4. LatestAnswered' = LatestAnswered
  BY DEF LatestAnswered
<1>5. AsksAreLatest'
  BY <1>1, <1>4 DEF WriteInv, AsksAreLatest, Told
<1>6. QuestionKept'
  BY <1>1 DEF WriteInv, QuestionKept
<1>7. QED
  BY <1>2, <1>3, <1>5, <1>6 DEF WriteInv

(* A function that ends frees the page if it was one that writes.          *)
LEMMA EndsKeep ==
  ASSUME WriteInv, NEW s \in Slots, Ends(s),
         UNCHANGED <<live, thread, asked, latest, page>>,
         busy' = (busy /\ run[s].kind \notin Writes),
         retry' \in {retry, latest},
         run[s].kind = "ask" => LatestAnswered \/ retry' = latest
  PROVE  WriteInv'
<1>1. /\ RunShape'
      /\ \A r \in Slots : r # s => run'[r] = run[r]
      /\ run'[s].kind = "none" /\ run'[s].at = "none"
  BY EndsMoves DEF WriteInv, AssistantTypeOK
<1>2. AssistantTypeOK'
  BY <1>1 DEF WriteInv, AssistantTypeOK
<1>3. BusyWhileWriting'
  <2>1. \A r \in Slots : Under(r)' <=> Under(r) /\ r # s
    BY <1>1 DEF Under, Writes
  <2>2. busy' <=> busy /\ ~Under(s)
    BY DEF Under
  <2>3. QED
    BY <2>1, <2>2 DEF WriteInv, BusyWhileWriting
<1>4. LatestAnswered' = LatestAnswered
  BY DEF LatestAnswered
<1>5. AsksAreLatest'
  BY <1>1, <1>4 DEF WriteInv, AsksAreLatest, Told
<1>6. QuestionKept'
  BY <1>1, <1>4 DEF WriteInv, QuestionKept, LatestAnswered
<1>7. QED
  BY <1>2, <1>3, <1>5, <1>6 DEF WriteInv

(* A function that only reads may begin at any time.                       *)
LEMMA ReadsKeep ==
  ASSUME WriteInv, NEW s \in Slots, NEW W, NEW f \in Functions(W), Begins(s, f),
         f.kind \notin Writes, f.at # "ask",
         live' \subseteq Convs, thread' \in [Convs -> Seq(Stored)],
         latest = 0 \/ thread' = thread,
         page' = "assistant" \/ (~busy /\ latest = 0),
         UNCHANGED <<asked, retry, latest, busy>>
  PROVE  WriteInv'
<1>1. /\ RunShape'
      /\ run[s].kind = "none"
      /\ \A r \in Slots : r # s => run'[r] = run[r]
      /\ run'[s].kind \notin Writes /\ run'[s].at # "ask"
  BY BeginsMoves DEF WriteInv, AssistantTypeOK
<1>2. AssistantTypeOK'
  BY <1>1 DEF WriteInv, AssistantTypeOK
<1>3. BusyWhileWriting'
  <2>1. \A r \in Slots : Under(r)' <=> Under(r)
    BY <1>1 DEF Under, Writes
  <2>2. QED
    BY <2>1 DEF WriteInv, BusyWhileWriting
<1>4. AsksAreLatest'
  <2>1. ASSUME latest # 0 PROVE LatestAnswered' = LatestAnswered
    BY <2>1 DEF LatestAnswered
  <2>2. QED
    BY <1>1, <2>1 DEF WriteInv, AsksAreLatest, Told, Writes
<1>5. QuestionKept'
  BY <1>1 DEF WriteInv, QuestionKept
<1>6. QED
  BY <1>2, <1>3, <1>4, <1>5 DEF WriteInv

(* One that writes begins on a page that is not busy.                      *)
LEMMA WritesKeep ==
  ASSUME WriteInv, NEW s \in Slots, NEW W, NEW f \in Functions(W), Begins(s, f),
         page = "assistant", ~busy, busy' = TRUE, f.kind \in Writes, f.status = "none",
         UNCHANGED <<live, thread, page>>,
         asked' \in Nat, latest' \in Nat, retry' \in Nat,
         f.kind # "ask" => f.at # "ask" /\ UNCHANGED <<latest, retry>>,
         f.kind = "ask" => f.ask = latest' /\ latest' # 0 /\ f.at \in {"create", "ask"}
  PROVE  WriteInv'
<1>1. /\ RunShape'
      /\ run[s].kind = "none"
      /\ \A r \in Slots : r # s => run'[r] = run[r]
      /\ run'[s] = f
  BY BeginsMoves DEF WriteInv, AssistantTypeOK
<1>2. AssistantTypeOK'
  BY <1>1 DEF WriteInv, AssistantTypeOK
<1>3. \A r \in Slots : run[r].kind \notin Writes
  BY DEF WriteInv, BusyWhileWriting, Under
<1>4. BusyWhileWriting'
  BY <1>1, <1>3 DEF BusyWhileWriting, Under
<1>5. AsksAreLatest'
  BY <1>1, <1>3 DEF WriteInv, AsksAreLatest, Told, Writes
<1>6. QuestionKept'
  <2>1. CASE f.kind = "ask"
    BY <1>1, <2>1 DEF QuestionKept
  <2>2. CASE f.kind # "ask"
    BY <1>1, <2>2 DEF WriteInv, QuestionKept
  <2>3. QED
    BY <2>1, <2>2
<1>7. QED
  BY <1>2, <1>4, <1>5, <1>6 DEF WriteInv

(* A page that is left has nothing under way.                              *)
LEMMA LeavingKeeps == Unmount /\ ClearAssistant => WriteInv'
<1> SUFFICES ASSUME Unmount, ClearAssistant PROVE WriteInv'
  OBVIOUS
<1>1. \A s \in Slots : run'[s] = Idle
  BY DEF Unmount
<1>2. RunShape'
  <2>1. run' \in [Slots -> Functions({"none", None, 0})]
    BY DEF Unmount, Idle, Functions
  <2>2. QED
    BY <2>1 DEF RunShape
<1>3. thread' \in [Convs -> Seq(Stored)]
  <2>1. <<>> \in Seq(Stored)
    OBVIOUS
  <2>2. QED
    BY <2>1 DEF ClearAssistant
<1>4. AssistantTypeOK'
  BY <1>2, <1>3 DEF ClearAssistant, AssistantTypeOK
<1>5. BusyWhileWriting' /\ AsksAreLatest' /\ QuestionKept'
  BY <1>1 DEF ClearAssistant, BusyWhileWriting, Under, Writes, AsksAreLatest, QuestionKept, Idle
<1>6. QED
  BY <1>4, <1>5 DEF WriteInv

(* Steps that leave the assistant page alone keep WriteInv.                *)
LEMMA UntouchedKeeps ==
  ASSUME WriteInv, UNCHANGED <<run, live, thread, asked, latest, retry, busy>>, page' = page
  PROVE  WriteInv'
BY DEF WriteInv, AssistantTypeOK, RunShape, BusyWhileWriting, Under, AsksAreLatest, Told,
       LatestAnswered, QuestionKept

(* The requests are served. *)
LEMMA AnswersKeep ==
  ASSUME WriteInv, NEW s \in Slots, Answer(s)
  PROVE  WriteInv'
<1>0. /\ live \subseteq Convs /\ thread \in [Convs -> Seq(Stored)]
      /\ run[s].at = "ask" => run[s].kind = "ask" /\ run[s].ask = latest
      /\ latest \in Nat
  BY DEF WriteInv, AssistantTypeOK, AsksAreLatest
<1>1. ASSUME NEW status, NEW body, Reply(s, status, body),
             UNCHANGED <<thread, asked, retry, latest, busy, page>>, live' \subseteq Convs,
             run[s].at = "ask" => status = "failed"
      PROVE  WriteInv'
  <2>1. LatestAnswered' = LatestAnswered
    BY <1>1 DEF LatestAnswered
  <2>2. QED
    BY <1>0, <1>1, <2>1, RepliesKeep
<1>2. ASSUME Fails(s), UNCHANGED <<pageVars, documentVars>> PROVE WriteInv'
  BY <1>0, <1>1, <1>2 DEF Fails, pageVars, convVars, assistantVars
<1>3. ASSUME ServeDocument(s), UNCHANGED pageVars, run[s].at # "ask" PROVE WriteInv'
  BY <1>0, <1>1, <1>3
     DEF ServeDocument, ServeLoad, ServeReprocess, ServeRemove, ServeJobs, Done, pageVars,
         convVars, assistantVars
<1>4. ASSUME ServeDocument(s) PROVE run[s].at # "ask"
  BY <1>4 DEF ServeDocument, ServeLoad, ServeReprocess, ServeRemove, ServeJobs, Asks
<1>5. ASSUME ServeAssistant(s) PROVE WriteInv'
  <2>1. UNCHANGED <<page, busy, retry, latest>>
    BY <1>5 DEF ServeAssistant, assistantVars
  <2>2. CASE ServeList(s) \/ ServeThread(s)
    BY <1>0, <1>1, <2>1, <2>2 DEF ServeList, ServeThread, Asks, Done, convVars
  <2>3. CASE ServeCreate(s)
    BY <1>0, <1>1, <2>1, <2>3 DEF ServeCreate, Asks, Done
  <2>4. CASE ServeDelete(s)
    BY <1>0, <1>1, <2>1, <2>4 DEF ServeDelete, Asks, Done
  <2>5. CASE NotFound(s)
    BY <1>0, <1>1, <2>1, <2>5 DEF NotFound, Asks, convVars
  <2>6. CASE ServeAsk(s)
    <3>1. PICK c \in Convs : c = run[s].id
      BY <1>0, <2>6 DEF ServeAsk
    <3> DEFINE question == Message(latest, "user")
               answer == Message(latest, "assistant")
    <3>2. /\ question \in Stored /\ answer \in Stored
          /\ thread[c] \in Seq(Stored)
          /\ run[s].ask = latest /\ run[s].at = "ask"
          /\ live' = live /\ asked' = asked
      BY <1>0, <2>6 DEF Message, Stored, ServeAsk, Asks
    <3>3. ASSUME NEW more \in Seq(Stored),
                 NEW longer, longer = thread[c] \o more, thread' = [thread EXCEPT ![c] = longer]
          PROVE  /\ thread' \in [Convs -> Seq(Stored)]
                 /\ LatestAnswered => LatestAnswered'
      <4>1. thread'[c] = thread[c] \o more /\ \A e \in Convs : e # c => thread'[e] = thread[e]
        BY <1>0, <3>3
      <4>2. /\ thread'[c] \in Seq(Stored)
            /\ \A i \in DOMAIN thread[c] : i \in DOMAIN thread'[c] /\ thread'[c][i] = thread[c][i]
        BY <3>2, <4>1, ConcatProperties
      <4>3. thread' \in [Convs -> Seq(Stored)]
        BY <1>0, <3>3, <4>1, <4>2
      <4>4. ASSUME NEW e \in Convs, NEW i \in DOMAIN thread[e], thread[e][i] = answer
            PROVE  i \in DOMAIN thread'[e] /\ thread'[e][i] = answer
        BY <4>1, <4>2, <4>4
      <4>5. QED
        BY <2>1, <4>3, <4>4 DEF LatestAnswered
    <3>4. CASE /\ thread' = [thread EXCEPT ![c] = @ \o <<question, answer>>]
               /\ Done(s, None)
      <4>1. <<question, answer>> \in Seq(Stored)
        BY <3>2
      <4>2. /\ thread' \in [Convs -> Seq(Stored)]
            /\ LatestAnswered => LatestAnswered'
        BY <3>3, <3>4, <4>1
      <4>3. LatestAnswered'
        <5>1. thread'[c] = thread[c] \o <<question, answer>>
          BY <1>0, <3>4
        <5>2. /\ Len(thread[c]) + 2 \in DOMAIN thread'[c]
              /\ thread'[c][Len(thread[c]) + 2] = answer
          BY <3>2, <4>1, <5>1, ConcatProperties
        <5>3. QED
          BY <2>1, <5>2 DEF LatestAnswered
      <4>4. PICK status, body : Reply(s, status, body)
        BY <3>4 DEF Done
      <4>5. QED
        BY <1>0, <2>1, <3>2, <4>2, <4>3, <4>4, RepliesKeep
    <3>5. CASE /\ thread' = [thread EXCEPT ![c] = Append(@, question)]
               /\ Fails(s)
      <4>1. Append(thread[c], question) = thread[c] \o <<question>>
        BY <3>2
      <4>2. <<question>> \in Seq(Stored)
        BY <3>2
      <4>3. /\ thread' \in [Convs -> Seq(Stored)]
            /\ LatestAnswered => LatestAnswered'
        BY <3>3, <3>5, <4>1, <4>2
      <4>4. Reply(s, "failed", None)
        BY <3>5 DEF Fails
      <4>5. QED
        BY <1>0, <2>1, <3>2, <4>3, <4>4, RepliesKeep
    <3>6. QED
      BY <2>6, <3>1, <3>2, <3>4, <3>5 DEF ServeAsk
  <2>7. QED
    BY <1>5, <2>2, <2>3, <2>4, <2>5, <2>6 DEF ServeAssistant
<1>6. QED
  BY <1>2, <1>3, <1>4, <1>5 DEF Answer

(* The functions go on. *)
LEMMA AssistantKeeps ==
  ASSUME WriteInv, NEW s \in Slots, AssistantGoesOn(s)
  PROVE  WriteInv'
<1>0. /\ run[s].at = "ask" => run[s].kind = "ask"
      /\ run[s].kind = "ask" => run[s].ask = latest
      /\ run[s].kind = "ask" /\ Told(s) => LatestAnswered
      /\ busy \in BOOLEAN
      /\ Under(s) => busy
  BY DEF WriteInv, AssistantTypeOK, AsksAreLatest, BusyWhileWriting
<1>1. UNCHANGED <<live, thread, page>>
  BY DEF AssistantGoesOn
<1>2. CASE Listed(s)
  <2>1. run[s].kind \in {"boot", "create", "delete"} /\ UNCHANGED <<asked, retry, latest>>
    BY <1>2 DEF Listed, Answered
  <2>2. ASSUME NEW next, GoesOn(s, "thread", next), UNCHANGED busy PROVE WriteInv'
    BY <1>1, <2>1, <2>2, NextRequestsKeep
  <2>3. ASSUME Ends(s), busy' = (busy /\ run[s].kind = "boot") PROVE WriteInv'
    <3>1. busy' = (busy /\ run[s].kind \notin Writes)
      BY <2>1, <2>3 DEF Writes
    <3>2. QED
      BY <1>1, <2>1, <2>3, <3>1, EndsKeep
  <2>4. QED
    BY <1>2, <2>2, <2>3 DEF Listed
<1>3. CASE ThreadShown(s)
  BY <1>1, <1>3, EndsKeep DEF ThreadShown, Answered
<1>4. CASE OtherFails(s)
  BY <1>1, <1>4, EndsKeep DEF OtherFails, Failed
<1>5. CASE Created(s)
  BY <1>1, <1>5, NextRequestsKeep DEF Created, Answered, assistantVars
<1>6. CASE Deleted(s)
  BY <1>1, <1>6, NextRequestsKeep DEF Deleted, Answered
<1>7. CASE AskCreated(s)
  BY <1>1, <1>7, NextRequestsKeep DEF AskCreated, Answered
<1>8. CASE AskAnswered(s)
  BY <1>0, <1>1, <1>8, NextRequestsKeep DEF AskAnswered, Answered, Told
<1>9. CASE AskListed(s)
  BY <1>0, <1>1, <1>9, EndsKeep DEF AskListed, Answered, Told, Writes
<1>10. CASE AskFails(s)
  BY <1>0, <1>1, <1>10, EndsKeep DEF AskFails, Failed, Writes
<1>11. QED
  BY <1>2, <1>3, <1>4, <1>5, <1>6, <1>7, <1>8, <1>9, <1>10 DEF AssistantGoesOn

(* The functions of the document page do,                                  *)
LEMMA DocumentKeeps ==
  ASSUME WriteInv, NEW s \in Slots, DocumentGoesOn(s), UNCHANGED pageVars
  PROVE  WriteInv'
<1>0. /\ busy \in BOOLEAN /\ ~busy /\ latest = 0 /\ page = "document"
      /\ UNCHANGED <<live, thread, asked, active, messages, busy, retry, latest>>
  BY DEF WriteInv, AssistantTypeOK, DocumentGoesOn, pageVars, convVars, assistantVars
<1>1. run[s].kind \in {"load", "reprocess", "remove"}
  BY DEF DocumentGoesOn, Loaded, Reprocessed, JobsLoaded, Removed, DocumentFails, Answered, Failed
<1>2. CASE Loaded(s) \/ JobsLoaded(s) \/ DocumentFails(s)
  <2>1. Ends(s) /\ page' = page /\ busy' = (busy /\ run[s].kind \notin Writes)
    BY <1>0, <1>2 DEF Loaded, JobsLoaded, DocumentFails
  <2>2. QED
    BY <1>0, <1>1, <2>1, EndsKeep
<1>3. CASE Reprocessed(s)
  BY <1>0, <1>1, <1>3, NextRequestsKeep DEF Reprocessed
<1>4. CASE Removed(s)
  <2>1. page' = "other" /\ \A r \in Slots : run'[r] = Idle
    BY <1>4 DEF Removed, Unmount
  <2>2. run' \in [Slots -> Functions({"none", None, 0})]
    BY <1>4 DEF Removed, Unmount, Idle, Functions
  <2>3. RunShape'
    BY <2>2 DEF RunShape
  <2>4. AssistantTypeOK'
    BY <1>0, <2>1, <2>3 DEF WriteInv, AssistantTypeOK
  <2>5. BusyWhileWriting' /\ AsksAreLatest' /\ QuestionKept'
    BY <1>0, <2>1 DEF BusyWhileWriting, Under, Writes, AsksAreLatest, QuestionKept, Idle
  <2>6. QED
    BY <2>4, <2>5 DEF WriteInv
<1>5. QED
  BY <1>2, <1>3, <1>4 DEF DocumentGoesOn

(* What the user does. *)
LEMMA ClicksKeep ==
  ASSUME WriteInv, NEW s \in Slots, AssistantUser(s)
  PROVE  WriteInv'
<1> DEFINE Values == {"none", None, 0}
<1>0. /\ latest \in Nat /\ asked \in Nat /\ retry \in Nat
      /\ live \subseteq Convs /\ thread \in [Convs -> Seq(Stored)]
      /\ page # "assistant" => ~busy /\ latest = 0
  BY DEF WriteInv, AssistantTypeOK
<1>1. CASE OpenAssistant(s)
  <2> DEFINE f == [Idle EXCEPT !.kind = "boot", !.at = "list"]
  <2>1. f \in Functions(Values \cup {"boot", "list"}) /\ f.kind = "boot" /\ f.at = "list"
    BY DEF Idle, Functions
  <2>2. /\ Begins(s, f)
        /\ live' \subseteq Convs
        /\ page = "other" /\ page' = "assistant"
        /\ UNCHANGED <<asked, retry, latest, busy>>
    BY <1>1 DEF OpenAssistant, OpenPage, assistantVars
  <2>3. thread' \in [Convs -> Seq(Stored)]
    <3>1. /\ <<Message(0, "user"), Message(0, "assistant")>> \in Seq(Stored)
          /\ <<>> \in Seq(Stored)
      BY DEF Message, Stored
    <3>2. QED
      BY <1>1, <3>1 DEF OpenAssistant
  <2>4. latest = 0
    BY <1>0, <2>2
  <2>5. QED
    BY <2>1, <2>2, <2>3, <2>4, ReadsKeep DEF Writes
<1>2. ASSUME NEW c \in Convs, Select(s, c) PROVE WriteInv'
  <2> DEFINE f == [Idle EXCEPT !.kind = "select", !.at = "thread", !.id = c]
  <2>1. f \in Functions(Values \cup {"select", "thread", c}) /\ f.kind = "select" /\ f.at = "thread"
    BY DEF Idle, Functions
  <2>2. QED
    BY <1>0, <1>2, <2>1, ReadsKeep DEF Select, Starts, Writes
<1>3. ASSUME NEW c \in Convs, Delete(s, c) PROVE WriteInv'
  <2> DEFINE f == [Idle EXCEPT !.kind = "delete", !.at = "delete", !.id = c, !.was = active]
  <2>1. /\ f \in Functions(Values \cup {"delete", c, active})
        /\ f.kind = "delete" /\ f.at = "delete" /\ f.status = "none"
    BY DEF Idle, Functions
  <2>2. QED
    BY <1>0, <1>3, <2>1, WritesKeep DEF Delete, Starts, Writes
<1>4. CASE Create(s)
  <2> DEFINE f == [Idle EXCEPT !.kind = "create", !.at = "create"]
  <2>1. /\ f \in Functions(Values \cup {"create"})
        /\ f.kind = "create" /\ f.at = "create" /\ f.status = "none"
    BY DEF Idle, Functions
  <2>2. QED
    BY <1>0, <1>4, <2>1, WritesKeep DEF Create, Starts, Writes
<1>5. ASSUME NEW n \in 1..MaxAsks, Submit(s, n) PROVE WriteInv'
  <2> DEFINE first == IF active = None THEN "create" ELSE "ask"
             f == [Idle EXCEPT !.kind = "ask", !.at = first, !.id = active, !.ask = n]
  <2>1. /\ f \in Functions(Values \cup {"ask", first, active, n})
        /\ f.kind = "ask" /\ f.at \in {"create", "ask"} /\ f.status = "none" /\ f.ask = n
    BY DEF Idle, Functions
  <2>2. n \in Nat /\ n # 0
    OBVIOUS
  <2>3. /\ Begins(s, f)
        /\ page = "assistant" /\ ~busy /\ busy' = TRUE
        /\ UNCHANGED <<live, thread, page>>
        /\ asked' \in Nat /\ latest' = n /\ retry' = 0
    BY <1>0, <1>5, <2>2 DEF Submit, Starts
  <2> HIDE DEF f
  <2>4. QED
    BY <2>1, <2>2, <2>3, WritesKeep DEF Writes
<1>6. QED
  BY <1>1, <1>2, <1>3, <1>4, <1>5 DEF AssistantUser

(* and its clicks and polls.                                               *)
LEMMA DocumentClicksKeep ==
  ASSUME WriteInv, NEW s \in Slots, DocumentUser(s) \/ (Poll(s) /\ UNCHANGED pageVars)
  PROVE  WriteInv'
<1>0. /\ live \subseteq Convs /\ thread \in [Convs -> Seq(Stored)]
      /\ page # "assistant" => ~busy /\ latest = 0
      /\ UNCHANGED <<live, thread, asked, busy, retry, latest>>
  BY DEF WriteInv, AssistantTypeOK, DocumentUser, pageVars, convVars, assistantVars
<1>1. ASSUME NEW kind \in {"load", "reprocess", "remove"}, NEW at \in {"document", "reprocess", "remove"},
             Begins(s, [Idle EXCEPT !.kind = kind, !.at = at]),
             page \in {"other", "document"}, page' = "document"
      PROVE  WriteInv'
  <2> DEFINE f == [Idle EXCEPT !.kind = kind, !.at = at]
  <2>1. f \in Functions({"none", None, 0, kind, at}) /\ f.kind = kind /\ f.at = at
    BY DEF Idle, Functions
  <2>2. kind \notin Writes /\ at # "ask"
    BY DEF Writes
  <2>3. ~busy /\ latest = 0
    BY <1>0, <1>1
  <2> HIDE DEF f
  <2>4. Begins(s, f)
    BY <1>1 DEF f
  <2>5. QED
    BY <1>0, <2>1, <2>2, <2>3, <2>4, ReadsKeep
<1>2. CASE OpenDocument(s)
  BY <1>1, <1>2 DEF OpenDocument, OpenPage
<1>3. CASE Poll(s) \/ Retry(s) \/ Reprocess(s) \/ DeleteDocument(s)
  BY <1>1, <1>3 DEF Poll, Retry, Reprocess, DeleteDocument, StartsHere
<1>4. QED
  BY <1>2, <1>3 DEF DocumentUser

(* No step of the client breaks WriteInv.                                  *)
LEMMA WriteInvStep == WriteInv /\ [Next]_vars => WriteInv'
<1> SUFFICES ASSUME WriteInv, [Next]_vars PROVE WriteInv'
  OBVIOUS
<1>1. CASE Session
  <2>1. CASE (Reload \/ Logout) /\ LeavesPages
    BY <2>1, LeavingKeeps DEF Reload, Logout, LeavesPages
  <2>2. CASE /\ RefreshReturns \/ LoginReturns \/ (\E u \in Users : SubmitLogin(u))
                \/ \E t \in valid : Expire(t)
             /\ UNCHANGED pageVars
    BY <2>2, UntouchedKeeps
       DEF RefreshReturns, LoginReturns, SubmitLogin, Expire, pageVars, convVars, assistantVars
  <2>3. QED
    BY <1>1, <2>1, <2>2 DEF Session
<1>2. CASE Navigate
  BY <1>2, LeavingKeeps DEF Navigate, LeavesPages
<1>3. ASSUME NEW s \in Slots, Answer(s) PROVE WriteInv'
  BY <1>3, AnswersKeep
<1>4. ASSUME NEW s \in Slots, GoOn(s) PROVE WriteInv'
  BY <1>4, AssistantKeeps, DocumentKeeps, LeavingKeeps DEF GoOn, SessionLost, LeavesPages
<1>5. ASSUME NEW s \in Slots,
             AssistantUser(s) \/ DocumentUser(s) \/ (Poll(s) /\ UNCHANGED pageVars)
      PROVE  WriteInv'
  BY <1>5, ClicksKeep, DocumentClicksKeep
<1>6. CASE (Work /\ UNCHANGED pageVars) \/ UNCHANGED vars
  BY <1>6, UntouchedKeeps DEF Work, vars, tabVars, pageVars, convVars, assistantVars
<1>7. QED
  BY <1>1, <1>2, <1>3, <1>4, <1>5, <1>6 DEF Next

(* WriteInv always holds.                                                  *)
LEMMA WriteInvHolds == Spec => []WriteInv
BY WriteInvInit, WriteInvStep, PTL DEF Spec

(* AssistantPage writes one thing at a time and is busy exactly as long,   *)
(* whatever fails and whichever functions the user lets overlap.           *)
THEOREM BusyIsExact == Spec => []BusyWhileWriting
<1>1. WriteInv => BusyWhileWriting
  BY DEF WriteInv
<1>2. QED
  BY <1>1, WriteInvHolds, PTL

(* A question that was submitted is under way, answered at the server, or  *)
(* offered again (pendingRetry), for any number of questions,              *)
(* conversations and failures.                                             *)
THEOREM QuestionsAreKept == Spec => []QuestionKept
<1>1. WriteInv => QuestionKept
  BY DEF WriteInv
<1>2. QED
  BY <1>1, WriteInvHolds, PTL

-----------------------------------------------------------------------------
(* What the thread shows.                                                  *)

(* What a function has in its variables: a thread as it was when it was    *)
(* read, and conversations that exist.                                     *)
AnswersInv ==
  /\ active \in Convs \cup {None}
  /\ messages \in Seq(Messages)
  /\ page # "assistant" => active = None /\ messages = <<>>
  /\ \A s \in Slots :
       /\ run[s].at = "thread" /\ run[s].status = "ok" =>
            /\ run[s].id \in Convs
            /\ run[s].body \in Seq(Stored) /\ PartOf(run[s].body, thread[run[s].id])
       /\ run[s].at = "list" /\ run[s].status = "ok" => run[s].body \in Convs \cup {None}
       /\ run[s].at = "create" /\ run[s].status = "ok" => run[s].body \in Convs
       /\ run[s].kind = "create" /\ run[s].at = "list" => run[s].id \in Convs
       /\ run[s].kind = "delete" => run[s].was \in Convs \cup {None}
       /\ run[s].kind = "none" => run[s].at = "none"

(* A question that is answered has lost its bubble before the list is      *)
(* loaded again.                                                           *)
BubbleInv ==
  \A i \in DOMAIN messages :
    messages[i].role = "local" =>
      \E s \in Slots : run[s].kind = "ask" /\ run[s].at # "list" /\ run[s].ask = messages[i].ask

(* The thread shown is that of the active conversation. *)
Matches ==
  IF active = None THEN messages = <<>> ELSE PartOf(messages, thread[active])

(* What the answer to a question adds. *)
Apart(n) == <<Message(n, "user"), Message(n, "assistant")>>

(* What holds while a function is the only one that runs: a conversation   *)
(* becomes active before its thread is loaded, a bubble is shown before    *)
(* the question is stored, and an answer is stored before it is shown.     *)
WhileBoot(f) == messages = <<>> /\ (f.at = "list" => active = None) /\ (f.at = "thread" => active = f.id)
WhileSelect(f) == f.at = "thread" /\ active = f.id
WhileCreate(f) == IF f.at = "thread" THEN active = f.id ELSE Matches
WhileDelete(f) ==
  /\ Matches
  /\ f.at = "delete" => active = f.was
  /\ f.at = "list" => active = IF f.was = f.id THEN None ELSE f.was
  /\ f.at = "thread" => active = f.id
WhileAsk(f) ==
  /\ f.at = "create" => active = None /\ Others(f.ask) = <<>>
  /\ f.at = "ask" =>
       /\ active = f.id /\ active # None
       /\ PartOf(IF f.status = "ok" THEN Others(f.ask) \o Apart(f.ask) ELSE Others(f.ask), thread[active])
  /\ f.at = "list" => Matches
  /\ f.at \in {"create", "ask", "list"}

While(f) ==
  CASE f.kind = "boot" -> WhileBoot(f)
    [] f.kind = "select" -> WhileSelect(f)
    [] f.kind = "create" -> WhileCreate(f)
    [] f.kind = "delete" -> WhileDelete(f)
    [] f.kind = "ask" -> WhileAsk(f)
    [] OTHER -> TRUE

(* As long as the page has not lost touch, at most one function runs.      *)
ThreadInv ==
  page = "assistant" /\ ~astray =>
    /\ \A r, s \in Slots : ~Free(r) /\ ~Free(s) => r = s
    /\ (\A s \in Slots : Free(s)) => Matches
    /\ \A s \in Slots : While(run[s])

PageInv == AnswersInv /\ BubbleInv /\ ThreadInv

-----------------------------------------------------------------------------
(* Parts of threads. *)

(* What was part of a thread still is when the thread has grown. *)
LEMMA PartOfGrown ==
  ASSUME NEW X, NEW t \in Seq(X), NEW u \in Seq(X), NEW m, PartOf(m, t)
  PROVE  PartOf(m, t \o u) /\ PartOf(m \o u, t \o u)
<1>1. PICK D \in SUBSET DOMAIN t : m = Picked(t, D)
  BY DEF PartOf
<1>2. /\ Len(t) \in Nat /\ Len(u) \in Nat /\ DOMAIN t = 1..Len(t) /\ DOMAIN u = 1..Len(u)
      /\ t \o u \in Seq(X) /\ DOMAIN (t \o u) = 1..(Len(t) + Len(u))
      /\ \A i \in D : i \in 1..Len(t)
  BY <1>1, LenProperties, ConcatProperties
<1>3. m \in Seq(X)
  BY <1>1, PickedType
<1>4. PartOf(m, t \o u)
  <2>1. Picked(t \o u, D) = Picked(t, D) \o Picked(u, {})
    <3>1. \A i \in 1..Len(u) : Len(t) + i \in D <=> i \in {}
      BY <1>2
    <3>2. QED
      BY <3>1, PickedConcat
  <2>2. Picked(u, {}) = <<>>
    BY PickedNone
  <2>3. m \o <<>> = m
    BY <1>3
  <2>4. m = Picked(t \o u, D)
    BY <1>1, <2>1, <2>2, <2>3
  <2>5. D \in SUBSET DOMAIN (t \o u)
    BY <1>2
  <2>6. QED
    BY <2>4, <2>5 DEF PartOf
<1>5. PartOf(m \o u, t \o u)
  <2> DEFINE E == D \cup {i \in 1..(Len(t) + Len(u)) : i > Len(t)}
             all == DOMAIN u
  <2>1. Picked(t \o u, E) = Picked(t, D) \o Picked(u, all)
    <3>1. /\ \A i \in 1..Len(t) : i \in E <=> i \in D
          /\ \A i \in 1..Len(u) : Len(t) + i \in E <=> i \in all
      BY <1>2
    <3> HIDE DEF E, all
    <3>2. QED
      BY <3>1, PickedConcat
  <2>2. Picked(u, DOMAIN u) = u
    BY <1>2, PickedAll
  <2>3. m \o u = Picked(t \o u, E)
    BY <1>1, <2>1, <2>2
  <2>4. E \in SUBSET DOMAIN (t \o u)
    BY <1>2
  <2> HIDE DEF E
  <2>5. QED
    BY <2>3, <2>4 DEF PartOf
<1>6. QED
  BY <1>4, <1>5

(* Nothing is part of every thread, and a thread of itself.                *)
LEMMA PartsOf ==
  ASSUME NEW X, NEW t \in Seq(X)
  PROVE  /\ PartOf(<<>>, t) /\ PartOf(t, t)
         /\ \A m : PartOf(m, t) => m \in Seq(X)
<1>1. DOMAIN t = 1..Len(t)
  BY LenProperties
<1>2. Picked(t, {}) = <<>> /\ Picked(t, DOMAIN t) = t
  BY <1>1, PickedNone, PickedAll
<1>3. PartOf(<<>>, t) /\ PartOf(t, t)
  <2>1. {} \in SUBSET DOMAIN t /\ DOMAIN t \in SUBSET DOMAIN t
    OBVIOUS
  <2>2. QED
    BY <1>2, <2>1 DEF PartOf
<1>4. \A m : PartOf(m, t) => m \in Seq(X)
  BY PickedType DEF PartOf
<1>5. QED
  BY <1>3, <1>4

(* The messages without the bubble of a question. *)
Without(m, n) == Filtered(m, LAMBDA x : x # Message(n, "local"))

(* What is left when the bubble of a question is taken away.               *)
LEMMA OthersAreWithout == \A n : Others(n) = Without(messages, n) /\ Others(n)' = Without(messages', n)
BY DEF Others, Without, Filtered, Message

(* The other messages are left as they are. *)
LEMMA WithoutType ==
  ASSUME NEW m \in Seq(Messages), NEW n
  PROVE  /\ Without(m, n) \in Seq(Messages)
         /\ \A k \in DOMAIN Without(m, n) :
              /\ Without(m, n)[k] # Message(n, "local")
              /\ \E i \in DOMAIN m : m[i] = Without(m, n)[k]
<1> DEFINE D == {i \in DOMAIN m : m[i] # Message(n, "local")}
           left == Picked(m, D)
<1>1. Without(m, n) = left
  BY DEF Without, Filtered
<1> HIDE DEF left
<1>2. left \in Seq(Messages)
  BY PickedType DEF left
<1>3. PICK at, c : PicksAt(at, c, m, D)
  <2> HIDE DEF D
  <2>1. QED
    BY PickedInOrder
<1>4. /\ c \in Nat /\ \A k \in 1..c : at[k] \in D
      /\ left = [k \in 1..c |-> m[at[k]]]
  <2> HIDE DEF D
  <2>1. QED
    BY <1>3 DEF PicksAt, Lists, left
<1>5. \A k \in DOMAIN left : left[k] # Message(n, "local") /\ \E i \in DOMAIN m : m[i] = left[k]
  BY <1>4
<1>6. QED
  BY <1>1, <1>2, <1>5

(* Stored messages hold no bubble. *)
LEMMA WithoutNothing ==
  ASSUME NEW m \in Seq(Stored), NEW n \in Nat
  PROVE  /\ Without(m, n) = m
         /\ Without(Append(m, Message(n, "local")), n) = m
         /\ Append(m, Message(n, "local")) \in Seq(Messages)
         /\ m \in Seq(Messages)
<1> DEFINE bubble == Message(n, "local")
<1>1. bubble \in Messages /\ \A x \in Stored : x # bubble /\ x \in Messages
  BY DEF Message, Messages, Stored
<1> HIDE DEF bubble
<1>2. /\ Len(m) \in Nat /\ DOMAIN m = 1..Len(m) /\ \A i \in 1..Len(m) : m[i] \in Stored
      /\ m \in Seq(Messages) /\ <<bubble>> \in Seq(Messages)
      /\ Append(m, bubble) = m \o <<bubble>>
  BY <1>1, LenProperties
<1>3. Without(m, n) = m
  <2>1. Without(m, n) = Picked(m, {i \in DOMAIN m : m[i] # bubble})
    BY DEF Without, Filtered, bubble
  <2>2. \A i \in 1..Len(m) : i \in {j \in DOMAIN m : m[j] # bubble}
    BY <1>1, <1>2
  <2>3. QED
    BY <2>1, <2>2, PickedAll
<1>4. Without(Append(m, bubble), n) = m
  <2> DEFINE one == <<bubble>>
             longer == m \o one
             all == DOMAIN m
             none == {}
             D == {i \in DOMAIN longer : longer[i] # bubble}
  <2>1. Without(Append(m, bubble), n) = Picked(longer, D)
    BY <1>2 DEF Without, Filtered, bubble
  <2>2. /\ DOMAIN longer = 1..(Len(m) + 1) /\ longer[Len(m) + 1] = bubble
        /\ \A i \in 1..Len(m) : longer[i] = m[i]
    BY <1>2
  <2>3. /\ \A i \in 1..Len(m) : i \in D <=> i \in all
        /\ \A i \in 1..Len(one) : Len(m) + i \in D <=> i \in none
    <3>1. Len(one) = 1
      OBVIOUS
    <3> HIDE DEF longer, one
    <3>2. QED
      BY <1>1, <1>2, <2>2, <3>1
  <2>4. /\ Len(one) = 1 /\ one \in Seq(Messages)
        /\ Picked(m, all) = m /\ Picked(one, none) = <<>>
    BY <1>2, PickedAll, PickedNone
  <2> HIDE DEF D, one, all, none
  <2>5. Picked(m \o one, D) = Picked(m, all) \o Picked(one, none)
    <3>1. m \in Seq(Messages) /\ one \in Seq(Messages)
      BY <1>2, <2>4
    <3>2. QED
      BY <2>3, <3>1, PickedConcat
  <2>7. m \o <<>> = m
    OBVIOUS
  <2>8. QED
    BY <2>1, <2>4, <2>5, <2>7 DEF longer
<1>5. Append(m, bubble) \in Seq(Messages)
  BY <1>1, <1>2
<1>6. QED
  BY <1>2, <1>3, <1>4, <1>5 DEF bubble

(* No page is mounted at the start.                                        *)
LEMMA PageInvInit == Init => PageInv
<1> SUFFICES ASSUME Init PROVE PageInv
  OBVIOUS
<1>1. /\ \A s \in Slots : run[s] = Idle
      /\ page = "other" /\ active = None /\ messages = <<>> /\ DOMAIN messages = {}
  BY DEF Init, TabInit, AssistantInit, Blank
<1>2. AnswersInv
  <2>1. messages \in Seq(Messages)
    BY <1>1
  <2>2. QED
    BY <1>1, <2>1 DEF AnswersInv, Idle
<1>3. BubbleInv /\ ThreadInv
  BY <1>1 DEF BubbleInv, ThreadInv
<1>4. QED
  BY <1>2, <1>3 DEF PageInv

(* Away from the page nothing is shown. *)
LEMMA AwayKeeps ==
  ASSUME page' # "assistant", active' = None, messages' = <<>>,
         \A s \in Slots :
           \/ /\ run'[s].at \notin {"thread", "list", "create"} /\ run'[s].kind # "delete"
              /\ run'[s].kind = "none" => run'[s].at = "none"
           \/ AnswersInv /\ thread' = thread /\ run'[s] = run[s]
  PROVE  PageInv'
<1>1. messages' \in Seq(Messages) /\ DOMAIN messages' = {}
  OBVIOUS
<1>2. AnswersInv'
  BY <1>1 DEF AnswersInv
<1>3. BubbleInv' /\ ThreadInv'
  BY <1>1 DEF BubbleInv, ThreadInv
<1>4. QED
  BY <1>2, <1>3 DEF PageInv

(* A page that is left shows nothing.                                      *)
LEMMA LeavingEmpties == Unmount /\ ClearAssistant => PageInv'
BY AwayKeeps DEF Unmount, ClearAssistant, Idle

(* Steps of the session. *)
LEMMA UntouchedShows ==
  ASSUME PageInv, UNCHANGED <<run, page, astray, thread, active, messages>>
  PROVE  PageInv'
<1>1. AnswersInv' /\ BubbleInv'
  BY DEF PageInv, AnswersInv, BubbleInv
<1>2. Matches' = Matches /\ \A n : Others(n)' = Others(n) /\ Apart(n)' = Apart(n)
  BY OthersAreWithout DEF Matches, Apart, Message
<1>3. \A s \in Slots : While(run[s])' = While(run[s])
  BY <1>2 DEF While, WhileBoot, WhileSelect, WhileCreate, WhileDelete, WhileAsk
<1>4. ThreadInv'
  BY <1>2, <1>3 DEF PageInv, ThreadInv, Free
<1>5. QED
  BY <1>1, <1>4 DEF PageInv

-----------------------------------------------------------------------------
(* The server answers: threads grow, and a reply is what the function will *)
(* go on with.                                                             *)
LEMMA ReplyShows ==
  ASSUME WriteInv, PageInv, NEW s \in Slots, NEW status \in {"ok", "failed"}, NEW body,
         Reply(s, status, body), run[s].status = "none",
         UNCHANGED <<active, messages, page, astray>>,
         \A c \in Convs : \A m : PartOf(m, thread[c]) => PartOf(m, thread'[c]),
         run[s].at = "thread" /\ status = "ok" =>
           run[s].id \in Convs /\ body \in Seq(Stored) /\ PartOf(body, thread'[run[s].id]),
         run[s].at = "list" /\ status = "ok" => body \in Convs \cup {None},
         run[s].at = "create" /\ status = "ok" => body \in Convs,
         run[s].at = "ask" /\ status = "ok" =>
           \A m : PartOf(m, thread[run[s].id]) => PartOf(m \o Apart(run[s].ask), thread'[run[s].id])
  PROVE  PageInv'
<1>1. /\ \A r \in Slots : r # s => run'[r] = run[r]
      /\ run'[s].kind = run[s].kind /\ run'[s].at = run[s].at /\ run'[s].ask = run[s].ask
      /\ run'[s].id = run[s].id /\ run'[s].was = run[s].was
      /\ run'[s].status = status /\ run'[s].body = body
  BY ReplyMoves DEF WriteInv, AssistantTypeOK
<1>2. AnswersInv /\ BubbleInv /\ ThreadInv
  BY DEF PageInv
<1>3. AnswersInv'
  <2>1. ASSUME NEW r \in Slots
        PROVE  /\ run'[r].at = "thread" /\ run'[r].status = "ok" =>
                    /\ run'[r].id \in Convs
                    /\ run'[r].body \in Seq(Stored) /\ PartOf(run'[r].body, thread'[run'[r].id])
               /\ run'[r].at = "list" /\ run'[r].status = "ok" => run'[r].body \in Convs \cup {None}
               /\ run'[r].at = "create" /\ run'[r].status = "ok" => run'[r].body \in Convs
               /\ run'[r].kind = "create" /\ run'[r].at = "list" => run'[r].id \in Convs
               /\ run'[r].kind = "delete" => run'[r].was \in Convs \cup {None}
               /\ run'[r].kind = "none" => run'[r].at = "none"
    <3>1. CASE r = s
      BY <1>1, <1>2, <3>1 DEF AnswersInv
    <3>2. CASE r # s
      BY <1>1, <1>2, <3>2 DEF AnswersInv
    <3>3. QED
      BY <3>1, <3>2
  <2>2. QED
    BY <1>2, <2>1 DEF AnswersInv
<1>4. BubbleInv'
  <2>1. \A r \in Slots : run'[r].kind = run[r].kind /\ run'[r].at = run[r].at /\ run'[r].ask = run[r].ask
    BY <1>1
  <2>2. QED
    BY <1>2, <2>1 DEF BubbleInv
<1>5. active \in Convs \cup {None}
  BY <1>2 DEF AnswersInv
<1>6. Matches => Matches'
  BY <1>5 DEF Matches
<1>7. \A n : Others(n)' = Others(n)
  BY OthersAreWithout
<1>8. ThreadInv'
  <2> SUFFICES ASSUME page = "assistant", ~astray
               PROVE  /\ \A q, r \in Slots : ~Free(q)' /\ ~Free(r)' => q = r
                      /\ (\A r \in Slots : Free(r)') => Matches'
                      /\ \A r \in Slots : While(run[r])'
    BY DEF ThreadInv
  <2>1. /\ \A q, r \in Slots : ~Free(q) /\ ~Free(r) => q = r
        /\ (\A r \in Slots : Free(r)) => Matches
        /\ \A r \in Slots : While(run[r])
    BY <1>2 DEF ThreadInv
  <2>2. \A r \in Slots : Free(r)' <=> Free(r)
    BY <1>1 DEF Free
  <2>3. ASSUME NEW r \in Slots PROVE While(run[r])'
    <3>1. /\ While(run[r])
          /\ run'[r].kind = run[r].kind /\ run'[r].at = run[r].at /\ run'[r].ask = run[r].ask
          /\ run'[r].id = run[r].id /\ run'[r].was = run[r].was
      BY <1>1, <2>1
    <3>2. CASE run[r].kind \in {"boot", "select"}
      BY <3>1, <3>2 DEF While, WhileBoot, WhileSelect
    <3>3. CASE run[r].kind = "create"
      BY <1>6, <3>1, <3>3 DEF While, WhileCreate
    <3>4. CASE run[r].kind = "delete"
      BY <1>6, <3>1, <3>4 DEF While, WhileDelete
    <3>5. CASE run[r].kind = "ask"
      <4>1. WhileAsk(run[r])
        BY <3>1, <3>5 DEF While
      <4>2. ASSUME run[r].at = "ask"
            PROVE  PartOf(IF run'[r].status = "ok" THEN Others(run[r].ask) \o Apart(run[r].ask)
                                                   ELSE Others(run[r].ask), thread'[active])
        <5>1. /\ active = run[r].id /\ active \in Convs
              /\ PartOf(IF run[r].status = "ok" THEN Others(run[r].ask) \o Apart(run[r].ask)
                                                ELSE Others(run[r].ask), thread[active])
          BY <1>5, <4>1, <4>2 DEF WhileAsk
        <5>2. CASE r # s
          <6>1. run'[r].status = run[r].status
            BY <1>1, <5>2
          <6>2. QED
            BY <5>1, <6>1
        <5>3. CASE r = s
          <6>1. PartOf(Others(run[s].ask), thread[active])
            BY <5>1, <5>3
          <6>2. QED
            BY <1>1, <4>2, <5>1, <5>3, <6>1
        <5>4. QED
          BY <5>2, <5>3
      <4>3. WhileAsk(run[r])'
        <5>1. Apart(run[r].ask)' = Apart(run[r].ask)
          BY <3>1 DEF Apart, Message
        <5>2. QED
          BY <1>6, <1>7, <3>1, <4>1, <4>2, <5>1 DEF WhileAsk
      <4>4. QED
        BY <3>1, <3>5, <4>3 DEF While
    <3>6. CASE run[r].kind \notin {"boot", "select", "create", "delete", "ask"}
      BY <3>1, <3>6 DEF While
    <3>7. QED
      BY <3>2, <3>3, <3>4, <3>5, <3>6
  <2>4. QED
    BY <1>6, <2>1, <2>2, <2>3
<1>9. QED
  BY <1>3, <1>4, <1>8 DEF PageInv

(* Whatever the server answers, the page shows what it showed.             *)
LEMMA AnswersShow ==
  ASSUME WriteInv, PageInv, NEW s \in Slots, Answer(s), page = "assistant"
  PROVE  PageInv'
<1>0. /\ live \subseteq Convs /\ thread \in [Convs -> Seq(Stored)]
      /\ run[s].at = "ask" => run[s].kind = "ask" /\ run[s].ask = latest
      /\ latest \in Nat
  BY DEF WriteInv, AssistantTypeOK, AsksAreLatest
<1>1. ASSUME NEW status \in {"ok", "failed"}, NEW body, Reply(s, status, body), run[s].status = "none",
             UNCHANGED <<thread, active, messages, page, astray>>,
             run[s].at = "ask" => status = "failed",
             run[s].at = "thread" /\ status = "ok" => run[s].id \in Convs /\ body = thread[run[s].id],
             run[s].at = "list" /\ status = "ok" => body \in Convs \cup {None},
             run[s].at = "create" /\ status = "ok" => body \in Convs
      PROVE  PageInv'
  <2>1. run[s].at = "thread" /\ status = "ok" =>
           run[s].id \in Convs /\ body \in Seq(Stored) /\ PartOf(body, thread'[run[s].id])
    BY <1>0, <1>1, PartsOf
  <2>2. \A c \in Convs : \A m : PartOf(m, thread[c]) => PartOf(m, thread'[c])
    BY <1>1
  <2>3. QED
    BY <1>1, <2>1, <2>2, ReplyShows
<1>2. CASE Fails(s) /\ UNCHANGED <<pageVars, documentVars>>
  BY <1>1, <1>2 DEF Fails, Waiting, pageVars, convVars, assistantVars
<1>3. ASSUME ServeDocument(s) PROVE FALSE
  BY <1>3 DEF ServeDocument
<1>4. CASE ServeAssistant(s)
  <2>1. UNCHANGED <<active, messages, page, astray>>
    BY <1>4 DEF ServeAssistant, assistantVars
  <2>2. CASE ServeList(s)
    <3>1. PICK first \in IF live = {} THEN {None} ELSE live : Done(s, first)
      BY <2>2 DEF ServeList
    <3>2. first \in Convs \cup {None} /\ run[s].at = "list" /\ run[s].status = "none" /\ thread' = thread
      BY <1>0, <2>2 DEF ServeList, Asks, convVars
    <3>3. QED
      BY <1>1, <2>1, <3>1, <3>2 DEF Done
  <2>3. CASE ServeThread(s)
    BY <1>0, <1>1, <2>1, <2>3 DEF ServeThread, Asks, Done, convVars
  <2>4. CASE ServeCreate(s)
    BY <1>1, <2>1, <2>4 DEF ServeCreate, Asks, Done
  <2>5. CASE ServeDelete(s)
    BY <1>1, <2>1, <2>5 DEF ServeDelete, Asks, Done
  <2>6. CASE NotFound(s)
    BY <1>1, <2>1, <2>6 DEF NotFound, Asks, convVars
  <2>7. CASE ServeAsk(s)
    <3>1. PICK c \in Convs : c = run[s].id
      BY <1>0, <2>7 DEF ServeAsk
    <3> DEFINE n == run[s].ask
               apart == Apart(n)
               question == <<Message(n, "user")>>
    <3>2. /\ apart \in Seq(Stored) /\ question \in Seq(Stored)
          /\ thread[c] \in Seq(Stored)
          /\ run[s].at = "ask" /\ run[s].status = "none"
      BY <1>0, <2>7 DEF Message, Stored, Apart, ServeAsk, Asks
    <3>3. ASSUME NEW more \in Seq(Stored), NEW longer, longer = thread[c] \o more,
                 thread' = [thread EXCEPT ![c] = longer]
          PROVE  /\ \A e \in Convs : \A m : PartOf(m, thread[e]) => PartOf(m, thread'[e])
                 /\ \A m : PartOf(m, thread[c]) => PartOf(m \o more, thread'[c])
      <4>1. thread'[c] = thread[c] \o more /\ \A e \in Convs : e # c => thread'[e] = thread[e]
        BY <1>0, <3>3
      <4>2. ASSUME NEW m, PartOf(m, thread[c])
            PROVE  PartOf(m, thread[c] \o more) /\ PartOf(m \o more, thread[c] \o more)
        BY <3>2, <4>2, PartOfGrown
      <4>3. QED
        BY <4>1, <4>2
    <3> HIDE DEF question
    <3>4. CASE /\ thread' = [thread EXCEPT ![c] = @ \o apart]
               /\ Done(s, None)
      <4> HIDE DEF apart
      <4>1. /\ \A e \in Convs : \A m : PartOf(m, thread[e]) => PartOf(m, thread'[e])
            /\ \A m : PartOf(m, thread[c]) => PartOf(m \o apart, thread'[c])
        BY <3>2, <3>3, <3>4
      <4>2. PICK status, body : status \in {"ok", "failed"} /\ Reply(s, status, body)
        BY <3>4 DEF Done
      <4>3. QED
        BY <2>1, <3>1, <3>2, <4>1, <4>2, ReplyShows DEF apart
    <3>5. CASE /\ thread' = [thread EXCEPT ![c] = Append(@, Message(n, "user"))]
               /\ Fails(s)
      <4>1. Append(thread[c], Message(n, "user")) = thread[c] \o question
        BY <3>2 DEF question
      <4>2. \A e \in Convs : \A m : PartOf(m, thread[e]) => PartOf(m, thread'[e])
        BY <3>2, <3>3, <3>5, <4>1
      <4>3. Reply(s, "failed", None)
        BY <3>5 DEF Fails
      <4>4. QED
        BY <2>1, <3>2, <4>2, <4>3, ReplyShows
    <3>6. QED
      BY <2>7, <3>1, <3>4, <3>5 DEF ServeAsk, Apart
  <2>8. QED
    BY <1>4, <2>2, <2>3, <2>4, <2>5, <2>6, <2>7 DEF ServeAssistant
<1>5. QED
  BY <1>2, <1>3, <1>4 DEF Answer

(* A function of the page takes a step; as long as the user lets one end   *)
(* before the next it is the only one.                                     *)
LEMMA StepShows ==
  ASSUME PageInv, NEW s \in Slots, page' = "assistant", page = "assistant", thread' = thread,
         \A r \in Slots : r # s => run'[r] = run[r],
         active' \in Convs \cup {None}, messages' \in Seq(Messages),
         run'[s].status = "none",
         run'[s].kind = "create" /\ run'[s].at = "list" => run'[s].id \in Convs,
         run'[s].kind = "delete" => run'[s].was \in Convs \cup {None},
         run'[s].kind = "none" => run'[s].at = "none",
         \A i \in DOMAIN messages' : messages'[i].role = "local" =>
           \/ run'[s].kind = "ask" /\ run'[s].at # "list" /\ run'[s].ask = messages'[i].ask
           \/ /\ \E j \in DOMAIN messages : messages[j] = messages'[i]
              /\ run[s].kind = "ask" /\ run[s].at # "list" => run[s].ask # messages'[i].ask,
         ~astray' =>
           /\ \A r \in Slots : r # s => Free(r)
           /\ Free(s)' => Matches'
           /\ While(run[s])'
  PROVE  PageInv'
<1>1. AnswersInv /\ BubbleInv /\ ThreadInv
  BY DEF PageInv
<1>2. AnswersInv'
  <2>1. ASSUME NEW r \in Slots
        PROVE  /\ run'[r].at = "thread" /\ run'[r].status = "ok" =>
                    /\ run'[r].id \in Convs
                    /\ run'[r].body \in Seq(Stored) /\ PartOf(run'[r].body, thread'[run'[r].id])
               /\ run'[r].at = "list" /\ run'[r].status = "ok" => run'[r].body \in Convs \cup {None}
               /\ run'[r].at = "create" /\ run'[r].status = "ok" => run'[r].body \in Convs
               /\ run'[r].kind = "create" /\ run'[r].at = "list" => run'[r].id \in Convs
               /\ run'[r].kind = "delete" => run'[r].was \in Convs \cup {None}
               /\ run'[r].kind = "none" => run'[r].at = "none"
    <3>1. CASE r = s
      BY <1>1, <3>1
    <3>2. CASE r # s
      BY <1>1, <3>2 DEF AnswersInv
    <3>3. QED
      BY <3>1, <3>2
  <2>2. QED
    BY <2>1 DEF AnswersInv
<1>3. BubbleInv'
  <2> SUFFICES ASSUME NEW i \in DOMAIN messages', messages'[i].role = "local"
               PROVE  \E r \in Slots : /\ run'[r].kind = "ask" /\ run'[r].at # "list"
                                       /\ run'[r].ask = messages'[i].ask
    BY DEF BubbleInv
  <2>1. CASE run'[s].kind = "ask" /\ run'[s].at # "list" /\ run'[s].ask = messages'[i].ask
    BY <2>1
  <2>2. CASE /\ \E j \in DOMAIN messages : messages[j] = messages'[i]
             /\ run[s].kind = "ask" /\ run[s].at # "list" => run[s].ask # messages'[i].ask
    <3>1. PICK r \in Slots : run[r].kind = "ask" /\ run[r].at # "list" /\ run[r].ask = messages'[i].ask
      BY <1>1, <2>2 DEF BubbleInv
    <3>2. r # s
      BY <2>2, <3>1
    <3>3. QED
      BY <3>1, <3>2
  <2>3. QED
    BY <2>1, <2>2
<1>4. ThreadInv'
  <2> SUFFICES ASSUME ~astray'
               PROVE  /\ \A q, r \in Slots : ~Free(q)' /\ ~Free(r)' => q = r
                      /\ (\A r \in Slots : Free(r)') => Matches'
                      /\ \A r \in Slots : While(run[r])'
    BY DEF ThreadInv
  <2>1. \A r \in Slots : r # s => Free(r)'
    BY DEF Free
  <2>2. ASSUME NEW r \in Slots, r # s PROVE While(run[r])'
    BY <2>1, <2>2 DEF Free, While
  <2>3. QED
    BY <2>1, <2>2
<1>5. QED
  BY <1>2, <1>3, <1>4 DEF PageInv

(* What holds while a function is the only one. *)
Undisturbed(s) ==
  /\ \A r \in Slots : r # s => Free(r)
  /\ While(run[s])

(* While the page has not lost touch, a running function runs alone.       *)
LEMMA OnlyOne ==
  ASSUME PageInv, page = "assistant", ~astray, NEW s \in Slots, ~Free(s)
  PROVE  Undisturbed(s)
BY DEF PageInv, ThreadInv, Undisturbed

(* A function is alone if all other slots are free.                        *)
LEMMA AloneIsOnly == \A s \in Slots : Alone(s) <=> \A r \in Slots : r # s => Free(r)
BY DEF Alone

(* What a step of a function may use. *)
LEMMA OnThePage ==
  ASSUME WriteInv, PageInv, NEW s \in Slots, AssistantGoesOn(s)
  PROVE  /\ RunShape /\ page = "assistant" /\ page' = "assistant" /\ thread' = thread
         /\ thread \in [Convs -> Seq(Stored)]
         /\ active \in Convs \cup {None} /\ messages \in Seq(Messages)
         /\ None \notin Convs
         /\ \A c \in Convs : PartOf(<<>>, thread[c])
         /\ ~Free(s) /\ ~astray => Undisturbed(s)
<1>1. /\ RunShape /\ page = "assistant" /\ page' = "assistant" /\ thread' = thread
      /\ thread \in [Convs -> Seq(Stored)]
      /\ active \in Convs \cup {None} /\ messages \in Seq(Messages)
      /\ None \notin Convs
  BY ConvsAssumption DEF WriteInv, AssistantTypeOK, AssistantGoesOn, PageInv, AnswersInv
<1>2. \A c \in Convs : PartOf(<<>>, thread[c])
  BY <1>1, PartsOf
<1>3. ~Free(s) /\ ~astray => Undisturbed(s)
  BY <1>1, OnlyOne
<1>4. QED
  BY <1>1, <1>2, <1>3

(* The list arrives, and the thread to be shown next is asked for.         *)
LEMMA ListedShows ==
  ASSUME WriteInv, PageInv, NEW s \in Slots, AssistantGoesOn(s), Listed(s)
  PROVE  PageInv'
<1> DEFINE next == CASE run[s].kind = "create" -> run[s].id
                     [] run[s].kind = "delete" /\ run[s].was # run[s].id -> run[s].was
                     [] OTHER -> None
           resolved == IF next = None THEN run[s].body ELSE next
<1>1. /\ run[s].kind \in {"boot", "create", "delete"} /\ run[s].at = "list" /\ run[s].status = "ok"
      /\ active' = resolved /\ astray' = astray
      /\ IF resolved # None THEN GoesOn(s, "thread", resolved) /\ messages' = messages
         ELSE Ends(s) /\ messages' = <<>>
  BY DEF Listed, Answered
<1>2. /\ run[s].body \in Convs \cup {None}
      /\ run[s].kind = "create" => run[s].id \in Convs
      /\ run[s].kind = "delete" => run[s].was \in Convs \cup {None}
  BY <1>1 DEF PageInv, AnswersInv
<1>3. /\ run[s].kind = "boot" => resolved = run[s].body
      /\ run[s].kind = "create" => resolved = run[s].id
      /\ run[s].kind = "delete" =>
           resolved = IF run[s].was # run[s].id /\ run[s].was # None THEN run[s].was ELSE run[s].body
  BY <1>2, OnThePage
<1> HIDE DEF next, resolved
<1>4. ~astray' => Undisturbed(s)
  BY <1>1, OnThePage DEF Free
<1>5. CASE resolved # None
  <2>1. /\ resolved \in Convs /\ GoesOn(s, "thread", resolved) /\ messages' = messages
    BY <1>1, <1>2, <1>3, <1>5
  <2>2. /\ \A r \in Slots : r # s => run'[r] = run[r]
        /\ run'[s].kind = run[s].kind /\ run'[s].at = "thread" /\ run'[s].id = resolved
        /\ run'[s].was = run[s].was /\ run'[s].status = "none"
    BY <2>1, GoesOnMoves, OnThePage
  <2>3. ASSUME ~astray' PROVE While(run[s])'
    <3>1. While(run[s])
      BY <1>4, <2>3 DEF Undisturbed
    <3>2. CASE run[s].kind = "boot"
      BY <1>1, <2>1, <2>2, <3>1, <3>2 DEF While, WhileBoot
    <3>3. CASE run[s].kind = "create"
      BY <1>1, <2>2, <3>3 DEF While, WhileCreate
    <3>4. CASE run[s].kind = "delete"
      <4>1. Matches /\ active = IF run[s].was = run[s].id THEN None ELSE run[s].was
        BY <1>1, <3>1, <3>4 DEF While, WhileDelete
      <4>2. CASE active # None
        <5>1. active' = active
          BY <1>1, <1>3, <3>4, <4>1, <4>2
        <5>2. Matches'
          BY <2>1, <4>1, <5>1, OnThePage DEF Matches
        <5>3. QED
          BY <1>1, <2>2, <3>4, <5>2 DEF While, WhileDelete
      <4>3. CASE active = None
        <5>1. messages' = <<>> /\ active' = resolved /\ resolved \in Convs
          BY <1>1, <2>1, <4>1, <4>3 DEF Matches
        <5>2. Matches'
          BY <5>1, OnThePage DEF Matches
        <5>3. QED
          BY <1>1, <2>2, <3>4, <5>2 DEF While, WhileDelete
      <4>4. QED
        BY <4>2, <4>3
    <3>5. QED
      BY <1>1, <3>2, <3>3, <3>4
  <2>4. ~astray' => \A r \in Slots : r # s => Free(r)
    BY <1>4 DEF Undisturbed
  <2>5. \A i \in DOMAIN messages' : \E j \in DOMAIN messages : messages[j] = messages'[i]
    BY <2>1
  <2>6. ~Free(s)'
    BY <1>1, <2>2 DEF Free
  <2>7. QED
    BY <1>1, <1>2, <2>1, <2>2, <2>3, <2>4, <2>5, <2>6, OnThePage, StepShows
<1>6. CASE resolved = None
  <2>1. Ends(s) /\ messages' = <<>> /\ active' = None
    BY <1>1, <1>6
  <2>2. /\ \A r \in Slots : r # s => run'[r] = run[r]
        /\ run'[s].kind = "none" /\ run'[s].at = "none" /\ run'[s].status = "none"
    BY <2>1, EndsMoves, OnThePage
  <2>3. While(run[s])' /\ Matches'
    BY <2>1, <2>2 DEF While, Matches
  <2>4. ~astray' => \A r \in Slots : r # s => Free(r)
    BY <1>4 DEF Undisturbed
  <2>5. messages' \in Seq(Messages) /\ DOMAIN messages' = {}
    BY <2>1
  <2>6. QED
    BY <2>1, <2>2, <2>3, <2>4, <2>5, OnThePage, StepShows
<1>7. QED
  BY <1>5, <1>6

(* A thread that arrives is that of the active conversation.               *)
LEMMA ThreadShownShows ==
  ASSUME WriteInv, PageInv, NEW s \in Slots, AssistantGoesOn(s), ThreadShown(s)
  PROVE  PageInv'
<1>1. /\ run[s].kind \in {"boot", "select", "create", "delete"} /\ run[s].at = "thread"
      /\ run[s].status = "ok"
      /\ messages' = (IF run[s].kind = "create" THEN <<>> ELSE run[s].body)
      /\ astray' = (astray /\ ~(Alone(s) /\ active = run[s].id))
      /\ Ends(s) /\ active' = active
  BY DEF ThreadShown, Answered
<1>2. /\ run[s].id \in Convs /\ run[s].body \in Seq(Stored)
      /\ PartOf(run[s].body, thread[run[s].id])
  BY <1>1 DEF PageInv, AnswersInv
<1>3. messages' \in Seq(Stored)
  BY <1>1, <1>2
<1>4. messages' \in Seq(Messages) /\ \A i \in DOMAIN messages' : messages'[i].role # "local"
  <2>1. DOMAIN messages' = 1..Len(messages') /\ \A i \in DOMAIN messages' : messages'[i] \in Stored
    BY <1>3, LenProperties
  <2>2. messages' \in Seq(Messages)
    BY <1>3, WithoutNothing
  <2>3. QED
    BY <2>1, <2>2 DEF Stored
<1>5. ASSUME ~astray'
      PROVE  (\A r \in Slots : r # s => Free(r)) /\ active = run[s].id
  <2>1. CASE ~astray
    <3>1. Undisturbed(s)
      BY <1>1, <2>1, OnThePage DEF Free
    <3>2. QED
      BY <1>1, <3>1 DEF Undisturbed, While, WhileBoot, WhileSelect, WhileCreate, WhileDelete
  <2>2. CASE Alone(s) /\ active = run[s].id
    BY <2>2, AloneIsOnly
  <2>3. QED
    BY <1>1, <1>5, <2>1, <2>2
<1>6. /\ \A r \in Slots : r # s => run'[r] = run[r]
      /\ run'[s].kind = "none" /\ run'[s].at = "none" /\ run'[s].status = "none"
  BY <1>1, EndsMoves, OnThePage
<1>7. ~astray' => Matches'
  <2>1. PartOf(messages', thread[run[s].id])
    BY <1>1, <1>2, OnThePage
  <2>2. QED
    BY <1>1, <1>2, <1>5, <2>1, OnThePage DEF Matches
<1>8. While(run[s])'
  BY <1>6 DEF While
<1>9. QED
  BY <1>1, <1>4, <1>5, <1>6, <1>7, <1>8, OnThePage, StepShows

(* The steps of create, delete and ask. *)
LEMMA CreatedShows ==
  ASSUME WriteInv, PageInv, NEW s \in Slots, AssistantGoesOn(s), Created(s)
  PROVE  PageInv'
<1>1. /\ run[s].kind = "create" /\ run[s].at = "create" /\ run[s].status = "ok"
      /\ GoesOn(s, "list", run[s].body) /\ astray' = astray
      /\ active' = active /\ messages' = messages
  BY DEF Created, Answered, assistantVars
<1>2. run[s].body \in Convs
  BY <1>1 DEF PageInv, AnswersInv
<1>3. /\ \A r \in Slots : r # s => run'[r] = run[r]
      /\ run'[s].kind = "create" /\ run'[s].at = "list" /\ run'[s].id = run[s].body
      /\ run'[s].status = "none"
  BY <1>1, GoesOnMoves, OnThePage
<1>4. ASSUME ~astray' PROVE (\A r \in Slots : r # s => Free(r)) /\ While(run[s])' /\ ~Free(s)'
  <2>1. Undisturbed(s)
    BY <1>1, <1>4, OnThePage DEF Free
  <2>2. Matches
    BY <1>1, <2>1 DEF Undisturbed, While, WhileCreate
  <2>3. Matches'
    BY <1>1, <2>2, OnThePage DEF Matches
  <2>4. QED
    BY <1>3, <2>1, <2>3 DEF Undisturbed, While, WhileCreate, Free
<1>5. QED
  BY <1>1, <1>2, <1>3, <1>4, OnThePage, StepShows

(* The thread of a deleted conversation is no longer shown.                *)
LEMMA DeletedShows ==
  ASSUME WriteInv, PageInv, NEW s \in Slots, AssistantGoesOn(s), Deleted(s)
  PROVE  PageInv'
<1>1. /\ run[s].kind = "delete" /\ run[s].at = "delete" /\ run[s].status = "ok"
      /\ GoesOn(s, "list", run[s].id) /\ astray' = astray
      /\ IF run[s].was = run[s].id THEN active' = None /\ messages' = <<>>
         ELSE active' = active /\ messages' = messages
  BY DEF Deleted, Answered
<1>2. run[s].was \in Convs \cup {None}
  BY <1>1 DEF PageInv, AnswersInv
<1>3. /\ \A r \in Slots : r # s => run'[r] = run[r]
      /\ run'[s].kind = "delete" /\ run'[s].at = "list" /\ run'[s].id = run[s].id
      /\ run'[s].was = run[s].was /\ run'[s].status = "none"
  BY <1>1, GoesOnMoves, OnThePage
<1>4. ASSUME ~astray' PROVE (\A r \in Slots : r # s => Free(r)) /\ While(run[s])' /\ ~Free(s)'
  <2>1. Undisturbed(s)
    BY <1>1, <1>4, OnThePage DEF Free
  <2>2. Matches /\ active = run[s].was
    BY <1>1, <2>1 DEF Undisturbed, While, WhileDelete
  <2>3. Matches'
    BY <1>1, <2>2, OnThePage DEF Matches
  <2>4. active' = IF run[s].was = run[s].id THEN None ELSE run[s].was
    BY <1>1, <2>2
  <2>5. QED
    BY <1>3, <2>1, <2>3, <2>4 DEF Undisturbed, While, WhileDelete, Free
<1>5. /\ messages' \in Seq(Messages) /\ active' \in Convs \cup {None}
      /\ \A i \in DOMAIN messages' : \E j \in DOMAIN messages : messages[j] = messages'[i]
  <2>1. <<>> \in Seq(Messages) /\ DOMAIN <<>> = {}
    OBVIOUS
  <2>2. QED
    BY <1>1, <2>1, OnThePage
<1>6. QED
  BY <1>1, <1>2, <1>3, <1>4, <1>5, OnThePage, StepShows

(* A question in no conversation goes on in the one made for it.           *)
LEMMA AskCreatedShows ==
  ASSUME WriteInv, PageInv, NEW s \in Slots, AssistantGoesOn(s), AskCreated(s)
  PROVE  PageInv'
<1>1. /\ run[s].kind = "ask" /\ run[s].at = "create" /\ run[s].status = "ok"
      /\ active' = run[s].body /\ GoesOn(s, "ask", run[s].body)
      /\ astray' = astray /\ messages' = messages
  BY DEF AskCreated, Answered
<1>2. run[s].body \in Convs
  BY <1>1 DEF PageInv, AnswersInv
<1>3. /\ \A r \in Slots : r # s => run'[r] = run[r]
      /\ run'[s].kind = "ask" /\ run'[s].at = "ask" /\ run'[s].id = run[s].body
      /\ run'[s].ask = run[s].ask /\ run'[s].status = "none"
  BY <1>1, GoesOnMoves, OnThePage
<1>4. ASSUME ~astray' PROVE (\A r \in Slots : r # s => Free(r)) /\ While(run[s])' /\ ~Free(s)'
  <2>1. Undisturbed(s)
    BY <1>1, <1>4, OnThePage DEF Free
  <2>2. Others(run[s].ask) = <<>>
    BY <1>1, <2>1 DEF Undisturbed, While, WhileAsk
  <2>3. Others(run[s].ask)' = <<>>
    <3>1. \A n : Others(n)' = Others(n)
      BY <1>1, OthersAreWithout
    <3>2. QED
      BY <1>3, <2>2, <3>1
  <2>4. PartOf(<<>>, thread'[active'])
    BY <1>1, <1>2, OnThePage
  <2>5. active' # None
    BY <1>1, <1>2, OnThePage
  <2>6. WhileAsk(run[s])'
    BY <1>1, <1>3, <2>3, <2>4, <2>5 DEF WhileAsk
  <2>7. QED
    BY <1>3, <2>1, <2>6 DEF Undisturbed, While, Free
<1>5. QED
  BY <1>1, <1>2, <1>3, <1>4, OnThePage, StepShows

(* A bubble that is left is one of another question. *)
LEMMA BubblesLeft ==
  ASSUME NEW m \in Seq(Messages), NEW n, NEW k \in DOMAIN Without(m, n)
  PROVE  /\ \E j \in DOMAIN m : m[j] = Without(m, n)[k]
         /\ Without(m, n)[k].role = "local" => Without(m, n)[k].ask # n
<1>1. /\ Without(m, n)[k] # Message(n, "local")
      /\ \E j \in DOMAIN m : m[j] = Without(m, n)[k]
  BY WithoutType
<1>2. Without(m, n)[k] \in Messages
  BY WithoutType, LenProperties
<1>3. QED
  BY <1>1, <1>2 DEF Messages, Message

(* The answer takes the place of the bubble, behind what was shown.        *)
LEMMA AskAnsweredShows ==
  ASSUME WriteInv, PageInv, NEW s \in Slots, AssistantGoesOn(s), AskAnswered(s)
  PROVE  PageInv'
<1> DEFINE n == run[s].ask
           left == Without(messages, n)
<1>1. /\ run[s].kind = "ask" /\ run[s].at = "ask" /\ run[s].status = "ok"
      /\ messages' = left \o Apart(n) /\ Others(n) = left
      /\ GoesOn(s, "list", run[s].id)
      /\ astray' = astray /\ active' = active
  BY OthersAreWithout DEF AskAnswered, Answered, Apart
<1>2. n \in Nat
  BY <1>1 DEF WriteInv, AssistantTypeOK, AsksAreLatest
<1>3. /\ \A r \in Slots : r # s => run'[r] = run[r]
      /\ run'[s].kind = "ask" /\ run'[s].at = "list" /\ run'[s].status = "none"
  BY <1>1, GoesOnMoves, OnThePage
<1>4. /\ Apart(n) \in Seq(Messages) /\ Len(Apart(n)) = 2
      /\ \A i \in 1..2 : Apart(n)[i].role # "local"
  BY <1>2 DEF Apart, Message, Messages
<1>5. left \in Seq(Messages)
  BY WithoutType, OnThePage
<1> HIDE DEF left
<1>6. /\ messages' \in Seq(Messages)
      /\ \A i \in DOMAIN messages' :
           messages'[i].role = "local" => i \in DOMAIN left /\ messages'[i] = left[i]
  <2> DEFINE apart == Apart(n)
             longer == left \o apart
  <2>1. /\ DOMAIN left = 1..Len(left) /\ Len(left) \in Nat
        /\ messages' \in Seq(Messages) /\ DOMAIN messages' = 1..(Len(left) + 2)
        /\ \A i \in 1..(Len(left) + 2) : messages'[i] = IF i <= Len(left) THEN left[i] ELSE apart[i - Len(left)]
    <3>1. apart \in Seq(Messages) /\ Len(apart) = 2 /\ messages' = longer
      BY <1>1, <1>4
    <3> HIDE DEF apart
    <3>2. Len(left) \in Nat /\ DOMAIN left = 1..Len(left)
      BY <1>5, LenProperties
    <3>3. /\ longer \in Seq(Messages) /\ Len(longer) = Len(left) + Len(apart)
          /\ \A i \in 1..(Len(left) + Len(apart)) :
               longer[i] = IF i <= Len(left) THEN left[i] ELSE apart[i - Len(left)]
      BY <1>5, <3>1, ConcatProperties
    <3> HIDE DEF longer
    <3>4. DOMAIN longer = 1..(Len(left) + 2)
      BY <3>1, <3>2, <3>3, LenProperties
    <3>5. QED
      BY <3>1, <3>2, <3>3, <3>4
  <2> HIDE DEF apart, longer
  <2>2. ASSUME NEW i \in 1..(Len(left) + 2), messages'[i].role = "local" PROVE i <= Len(left)
    <3> SUFFICES ASSUME i > Len(left) PROVE FALSE
      BY <2>1
    <3>1. i - Len(left) \in 1..2
      BY <2>1
    <3>2. apart[i - Len(left)].role # "local"
      BY <1>4, <3>1 DEF apart
    <3>3. QED
      BY <2>1, <2>2, <3>2
  <2>3. QED
    BY <2>1, <2>2
<1>7. ASSUME NEW i \in DOMAIN messages', messages'[i].role = "local"
      PROVE  /\ \E j \in DOMAIN messages : messages[j] = messages'[i]
             /\ run[s].ask # messages'[i].ask
  BY <1>6, <1>7, OnThePage, BubblesLeft DEF left
<1>8. ASSUME ~astray' PROVE (\A r \in Slots : r # s => Free(r)) /\ While(run[s])' /\ ~Free(s)'
  <2>1. Undisturbed(s)
    BY <1>1, <1>8, OnThePage DEF Free
  <2>2. active # None /\ PartOf(messages', thread[active])
    BY <1>1, <2>1 DEF Undisturbed, While, WhileAsk
  <2>3. Matches'
    BY <1>1, <2>2, OnThePage DEF Matches
  <2>4. QED
    BY <1>3, <2>1, <2>3 DEF Undisturbed, While, WhileAsk, Free
<1>9. QED
  BY <1>1, <1>3, <1>6, <1>7, <1>8, OnThePage, StepShows

(* The list after an answer does not touch the thread.                     *)
LEMMA AskListedShows ==
  ASSUME WriteInv, PageInv, NEW s \in Slots, AssistantGoesOn(s), AskListed(s)
  PROVE  PageInv'
<1>1. /\ run[s].kind = "ask" /\ run[s].at = "list"
      /\ Ends(s) /\ astray' = astray /\ active' = active /\ messages' = messages
  BY DEF AskListed, Answered
<1>2. /\ \A r \in Slots : r # s => run'[r] = run[r]
      /\ run'[s].kind = "none" /\ run'[s].at = "none" /\ run'[s].status = "none"
  BY <1>1, EndsMoves, OnThePage
<1>3. ASSUME ~astray' PROVE (\A r \in Slots : r # s => Free(r)) /\ Matches'
  <2>1. Undisturbed(s)
    BY <1>1, <1>3, OnThePage DEF Free
  <2>2. Matches
    BY <1>1, <2>1 DEF Undisturbed, While, WhileAsk
  <2>3. QED
    BY <1>1, <2>1, <2>2, OnThePage DEF Undisturbed, Matches
<1>4. While(run[s])'
  BY <1>2 DEF While
<1>5. QED
  BY <1>1, <1>2, <1>3, <1>4, OnThePage, StepShows

(* The bubble of a question that fails goes.                               *)
LEMMA AskFailsShows ==
  ASSUME WriteInv, PageInv, NEW s \in Slots, AssistantGoesOn(s), AskFails(s)
  PROVE  PageInv'
<1> DEFINE n == run[s].ask
           left == Without(messages, n)
<1>1. /\ run[s].kind = "ask" /\ run[s].status = "failed"
      /\ messages' = left /\ Others(n) = left
      /\ Ends(s) /\ astray' = astray /\ active' = active
  BY OthersAreWithout DEF AskFails, Failed
<1>2. n \in Nat
  BY <1>1 DEF WriteInv, AssistantTypeOK, AsksAreLatest
<1>3. /\ \A r \in Slots : r # s => run'[r] = run[r]
      /\ run'[s].kind = "none" /\ run'[s].at = "none" /\ run'[s].status = "none"
  BY <1>1, EndsMoves, OnThePage
<1>4. messages' \in Seq(Messages)
  BY <1>1, WithoutType, OnThePage
<1>5. ASSUME NEW i \in DOMAIN messages', messages'[i].role = "local"
      PROVE  /\ \E j \in DOMAIN messages : messages[j] = messages'[i]
             /\ run[s].ask # messages'[i].ask
  BY <1>1, <1>5, OnThePage, BubblesLeft
<1>6. ASSUME ~astray' PROVE (\A r \in Slots : r # s => Free(r)) /\ Matches'
  <2>1. Undisturbed(s) /\ WhileAsk(run[s])
    BY <1>1, <1>6, OnThePage DEF Free, Undisturbed, While
  <2>2. CASE run[s].at = "create"
    BY <1>1, <2>1, <2>2 DEF WhileAsk, Matches, Undisturbed
  <2>3. CASE run[s].at = "ask"
    BY <1>1, <2>1, <2>3, OnThePage DEF WhileAsk, Matches, Undisturbed
  <2>4. CASE run[s].at = "list"
    <3>1. Matches
      BY <2>1, <2>4 DEF WhileAsk
    <3>2. messages \in Seq(Stored)
      <4>1. <<>> \in Seq(Stored)
        OBVIOUS
      <4>2. QED
        BY <3>1, <4>1, OnThePage, PartsOf DEF Matches
    <3>3. messages' = messages
      BY <1>1, <1>2, <3>2, WithoutNothing
    <3>4. QED
      BY <1>1, <2>1, <3>1, <3>3, OnThePage DEF Undisturbed, Matches
  <2>5. QED
    BY <2>1, <2>2, <2>3, <2>4 DEF WhileAsk
<1>7. While(run[s])'
  BY <1>3 DEF While
<1>8. QED
  BY <1>1, <1>3, <1>4, <1>5, <1>6, <1>7, OnThePage, StepShows

(* Other failures leave the thread, or mark that touch was lost.           *)
LEMMA OtherFailsShows ==
  ASSUME WriteInv, PageInv, NEW s \in Slots, AssistantGoesOn(s), OtherFails(s)
  PROVE  PageInv'
<1>1. /\ run[s].kind \in {"boot", "select", "create", "delete"}
      /\ Ends(s) /\ active' = active /\ messages' = messages
      /\ astray' = (astray \/ (run[s].kind \in {"select", "create"} /\ run[s].at = "thread"))
  BY DEF OtherFails, Failed
<1>2. /\ \A r \in Slots : r # s => run'[r] = run[r]
      /\ run'[s].kind = "none" /\ run'[s].at = "none" /\ run'[s].status = "none"
  BY <1>1, EndsMoves, OnThePage
<1>3. ASSUME ~astray' PROVE (\A r \in Slots : r # s => Free(r)) /\ Matches'
  <2>1. Undisturbed(s)
    BY <1>1, <1>3, OnThePage DEF Free
  <2>2. Matches
    <3>1. CASE run[s].kind = "boot"
      BY <2>1, <3>1, OnThePage DEF Undisturbed, While, WhileBoot, Matches
    <3>2. CASE run[s].kind = "select"
      BY <1>1, <1>3, <2>1, <3>2 DEF Undisturbed, While, WhileSelect
    <3>3. CASE run[s].kind = "create"
      BY <1>1, <1>3, <2>1, <3>3 DEF Undisturbed, While, WhileCreate
    <3>4. CASE run[s].kind = "delete"
      BY <2>1, <3>4 DEF Undisturbed, While, WhileDelete
    <3>5. QED
      BY <1>1, <3>1, <3>2, <3>3, <3>4
  <2>3. QED
    BY <1>1, <2>1, <2>2, OnThePage DEF Undisturbed, Matches
<1>4. While(run[s])'
  BY <1>2 DEF While
<1>5. QED
  BY <1>1, <1>2, <1>3, <1>4, OnThePage, StepShows

(* Every step of a function keeps PageInv.                                 *)
LEMMA FunctionsShow ==
  ASSUME WriteInv, PageInv, NEW s \in Slots, AssistantGoesOn(s)
  PROVE  PageInv'
BY ListedShows, ThreadShownShows, CreatedShows, DeletedShows, AskCreatedShows, AskAnsweredShows,
   AskListedShows, AskFailsShows, OtherFailsShows DEF AssistantGoesOn

-----------------------------------------------------------------------------
(* What the user does. *)
LEMMA ClickShows ==
  ASSUME WriteInv, PageInv, NEW s \in Slots, NEW W, NEW f \in Functions(W), Starts(s, f),
         f.kind # "none", f.status = "none",
         f.kind = "create" => f.at # "list",
         f.kind = "delete" => f.was \in Convs \cup {None},
         active' \in Convs \cup {None}, messages' \in Seq(Messages),
         \A i \in DOMAIN messages' : messages'[i].role = "local" =>
           \/ f.kind = "ask" /\ f.at # "list" /\ f.ask = messages'[i].ask
           \/ \E j \in DOMAIN messages : messages[j] = messages'[i],
         ~astray' /\ Matches /\ run'[s] = f => While(run[s])'
  PROVE  PageInv'
<1>1. /\ RunShape /\ page = "assistant" /\ page' = page /\ thread' = thread
      /\ Begins(s, f) /\ astray' = (astray \/ ~Alone(s))
  BY DEF WriteInv, AssistantTypeOK, Starts
<1>2. /\ \A r \in Slots : r # s => run'[r] = run[r]
      /\ run'[s] = f /\ run[s].kind = "none"
  BY <1>1, BeginsMoves
<1>3. ASSUME ~astray' PROVE (\A r \in Slots : r # s => Free(r)) /\ While(run[s])' /\ ~Free(s)'
  <2>1. ~astray /\ \A r \in Slots : r # s => Free(r)
    BY <1>1, <1>3, AloneIsOnly
  <2>2. \A r \in Slots : Free(r)
    BY <1>2, <2>1 DEF Free
  <2>3. Matches
    BY <1>1, <2>1, <2>2 DEF PageInv, ThreadInv
  <2>4. QED
    BY <1>2, <1>3, <2>1, <2>3 DEF Free
<1>4. QED
  BY <1>1, <1>2, <1>3, StepShows

(* Every click keeps PageInv, or marks that functions overlap.             *)
LEMMA ClicksShow ==
  ASSUME WriteInv, SessionInv, PageInv, NEW s \in Slots, AssistantUser(s)
  PROVE  PageInv'
<1> DEFINE Values == {"none", None, 0}
<1>0. /\ RunShape /\ active \in Convs \cup {None} /\ messages \in Seq(Messages)
      /\ page # "assistant" => active = None /\ messages = <<>>
      /\ thread \in [Convs -> Seq(Stored)] /\ live \subseteq Convs
      /\ None \notin Convs
  BY ConvsAssumption DEF WriteInv, AssistantTypeOK, PageInv, AnswersInv
<1>1. CASE OpenAssistant(s)
  <2> DEFINE f == [Idle EXCEPT !.kind = "boot", !.at = "list"]
  <2>1. /\ f \in Functions(Values \cup {"boot", "list"})
        /\ f.kind = "boot" /\ f.at = "list" /\ f.status = "none"
    BY DEF Idle, Functions
  <2>2. /\ Begins(s, f) /\ page = "other" /\ page' = "assistant" /\ astray' = astray
        /\ active' = active /\ messages' = messages
    BY <1>1 DEF OpenAssistant, OpenPage, assistantVars
  <2>3. /\ active = None /\ messages = <<>> /\ \A r \in Slots : Free(r)
    BY <1>0, <2>2 DEF SessionInv
  <2> HIDE DEF f
  <2>4. /\ \A r \in Slots : r # s => run'[r] = run[r]
        /\ run'[s] = f
    BY <1>0, <2>1, <2>2, BeginsMoves
  <2>5. \A r \in Slots : run'[r].kind \in {"none", "boot"} /\ (r # s => Free(r)')
    BY <2>1, <2>3, <2>4 DEF Free
  <2>6. AnswersInv'
    <3>1. /\ active' \in Convs \cup {None} /\ messages' \in Seq(Messages)
          /\ page' = "assistant"
      BY <1>0, <2>2
    <3>2. \A r \in Slots : run'[r].kind = "none" \/ r = s
      BY <2>5 DEF Free
    <3>3. ASSUME NEW r \in Slots
          PROVE  /\ run'[r].kind # "create" /\ run'[r].kind # "delete"
                 /\ run'[r].status = "ok" => run'[r].at \notin {"thread", "list", "create"}
                 /\ run'[r].kind = "none" => run'[r].at = "none"
      <4>1. CASE r = s
        BY <2>1, <2>4, <4>1
      <4>2. CASE r # s
        <5>1. run'[r] = run[r] /\ run[r].kind = "none" /\ run[r].at = "none"
          BY <2>3, <2>4, <4>2 DEF PageInv, AnswersInv, Free
        <5>2. QED
          BY <5>1
      <4>3. QED
        BY <4>1, <4>2
    <3>4. QED
      BY <3>1, <3>3 DEF AnswersInv
  <2>7. BubbleInv'
    BY <2>2, <2>3 DEF BubbleInv
  <2>8. ThreadInv'
    <3>1. \A r \in Slots : While(run[r])'
      <4>1. ASSUME NEW r \in Slots, r # s PROVE While(run[r])'
        BY <2>5, <4>1 DEF Free, While
      <4>2. While(run[s])'
        BY <2>1, <2>2, <2>3, <2>4 DEF While, WhileBoot
      <4>3. QED
        BY <4>1, <4>2
    <3>2. ~Free(s)'
      BY <2>1, <2>4 DEF Free
    <3>3. QED
      BY <2>5, <3>1, <3>2 DEF ThreadInv
  <2>9. QED
    BY <2>6, <2>7, <2>8 DEF PageInv
<1>2. ASSUME NEW c \in Convs, Select(s, c) PROVE PageInv'
  <2> DEFINE f == [Idle EXCEPT !.kind = "select", !.at = "thread", !.id = c]
  <2>1. /\ f \in Functions(Values \cup {"select", "thread", c})
        /\ f.kind = "select" /\ f.at = "thread" /\ f.id = c /\ f.status = "none"
    BY DEF Idle, Functions
  <2>2. Starts(s, f) /\ active' = c /\ messages' = messages
    BY <1>2 DEF Select
  <2> HIDE DEF f
  <2>3. run'[s] = f => While(run[s])'
    BY <2>1, <2>2 DEF While, WhileSelect
  <2>4. QED
    BY <1>0, <2>1, <2>2, <2>3, ClickShows
<1>3. ASSUME NEW c \in Convs, Delete(s, c) PROVE PageInv'
  <2> DEFINE f == [Idle EXCEPT !.kind = "delete", !.at = "delete", !.id = c, !.was = active]
  <2>1. /\ f \in Functions(Values \cup {"delete", c, active})
        /\ f.kind = "delete" /\ f.at = "delete" /\ f.was = active /\ f.status = "none"
    BY DEF Idle, Functions
  <2>2. Starts(s, f) /\ active' = active /\ messages' = messages /\ thread' = thread
    BY <1>3 DEF Delete, Starts
  <2> HIDE DEF f
  <2>3. Matches => Matches'
    BY <2>2 DEF Matches
  <2>4. Matches /\ run'[s] = f => While(run[s])'
    BY <2>1, <2>2, <2>3 DEF While, WhileDelete
  <2>5. QED
    BY <1>0, <2>1, <2>2, <2>4, ClickShows
<1>4. CASE Create(s)
  <2> DEFINE f == [Idle EXCEPT !.kind = "create", !.at = "create"]
  <2>1. /\ f \in Functions(Values \cup {"create"})
        /\ f.kind = "create" /\ f.at = "create" /\ f.status = "none"
    BY DEF Idle, Functions
  <2>2. Starts(s, f) /\ active' = active /\ messages' = messages /\ thread' = thread
    BY <1>4 DEF Create, Starts
  <2> HIDE DEF f
  <2>3. Matches => Matches'
    BY <2>2 DEF Matches
  <2>4. Matches /\ run'[s] = f => While(run[s])'
    BY <2>1, <2>3 DEF While, WhileCreate
  <2>5. QED
    BY <1>0, <2>1, <2>2, <2>4, ClickShows
<1>5. ASSUME NEW n \in 1..MaxAsks, Submit(s, n) PROVE PageInv'
  <2> DEFINE first == IF active = None THEN "create" ELSE "ask"
             f == [Idle EXCEPT !.kind = "ask", !.at = first, !.id = active, !.ask = n]
             bubble == Message(n, "local")
  <2>1. /\ f \in Functions(Values \cup {"ask", first, active, n})
        /\ f.kind = "ask" /\ f.at = first /\ f.id = active /\ f.ask = n /\ f.status = "none"
        /\ first \in {"create", "ask"} /\ (first = "create" <=> active = None)
    BY DEF Idle, Functions
  <2>2. /\ Starts(s, f) /\ active' = active /\ messages' = Append(messages, bubble)
        /\ thread' = thread
    BY <1>5 DEF Submit, Starts
  <2>3. n \in Nat /\ bubble \in Messages /\ bubble.ask = n
    BY DEF Message, Messages
  <2> HIDE DEF f, first, bubble
  <2>4. /\ messages' \in Seq(Messages)
        /\ \A i \in DOMAIN messages' :
             messages'[i] = bubble \/ \E j \in DOMAIN messages : messages[j] = messages'[i]
    BY <1>0, <2>2, <2>3, AppendProperties
  <2>5. ASSUME Matches, run'[s] = f PROVE While(run[s])'
    <3>1. messages \in Seq(Stored)
      <4>1. <<>> \in Seq(Stored)
        OBVIOUS
      <4>2. QED
        BY <1>0, <2>5, <4>1, PartsOf DEF Matches
    <3>2. Others(n)' = messages
      BY <2>2, <2>3, <3>1, OthersAreWithout, WithoutNothing DEF bubble
    <3>3. CASE active = None
      <4>1. messages = <<>>
        BY <2>5, <3>3 DEF Matches
      <4>2. WhileAsk(run[s])'
        BY <2>1, <2>2, <2>5, <3>2, <3>3, <4>1 DEF WhileAsk
      <4>3. QED
        BY <2>1, <2>5, <4>2 DEF While
    <3>4. CASE active # None
      <4>1. PartOf(messages, thread[active])
        BY <2>5, <3>4 DEF Matches
      <4>2. WhileAsk(run[s])'
        BY <2>1, <2>2, <2>5, <3>2, <3>4, <4>1 DEF WhileAsk
      <4>3. QED
        BY <2>1, <2>5, <4>2 DEF While
    <3>5. QED
      BY <3>3, <3>4
  <2>6. f.at # "list"
    BY <2>1
  <2>7. \A i \in DOMAIN messages' : messages'[i].role = "local" =>
           \/ f.kind = "ask" /\ f.at # "list" /\ f.ask = messages'[i].ask
           \/ \E j \in DOMAIN messages : messages[j] = messages'[i]
    BY <2>1, <2>3, <2>4, <2>6
  <2>8. QED
    BY <1>0, <2>1, <2>2, <2>4, <2>5, <2>7, ClickShows
<1>6. QED
  BY <1>1, <1>2, <1>3, <1>4, <1>5 DEF AssistantUser

(* The other page runs functions of its own and shows no messages. *)
LEMMA DocumentRuns ==
  ASSUME WriteInv, PageInv, page' # "assistant", page # "assistant", UNCHANGED pageVars,
         NEW s \in Slots,
         \A r \in Slots : r # s => run'[r] = run[r],
         run'[s].at \notin {"thread", "list", "create"}, run'[s].kind # "delete",
         run'[s].kind = "none" => run'[s].at = "none"
  PROVE  PageInv'
<1>1. /\ AnswersInv /\ active' = None /\ messages' = <<>> /\ thread' = thread
  BY DEF PageInv, AnswersInv, pageVars, convVars, assistantVars
<1>2. \A r \in Slots :
        \/ /\ run'[r].at \notin {"thread", "list", "create"} /\ run'[r].kind # "delete"
           /\ run'[r].kind = "none" => run'[r].at = "none"
        \/ AnswersInv /\ thread' = thread /\ run'[r] = run[r]
  BY <1>1
<1>3. QED
  BY <1>1, <1>2, AwayKeeps

(* The answers to the document page keep PageInv,                          *)
LEMMA DocumentAnswersShow ==
  ASSUME WriteInv, PageInv, NEW s \in Slots, Answer(s), page # "assistant"
  PROVE  PageInv'
<1>1. /\ ~ServeAssistant(s)
      /\ UNCHANGED <<active, messages, thread>>
      /\ Fails(s) \/ ServeDocument(s)
  BY DEF Answer, ServeAssistant, pageVars, convVars, assistantVars
<1>2. UNCHANGED <<page, astray>>
  BY <1>1 DEF Fails, ServeDocument
<1>3. CASE Fails(s)
  <2>1. Reply(s, "failed", None) /\ run[s].status = "none"
    BY <1>3 DEF Fails, Waiting
  <2>2. \A c \in Convs : \A m : PartOf(m, thread[c]) => PartOf(m, thread'[c])
    BY <1>1
  <2>3. QED
    BY <1>1, <1>2, <2>1, <2>2, ReplyShows
<1>4. CASE ServeDocument(s)
  <2>1. /\ run[s].at \in {"document", "reprocess", "remove", "jobs"}
        /\ run[s].status = "none"
        /\ \E status, body : status \in {"ok", "failed"} /\ Reply(s, status, body)
    BY <1>4 DEF ServeDocument, ServeLoad, ServeReprocess, ServeRemove, ServeJobs, Asks, Done
  <2>2. PICK status, body : status \in {"ok", "failed"} /\ Reply(s, status, body)
    BY <2>1
  <2>3. \A c \in Convs : \A m : PartOf(m, thread[c]) => PartOf(m, thread'[c])
    BY <1>1
  <2>4. QED
    BY <1>1, <1>2, <2>1, <2>2, <2>3, ReplyShows
<1>5. QED
  BY <1>1, <1>3, <1>4

(* the steps of its functions do,                                          *)
LEMMA DocumentShows ==
  ASSUME WriteInv, PageInv, NEW s \in Slots, DocumentGoesOn(s), UNCHANGED pageVars
  PROVE  PageInv'
<1>1. page = "document" /\ RunShape
  BY DEF DocumentGoesOn, WriteInv, AssistantTypeOK
<1>2. CASE Loaded(s) \/ JobsLoaded(s) \/ DocumentFails(s)
  <2>1. Ends(s) /\ page' = page
    BY <1>2 DEF Loaded, JobsLoaded, DocumentFails
  <2>2. /\ \A r \in Slots : r # s => run'[r] = run[r]
        /\ run'[s].kind = "none" /\ run'[s].at = "none"
    BY <1>1, <2>1, EndsMoves
  <2>3. QED
    BY <1>1, <2>1, <2>2, DocumentRuns
<1>3. CASE Reprocessed(s)
  <2>1. GoesOn(s, "jobs", None) /\ page' = page /\ run[s].kind = "reprocess"
    BY <1>3 DEF Reprocessed, Answered
  <2>2. /\ \A r \in Slots : r # s => run'[r] = run[r]
        /\ run'[s].kind = "reprocess" /\ run'[s].at = "jobs"
    BY <1>1, <2>1, GoesOnMoves
  <2>3. QED
    BY <1>1, <2>1, <2>2, DocumentRuns
<1>4. CASE Removed(s)
  <2>1. page' = "other" /\ \A r \in Slots : run'[r] = Idle
    BY <1>4 DEF Removed, Unmount
  <2>2. active' = None /\ messages' = <<>>
    BY <1>1 DEF PageInv, AnswersInv, pageVars, assistantVars
  <2>3. \A r \in Slots : run'[r].at = "none" /\ run'[r].kind = "none"
    BY <2>1 DEF Idle
  <2>4. QED
    BY <2>1, <2>2, <2>3, AwayKeeps
<1>5. QED
  BY <1>2, <1>3, <1>4 DEF DocumentGoesOn

(* and its clicks and polls.                                               *)
LEMMA DocumentClicksShow ==
  ASSUME WriteInv, PageInv, NEW s \in Slots, (DocumentUser(s) \/ Poll(s)), UNCHANGED pageVars
  PROVE  PageInv'
<1>1. RunShape
  BY DEF WriteInv, AssistantTypeOK
<1>2. ASSUME NEW kind \in {"load", "reprocess", "remove"}, NEW at \in {"document", "reprocess", "remove"},
             Begins(s, [Idle EXCEPT !.kind = kind, !.at = at]),
             page \in {"other", "document"}, page' = "document"
      PROVE  PageInv'
  <2> DEFINE f == [Idle EXCEPT !.kind = kind, !.at = at]
  <2>1. f \in Functions({"none", None, 0, kind, at}) /\ f.kind = kind /\ f.at = at
    BY DEF Idle, Functions
  <2> HIDE DEF f
  <2>2. Begins(s, f)
    BY <1>2 DEF f
  <2>3. /\ \A r \in Slots : r # s => run'[r] = run[r]
        /\ run'[s] = f
    BY <1>1, <2>1, <2>2, BeginsMoves
  <2>4. QED
    BY <1>2, <2>1, <2>3, DocumentRuns
<1>3. CASE OpenDocument(s)
  BY <1>2, <1>3 DEF OpenDocument, OpenPage
<1>4. CASE Poll(s) \/ Retry(s) \/ Reprocess(s) \/ DeleteDocument(s)
  BY <1>2, <1>4 DEF Poll, Retry, Reprocess, DeleteDocument, StartsHere
<1>5. QED
  BY <1>3, <1>4 DEF DocumentUser

(* One step per action. *)
LEMMA PageInvStep == PageInv /\ WriteInv /\ SessionInv /\ [Next]_vars => PageInv'
<1> SUFFICES ASSUME PageInv, WriteInv, SessionInv, [Next]_vars PROVE PageInv'
  OBVIOUS
<1>1. CASE Session
  <2>1. CASE (Reload \/ Logout) /\ LeavesPages
    BY <2>1, LeavingEmpties DEF Reload, Logout, LeavesPages
  <2>2. CASE /\ RefreshReturns \/ LoginReturns \/ (\E u \in Users : SubmitLogin(u))
                \/ \E t \in valid : Expire(t)
             /\ UNCHANGED pageVars
    BY <2>2, UntouchedShows
       DEF RefreshReturns, LoginReturns, SubmitLogin, Expire, pageVars, convVars, assistantVars
  <2>3. QED
    BY <1>1, <2>1, <2>2 DEF Session
<1>2. CASE Navigate
  BY <1>2, LeavingEmpties DEF Navigate, LeavesPages
<1>3. ASSUME NEW s \in Slots, Answer(s) PROVE PageInv'
  BY <1>3, AnswersShow, DocumentAnswersShow
<1>4. ASSUME NEW s \in Slots, GoOn(s) PROVE PageInv'
  BY <1>4, FunctionsShow, DocumentShows, LeavingEmpties DEF GoOn, SessionLost, LeavesPages
<1>5. ASSUME NEW s \in Slots, AssistantUser(s) PROVE PageInv'
  BY <1>5, ClicksShow
<1>6. ASSUME NEW s \in Slots, DocumentUser(s) \/ (Poll(s) /\ UNCHANGED pageVars) PROVE PageInv'
  BY <1>6, DocumentClicksShow DEF DocumentUser
<1>7. CASE (Work /\ UNCHANGED pageVars) \/ UNCHANGED vars
  BY <1>7, UntouchedShows DEF Work, vars, tabVars, pageVars, convVars, assistantVars
<1>8. QED
  BY <1>1, <1>2, <1>3, <1>4, <1>5, <1>6, <1>7 DEF Next

(* PageInv always holds.                                                   *)
LEMMA PageInvHolds == Spec => []PageInv
BY PageInvInit, PageInvStep, WriteInvHolds, SessionInvHolds, PTL DEF Spec

(* The bubble of a question goes with its request: whatever is loaded into *)
(* the thread meanwhile, submitQuestion takes its own bubble away in the   *)
(* end, on success and on failure.                                         *)
THEOREM BubblesGoWithRequests == Spec => []BubblesGo
<1>1. PageInv => BubblesGo
  BY DEF PageInv, BubbleInv, BubblesGo
<1>2. QED
  BY <1>1, PageInvHolds, PTL

(* AssistantPage at rest shows the thread of the conversation it calls     *)
(* active, with none of another conversation's messages and nothing that   *)
(* was never sent, for any number of conversations, questions, lost        *)
(* answers and functions, unless the user has let functions overlap or a   *)
(* thread could not be loaded.                                             *)
THEOREM ThreadsAreOfTheActive == Spec => []ThreadOfActive
<1>1. PageInv => ThreadOfActive
  BY DEF PageInv, ThreadInv, ThreadOfActive, Matches
<1>2. QED
  BY <1>1, PageInvHolds, PTL
=============================================================================
