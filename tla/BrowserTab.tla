----------------------------- MODULE BrowserTab -----------------------------
(***************************************************************************)
(* A tab of the browser with the web client: the session that AuthProvider *)
(* keeps, the token in localStorage that every request carries, and the    *)
(* asynchronous functions of the page that is mounted, each of them at one *)
(* of its requests.  Requests are served and answered in any order.        *)
(***************************************************************************)
EXTENDS Integers, Sequences, FiniteSets

CONSTANTS
  Users,
  None,
  MaxLogins,  \* bound on the tokens the server issues
  MaxRuns,    \* bound on the functions of a page that run at a time
  MaxTrouble  \* bound on requests that fail for no reason of the model

ASSUME TabAssumption == {MaxLogins, MaxRuns, MaxTrouble} \subseteq Nat
ASSUME UsersAssumption == Users # {} /\ None \notin Users

VARIABLES
  owner,    \* the server's: whose each token is; tokens are numbered
  valid,    \* ... and those in use that have not expired
  stored,   \* the token in localStorage, or 0
  user,     \* the user the tab shows, or None
  token,    \* token of AuthProvider
  loading,  \* loading of AuthProvider
  me,       \* the token refresh() asks about, or 0
  login,    \* who is logging in or registering, or None
  page,     \* the page that is mounted; "other" for those without a model
  run,      \* the functions of the page that run
  trouble,  \* how often a request has failed
  hasty,    \* history: a login was submitted while refresh() was running
  astray    \* history: the page has lost touch with what the server has

serverVars == <<owner, valid>>
sessionVars == <<stored, user, token, loading, me, login, hasty>>
tabVars == <<serverVars, sessionVars, page, run, trouble, astray>>

Slots == 1..MaxRuns

Reader == CHOOSE u \in Users : TRUE

Pages == {"other", "assistant", "document"}

(* A function: which, at which request, with what it has in its variables, *)
(* and what came of the request.                                           *)
Idle == [kind |-> "none", at |-> "none", id |-> None, was |-> None, ask |-> 0,
         status |-> "none", body |-> None]

TabInit ==
  /\ owner = <<>>
  /\ valid = {}
  /\ stored = 0
  /\ user = None
  /\ token = 0
  /\ loading = FALSE
  /\ me = 0
  /\ login = None
  /\ page = "other"
  /\ run = [s \in Slots |-> Idle]
  /\ trouble = 0
  /\ hasty = FALSE
  /\ astray = FALSE

-----------------------------------------------------------------------------
(* The functions of a page.                                                *)

Free(s) == run[s].kind = "none"
Alone(s) == \A r \in Slots \ {s} : Free(r)
Waiting(s) == ~Free(s) /\ run[s].status = "none"
Asks(s, at) == run[s].at = at /\ run[s].status = "none"
Answered(s, kind, at) == run[s].kind = kind /\ run[s].at = at /\ run[s].status = "ok"
Failed(s, kind) == run[s].kind = kind /\ run[s].status = "failed"

Begins(s, function) ==
  /\ Free(s) /\ \A r \in 1..(s - 1) : ~Free(r)
  /\ run' = [run EXCEPT ![s] = function]

(* The next request of the function. *)
GoesOn(s, at, id) ==
  run' = [run EXCEPT ![s] = [@ EXCEPT !.at = at, !.id = id, !.status = "none", !.body = None]]

Ends(s) == run' = [run EXCEPT ![s] = Idle]

Reply(s, status, body) ==
  run' = [run EXCEPT ![s] = [@ EXCEPT !.status = status, !.body = body]]

(* The server has done what it was asked for; the answer may get lost.     *)
Done(s, body) ==
  \/ Reply(s, "ok", body) /\ UNCHANGED trouble
  \/ /\ trouble < MaxTrouble
     /\ trouble' = trouble + 1
     /\ Reply(s, "failed", None)

(* It has not: the network, a limit, an error of the server. *)
Fails(s) ==
  /\ Waiting(s)
  /\ trouble < MaxTrouble
  /\ trouble' = trouble + 1
  /\ Reply(s, "failed", None)
  /\ UNCHANGED <<serverVars, sessionVars, page, astray>>

-----------------------------------------------------------------------------
(* The session.                                                            *)

(* Nobody is told that the token is gone. *)
ClearSessionFaulty == stored' = 0 /\ UNCHANGED <<user, token, loading>>

(* clearSession, and what AuthProvider does on its event. *)
ClearSession ==
  /\ stored' = 0
  /\ user' = None
  /\ token' = 0
  /\ loading' = FALSE

(* Without a user no page is left mounted: ProtectedRoute.  Its functions  *)
(* run on, but what they set is seen no more.                              *)
Unmount ==
  /\ page' = "other"
  /\ run' = [s \in Slots |-> Idle]
  /\ astray' = FALSE

(* The tab is opened or reloaded: AuthProvider mounts, and its effect      *)
(* calls refresh() with the token that is stored.                          *)
Reload ==
  /\ user' = None
  /\ token' = stored
  /\ loading' = (stored # 0)
  /\ me' = stored
  /\ login' = None
  /\ hasty' = FALSE
  /\ Unmount
  /\ UNCHANGED <<serverVars, stored, trouble>>

(* The token is read again after the answer. *)
RefreshReturnsFaulty ==
  /\ me # 0
  /\ \/ me \in valid /\ user' = owner[me] /\ token' = stored /\ UNCHANGED stored /\ loading' = FALSE
     \/ me \notin valid /\ ClearSession
     \/ UNCHANGED <<stored, user, token>> /\ loading' = FALSE
  /\ me' = 0
  /\ UNCHANGED <<serverVars, login, hasty, page, run, trouble, astray>>

(* There is no finally: an error that is no 401 leaves the tab loading. *)
RefreshHangsFaulty ==
  /\ me # 0
  /\ \/ me \in valid /\ user' = owner[me] /\ token' = me /\ UNCHANGED stored /\ loading' = FALSE
     \/ me \notin valid /\ ClearSession
     \/ UNCHANGED <<stored, user, token, loading>>
  /\ me' = 0
  /\ UNCHANGED <<serverVars, login, hasty, page, run, trouble, astray>>

(* /auth/me answers with the user, with 401, or with another error. *)
RefreshReturns ==
  /\ me # 0
  /\ \/ me \in valid /\ user' = owner[me] /\ token' = me /\ UNCHANGED stored /\ loading' = FALSE
     \/ me \notin valid /\ ClearSession
     \/ UNCHANGED <<stored, user, token>> /\ loading' = FALSE
  /\ me' = 0
  /\ UNCHANGED <<serverVars, login, hasty, page, run, trouble, astray>>

(* The forms of LoginPage and RegisterPage are there whenever no user is   *)
(* shown or the session is still loading.                                  *)
SubmitLogin(u) ==
  /\ user = None \/ loading
  /\ login = None
  /\ login' = u
  /\ hasty' = (hasty \/ me # 0)
  /\ UNCHANGED <<serverVars, stored, user, token, loading, me, page, run, trouble, astray>>

LoginReturns ==
  /\ login # None
  /\ login' = None
  /\ \/ /\ Len(owner) < MaxLogins
        /\ owner' = Append(owner, login)
        /\ valid' = (valid \cap {me}) \cup {Len(owner')}
        /\ stored' = Len(owner')
        /\ token' = Len(owner')
        /\ user' = login
     \/ UNCHANGED <<owner, valid, stored, token, user>>
  /\ UNCHANGED <<loading, me, hasty, page, run, trouble, astray>>

(* The button of AppHeader; or a function of a page that was left is       *)
(* answered 401, and the session that the tab has by then ends with it.    *)
(* Without a user nothing is stored until a reload, and that 401 changes   *)
(* nothing.                                                                *)
Logout ==
  /\ user # None
  /\ ClearSession
  /\ Unmount
  /\ UNCHANGED <<serverVars, me, login, hasty, trouble>>

(* A request of the page is answered 401: the token has expired. *)
SessionLost(s) ==
  /\ Waiting(s)
  /\ valid' = valid \ {stored}
  /\ ClearSession
  /\ Unmount
  /\ UNCHANGED <<owner, me, login, hasty, trouble>>

(* While a page is mounted SessionLost is the step that shows it. *)
Expire(t) ==
  /\ page = "other"
  /\ t \in valid
  /\ valid' = valid \ {t}
  /\ UNCHANGED <<owner, sessionVars, page, run, trouble, astray>>

-----------------------------------------------------------------------------
(* A page is opened.  The tokens that are no longer in use are forgotten.  *)
(* What a page does while the tab shows one user and its requests act for  *)
(* another is not modelled.  Users are alike: the pages are opened by one. *)
OpenPage(p) ==
  /\ page = "other" /\ user = Reader /\ ~loading
  /\ login = None /\ me = 0 /\ ~hasty
  /\ page' = p
  /\ owner' = <<user>>
  /\ valid' = {1}
  /\ stored' = 1
  /\ token' = 1
  /\ UNCHANGED <<user, loading, me, login, hasty>>

(* The user a tab shows is the one its token was issued to, whatever the   *)
(* order in which /auth/me and a login are answered.                       *)
TabPairsUp == user # None => token # 0 /\ owner[token] = user

(* The tab shows a user only while the token that its requests carry is    *)
(* that user's, and a session that has ended nowhere comes back, unless    *)
(* somebody logs in before the stored session was restored.                *)
ShownIsStored == user # None /\ ~hasty => stored = token

(* The tab does not show "Loading session" for ever. *)
LoadingEnds == loading ~> ~loading
=============================================================================
