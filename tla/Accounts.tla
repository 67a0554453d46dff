----------------------------- MODULE Accounts -----------------------------
(***************************************************************************)
(* AuthService, the dependencies that admit a request, and the audit rows  *)
(* both write.  Calls run on threads of their own; each is cut at its      *)
(* reads and commits.  The script create_admin.sh uses the repository,     *)
(* too, and an operator changes rows of users with SQL.                    *)
(***************************************************************************)
EXTENDS Clock, FiniteSets

CONSTANTS
  Emails,    \* normalised addresses
  Calls,     \* calls of the API and of the script; bounds all of them
  None,      \* "no value"
  TokenLife  \* access_token_expire_minutes, in ticks

ASSUME TokenLifeAssumption == TokenLife \in Nat

VARIABLES
  account, \* the row of users of each address, or None
  pc,      \* where each call is
  kind,    \* register, login, create_admin, or a request of an admin route
  email,   \* the address a call is about
  answer,  \* the status a call was answered with
  issued,  \* the token a call has issued and not yet sent
  tokens,  \* the access tokens clients hold
  audit    \* the rows of audit_logs

callVars == <<pc, kind, email, answer, issued>>
accountVars == <<account, callVars, tokens, audit>>

Kinds == {"register", "login", "create_admin", "admin_request"}

(* Whoever registers knows the password it chose: the password of an       *)
(* account is the call that created it.                                    *)
Rows == [password : Calls, role : {"employee", "admin"}, is_active : BOOLEAN]

ASSUME NoneAssumption == None \notin Calls \cup Emails \cup Kinds /\ None \notin Rows

Tokens == [sub : Emails, role : {"employee", "admin"}, exp : 0..(MaxTime + TokenLife)]

AuditRows == [by : Calls, action : {"auth.register", "auth.login", "auth.access_denied"},
              success : BOOLEAN]

(* 500 also stands for a script that ends with an exception, 0 for a call  *)
(* without an answer.                                                      *)
Answers == {0, 200, 201, 401, 403, 409, 500}

AccountsTypeOK ==
  /\ account \in [Emails -> Rows \cup {None}]
  /\ pc \in [Calls -> {"idle", "inserting", "succeeded", "refused", "acting", "over"}]
  /\ kind \in [Calls -> Kinds \cup {None}]
  /\ email \in [Calls -> Emails \cup {None}]
  /\ answer \in [Calls -> Answers]
  /\ issued \in [Calls -> Tokens \cup {None}]
  /\ tokens \subseteq Tokens
  /\ audit \subseteq AuditRows
  /\ now \in 0..MaxTime

AccountsInit ==
  /\ account = [e \in Emails |-> None]
  /\ pc = [c \in Calls |-> "idle"]
  /\ kind = [c \in Calls |-> None]
  /\ email = [c \in Calls |-> None]
  /\ answer = [c \in Calls |-> 0]
  /\ issued = [c \in Calls |-> None]
  /\ tokens = {}
  /\ audit = {}
  /\ now = 0

Start(c, k, e) ==
  /\ pc[c] = "idle"
  /\ kind' = [kind EXCEPT ![c] = k]
  /\ email' = [email EXCEPT ![c] = e]

Continue(c, place) ==
  /\ pc' = [pc EXCEPT ![c] = place]
  /\ UNCHANGED answer

Answer(c, status) ==
  /\ pc' = [pc EXCEPT ![c] = "over"]
  /\ answer' = [answer EXCEPT ![c] = status]

Issue(c, e, role) ==
  issued' = [issued EXCEPT ![c] = [sub |-> e, role |-> role, exp |-> now + TokenLife]]

Insert(c, role) ==
  account' = [account EXCEPT ![email[c]] = [password |-> c, role |-> role, is_active |-> TRUE]]

-----------------------------------------------------------------------------
(* register, and the script: is the address free? *)
CheckEmail(c, k, e) ==
  /\ Start(c, k, e)
  /\ IF account[e] = None THEN Continue(c, "inserting")
     ELSE IF k = "register" THEN Continue(c, "refused")
     ELSE Answer(c, 0)
  /\ UNCHANGED <<account, issued, tokens, audit, now>>

(* There is no unique constraint. *)
CreateUserFaulty(c) ==
  /\ pc[c] = "inserting"
  /\ UNCHANGED <<kind, email, tokens, audit, now>>
  /\ IF kind[c] = "register"
     THEN Insert(c, "employee") /\ Issue(c, email[c], "employee") /\ Continue(c, "succeeded")
     ELSE Insert(c, "admin") /\ Answer(c, 0) /\ UNCHANGED issued

(* UserRepository.create; the email column is unique.  An IntegrityError   *)
(* is no AppError: the route writes no audit row for it.                   *)
CreateUser(c) ==
  /\ pc[c] = "inserting"
  /\ UNCHANGED <<kind, email, tokens, audit, now>>
  /\ \/ account[email[c]] # None /\ Answer(c, 500) /\ UNCHANGED <<account, issued>>
     \/ /\ account[email[c]] = None
        /\ IF kind[c] = "register"
           THEN Insert(c, "employee") /\ Issue(c, email[c], "employee") /\ Continue(c, "succeeded")
           ELSE Insert(c, "admin") /\ Answer(c, 0) /\ UNCHANGED issued

Login(c, e, password) ==
  /\ Start(c, "login", e)
  /\ IF account[e] # None /\ account[e].password = password /\ account[e].is_active
     THEN Issue(c, e, account[e].role) /\ Continue(c, "succeeded")
     ELSE Continue(c, "refused") /\ UNCHANGED issued
  /\ UNCHANGED <<account, tokens, audit, now>>

ActionOf(c) ==
  CASE kind[c] = "register" -> "auth.register"
    [] kind[c] = "login" -> "auth.login"
    [] kind[c] = "admin_request" -> "auth.access_denied"

RefusalOf(c) ==
  CASE kind[c] = "register" -> 409
    [] kind[c] = "login" -> 401
    [] kind[c] = "admin_request" -> 403

(* AuditService.record: a row that cannot be written is given up. *)
Record(c, success) ==
  audit' \in {audit, audit \cup {[by |-> c, action |-> ActionOf(c), success |-> success]}}

Succeed(c) ==
  /\ pc[c] = "succeeded"
  /\ Record(c, TRUE)
  /\ Answer(c, IF kind[c] = "register" THEN 201 ELSE 200)
  /\ tokens' = tokens \cup {issued[c]}
  /\ UNCHANGED <<account, kind, email, issued, now>>

Refuse(c) ==
  /\ pc[c] = "refused"
  /\ Record(c, FALSE)
  /\ Answer(c, RefusalOf(c))
  /\ UNCHANGED <<account, kind, email, issued, tokens, now>>

-----------------------------------------------------------------------------
(* get_current_user and require_roles(ADMIN): one read of the row. *)
Admit(c, token) ==
  /\ Start(c, "admin_request", token.sub)
  /\ LET user == account[token.sub] IN
     IF token.exp <= now \/ user = None \/ ~user.is_active THEN Answer(c, 401)
     ELSE IF user.role # "admin" THEN Continue(c, "refused")
     ELSE Continue(c, "acting")
  /\ UNCHANGED <<account, issued, tokens, audit, now>>

(* The route's own work; what it does is in the modules of the documents.  *)
Act(c) ==
  /\ pc[c] = "acting"
  /\ Answer(c, 200)
  /\ UNCHANGED <<account, kind, email, issued, tokens, audit, now>>

(* The process ends: its calls are never answered.                         *)
Crash ==
  /\ pc' = [c \in Calls |-> IF pc[c] # "idle" /\ kind[c] # "create_admin" THEN "over" ELSE pc[c]]
  /\ UNCHANGED <<account, kind, email, answer, issued, tokens, audit, now>>

(* An operator demotes, promotes, blocks or unblocks a user. *)
ChangeUser(e) ==
  /\ account[e] # None
  /\ \E role \in {"employee", "admin"}, active \in BOOLEAN :
       account' = [account EXCEPT ![e].role = role, ![e].is_active = active]
  /\ UNCHANGED <<callVars, tokens, audit, now>>

AccountsNext ==
  \/ \E c \in Calls :
       \/ \E k \in {"register", "create_admin"}, e \in Emails : CheckEmail(c, k, e)
       \/ \E e \in Emails, password \in Calls : Login(c, e, password)
       \/ \E token \in tokens : Admit(c, token)
       \/ CreateUser(c) \/ Succeed(c) \/ Refuse(c) \/ Act(c)
  \/ Crash
  \/ \E e \in Emails : ChangeUser(e)
  \/ Tick /\ UNCHANGED accountVars

AccountsSpec == AccountsInit /\ [][AccountsNext]_<<now, accountVars>>

-----------------------------------------------------------------------------
(* Whoever was told that it has registered an address has the account: its *)
(* password is the one it chose, for ever, and nobody else registered it.  *)
RegistrationHolds ==
  \A c \in Calls :
    kind[c] = "register" /\ answer[c] = 201 =>
      account[email[c]] # None /\ account[email[c]].password = c

(* The trail is truthful: a success stands for an account that exists, and *)
(* for a registration it is the one that this call created; a failed       *)
(* registration stands for an address that was taken.                      *)
TrailIsTruthful ==
  \A row \in audit :
    /\ row.success \/ row.action = "auth.register" => account[email[row.by]] # None
    /\ row.action = "auth.register" =>
         (row.success <=> account[email[row.by]].password = row.by)
=============================================================================
