--------------------------- MODULE ApiGateProofs ---------------------------
(***************************************************************************)
(* One account for each address and a truthful audit trail, for every      *)
(* number of addresses and calls.                                          *)
(*                                                                         *)
(* Behind the limiter the accounts behave as they do alone, and the other  *)
(* way round: every step of the process is a step of each of the two, or   *)
(* leaves it alone.  So what is proved of the parts holds of the process.  *)
(***************************************************************************)
EXTENDS ApiGate, RateLimiterProofs

(* The part of the types that the proofs need. *)
Types ==
  /\ account \in [Emails -> Rows \cup {None}]
  /\ pc \in [Calls -> {"idle", "inserting", "succeeded", "refused", "acting", "over"}]
  /\ kind \in [Calls -> Kinds \cup {None}]
  /\ email \in [Calls -> Emails \cup {None}]
  /\ answer \in [Calls -> Answers]
  /\ audit \subseteq AuditRows

(* A call owns the account of its address. *)
Owns(c) == account[email[c]] # None /\ account[email[c]].password = c

(* A registration that has succeeded owns its account, one that was        *)
(* refused found another one there, and what is recorded is over.          *)
CallInv(c) ==
  /\ pc[c] = "idle" => answer[c] = 0
  /\ pc[c] \notin {"idle", "over"} => kind[c] # None
  /\ kind[c] # None => email[c] \in Emails
  /\ pc[c] = "inserting" => kind[c] \in {"register", "create_admin"}
  /\ pc[c] \in {"idle", "inserting", "refused"} => \A e \in Emails : ~(account[e] # None /\ account[e].password = c)
  /\ kind[c] = "register" /\ (pc[c] = "succeeded" \/ answer[c] = 201) => Owns(c)
  /\ pc[c] \in {"succeeded", "refused"} => kind[c] \in {"register", "login", "admin_request"}
  /\ pc[c] = "succeeded" => kind[c] \in {"register", "login"} /\ account[email[c]] # None
  /\ pc[c] = "refused" /\ kind[c] = "register" => account[email[c]] # None

RowInv(row) ==
  /\ pc[row.by] = "over" /\ kind[row.by] # None
  /\ row.success \/ row.action = "auth.register" => account[email[row.by]] # None
  /\ row.action = "auth.register" => (row.success <=> account[email[row.by]].password = row.by)

AccountInv == Types /\ (\A c \in Calls : CallInv(c)) /\ (\A row \in audit : RowInv(row))

(* Before the first call there is no account to be wrong about.            *)
LEMMA AccountInvInit == AccountsInit => AccountInv
BY NoneAssumption DEF AccountsInit, AccountInv, Types, CallInv, RowInv, Answers

(* Accounts are never removed and never change their password. *)
AccountsStay ==
  \A e \in Emails : account[e] # None =>
    account'[e] # None /\ account'[e].password = account[e].password

NobodyBut(d) ==
  \A e \in Emails : account'[e] # None =>
    \/ account'[e].password = d
    \/ account[e] # None /\ account[e].password = account'[e].password

(* A call that nobody moves, over accounts that stay, keeps what it implies. *)
LEMMA CallKept ==
  ASSUME NEW c \in Calls, NEW d, d # c, CallInv(c), AccountsStay, NobodyBut(d),
         pc'[c] = pc[c], kind'[c] = kind[c], email'[c] = email[c], answer'[c] = answer[c]
  PROVE  CallInv(c)'
BY NoneAssumption DEF CallInv, Owns, AccountsStay, NobodyBut, Kinds

(* An audit row stays true while accounts stay and its call is over.       *)
LEMMA RowKept ==
  ASSUME AccountInv, NEW row \in audit, AccountsStay,
         pc'[row.by] = "over", kind'[row.by] = kind[row.by], email'[row.by] = email[row.by]
  PROVE  RowInv(row)'
<1>1. row.by \in Calls /\ RowInv(row) /\ CallInv(row.by)
  BY DEF AccountInv, Types, AuditRows
<1> QED BY <1>1 DEF RowInv, CallInv, AccountsStay

(* A step of one call leaves the others and what is recorded alone. *)
LEMMA OneCallSteps ==
  ASSUME AccountInv, NEW d \in Calls, pc[d] # "over", AccountsStay, NobodyBut(d),
         Types', CallInv(d)', \A row \in audit' \ audit : RowInv(row)',
         \A c \in Calls \ {d} : /\ pc'[c] = pc[c] /\ kind'[c] = kind[c]
                               /\ email'[c] = email[c] /\ answer'[c] = answer[c]
  PROVE  AccountInv'
<1>1. \A c \in Calls : CallInv(c)'
  BY CallKept DEF AccountInv
<1>2. ASSUME NEW row \in audit PROVE RowInv(row)'
  <2>1. row.by \in Calls /\ row.by # d /\ pc[row.by] = "over"
    BY DEF AccountInv, Types, AuditRows, RowInv
  <2> QED BY <2>1, RowKept
<1> QED BY <1>1, <1>2 DEF AccountInv

(* A registration, or the script, finds the address free or taken.         *)
LEMMA CheckEmailStep ==
  ASSUME AccountInv, NEW d \in Calls, NEW k \in {"register", "create_admin"}, NEW e \in Emails,
         CheckEmail(d, k, e)
  PROVE  AccountInv'
<1>1. Types'
  BY DEF AccountInv, Types, CheckEmail, Start, Continue, Answer, Kinds, Answers
<1>2. CallInv(d)'
  BY NoneAssumption
     DEF AccountInv, Types, CallInv, Owns, Kinds, CheckEmail, Start, Continue, Answer
<1>3. /\ pc[d] # "over" /\ AccountsStay /\ NobodyBut(d) /\ audit' = audit
      /\ \A c \in Calls \ {d} : /\ pc'[c] = pc[c] /\ kind'[c] = kind[c]
                               /\ email'[c] = email[c] /\ answer'[c] = answer[c]
  BY DEF AccountInv, Types, CheckEmail, Start, Continue, Answer, AccountsStay, NobodyBut
<1> QED BY <1>1, <1>2, <1>3, OneCallSteps

(* The unique address decides who becomes the owner.                       *)
LEMMA CreateUserStep ==
  ASSUME AccountInv, NEW d \in Calls, CreateUser(d)
  PROVE  AccountInv'
<1>1. CallInv(d) /\ pc[d] = "inserting" /\ email[d] \in Emails /\ kind[d] \in {"register", "create_admin"}
  BY DEF AccountInv, CreateUser, CallInv
<1>2. CASE account[email[d]] # None
  <2>1. Types'
    BY <1>2 DEF AccountInv, Types, CreateUser, Answer, Answers
  <2>2. CallInv(d)'
    BY <1>1, <1>2 DEF AccountInv, Types, CallInv, Owns, CreateUser, Answer
  <2>3. /\ AccountsStay /\ NobodyBut(d) /\ audit' = audit
        /\ \A c \in Calls \ {d} : /\ pc'[c] = pc[c] /\ kind'[c] = kind[c]
                                 /\ email'[c] = email[c] /\ answer'[c] = answer[c]
    BY <1>2 DEF AccountInv, Types, CreateUser, Answer, AccountsStay, NobodyBut
  <2> QED BY <1>1, <2>1, <2>2, <2>3, OneCallSteps
<1>3. CASE account[email[d]] = None
  <2> DEFINE role == IF kind[d] = "register" THEN "employee" ELSE "admin"
             row == [password |-> d, role |-> role, is_active |-> TRUE]
  <2>1. account' = [account EXCEPT ![email[d]] = row] /\ row \in Rows /\ row.password = d
    BY <1>1, <1>3 DEF CreateUser, Insert, Rows
  <2>2. /\ pc' = [pc EXCEPT ![d] = IF kind[d] = "register" THEN "succeeded" ELSE "over"]
        /\ answer' = IF kind[d] = "register" THEN answer ELSE [answer EXCEPT ![d] = 0]
        /\ UNCHANGED <<kind, email, audit>>
    BY <1>1, <1>3 DEF CreateUser, Continue, Answer
  <2>3. row # None
    BY <2>1, NoneAssumption
  <2> HIDE DEF row, role
  <2>4. Types'
    BY <2>1, <2>2 DEF AccountInv, Types, Answers
  <2>5. /\ account'[email[d]] = row
        /\ \A e \in Emails \ {email[d]} : account'[e] = account[e]
    BY <1>1, <2>1 DEF AccountInv, Types
  <2>6. AccountsStay /\ NobodyBut(d)
    BY <1>3, <2>1, <2>5 DEF AccountsStay, NobodyBut
  <2>7. /\ pc'[d] = IF kind[d] = "register" THEN "succeeded" ELSE "over"
        /\ \A c \in Calls \ {d} : /\ pc'[c] = pc[c] /\ kind'[c] = kind[c]
                                 /\ email'[c] = email[c] /\ answer'[c] = answer[c]
    BY <2>2 DEF AccountInv, Types
  <2>8. CallInv(d)'
    BY <1>1, <2>1, <2>2, <2>3, <2>5, <2>7 DEF CallInv, Owns
  <2> QED BY <1>1, <2>2, <2>4, <2>6, <2>7, <2>8, OneCallSteps
<1> QED BY <1>2, <1>3

(* A login is answered by the password the account keeps.                  *)
LEMMA LoginStep ==
  ASSUME AccountInv, NEW d \in Calls, NEW e \in Emails, NEW password \in Calls,
         Login(d, e, password)
  PROVE  AccountInv'
<1>1. Types'
  BY DEF AccountInv, Types, Login, Start, Continue, Kinds
<1>2. CallInv(d)'
  BY NoneAssumption
     DEF AccountInv, Types, CallInv, Owns, Kinds, Login, Start, Continue
<1>3. /\ pc[d] # "over" /\ AccountsStay /\ NobodyBut(d) /\ audit' = audit
      /\ \A c \in Calls \ {d} : /\ pc'[c] = pc[c] /\ kind'[c] = kind[c]
                               /\ email'[c] = email[c] /\ answer'[c] = answer[c]
  BY DEF AccountInv, Types, Login, Start, Continue, AccountsStay, NobodyBut
<1> QED BY <1>1, <1>2, <1>3, OneCallSteps

(* A token admits a call about its own address.                            *)
LEMMA AdmitStep ==
  ASSUME AccountInv, NEW d \in Calls, NEW token, token.sub \in Emails, Admit(d, token)
  PROVE  AccountInv'
<1>1. Types'
  BY DEF AccountInv, Types, Admit, Start, Continue, Answer, Answers, Kinds
<1>2. CallInv(d)'
  BY NoneAssumption
     DEF AccountInv, Types, CallInv, Owns, Kinds, Admit, Start, Continue, Answer
<1>3. /\ pc[d] # "over" /\ AccountsStay /\ NobodyBut(d) /\ audit' = audit
      /\ \A c \in Calls \ {d} : /\ pc'[c] = pc[c] /\ kind'[c] = kind[c]
                               /\ email'[c] = email[c] /\ answer'[c] = answer[c]
  BY DEF AccountInv, Types, Admit, Start, Continue, Answer, AccountsStay, NobodyBut
<1> QED BY <1>1, <1>2, <1>3, OneCallSteps

(* Recording and answering. *)
LEMMA RecordStep ==
  ASSUME AccountInv, NEW d \in Calls, NEW success \in BOOLEAN, NEW status \in Answers,
         pc[d] = IF success THEN "succeeded" ELSE "refused",
         Record(d, success), Answer(d, status),
         status = 201 => kind[d] = "register" /\ success,
         UNCHANGED <<account, kind, email>>
  PROVE  AccountInv'
<1>1. CallInv(d) /\ kind[d] \in {"register", "login", "admin_request"} /\ email[d] \in Emails
  BY NoneAssumption DEF AccountInv, CallInv
<1>2. ActionOf(d) \in {"auth.register", "auth.login", "auth.access_denied"}
  BY <1>1 DEF ActionOf
<1>3. ActionOf(d) = "auth.register" <=> kind[d] = "register"
  BY <1>1 DEF ActionOf
<1>4. PICK row \in AuditRows :
        /\ audit' = audit \/ audit' = audit \cup {row}
        /\ row.by = d /\ row.success = success /\ row.action = ActionOf(d)
  <2> DEFINE r == [by |-> d, action |-> ActionOf(d), success |-> success]
  <2>1. r \in AuditRows /\ r.by = d /\ r.success = success /\ r.action = ActionOf(d)
    BY <1>2 DEF AuditRows
  <2>2. audit' = audit \/ audit' = audit \cup {r}
    BY DEF Record
  <2> HIDE DEF r
  <2> QED BY <2>1, <2>2
<1>5. Types'
  BY <1>4 DEF AccountInv, Types, Answer
<1>6. CallInv(d)'
  BY <1>1 DEF AccountInv, Types, CallInv, Owns, Answer
<1>7. RowInv(row)'
  <2>1. pc'[d] = "over" /\ kind[d] # None
    BY <1>1 DEF AccountInv, Types, Answer, CallInv
  <2>2. success \/ kind[d] = "register" => account[email[d]] # None
    BY <1>1 DEF CallInv
  <2>3. kind[d] = "register" => (success <=> account[email[d]].password = d)
    BY <1>1 DEF CallInv, Owns
  <2> QED BY <1>3, <1>4, <2>1, <2>2, <2>3 DEF RowInv
<1>8. /\ pc[d] # "over" /\ AccountsStay /\ NobodyBut(d)
      /\ \A c \in Calls \ {d} : /\ pc'[c] = pc[c] /\ kind'[c] = kind[c]
                               /\ email'[c] = email[c] /\ answer'[c] = answer[c]
  BY DEF AccountInv, Types, Answer, AccountsStay, NobodyBut
<1>9. \A r \in audit' \ audit : RowInv(r)'
  BY <1>4, <1>7
<1> QED BY <1>5, <1>6, <1>8, <1>9, OneCallSteps

(* Steps that belong to no call. *)
LEMMA CrashStep == ASSUME AccountInv, Crash PROVE AccountInv'
<1>1. Types'
  BY DEF AccountInv, Types, Crash
<1>2. ASSUME NEW c \in Calls PROVE CallInv(c)'
  BY DEF AccountInv, Types, Crash, CallInv, Owns
<1>3. ASSUME NEW row \in audit PROVE RowInv(row)'
  <2>1. row.by \in Calls /\ RowInv(row)
    BY DEF AccountInv, Types, AuditRows
  <2> QED BY <2>1 DEF Crash, AccountInv, Types, RowInv
<1>4. audit' = audit
  BY DEF Crash
<1> QED BY <1>1, <1>2, <1>3, <1>4 DEF AccountInv

(* Operators change role and is_active, never address or password.         *)
LEMMA ChangeUserStep ==
  ASSUME AccountInv, NEW e \in Emails, ChangeUser(e)
  PROVE  AccountInv'
<1>1. PICK role \in {"employee", "admin"}, active \in BOOLEAN :
        account' = [account EXCEPT ![e].role = role, ![e].is_active = active]
  BY DEF ChangeUser
<1>2. account[e] \in Rows /\ UNCHANGED <<pc, kind, email, answer, audit>>
  BY DEF ChangeUser, AccountInv, Types, callVars
<1> DEFINE row == [[account[e] EXCEPT !.role = role] EXCEPT !.is_active = active]
<1>3. row \in Rows /\ row.password = account[e].password
  BY <1>2 DEF Rows
<1>4. account' = [account EXCEPT ![e] = row]
  BY <1>1, <1>2 DEF AccountInv, Types
<1> HIDE DEF row
<1>5. Types'
  BY <1>2, <1>3, <1>4 DEF AccountInv, Types
<1>6. /\ account'[e] = row /\ row # None
      /\ \A f \in Emails \ {e} : account'[f] = account[f]
  BY <1>3, <1>4, NoneAssumption DEF AccountInv, Types
<1>7. AccountsStay /\ \A f \in Emails : account'[f] # None =>
                        account[f] # None /\ account[f].password = account'[f].password
  BY <1>2, <1>3, <1>6, NoneAssumption DEF AccountsStay
<1>8. ASSUME NEW c \in Calls PROVE CallInv(c)'
  BY <1>2, <1>7, NoneAssumption DEF AccountInv, CallInv, Owns, AccountsStay, Kinds
<1>9. ASSUME NEW r \in audit PROVE RowInv(r)'
  <2>1. pc[r.by] = "over"
    BY DEF AccountInv, RowInv
  <2> QED BY <1>2, <1>7, <2>1, RowKept
<1> QED BY <1>2, <1>5, <1>8, <1>9 DEF AccountInv

(* Nothing about the accounts changes.                                     *)
LEMMA StutterStep ==
  ASSUME AccountInv, UNCHANGED <<account, pc, kind, email, answer, audit>>
  PROVE  AccountInv'
BY DEF AccountInv, Types, CallInv, Owns, RowInv

(* No step of the accounts breaks AccountInv.                              *)
LEMMA AccountInvStep == AccountInv /\ tokens \subseteq Tokens /\ [AccountsNext]_<<now, accountVars>> => AccountInv'
<1> SUFFICES ASSUME AccountInv, tokens \subseteq Tokens, [AccountsNext]_<<now, accountVars>> PROVE AccountInv'
  OBVIOUS
<1>1. ASSUME NEW c \in Calls, NEW k \in {"register", "create_admin"}, NEW e \in Emails,
             CheckEmail(c, k, e)
      PROVE AccountInv'
  BY <1>1, CheckEmailStep
<1>2. ASSUME NEW c \in Calls, NEW e \in Emails, NEW password \in Calls, Login(c, e, password)
      PROVE AccountInv'
  BY <1>2, LoginStep
<1>3. ASSUME NEW c \in Calls, NEW token \in tokens, Admit(c, token) PROVE AccountInv'
  BY <1>3, AdmitStep DEF Tokens
<1>4. ASSUME NEW c \in Calls, CreateUser(c) PROVE AccountInv'
  BY <1>4, CreateUserStep
<1>5. ASSUME NEW c \in Calls, Succeed(c) PROVE AccountInv'
  <2>1. PICK status \in {200, 201} : /\ status = IF kind[c] = "register" THEN 201 ELSE 200
                                     /\ Answer(c, status)
    BY <1>5 DEF Succeed
  <2>2. Record(c, TRUE)
    BY <1>5, Zenon DEF Succeed
  <2>3. /\ pc[c] = "succeeded" /\ UNCHANGED <<account, kind, email>>
        /\ status \in Answers /\ (status = 201 => kind[c] = "register")
    BY <1>5, <2>1 DEF Succeed, Answers
  <2> QED BY <2>1, <2>2, <2>3, RecordStep
<1>6. ASSUME NEW c \in Calls, Refuse(c) PROVE AccountInv'
  <2>1. RefusalOf(c) \in {401, 403, 409}
    BY <1>6 DEF Refuse, RefusalOf, AccountInv, CallInv
  <2>2. Record(c, FALSE)
    BY <1>6, Zenon DEF Refuse
  <2>3. /\ pc[c] = "refused" /\ UNCHANGED <<account, kind, email>>
        /\ Answer(c, RefusalOf(c)) /\ RefusalOf(c) \in Answers /\ RefusalOf(c) # 201
    BY <1>6, <2>1 DEF Refuse, Answers
  <2> QED BY <2>2, <2>3, RecordStep
<1>7. ASSUME NEW c \in Calls, Act(c) PROVE AccountInv'
  <2>1. Types' /\ CallInv(c)'
    BY <1>7, NoneAssumption
       DEF Act, Answer, AccountInv, Types, CallInv, Owns, Answers, Kinds
  <2>2. /\ pc[c] # "over" /\ AccountsStay /\ NobodyBut(c) /\ audit' = audit
        /\ \A d \in Calls \ {c} : /\ pc'[d] = pc[d] /\ kind'[d] = kind[d]
                                 /\ email'[d] = email[d] /\ answer'[d] = answer[d]
    BY <1>7 DEF Act, Answer, AccountInv, Types, AccountsStay, NobodyBut
  <2> QED BY <2>1, <2>2, OneCallSteps
<1>8. CASE Crash
  BY <1>8, CrashStep
<1>9. ASSUME NEW e \in Emails, ChangeUser(e) PROVE AccountInv'
  BY <1>9, ChangeUserStep
<1>10. CASE UNCHANGED accountVars
  BY <1>10, StutterStep DEF accountVars, callVars
<1> QED BY <1>1, <1>2, <1>3, <1>4, <1>5, <1>6, <1>7, <1>8, <1>9, <1>10 DEF AccountsNext

(* The tokens in use are well typed. *)
TokenInv ==
  /\ now \in 0..MaxTime
  /\ issued \in [Calls -> Tokens \cup {None}]
  /\ \A c \in Calls : pc[c] = "succeeded" => issued[c] \in Tokens
  /\ tokens \subseteq Tokens

(* No token is in use at the start.                                        *)
LEMMA TokenInvInit == AccountsInit => TokenInv
BY TokenLifeAssumption, MaxTimeAssumption DEF AccountsInit, TokenInv

(* Tokens are issued to known addresses only.                              *)
LEMMA TokenInvStep == AccountInv /\ TokenInv /\ [AccountsNext]_<<now, accountVars>> => TokenInv'
<1> SUFFICES ASSUME AccountInv, TokenInv, [AccountsNext]_<<now, accountVars>> PROVE TokenInv'
  OBVIOUS
<1> USE TokenLifeAssumption, MaxTimeAssumption
<1>1. ASSUME NEW c \in Calls, NEW k \in {"register", "create_admin"}, NEW e \in Emails,
             CheckEmail(c, k, e)
      PROVE TokenInv'
  BY <1>1 DEF TokenInv, AccountInv, Types, CheckEmail, Continue, Answer, Start
<1>2. ASSUME NEW c \in Calls, NEW e \in Emails, NEW role \in {"employee", "admin"},
             Issue(c, e, role), Continue(c, "succeeded"), UNCHANGED <<tokens, now>>
      PROVE TokenInv'
  <2> DEFINE token == [sub |-> e, role |-> role, exp |-> now + TokenLife]
  <2>1. token \in Tokens
    BY DEF Tokens, TokenInv
  <2>2. issued' = [issued EXCEPT ![c] = token]
    BY <1>2 DEF Issue
  <2> HIDE DEF token
  <2> QED BY <1>2, <2>1, <2>2 DEF TokenInv, AccountInv, Types, Continue
<1>3. ASSUME NEW c \in Calls, UNCHANGED <<issued, tokens, now>>,
             pc' = [pc EXCEPT ![c] = "over"] \/ pc' = [pc EXCEPT ![c] = "refused"]
               \/ pc' = [pc EXCEPT ![c] = "acting"]
      PROVE TokenInv'
  BY <1>3 DEF TokenInv, AccountInv, Types
<1>4. ASSUME NEW c \in Calls, NEW e \in Emails, NEW password \in Calls, Login(c, e, password)
      PROVE TokenInv'
  <2>1. account[e] # None => account[e].role \in {"employee", "admin"}
    BY DEF AccountInv, Types, Rows
  <2> QED BY <1>2, <1>3, <1>4, <2>1 DEF Login, Continue
<1>5. ASSUME NEW c \in Calls, NEW token \in tokens, Admit(c, token) PROVE TokenInv'
  BY <1>3, <1>5 DEF Admit, Continue, Answer
<1>6. ASSUME NEW c \in Calls, CreateUser(c) PROVE TokenInv'
  <2>1. email[c] \in Emails
    BY <1>6, NoneAssumption DEF CreateUser, AccountInv, CallInv
  <2> QED BY <1>2, <1>3, <1>6, <2>1 DEF CreateUser, Answer
<1>7. ASSUME NEW c \in Calls, Succeed(c) PROVE TokenInv'
  BY <1>7 DEF Succeed, Answer, TokenInv, AccountInv, Types
<1>8. ASSUME NEW c \in Calls, Refuse(c) \/ Act(c) PROVE TokenInv'
  BY <1>3, <1>8 DEF Refuse, Act, Answer
<1>9. CASE Crash
  BY <1>9 DEF Crash, TokenInv, AccountInv, Types
<1>10. ASSUME NEW e \in Emails, ChangeUser(e) PROVE TokenInv'
  BY <1>10 DEF ChangeUser, TokenInv, callVars
<1>11. CASE Tick /\ UNCHANGED accountVars
  BY <1>11 DEF Tick, accountVars, TokenInv, callVars
<1>12. CASE UNCHANGED <<now, accountVars>>
  BY <1>12 DEF accountVars, TokenInv, callVars
<1> QED BY <1>1, <1>4, <1>5, <1>6, <1>7, <1>8, <1>9, <1>10, <1>11, <1>12 DEF AccountsNext

(* Both invariants always hold.                                            *)
LEMMA AccountInvHolds == AccountsSpec => [](AccountInv /\ TokenInv)
<1>1. AccountInv /\ TokenInv /\ [AccountsNext]_<<now, accountVars>> => (AccountInv /\ TokenInv)'
  BY AccountInvStep, TokenInvStep DEF TokenInv
<1> QED BY <1>1, AccountInvInit, TokenInvInit, PTL DEF AccountsSpec

(* The variables keep their types. *)
THEOREM AccountTypes == AccountsSpec => []AccountsTypeOK
<1>1. AccountInv /\ TokenInv => AccountsTypeOK
  BY DEF AccountInv, Types, TokenInv, AccountsTypeOK
<1> QED BY <1>1, AccountInvHolds, PTL

(* Whoever was told that it has registered an address keeps the account.   *)
THEOREM RegistrationsHold == AccountsSpec => []RegistrationHolds
<1>1. AccountInv => RegistrationHolds
  BY DEF AccountInv, CallInv, Owns, RegistrationHolds
<1> QED BY <1>1, AccountInvHolds, PTL

(* No row of the audit trail says what did not happen. *)
THEOREM TheTrailIsTruthful == AccountsSpec => []TrailIsTruthful
<1>1. AccountInv => TrailIsTruthful
  BY DEF AccountInv, RowInv, TrailIsTruthful
<1> QED BY <1>1, AccountInvHolds, PTL

-----------------------------------------------------------------------------

(* A step of the process is one of the limiter, or leaves it alone.        *)
LEMMA GateLimiterStep == [Next]_vars => [LimiterNext]_<<now, limiterVars>>
<1> SUFFICES ASSUME [Next]_vars PROVE [LimiterNext]_<<now, limiterVars>>
  OBVIOUS
<1>1. ASSUME NEW c \in Calls, NEW client \in Clients, NEW path \in Paths, Arrive(c, client, path)
      PROVE  LimiterNext
  BY <1>1 DEF Arrive, LimiterNext
<1>2. ASSUME NEW c \in Calls, Route(c) \/ Script(c) PROVE UNCHANGED <<now, limiterVars>>
  BY <1>2 DEF Route, Script, CheckEmail, CreateUser, Login, Succeed, Refuse, Admit, Act
<1>3. CASE Restart
  BY <1>3 DEF Restart, LimiterNext
<1>4. ASSUME NEW e \in Emails, ChangeUser(e), UNCHANGED <<limiterVars, door>>
      PROVE  UNCHANGED <<now, limiterVars>>
  BY <1>4 DEF ChangeUser
<1>5. CASE Tick /\ UNCHANGED <<limiterVars, accountVars, door>>
  BY <1>5 DEF LimiterNext
<1>6. CASE UNCHANGED vars
  BY <1>6 DEF vars
<1>7. QED
  BY <1>1, <1>2, <1>3, <1>4, <1>5, <1>6 DEF Next

(* A step of the process is one of the accounts, or leaves them alone.     *)
LEMMA GateAccountsStep == [Next]_vars => [AccountsNext]_<<now, accountVars>>
<1> SUFFICES ASSUME [Next]_vars PROVE [AccountsNext]_<<now, accountVars>>
  OBVIOUS
<1>1. ASSUME NEW c \in Calls, NEW client \in Clients, NEW path \in Paths, Arrive(c, client, path)
      PROVE  UNCHANGED <<now, accountVars>>
  BY <1>1 DEF Arrive, LetThrough, TurnAway
<1>2. ASSUME NEW c \in Calls, Route(c) PROVE AccountsNext
  BY <1>2 DEF Route, AccountsNext
<1>3. ASSUME NEW c \in Calls, Script(c) PROVE AccountsNext
  BY <1>3 DEF Script, AccountsNext
<1>4. CASE Restart
  BY <1>4 DEF Restart, AccountsNext
<1>5. ASSUME NEW e \in Emails, ChangeUser(e) PROVE AccountsNext
  BY <1>5 DEF AccountsNext
<1>6. CASE Tick /\ UNCHANGED <<limiterVars, accountVars, door>>
  BY <1>6 DEF AccountsNext
<1>7. CASE UNCHANGED vars
  BY <1>7 DEF vars
<1>8. QED
  BY <1>1, <1>2, <1>3, <1>4, <1>5, <1>6, <1>7 DEF Next

(* The process implements its limiter (RateLimitMiddleware.dispatch), ...  *)
THEOREM GateLimits == Spec => LimiterSpec
<1>1. Init => LimiterInit
  BY DEF Init
<1>2. QED
  BY <1>1, GateLimiterStep, PTL DEF Spec, LimiterSpec

(* ... and its accounts (AuthService and the dependencies of the routes).  *)
THEOREM GateKeepsAccounts == Spec => AccountsSpec
<1>1. Init => AccountsInit
  BY DEF Init
<1>2. QED
  BY <1>1, GateAccountsStep, PTL DEF Spec, AccountsSpec

(* The variables keep their types. *)
THEOREM GateTypes == Spec => [](LimiterTypeOK /\ AccountsTypeOK)
  BY GateLimits, GateKeepsAccounts, LimiterTypes, AccountTypes, PTL

(* What dispatch promises the server and the client.                       *)
THEOREM GateKeepsWindow ==
  Spec => [](AtMostLimitPerWindow /\ RefusedOnlyWhenFull /\ RetryAfterSuffices)
  BY GateLimits, WindowIsKept, RefusalsAreJustified, WaitingIsRewarded, PTL

(* What register and the audit log promise.                                *)
THEOREM GateKeepsAccountsSound == Spec => [](RegistrationHolds /\ TrailIsTruthful)
  BY GateKeepsAccounts, RegistrationsHold, TheTrailIsTruthful, PTL
=============================================================================
