------------------------------ MODULE ApiGate ------------------------------
(***************************************************************************)
(* One server process: every request passes the rate limiter before its    *)
(* route runs, in another thread and any time later.  The admin script     *)
(* uses the accounts without passing it.                                   *)
(***************************************************************************)
EXTENDS RateLimiter, Accounts

VARIABLE door  \* of each call: where it is with respect to the limiter

vars == <<now, limiterVars, accountVars, door>>

Init ==
  /\ LimiterInit
  /\ AccountsInit
  /\ door = [c \in Calls |-> "outside"]

(* 429 is the answer to a call that is turned away. *)
Arrive(c, client, path) ==
  /\ door[c] = "outside" /\ pc[c] = "idle"
  /\ \/ LetThrough(client, path) /\ door' = [door EXCEPT ![c] = GroupForPath(path)]
     \/ TurnAway(client, path) /\ door' = [door EXCEPT ![c] = "turned away"]
  /\ UNCHANGED accountVars

Route(c) ==
  /\ \/ /\ door[c] = "auth"
        /\ \E e \in Emails :
             \/ CheckEmail(c, "register", e)
             \/ \E password \in Calls : Login(c, e, password)
     \/ door[c] = "default" /\ \E token \in tokens : Admit(c, token)
     \/ CreateUser(c) \/ Succeed(c) \/ Refuse(c) \/ Act(c)
  /\ UNCHANGED <<limiterVars, door>>

Script(c) ==
  /\ door[c] = "outside"
  /\ \E e \in Emails : CheckEmail(c, "create_admin", e)
  /\ UNCHANGED <<limiterVars, door>>

(* The buckets and the calls of the process are lost. *)
Restart ==
  /\ ForgetHits
  /\ Crash
  /\ door' = [c \in Calls |-> IF pc[c] = "idle" /\ door[c] # "outside" THEN "lost"
                              ELSE door[c]]

Next ==
  \/ \E c \in Calls :
       \/ \E client \in Clients, path \in Paths : Arrive(c, client, path)
       \/ Route(c)
       \/ Script(c)
  \/ Restart
  \/ (\E e \in Emails : ChangeUser(e)) /\ UNCHANGED <<limiterVars, door>>
  \/ Tick /\ UNCHANGED <<limiterVars, accountVars, door>>

Spec == Init /\ [][Next]_vars
=============================================================================
