---------------------------- MODULE RateLimiter ----------------------------
(***************************************************************************)
(* RateLimitMiddleware of one server process: a bucket of time stamps per  *)
(* client and route group; now is time.monotonic().  dispatch runs on the  *)
(* event loop and has no await between the reading of the clock and the    *)
(* append, so that one request is one step.                                *)
(***************************************************************************)
EXTENDS Clock, Sequences

CONSTANTS
  Clients,  \* addresses of clients
  Paths,    \* what follows /api/v1/ in the paths of requests
  Limit,    \* the limit of each group, per window
  Window    \* length of the window, in ticks of the clock

Groups == {"auth", "documents", "chat", "default"}

ASSUME LimitAssumption == Limit \in [Groups -> Nat]
ASSUME WindowAssumption == Window \in Nat

VARIABLES
  hits,      \* the bucket of each key
  admitted,  \* history: when the requests of each key passed, since the start
  last       \* the latest request: its key, its time and whether it passed

limiterVars == <<hits, admitted, last>>

Keys == Clients \X Groups

Nothing == [key |-> <<>>, at |-> 0, passed |-> TRUE]

LimiterTypeOK ==
  /\ now \in Nat
  /\ hits \in [Keys -> Seq(Nat)]
  /\ admitted \in [Keys -> Seq(Nat)]
  /\ last \in [key : Keys, at : Nat, passed : BOOLEAN] \cup {Nothing}

LimiterInit ==
  /\ now = 0
  /\ hits = [k \in Keys |-> <<>>]
  /\ admitted = [k \in Keys |-> <<>>]
  /\ last = Nothing

GroupForPath(path) ==
  CASE path = "auth" -> "auth"
    [] path = "documents" -> "documents"
    [] path = "conversations" -> "chat"
    [] OTHER -> "default"

(* As in the other modules, ...Faulty is not the code but the operation    *)
(* with one plausible mistake.  Here the boundary is one tick too late.    *)
EvictLateFaulty(bucket, t) == SelectSeq(bucket, LAMBDA b : t - b <= Window + 1)

(* A time stamp as old as the window leaves it. *)
EvictFaulty(bucket, t) == SelectSeq(bucket, LAMBDA b : t - b < Window)

(* How many time stamps leave the front of the bucket at time t: popleft   *)
(* until the first one is inside the window.                               *)
Expired(bucket, t) ==
  CHOOSE n \in 0..Len(bucket) :
    /\ \A i \in 1..n : t - bucket[i] > Window
    /\ n < Len(bucket) => t - bucket[n + 1] <= Window

Evict(bucket, t) == SubSeq(bucket, Expired(bucket, t) + 1, Len(bucket))

HasRoom(bucket, k) == Len(bucket) < Limit[k[2]]

KeyOf(c, path) == <<c, GroupForPath(path)>>

(* A refused request leaves its time stamp too. *)
TurnAwayFaulty(c, path) ==
  LET k == KeyOf(c, path)
      bucket == Evict(hits[k], now)
  IN /\ ~HasRoom(bucket, k)
     /\ hits' = [hits EXCEPT ![k] = Append(bucket, now)]
     /\ last' = [key |-> k, at |-> now, passed |-> FALSE]
     /\ UNCHANGED <<now, admitted>>

(* 429, with Retry-After: the length of the window. *)
TurnAway(c, path) ==
  LET k == KeyOf(c, path)
      bucket == Evict(hits[k], now)
  IN /\ ~HasRoom(bucket, k)
     /\ hits' = [hits EXCEPT ![k] = bucket]
     /\ last' = [key |-> k, at |-> now, passed |-> FALSE]
     /\ UNCHANGED <<now, admitted>>

LetThrough(c, path) ==
  LET k == KeyOf(c, path)
      bucket == Evict(hits[k], now)
  IN /\ HasRoom(bucket, k)
     /\ hits' = [hits EXCEPT ![k] = Append(bucket, now)]
     /\ admitted' = [admitted EXCEPT ![k] = Append(@, now)]
     /\ last' = [key |-> k, at |-> now, passed |-> TRUE]
     /\ UNCHANGED now

(* The buckets live in the memory of the process. *)
ForgetHits ==
  /\ hits' = [k \in Keys |-> <<>>]
  /\ admitted' = [k \in Keys |-> <<>>]
  /\ last' = Nothing
  /\ UNCHANGED now

LimiterNext ==
  \/ \E c \in Clients, path \in Paths : LetThrough(c, path) \/ TurnAway(c, path)
  \/ ForgetHits
  \/ Tick /\ UNCHANGED limiterVars

LimiterSpec == LimiterInit /\ [][LimiterNext]_<<now, limiterVars>>

-----------------------------------------------------------------------------
(* The promise to the server: of one client and group, no interval as long *)
(* as the window contains more requests than the limit, wherever it begins *)
(* and although time stamps are evicted only when a request arrives.       *)
AtMostLimitPerWindow ==
  \A k \in Keys : \A i \in 1..(Len(admitted[k]) - Limit[k[2]]) :
    admitted[k][i + Limit[k[2]]] - admitted[k][i] > Window

(* The promise to the client: a request is refused only if the limit was   *)
(* used up by requests of its own key within the window before it, those   *)
(* that were refused not counted.                                          *)
RefusedOnlyWhenFull ==
  last # Nothing /\ ~last.passed =>
    LET a == admitted[last.key]
        limit == Limit[last.key[2]]
    IN Len(a) >= limit /\ (limit > 0 => last.at - a[Len(a) - limit + 1] <= Window)

(* A client that keeps silent for longer than the Retry-After it was sent  *)
(* is served, unless the limit is zero.                                    *)
RetryAfterSuffices ==
  last # Nothing /\ now - last.at > Window /\ Limit[last.key[2]] > 0 =>
    HasRoom(Evict(hits[last.key], now), last.key)

(* A bucket holds no more time stamps than the limit, however many         *)
(* requests are sent.                                                      *)
BucketBounded == \A k \in Keys : Len(hits[k]) <= Limit[k[2]]
=============================================================================
