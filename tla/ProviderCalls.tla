--------------------------- MODULE ProviderCalls ---------------------------
(***************************************************************************)
(* One call of an AI provider: TogetherEmbeddingProvider.embed_documents   *)
(* and embed_query, which post one batch after another, or                 *)
(* TogetherLLMProvider.complete, which posts once; each post with the      *)
(* retries of post_json_with_retries.  The provider is the environment: it *)
(* may answer anything, late, or not at all.                               *)
(***************************************************************************)
EXTENDS Integers, Sequences

CONSTANTS
  BatchSize,   \* embedding_batch_size
  MaxRetries,  \* llm_max_retries
  RetryAfter,  \* the Retry-After headers of the provider: seconds or
  Date,        \* ... a date (RFC 9110 allows both)
  Absent       \* ... or no such header

ASSUME BoundsAssumption == BatchSize \in Nat \ {0} /\ MaxRetries \in Nat
ASSUME RetryAfterAssumption == RetryAfter \ {Date, Absent} \subseteq Int

VARIABLES
  op,       \* which call
  texts,    \* how many texts it embeds; a text is its position
  embedded,    \* texts that were embedded by earlier batches
  vectors,  \* the result so far: the text each vector belongs to
  callPc,       \* where the call is
  attempt,  \* the loop variable of post_json_with_retries
  wait,     \* what it sleeps before the next attempt
  posts,    \* history: posts of this batch
  waited,   \* history: seconds slept in this batch
  reply,    \* what came of the latest post
  outcome   \* what the caller gets

providerVars == <<op, texts, embedded, vectors, callPc, attempt, wait, posts, waited, reply, outcome>>

(* The text of a vector of which the answer does not tell it. *)
Stray == 0

Ops == {"embed_documents", "embed_query", "complete"}
Replies == {"none", "timeout", "transport", "429", "5xx", "4xx", "2xx"}
Transient == {"timeout", "transport", "429", "5xx"}

(* provider: AppError 502 with the caller's code; mismatch: AppError 502   *)
(* for a 2xx body that does not fit; other: an exception that is no        *)
(* AppError and leaves the service as an internal error.                   *)
Outcomes == {"pending", "result", "provider", "mismatch", "other"}

CallTypeOK ==
  /\ op \in Ops
  /\ texts \in Nat
  /\ embedded \in 0..texts
  /\ vectors \in Seq(Nat)
  /\ callPc \in {"idle", "batch", "posting", "replied", "sleeping", "reading", "over"}
  /\ attempt \in 0..MaxRetries
  /\ wait \in 0..30
  /\ posts \in Nat
  /\ waited \in Nat
  /\ reply \in Replies
  /\ outcome \in Outcomes

CallInit ==
  /\ op = "complete"
  /\ texts = 0
  /\ embedded = 0
  /\ vectors = <<>>
  /\ callPc = "idle"
  /\ attempt = 0
  /\ wait = 0
  /\ posts = 0
  /\ waited = 0
  /\ reply = "none"
  /\ outcome = "pending"

callVars == <<op, texts>>
resultVars == <<embedded, vectors>>
effortVars == <<attempt, wait, posts, waited>>

Cap(seconds) == IF seconds > 30 THEN 30 ELSE seconds

(* min(2 ** attempt, 30) *)
Backoff(a) == IF a < 5 THEN <<1, 2, 4, 8, 16>>[a + 1] ELSE 30

BatchEnd == IF embedded + BatchSize < texts THEN embedded + BatchSize ELSE texts

Raise(error) == callPc' = "over" /\ outcome' = error

-----------------------------------------------------------------------------
(* A call of operation o with n texts begins. *)
BeginCall(o, n) ==
  /\ callPc = "idle"
  /\ op' = o
  /\ texts' = n
  /\ embedded' = 0
  /\ vectors' = <<>>
  /\ callPc' = IF o = "complete" THEN "posting" ELSE "batch"
  /\ attempt' = 0
  /\ wait' = 0
  /\ posts' = 0
  /\ waited' = 0
  /\ reply' = "none"
  /\ outcome' = "pending"

(* The result is handed on. *)
EndCall ==
  /\ callPc = "over"
  /\ op' = "complete"
  /\ texts' = 0
  /\ embedded' = 0
  /\ vectors' = <<>>
  /\ callPc' = "idle"
  /\ attempt' = 0
  /\ wait' = 0
  /\ posts' = 0
  /\ waited' = 0
  /\ reply' = "none"
  /\ outcome' = "pending"

(* embed_documents: the next batch, or the return of all vectors.          *)
NextBatch ==
  /\ callPc = "batch"
  /\ embedded < texts
  /\ callPc' = "posting"
  /\ attempt' = 0
  /\ posts' = 0
  /\ waited' = 0
  /\ UNCHANGED <<callVars, resultVars, wait, reply, outcome>>

ReturnVectors ==
  /\ callPc = "batch"
  /\ embedded = texts
  /\ callPc' = "over"
  /\ outcome' = "result"
  /\ UNCHANGED <<callVars, resultVars, effortVars, reply>>

(* The provider answers, the transport fails, or the timeout expires. *)
Post ==
  /\ callPc = "posting"
  /\ posts' = posts + 1
  /\ reply' \in Replies \ {"none"}
  /\ callPc' = "replied"
  /\ UNCHANGED <<callVars, resultVars, attempt, wait, waited, outcome>>

(* One retry more than the configuration allows. *)
TryAgainFaulty(seconds) ==
  IF attempt <= MaxRetries
  THEN /\ callPc' = "sleeping"
       /\ wait' = seconds
       /\ UNCHANGED outcome
  ELSE /\ Raise("provider")
       /\ UNCHANGED wait

(* Sleep and try again, or break out of the loop and raise. *)
TryAgain(seconds) ==
  IF attempt < MaxRetries
  THEN /\ callPc' = "sleeping"
       /\ wait' = seconds
       /\ UNCHANGED outcome
  ELSE /\ Raise("provider")
       /\ UNCHANGED wait

BackOff ==
  /\ callPc = "replied"
  /\ reply \in Transient \ {"429"}
  /\ TryAgain(Backoff(attempt))
  /\ UNCHANGED <<callVars, resultVars, attempt, posts, waited, reply>>

(* 429: float(Retry-After), read before anything else, raises for a date;  *)
(* time.sleep raises for a negative number.                                *)
ObeyRetryAfter ==
  /\ callPc = "replied"
  /\ reply = "429"
  /\ \E header \in RetryAfter :
       \/ header = Absent /\ TryAgain(Backoff(attempt))
       \/ header = Date /\ Raise("other") /\ UNCHANGED wait
       \/ /\ header \notin {Absent, Date}
          /\ IF header < 0 /\ attempt < MaxRetries
             THEN Raise("other") /\ UNCHANGED wait
             ELSE TryAgain(Cap(header))
  /\ UNCHANGED <<callVars, resultVars, attempt, posts, waited, reply>>

FailFast ==
  /\ callPc = "replied"
  /\ reply = "4xx"
  /\ Raise("provider")
  /\ UNCHANGED <<callVars, resultVars, effortVars, reply>>

Accept ==
  /\ callPc = "replied"
  /\ reply = "2xx"
  /\ callPc' = "reading"
  /\ UNCHANGED <<callVars, resultVars, effortVars, reply, outcome>>

Wake ==
  /\ callPc = "sleeping"
  /\ waited' = waited + wait
  /\ attempt' = attempt + 1
  /\ callPc' = "posting"
  /\ UNCHANGED <<callVars, resultVars, wait, posts, reply, outcome>>

-----------------------------------------------------------------------------
(* The body of a 2xx answer lists vectors, each with the index of its text *)
(* in the batch, in any order and number.  An index that is missing counts *)
(* as the first, and nobody asks whether an index comes twice.             *)
Bodies ==
  LET size == BatchEnd - embedded IN
  UNION {[1..n -> 1..size] : n \in 0..(size + 1)}

Distinct(body) == \A i, j \in DOMAIN body : body[i] = body[j] => i = j

(* sorted by index *)
Sorted(body) ==
  LET found == {body[i] : i \in DOMAIN body} IN
  CHOOSE s \in [1..Len(body) -> found] : \A i, j \in DOMAIN s : i < j => s[i] < s[j]

(* The texts of the vectors, if the indices tell. *)
Told(body, order) ==
  [i \in DOMAIN body |-> IF Distinct(body) THEN embedded + order[i] ELSE Stray]

TakeVectors(body, order) ==
  IF Len(body) # BatchEnd - embedded
  THEN /\ Raise("mismatch")
       /\ UNCHANGED resultVars
  ELSE /\ vectors' = vectors \o Told(body, order)
       /\ embedded' = BatchEnd
       /\ callPc' = "batch"
       /\ UNCHANGED outcome

(* The answer is taken in the order in which it came. *)
ReadUnsortedFaulty ==
  /\ callPc = "reading"
  /\ op # "complete"
  /\ \E body \in Bodies : TakeVectors(body, body)
  /\ UNCHANGED <<callVars, effortVars, reply>>

(* _embed_batch: the vectors sorted by index, if they are as many as texts. *)
(* A body that is no JSON or lacks a vector ends in some other exception.  *)
ReadVectors ==
  /\ callPc = "reading"
  /\ op # "complete"
  /\ \/ Raise("other") /\ UNCHANGED resultVars
     \/ \E body \in Bodies : TakeVectors(body, Sorted(body))
  /\ UNCHANGED <<callVars, effortVars, reply>>

(* complete: the first choice, if there is one. *)
ReadChoices ==
  /\ callPc = "reading"
  /\ op = "complete"
  /\ callPc' = "over"
  /\ outcome' \in {"result", "mismatch", "other"}
  /\ UNCHANGED <<callVars, resultVars, effortVars, reply>>

CallStep ==
  \/ NextBatch \/ ReturnVectors
  \/ Post \/ BackOff \/ ObeyRetryAfter \/ FailFast \/ Accept \/ Wake
  \/ ReadVectors \/ ReadChoices

-----------------------------------------------------------------------------
(* The i-th vector is the one of the i-th text, over all batches and       *)
(* whatever the order of the answers, unless its answer repeats or lacks   *)
(* an index; and a result is complete.  Otherwise chunks would be stored   *)
(* under the vectors of other chunks.                                      *)
VectorsFollowTexts ==
  /\ \A i \in DOMAIN vectors : vectors[i] \in {i, Stray}
  /\ outcome = "result" => Len(vectors) = texts

(* A provider that fails keeps a thread for a bounded time: for each batch *)
(* at most one post per attempt and 30 seconds between two of them.        *)
EffortBounded == posts <= MaxRetries + 1 /\ waited <= 30 * MaxRetries

(* However a call fails: its caller's error comes of a client error at     *)
(* once or of passing trouble on the last attempt, a mismatch of a 2xx     *)
(* answer, and any other exception of a 2xx answer that cannot be read or  *)
(* of a 429, whose Retry-After may be unusable.  No timeout, failure of    *)
(* the transport or 5xx ends a call while a retry is left.                 *)
FailsForAReason ==
  /\ outcome = "provider" =>
       \/ reply = "4xx"
       \/ reply \in Transient /\ posts = MaxRetries + 1
  /\ outcome = "mismatch" => reply = "2xx"
  /\ outcome = "other" => reply \in {"2xx", "429"}

(* post_json_with_retries promises retries for 429: a call that gets one   *)
(* does not end before the last attempt.                                   *)
RateLimitIsRetried == callPc = "over" /\ reply = "429" => attempt = MaxRetries
=============================================================================
