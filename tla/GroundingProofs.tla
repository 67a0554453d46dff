-------------------------- MODULE GroundingProofs --------------------------
(***************************************************************************)
(* What becomes of a file on its way to chunks and vectors, what a         *)
(* provider call costs at most and why it fails, and what the search       *)
(* finds: for every text, chunk size and overlap, batch size, retry limit, *)
(* set of Retry-After headers, number of chunks and limit.                 *)
(***************************************************************************)
EXTENDS Grounding, TextChunkProofs

(* Posts and sleeps are counted by the loop variable; one more post has    *)
(* been made once a reply is there.                                        *)
EffortInv ==
  /\ attempt \in 0..MaxRetries
  /\ wait \in 0..30
  /\ waited \in 0..(30 * attempt)
  /\ posts \in 0..(attempt + 1)
  /\ callPc = "posting" => posts = attempt
  /\ callPc \in {"replied", "sleeping", "reading"} => posts = attempt + 1
  /\ callPc = "sleeping" => attempt < MaxRetries
  /\ callPc = "reading" => reply = "2xx"
  /\ outcome # "pending" => callPc = "over"
  /\ FailsForAReason

(* No post and no wait has happened at the start.                          *)
LEMMA EffortInvInit == CallInit => EffortInv
BY BoundsAssumption DEF CallInit, EffortInv, FailsForAReason

(* No wait is negative or longer than the cap. *)
LEMMA WaitsAreCapped ==
  ASSUME EffortInv
  PROVE  /\ Backoff(attempt) \in 0..30
         /\ \A s \in Int : s >= 0 => Cap(s) \in 0..30
BY BoundsAssumption DEF EffortInv, Backoff, Cap

(* A retry adds one wait of at most 30 seconds.                            *)
LEMMA TryAgainKeepsEffort ==
  ASSUME EffortInv, callPc = "replied", reply \in Transient,
         NEW seconds \in 0..30, TryAgain(seconds),
         UNCHANGED <<attempt, posts, waited, reply>>
  PROVE  EffortInv'
BY BoundsAssumption DEF EffortInv, FailsForAReason, TryAgain, Raise

(* A Retry-After that cannot be slept ends the call.                       *)
LEMMA BadHeaderKeepsEffort ==
  ASSUME EffortInv, callPc = "replied", reply = "429", Raise("other"),
         UNCHANGED <<attempt, posts, waited, reply, wait>>
  PROVE  EffortInv'
BY BoundsAssumption DEF EffortInv, FailsForAReason, Raise

(* No step of a call breaks EffortInv.                                     *)
LEMMA CallStepKeepsEffort == EffortInv /\ CallStep => EffortInv'
<1> SUFFICES ASSUME EffortInv, CallStep PROVE EffortInv'
  OBVIOUS
<1> USE BoundsAssumption
<1>1. CASE NextBatch
  BY <1>1 DEF NextBatch, EffortInv, FailsForAReason
<1>2. CASE ReturnVectors
  BY <1>2 DEF ReturnVectors, EffortInv, FailsForAReason, effortVars
<1>3. CASE Post
  BY <1>3 DEF Post, EffortInv, FailsForAReason
<1>4. CASE BackOff
  BY <1>4, WaitsAreCapped, TryAgainKeepsEffort DEF BackOff, Transient
<1>5. CASE ObeyRetryAfter
  <2>1. PICK header \in RetryAfter :
          \/ header = Absent /\ TryAgain(Backoff(attempt))
          \/ header = Date /\ Raise("other") /\ UNCHANGED wait
          \/ /\ header \notin {Absent, Date}
             /\ IF header < 0 /\ attempt < MaxRetries
                THEN Raise("other") /\ UNCHANGED wait
                ELSE TryAgain(Cap(header))
    BY <1>5 DEF ObeyRetryAfter
  <2>2. /\ callPc = "replied" /\ reply = "429" /\ reply \in Transient
        /\ UNCHANGED <<attempt, posts, waited, reply>>
    BY <1>5 DEF ObeyRetryAfter, Transient
  <2>3. CASE header = Absent /\ TryAgain(Backoff(attempt))
    BY <2>2, <2>3, WaitsAreCapped, TryAgainKeepsEffort
  <2>4. CASE header = Date /\ Raise("other") /\ UNCHANGED wait
    BY <2>2, <2>4, BadHeaderKeepsEffort
  <2>5. CASE /\ header \notin {Absent, Date}
             /\ IF header < 0 /\ attempt < MaxRetries
                THEN Raise("other") /\ UNCHANGED wait
                ELSE TryAgain(Cap(header))
    <3>1. header \in Int
      BY <2>5, RetryAfterAssumption
    <3>2. IF header < 0 /\ attempt < MaxRetries
          THEN Raise("other") /\ UNCHANGED wait
          ELSE TryAgain(Cap(header))
      BY <2>5
    <3>3. CASE header < 0 /\ attempt < MaxRetries
      BY <3>2, <3>3, <2>2, BadHeaderKeepsEffort
    <3>4. CASE header < 0 /\ ~(attempt < MaxRetries)
      BY <3>2, <3>4, <2>2 DEF EffortInv, FailsForAReason, TryAgain, Raise
    <3>5. CASE header >= 0
      <4>1. Cap(header) \in 0..30
        BY <3>1, <3>5, WaitsAreCapped
      <4>2. TryAgain(Cap(header))
        BY <3>1, <3>2, <3>5
      <4>3. QED
        BY <4>1, <4>2, <2>2, TryAgainKeepsEffort
    <3>6. QED
      BY <3>1, <3>3, <3>4, <3>5
  <2>6. QED
    BY <2>1, <2>3, <2>4, <2>5
<1>6. CASE FailFast
  BY <1>6 DEF FailFast, EffortInv, FailsForAReason, Raise, effortVars
<1>7. CASE Accept
  BY <1>7 DEF Accept, EffortInv, FailsForAReason, effortVars
<1>8. CASE Wake
  BY <1>8 DEF Wake, EffortInv, FailsForAReason
<1>9. CASE ReadVectors
  <2>1. /\ callPc = "reading" /\ callPc' \in {"batch", "over"}
        /\ outcome' \in {outcome, "mismatch", "other"}
        /\ callPc' = "batch" => outcome' = outcome
        /\ UNCHANGED <<attempt, wait, posts, waited, reply>>
    BY <1>9 DEF ReadVectors, TakeVectors, Raise, effortVars
  <2>2. QED
    BY <2>1 DEF EffortInv, FailsForAReason
<1>10. CASE ReadChoices
  BY <1>10 DEF ReadChoices, EffortInv, FailsForAReason, effortVars
<1>11. QED
  BY <1>1, <1>2, <1>3, <1>4, <1>5, <1>6, <1>7, <1>8, <1>9, <1>10 DEF CallStep

(* A new call begins without posts and waits.                              *)
LEMMA BeginCallKeepsEffort ==
  ASSUME EffortInv, NEW o \in Ops, NEW n, BeginCall(o, n)
  PROVE  EffortInv'
BY BoundsAssumption DEF BeginCall, EffortInv, FailsForAReason

(* Whatever the thread is at: one step per action. *)
LEMMA EffortInvStep == EffortInv /\ [Next]_vars => EffortInv'
<1> SUFFICES ASSUME EffortInv, [Next]_vars PROVE EffortInv'
  OBVIOUS
<1>1. ASSUME UNCHANGED providerVars PROVE EffortInv'
  BY <1>1 DEF providerVars, EffortInv, FailsForAReason
<1>2. CASE EmbedChunks
  BY <1>2, BeginCallKeepsEffort DEF EmbedChunks, Ops
<1>3. CASE EmbedQuestion
  BY <1>3, BeginCallKeepsEffort DEF EmbedQuestion, Ops
<1>4. CASE Search
  BY <1>4, BoundsAssumption DEF Search, EndCall, EffortInv, FailsForAReason
<1>5. CASE CompleteAnswer
  BY <1>5, <1>1, BeginCallKeepsEffort DEF CompleteAnswer, Ops
<1>6. CASE Call
  BY <1>6, CallStepKeepsEffort DEF Call
<1>7. CASE Text \/ NothingToEmbed \/ SelectEvidence \/ CallReturns
  BY <1>1, <1>7 DEF Text, NothingToEmbed, SelectEvidence, CallReturns
<1>8. CASE UNCHANGED vars
  BY <1>1, <1>8 DEF vars
<1>9. QED
  BY <1>2, <1>3, <1>4, <1>5, <1>6, <1>7, <1>8 DEF Next

(* EffortInv always holds.                                                 *)
LEMMA EffortInvHolds == Spec => []EffortInv
<1>1. Init => EffortInv
  BY EffortInvInit DEF Init
<1>2. QED
  BY <1>1, EffortInvStep, PTL DEF Spec

(* A failing provider keeps a thread for a bounded time, whatever it       *)
(* answers and whatever Retry-After says (post_json_with_retries).         *)
THEOREM EffortIsBounded == Spec => []EffortBounded
<1>1. EffortInv => EffortBounded
  BY BoundsAssumption DEF EffortInv, EffortBounded
<1>2. QED
  BY <1>1, EffortInvHolds, PTL

(* Every failing outcome of a call has one of its reasons: the caller's    *)
(* error a client error or passing trouble on the last attempt, a mismatch *)
(* a 2xx answer, any other exception a 2xx answer or a 429                 *)
(* (post_json_with_retries, _embed_batch, complete).                       *)
THEOREM FailuresHaveReasons == Spec => []FailsForAReason
<1>1. EffortInv => FailsForAReason
  BY DEF EffortInv
<1>2. QED
  BY <1>1, EffortInvHolds, PTL

-----------------------------------------------------------------------------
(* After the search the hits are the best of the chunks it met.             *)
HitsInv ==
  /\ dialect \in {"postgresql", "sqlite"}
  /\ searchPc \in {"gate", "decide", "over"} =>
       \E S \in SUBSET Eligible :
         /\ hits \in Best(TopK, S)
         /\ dialect = "sqlite" => S = Fallback

(* The search leaves the best of what it met.                              *)
LEMMA SearchMakesHits ==
  ASSUME HitsInv, SearchPgvector \/ SearchPython
  PROVE  HitsInv'
<1>1. row' = row /\ dialect' = dialect /\ Eligible' = Eligible /\ Fallback' = Fallback
  BY DEF SearchPgvector, SearchPython, Eligible, Fallback
<1>2. PICK S \in SUBSET Eligible : hits' \in Best(TopK, S) /\ (dialect = "sqlite" => S = Fallback)
  <2>1. CASE SearchPgvector
    <3>1. PICK candidates \in SUBSET Chunks : hits' \in Best(TopK, candidates \cap Eligible)
      BY <2>1 DEF SearchPgvector
    <3>2. candidates \cap Eligible \in SUBSET Eligible
      OBVIOUS
    <3>3. dialect # "sqlite"
      BY <2>1 DEF SearchPgvector
    <3>4. QED
      BY <3>1, <3>2, <3>3
  <2>2. CASE SearchPython
    <3>1. Fallback \in SUBSET Eligible /\ hits' \in Best(TopK, Fallback)
      BY <2>2 DEF SearchPython, Fallback
    <3>2. QED
      BY <3>1
  <2>3. QED
    BY <2>1, <2>2
<1>3. Best(TopK, S)' = Best(TopK, S)
  BY <1>1 DEF Best
<1>4. QED
  BY <1>1, <1>2, <1>3 DEF HitsInv

(* Hits are the best that the search met, until the next search.           *)
LEMMA HitsInvStep == HitsInv /\ [Next]_vars => HitsInv'
<1> SUFFICES ASSUME HitsInv, [Next]_vars PROVE HitsInv'
  OBVIOUS
<1>1. ASSUME UNCHANGED <<row, dialect, hits>>,
             searchPc' \in {"gate", "decide", "over"} => searchPc \in {"gate", "decide", "over"}
      PROVE  HitsInv'
  <2>1. Eligible' = Eligible /\ Fallback' = Fallback
    BY <1>1 DEF Eligible, Fallback
  <2>2. ASSUME NEW S PROVE Best(TopK, S)' = Best(TopK, S)
    BY <1>1 DEF Best
  <2>3. QED
    BY <1>1, <2>1, <2>2 DEF HitsInv
<1>2. CASE Search
  BY <1>2 DEF Search, BeginSearch, HitsInv
<1>3. CASE SelectEvidence
  <2>1. CASE Gate
    BY <1>1, <2>1 DEF Gate
  <2>2. CASE Decide
    BY <1>1, <2>2 DEF Decide
  <2>3. QED
    BY <1>3, <2>1, <2>2, SearchMakesHits DEF SelectEvidence, EvidenceStep
<1>4. CASE CompleteAnswer
  BY <1>4 DEF CompleteAnswer, ReturnEvidence, HitsInv
<1>5. CASE Text \/ NothingToEmbed \/ EmbedChunks \/ EmbedQuestion \/ Call \/ CallReturns
  BY <1>1, <1>5 DEF Text, NothingToEmbed, EmbedChunks, EmbedQuestion, Call, CallReturns, evidenceVars
<1>6. CASE UNCHANGED vars
  BY <1>1, <1>6 DEF vars, evidenceVars
<1>7. QED
  BY <1>2, <1>3, <1>4, <1>5, <1>6 DEF Next

(* As many different elements of a set as it has are all of them. *)
LEMMA NoneIsMissing ==
  ASSUME NEW S, IsFiniteSet(S), NEW r \in [1..Cardinality(S) -> S],
         \A i, j \in 1..Cardinality(S) : i < j => r[i] # r[j]
  PROVE  \A c \in S : \E i \in 1..Cardinality(S) : r[i] = c
<1> DEFINE n == Cardinality(S)
<1>1. n \in Nat
  BY FS_CardinalityType
<1>2. IsFiniteSet(1..n) /\ Cardinality(1..n) = n
  BY <1>1, FS_Interval
<1>3. r \in Injection(1..n, S)
  BY <1>1 DEF Injection, IsInjective
<1>4. r \in Surjection(1..n, S)
  BY <1>2, <1>3, FS_Injection
<1>5. QED
  BY <1>4 DEF Surjection

(* On every database the hits are eligible chunks, none twice, the best    *)
(* first, and on SQLite nothing that is eligible outranks one or is left   *)
(* out while there is room, but for negative scores                        *)
(* (RetrievalService.similarity_search).                                   *)
THEOREM HitsInOrder == Spec => []HitsAreRanked
<1>1. ASSUME NEW S \in SUBSET Eligible, NEW r \in Best(TopK, S)
      PROVE  /\ \A i \in DOMAIN r : r[i] \in Eligible
             /\ \A i, j \in DOMAIN r : i < j => r[i] # r[j] /\ row[r[i]].score >= row[r[j]].score
             /\ \A c \in S :
                  \/ \E i \in DOMAIN r : r[i] = c
                  \/ Len(r) = TopK /\ \A i \in DOMAIN r : row[r[i]].score >= row[c].score
  <2>1. IsFiniteSet(S) /\ Cardinality(S) \in Nat
    BY ChunksAssumption, FS_Subset, FS_CardinalityType DEF Eligible
  <2>2. PICK n \in Nat : n = IF Cardinality(S) < TopK THEN Cardinality(S) ELSE TopK
    BY <2>1, CountsAssumption
  <2>3. /\ r \in [1..n -> S]
        /\ \A i, j \in 1..n : i < j => r[i] # r[j] /\ row[r[i]].score >= row[r[j]].score
        /\ \A d \in S \ {r[i] : i \in 1..n} : \A i \in 1..n : row[r[i]].score >= row[d].score
    BY <2>2 DEF Best
  <2>4. Len(r) = n /\ DOMAIN r = 1..n
    BY <2>3
  <2>5. CASE Cardinality(S) < TopK
    <3>1. \A c \in S : \E i \in 1..n : r[i] = c
      BY <2>1, <2>2, <2>3, <2>5, NoneIsMissing
    <3>2. QED
      BY <2>3, <2>4, <3>1
  <2>6. CASE ~(Cardinality(S) < TopK)
    BY <2>2, <2>3, <2>4, <2>6
  <2>7. QED
    BY <2>5, <2>6
<1>2. Init => HitsInv
  BY DEF Init, EvidenceInit, HitsInv
<1>3. HitsInv => HitsAreRanked
  <2> SUFFICES ASSUME HitsInv, searchPc \in {"gate", "decide", "over"}
               PROVE  /\ \A i \in DOMAIN hits : hits[i] \in Eligible
                      /\ \A i, j \in DOMAIN hits :
                           i < j => hits[i] # hits[j] /\ row[hits[i]].score >= row[hits[j]].score
                      /\ dialect = "sqlite" =>
                           \A c \in Fallback :
                             \/ \E i \in DOMAIN hits : hits[i] = c
                             \/ Len(hits) = TopK /\ \A i \in DOMAIN hits : row[hits[i]].score >= row[c].score
    BY DEF HitsAreRanked
  <2>1. PICK S \in SUBSET Eligible : hits \in Best(TopK, S) /\ (dialect = "sqlite" => S = Fallback)
    BY DEF HitsInv
  <2>2. QED
    BY <1>1, <2>1
<1>4. QED
  BY <1>2, <1>3, HitsInvStep, PTL DEF Spec
-----------------------------------------------------------------------------
(* Before the loop nothing is cut, in the loop everything before the       *)
(* window is covered, and the joined text is well paged.                   *)
TextInv ==
  /\ file \in Files
  /\ segments \in Seq(Segment) /\ Rising(segments)
  /\ pc \in {"load", "window", "done"} => Inked(segments)
  /\ size \in Sizes \cup {0} /\ overlap \in Overlaps \cup {0}
  /\ pc \in {"extract", "unreadable", "start", "failed", "clean", "load", "window", "done", "returned"}
  /\ pc \in {"clean", "load", "window", "done"} => 0 <= overlap /\ overlap < size
  /\ pc \notin {"window", "done"} => stream = <<>> /\ start = 0 /\ chunks = <<>>
  /\ stream \in Seq(Tag) /\ WellPaged(stream)
  /\ start \in 0..Len(stream)
  /\ chunks \in Seq(Chunk)
  /\ pc = "window" => Covered(start)
  /\ PageIsInChunk
  /\ PassagesStayWhole

(* An empty stream breaks no promise about streams and chunks.             *)
LEMMA NothingYet ==
  ASSUME stream = <<>>, chunks = <<>>, start = 0
  PROVE  /\ stream \in Seq(Tag) /\ WellPaged(stream) /\ start \in 0..Len(stream)
         /\ chunks \in Seq(Chunk) /\ PageIsInChunk /\ PassagesStayWhole
<1>1. stream \in Seq(Tag) /\ Len(stream) = 0 /\ chunks \in Seq(Chunk) /\ DOMAIN chunks = {}
  OBVIOUS
<1>2. WellPaged(stream)
  BY <1>1 DEF WellPaged
<1>3. PassagesStayWhole
  BY <1>1 DEF PassagesStayWhole, Ink
<1>4. QED
  BY <1>1, <1>2, <1>3 DEF PageIsInChunk

(* No segments are segments.                                               *)
LEMMA SegmentsNone == <<>> \in Seq(Segment) /\ Rising(<<>>)
<1>1. <<>> \in Seq(Segment) /\ Len(<<>>) = 0
  OBVIOUS
<1>2. QED
  BY <1>1 DEF Rising

(* The file of an idle thread is a file.                                   *)
LEMMA NoFileIsFile == NoFile \in Files
<1>1. <<>> \in BoundedSeq(Texts, MaxParts)
  <2>1. 0 \in 0..MaxParts /\ <<>> \in [1..0 -> Texts]
    BY TextsAssumption
  <2>2. QED
    BY <2>1 DEF BoundedSeq, SeqOf
<1>2. NoFile \in [type : {"pdf"}, readable : BOOLEAN, parts : {<<>>}, failing : SUBSET DOMAIN <<>>]
  BY DEF NoFile
<1>3. QED
  BY <1>1, <1>2 DEF PdfFiles, Files

(* Nothing is read or cut at the start.                                    *)
LEMMA TextInvInit == Init => TextInv
<1> SUFFICES ASSUME Init PROVE TextInv
  OBVIOUS
<1>1. /\ stream = <<>> /\ chunks = <<>> /\ start = 0 /\ segments = <<>>
      /\ pc \in {"extract", "returned"}
  BY DEF Init, TextInit, NoText
<1>2. file \in Files /\ size \in Sizes \cup {0} /\ overlap \in Overlaps \cup {0}
  BY NoFileIsFile DEF Init, TextInit, NoText
<1>3. QED
  BY <1>1, <1>2, NothingYet, SegmentsNone DEF TextInv

(* Steps of the call and of the search leave the text alone.               *)
LEMMA UnchangedKeepsText ==
  ASSUME TextInv, UNCHANGED textVars
  PROVE  TextInv'
BY DEF TextInv, textVars, windowVars, Rising, Inked, Tight, Blank, WellPaged, Covered, Together,
       Ink, PageIsInChunk, PassagesStayWhole

(* Until the text is loaded there is no stream and there are no chunks. *)
LEMMA NothingYetNext ==
  ASSUME TextInv, pc \notin {"window", "done"}, pc' \notin {"window"}, UNCHANGED <<stream, start, chunks>>
  PROVE  /\ stream' = <<>> /\ start' = 0 /\ chunks' = <<>>
         /\ stream' \in Seq(Tag) /\ WellPaged(stream') /\ start' \in 0..Len(stream')
         /\ chunks' \in Seq(Chunk) /\ PageIsInChunk' /\ PassagesStayWhole'
<1>1. stream' = <<>> /\ chunks' = <<>> /\ start' = 0
  BY DEF TextInv
<1>2. /\ stream' \in Seq(Tag) /\ WellPaged(stream') /\ start' \in 0..Len(stream')
      /\ chunks' \in Seq(Chunk) /\ PageIsInChunk' /\ PassagesStayWhole'
  <2>1. stream' \in Seq(Tag) /\ Len(stream') = 0 /\ chunks' \in Seq(Chunk) /\ DOMAIN chunks' = {}
    BY <1>1
  <2>2. WellPaged(stream')
    BY <2>1 DEF WellPaged
  <2>3. PassagesStayWhole'
    BY <2>1 DEF PassagesStayWhole, Ink
  <2>4. QED
    BY <1>1, <2>1, <2>2, <2>3 DEF PageIsInChunk
<1>3. QED
  BY <1>1, <1>2

(* Extraction numbers the segments from 1 upwards.                         *)
LEMMA ExtractKeepsText == TextInv /\ Extract => TextInv'
<1> SUFFICES ASSUME TextInv, Extract PROVE TextInv'
  OBVIOUS
<1>1. /\ pc = "extract" /\ pc' \in {"start", "unreadable"}
      /\ segments' \in {segments, Extracted(file)}
      /\ UNCHANGED <<size, overlap, stream, start, chunks, file>>
  BY DEF Extract
<1>2. segments' \in Seq(Segment) /\ Rising(segments')
  BY <1>1, ExtractedType DEF TextInv
<1>3. /\ stream' = <<>> /\ start' = 0 /\ chunks' = <<>>
      /\ stream' \in Seq(Tag) /\ WellPaged(stream') /\ start' \in 0..Len(stream')
      /\ chunks' \in Seq(Chunk) /\ PageIsInChunk' /\ PassagesStayWhole'
  <2>1. pc \notin {"window", "done"} /\ pc' \notin {"window"} /\ UNCHANGED <<stream, start, chunks>>
    BY <1>1
  <2>2. QED
    BY <2>1, NothingYetNext
<1>4. QED
  BY <1>1, <1>2, <1>3 DEF TextInv

(* Only sizes above an overlap that is not negative pass.                  *)
LEMMA CheckSizesKeepsText == TextInv /\ CheckSizes /\ UNCHANGED <<file, segments>> => TextInv'
<1> SUFFICES ASSUME TextInv, CheckSizes, UNCHANGED <<file, segments>> PROVE TextInv'
  OBVIOUS
<1>1. /\ pc = "start" /\ pc' \in {"failed", "clean"}
      /\ UNCHANGED <<size, overlap, stream, start, chunks, file, segments>>
  BY DEF CheckSizes
<1>2. size \in Int /\ overlap \in Int
  BY SizesAssumption DEF TextInv
<1>3. pc' = "clean" => 0 <= overlap /\ overlap < size
  BY <1>2 DEF CheckSizes
<1>4. /\ stream' = <<>> /\ start' = 0 /\ chunks' = <<>>
      /\ stream' \in Seq(Tag) /\ WellPaged(stream') /\ start' \in 0..Len(stream')
      /\ chunks' \in Seq(Chunk) /\ PageIsInChunk' /\ PassagesStayWhole'
  <2>1. pc \notin {"window", "done"} /\ pc' \notin {"window"} /\ UNCHANGED <<stream, start, chunks>>
    BY <1>1
  <2>2. QED
    BY <2>1, NothingYetNext
<1>5. QED
  BY <1>1, <1>3, <1>4 DEF TextInv, Rising

(* Cleaning keeps the order of pages and leaves ink in each segment.       *)
LEMMA CleanSegmentsKeepsText == TextInv /\ CleanSegments => TextInv'
<1> SUFFICES ASSUME TextInv, CleanSegments PROVE TextInv'
  OBVIOUS
<1>1. /\ pc = "clean" /\ pc' = "load"
      /\ UNCHANGED <<size, overlap, stream, start, chunks, file>>
  BY DEF CleanSegments, Clean
<1>2. segments' \in Seq(Segment) /\ Rising(segments') /\ Inked(segments')
  BY CleaningType DEF CleanSegments, TextInv
<1>3. /\ stream' = <<>> /\ start' = 0 /\ chunks' = <<>>
      /\ stream' \in Seq(Tag) /\ WellPaged(stream') /\ start' \in 0..Len(stream')
      /\ chunks' \in Seq(Chunk) /\ PageIsInChunk' /\ PassagesStayWhole'
  <2>1. pc \notin {"window", "done"} /\ pc' \notin {"window"} /\ UNCHANGED <<stream, start, chunks>>
    BY <1>1
  <2>2. QED
    BY <2>1, NothingYetNext
<1>4. QED
  BY <1>1, <1>2, <1>3 DEF TextInv

(* The joined text is well paged.                                          *)
LEMMA LoadSegmentsKeepsText == TextInv /\ LoadSegments => TextInv'
<1> SUFFICES ASSUME TextInv, LoadSegments PROVE TextInv'
  OBVIOUS
<1>1. /\ pc = "load" /\ pc' \in {"window", "done"} /\ stream' = Linear(segments)
      /\ pc' = "done" => stream' = <<>>
      /\ UNCHANGED <<size, overlap, start, chunks, file, segments>>
  BY DEF LoadSegments, Load
<1>2. stream' \in Seq(Tag) /\ WellPaged(stream')
  BY <1>1, LinearType, LinearWellPaged DEF TextInv
<1>3. chunks' = <<>> /\ start' = 0 /\ Len(stream') \in Nat
  BY <1>1, <1>2, LenProperties DEF TextInv
<1>4. chunks' \in Seq(Chunk) /\ start' \in 0..Len(stream') /\ PageIsInChunk'
  BY <1>3 DEF PageIsInChunk
<1>5. Covered(start)'
  <2>1. \A i \in Ink(1, Len(stream))' : i >= 1
    BY <1>3 DEF Ink
  <2>2. QED
    BY <1>3, <2>1 DEF Covered, Ink
<1>6. PassagesStayWhole'
  BY <1>1, <1>3 DEF PassagesStayWhole, Ink
<1>7. QED
  BY <1>1, <1>2, <1>3, <1>4, <1>5, <1>6 DEF TextInv, Rising, Inked, Tight, Blank

(* The chunk of a window names a page it shows part of. *)
LEMMA WindowNamesItsPage ==
  ASSUME TextInv, Window
  PROVE  chunks' \in Seq(Chunk) /\ PageIsInChunk'
<1> DEFINE a == start + 1
           b == WindowEnd
           ink == Ink(a, b)
           page == DominantPage(a, b)
           chunk == [first |-> Min(ink), last |-> Max(ink), page |-> page]
           n == Len(chunks)
<1>1. /\ pc = "window" /\ 0 <= overlap /\ overlap < size
      /\ stream \in Seq(Tag) /\ WellPaged(stream) /\ start \in 0..Len(stream)
      /\ chunks \in Seq(Chunk) /\ PageIsInChunk
      /\ UNCHANGED stream
      /\ chunks' = IF ink = {} THEN chunks ELSE Append(chunks, chunk)
  BY DEF TextInv, Window
<1>2. size \in Int /\ overlap \in Int
  BY SizesAssumption DEF TextInv
<1>3. Len(stream) \in Nat /\ n \in Nat /\ DOMAIN chunks = 1..n
  BY <1>1, LenProperties
<1>4. a \in Nat /\ a >= 1 /\ b \in Nat /\ b <= Len(stream)
  BY <1>1, <1>2, <1>3 DEF WindowEnd
<1>5. CASE ink = {}
  BY <1>1, <1>5 DEF PageIsInChunk, Ink, Blank
<1>6. CASE ink # {}
  <2>1. page \in 1..MaxParts /\ \E i \in ink : stream[i].page = page
    BY <1>1, <1>4, <1>6, DominantPageHasInk
  <2>2. /\ Min(ink) \in ink /\ \A y \in ink : Min(ink) <= y
        /\ Max(ink) \in ink /\ \A y \in ink : Max(ink) >= y
        /\ ink \in SUBSET (a..b)
    <3>1. ink \in SUBSET (a..b)
      BY DEF Ink
    <3> HIDE DEF ink, a, b
    <3>2. QED
      BY <1>4, <1>6, <3>1, LeastPosition, GreatestPosition
  <2>3. chunk \in Chunk
    <3> HIDE DEF page, ink, a, b
    <3>1. Min(ink) \in a..b /\ Max(ink) \in a..b
      BY <2>2
    <3>2. Min(ink) \in Nat \ {0} /\ Max(ink) \in Nat \ {0}
      BY <1>4, <3>1
    <3>3. QED
      BY <2>1, <3>2 DEF Chunk
  <2>4. \E i \in Ink(chunk.first, chunk.last) : stream[i].page = chunk.page
    <3>1. PICK i \in ink : stream[i].page = page
      BY <2>1
    <3>2. i \in a..b /\ ~Blank(stream[i].char)
      BY DEF Ink
    <3>3. chunk.first = Min(ink) /\ chunk.last = Max(ink) /\ chunk.page = page
      OBVIOUS
    <3> HIDE DEF ink, page, chunk, a, b
    <3>4. i \in Min(ink)..Max(ink)
      BY <1>4, <2>2, <3>2
    <3>5. QED
      BY <3>1, <3>2, <3>3, <3>4 DEF Ink
  <2> HIDE DEF chunk, ink
  <2>5. /\ chunks' \in Seq(Chunk) /\ Len(chunks') = n + 1 /\ DOMAIN chunks' = 1..(n + 1)
        /\ \A k \in 1..n : chunks'[k] = chunks[k]
        /\ chunks'[n + 1] = chunk
    <3>1. chunks' = Append(chunks, chunk)
      BY <1>1, <1>6
    <3>2. /\ Append(chunks, chunk) \in Seq(Chunk)
          /\ Len(Append(chunks, chunk)) = n + 1
          /\ \A k \in 1..n : Append(chunks, chunk)[k] = chunks[k]
          /\ Append(chunks, chunk)[n + 1] = chunk
      BY <1>1, <2>3, AppendProperties
    <3>3. QED
      BY <1>3, <3>1, <3>2, LenProperties
  <2>6. ASSUME NEW k \in 1..(n + 1)
        PROVE  \E i \in Ink(chunks'[k].first, chunks'[k].last) : stream[i].page = chunks'[k].page
    <3>1. CASE k = n + 1
      BY <2>4, <2>5, <3>1
    <3>2. CASE k # n + 1
      <4>1. k \in DOMAIN chunks /\ chunks'[k] = chunks[k]
        BY <1>3, <2>5, <3>2
      <4>2. QED
        BY <1>1, <4>1 DEF PageIsInChunk
    <3>3. QED
      BY <3>1, <3>2
  <2>7. PageIsInChunk'
    BY <1>1, <2>5, <2>6 DEF PageIsInChunk, Ink, Blank
  <2>8. QED
    BY <2>5, <2>7
<1>7. QED
  BY <1>5, <1>6

(* A window names a page it shows and cuts nothing apart.                  *)
LEMMA WindowKeepsText == TextInv /\ Window /\ UNCHANGED <<file, segments>> => TextInv'
<1> SUFFICES ASSUME TextInv, Window, UNCHANGED <<file, segments>> PROVE TextInv'
  OBVIOUS
<1>1. /\ pc = "window" /\ pc' \in {"window", "done"} /\ start' \in {start, start + size - overlap}
      /\ pc' = "done" => start' = start
      /\ UNCHANGED <<size, overlap, stream, file, segments>>
  BY DEF Window
<1>2. size \in Int /\ overlap \in Int
  BY SizesAssumption DEF TextInv
<1>3. WindowsInv
  BY <1>1, <1>2, LenProperties DEF TextInv, WindowsInv
<1>4. /\ pc' = "window" => start' \in 0..Len(stream) /\ Covered(start)'
      /\ PassagesStayWhole'
  BY <1>1, <1>3, WindowExtendsCover
<1>5. chunks' \in Seq(Chunk) /\ PageIsInChunk'
  BY WindowNamesItsPage
<1>6. QED
  BY <1>1, <1>4, <1>5 DEF TextInv, Rising, Inked, Tight, Blank, WellPaged

(* No step of the thread breaks TextInv.                                   *)
LEMMA TextInvStep == TextInv /\ [Next]_vars => TextInv'
<1> SUFFICES ASSUME TextInv, [Next]_vars PROVE TextInv'
  OBVIOUS
<1>1. CASE Text
  BY <1>1, ExtractKeepsText, CheckSizesKeepsText, CleanSegmentsKeepsText, LoadSegmentsKeepsText,
     WindowKeepsText DEF Text, TextNext
<1>2. CASE EmbedChunks
  <2>1. /\ stream' = <<>> /\ chunks' = <<>> /\ start' = 0 /\ segments' = <<>> /\ pc' = "returned"
        /\ file' \in Files /\ size' \in Sizes \cup {0} /\ overlap' \in Overlaps \cup {0}
    BY <1>2, NoFileIsFile DEF EmbedChunks, ReturnChunks
  <2>2. /\ stream' \in Seq(Tag) /\ Len(stream') = 0 /\ chunks' \in Seq(Chunk) /\ DOMAIN chunks' = {}
        /\ segments' \in Seq(Segment) /\ Rising(segments')
    BY <2>1, SegmentsNone
  <2>3. WellPaged(stream') /\ PassagesStayWhole' /\ PageIsInChunk'
    BY <2>1, <2>2 DEF WellPaged, PassagesStayWhole, PageIsInChunk, Ink
  <2>4. QED
    BY <2>1, <2>2, <2>3 DEF TextInv
<1>3. CASE NothingToEmbed \/ EmbedQuestion \/ Search \/ SelectEvidence \/ CompleteAnswer \/ Call \/ CallReturns
  BY <1>3, UnchangedKeepsText
     DEF NothingToEmbed, EmbedQuestion, Search, SelectEvidence, CompleteAnswer, Call, CallReturns
<1>4. CASE UNCHANGED vars
  BY <1>4, UnchangedKeepsText DEF vars
<1>5. QED
  BY <1>1, <1>2, <1>3, <1>4 DEF Next

(* TextInv always holds.                                                   *)
LEMMA TextInvHolds == Spec => []TextInv
BY TextInvInit, TextInvStep, PTL DEF Spec

(* Whatever the share of blanks and separators, chunk_segments cites no    *)
(* page of which the chunk shows nothing.                                  *)
THEOREM ChunksNameTheirPages == Spec => []PageIsInChunk
<1>1. TextInv => PageIsInChunk
  BY DEF TextInv
<1>2. QED
  BY <1>1, TextInvHolds, PTL

(* In the whole way of a file to its chunks no passage is cut apart.       *)
THEOREM PassagesAreKept == Spec => []PassagesStayWhole
<1>1. TextInv => PassagesStayWhole
  BY DEF TextInv
<1>2. QED
  BY <1>1, TextInvHolds, PTL

(* The steps of the loop are those of ChunkWindows, the others stutter. *)
LEMMA StepsAreWindowSteps == TextInv /\ [Next]_vars => [Windows!WindowsNext]_(Windows!windowVars)
<1> SUFFICES ASSUME TextInv, [Next]_vars PROVE [Windows!WindowsNext]_(Windows!windowVars)
  OBVIOUS
<1> DEFINE Mapped == IF pc \in {"extract", "unreadable", "returned"} THEN "start" ELSE pc
<1>1. ASSUME UNCHANGED textVars PROVE UNCHANGED Windows!windowVars
  BY <1>1 DEF textVars, windowVars, Windows!windowVars
<1>2. CASE Extract
  BY <1>2 DEF Extract, Windows!windowVars
<1>3. CASE CheckSizes
  BY <1>3 DEF CheckSizes, Windows!CheckSizes, Windows!WindowsNext
<1>4. CASE CleanSegments
  BY <1>4 DEF CleanSegments, Clean, Windows!Clean, Windows!WindowsNext
<1>5. CASE LoadSegments
  <2>1. Windows!IsStream(stream')
    <3>1. stream' \in Seq(Tag)
      BY <1>5, LinearType DEF LoadSegments, Load, TextInv
    <3>2. DOMAIN stream' = 1..Len(stream') /\ Len(stream') \in Nat
          /\ \A i \in 1..Len(stream') : stream'[i] \in Tag
      BY <3>1, LenProperties
    <3>3. \A t \in Tag : DOMAIN t = {"char", "page"}
      BY DEF Tag
    <3>4. QED
      BY <3>2, <3>3 DEF Windows!IsStream
  <2>2. Windows!Load(stream')
    BY <1>5 DEF LoadSegments, Load, Windows!Load
  <2>3. QED
    BY <2>1, <2>2 DEF Windows!WindowsNext
<1>6. CASE Window
  <2>1. /\ Windows!WindowEnd = WindowEnd
        /\ Windows!Ink(start + 1, WindowEnd) = Ink(start + 1, WindowEnd)
    BY DEF WindowEnd, Ink, Blank, Separator, Windows!WindowEnd, Windows!Ink, Windows!Blank, Windows!Separator
  <2>2. Windows!DominantPage(start + 1, WindowEnd) = DominantPage(start + 1, WindowEnd)
    BY DEF DominantPage, Min, Cardinality, Windows!DominantPage, Windows!Min, Windows!Cardinality
  <2>3. \A S : Windows!Min(S) = Min(S) /\ Windows!Max(S) = Max(S)
    BY DEF Min, Max, Windows!Min, Windows!Max
  <2>4. Windows!Window
    BY <1>6, <2>1, <2>2, <2>3 DEF Window, Windows!Window
  <2>5. QED
    BY <2>4 DEF Windows!WindowsNext
<1>7. CASE EmbedChunks
  BY <1>7 DEF EmbedChunks, ReturnChunks, Windows!Return, Windows!WindowsInit, Windows!WindowsNext
<1>8. CASE NothingToEmbed \/ EmbedQuestion \/ Search \/ SelectEvidence \/ CompleteAnswer \/ Call \/ CallReturns
  BY <1>1, <1>8
     DEF NothingToEmbed, EmbedQuestion, Search, SelectEvidence, CompleteAnswer, Call, CallReturns
<1>9. CASE UNCHANGED vars
  BY <1>1, <1>9 DEF vars
<1>10. QED
  BY <1>2, <1>3, <1>4, <1>5, <1>6, <1>7, <1>8, <1>9 DEF Next, Text, TextNext

(* What process_job does to a file runs the loop of chunk_segments as      *)
(* ChunkWindows states it: once, from its beginning, on a well-formed text.*)
THEOREM TextsRunTheWindows == Spec => ImplementsWindows
<1>1. Init => Windows!WindowsInit
  <2>1. TextInit => Windows!WindowsInit
    BY SizesAssumption DEF TextInit, Windows!WindowsInit
  <2>2. NoText => Windows!WindowsInit
    BY DEF NoText, Windows!WindowsInit
  <2>3. QED
    BY <2>1, <2>2 DEF Init
<1>2. QED
  BY <1>1, TextInvHolds, StepsAreWindowSteps, PTL DEF Spec, ImplementsWindows, Windows!WindowsSpec
-----------------------------------------------------------------------------
(* An answer with as many vectors as texts has one for each, and sorting   *)
(* brings them into the order of the texts.                                *)
LEMMA SortedIsComplete ==
  ASSUME NEW n \in Nat, NEW body \in [1..n -> 1..n],
         \A i, j \in 1..n : body[i] = body[j] => i = j
  PROVE  Sorted(body) = [i \in 1..n |-> i]
<1> DEFINE id == [i \in 1..n |-> i]
           Rises(s) == \A i, j \in DOMAIN s : i < j => s[i] < s[j]
<1>1. IsFiniteSet(1..n) /\ Cardinality(1..n) = n
  BY FS_Interval
<1>2. ASSUME NEW f \in [1..n -> 1..n], \A i, j \in 1..n : f[i] = f[j] => i = j
      PROVE  \A k \in 1..n : \E i \in 1..n : f[i] = k
  <2>1. f \in Injection(1..n, 1..n)
    BY <1>2 DEF Injection, IsInjective
  <2>2. f \in Surjection(1..n, 1..n)
    BY <1>1, <2>1, FS_Injection
  <2>3. QED
    BY <2>2 DEF Surjection
<1>3. {body[i] : i \in DOMAIN body} = 1..n /\ Len(body) = n
  <2>1. DOMAIN body = 1..n /\ \A i \in 1..n : body[i] \in 1..n
    OBVIOUS
  <2>2. \A k \in 1..n : \E i \in 1..n : body[i] = k
    BY <1>2
  <2>3. QED
    BY <2>1, <2>2
<1>4. id \in [1..n -> 1..n] /\ Rises(id)
  OBVIOUS
<1>5. ASSUME NEW s \in [1..n -> 1..n], Rises(s) PROVE s = id
  <2>1. \A i, j \in 1..n : i < j => s[i] < s[j]
    BY <1>5
  <2>2. \A i, j \in 1..n : s[i] = s[j] => i = j
    <3> SUFFICES ASSUME NEW i \in 1..n, NEW j \in 1..n, s[i] = s[j], i # j PROVE FALSE
      OBVIOUS
    <3>1. i < j \/ j < i
      OBVIOUS
    <3>2. s[i] < s[j] \/ s[j] < s[i]
      BY <2>1, <3>1
    <3>3. QED
      BY <3>2
  <2>3. \A k \in 1..n : \E i \in 1..n : s[i] = k
    BY <1>2, <2>2
  <2>4. Lists(s, n, 1..n)
    <3>1. s \in [1..n -> Int] /\ \A k \in 1..n : s[k] \in 1..n
      OBVIOUS
    <3>2. QED
      BY <2>1, <2>3, <3>1 DEF Lists, Ascending
  <2>5. Lists(id, n, 1..n)
    BY DEF Lists, Ascending
  <2> HIDE DEF id
  <2>6. QED
    BY <2>4, <2>5, ListedOnce
<1>6. Sorted(body) = CHOOSE s \in [1..n -> 1..n] : Rises(s)
  BY <1>3 DEF Sorted
<1> HIDE DEF Rises, id
<1>7. (CHOOSE s \in [1..n -> 1..n] : Rises(s)) = id
  BY <1>4, <1>5
<1>8. QED
  BY <1>6, <1>7 DEF id

(* What was embedded so far are the vectors of the first texts, or stray.  *)
VectorsInv ==
  /\ op \in Ops
  /\ texts \in Nat
  /\ embedded \in 0..texts
  /\ vectors \in Seq(Nat) /\ Len(vectors) = embedded
  /\ \A i \in 1..embedded : vectors[i] \in {i, Stray}
  /\ callPc \in {"idle", "batch", "posting", "replied", "sleeping", "reading", "over"}
  /\ outcome \in Outcomes
  /\ reply \in Replies
  /\ op = "complete" => texts = 0
  /\ outcome = "result" => callPc = "over" /\ embedded = texts

(* A batch that is read adds the vectors of the next texts, in order, or   *)
(* stray ones.                                                             *)
LEMMA ReadVectorsKeepsOrder ==
  ASSUME VectorsInv, ReadVectors
  PROVE  /\ embedded' \in 0..texts
         /\ vectors' \in Seq(Nat) /\ Len(vectors') = embedded'
         /\ \A i \in 1..embedded' : vectors'[i] \in {i, Stray}
<1> USE BoundsAssumption
<1> DEFINE n == BatchEnd - embedded
<1>1. /\ texts \in Nat /\ embedded \in 0..texts
      /\ vectors \in Seq(Nat) /\ Len(vectors) = embedded
      /\ \A i \in 1..embedded : vectors[i] \in {i, Stray}
      /\ n \in Nat /\ BatchEnd \in embedded..texts /\ embedded + n = BatchEnd
  BY DEF VectorsInv, BatchEnd
<1>2. CASE UNCHANGED resultVars
  BY <1>1, <1>2 DEF resultVars
<1>3. CASE ~UNCHANGED resultVars
  <2>1. PICK body \in Bodies :
          /\ Len(body) = n
          /\ vectors' = vectors \o Told(body, Sorted(body))
          /\ embedded' = BatchEnd
    BY <1>3 DEF ReadVectors, TakeVectors
  <2> HIDE DEF n
  <2>2. body \in [1..n -> 1..n]
    <3>1. PICK k \in 0..(n + 1) : body \in [1..k -> 1..n]
      BY <2>1 DEF Bodies, n
    <3>2. k \in Nat /\ Len(body) = k
      BY <1>1, <3>1
    <3>3. QED
      BY <2>1, <3>1, <3>2
  <2> DEFINE new == Told(body, Sorted(body))
  <2>3. /\ new \in Seq(Nat) /\ Len(new) = n
        /\ \A i \in 1..n : new[i] \in {embedded + i, Stray}
    <3>1. CASE Distinct(body)
      <4>1. Sorted(body) = [i \in 1..n |-> i]
        BY <1>1, <2>2, <3>1, SortedIsComplete DEF Distinct
      <4>2. new = [i \in 1..n |-> embedded + i]
        BY <2>2, <3>1, <4>1 DEF Told
      <4> HIDE DEF new
      <4>3. QED
        BY <1>1, <4>2
    <3>2. CASE ~Distinct(body)
      <4>1. new = [i \in 1..n |-> Stray]
        BY <2>2, <3>2 DEF Told
      <4> HIDE DEF new
      <4>2. QED
        BY <1>1, <4>1 DEF Stray
    <3>3. QED
      BY <3>1, <3>2
  <2> HIDE DEF new
  <2>4. /\ vectors \o new \in Seq(Nat) /\ Len(vectors \o new) = embedded + n
        /\ \A i \in 1..(embedded + n) :
             (vectors \o new)[i] = IF i <= embedded THEN vectors[i] ELSE new[i - embedded]
    <3>1. /\ vectors \in Seq(Nat) /\ Len(vectors) = embedded
          /\ new \in Seq(Nat) /\ Len(new) = n
      BY <1>1, <2>3
    <3>2. QED
      BY <3>1, ConcatProperties
  <2>5. ASSUME NEW i \in 1..(embedded + n) PROVE (vectors \o new)[i] \in {i, Stray}
    <3>1. CASE i <= embedded
      BY <1>1, <2>4, <3>1
    <3>2. CASE i > embedded
      <4>1. i - embedded \in 1..n /\ embedded + (i - embedded) = i
        BY <1>1, <3>2
      <4>2. new[i - embedded] \in {embedded + (i - embedded), Stray}
        BY <2>3, <4>1
      <4>3. (vectors \o new)[i] = new[i - embedded]
        BY <1>1, <2>4, <3>2
      <4>4. QED
        BY <4>1, <4>2, <4>3
    <3>3. i <= embedded \/ i > embedded
      BY <1>1
    <3>4. QED
      BY <3>1, <3>2, <3>3
  <2>6. vectors' = vectors \o new /\ embedded' = embedded + n
    BY <1>1, <2>1 DEF new
  <2>7. QED
    BY <1>1, <2>1, <2>4, <2>5, <2>6
<1>4. QED
  BY <1>2, <1>3

(* No step of a call breaks VectorsInv.                                    *)
LEMMA CallStepKeepsVectors == VectorsInv /\ CallStep => VectorsInv'
<1> SUFFICES ASSUME VectorsInv, CallStep PROVE VectorsInv'
  OBVIOUS
<1>1. CASE NextBatch
  BY <1>1 DEF NextBatch, VectorsInv, callVars, resultVars
<1>2. CASE ReturnVectors
  BY <1>2 DEF ReturnVectors, VectorsInv, callVars, resultVars, Outcomes
<1>3. CASE Post
  BY <1>3 DEF Post, VectorsInv, callVars, resultVars
<1>4. ASSUME callPc = "replied", callPc' \in {"sleeping", "over"}, outcome' \in {outcome, "provider", "other"},
             UNCHANGED <<callVars, resultVars, reply>>
      PROVE  VectorsInv'
  BY <1>4 DEF VectorsInv, callVars, resultVars, Outcomes
<1>5. CASE BackOff
  BY <1>4, <1>5 DEF BackOff, TryAgain, Raise
<1>6. CASE ObeyRetryAfter
  BY <1>4, <1>6 DEF ObeyRetryAfter, TryAgain, Raise
<1>7. CASE FailFast
  BY <1>4, <1>7 DEF FailFast, Raise
<1>8. CASE Accept
  BY <1>8 DEF Accept, VectorsInv, callVars, resultVars
<1>9. CASE Wake
  BY <1>9 DEF Wake, VectorsInv, callVars, resultVars
<1>10. CASE ReadVectors
  <2>1. /\ embedded' \in 0..texts
        /\ vectors' \in Seq(Nat) /\ Len(vectors') = embedded'
        /\ \A i \in 1..embedded' : vectors'[i] \in {i, Stray}
    BY <1>10, ReadVectorsKeepsOrder
  <2>2. /\ callPc = "reading" /\ op # "complete"
        /\ callPc' \in {"batch", "over"} /\ outcome' \in {outcome, "mismatch", "other"}
        /\ UNCHANGED <<callVars, reply>>
    BY <1>10 DEF ReadVectors, TakeVectors, Raise
  <2>3. QED
    BY <2>1, <2>2 DEF VectorsInv, callVars, Outcomes
<1>11. CASE ReadChoices
  BY <1>11 DEF ReadChoices, VectorsInv, callVars, resultVars, Outcomes
<1>12. QED
  BY <1>1, <1>2, <1>3, <1>5, <1>6, <1>7, <1>8, <1>9, <1>10, <1>11 DEF CallStep

(* A new call has embedded nothing.                                        *)
LEMMA BeginCallKeepsVectors ==
  ASSUME VectorsInv, NEW o \in Ops, NEW n \in Nat, BeginCall(o, n), o = "complete" => n = 0
  PROVE  VectorsInv'
<1>1. <<>> \in Seq(Nat) /\ Len(<<>>) = 0
  OBVIOUS
<1>2. QED
  BY <1>1 DEF BeginCall, VectorsInv, Outcomes, Replies

(* No step of the thread breaks VectorsInv.                                *)
LEMMA VectorsInvStep == VectorsInv /\ TextInv /\ [Next]_vars => VectorsInv'
<1> SUFFICES ASSUME VectorsInv, TextInv, [Next]_vars PROVE VectorsInv'
  OBVIOUS
<1>1. ASSUME UNCHANGED providerVars PROVE VectorsInv'
  BY <1>1 DEF providerVars, VectorsInv
<1>2. CASE EmbedChunks
  <2>1. Len(chunks) \in Nat
    BY LenProperties DEF TextInv
  <2>2. QED
    BY <1>2, <2>1, BeginCallKeepsVectors DEF EmbedChunks, Ops
<1>3. CASE EmbedQuestion
  BY <1>3, BeginCallKeepsVectors DEF EmbedQuestion, Ops
<1>4. CASE Search
  <2>1. <<>> \in Seq(Nat) /\ Len(<<>>) = 0
    OBVIOUS
  <2>2. QED
    BY <1>4, <2>1 DEF Search, EndCall, VectorsInv, Ops, Outcomes, Replies
<1>5. CASE CompleteAnswer
  BY <1>5, <1>1, BeginCallKeepsVectors DEF CompleteAnswer, Ops
<1>6. CASE Call
  BY <1>6, CallStepKeepsVectors DEF Call
<1>7. CASE Text \/ NothingToEmbed \/ SelectEvidence \/ CallReturns
  BY <1>1, <1>7 DEF Text, NothingToEmbed, SelectEvidence, CallReturns
<1>8. CASE UNCHANGED vars
  BY <1>1, <1>8 DEF vars
<1>9. QED
  BY <1>2, <1>3, <1>4, <1>5, <1>6, <1>7, <1>8 DEF Next

(* VectorsInv always holds.                                                *)
LEMMA VectorsInvHolds == Spec => []VectorsInv
<1>1. Init => VectorsInv
  <2>1. <<>> \in Seq(Nat) /\ Len(<<>>) = 0
    OBVIOUS
  <2>2. QED
    BY <2>1 DEF Init, CallInit, VectorsInv, Ops, Outcomes, Replies
<1>2. QED
  BY <1>1, VectorsInvStep, TextInvHolds, PTL DEF Spec

(* Each vector is the one of its text, whatever the order of the answers   *)
(* and however the texts were cut into batches, unless its answer repeats  *)
(* or lacks an index (embed_documents).                                    *)
THEOREM VectorsAreTheTexts == Spec => []VectorsFollowTexts
<1>1. VectorsInv => VectorsFollowTexts
  BY DEF VectorsInv, VectorsFollowTexts
<1>2. QED
  BY <1>1, VectorsInvHolds, PTL
-----------------------------------------------------------------------------
(* The best of a set are at most TopK of it.                               *)
LEMMA BestType ==
  ASSUME NEW S \in SUBSET Chunks, NEW r \in Best(TopK, S)
  PROVE  r \in Seq(Chunks) /\ Len(r) <= TopK
<1>1. Cardinality(S) \in Nat /\ TopK \in Nat
  BY ChunksAssumption, CountsAssumption, FS_Subset, FS_CardinalityType
<1>2. PICK n \in 0..TopK : r \in [1..n -> S]
  BY <1>1 DEF Best
<1>3. n \in Nat /\ r \in [1..n -> Chunks]
  BY <1>1, <1>2
<1>4. QED
  BY <1>1, <1>3

(* The search is typed at the start.                                       *)
LEMMA EvidenceTypeInit == EvidenceInit => EvidenceTypeOK
<1> SUFFICES ASSUME EvidenceInit PROVE EvidenceTypeOK
  OBVIOUS
<1>1. NoRow \in [Chunks -> Rows]
  BY ScoresAssumption, CountsAssumption DEF NoRow, Rows
<1>2. <<>> \in Seq(Chunks) /\ Len(<<>>) = 0
  OBVIOUS
<1>3. hits \in Seq(Chunks) /\ Len(hits) <= TopK /\ supporting \in Seq(Chunks)
  BY <1>2, CountsAssumption DEF EvidenceInit
<1>4. hasTerms \in BOOLEAN
  BY Zenon DEF EvidenceInit
<1>5. QED
  BY <1>1, <1>3, <1>4 DEF EvidenceInit, EvidenceTypeOK

(* A step of the search keeps the types.                                   *)
LEMMA EvidenceStepKeepsType == EvidenceTypeOK /\ EvidenceStep => EvidenceTypeOK'
<1> SUFFICES ASSUME EvidenceTypeOK, EvidenceStep PROVE EvidenceTypeOK'
  OBVIOUS
<1>1. CASE SearchPgvector
  <2>1. hits' \in Seq(Chunks) /\ Len(hits') <= TopK
    <3>1. PICK candidates \in SUBSET Chunks : hits' \in Best(TopK, candidates \cap Eligible)
      BY <1>1 DEF SearchPgvector
    <3> DEFINE S == candidates \cap Eligible
    <3>2. S \in SUBSET Chunks /\ hits' \in Best(TopK, S)
      BY <3>1
    <3> HIDE DEF S
    <3>3. QED
      BY <3>2, BestType
  <2>2. QED
    BY <1>1, <2>1 DEF SearchPgvector, EvidenceTypeOK
<1>2. CASE SearchPython
  <2>1. hits' \in Seq(Chunks) /\ Len(hits') <= TopK
    <3>1. Fallback \in SUBSET Chunks /\ hits' \in Best(TopK, Fallback)
      BY <1>2 DEF SearchPython, Eligible, Fallback
    <3>2. QED
      BY <3>1, BestType
  <2>2. QED
    BY <1>2, <2>1 DEF SearchPython, EvidenceTypeOK
<1>3. CASE Gate
  <2>1. supporting' \in Seq(Chunks)
    BY <1>3, PickedType DEF Gate, Filtered, EvidenceTypeOK
  <2>2. QED
    BY <1>3, <2>1 DEF Gate, EvidenceTypeOK
<1>4. CASE Decide
  <2>1. supporting' \in {supporting, <<>>} /\ reason' \in Reasons
    BY <1>4 DEF Decide, Refuse, Reasons
  <2>2. <<>> \in Seq(Chunks)
    OBVIOUS
  <2>3. QED
    BY <1>4, <2>1, <2>2 DEF Decide, EvidenceTypeOK
<1>5. QED
  BY <1>1, <1>2, <1>3, <1>4 DEF EvidenceStep

TypeInv ==
  /\ stage \in Ends \cup {"text", "vectors", "question", "evidence", "answer"}
  /\ EvidenceTypeOK

(* Every step of the thread keeps the types.                               *)
LEMMA TypeInvStep == TypeInv /\ [Next]_vars => TypeInv'
<1> SUFFICES ASSUME TypeInv, [Next]_vars PROVE TypeInv'
  OBVIOUS
<1>1. ASSUME UNCHANGED evidenceVars PROVE EvidenceTypeOK'
  BY <1>1 DEF evidenceVars, TypeInv, EvidenceTypeOK
<1>2. CASE Text \/ NothingToEmbed \/ EmbedChunks \/ EmbedQuestion \/ Call \/ CallReturns
  BY <1>1, <1>2 DEF Text, NothingToEmbed, EmbedChunks, EmbedQuestion, Call, CallReturns, TypeInv, Ends
<1>3. CASE Search
  BY <1>3 DEF Search, BeginSearch, TypeInv, EvidenceTypeOK
<1>4. CASE SelectEvidence
  BY <1>4, EvidenceStepKeepsType DEF SelectEvidence, TypeInv
<1>5. CASE CompleteAnswer
  <2>1. EvidenceInit'
    BY <1>5 DEF CompleteAnswer, ReturnEvidence, EvidenceInit, NoRow, TypeInv, EvidenceTypeOK
  <2>2. EvidenceTypeOK'
    BY <2>1, EvidenceTypeInit, PTL
  <2>3. QED
    BY <1>5, <2>2 DEF CompleteAnswer, TypeInv, Ends
<1>6. CASE UNCHANGED vars
  BY <1>1, <1>6 DEF vars, TypeInv
<1>7. QED
  BY <1>2, <1>3, <1>4, <1>5, <1>6 DEF Next

(* The text, the call, the search and what the thread is at keep their     *)
(* types.                                                                  *)
THEOREM GroundingTypes == Spec => []TypeOK
<1>1. Init => TypeInv
  BY EvidenceTypeInit DEF Init, TypeInv
<1>2. TextInv => TextTypeOK
  <2> SUFFICES ASSUME TextInv PROVE TextTypeOK
    OBVIOUS
  <2>1. \A n \in DOMAIN segments : segments[n].page \in 1..MaxParts
    <3>1. \A n \in DOMAIN segments : segments[n] \in Segment
      BY LenProperties DEF TextInv
    <3>2. QED
      BY <3>1 DEF Segment
  <2>2. QED
    BY <2>1 DEF TextInv, TextTypeOK
<1>3. VectorsInv /\ EffortInv => CallTypeOK
  <2> SUFFICES ASSUME VectorsInv, EffortInv PROVE CallTypeOK
    OBVIOUS
  <2>1. vectors \in Seq(Nat)
    BY DEF VectorsInv
  <2>2. posts \in Nat /\ waited \in Nat
    BY BoundsAssumption DEF EffortInv
  <2>3. QED
    BY <2>1, <2>2 DEF VectorsInv, EffortInv, CallTypeOK
<1>4. TypeInv /\ TextInv /\ VectorsInv /\ EffortInv => TypeOK
  BY <1>2, <1>3 DEF TypeInv, TypeOK
<1>5. QED
  BY <1>1, <1>4, TypeInvStep, TextInvHolds, VectorsInvHolds, EffortInvHolds, PTL DEF Spec

-----------------------------------------------------------------------------
(* From extraction on the segments tell the file, from cleaning on its     *)
(* normalised text, and the joined text is theirs.                         *)
InkInv ==
  /\ pc \in {"start", "clean"} => Tells(segments, PageVisible(file))
  /\ pc \in {"load", "window", "done"} => Tells(segments, PageShown(file))
  /\ pc \in {"window", "done"} => stream = Linear(segments)

(* No step of the thread breaks InkInv.                                    *)
LEMMA InkInvStep == InkInv /\ TextInv /\ [Next]_vars => InkInv'
<1> SUFFICES ASSUME InkInv, TextInv, [Next]_vars PROVE InkInv'
  OBVIOUS
<1>1. CASE Extract
  <2>1. CASE pc' = "start" /\ segments' = Extracted(file) /\ UNCHANGED file
    BY <2>1, ExtractedTells DEF InkInv, TextInv
  <2>2. CASE pc' = "unreadable"
    BY <2>2 DEF InkInv
  <2>3. QED
    BY <1>1, <2>1, <2>2 DEF Extract
<1>2. CASE CleanSegments
  <2>1. /\ pc = "clean" /\ pc' = "load" /\ UNCHANGED file
        /\ LET cleaned == [n \in DOMAIN segments |->
                             [segments[n] EXCEPT !.text = CleanText(segments[n].text)]]
           IN  segments' = Filtered(cleaned, LAMBDA segment : segment.text # <<>>)
    BY <1>2 DEF CleanSegments, Clean
  <2>2. segments \in Seq(Segment) /\ file \in Files /\ Tells(segments, PageVisible(file))
    BY <2>1 DEF InkInv, TextInv
  <2>3. Tells(segments', PageShown(file))
    BY <2>1, <2>2, CleaningTells
  <2>4. QED
    BY <2>1, <2>3 DEF InkInv
<1>3. CASE LoadSegments
  BY <1>3 DEF LoadSegments, Load, InkInv
<1>4. CASE CheckSizes /\ UNCHANGED <<file, segments>>
  BY <1>4 DEF CheckSizes, InkInv
<1>5. CASE Window /\ UNCHANGED <<file, segments>>
  BY <1>5 DEF Window, InkInv
<1>6. CASE EmbedChunks
  BY <1>6 DEF EmbedChunks, ReturnChunks, InkInv
<1>7. CASE UNCHANGED textVars
  BY <1>7 DEF textVars, windowVars, InkInv
<1>8. QED
  BY <1>1, <1>2, <1>3, <1>4, <1>5, <1>6, <1>7
     DEF Next, Text, TextNext, vars, NothingToEmbed, EmbedQuestion, Search, SelectEvidence,
         CompleteAnswer, Call, CallReturns

(* InkInv always holds.                                                    *)
LEMMA InkInvHolds == Spec => []InkInv
<1>1. Init => InkInv
  BY DEF Init, TextInit, NoText, InkInv
<1>2. QED
  BY <1>1, InkInvStep, TextInvHolds, PTL DEF Spec

(* What can be seen on a page of the joined text is what can be seen on    *)
(* that page of the file.                                                  *)
LEMMA StreamTellsFile ==
  ASSUME InkInv, TextInv, pc \in {"window", "done"}, NEW page \in 1..MaxParts
  PROVE  Visible(CharsOfPage(page)) = PageShown(file)[page]
<1>1. Visible(CharsOfPage(page)) = PageInk(stream, page)
  BY DEF CharsOfPage, PageInk, Chars, OfPage, Filtered
<1>2. /\ segments \in Seq(Segment) /\ Rising(segments)
      /\ stream = Linear(segments) /\ Tells(segments, PageShown(file))
  BY DEF InkInv, TextInv
<1>3. CASE \A k \in 1..Len(segments) : segments[k].page # page
  BY <1>1, <1>2, <1>3, LinearInk DEF Tells
<1>4. CASE \E k \in 1..Len(segments) : segments[k].page = page
  BY <1>1, <1>2, <1>4, LinearInk DEF Tells
<1>5. QED
  BY <1>3, <1>4

(* Whatever the texts and whatever NFKC makes of each letter, extract_text, *)
(* clean_segments and the joining of chunk_segments lose no visible        *)
(* character of the normalised text, reorder none, and leave each on its   *)
(* page, but for the pages pypdf fails on, of which nothing is kept.       *)
THEOREM FilesKeepTheirInk == Spec => []InkSurvives
<1>1. InkInv /\ TextInv => InkSurvives
  <2> SUFFICES ASSUME InkInv, TextInv, pc \in {"window", "done"}
               PROVE  IF file.type = "pdf"
                      THEN \A n \in DOMAIN file.parts :
                             Visible(CharsOfPage(n)) = IF n \in file.failing THEN <<>>
                                                       ELSE Visible(Normalized(file.parts[n]))
                      ELSE Visible(CharsOfPage(1)) = Visible(Normalized(FlattenSeq(file.parts)))
    BY DEF InkSurvives
  <2>1. /\ DOMAIN file.parts \subseteq 1..MaxParts /\ 1 \in 1..MaxParts
        /\ \A n \in DOMAIN file.parts : file.parts[n] \in Seq(Characters)
        /\ file.parts \in Seq(Seq(Characters))
    <3>1. file.parts \in Seq(Seq(Characters)) /\ Len(file.parts) \in 0..MaxParts /\ MaxParts \in Nat \ {0}
      BY FilesType, TextsAssumption DEF TextInv
    <3>2. DOMAIN file.parts = 1..Len(file.parts)
      BY <3>1, LenProperties
    <3>3. QED
      BY <3>1, <3>2, LenProperties
  <2>2. \A page \in 1..MaxParts : Visible(CharsOfPage(page)) = PageShown(file)[page]
    BY StreamTellsFile
  <2>3. ASSUME file.type = "pdf", NEW n \in DOMAIN file.parts
        PROVE  Visible(CharsOfPage(n)) = IF n \in file.failing THEN <<>>
                                         ELSE Visible(Normalized(file.parts[n]))
    <3>1. Visible(CharsOfPage(n)) = Visible(Normalized(Visible(Pages(file)[n])))
      BY <2>1, <2>2, <2>3 DEF PageShown, PageVisible
    <3>2. CASE n \in file.failing
      <4>1. Pages(file)[n] = <<>>
        BY <3>2 DEF Pages
      <4>2. QED
        BY <3>1, <3>2, <4>1, NormalizedNone, NoInk
    <3>3. CASE n \notin file.failing
      <4>1. Pages(file)[n] = file.parts[n]
        BY <3>3 DEF Pages
      <4>2. QED
        BY <2>1, <3>1, <3>3, <4>1, NormalizedInk
    <3>4. QED
      BY <3>2, <3>3
  <2>4. CASE file.type # "pdf"
    <3>1. Visible(CharsOfPage(1)) = Visible(Normalized(Visible(FlattenSeq(file.parts))))
      BY <2>1, <2>2, <2>4 DEF PageShown, PageVisible
    <3>2. FlattenSeq(file.parts) \in Seq(Characters)
      BY <2>1, FlattenType
    <3>3. QED
      BY <2>4, <3>1, <3>2, NormalizedInk
  <2>5. QED
    BY <2>3, <2>4
<1>2. QED
  BY <1>1, InkInvHolds, TextInvHolds, PTL
=============================================================================
