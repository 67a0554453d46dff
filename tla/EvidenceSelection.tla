------------------------- MODULE EvidenceSelection -------------------------
(***************************************************************************)
(* What an answer may rest on: similarity_search ranks the chunks of the   *)
(* documents in question, select_supporting_evidence gates them.  Scores   *)
(* are percentages of a cosine; how many question terms a chunk contains   *)
(* is given with the chunk.                                                *)
(***************************************************************************)
EXTENDS Subsequences

CONSTANTS
  Chunks,
  Scores,        \* cosine similarities
  MaxTerms,      \* bound on the terms a chunk shares with the question
  TopK,          \* rag_top_k
  MinScore,      \* rag_min_relevance_score
  MinSupporting, \* rag_min_supporting_chunks
  MinOverlap     \* rag_min_term_overlap

ASSUME ScoresAssumption == Scores \subseteq -100..100 /\ 0 \in Scores /\ MinScore \in 0..100
ASSUME ChunksAssumption == IsFiniteSet(Chunks)
ASSUME CountsAssumption == TopK \in 1..50 /\ MinSupporting \in 1..20 /\ MinOverlap \in 0..10
                           /\ MaxTerms \in Nat

VARIABLES
  row,        \* the chunks with what the question makes of them
  hasTerms,   \* whether any word of the question is a term
  dialect,    \* the database: PostgreSQL ranks itself, SQLite is ranked in Python
  searchPc,
  hits,       \* what the search returned
  supporting, \* what the gates kept
  reason      \* why there is an answer or none

evidenceVars == <<row, hasTerms, dialect, searchPc, hits, supporting, reason>>

(* eligible: the document is COMPLETED, was embedded by the active         *)
(* provider and passes the filters of the request.                         *)
Rows == [eligible : BOOLEAN, score : Scores, overlap : 0..MaxTerms]

Reasons == {"no_chunks_retrieved", "max_relevance_below_threshold",
            "insufficient_supporting_chunks", "ok"}

EvidenceTypeOK ==
  /\ row \in [Chunks -> Rows]
  /\ hasTerms \in BOOLEAN
  /\ dialect \in {"postgresql", "sqlite"}
  /\ searchPc \in {"idle", "search", "gate", "decide", "over"}
  /\ hits \in Seq(Chunks) /\ Len(hits) <= TopK
  /\ supporting \in Seq(Chunks)
  /\ reason \in Reasons \cup {"none"}

NoRow == [c \in Chunks |-> [eligible |-> FALSE, score |-> 0, overlap |-> 0]]

(* Before the first question and between two. *)
EvidenceInit ==
  /\ dialect \in {"postgresql", "sqlite"}
  /\ row = NoRow
  /\ hasTerms = FALSE
  /\ searchPc = "idle"
  /\ hits = <<>>
  /\ supporting = <<>>
  /\ reason = "none"

(* A question meets the index as it is at the moment. *)
BeginSearch ==
  /\ searchPc = "idle"
  /\ row' \in [Chunks -> Rows]
  /\ hasTerms' \in BOOLEAN
  /\ hasTerms' = FALSE => \A c \in Chunks : row'[c].overlap = 0
  /\ searchPc' = "search"
  /\ UNCHANGED <<dialect, hits, supporting, reason>>

-----------------------------------------------------------------------------
Eligible == {c \in Chunks : row[c].eligible}

(* One more than the limit is returned. *)
BestFaulty(k, S) ==
  LET n == IF Cardinality(S) <= k THEN Cardinality(S) ELSE k + 1 IN
  {r \in [1..n -> S] :
     /\ \A i, j \in 1..n : i < j => r[i] # r[j] /\ row[r[i]].score >= row[r[j]].score
     /\ \A c \in S \ {r[i] : i \in 1..n} : \A i \in 1..n : row[r[i]].score >= row[c].score}

(* The k best of a set, best first, in every order that ties allow. *)
Best(k, S) ==
  LET n == IF Cardinality(S) < k THEN Cardinality(S) ELSE k IN
  {r \in [1..n -> S] :
     /\ \A i, j \in 1..n : i < j => r[i] # r[j] /\ row[r[i]].score >= row[r[j]].score
     /\ \A c \in S \ {r[i] : i \in 1..n} : \A i \in 1..n : row[r[i]].score >= row[c].score}

(* ORDER BY <=> LIMIT runs over the HNSW index (migration 0007): the index *)
(* proposes candidates, the filters then drop some of them, and nothing is *)
(* proposed instead.  Which chunks it meets is left open; all of them when *)
(* the planner does not use it.  ask and semantic_search pass              *)
(* min_score = 0.0, which the statement takes for no threshold.            *)
SearchPgvector ==
  /\ searchPc = "search"
  /\ dialect = "postgresql"
  /\ \E candidates \in SUBSET Chunks : hits' \in Best(TopK, candidates \cap Eligible)
  /\ searchPc' = "gate"
  /\ UNCHANGED <<row, hasTerms, dialect, supporting, reason>>

Fallback == {c \in Eligible : row[c].score >= 0}

(* The limit is part of the statement, and what it leaves is ranked. *)
SearchPythonFaulty ==
  /\ searchPc = "search"
  /\ dialect = "sqlite"
  /\ \E rows \in SUBSET Eligible :
       /\ Cardinality(rows) <= TopK
       /\ rows = Eligible \/ Cardinality(rows) = TopK
       /\ hits' \in Best(TopK, rows \cap Fallback)
  /\ searchPc' = "gate"
  /\ UNCHANGED <<row, hasTerms, dialect, supporting, reason>>

(* The fallback compares with 0.0 and drops negative scores. *)
SearchPython ==
  /\ searchPc = "search"
  /\ dialect = "sqlite"
  /\ hits' \in Best(TopK, Fallback)
  /\ searchPc' = "gate"
  /\ UNCHANGED <<row, hasTerms, dialect, supporting, reason>>

-----------------------------------------------------------------------------
EffectiveRelevance(score, overlap) ==
  LET boost == IF 8 * overlap > 24 THEN 24 ELSE 8 * overlap IN
  IF score + boost > 100 THEN 100 ELSE score + boost

(* A question without terms has no overlap to ask for. *)
Supports(c) ==
  /\ MinOverlap > 0 /\ hasTerms => row[c].overlap >= MinOverlap
  /\ EffectiveRelevance(row[c].score, row[c].overlap) >= MinScore

Gate ==
  /\ searchPc = "gate"
  /\ supporting' = Filtered(hits, Supports)
  /\ searchPc' = "decide"
  /\ UNCHANGED <<row, hasTerms, dialect, hits, reason>>

Refuse(why) == reason' = why /\ supporting' = <<>>

(* max_score is the best score as it was found, without the boost. *)
Decide ==
  /\ searchPc = "decide"
  /\ \/ hits = <<>> /\ Refuse("no_chunks_retrieved")
     \/ /\ hits # <<>>
        /\ supporting = <<>>
        /\ Refuse(IF \A i \in DOMAIN hits : row[hits[i]].score < MinScore
                  THEN "max_relevance_below_threshold"
                  ELSE "insufficient_supporting_chunks")
     \/ /\ Len(supporting) \in 1..(MinSupporting - 1)
        /\ Refuse("insufficient_supporting_chunks")
     \/ /\ Len(supporting) >= MinSupporting
        /\ reason' = "ok"
        /\ UNCHANGED supporting
  /\ searchPc' = "over"
  /\ UNCHANGED <<row, hasTerms, dialect, hits>>

(* The evidence is handed on. *)
ReturnEvidence ==
  /\ searchPc = "over"
  /\ row' = NoRow
  /\ hasTerms' = FALSE
  /\ searchPc' = "idle"
  /\ hits' = <<>>
  /\ supporting' = <<>>
  /\ reason' = "none"
  /\ UNCHANGED dialect

EvidenceStep == SearchPgvector \/ SearchPython \/ Gate \/ Decide

-----------------------------------------------------------------------------
(* On both databases the hits are chunks of the documents of the request,  *)
(* none twice, the best first.  On SQLite, where the chunks are ranked in  *)
(* Python, no such chunk outranks one that was found, and none is missing  *)
(* while there is room, but for those with a negative score.  PostgreSQL   *)
(* promises no such thing: its index may miss better chunks.               *)
HitsAreRanked ==
  searchPc \in {"gate", "decide", "over"} =>
    /\ \A i \in DOMAIN hits : hits[i] \in Eligible
    /\ \A i, j \in DOMAIN hits :
         i < j => hits[i] # hits[j] /\ row[hits[i]].score >= row[hits[j]].score
    /\ dialect = "sqlite" =>
         \A c \in Fallback :
           \/ \E i \in DOMAIN hits : hits[i] = c
           \/ Len(hits) = TopK /\ \A i \in DOMAIN hits : row[hits[i]].score >= row[c].score
=============================================================================
