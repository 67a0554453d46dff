--------------------------- MODULE Conversations ---------------------------
(***************************************************************************)
(* ConversationService: conversations, their messages and the citations of *)
(* the answers.  A call of ask is cut at its commits and at the reads it   *)
(* uses later; between two of its steps the index changes, conversations   *)
(* are deleted and other calls run.                                        *)
(*                                                                         *)
(* created_at and updated_at are now() of PostgreSQL, the time at which    *)
(* the transaction began.  Transactions begin at distinct ticks of `now`.  *)
(***************************************************************************)
EXTENDS Integers, ChunkIndex

CONSTANTS
  Convs,    \* identities of conversations rows
  Asks,     \* identities of calls of ask; bounds the messages
  Titles,   \* titles, and the beginnings of questions that become titles
  Default,  \* "New conversation"
  None      \* "no value": a NULL column

ASSUME DefaultAssumption == Default \in Titles
ASSUME NoneIsNoRow == None \notin Docs \cup Chunks \cup Convs

VARIABLES
  conv,       \* whether there is a conversations row
  title,      \* conversations.title
  updatedAt,  \* conversations.updated_at
  questionAt, \* created_at of the user message of each ask, 0 for no row
  answerAt,   \* created_at of its assistant message, 0 for no row
  citations,  \* the citations rows of the answer
  pc,         \* where each call of ask is
  askConv,    \* its conversation
  content,    \* the beginning of its question
  began,      \* when its current transaction began
  evidence,   \* the chunks the search found and the evidence gate kept
  retired,    \* chunks that were inserted once: identities are not reused
  now         \* clock of the database

convVars == <<conv, title, updatedAt>>
messageVars == <<questionAt, answerAt, citations>>
askVars == <<pc, askConv, content, began, evidence>>
vars == <<indexVars, convVars, messageVars, askVars, retired, now>>

(* A chunk together with its document, as the search returns it. *)
Hits == [cited : Chunks, from : Docs]

(* The references are set to NULL when the row they name is deleted; the   *)
(* title, the page and the snippet stay, here the hit they come from.      *)
CitationRows == [hit : Hits, chunk : Chunks \cup {None}, doc : Docs \cup {None}]

AskPc == {"idle", "started", "asked", "embedding", "answering", "citing",
          "saved", "titling", "done", "failed"}

InFlight == {"started", "asked", "embedding", "answering", "citing", "saved", "titling"}

TypeOK ==
  /\ IndexTypeOK
  /\ conv \in [Convs -> {"absent", "live", "deleted"}]
  /\ title \in [Convs -> Titles]
  /\ updatedAt \in [Convs -> Nat]
  /\ questionAt \in [Asks -> Nat]
  /\ answerAt \in [Asks -> Nat]
  /\ citations \in [Asks -> SUBSET CitationRows]
  /\ pc \in [Asks -> AskPc]
  /\ askConv \in [Asks -> Convs \cup {None}]
  /\ content \in [Asks -> Titles]
  /\ began \in [Asks -> Nat]
  /\ evidence \in [Asks -> SUBSET Hits]
  /\ retired \subseteq Chunks
  /\ now \in Nat \ {0}

Init ==
  /\ IndexInit
  /\ conv = [c \in Convs |-> "absent"]
  /\ title = [c \in Convs |-> Default]
  /\ updatedAt = [c \in Convs |-> 0]
  /\ questionAt = [a \in Asks |-> 0]
  /\ answerAt = [a \in Asks |-> 0]
  /\ citations = [a \in Asks |-> {}]
  /\ pc = [a \in Asks |-> "idle"]
  /\ askConv = [a \in Asks |-> None]
  /\ content = [a \in Asks |-> Default]
  /\ began = [a \in Asks |-> 0]
  /\ evidence = [a \in Asks |-> {}]
  /\ retired = {}
  /\ now = 1

ConvOf(a) == conv[askConv[a]]

GoTo(a, step) == pc' = [pc EXCEPT ![a] = step]

(* The first statement of a session without a transaction begins one. *)
BeginTransaction(a) ==
  /\ began' = [began EXCEPT ![a] = now]
  /\ now' = now + 1

-----------------------------------------------------------------------------
(* As in IngestionWorker, definitions named ...Faulty are not the code but *)
(* the operation of that name with one plausible mistake.                  *)

(* create and delete_conversation.                                         *)

CreateConversation(c) ==
  /\ conv[c] = "absent"
  /\ conv' = [conv EXCEPT ![c] = "live"]
  /\ \E t \in Titles : title' = [title EXCEPT ![c] = t]
  /\ updatedAt' = [updatedAt EXCEPT ![c] = now]
  /\ now' = now + 1
  /\ UNCHANGED <<indexVars, messageVars, askVars, retired>>

(* The rows of the messages and of their citations go with it, those that  *)
(* were inserted after it was loaded too (ON DELETE CASCADE).              *)
DeleteConversation(c) ==
  /\ conv[c] = "live"
  /\ conv' = [conv EXCEPT ![c] = "deleted"]
  /\ questionAt' = [a \in Asks |-> IF askConv[a] = c THEN 0 ELSE questionAt[a]]
  /\ answerAt' = [a \in Asks |-> IF askConv[a] = c THEN 0 ELSE answerAt[a]]
  /\ citations' = [a \in Asks |-> IF askConv[a] = c THEN {} ELSE citations[a]]
  /\ UNCHANGED <<indexVars, title, updatedAt, askVars, retired, now>>

-----------------------------------------------------------------------------
(* ask.                                                                    *)

(* The session's first read; a conversation that is missing, or another    *)
(* user's, is answered 404.                                                *)
BeginAsk(a, c, t) ==
  /\ pc[a] = "idle"
  /\ conv[c] = "live"
  /\ askConv' = [askConv EXCEPT ![a] = c]
  /\ content' = [content EXCEPT ![a] = t]
  /\ BeginTransaction(a)
  /\ GoTo(a, "started")
  /\ UNCHANGED <<indexVars, convVars, messageVars, evidence, retired>>

(* The conversation_id is not a foreign key. *)
SaveQuestionFaulty(a) ==
  /\ pc[a] = "started"
  /\ questionAt' = [questionAt EXCEPT ![a] = began[a]]
  /\ GoTo(a, "asked")
  /\ UNCHANGED <<indexVars, convVars, answerAt, citations, askConv, content, began,
                 evidence, retired, now>>

(* add_message: INSERT and commit. *)
SaveQuestion(a) ==
  /\ pc[a] = "started"
  /\ ConvOf(a) = "live"
  /\ questionAt' = [questionAt EXCEPT ![a] = began[a]]
  /\ GoTo(a, "asked")
  /\ UNCHANGED <<indexVars, convVars, answerAt, citations, askConv, content, began,
                 evidence, retired, now>>

(* The question is flushed and not committed: no new transaction. *)
RefreshQuestionFaulty(a) ==
  /\ pc[a] = "asked"
  /\ ConvOf(a) = "live"
  /\ GoTo(a, "embedding")
  /\ UNCHANGED <<indexVars, convVars, messageVars, askConv, content, began, evidence,
                 retired, now>>

(* add_message: refresh() begins the transaction that lasts until the      *)
(* answer is committed, over the embedding and the LLM call.               *)
RefreshQuestion(a) ==
  /\ pc[a] = "asked"
  /\ ConvOf(a) = "live"
  /\ BeginTransaction(a)
  /\ GoTo(a, "embedding")
  /\ UNCHANGED <<indexVars, convVars, messageVars, askConv, content, evidence, retired>>

(* embed_query returns, similarity_search reads the index, and             *)
(* select_supporting_evidence keeps some hits or, below its thresholds,    *)
(* none: then no LLM is called.                                            *)
Search(a) ==
  /\ pc[a] = "embedding"
  /\ \E hits \in SUBSET {h \in Hits : h.from \in searchable /\ h.cited \in indexed[h.from]} :
       /\ evidence' = [evidence EXCEPT ![a] = hits]
       /\ GoTo(a, IF hits = {} THEN "citing" ELSE "answering")
  /\ UNCHANGED <<indexVars, convVars, messageVars, askConv, content, began, retired, now>>

(* The LLM has answered. *)
CompleteAnswer(a) ==
  /\ pc[a] = "answering"
  /\ GoTo(a, "citing")
  /\ UNCHANGED <<indexVars, convVars, messageVars, askConv, content, began, evidence,
                 retired, now>>

CitationOf(h) == [hit |-> h, chunk |-> h.cited, doc |-> h.from]

(* A row the INSERT of a citation refers to. *)
StillThere(h) == document[h.from] = "live" /\ h.cited \in indexed[h.from]

(* Citations of rows that are gone are left out. *)
SaveAnswerFaulty(a) ==
  /\ pc[a] = "citing"
  /\ ConvOf(a) = "live"
  /\ answerAt' = [answerAt EXCEPT ![a] = began[a]]
  /\ citations' = [citations EXCEPT
       ![a] = {CitationOf(h) : h \in {g \in evidence[a] : StillThere(g)}}]
  /\ GoTo(a, "saved")
  /\ UNCHANGED <<indexVars, convVars, questionAt, askConv, content, began, evidence,
                 retired, now>>

(* save_assistant_with_citations: the answer and its citations in one      *)
(* commit.  The session may have been open for long: created_at is the     *)
(* time of RefreshQuestion.  The assignment of title to itself is no       *)
(* change, so that no UPDATE of the conversation is sent.                  *)
SaveAnswer(a) ==
  /\ pc[a] = "citing"
  /\ ConvOf(a) = "live"
  /\ \A h \in evidence[a] : StillThere(h)
  /\ answerAt' = [answerAt EXCEPT ![a] = began[a]]
  /\ citations' = [citations EXCEPT ![a] = {CitationOf(h) : h \in evidence[a]}]
  /\ GoTo(a, "saved")
  /\ UNCHANGED <<indexVars, convVars, questionAt, askConv, content, began, evidence,
                 retired, now>>

(* Every answered question names its conversation. *)
ReadTitleFaulty(a) ==
  /\ pc[a] = "saved"
  /\ ConvOf(a) = "live"
  /\ BeginTransaction(a)
  /\ GoTo(a, "titling")
  /\ UNCHANGED <<indexVars, convVars, messageVars, askConv, content, evidence, retired>>

(* refresh() of the answer begins a transaction; ask then reads the title  *)
(* and returns unless it is the default.                                   *)
ReadTitle(a) ==
  /\ pc[a] = "saved"
  /\ ConvOf(a) = "live"
  /\ BeginTransaction(a)
  /\ GoTo(a, IF title[askConv[a]] = Default THEN "titling" ELSE "done")
  /\ UNCHANGED <<indexVars, convVars, messageVars, askConv, content, evidence, retired>>

(* update_title.  The ORM sends an UPDATE, which sets updated_at, if the   *)
(* new title differs from the one this session has read.                   *)
UpdateTitle(a) ==
  LET c == askConv[a] IN
  /\ pc[a] = "titling"
  /\ ConvOf(a) = "live"
  /\ IF content[a] = Default
     THEN UNCHANGED <<title, updatedAt>>
     ELSE /\ title' = [title EXCEPT ![c] = content[a]]
          /\ updatedAt' = [updatedAt EXCEPT ![c] = began[a]]
  /\ GoTo(a, "done")
  /\ UNCHANGED <<indexVars, conv, messageVars, askConv, content, began, evidence,
                 retired, now>>

(* The conversation was deleted under the call: an INSERT violates its     *)
(* foreign key, or a refresh or an UPDATE finds no row.                    *)
ConversationVanished(a) ==
  /\ pc[a] \in {"started", "asked", "citing", "saved", "titling"}
  /\ ConvOf(a) = "deleted"
  /\ GoTo(a, "failed")
  /\ UNCHANGED <<indexVars, convVars, messageVars, askConv, content, began, evidence,
                 retired, now>>

(* A chunk or a document was replaced or deleted while the LLM answered:   *)
(* the INSERT of its citation violates a foreign key.                      *)
EvidenceVanished(a) ==
  /\ pc[a] = "citing"
  /\ \E h \in evidence[a] : ~StillThere(h)
  /\ GoTo(a, "failed")
  /\ UNCHANGED <<indexVars, convVars, messageVars, askConv, content, began, evidence,
                 retired, now>>

(* The embedding provider or the LLM raises. *)
ProviderFails(a) ==
  /\ pc[a] \in {"embedding", "answering"}
  /\ GoTo(a, "failed")
  /\ UNCHANGED <<indexVars, convVars, messageVars, askConv, content, began, evidence,
                 retired, now>>

Ask(a) ==
  \/ \E c \in Convs, t \in Titles : BeginAsk(a, c, t)
  \/ SaveQuestion(a) \/ RefreshQuestion(a) \/ Search(a) \/ CompleteAnswer(a)
  \/ SaveAnswer(a) \/ ReadTitle(a) \/ UpdateTitle(a)
  \/ ConversationVanished(a) \/ EvidenceVanished(a) \/ ProviderFails(a)

(* The process ends: its calls are gone, what they have committed stays. *)
Crash ==
  /\ \E a \in Asks : pc[a] \in InFlight
  /\ pc' = [a \in Asks |-> IF pc[a] \in InFlight THEN "failed" ELSE pc[a]]
  /\ UNCHANGED <<indexVars, convVars, messageVars, askConv, content, began, evidence,
                 retired, now>>

-----------------------------------------------------------------------------
(* The index moves under the conversations.                                *)

(* chunk_id is not a foreign key. *)
DereferencedFaulty(row) ==
  [row EXCEPT !.doc = IF @ # None /\ document'[@] = "live" THEN @ ELSE None]

(* ON DELETE SET NULL of citations.chunk_id and citations.document_id. *)
Dereferenced(row) ==
  [row EXCEPT !.chunk = IF \E d \in Docs : @ \in indexed'[d] THEN @ ELSE None,
              !.doc = IF @ # None /\ document'[@] = "live" THEN @ ELSE None]

IndexMoves ==
  /\ \/ \E d \in Docs : AddDocument(d) /\ retired' = retired
     \/ \E d \in Docs : RemoveDocument(d) /\ retired' = retired
     \/ \E d \in Docs, c \in Chunks \ retired :
          ReplaceChunks(d, c) /\ retired' = retired \cup {c}
     \/ Publish /\ retired' = retired
  /\ citations' = [a \in Asks |-> {Dereferenced(row) : row \in citations[a]}]
  /\ UNCHANGED <<convVars, questionAt, answerAt, askVars, now>>

Next ==
  \/ \E c \in Convs : CreateConversation(c) \/ DeleteConversation(c)
  \/ \E a \in Asks : Ask(a)
  \/ Crash
  \/ IndexMoves

Spec == Init /\ [][Next]_vars

-----------------------------------------------------------------------------
(* History is shown in the order of created_at.  An answer comes after its *)
(* question: the commit of the question separates the two transactions.    *)
AnswerFollowsQuestion ==
  \A a \in Asks : answerAt[a] # 0 => questionAt[a] # 0 /\ questionAt[a] < answerAt[a]

(* A citation refers to the chunk and the document it was made from, or    *)
(* to nothing: never to a row that is gone, nor to a chunk without its     *)
(* document, although reprocess and delete run during the call.            *)
CitationsResolve ==
  \A a \in Asks : \A row \in citations[a] :
    /\ row.doc # None => row.doc = row.hit.from /\ document[row.doc] = "live"
    /\ row.chunk # None => /\ row.chunk = row.hit.cited
                           /\ row.doc # None
                           /\ row.chunk \in indexed[row.doc]

(* ask returns normally only when question and answer are stored, and the  *)
(* answer keeps a citation for every hit it was given, also when the       *)
(* documents are later reprocessed or deleted.                             *)
AnswerKeepsSources ==
  \A a \in Asks : pc[a] \in {"saved", "titling", "done"} /\ ConvOf(a) = "live" =>
    /\ answerAt[a] # 0
    /\ {row.hit : row \in citations[a]} = evidence[a]

(* A conversation deleted during a call stays deleted: the call leaves no  *)
(* message and no citation behind.                                         *)
DeletedStaysEmpty ==
  \A a \in Asks : askConv[a] # None /\ ConvOf(a) = "deleted" =>
    questionAt[a] = 0 /\ answerAt[a] = 0 /\ citations[a] = {}

(* Title t of conversation c is the beginning of a question answered in it. *)
NamedBy(a, c, t) == askConv[a] = c /\ content[a] = t /\ answerAt[a] # 0

(* A conversation is named by a question that is answered in it, and by    *)
(* one only: a name given at creation is never replaced, and the name one  *)
(* question has given only by another answered one (of two first questions *)
(* that overlap both read the default title, and the later write wins).    *)
NamesAreEarned ==
  [][\A c \in Convs : conv[c] = "live" /\ title'[c] # title[c] =>
       /\ \E a \in Asks : NamedBy(a, c, title'[c])
       /\ title[c] = Default \/ \E a \in Asks : NamedBy(a, c, title[c])]_vars

(* Saving an answer touches updated_at, by which the conversations are     *)
(* listed: a conversation is not older than a question answered in it.     *)
(* save_assistant_with_citations says so and does not do it.               *)
AnswerTouches ==
  \A a \in Asks : pc[a] = "done" /\ ConvOf(a) = "live" =>
    updatedAt[askConv[a]] >= questionAt[a]
=============================================================================
