------------------------- MODULE ConversationProofs -------------------------
(***************************************************************************)
(* Safety of Conversations for every number of documents, chunks,          *)
(* conversations and questions.                                            *)
(***************************************************************************)
EXTENDS Conversations, TLAPS

-----------------------------------------------------------------------------
(* The inductive invariant, in named parts.                                *)

(* Chunk identities are not shared or reused, and chunks have a document. *)
IndexSound ==
  /\ \A d \in Docs : indexed[d] \subseteq retired
  /\ \A d, e \in Docs : \A k \in indexed[d] \cap indexed[e] : d = e
  /\ \A d \in Docs : document[d] # "live" => indexed[d] = {}

(* A call has a conversation, once begun; one not begun has stored nothing. *)
CallHasConversation ==
  /\ \A a \in Asks : pc[a] # "idle" => askConv[a] \in Convs /\ ConvOf(a) # "absent"
  /\ \A a \in Asks : pc[a] = "idle" => /\ askConv[a] = None
                                       /\ questionAt[a] = 0 /\ answerAt[a] = 0
                                       /\ citations[a] = {}

(* The answer is stored by SaveAnswer and not before. *)
AnswerIsLast ==
  \A a \in Asks : pc[a] \in {"started", "asked", "embedding", "answering", "citing"} =>
    answerAt[a] = 0 /\ citations[a] = {}

(* How the transactions of a call that is under way lie in time. *)
CallIsTimed ==
  \A a \in Asks :
    /\ began[a] < now
    /\ pc[a] = "started" => began[a] # 0
    /\ pc[a] = "asked" /\ ConvOf(a) = "live" => questionAt[a] = began[a] /\ began[a] # 0
    /\ pc[a] \in {"embedding", "answering", "citing"} /\ ConvOf(a) = "live" =>
         questionAt[a] # 0 /\ questionAt[a] < began[a]

HistoryInv ==
  /\ TypeOK
  /\ IndexSound
  /\ CallHasConversation
  /\ AnswerIsLast
  /\ CallIsTimed
  /\ AnswerFollowsQuestion
  /\ CitationsResolve
  /\ AnswerKeepsSources
  /\ DeletedStaysEmpty

-----------------------------------------------------------------------------
(* One step of a call.                                                     *)

(* The rows written for hits name those hits.                              *)
LEMMA HitsOfCitations ==
  ASSUME NEW hits
  PROVE  {row.hit : row \in {CitationOf(h) : h \in hits}} = hits
  <1> DEFINE cites == {CitationOf(h) : h \in hits}
  <1>1. \A h \in hits : CitationOf(h).hit = h
    BY DEF CitationOf
  <1>2. ASSUME NEW g \in {row.hit : row \in cites} PROVE g \in hits
    BY <1>1, <1>2, Zenon
  <1>3. ASSUME NEW g \in hits PROVE g \in {row.hit : row \in cites}
    BY <1>1, <1>3, Zenon
  <1>4. QED
    BY <1>2, <1>3, Zenon

(* A step of a question keeps the history sound.                           *)
LEMMA AskStep ==
  ASSUME HistoryInv, NEW a \in Asks, Ask(a)
  PROVE  HistoryInv'
  <1> USE DEF HistoryInv, GoTo, BeginTransaction, ConvOf, convVars, messageVars, askVars,
              indexVars, Ask, BeginAsk, SaveQuestion, RefreshQuestion, Search, CompleteAnswer,
              SaveAnswer, ReadTitle, UpdateTitle, ConversationVanished, EvidenceVanished,
              ProviderFails, TypeOK, AskPc
  <1>1. /\ UNCHANGED <<indexVars, conv, retired>>
        /\ \A b \in Asks : b # a => /\ pc'[b] = pc[b] /\ askConv'[b] = askConv[b]
                                    /\ began'[b] = began[b] /\ evidence'[b] = evidence[b]
                                    /\ questionAt'[b] = questionAt[b]
                                    /\ answerAt'[b] = answerAt[b]
                                    /\ citations'[b] = citations[b]
        /\ now' \in {now, now + 1}
    OBVIOUS
  <1>2. TypeOK'
    BY DEF IndexTypeOK, CallHasConversation, CitationOf, CitationRows, Hits
  <1>3. IndexSound'
    BY <1>1 DEF IndexSound
  <1>4. CallHasConversation'
    BY <1>1 DEF CallHasConversation
  <1>5. AnswerIsLast'
    BY <1>1 DEF CallHasConversation, AnswerIsLast
  <1>6. CallIsTimed'
    BY <1>1 DEF CallIsTimed
  <1>7. AnswerFollowsQuestion'
    BY <1>1 DEF CallIsTimed, AnswerIsLast, AnswerFollowsQuestion
  <1>8. ASSUME SaveAnswer(a) PROVE CitationsResolve' /\ AnswerKeepsSources'
    <2>1. citations'[a] = {CitationOf(h) : h \in evidence[a]} /\ evidence'[a] = evidence[a]
      BY <1>8
    <2>2. \A h \in evidence[a] : StillThere(h) /\ h.from # None
      BY <1>8, NoneIsNoRow DEF Hits
    <2>3. CitationsResolve'
      BY <1>1, <2>1, <2>2 DEF CitationsResolve, CitationOf, StillThere
    <2>4. {row.hit : row \in citations'[a]} = evidence'[a]
      BY <2>1, HitsOfCitations
    <2>5. answerAt'[a] # 0 \/ ConvOf(a)' # "live"
      BY <1>8 DEF CallIsTimed
    <2>6. AnswerKeepsSources'
      BY <1>1, <2>4, <2>5 DEF AnswerKeepsSources
    <2>7. QED
      BY <2>3, <2>6
  <1>9. ASSUME ~SaveAnswer(a) PROVE CitationsResolve' /\ AnswerKeepsSources'
    <2>1. citations' = citations
      BY <1>9
    <2>2. pc'[a] \in {"saved", "titling", "done"} =>
            pc[a] \in {"saved", "titling", "done"} /\ UNCHANGED <<answerAt, evidence, askConv>>
      BY <1>9
    <2>3. CitationsResolve'
      BY <1>1, <2>1 DEF CitationsResolve
    <2>4. AnswerKeepsSources'
      BY <1>1, <2>1, <2>2 DEF AnswerKeepsSources
    <2>5. QED
      BY <2>3, <2>4
  <1>10. DeletedStaysEmpty'
    BY <1>1 DEF DeletedStaysEmpty
  <1>11. QED
    BY <1>2, <1>3, <1>4, <1>5, <1>6, <1>7, <1>8, <1>9, <1>10

-----------------------------------------------------------------------------
(* The other steps.                                                        *)

(* Creating or deleting a conversation keeps the history sound.            *)
LEMMA ConversationStep ==
  ASSUME HistoryInv, NEW c \in Convs, CreateConversation(c) \/ DeleteConversation(c)
  PROVE  HistoryInv'
  <1> USE DEF HistoryInv, ConvOf, convVars, messageVars, askVars, indexVars,
              CreateConversation, DeleteConversation, TypeOK
  <1>1. TypeOK' /\ IndexSound'
    BY DEF IndexTypeOK, IndexSound
  <1>2. CallHasConversation' /\ AnswerIsLast'
    BY DEF CallHasConversation, AnswerIsLast
  <1>3. CallIsTimed' /\ AnswerFollowsQuestion'
    BY DEF CallIsTimed, AnswerFollowsQuestion, CallHasConversation, AskPc
  <1>4. CitationsResolve'
    BY DEF CitationsResolve
  <1>5. AnswerKeepsSources'
    BY DEF AnswerKeepsSources, CallHasConversation
  <1>6. DeletedStaysEmpty'
    BY DEF DeletedStaysEmpty
  <1>7. QED
    BY <1>1, <1>2, <1>3, <1>4, <1>5, <1>6

(* A citation that loses its reference still names its hit.                *)
LEMMA HitsOfDereferenced ==
  ASSUME NEW cites, cites \subseteq CitationRows
  PROVE  {row.hit : row \in {Dereferenced(r) : r \in cites}} = {row.hit : row \in cites}
  <1> DEFINE after == {Dereferenced(r) : r \in cites}
  <1>1. \A r \in cites : Dereferenced(r).hit = r.hit
    BY DEF Dereferenced, CitationRows
  <1>2. ASSUME NEW g \in {row.hit : row \in after} PROVE g \in {row.hit : row \in cites}
    BY <1>1, <1>2, Zenon
  <1>3. ASSUME NEW g \in {row.hit : row \in cites} PROVE g \in {row.hit : row \in after}
    BY <1>1, <1>3, Zenon
  <1>4. QED
    BY <1>2, <1>3, Zenon

(* Whatever the pipeline does to the index, the history stays sound.       *)
LEMMA IndexMovesStep ==
  ASSUME HistoryInv, IndexMoves
  PROVE  HistoryInv'
  <1> USE DEF HistoryInv, ConvOf, convVars, askVars, TypeOK, IndexTypeOK
  <1>1. /\ UNCHANGED <<convVars, questionAt, answerAt, askVars, now>>
        /\ citations' = [a \in Asks |-> {Dereferenced(row) : row \in citations[a]}]
    BY DEF IndexMoves
  <1>2. IndexTypeOK' /\ retired' \subseteq Chunks /\ IndexSound'
    BY DEF IndexMoves, AddDocument, RemoveDocument, ReplaceChunks, Publish, IndexSound
  <1>3. \A r \in CitationRows : /\ Dereferenced(r).hit = r.hit
                                /\ Dereferenced(r) \in CitationRows
    BY DEF Dereferenced, CitationRows
  <1>4. TypeOK'
    BY <1>1, <1>2, <1>3
  <1>5. CitationsResolve'
    <2>1. ASSUME NEW a \in Asks, NEW r \in citations[a]
          PROVE  /\ Dereferenced(r).doc # None =>
                      Dereferenced(r).doc = Dereferenced(r).hit.from
                      /\ document'[Dereferenced(r).doc] = "live"
                 /\ Dereferenced(r).chunk # None =>
                      /\ Dereferenced(r).chunk = Dereferenced(r).hit.cited
                      /\ Dereferenced(r).doc # None
                      /\ Dereferenced(r).chunk \in indexed'[Dereferenced(r).doc]
      <3>1. r \in CitationRows
        OBVIOUS
      <3>2. /\ r.doc # None => r.doc = r.hit.from /\ document[r.doc] = "live"
            /\ r.chunk # None => /\ r.chunk = r.hit.cited /\ r.doc # None
                                 /\ r.chunk \in indexed[r.doc]
        BY DEF CitationsResolve
      <3>3. \A d \in Docs : r.chunk \in indexed'[d] /\ r.chunk # None =>
                            d = r.doc /\ document'[d] = "live"
        BY <3>1, <3>2
           DEF IndexMoves, AddDocument, RemoveDocument, ReplaceChunks, Publish, IndexSound,
               CitationRows
      <3>4. QED
        BY <3>1, <3>2, <3>3, NoneIsNoRow DEF Dereferenced, CitationRows
    <2>2. QED
      BY <1>1, <2>1 DEF CitationsResolve
  <1>6. AnswerKeepsSources'
    BY <1>1, HitsOfDereferenced DEF AnswerKeepsSources
  <1>7. CallHasConversation' /\ AnswerIsLast' /\ CallIsTimed' /\ AnswerFollowsQuestion'
    BY <1>1 DEF CallHasConversation, AnswerIsLast, CallIsTimed, AnswerFollowsQuestion
  <1>8. DeletedStaysEmpty'
    BY <1>1 DEF DeletedStaysEmpty
  <1>9. QED
    BY <1>2, <1>4, <1>5, <1>6, <1>7, <1>8

(* The history is always sound.                                            *)
LEMMA HistoryInvHolds == Spec => []HistoryInv
  <1>1. Init => HistoryInv
    BY DefaultAssumption
       DEF Init, IndexInit, HistoryInv, TypeOK, IndexTypeOK, IndexSound, CallHasConversation,
           AnswerIsLast, CallIsTimed, AnswerFollowsQuestion, CitationsResolve,
           AnswerKeepsSources, DeletedStaysEmpty, AskPc
  <1>2. HistoryInv /\ [Next]_vars => HistoryInv'
    <2> SUFFICES ASSUME HistoryInv, [Next]_vars PROVE HistoryInv'
      OBVIOUS
    <2>1. CASE Crash
      BY <2>1 DEF Crash, HistoryInv, TypeOK, IndexTypeOK, IndexSound, CallHasConversation,
                  AnswerIsLast, CallIsTimed, AnswerFollowsQuestion, CitationsResolve,
                  AnswerKeepsSources, DeletedStaysEmpty, AskPc, InFlight, ConvOf,
                  convVars, messageVars, indexVars
    <2>2. CASE UNCHANGED vars
      BY <2>2 DEF vars, HistoryInv, TypeOK, IndexTypeOK, IndexSound, CallHasConversation,
                  AnswerIsLast, CallIsTimed, AnswerFollowsQuestion, CitationsResolve,
                  AnswerKeepsSources, DeletedStaysEmpty, ConvOf,
                  convVars, messageVars, askVars, indexVars
    <2>3. QED
      BY <2>1, <2>2, AskStep, ConversationStep, IndexMovesStep DEF Next
  <1>3. QED
    BY <1>1, <1>2, PTL DEF Spec

-----------------------------------------------------------------------------
(* The names of conversations.                                             *)

(* A call that has found the default title will find it, or the name a     *)
(* question has given, when it writes: nobody is about to replace a name   *)
(* given at creation.                                                      *)
NamesAreSafe ==
  \A a \in Asks : pc[a] = "titling" /\ ConvOf(a) = "live" =>
    \/ title[askConv[a]] = Default
    \/ \E b \in Asks : NamedBy(b, askConv[a], title[askConv[a]])

(* The answer of a question that is about to name its conversation is      *)
(* stored, and no step of a call takes an answer back.                     *)
LEMMA AnswersStay ==
  ASSUME HistoryInv, NEW a \in Asks, Ask(a)
  PROVE  /\ conv' = conv
         /\ \A b \in Asks : askConv[b] # None => askConv'[b] = askConv[b] /\ content'[b] = content[b]
         /\ \A b \in Asks : answerAt[b] # 0 => answerAt'[b] # 0
         /\ \A b \in Asks \ {a} : pc'[b] = pc[b]
         /\ UpdateTitle(a) => answerAt[a] # 0
  <1> USE DEF HistoryInv, GoTo, BeginTransaction, ConvOf, convVars, messageVars, askVars,
              indexVars, Ask, BeginAsk, SaveQuestion, RefreshQuestion, Search, CompleteAnswer,
              SaveAnswer, ReadTitle, UpdateTitle, ConversationVanished, EvidenceVanished,
              ProviderFails, TypeOK, AskPc
  <1>1. conv' = conv /\ \A b \in Asks \ {a} : pc'[b] = pc[b]
    OBVIOUS
  <1>2. \A b \in Asks : askConv[b] # None => askConv'[b] = askConv[b] /\ content'[b] = content[b]
    BY DEF CallHasConversation
  <1>3. \A b \in Asks : answerAt[b] # 0 => answerAt'[b] # 0
    BY DEF AnswerIsLast
  <1>4. UpdateTitle(a) => answerAt[a] # 0
    BY DEF AnswerKeepsSources
  <1>5. QED
    BY <1>1, <1>2, <1>3, <1>4

(* Only UpdateTitle renames a conversation; NamesAreSafe is kept, and what *)
(* NamesAreEarned says is true of the step.                                *)
LEMMA NameStep ==
  ASSUME HistoryInv, NamesAreSafe, [Next]_vars
  PROVE  /\ NamesAreSafe'
         /\ \A c \in Convs : conv[c] = "live" /\ title'[c] # title[c] =>
              /\ \E a \in Asks : NamedBy(a, c, title'[c])
              /\ title[c] = Default \/ \E a \in Asks : NamedBy(a, c, title[c])
  <1> DEFINE Earned ==
        \A c \in Convs : conv[c] = "live" /\ title'[c] # title[c] =>
          /\ \E a \in Asks : NamedBy(a, c, title'[c])
          /\ title[c] = Default \/ \E a \in Asks : NamedBy(a, c, title[c])
  <1> USE DEF ConvOf, convVars, messageVars, askVars, indexVars
  <1>0. /\ title \in [Convs -> Titles] /\ pc \in [Asks -> AskPc]
        /\ \A a \in Asks : pc[a] # "idle" => askConv[a] \in Convs /\ ConvOf(a) # "absent"
        /\ \A a \in Asks : answerAt[a] # 0 => askConv[a] # None /\ pc[a] # "idle"
        /\ None \notin Convs
    BY NoneIsNoRow DEF HistoryInv, TypeOK, CallHasConversation
  <1>1. ASSUME NEW a \in Asks, Ask(a) PROVE NamesAreSafe' /\ Earned
    <2>1. /\ conv' = conv
          /\ \A b \in Asks : askConv[b] # None => askConv'[b] = askConv[b] /\ content'[b] = content[b]
          /\ \A b \in Asks : answerAt[b] # 0 => answerAt'[b] # 0
          /\ \A b \in Asks \ {a} : pc'[b] = pc[b]
      BY <1>1, AnswersStay
    <2>2. \A b \in Asks, c \in Convs, t \in Titles : NamedBy(b, c, t) => NamedBy(b, c, t)'
      BY <1>0, <2>1 DEF NamedBy
    <2>3. \A b \in Asks : pc'[b] = "titling" => pc[b] = "titling" \/ (b = a /\ ReadTitle(a))
      <3>1. CASE ReadTitle(a)
        BY <2>1, <3>1
      <3>2. CASE SaveQuestion(a) \/ RefreshQuestion(a)
        BY <1>0, <2>1, <3>2 DEF SaveQuestion, RefreshQuestion, GoTo
      <3>3. CASE Search(a) \/ CompleteAnswer(a) \/ SaveAnswer(a) \/ UpdateTitle(a)
        BY <1>0, <2>1, <3>3 DEF Search, CompleteAnswer, SaveAnswer, UpdateTitle, GoTo
      <3>4. CASE ConversationVanished(a) \/ EvidenceVanished(a) \/ ProviderFails(a)
        BY <1>0, <2>1, <3>4 DEF ConversationVanished, EvidenceVanished, ProviderFails, GoTo
      <3>5. ASSUME NEW c \in Convs, NEW t \in Titles, BeginAsk(a, c, t)
            PROVE  pc'[a] # "titling"
        BY <1>0, <3>5 DEF BeginAsk, GoTo
      <3>6. QED
        BY <1>1, <2>1, <3>1, <3>2, <3>3, <3>4, <3>5 DEF Ask
    <2>4. CASE title' = title
      <3>1. ASSUME NEW b \in Asks, pc'[b] = "titling", ConvOf(b)' = "live"
            PROVE  \/ title[askConv[b]] = Default
                   \/ \E d \in Asks : NamedBy(d, askConv[b], title[askConv[b]])
        <4>1. CASE pc[b] = "titling"
          BY <1>0, <2>1, <3>1, <4>1 DEF NamesAreSafe
        <4>2. CASE b = a /\ ReadTitle(a)
          BY <1>0, <3>1, <4>2 DEF ReadTitle, GoTo
        <4>3. QED
          BY <2>3, <3>1, <4>1, <4>2
      <3>2. \A b \in Asks : pc'[b] = "titling" => askConv'[b] = askConv[b] /\ askConv[b] \in Convs
        BY <1>0, <2>1, <2>3 DEF ReadTitle
      <3>3. NamesAreSafe'
        BY <1>0, <2>2, <2>4, <3>1, <3>2 DEF NamesAreSafe
      <3>4. QED
        BY <2>4, <3>3
    <2>5. CASE UpdateTitle(a) /\ title' # title
      <3>1. PICK c \in Convs : c = askConv[a] /\ conv[c] = "live" /\ pc[a] = "titling"
        BY <1>0, <2>5 DEF UpdateTitle
      <3>2. /\ title' = [title EXCEPT ![c] = content[a]]
            /\ content' = content /\ askConv' = askConv /\ answerAt' = answerAt
        BY <2>5, <3>1 DEF UpdateTitle
      <3>3. NamedBy(a, c, content[a])
        BY <1>1, <2>5, <3>1, AnswersStay DEF NamedBy
      <3>4. Earned
        BY <1>0, <3>1, <3>2, <3>3 DEF NamesAreSafe
      <3>5. pc'[a] # "titling" /\ \A b \in Asks : pc'[b] = "titling" => pc[b] = "titling"
        BY <1>0, <2>3, <2>5 DEF UpdateTitle, ReadTitle, GoTo
      <3>6. ASSUME NEW b \in Asks, pc'[b] = "titling", ConvOf(b)' = "live"
            PROVE  \/ title'[askConv[b]] = Default
                   \/ \E d \in Asks : NamedBy(d, askConv[b], title'[askConv[b]])
        <4>1. CASE askConv[b] = c
          BY <1>0, <3>2, <3>3, <4>1
        <4>2. CASE askConv[b] # c
          BY <1>0, <2>1, <3>2, <3>5, <3>6, <4>2 DEF NamesAreSafe
        <4>3. QED
          BY <4>1, <4>2
      <3>7. NamesAreSafe'
        BY <3>2, <3>6 DEF NamesAreSafe, NamedBy
      <3>8. QED
        BY <3>4, <3>7
    <2>6. QED
      BY <1>1, <2>4, <2>5
         DEF Ask, BeginAsk, SaveQuestion, RefreshQuestion, Search, CompleteAnswer,
             SaveAnswer, ReadTitle, ConversationVanished, EvidenceVanished, ProviderFails
  <1>2. ASSUME NEW c \in Convs, CreateConversation(c) \/ DeleteConversation(c)
        PROVE  NamesAreSafe' /\ Earned
    <2>1. /\ UNCHANGED <<pc, askConv, content>>
          /\ \A d \in Convs : conv[d] = "live" => title'[d] = title[d]
          /\ \A d \in Convs \ {c} : conv'[d] = conv[d] /\ title'[d] = title[d]
          /\ conv[c] = "absent" \/ conv'[c] # "live"
      BY <1>0, <1>2 DEF CreateConversation, DeleteConversation, HistoryInv, TypeOK
    <2>2. \A b \in Asks : askConv[b] # c => answerAt'[b] = answerAt[b]
      BY <1>2 DEF CreateConversation, DeleteConversation, HistoryInv, TypeOK
    <2>3. NamesAreSafe'
      BY <1>0, <2>1, <2>2 DEF NamesAreSafe, NamedBy
    <2>4. QED
      BY <2>1, <2>3
  <1>3. CASE Crash
    BY <1>0, <1>3 DEF Crash, InFlight, NamesAreSafe, NamedBy
  <1>4. CASE IndexMoves \/ UNCHANGED vars
    BY <1>4 DEF IndexMoves, vars, NamesAreSafe, NamedBy
  <1>5. QED
    BY <1>1, <1>2, <1>3, <1>4 DEF Next

-----------------------------------------------------------------------------
(* Every reachable state is well typed.                                    *)
THEOREM TypeCorrect == Spec => []TypeOK
  BY HistoryInvHolds, PTL DEF HistoryInv

(* In the history of a conversation, ordered by created_at, an answer      *)
(* comes after its question, however the calls of ask overlap              *)
(* (add_message commits before the answer's transaction begins).           *)
THEOREM AnswersFollow == Spec => []AnswerFollowsQuestion
  BY HistoryInvHolds, PTL DEF HistoryInv

(* No citation ever refers to a chunk or a document that is gone, although *)
(* the index is replaced and deleted between the search of a call, its     *)
(* INSERT and later (the foreign keys of citations and their SET NULL).    *)
THEOREM CitationsAreSound == Spec => []CitationsResolve
  BY HistoryInvHolds, PTL DEF HistoryInv

(* An answer that was returned names every source it was drawn from, for   *)
(* as long as its conversation exists (save_assistant_with_citations).     *)
THEOREM SourcesKept == Spec => []AnswerKeepsSources
  BY HistoryInvHolds, PTL DEF HistoryInv

(* A call of ask never writes into a conversation that was deleted under   *)
(* it (the foreign keys of messages).                                      *)
THEOREM DeletedEmpty == Spec => []DeletedStaysEmpty
  BY HistoryInvHolds, PTL DEF HistoryInv

(* For any number of overlapping questions, a conversation is renamed only *)
(* by a question that is answered in it, and a name given at creation      *)
(* stands (the title is compared with the default after the answer was     *)
(* committed).                                                             *)
THEOREM NamesEarned == Spec => NamesAreEarned
  <1>1. Init => NamesAreSafe
    BY DEF Init, NamesAreSafe
  <1>2. HistoryInv /\ NamesAreSafe /\ [Next]_vars => NamesAreSafe'
    BY NameStep
  <1>3. HistoryInv /\ NamesAreSafe /\ [Next]_vars =>
          [\A c \in Convs : conv[c] = "live" /\ title'[c] # title[c] =>
             /\ \E a \in Asks : NamedBy(a, c, title'[c])
             /\ title[c] = Default \/ \E a \in Asks : NamedBy(a, c, title[c])]_vars
    BY NameStep
  <1>4. QED
    BY <1>1, <1>2, <1>3, HistoryInvHolds, PTL DEF Spec, NamesAreEarned
=============================================================================
