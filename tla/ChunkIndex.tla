----------------------------- MODULE ChunkIndex -----------------------------
(***************************************************************************)
(* What the document pipeline promises to the readers of the index: the    *)
(* chunks of a document are replaced as a whole, a document that search    *)
(* may meet has chunks, and they go when it goes.  DocumentPipeline        *)
(* implements this module; Conversations runs on top of it.                *)
(***************************************************************************)
CONSTANTS Docs, Chunks

VARIABLES
  document,   \* whether there is a documents row
  indexed,    \* the document_chunks rows of each document
  searchable  \* COMPLETED with the active provider

indexVars == <<document, indexed, searchable>>

IndexTypeOK ==
  /\ document \in [Docs -> {"absent", "live", "deleted"}]
  /\ indexed \in [Docs -> SUBSET Chunks]
  /\ searchable \subseteq Docs

IndexInit ==
  /\ document = [d \in Docs |-> "absent"]
  /\ indexed = [d \in Docs |-> {}]
  /\ searchable = {}

(* An upload commits the documents row. *)
AddDocument(d) ==
  /\ document[d] = "absent"
  /\ document' = [document EXCEPT ![d] = "live"]
  /\ UNCHANGED <<indexed, searchable>>

(* replace_version_chunks: the old rows and the new ones in one commit.    *)
(* c stands for all the rows one attempt writes.                           *)
ReplaceChunks(d, c) ==
  /\ document[d] = "live"
  /\ indexed' = [indexed EXCEPT ![d] = {c}]
  /\ UNCHANGED <<document, searchable>>

(* Statuses move, or the API restarts with another provider. *)
Publish ==
  /\ searchable' \in SUBSET {d \in Docs : document[d] = "live" /\ indexed[d] # {}}
  /\ UNCHANGED <<document, indexed>>

(* The delete of a documents row cascades to its chunks. *)
RemoveDocument(d) ==
  /\ document[d] = "live"
  /\ document' = [document EXCEPT ![d] = "deleted"]
  /\ indexed' = [indexed EXCEPT ![d] = {}]
  /\ searchable' = searchable \ {d}

IndexNext ==
  \/ \E d \in Docs : AddDocument(d) \/ RemoveDocument(d)
  \/ \E d \in Docs, c \in Chunks : ReplaceChunks(d, c)
  \/ Publish

IndexSpec == IndexInit /\ [][IndexNext]_indexVars
=============================================================================
