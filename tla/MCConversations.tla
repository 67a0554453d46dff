-------------------------- MODULE MCConversations --------------------------
(* Instances of Conversations for TLC. *)
EXTENDS ConversationProofs, TLC

Symmetry == Permutations(Asks) \cup Permutations(Chunks) \cup Permutations(Docs)
=============================================================================
