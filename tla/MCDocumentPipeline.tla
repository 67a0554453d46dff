------------------------ MODULE MCDocumentPipeline -------------------------
(* Instances of DocumentPipeline for TLC. *)
EXTENDS DocumentPipelineProofs, TLC

Symmetry == Permutations(Jobs) \cup Permutations(Requests)
=============================================================================
