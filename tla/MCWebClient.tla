---------------------------- MODULE MCWebClient ----------------------------
(* An instance of WebClient for TLC. *)
EXTENDS WebClientProofs
=============================================================================
