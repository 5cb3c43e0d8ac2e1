------------------------------- MODULE MCAgent -------------------------------
(* The instance of Agent for TLC; it has no constants. *)
EXTENDS Agent
=============================================================================
