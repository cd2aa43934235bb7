----------------------------- MODULE CanQueueMC -----------------------------
(* Values of the constants of CanQueue for TLC. *)
EXTENDS CanQueue

MCMessage == {"a", "b"}
MCAnswers == {"x", "y"}
=============================================================================
