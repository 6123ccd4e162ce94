----------------------------- MODULE MCAssistant -----------------------------
(* Assistant for TLC: its constants are numbers and model values. *)
EXTENDS Assistant

ASSUME MaxProposals > 1
=============================================================================
