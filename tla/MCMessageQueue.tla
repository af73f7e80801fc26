--------------------------- MODULE MCMessageQueue ---------------------------
(* The message queue with a few providers, for TLC. *)
EXTENDS MessageQueue
=============================================================================
