-------------------------- MODULE MCThreadedQueue --------------------------
(* A queue with two producers and two consumers, for TLC. *)
EXTENDS ThreadedQueue
=============================================================================
