------------------------------ MODULE MCServer ------------------------------
(* A server with a few threads, for TLC. *)
EXTENDS Server
=============================================================================
