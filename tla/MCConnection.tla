---------------------------- MODULE MCConnection ----------------------------
(* One connection, for TLC. *)
EXTENDS Connection
=============================================================================
