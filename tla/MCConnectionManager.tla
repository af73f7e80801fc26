------------------------ MODULE MCConnectionManager ------------------------
(* The connection manager and two listener threads, for TLC. *)
EXTENDS ConnectionManager

CONSTANTS alice, news

MCOneThread == [n \in {alice} |-> 1]
=============================================================================
