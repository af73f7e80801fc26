-------------------------- MODULE ListenerContract --------------------------
(***************************************************************************)
(* What the connection listeners of an application may rely on, whatever   *)
(* the threads of the server do (xiva/connection_listener.hpp).            *)
(*                                                                         *)
(* Listeners are numbered in the order they were added.  Each hears of a   *)
(* connection at most once that it opened and, only if it agreed to it, at *)
(* most once that it closed.  The listeners are nested: one hears of a     *)
(* connection only while all the listeners before it have it open, and     *)
(* that it closed only when no listener after it has it open.              *)
(***************************************************************************)
EXTENDS Naturals

CONSTANTS
    NListeners,   \* number of listeners
    Connections   \* connections

VARIABLE view     \* view[l][c]: what listener l was told of connection c

Listeners == 1..NListeners
Views     == {"unknown", "open", "refused", "closed"}

Init == view = [l \in Listeners |-> [c \in Connections |-> "unknown"]]

Opened(l, c, answer) ==
    /\ view[l][c] = "unknown"
    /\ \A k \in Listeners : k < l => view[k][c] = "open"
    /\ view' = [view EXCEPT ![l][c] = answer]

Closed(l, c) ==
    /\ view[l][c] = "open"
    /\ \A k \in Listeners : k > l => view[k][c] # "open"
    /\ view' = [view EXCEPT ![l][c] = "closed"]

Next ==
    \E l \in Listeners, c \in Connections :
        \/ Opened(l, c, "open")
        \/ Opened(l, c, "refused")
        \/ Closed(l, c)

Spec == Init /\ [][Next]_view
=============================================================================
