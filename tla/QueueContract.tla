--------------------------- MODULE QueueContract ---------------------------
(***************************************************************************)
(* What threaded_queue promises to the threads that share one: a queue in  *)
(* which every operation happens at once.  Items leave in the order they   *)
(* came, each goes to one thread, and a queue that is finished neither     *)
(* takes nor gives items but keeps the ones it has for swap_data().        *)
(* ConnectionManager and Server use their queues this way.                 *)
(***************************************************************************)
EXTENDS Naturals, Sequences

CONSTANT Item

VARIABLES
    items,    \* what is in the queue
    finished, \* the queue is finished
    taken,    \* history: what was popped, in the order it was popped
    drained   \* history: what swap_data() returned

vars == <<items, finished, taken, drained>>

Init == items = <<>> /\ finished = FALSE /\ taken = <<>> /\ drained = <<>>

Push(i) ==
    /\ ~finished
    /\ items' = Append(items, i)
    /\ UNCHANGED <<finished, taken, drained>>

Pop ==
    /\ ~finished /\ items # <<>>
    /\ taken' = Append(taken, Head(items)) /\ items' = Tail(items)
    /\ UNCHANGED <<finished, drained>>

PopAll ==
    /\ ~finished /\ items # <<>>
    /\ taken' = taken \o items /\ items' = <<>>
    /\ UNCHANGED <<finished, drained>>

Finish == finished' = TRUE /\ UNCHANGED <<items, taken, drained>>

SwapData ==
    /\ finished
    /\ drained' = drained \o items /\ items' = <<>>
    /\ UNCHANGED <<finished, taken>>

Next == (\E i \in Item : Push(i)) \/ Pop \/ PopAll \/ Finish \/ SwapData

Spec == Init /\ [][Next]_vars
=============================================================================
