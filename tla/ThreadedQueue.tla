--------------------------- MODULE ThreadedQueue ---------------------------
(***************************************************************************)
(* details/threaded_queue.hpp: the queue between the io thread and the     *)
(* threads of the handler invoker and of the listeners, with its mutex and *)
(* its condition variable.                                                 *)
(*                                                                         *)
(* Producers call push(), consumers call pop() or pop_all() in a loop that *)
(* ends when the call returns false, and a stopper calls finish() and then *)
(* swap_data(), as threaded_handler_invoker::wait_for_complete does.  A    *)
(* waiting thread may wake up without having been notified.                *)
(***************************************************************************)
EXTENDS Integers, Sequences

CONSTANTS
    Producers,  \* threads that push
    Consumers,  \* threads that pop
    Stoppers,   \* threads that finish the queue
    AllTakers,  \* the consumers that call pop_all(), not pop()
    MaxItems,   \* bound on the items of a producer
    MaxSpurious \* bound on the wake-ups without a notification

NoOne == "no one"

Threads == Producers \union Consumers \union Stoppers

\* An item is known by its producer and its number; Garbage is what front()
\* of an empty deque refers to.
Item    == Producers \X (1..MaxItems)
Garbage == "garbage"

ASSUME BoundAssumption == MaxItems \in Nat /\ MaxSpurious \in Nat
ASSUME ThreadAssumption ==
    /\ Producers \intersect Consumers = {}
    /\ Producers \intersect Stoppers = {}
    /\ Consumers \intersect Stoppers = {}
    /\ NoOne \notin Threads

VARIABLES
    items,    \* items_
    finished, \* finished_
    mutex,    \* who has mutex_
    at,       \* where each thread is
    sent,     \* number of items each producer pushed
    spurious, \* number of wake-ups without a notification
    taken,    \* history: what was popped, in the order it was popped
    drained   \* history: what swap_data() returned

queueVars == <<items, finished, taken, drained>>
vars == <<queueVars, mutex, at, sent, spurious>>

\* The places in the calls where a thread has the mutex.
Inside == {"push", "check", "sleep", "take", "set", "notify", "swap", "unlock", "leave"}
Place  == Inside \union {"out", "lock", "wait", "relock", "done"}

TypeOK ==
    /\ items \in Seq(Item)
    /\ finished \in BOOLEAN
    /\ mutex \in Threads \union {NoOne}
    /\ at \in [Threads -> Place]
    /\ sent \in [Producers -> 0..MaxItems]
    /\ spurious \in 0..MaxSpurious
    /\ taken \in Seq(Item)
    /\ drained \in Seq(Item)

Init ==
    /\ items = <<>>
    /\ finished = FALSE
    /\ mutex = NoOne
    /\ at = [t \in Threads |-> "out"]
    /\ sent = [p \in Producers |-> 0]
    /\ spurious = 0
    /\ taken = <<>>
    /\ drained = <<>>

Go(t, place) == at' = [at EXCEPT ![t] = place]

-----------------------------------------------------------------------------
(* scoped_lock.                                                            *)

\* A stopper that has finished the queue comes back for what is in it.
FirstPlace(t) ==
    IF t \in Producers THEN "push"
    ELSE IF t \in Consumers THEN "check"
    ELSE IF at[t] = "relock" THEN "swap" ELSE "set"

Call(t) ==
    /\ at[t] = "out" /\ (t \in Producers => sent[t] < MaxItems)
    /\ Go(t, "lock")
    /\ UNCHANGED <<queueVars, mutex, sent, spurious>>

Lock(t) ==
    /\ at[t] \in {"lock", "relock"} /\ mutex = NoOne
    /\ mutex' = t
    /\ Go(t, FirstPlace(t))
    /\ UNCHANGED <<queueVars, sent, spurious>>

\* The end of the scope.  A thread that leaves does not call again.
Unlock(t) ==
    /\ at[t] \in {"unlock", "leave"}
    /\ mutex' = NoOne
    /\ Go(t, IF at[t] = "leave" THEN "done" ELSE IF t \in Stoppers THEN "relock" ELSE "out")
    /\ UNCHANGED <<queueVars, sent, spurious>>

-----------------------------------------------------------------------------
(* The condition variable.                                                 *)

\* Mutation: notify_one(), which wakes one waiting thread.
NotifyOne(t) ==
    /\ at[t] = "notify"
    /\ IF \E u \in Threads : at[u] = "wait"
       THEN at' = [at EXCEPT ![t] = "unlock", ![CHOOSE u \in Threads : at[u] = "wait"] = "lock"]
       ELSE Go(t, "unlock")
    /\ UNCHANGED <<queueVars, mutex, sent, spurious>>

\* notify_all().
Notify(t) ==
    /\ at[t] = "notify"
    /\ at' = [u \in Threads |-> IF u = t THEN "unlock" ELSE IF at[u] = "wait" THEN "lock" ELSE at[u]]
    /\ UNCHANGED <<queueVars, mutex, sent, spurious>>

\* wait() lets the mutex go and begins to wait at once.
Wait(t) ==
    /\ at[t] = "sleep"
    /\ mutex' = NoOne
    /\ Go(t, "wait")
    /\ UNCHANGED <<queueVars, sent, spurious>>

WakeUp(t) ==
    /\ at[t] = "wait" /\ spurious < MaxSpurious
    /\ spurious' = spurious + 1
    /\ Go(t, "lock")
    /\ UNCHANGED <<queueVars, mutex, sent>>

-----------------------------------------------------------------------------
(* push, pop, pop_all, finish and swap_data, with the mutex held.          *)

\* Mutation: push() does not look at finished_.
PushAlways(p) ==
    /\ at[p] = "push"
    /\ sent' = [sent EXCEPT ![p] = @ + 1]
    /\ items' = Append(items, <<p, sent'[p]>>)
    /\ Go(p, "notify")
    /\ UNCHANGED <<finished, mutex, spurious, taken, drained>>

\* Mutation: push() wakes nobody.
PushSilently(p) ==
    /\ at[p] = "push"
    /\ sent' = [sent EXCEPT ![p] = @ + 1]
    /\ items' = IF finished THEN items ELSE Append(items, <<p, sent'[p]>>)
    /\ Go(p, "unlock")
    /\ UNCHANGED <<finished, mutex, spurious, taken, drained>>

Push(p) ==
    /\ at[p] = "push"
    /\ sent' = [sent EXCEPT ![p] = @ + 1]
    /\ IF finished
       THEN UNCHANGED items /\ Go(p, "unlock")
       ELSE items' = Append(items, <<p, sent'[p]>>) /\ Go(p, "notify")
    /\ UNCHANGED <<finished, mutex, spurious, taken, drained>>

\* The loop around wait() and the test after it.
Check(c) ==
    /\ at[c] = "check"
    /\ Go(c, IF finished THEN "leave" ELSE IF items = <<>> THEN "sleep" ELSE "take")
    /\ UNCHANGED <<queueVars, mutex, sent, spurious>>

Front == IF items = <<>> THEN Garbage ELSE Head(items)
Rest  == IF items = <<>> THEN <<>> ELSE Tail(items)

Take(c) ==
    /\ at[c] = "take"
    /\ IF c \in AllTakers
       THEN taken' = taken \o items /\ items' = <<>>
       ELSE taken' = Append(taken, Front) /\ items' = Rest
    /\ Go(c, "unlock")
    /\ UNCHANGED <<finished, mutex, sent, spurious, drained>>

\* Mutation: finish() wakes nobody.
FinishSilently(s) ==
    /\ at[s] = "set"
    /\ finished' = TRUE
    /\ Go(s, "unlock")
    /\ UNCHANGED <<items, mutex, sent, spurious, taken, drained>>

Finish(s) ==
    /\ at[s] = "set"
    /\ finished' = TRUE
    /\ Go(s, "notify")
    /\ UNCHANGED <<items, mutex, sent, spurious, taken, drained>>

SwapData(s) ==
    /\ at[s] = "swap"
    /\ drained' = drained \o items /\ items' = <<>>
    /\ Go(s, "leave")
    /\ UNCHANGED <<finished, mutex, sent, spurious, taken>>

-----------------------------------------------------------------------------

\* What a thread does on its own account; nobody counts on WakeUp.
Step(t) ==
    \/ Call(t) \/ Lock(t) \/ Unlock(t) \/ Notify(t) \/ Wait(t)
    \/ t \in Producers /\ Push(t)
    \/ t \in Consumers /\ (Check(t) \/ Take(t))
    \/ t \in Stoppers /\ (Finish(t) \/ SwapData(t))

Next == \E t \in Threads : Step(t) \/ WakeUp(t)

Spec == Init /\ [][Next]_vars

\* Every thread gets to run, except that nobody has to stop the queue.  The
\* calls of the producers and the wake-ups are bounded, so that a thread that
\* wants the mutex does not compete for it forever.
Fairness ==
    /\ \A t \in Producers \union Consumers : WF_vars(Step(t))
    /\ \A s \in Stoppers : WF_vars(Step(s) /\ at[s] # "out")

FairSpec == Spec /\ Fairness

-----------------------------------------------------------------------------
(* Properties.                                                             *)

\* Seen from outside, every call happens at once.
Contract == INSTANCE QueueContract
                WITH Item <- Item, items <- items, finished <- finished,
                     taken <- taken, drained <- drained
KeepsContract == Contract!Spec

\* No wake-up is lost: when nobody is inside the queue, a thread waits only
\* for a queue that is empty and not finished.
NobodySleepsOnWork ==
    mutex = NoOne /\ (\E c \in Consumers : at[c] = "wait") => items = <<>> /\ ~finished

\* Every item that was pushed is popped unless the queue is finished.
ItemIsTaken ==
    \A i \in Item :
        (\E k \in DOMAIN items : items[k] = i)
            ~> (finished \/ \E k \in DOMAIN taken : taken[k] = i)

\* finish() ends every consumer, so that join_all() returns.
ConsumersEnd == finished ~> (\A c \in Consumers : at[c] = "done")
=============================================================================
