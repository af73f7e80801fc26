----------------------- MODULE ConnectionManagerProofs -----------------------
(***************************************************************************)
(* The connection manager, the listener threads and the guards implement   *)
(* ListenerContract, for any number of connections, names, threads and     *)
(* listeners, whether or not addresses are reused.                         *)
(*                                                                         *)
(* A thread that is in the middle of a round of calls knows what each      *)
(* listener was told of its connection (Staged), and so does the guard of  *)
(* a connection that is in no thread's hands (Viewed).  No second thread   *)
(* can have the same connection in hand because all the items of a         *)
(* connection carry its name and the name chooses the thread (Routed).     *)
(*                                                                         *)
(* The same naming of the threads puts the notifications of connections    *)
(* that a listener cannot tell apart into one line, where the closing of   *)
(* the first comes before the opening of the second (Order); and the       *)
(* counters of the statistics follow the registered connections (Counted). *)
(***************************************************************************)
EXTENDS ConnectionManager, FiniteSetTheorems, TLAPS

Types ==
    /\ phase \in [Connections -> {"new", "registered", "closed", "freed"}]
    /\ name \in [Connections -> Names]
    /\ queues \in [Threads -> Seq(Item)]
    /\ threads \in [Threads -> Thread]
    /\ guard \in [Connections -> {"none", "opened", "ok", "canceled", "closed"}]
    /\ view \in [Listeners -> [Connections -> {"unknown", "open", "refused", "closed"}]]

\* An item is on the thread of its name, and the item of a connection bears
\* the name the connection was registered with.
ItemOK(t, item) ==
    /\ NListeners > 0
    /\ ThreadOf[item.to] = t
    /\ item.kind # "disconnected" => phase[item.c] # "new" /\ name[item.c] = item.to

AllOK(t, s) == \A i \in DOMAIN s : ItemOK(t, s[i])

Routed == \A t \in Threads : AllOK(t, queues[t]) /\ AllOK(t, threads[t].batch)

Busy(t) == threads[t].doing \in {"opening", "undoing", "closing"}

\* What the listeners were told of the connection a thread has in hand.
StageOK(t) ==
    /\ Busy(t) => threads[t].batch # <<>> /\ Current(t).kind # "disconnected"
    /\ Doing(t, "opening") =>
          /\ threads[t].at \in 1..NListeners
          /\ guard[Current(t).c] = "opened"
          /\ \A l \in Listeners :
                /\ l < threads[t].at => view[l][Current(t).c] = "open"
                /\ l >= threads[t].at => view[l][Current(t).c] = "unknown"
    /\ Doing(t, "undoing") =>
          /\ guard[Current(t).c] = "opened"
          /\ \A l \in Listeners : (view[l][Current(t).c] = "open") <=> (l <= threads[t].at)
    /\ Doing(t, "closing") =>
          /\ threads[t].at \in 1..NListeners
          /\ guard[Current(t).c] = "closed"
          /\ \A l \in Listeners : (view[l][Current(t).c] = "open") <=> (l <= threads[t].at)

Staged == \A t \in Threads : StageOK(t)

\* What they were told of a connection whose guard is at rest.
ViewOK(c) ==
    \A l \in Listeners :
        /\ guard[c] = "none" => view[l][c] = "unknown"
        /\ guard[c] = "ok" => view[l][c] = "open"

Viewed == \A c \in Connections : ViewOK(c)

Inv == Types /\ Routed /\ Staged /\ Viewed

-----------------------------------------------------------------------------
(* Items.                                                                  *)

\* What an item is made of.
LEMMA ItemShape ==
    \A item \in Item :
        /\ item.kind \in {"open", "close", "disconnected"}
        /\ item.to \in Names
        /\ item.kind # "disconnected" => item.c \in Connections
  BY DEF Item

\* The items that the manager pushes.
LEMMA ItemsMade ==
    ASSUME NEW c \in Connections, NEW n \in Names
    PROVE  /\ [kind |-> "open", to |-> n, c |-> c] \in Item
           /\ [kind |-> "close", to |-> n, c |-> c] \in Item
  BY DEF Item

\* An idle thread is a thread.
LEMMA IdleIsThread == \A s \in Seq(Item) : Idle(s) \in Thread
  BY SizeAssumption DEF Idle, Thread

\* What a thread is made of, and the item it is at.
LEMMA ThreadShape ==
    ASSUME Types, NEW t \in Threads
    PROVE  /\ threads[t].batch \in Seq(Item)
           /\ threads[t].at \in 0..NListeners
           /\ threads[t].batch # <<>> => /\ Current(t) \in Item
                                         /\ Tail(threads[t].batch) \in Seq(Item)
  <1>1. threads[t] \in Thread
    BY DEF Types
  <1>2. threads[t].batch \in Seq(Item) /\ threads[t].at \in 0..NListeners
    BY <1>1 DEF Thread
  <1>. QED
    BY <1>2 DEF Current

\* The first item is one of the items, and so are the ones that follow.
LEMMA PartsOK ==
    ASSUME NEW t, NEW s \in Seq(Item), s # <<>>, AllOK(t, s)
    PROVE  ItemOK(t, Head(s)) /\ AllOK(t, Tail(s))
  <1>1. 1 \in DOMAIN s /\ Head(s) = s[1]
    OBVIOUS
  <1>2. ASSUME NEW i \in DOMAIN Tail(s) PROVE ItemOK(t, Tail(s)[i])
    <2>1. i + 1 \in DOMAIN s /\ Tail(s)[i] = s[i + 1]
      BY <1>2
    <2>. QED
      BY <2>1 DEF AllOK
  <1>. QED
    BY <1>1, <1>2 DEF AllOK

\* The connection of the item a thread is at, and that no other thread is in
\* the middle of a round of calls for it.
LEMMA InHand ==
    ASSUME Types, Routed, Staged, NEW t \in Threads,
           threads[t].batch # <<>>, Current(t).kind # "disconnected"
    PROVE  /\ Current(t) \in Item
           /\ Current(t).c \in Connections
           /\ \A u \in Threads : Busy(u) /\ Current(u).c = Current(t).c => u = t
  <1>1. ASSUME NEW u \in Threads, threads[u].batch # <<>>, Current(u).kind # "disconnected"
        PROVE  /\ Current(u) \in Item
               /\ Current(u).c \in Connections
               /\ ThreadOf[name[Current(u).c]] = u
    <2>1. Current(u) \in Item /\ threads[u].batch \in Seq(Item)
      BY <1>1, ThreadShape
    <2>2. ItemOK(u, Current(u))
      BY <1>1, <2>1, PartsOK DEF Routed, Current
    <2>. QED
      BY <1>1, <2>1, <2>2, ItemShape DEF ItemOK
  <1>. QED
    BY <1>1 DEF Staged, StageOK

-----------------------------------------------------------------------------
(* The invariant holds initially.                                          *)

\* Nobody has been told anything.
LEMMA InitInv == Init => Inv
  <1>. SUFFICES ASSUME Init PROVE Inv
    OBVIOUS
  <1>1. (CHOOSE n \in Names : TRUE) \in Names
    BY NameAssumption
  <1>2. <<>> \in Seq(Item)
    OBVIOUS
  <1>3. Types
    <2>1. threads \in [Threads -> Thread]
      BY <1>2, IdleIsThread, Zenon DEF Init
    <2>2. queues \in [Threads -> Seq(Item)]
      BY <1>2, Zenon DEF Init
    <2>3. name \in [Connections -> Names]
      BY <1>1, Zenon DEF Init
    <2>. QED
      BY <2>1, <2>2, <2>3 DEF Init, Types
  <1>4. Routed
    BY DEF Init, Routed, AllOK, Idle
  <1>5. Staged
    BY DEF Init, Staged, StageOK, Busy, Doing, Idle
  <1>6. Viewed
    BY DEF Init, Viewed, ViewOK
  <1>. QED
    BY <1>3, <1>4, <1>5, <1>6 DEF Inv
-----------------------------------------------------------------------------
(* Steps of the io thread and of the thread that stops the server.         *)

\* A step that goes on from the invariant's queues with the items they hold
\* and pushes no more than one, of the right name.
LEMMA FireKeeps ==
    ASSUME Types, Routed, NEW item \in Item, Fire(item),
           item.kind # "disconnected" => phase'[item.c] # "new" /\ name'[item.c] = item.to,
           \A t \in Threads, it \in Item : ItemOK(t, it) => ItemOK(t, it)'
    PROVE  \A t \in Threads : queues'[t] \in Seq(Item) /\ AllOK(t, queues[t])'
  <1>. DEFINE to == ThreadOf[item.to]
  <1>1. to \in Threads
    BY ItemShape, ThreadAssumption
  <1>2. SUFFICES ASSUME NEW t \in Threads
                 PROVE  queues'[t] \in Seq(Item) /\ AllOK(t, queues[t])'
    OBVIOUS
  <1>3. queues[t] \in Seq(Item) /\ AllOK(t, queues[t])
    BY DEF Types, Routed
  <1>4. \A i \in DOMAIN queues[t], it \in Item : it = queues[t][i] => ItemOK(t, it)'
    BY <1>3 DEF AllOK
  <1>5. CASE queues'[t] = queues[t]
    BY <1>3, <1>4, <1>5 DEF AllOK
  <1>6. CASE queues'[t] # queues[t]
    <2>1. t = to /\ NListeners # 0 /\ queues'[t] = Append(queues[t], item)
      BY <1>1, <1>6 DEF Fire, CalcIndex, Types
    <2>2. ItemOK(t, item)'
      BY <2>1, SizeAssumption DEF ItemOK
    <2>3. queues'[t] \in Seq(Item)
      BY <1>3, <2>1
    <2>4. \A i \in DOMAIN queues'[t] :
            \/ i \in DOMAIN queues[t] /\ queues'[t][i] = queues[t][i]
            \/ queues'[t][i] = item
      BY <1>3, <2>1
    <2>5. ASSUME NEW i \in DOMAIN queues'[t] PROVE ItemOK(t, queues[t][i])'
      <3>1. PICK it \in Item : it = queues'[t][i]
        BY <2>3, <2>5
      <3>2. ItemOK(t, it)'
        BY <1>4, <2>2, <2>4, <2>5, <3>1
      <3>. QED
        BY <3>1, <3>2 DEF ItemOK
    <2>. QED
      BY <2>3, <2>5 DEF AllOK
  <1>. QED
    BY <1>5, <1>6

\* The queues of a step that does not touch them.
LEMMA QueuesKept ==
    ASSUME Types, Routed, UNCHANGED queues,
           \A t \in Threads, it \in Item : ItemOK(t, it) => ItemOK(t, it)'
    PROVE  \A t \in Threads : queues'[t] \in Seq(Item) /\ AllOK(t, queues[t])'
  <1>1. SUFFICES ASSUME NEW t \in Threads
                 PROVE  queues[t] \in Seq(Item) /\ AllOK(t, queues[t])'
    OBVIOUS
  <1>2. queues[t] \in Seq(Item) /\ AllOK(t, queues[t])
    BY DEF Types, Routed
  <1>. QED
    BY <1>2 DEF AllOK

\* What is left to show of a step of these threads.
LEMMA ListenersUndisturbed ==
    ASSUME Inv, UNCHANGED listenerVars, queues' \in [Threads -> Seq(Item)],
           phase' \in [Connections -> {"new", "registered", "closed", "freed"}],
           name' \in [Connections -> Names],
           \A t \in Threads, it \in Item : ItemOK(t, it) => ItemOK(t, it)',
           \A t \in Threads : AllOK(t, queues[t])'
    PROVE  Inv'
  <1>1. Types'
    BY DEF Inv, Types, listenerVars
  <1>2. Routed'
    <2>1. SUFFICES ASSUME NEW t \in Threads PROVE AllOK(t, threads[t].batch)'
      BY DEF Routed
    <2>2. threads[t].batch \in Seq(Item) /\ AllOK(t, threads[t].batch)
      BY ThreadShape DEF Inv, Routed
    <2>3. threads' = threads
      BY DEF listenerVars
    <2>. QED
      BY <2>2, <2>3 DEF AllOK
  <1>3. Staged'
    BY DEF Inv, Staged, StageOK, Busy, Doing, Current, listenerVars
  <1>4. Viewed'
    BY DEF Inv, Viewed, ViewOK, listenerVars
  <1>. QED
    BY <1>1, <1>2, <1>3, <1>4 DEF Inv

\* insert_connection gives a name to a connection that no item is about yet.
LEMMA InsertKeeps ==
    ASSUME Inv, NEW c \in Connections, InsertConnection(c)
    PROVE  Inv' /\ UNCHANGED view
  <1>. USE DEF Inv
  <1>1. PICK n \in Names : name' = [name EXCEPT ![c] = n]
    BY DEF InsertConnection
  <1>2. name' \in [Connections -> Names] /\ name'[c] = n
    BY <1>1 DEF Types
  <1>3. /\ phase' \in [Connections -> {"new", "registered", "closed", "freed"}]
        /\ phase[c] = "new" /\ phase'[c] # "new"
        /\ \A d \in Connections : d # c => phase'[d] = phase[d]
    BY ZenonT(60) DEF Types, InsertConnection
  <1>4. ASSUME NEW t \in Threads, NEW it \in Item, ItemOK(t, it) PROVE ItemOK(t, it)'
    <2>1. it.kind # "disconnected" => it.c \in Connections /\ it.c # c
      BY <1>3, <1>4, ItemShape DEF ItemOK
    <2>. QED
      BY <1>1, <1>3, <1>4, <2>1 DEF ItemOK, Types
  <1>5. \A t \in Threads : queues'[t] \in Seq(Item) /\ AllOK(t, queues[t])'
    <2>1. CASE finished
      BY <1>4, <2>1, QueuesKept DEF InsertConnection
    <2>2. CASE ~finished
      <3>. DEFINE item == [kind |-> "open", to |-> n, c |-> c]
      <3>1. Fire(item)
        BY <1>2, <2>2 DEF InsertConnection, OpenItem
      <3>2. item \in Item
        BY ItemsMade
      <3>3. item.c = c /\ item.to = n
        OBVIOUS
      <3>. HIDE DEF item
      <3>. QED
        BY <1>2, <1>3, <1>4, <3>1, <3>2, <3>3, FireKeeps
    <2>. QED
      BY <2>1, <2>2
  <1>6. queues' \in [Threads -> Seq(Item)]
    <2>1. queues' = [t \in Threads |-> queues'[t]]
      BY DEF InsertConnection, Fire, Types
    <2>. QED
      BY <1>5, <2>1, Zenon
  <1>7. UNCHANGED listenerVars
    BY DEF InsertConnection
  <1>. QED
    BY <1>2, <1>3, <1>4, <1>5, <1>6, <1>7, ListenersUndisturbed DEF listenerVars
\* remove_connection, on its own.
LEMMA RemoveKeeps ==
    ASSUME Inv, NEW c \in Connections, RemoveConnection(c), UNCHANGED <<name, listenerVars>>
    PROVE  Inv'
  <1>. USE DEF Inv
  <1>1. PICK n \in Names : n = name[c]
    BY DEF Types
  <1>2. /\ phase' \in [Connections -> {"new", "registered", "closed", "freed"}]
        /\ phase'[c] # "new"
        /\ \A d \in Connections : phase[d] # "new" => phase'[d] # "new"
    BY DEF Types, RemoveConnection
  <1>3. name' \in [Connections -> Names] /\ name'[c] = n
    BY <1>1 DEF Types
  <1>4. ASSUME NEW t \in Threads, NEW it \in Item, ItemOK(t, it) PROVE ItemOK(t, it)'
    BY <1>2, <1>4, ItemShape DEF ItemOK
  <1>5. \A t \in Threads : queues'[t] \in Seq(Item) /\ AllOK(t, queues[t])'
    <2>. DEFINE item == [kind |-> "close", to |-> n, c |-> c]
    <2>1. Fire(item)
      BY <1>1 DEF RemoveConnection, CloseItem
    <2>2. item \in Item
      BY ItemsMade
    <2>3. item.c = c /\ item.to = n
      OBVIOUS
    <2>. HIDE DEF item
    <2>. QED
      BY <1>2, <1>3, <1>4, <2>1, <2>2, <2>3, FireKeeps
  <1>6. queues' \in [Threads -> Seq(Item)]
    <2>1. queues' = [t \in Threads |-> queues'[t]]
      BY DEF RemoveConnection, Fire, Types
    <2>. QED
      BY <1>5, <2>1, Zenon
  <1>. QED
    BY <1>2, <1>3, <1>4, <1>5, <1>6, ListenersUndisturbed

\* send() to a name without connection pushes an item without connection.
LEMMA SendKeeps ==
    ASSUME Inv, NEW n \in Names, Send(n)
    PROVE  Inv' /\ UNCHANGED view
  <1>. USE DEF Inv
  <1>. DEFINE item == [kind |-> "disconnected", to |-> n, c |-> 0]
  <1>1. item \in Item /\ item.kind = "disconnected"
    BY DEF Item
  <1>2. Fire(item)
    BY DEF Send, DisconnectedItem
  <1>3. UNCHANGED <<phase, name, listenerVars>>
    BY DEF Send
  <1>4. ASSUME NEW t \in Threads, NEW it \in Item, ItemOK(t, it) PROVE ItemOK(t, it)'
    BY <1>3, <1>4 DEF ItemOK
  <1>. HIDE DEF item
  <1>5. \A t \in Threads : queues'[t] \in Seq(Item) /\ AllOK(t, queues[t])'
    BY <1>1, <1>2, <1>4, FireKeeps
  <1>6. queues' \in [Threads -> Seq(Item)]
    <2>1. queues' = [t \in Threads |-> queues'[t]]
      BY <1>2 DEF Fire, Types
    <2>. QED
      BY <1>5, <2>1, Zenon
  <1>7. /\ phase' \in [Connections -> {"new", "registered", "closed", "freed"}]
        /\ name' \in [Connections -> Names]
    BY <1>3 DEF Types
  <1>. QED
    BY <1>3, <1>4, <1>5, <1>6, <1>7, ListenersUndisturbed DEF listenerVars

\* The steps that push nothing.
LEMMA PhaseKeeps ==
    ASSUME Inv, UNCHANGED <<name, queues, listenerVars>>,
           phase' \in [Connections -> {"new", "registered", "closed", "freed"}],
           \A d \in Connections : phase[d] # "new" => phase'[d] # "new"
    PROVE  Inv'
  <1>. USE DEF Inv
  <1>1. ASSUME NEW t \in Threads, NEW it \in Item, ItemOK(t, it) PROVE ItemOK(t, it)'
    BY <1>1, ItemShape DEF ItemOK
  <1>2. \A t \in Threads : AllOK(t, queues[t])'
    BY <1>1, QueuesKept
  <1>3. queues' \in [Threads -> Seq(Item)] /\ name' \in [Connections -> Names]
    BY DEF Types
  <1>. QED
    BY <1>1, <1>2, <1>3, ListenersUndisturbed

\* The other steps of the io thread and the steps of stop().
LEMMA ManagerKeeps ==
    ASSUME Inv,
           \/ \E c \in Connections : Close(c) \/ Free(c)
           \/ RunJob \/ Stop \/ PostFinish
           \/ \E t \in Threads : FinishQueue(t)
           \/ UNCHANGED vars
    PROVE  Inv' /\ UNCHANGED view
  <1>1. ASSUME NEW c \in Connections, Close(c) PROVE Inv' /\ UNCHANGED view
    BY <1>1, RemoveKeeps DEF Close, listenerVars
  <1>2. ASSUME NEW c \in Connections, Free(c) PROVE Inv' /\ UNCHANGED view
    BY <1>2, PhaseKeeps DEF Free, listenerVars, Inv, Types
  <1>3. CASE NotifyConnectionOpenedFailed
    <2>1. CASE finished \/ Named(Head(jobs)) = {}
      BY <1>3, <2>1, PhaseKeeps DEF NotifyConnectionOpenedFailed, listenerVars, Inv, Types
    <2>2. CASE ~(finished \/ Named(Head(jobs)) = {})
      <3>1. PICK c \in Named(Head(jobs)) : RemoveConnection(c)
        BY <1>3, <2>2 DEF NotifyConnectionOpenedFailed
      <3>2. c \in Connections
        BY <3>1 DEF Named, Registered
      <3>. QED
        BY <1>3, <3>1, <3>2, RemoveKeeps DEF NotifyConnectionOpenedFailed, listenerVars
    <2>. QED
      BY <2>1, <2>2
  <1>4. CASE Finish
    BY <1>4, PhaseKeeps DEF Finish, listenerVars, Inv, Types, Registered
  <1>5. CASE Stop \/ PostFinish \/ (\E t \in Threads : FinishQueue(t)) \/ UNCHANGED vars
    <2>1. UNCHANGED <<phase, name, queues, listenerVars>>
      BY <1>5 DEF Stop, PostFinish, FinishQueue, managerVars, vars
    <2>. QED
      BY <2>1, PhaseKeeps DEF listenerVars, Inv, Types
  <1>. QED
    BY <1>1, <1>2, <1>3, <1>4, <1>5 DEF RunJob
-----------------------------------------------------------------------------
(* Steps of the listener threads.                                          *)

\* The items a thread leaves in the queues and takes along.
LEMMA ThreadRouted ==
    ASSUME Inv, NEW t \in Threads, UNCHANGED <<phase, name>>,
           queues' = queues \/ queues' = [queues EXCEPT ![t] = <<>>],
           threads' = [threads EXCEPT ![t] = threads'[t]],
           threads'[t] \in Thread, AllOK(t, threads'[t].batch)
    PROVE  /\ queues' \in [Threads -> Seq(Item)] /\ threads' \in [Threads -> Thread]
           /\ Routed'
  <1>. USE DEF Inv
  <1>1. threads' \in [Threads -> Thread]
    BY Zenon DEF Types
  <1>2. <<>> \in Seq(Item)
    OBVIOUS
  <1>3. queues' \in [Threads -> Seq(Item)]
    BY <1>2, Zenon DEF Types
  <1>4. ASSUME NEW u \in Threads PROVE AllOK(u, queues[u])' /\ AllOK(u, threads[u].batch)'
    <2>1. AllOK(u, queues'[u])
      <3>1. queues'[u] = queues[u] \/ queues'[u] = <<>>
        BY DEF Types
      <3>. QED
        BY <3>1 DEF Routed, AllOK
    <2>2. AllOK(u, threads'[u].batch)
      BY DEF Types, Routed
    <2>. QED
      BY <2>1, <2>2 DEF AllOK, ItemOK
  <1>. QED
    BY <1>1, <1>3, <1>4 DEF Routed

\* The connections and the threads that a round of calls has nothing to do with.
LEMMA OthersUndisturbed ==
    ASSUME Inv, NEW t \in Threads, NEW c \in Connections,
           \A u \in Threads : Busy(u) /\ Current(u).c = c => u = t,
           \A u \in Threads : u # t => threads'[u] = threads[u],
           \A d \in Connections : d # c => guard'[d] = guard[d],
           \A l \in Listeners, d \in Connections : d # c => view'[l][d] = view[l][d],
           StageOK(t)', ViewOK(c)'
    PROVE  Staged' /\ Viewed'
  <1>. USE DEF Inv
  <1>1. ASSUME NEW u \in Threads, u # t PROVE StageOK(u)'
    <2>1. threads'[u] = threads[u]
      BY <1>1
    <2>2. CASE ~Busy(u)
      BY <2>1, <2>2 DEF StageOK, Busy, Doing
    <2>3. CASE Busy(u)
      <3>. DEFINE d == Current(u).c
      <3>1. d \in Connections /\ d # c
        BY <1>1, <2>3, InHand DEF Staged, StageOK
      <3>2. Current(u)' = Current(u)
        BY <2>1 DEF Current
      <3>3. guard'[d] = guard[d] /\ \A l \in Listeners : view'[l][d] = view[l][d]
        BY <3>1
      <3>4. StageOK(u)
        BY DEF Staged
      <3>. QED
        BY <2>1, <3>2, <3>3, <3>4 DEF StageOK, Busy, Doing
    <2>. QED
      BY <2>2, <2>3
  <1>2. ASSUME NEW d \in Connections, d # c PROVE ViewOK(d)'
    BY <1>2 DEF Viewed, ViewOK
  <1>. QED
    BY <1>1, <1>2 DEF Staged, Viewed

\* A thread that calls no listener and touches no guard.
LEMMA QuietThread ==
    ASSUME Inv, NEW t \in Threads, UNCHANGED <<guard, view>>, ~Busy(t)',
           \A u \in Threads : u # t => threads'[u] = threads[u]
    PROVE  Staged' /\ Viewed'
  <1>1. \A u \in Threads : StageOK(u)'
    BY DEF Inv, Staged, StageOK, Busy, Doing, Current
  <1>. QED
    BY <1>1 DEF Inv, Staged, Viewed, ViewOK

\* pop_all() takes items along that are on the right thread.
LEMMA PopKeeps ==
    ASSUME Inv, NEW t \in Threads, PopAll(t) \/ ThreadEnds(t)
    PROVE  Inv' /\ UNCHANGED view
  <1>. USE DEF Inv
  <1>1. threads[t] \in Thread /\ queues[t] \in Seq(Item)
    BY DEF Types
  <1>2. /\ threads' = [threads EXCEPT ![t] = threads'[t]]
        /\ threads'[t] \in Thread /\ AllOK(t, threads'[t].batch)
        /\ ~Busy(t)'
    <2>1. CASE PopAll(t)
      <3>1. threads'[t] = Idle(queues[t]) /\ threads' = [threads EXCEPT ![t] = threads'[t]]
        BY <2>1 DEF PopAll, Types
      <3>. QED
        BY <1>1, <3>1, IdleIsThread DEF Idle, Busy, Routed
    <2>2. CASE ThreadEnds(t)
      <3>1. /\ threads'[t] = [threads[t] EXCEPT !.doing = "gone"]
            /\ threads' = [threads EXCEPT ![t] = threads'[t]]
        BY <2>2 DEF ThreadEnds, Types
      <3>2. threads'[t].doing = "gone" /\ threads'[t].batch = threads[t].batch
            /\ threads'[t] \in Thread
        BY <1>1, <3>1 DEF Thread
      <3>. QED
        BY <3>1, <3>2 DEF Busy, Routed
    <2>. QED
      BY <2>1, <2>2
  <1>3. UNCHANGED <<phase, name, guard, view>>
        /\ (queues' = queues \/ queues' = [queues EXCEPT ![t] = <<>>])
    BY DEF PopAll, ThreadEnds, managerVars
  <1>4. \A u \in Threads : u # t => threads'[u] = threads[u]
    BY <1>2 DEF Types
  <1>5. Staged' /\ Viewed'
    BY <1>2, <1>3, <1>4, QuietThread
  <1>6. Types' /\ Routed'
    BY <1>2, <1>3, ThreadRouted DEF Types
  <1>. QED
    BY <1>3, <1>5, <1>6
\* What is left to show of a step in or at the ends of a round of calls.
LEMMA RoundKeeps ==
    ASSUME Inv, NEW t \in Threads, NEW c \in Connections,
           threads[t].batch # <<>>, Current(t).kind # "disconnected", c = Current(t).c,
           UNCHANGED <<phase, name, queues>>,
           threads' = [threads EXCEPT ![t] = threads'[t]],
           threads'[t] \in Thread,
           threads'[t].batch \in {threads[t].batch, Tail(threads[t].batch)},
           guard' \in [Connections -> {"none", "opened", "ok", "canceled", "closed"}],
           \A d \in Connections : d # c => guard'[d] = guard[d],
           view' \in [Listeners -> [Connections -> {"unknown", "open", "refused", "closed"}]],
           \A l \in Listeners, d \in Connections : d # c => view'[l][d] = view[l][d],
           StageOK(t)', ViewOK(c)'
    PROVE  Inv'
  <1>. USE DEF Inv
  <1>1. threads[t].batch \in Seq(Item) /\ AllOK(t, threads[t].batch)
    BY ThreadShape DEF Routed
  <1>2. AllOK(t, threads'[t].batch)
    BY <1>1, PartsOK, ZenonT(60)
  <1>3. /\ queues' \in [Threads -> Seq(Item)] /\ threads' \in [Threads -> Thread]
        /\ Routed'
    BY <1>2, ThreadRouted
  <1>4. \A u \in Threads : Busy(u) /\ Current(u).c = c => u = t
    BY InHand
  <1>5. \A u \in Threads : u # t => threads'[u] = threads[u]
    BY DEF Types
  <1>6. Staged' /\ Viewed'
    BY <1>4, <1>5, OthersUndisturbed
  <1>7. Types'
    BY <1>3 DEF Types
  <1>. QED
    BY <1>3, <1>6, <1>7

\* A thread with an item, when it is through with it and when it goes on.
LEMMA DoneShape ==
    ASSUME Types, NEW t \in Threads, threads[t].batch # <<>>
    PROVE  /\ Done(t) \in Thread /\ Done(t).batch = Tail(threads[t].batch)
           /\ Done(t).doing = "idle"
  <1>1. Tail(threads[t].batch) \in Seq(Item)
    BY ThreadShape
  <1>. QED
    BY <1>1, IdleIsThread DEF Done, Idle

Round(t, doing, at) == [threads[t] EXCEPT !.doing = doing, !.at = at]

\* Its record in the middle of a round.
LEMMA GoesOn ==
    ASSUME Types, NEW t \in Threads,
           NEW doing \in {"opening", "undoing", "closing"}, NEW at \in 0..NListeners
    PROVE  /\ Round(t, doing, at) \in Thread
           /\ Round(t, doing, at).batch = threads[t].batch
           /\ Round(t, doing, at).doing = doing
           /\ Round(t, doing, at).at = at
  <1>1. threads[t] \in Thread
    BY DEF Types
  <1>. QED
    BY <1>1 DEF Thread, Round

\* Calling one listener leaves what the others were told, and what all were
\* told of other connections.
LEMMA Told ==
    ASSUME Types, NEW l \in Listeners, NEW c \in Connections,
           NEW what \in {"unknown", "open", "refused", "closed"}, Tell(l, c, what)
    PROVE  /\ view' \in [Listeners -> [Connections -> {"unknown", "open", "refused", "closed"}]]
           /\ view'[l][c] = what
           /\ \A k \in Listeners, d \in Connections :
                 k # l \/ d # c => view'[k][d] = view[k][d]
  BY DEF Types, Tell

\* process_item consults the guard, which knows where a round may begin.
LEMMA ProcessKeeps ==
    ASSUME Inv, NEW t \in Threads, ProcessItem(t)
    PROVE  Inv' /\ UNCHANGED view
  <1>. USE DEF Inv
  <1>1. /\ threads[t].batch # <<>> /\ threads[t].doing = "idle"
        /\ UNCHANGED <<phase, name, queues, view>>
    BY DEF ProcessItem, Doing, managerVars
  <1>2. threads[t].batch \in Seq(Item) /\ AllOK(t, threads[t].batch)
    BY ThreadShape DEF Routed
  <1>3. Current(t) \in Item /\ ItemOK(t, Current(t)) /\ AllOK(t, Tail(threads[t].batch))
    BY <1>1, <1>2, PartsOK, ThreadShape DEF Current
  <1>4. NListeners \in 1..NListeners /\ 1 \in 1..NListeners
    BY <1>3, SizeAssumption DEF ItemOK
  <1>5. CASE threads' = [threads EXCEPT ![t] = Done(t)] /\ UNCHANGED guard
    <2>1. threads'[t] = Done(t) /\ threads' = [threads EXCEPT ![t] = threads'[t]]
      BY <1>5 DEF Types
    <2>2. threads'[t] \in Thread /\ AllOK(t, threads'[t].batch) /\ ~Busy(t)'
      BY <1>1, <1>3, <2>1, DoneShape DEF Busy
    <2>3. \A u \in Threads : u # t => threads'[u] = threads[u]
      BY <1>5 DEF Types
    <2>4. Staged' /\ Viewed'
      BY <1>1, <1>5, <2>2, <2>3, QuietThread
    <2>5. Types' /\ Routed'
      BY <1>1, <1>5, <2>1, <2>2, ThreadRouted DEF Types
    <2>. QED
      BY <1>1, <2>4, <2>5
  <1>6. ASSUME NEW doing, NEW at, NEW g, NEW c \in Connections, c = Current(t).c,
               \/ doing = "opening" /\ at = 1 /\ g = "opened" /\ guard[c] = "none"
               \/ doing = "closing" /\ at = NListeners /\ g = "closed" /\ guard[c] = "ok",
               Current(t).kind # "disconnected",
               threads' = [threads EXCEPT ![t].doing = doing, ![t].at = at],
               guard' = [guard EXCEPT ![c] = g]
        PROVE  Inv'
    <2>1. doing \in {"opening", "undoing", "closing"} /\ at \in 0..NListeners
      BY <1>4, <1>6
    <2>2. /\ threads'[t] = Round(t, doing, at)
          /\ threads' = [threads EXCEPT ![t] = threads'[t]]
      BY <1>6 DEF Types, Round
    <2>3. /\ threads'[t] \in Thread /\ threads'[t].batch = threads[t].batch
          /\ threads'[t].doing = doing /\ threads'[t].at = at
      BY <2>1, <2>2, GoesOn
    <2>4. /\ guard' \in [Connections -> {"none", "opened", "ok", "canceled", "closed"}]
          /\ guard'[c] = g
          /\ \A d \in Connections : d # c => guard'[d] = guard[d]
      BY <1>6 DEF Types
    <2>5. /\ view' = view
          /\ view' \in [Listeners -> [Connections -> {"unknown", "open", "refused", "closed"}]]
      BY <1>1 DEF Types
    <2>6. Current(t)' = Current(t)
      BY <2>3 DEF Current
    <2>7. ViewOK(c)
      BY DEF Viewed
    <2>8. ViewOK(c)'
      BY <1>6, <2>4 DEF ViewOK
    <2>9. StageOK(t)'
      <3>1. CASE doing = "opening"
        <4>1. \A l \in Listeners : view'[l][c] = "unknown" /\ l >= 1 /\ ~(l < 1)
          BY <1>6, <2>5, <2>7, <3>1, SizeAssumption DEF ViewOK, Listeners
        <4>2. /\ threads'[t].doing = "opening" /\ threads'[t].at = 1
              /\ threads'[t].batch # <<>> /\ guard'[c] = "opened"
          BY <1>1, <1>6, <2>3, <2>4, <3>1
        <4>3. Current(t)'.c = c /\ Current(t)'.kind # "disconnected"
          BY <1>6, <2>6
        <4>. QED
          BY <1>4, <4>1, <4>2, <4>3 DEF StageOK, Busy, Doing
      <3>2. CASE doing = "closing"
        <4>1. \A l \in Listeners : view'[l][c] = "open" /\ l <= NListeners
          BY <1>6, <2>5, <2>7, <3>2, SizeAssumption DEF ViewOK, Listeners
        <4>2. /\ threads'[t].doing = "closing" /\ threads'[t].at = NListeners
              /\ threads'[t].batch # <<>> /\ guard'[c] = "closed"
          BY <1>1, <1>6, <2>3, <2>4, <3>2
        <4>3. Current(t)'.c = c /\ Current(t)'.kind # "disconnected"
          BY <1>6, <2>6
        <4>. QED
          BY <1>4, <4>1, <4>2, <4>3 DEF StageOK, Busy, Doing
      <3>. QED
        BY <1>6, <3>1, <3>2
    <2>10. \A l \in Listeners, d \in Connections : d # c => view'[l][d] = view[l][d]
      BY <2>5
    <2>. QED
      BY <1>1, <1>6, <2>2, <2>3, <2>4, <2>5, <2>8, <2>9, <2>10, RoundKeeps
  <1>7. CASE /\ Current(t).kind = "open" /\ GuardOpens(Current(t).c)
             /\ threads' = [threads EXCEPT ![t].doing = "opening", ![t].at = 1]
             /\ guard' = [guard EXCEPT ![Current(t).c] = "opened"]
    <2>1. Current(t).kind # "disconnected" /\ Current(t).c \in Connections
      BY <1>3, <1>7, ItemShape
    <2>2. Inv'
      BY <1>6, <1>7, <2>1 DEF GuardOpens
    <2>. QED
      BY <1>1, <2>2
  <1>8. CASE /\ Current(t).kind = "close" /\ GuardCloses(Current(t).c)
             /\ threads' = [threads EXCEPT ![t].doing = "closing", ![t].at = NListeners]
             /\ guard' = [guard EXCEPT ![Current(t).c] = "closed"]
    <2>1. Current(t).kind # "disconnected" /\ Current(t).c \in Connections
      BY <1>3, <1>8, ItemShape
    <2>2. Inv'
      BY <1>6, <1>8, <2>1 DEF GuardCloses
    <2>. QED
      BY <1>1, <2>2
  <1>. QED
    BY <1>1, <1>5, <1>7, <1>8 DEF ProcessItem
\* A call of a listener that ends in the middle of a round.
LEMMA CallKeeps ==
    ASSUME Inv, NEW t \in Threads, NEW c \in Connections, NEW l \in Listeners,
           NEW what \in {"open", "refused", "closed"},
           NEW doing \in {"opening", "undoing", "closing"}, NEW at \in 0..NListeners,
           threads[t].batch # <<>>, Current(t).kind # "disconnected", c = Current(t).c,
           UNCHANGED <<phase, name, queues, guard>>, Tell(l, c, what),
           threads' = [threads EXCEPT ![t] = Round(t, doing, at)],
           guard[c] = IF doing = "closing" THEN "closed" ELSE "opened",
           doing # "undoing" => at \in 1..NListeners,
           doing = "opening" =>
               \A k \in Listeners : /\ k < at => view'[k][c] = "open"
                                    /\ k >= at => view'[k][c] = "unknown",
           doing # "opening" => \A k \in Listeners : (view'[k][c] = "open") <=> (k <= at)
    PROVE  Inv'
  <1>1. Types
    BY DEF Inv
  <1>2. threads'[t] = Round(t, doing, at) /\ threads' = [threads EXCEPT ![t] = threads'[t]]
    BY <1>1 DEF Types
  <1>3. /\ threads'[t] \in Thread /\ threads'[t].batch = threads[t].batch
        /\ threads'[t].doing = doing /\ threads'[t].at = at
    BY <1>1, <1>2, GoesOn
  <1>4. Current(t)' = Current(t)
    BY <1>3 DEF Current
  <1>5. /\ view' \in [Listeners -> [Connections -> {"unknown", "open", "refused", "closed"}]]
        /\ \A k \in Listeners, d \in Connections : d # c => view'[k][d] = view[k][d]
    BY <1>1, Told
  <1>6. guard' \in [Connections -> {"none", "opened", "ok", "canceled", "closed"}]
    BY <1>1 DEF Types
  <1>7. ViewOK(c)'
    BY DEF ViewOK
  <1>8. StageOK(t)'
    BY <1>3, <1>4 DEF StageOK, Busy, Doing
  <1>. QED
    BY <1>2, <1>3, <1>5, <1>6, <1>7, <1>8, RoundKeeps

\* A step that ends a round.
LEMMA EndKeeps ==
    ASSUME Inv, NEW t \in Threads, NEW c \in Connections, NEW g \in {"ok", "canceled", "closed"},
           threads[t].batch # <<>>, Current(t).kind # "disconnected", c = Current(t).c,
           UNCHANGED <<phase, name, queues>>,
           threads' = [threads EXCEPT ![t] = Done(t)],
           guard' = [guard EXCEPT ![c] = g],
           view' \in [Listeners -> [Connections -> {"unknown", "open", "refused", "closed"}]],
           \A k \in Listeners, d \in Connections : d # c => view'[k][d] = view[k][d],
           g = "ok" => \A k \in Listeners : view'[k][c] = "open"
    PROVE  Inv'
  <1>1. Types
    BY DEF Inv
  <1>2. threads'[t] = Done(t) /\ threads' = [threads EXCEPT ![t] = threads'[t]]
    BY <1>1 DEF Types
  <1>3. /\ threads'[t] \in Thread /\ threads'[t].batch = Tail(threads[t].batch)
        /\ threads'[t].doing = "idle"
    BY <1>1, <1>2, DoneShape
  <1>4. /\ guard' \in [Connections -> {"none", "opened", "ok", "canceled", "closed"}]
        /\ guard'[c] = g /\ \A d \in Connections : d # c => guard'[d] = guard[d]
    BY <1>1 DEF Types
  <1>5. ViewOK(c)'
    BY <1>4 DEF ViewOK
  <1>6. StageOK(t)'
    BY <1>3 DEF StageOK, Busy, Doing
  <1>. QED
    BY <1>2, <1>3, <1>4, <1>5, <1>6, RoundKeeps, ZenonT(60)

\* What a step of a round implements.
Abstract == Contract!Next \/ UNCHANGED view

\* connection_opened returns.
LEMMA AcceptsKeeps ==
    ASSUME Inv, NEW t \in Threads, ListenerAccepts(t)
    PROVE  Inv' /\ Abstract
  <1>1. /\ Types /\ Routed /\ Staged /\ threads[t].doing = "opening" /\ StageOK(t)
        /\ UNCHANGED <<phase, name, queues>>
    BY DEF Inv, Staged, ListenerAccepts, Doing, managerVars
  <1>2. threads[t].batch # <<>> /\ Current(t).kind # "disconnected"
    BY <1>1 DEF StageOK, Busy
  <1>3. PICK c \in Connections : c = Current(t).c
    BY <1>1, <1>2, InHand
  <1>. DEFINE at == threads[t].at
  <1>4. /\ at \in Listeners /\ guard[c] = "opened"
        /\ \A l \in Listeners : /\ l < at => view[l][c] = "open"
                                /\ l >= at => view[l][c] = "unknown"
    BY <1>1, <1>3 DEF StageOK, Doing, Listeners
  <1>5. Tell(at, c, "open")
    BY <1>3 DEF ListenerAccepts
  <1>6. /\ view' \in [Listeners -> [Connections -> {"unknown", "open", "refused", "closed"}]]
        /\ view'[at][c] = "open"
        /\ \A k \in Listeners, d \in Connections : k # at \/ d # c => view'[k][d] = view[k][d]
    BY <1>1, <1>4, <1>5, Told
  <1>7. Abstract
    <2>1. Contract!Opened(at, c, "open")
      BY <1>4, <1>5 DEF Contract!Opened, Contract!Listeners, Listeners, Tell
    <2>. QED
      BY <1>4, <2>1 DEF Abstract, Contract!Next, Contract!Listeners, Listeners
  <1>8. CASE at < NListeners
    <2>1. at + 1 \in 1..NListeners /\ at + 1 \in 0..NListeners
      BY <1>4, <1>8, SizeAssumption DEF Listeners
    <2>2. threads' = [threads EXCEPT ![t] = Round(t, "opening", at + 1)] /\ UNCHANGED guard
      BY <1>1, <1>8, ZenonT(60) DEF ListenerAccepts, Round, Types, Thread
    <2>3. \A k \in Listeners : /\ k < at + 1 => view'[k][c] = "open"
                               /\ k >= at + 1 => view'[k][c] = "unknown"
      BY <1>4, <1>6 DEF Listeners
    <2>. HIDE DEF at
    <2>. QED
      BY <1>1, <1>2, <1>3, <1>4, <1>5, <1>7, <2>1, <2>2, <2>3, CallKeeps
  <1>9. CASE ~(at < NListeners)
    <2>1. \A k \in Listeners : view'[k][c] = "open"
      BY <1>4, <1>6, <1>9, SizeAssumption DEF Listeners
    <2>2. threads' = [threads EXCEPT ![t] = Done(t)] /\ guard' = [guard EXCEPT ![c] = "ok"]
      BY <1>3, <1>9 DEF ListenerAccepts
    <2>. HIDE DEF at
    <2>. QED
      BY <1>1, <1>2, <1>3, <1>6, <1>7, <2>1, <2>2, EndKeeps, ZenonT(60)
  <1>. QED
    BY <1>8, <1>9
\* connection_opened throws.
LEMMA RefusesKeeps ==
    ASSUME Inv, NEW t \in Threads, ListenerRefuses(t)
    PROVE  Inv' /\ Abstract
  <1>1. /\ Types /\ Routed /\ Staged /\ threads[t].doing = "opening" /\ StageOK(t)
        /\ UNCHANGED <<phase, name, queues, guard>>
    BY DEF Inv, Staged, ListenerRefuses, Doing, managerVars
  <1>2. threads[t].batch # <<>> /\ Current(t).kind # "disconnected"
    BY <1>1 DEF StageOK, Busy
  <1>3. PICK c \in Connections : c = Current(t).c
    BY <1>1, <1>2, InHand
  <1>. DEFINE at == threads[t].at
  <1>4. /\ at \in Listeners /\ guard[c] = "opened"
        /\ \A l \in Listeners : /\ l < at => view[l][c] = "open"
                                /\ l >= at => view[l][c] = "unknown"
    BY <1>1, <1>3 DEF StageOK, Doing, Listeners
  <1>5. Tell(at, c, "refused")
    BY <1>3 DEF ListenerRefuses
  <1>6. /\ view' \in [Listeners -> [Connections -> {"unknown", "open", "refused", "closed"}]]
        /\ view'[at][c] = "refused"
        /\ \A k \in Listeners, d \in Connections : k # at \/ d # c => view'[k][d] = view[k][d]
    BY <1>1, <1>4, <1>5, Told
  <1>7. Abstract
    <2>1. Contract!Opened(at, c, "refused")
      BY <1>4, <1>5 DEF Contract!Opened, Contract!Listeners, Listeners, Tell
    <2>. QED
      BY <1>4, <2>1 DEF Abstract, Contract!Next, Contract!Listeners, Listeners
  <1>8. at - 1 \in 0..NListeners
    BY <1>4, SizeAssumption DEF Listeners
  <1>9. threads' = [threads EXCEPT ![t] = Round(t, "undoing", at - 1)]
    BY <1>1 DEF ListenerRefuses, Round, Types, Thread
  <1>10. \A k \in Listeners : (view'[k][c] = "open") <=> (k <= at - 1)
    BY <1>4, <1>6 DEF Listeners
  <1>. HIDE DEF at
  <1>. QED
    BY <1>1, <1>2, <1>3, <1>4, <1>5, <1>7, <1>8, <1>9, <1>10, CallKeeps

\* connection_closed while an opening is taken back.
LEMMA UndoKeeps ==
    ASSUME Inv, NEW t \in Threads, UndoOpened(t)
    PROVE  Inv' /\ Abstract
  <1>1. /\ Types /\ Routed /\ Staged /\ threads[t].doing = "undoing" /\ StageOK(t)
        /\ UNCHANGED <<phase, name, queues, guard>>
    BY DEF Inv, Staged, UndoOpened, Doing, managerVars
  <1>2. threads[t].batch # <<>> /\ Current(t).kind # "disconnected"
    BY <1>1 DEF StageOK, Busy
  <1>3. PICK c \in Connections : c = Current(t).c
    BY <1>1, <1>2, InHand
  <1>. DEFINE at == threads[t].at
  <1>4. /\ at \in Listeners /\ guard[c] = "opened"
        /\ \A l \in Listeners : (view[l][c] = "open") <=> (l <= at)
    BY <1>1, <1>3, ThreadShape, SizeAssumption DEF StageOK, Doing, Listeners, UndoOpened
  <1>5. Tell(at, c, "closed")
    BY <1>3 DEF UndoOpened
  <1>6. /\ view' \in [Listeners -> [Connections -> {"unknown", "open", "refused", "closed"}]]
        /\ view'[at][c] = "closed"
        /\ \A k \in Listeners, d \in Connections : k # at \/ d # c => view'[k][d] = view[k][d]
    BY <1>1, <1>4, <1>5, Told
  <1>7. Abstract
    <2>1. Contract!Closed(at, c)
      BY <1>4, <1>5 DEF Contract!Closed, Contract!Listeners, Listeners, Tell
    <2>. QED
      BY <1>4, <2>1 DEF Abstract, Contract!Next, Contract!Listeners, Listeners
  <1>8. at - 1 \in 0..NListeners
    BY <1>4, SizeAssumption DEF Listeners
  <1>9. threads' = [threads EXCEPT ![t] = Round(t, "undoing", at - 1)]
    BY <1>1 DEF UndoOpened, Round, Types, Thread
  <1>10. \A k \in Listeners : (view'[k][c] = "open") <=> (k <= at - 1)
    BY <1>4, <1>6 DEF Listeners
  <1>. HIDE DEF at
  <1>. QED
    BY <1>1, <1>2, <1>3, <1>4, <1>5, <1>7, <1>8, <1>9, <1>10, CallKeeps

\* The opening is taken back.
LEMMA CancelKeeps ==
    ASSUME Inv, NEW t \in Threads, CancelOpened(t)
    PROVE  Inv' /\ Abstract
  <1>1. /\ Types /\ Routed /\ Staged /\ threads[t].doing = "undoing" /\ StageOK(t)
        /\ UNCHANGED <<phase, name, queues, view>>
    BY DEF Inv, Staged, CancelOpened, Doing, managerVars
  <1>2. threads[t].batch # <<>> /\ Current(t).kind # "disconnected"
    BY <1>1 DEF StageOK, Busy
  <1>3. PICK c \in Connections : c = Current(t).c
    BY <1>1, <1>2, InHand
  <1>4. /\ threads' = [threads EXCEPT ![t] = Done(t)]
        /\ guard' = [guard EXCEPT ![c] = "canceled"]
    BY <1>3 DEF CancelOpened
  <1>5. view' \in [Listeners -> [Connections -> {"unknown", "open", "refused", "closed"}]]
    BY <1>1 DEF Types
  <1>. QED
    BY <1>1, <1>2, <1>3, <1>4, <1>5, EndKeeps DEF Abstract

\* connection_closed.
LEMMA ClosesKeeps ==
    ASSUME Inv, NEW t \in Threads, ListenerCloses(t)
    PROVE  Inv' /\ Abstract
  <1>1. /\ Types /\ Routed /\ Staged /\ threads[t].doing = "closing" /\ StageOK(t)
        /\ UNCHANGED <<phase, name, queues, guard>>
    BY DEF Inv, Staged, ListenerCloses, Doing, managerVars
  <1>2. threads[t].batch # <<>> /\ Current(t).kind # "disconnected"
    BY <1>1 DEF StageOK, Busy
  <1>3. PICK c \in Connections : c = Current(t).c
    BY <1>1, <1>2, InHand
  <1>. DEFINE at == threads[t].at
  <1>4. /\ at \in Listeners /\ guard[c] = "closed"
        /\ \A l \in Listeners : (view[l][c] = "open") <=> (l <= at)
    BY <1>1, <1>3 DEF StageOK, Doing, Listeners
  <1>5. Tell(at, c, "closed")
    BY <1>3 DEF ListenerCloses
  <1>6. /\ view' \in [Listeners -> [Connections -> {"unknown", "open", "refused", "closed"}]]
        /\ view'[at][c] = "closed"
        /\ \A k \in Listeners, d \in Connections : k # at \/ d # c => view'[k][d] = view[k][d]
    BY <1>1, <1>4, <1>5, Told
  <1>7. Abstract
    <2>1. Contract!Closed(at, c)
      BY <1>4, <1>5 DEF Contract!Closed, Contract!Listeners, Listeners, Tell
    <2>. QED
      BY <1>4, <2>1 DEF Abstract, Contract!Next, Contract!Listeners, Listeners
  <1>8. CASE at > 1
    <2>1. at - 1 \in 1..NListeners /\ at - 1 \in 0..NListeners
      BY <1>4, <1>8, SizeAssumption DEF Listeners
    <2>2. threads' = [threads EXCEPT ![t] = Round(t, "closing", at - 1)]
      BY <1>1, <1>8 DEF ListenerCloses, Round, Types, Thread
    <2>3. \A k \in Listeners : (view'[k][c] = "open") <=> (k <= at - 1)
      BY <1>4, <1>6 DEF Listeners
    <2>. HIDE DEF at
    <2>. QED
      BY <1>1, <1>2, <1>3, <1>4, <1>5, <1>7, <2>1, <2>2, <2>3, CallKeeps
  <1>9. CASE ~(at > 1)
    <2>1. threads' = [threads EXCEPT ![t] = Done(t)]
      BY <1>9 DEF ListenerCloses
    <2>2. guard' = [guard EXCEPT ![c] = "closed"]
      BY <1>1, <1>4 DEF Types
    <2>3. \A k \in Listeners, d \in Connections : d # c => view'[k][d] = view[k][d]
      BY <1>6
    <2>4. Inv'
      BY <1>1, <1>2, <1>3, <1>6, <2>1, <2>2, <2>3, EndKeeps
    <2>. QED
      BY <1>7, <2>4
  <1>. QED
    BY <1>8, <1>9

-----------------------------------------------------------------------------
(* Every step.                                                             *)

\* Every step keeps the invariant and implements a step of the contract.
LEMMA StepKeeps == Inv /\ [Next]_vars => Inv' /\ Abstract
  <1>. SUFFICES ASSUME Inv, [Next]_vars PROVE Inv' /\ Abstract
    OBVIOUS
  <1>1. ASSUME NEW c \in Connections, InsertConnection(c) PROVE Inv' /\ Abstract
    BY <1>1, InsertKeeps DEF Abstract
  <1>2. ASSUME NEW n \in Names, Send(n) PROVE Inv' /\ Abstract
    BY <1>2, SendKeeps DEF Abstract
  <1>3. CASE \/ \E c \in Connections : Close(c) \/ Free(c)
             \/ RunJob \/ Stop \/ PostFinish
             \/ \E t \in Threads : FinishQueue(t)
             \/ UNCHANGED vars
    BY <1>3, ManagerKeeps DEF Abstract
  <1>4. ASSUME NEW t \in Threads, ThreadStep(t) PROVE Inv' /\ Abstract
    BY <1>4, PopKeeps, ProcessKeeps, AcceptsKeeps, RefusesKeeps, UndoKeeps, CancelKeeps,
       ClosesKeeps DEF ThreadStep, Abstract
  <1>. QED
    BY <1>1, <1>2, <1>3, <1>4 DEF Next

\* The invariant that the guards and the naming of the threads keep.
THEOREM PipelineInvariant == Spec => []Inv
  <1>1. Inv /\ [Next]_vars => Inv'
    BY StepKeeps
  <1>. QED
    BY InitInv, <1>1, PTL DEF Spec

\* Whatever the threads of the server do, what the listeners hear of each
\* connection is what ListenerContract allows: threaded_listener,
\* compound_listener and the guards implement it.
THEOREM ListenersContractKept == Spec => KeepsContract
  <1>1. Init => Contract!Init
    BY DEF Init, Contract!Init, Contract!Listeners, Listeners
  <1>2. Inv /\ [Next]_vars => [Contract!Next]_view
    BY StepKeeps DEF Abstract
  <1>. QED
    BY <1>1, <1>2, PipelineInvariant, PTL DEF Spec, KeepsContract, Contract!Spec
-----------------------------------------------------------------------------
(* The statistics.  The counters follow the set of registered connections, *)
(* and a counter that is taken down counted the connection that goes.      *)

Subscribers(ch) == {c \in Registered : ch \in channels[c]}

Counted ==
    /\ channels \in [Connections -> SUBSET Channels]
    /\ stat \in [Channels -> Nat]
    /\ ~finished => \A ch \in Channels : stat[ch] = Cardinality(Subscribers(ch))

\* A channel has finitely many subscribers.
LEMMA FewSubscribers == \A ch : IsFiniteSet(Subscribers(ch))
  <1>1. IsFiniteSet(Connections)
    BY FS_Interval, SizeAssumption DEF Connections
  <1>2. \A ch : Subscribers(ch) \in SUBSET Connections
    BY DEF Subscribers, Registered
  <1>. QED
    BY <1>1, <1>2, FS_Subset

\* insert_connection counts a connection that was not registered.
LEMMA InsertCounts ==
    ASSUME Types, Counted, NEW c \in Connections, InsertConnection(c)
    PROVE  Counted'
  <1>. USE DEF Counted
  <1>1. PICK chs \in Subscriptions : channels' = [channels EXCEPT ![c] = chs]
    BY DEF InsertConnection
  <1>2. chs \subseteq Channels
    BY ChannelAssumption
  <1>3. /\ channels' \in [Connections -> SUBSET Channels] /\ channels'[c] = chs
        /\ \A d \in Connections : d # c => channels'[d] = channels[d]
    BY <1>1, <1>2
  <1>4. CASE finished
    BY <1>3, <1>4 DEF InsertConnection
  <1>5. CASE ~finished
    <2>1. /\ phase[c] = "new" /\ phase'[c] = "registered" /\ ~finished'
          /\ \A d \in Connections : d # c => phase'[d] = phase[d]
      BY <1>5 DEF InsertConnection, Types
    <2>2. stat' = [ch \in Channels |-> IF ch \in chs THEN stat[ch] + 1 ELSE stat[ch]]
      BY <1>3, <1>5 DEF InsertConnection, UpdateChannelsStat
    <2>3. ASSUME NEW ch \in Channels PROVE stat'[ch] = Cardinality(Subscribers(ch)')
      <3>1. c \notin Subscribers(ch)
        BY <2>1 DEF Subscribers, Registered
      <3>2. Subscribers(ch)' = IF ch \in chs THEN Subscribers(ch) \cup {c} ELSE Subscribers(ch)
        BY <1>3, <2>1 DEF Subscribers, Registered
      <3>3. Cardinality(Subscribers(ch) \cup {c}) = Cardinality(Subscribers(ch)) + 1
        BY <3>1, FewSubscribers, FS_AddElement
      <3>4. stat[ch] = Cardinality(Subscribers(ch))
        BY <1>5
      <3>. QED
        BY <2>2, <3>2, <3>3, <3>4
    <2>4. stat' \in [Channels -> Nat]
      BY <2>2
    <2>. QED
      BY <1>3, <2>3, <2>4
  <1>. QED
    BY <1>4, <1>5

\* remove_connection takes down counters that counted the connection.
LEMMA RemoveCounts ==
    ASSUME Types, Counted, NEW c \in Connections, RemoveConnection(c),
           UNCHANGED <<channels, finished>>
    PROVE  Counted'
  <1>. USE DEF Counted
  <1>1. /\ phase[c] = "registered" /\ phase'[c] = "closed" /\ ~finished /\ ~finished'
        /\ \A d \in Connections : d # c => phase'[d] = phase[d]
    BY DEF RemoveConnection, Types
  <1>2. stat' = [ch \in Channels |-> IF ch \in channels[c] THEN stat[ch] + (-1) ELSE stat[ch]]
    BY DEF RemoveConnection, UpdateChannelsStat
  <1>3. ASSUME NEW ch \in Channels
        PROVE  stat'[ch] \in Nat /\ stat'[ch] = Cardinality(Subscribers(ch)')
    <2>1. Subscribers(ch)' = Subscribers(ch) \ {c}
      BY <1>1 DEF Subscribers, Registered
    <2>2. c \in Subscribers(ch) <=> ch \in channels[c]
      BY <1>1 DEF Subscribers, Registered
    <2>3. /\ Cardinality(Subscribers(ch) \ {c}) =
                IF c \in Subscribers(ch) THEN Cardinality(Subscribers(ch)) - 1
                                         ELSE Cardinality(Subscribers(ch))
          /\ IsFiniteSet(Subscribers(ch) \ {c})
      BY FewSubscribers, FS_RemoveElement
    <2>4. Cardinality(Subscribers(ch) \ {c}) \in Nat
      BY <2>3, FS_CardinalityType
    <2>5. stat[ch] = Cardinality(Subscribers(ch))
      BY <1>1
    <2>6. stat'[ch] = Cardinality(Subscribers(ch) \ {c})
      BY <1>2, <2>2, <2>3, <2>5
    <2>. QED
      BY <2>1, <2>4, <2>6
  <1>4. stat' \in [Channels -> Nat]
    BY <1>2, <1>3, Zenon
  <1>. QED
    BY <1>3, <1>4

\* Every step keeps the count.
LEMMA StepCounts == Types /\ Counted /\ [Next]_vars => Counted'
  <1>. SUFFICES ASSUME Types, Counted, [Next]_vars PROVE Counted'
    OBVIOUS
  <1>1. ASSUME NEW c \in Connections, InsertConnection(c) PROVE Counted'
    BY <1>1, InsertCounts
  <1>2. ASSUME NEW c \in Connections, Close(c) PROVE Counted'
    BY <1>2, RemoveCounts DEF Close
  <1>3. ASSUME NEW c \in Connections, Free(c) PROVE Counted'
    <2>1. Registered' = Registered /\ UNCHANGED <<channels, stat, finished>>
      BY <1>3 DEF Free, Registered, Types
    <2>. QED
      BY <2>1 DEF Counted, Subscribers
  <1>4. CASE NotifyConnectionOpenedFailed
    <2>1. CASE finished \/ Named(Head(jobs)) = {}
      BY <1>4, <2>1 DEF NotifyConnectionOpenedFailed, Counted, Subscribers, Registered
    <2>2. CASE ~(finished \/ Named(Head(jobs)) = {})
      <3>1. PICK c \in Named(Head(jobs)) : RemoveConnection(c)
        BY <1>4, <2>2 DEF NotifyConnectionOpenedFailed
      <3>. QED
        BY <1>4, <3>1, RemoveCounts DEF NotifyConnectionOpenedFailed, Named, Registered
    <2>. QED
      BY <2>1, <2>2
  <1>5. CASE Finish
    BY <1>5 DEF Finish, Counted
  <1>6. CASE UNCHANGED <<phase, channels, stat, finished>>
    BY <1>6 DEF Counted, Subscribers, Registered
  <1>7. CASE \/ \E n \in Names : Send(n)
             \/ Stop \/ PostFinish
             \/ \E t \in Threads : FinishQueue(t) \/ ThreadStep(t)
             \/ UNCHANGED vars
    BY <1>6, <1>7, ZenonT(60) DEF Send, Stop, PostFinish, FinishQueue, ThreadStep, PopAll, ThreadEnds,
       ProcessItem, ListenerAccepts, ListenerRefuses, UndoOpened, CancelOpened,
       ListenerCloses, managerVars, vars
  <1>. QED
    BY <1>1, <1>2, <1>3, <1>4, <1>5, <1>7 DEF Next, RunJob

\* The counters and the channels of the connections have their types, and
\* count until the manager is finished.
THEOREM CountInvariant == Spec => []Counted
  <1>1. Init => Counted
    <2>. SUFFICES ASSUME Init PROVE Counted
      OBVIOUS
    <2>1. \A ch : Subscribers(ch) = {}
      BY DEF Init, Subscribers, Registered
    <2>. QED
      BY <2>1, FS_EmptySet DEF Init, Counted
  <1>2. Inv /\ Counted /\ [Next]_vars => Counted'
    BY StepCounts DEF Inv
  <1>. QED
    BY <1>1, <1>2, PipelineInvariant, PTL DEF Spec

\* channels_stat_impl counts every registered subscriber of a channel once,
\* whatever closes the connections and however often addresses are reused,
\* until the manager is finished.
THEOREM CountersRight == Spec => []StatIsExact
  <1>1. Counted => StatIsExact
    BY DEF Counted, StatIsExact, Subscribers
  <1>. QED
    BY <1>1, CountInvariant, PTL

-----------------------------------------------------------------------------
(* The order of the notifications.  What a thread still has to do is the   *)
(* rest of its batch and then its queue; a step of the server adds an item *)
(* at the end of it or takes the first one away.                           *)

Line(t) == threads[t].batch \o queues[t]

At(t, i, kind, c) == i \in DOMAIN Line(t) /\ Line(t)[i].kind = kind /\ Line(t)[i].c = c

LinesKept == \A t \in Threads : Line(t)' = Line(t)

Pushed(item) ==
    \A t \in Threads : Line(t)' = IF t = ThreadOf[item.to] THEN Append(Line(t), item) ELSE Line(t)

Popped(t) ==
    /\ Line(t) # <<>> /\ Line(t)' = Tail(Line(t))
    /\ \A u \in Threads : u # t => Line(u)' = Line(u)

\* A line is a sequence of items that begins with the batch.
LEMMA LineShape ==
    ASSUME Types, NEW t \in Threads
    PROVE  /\ Line(t) \in Seq(Item)
           /\ threads[t].batch # <<>> => /\ Line(t) # <<>>
                                         /\ Line(t)[1] = Current(t)
                                         /\ Tail(Line(t)) = Tail(threads[t].batch) \o queues[t]
           /\ threads[t].batch = <<>> => Line(t) = queues[t]
  <1>. DEFINE b == threads[t].batch
              q == queues[t]
  <1>1. b \in Seq(Item) /\ q \in Seq(Item)
    BY ThreadShape DEF Types
  <1>2. Line(t) = b \o q /\ Current(t) = Head(b)
    BY DEF Line, Current
  <1>. HIDE DEF b, q
  <1>3. b # <<>> => b \o q # <<>> /\ (b \o q)[1] = Head(b)
    BY <1>1
  <1>4. b # <<>> => Tail(b \o q) = Tail(b) \o q
    BY <1>1
  <1>5. b = <<>> => b \o q = q
    BY <1>1
  <1>6. b \o q \in Seq(Item)
    BY <1>1
  <1>. QED
    BY <1>2, <1>3, <1>4, <1>5, <1>6 DEF b, q

\* Where an item can be.
LEMMA AtIsInLine ==
    ASSUME Types, NEW t \in Threads, NEW i, NEW kind, NEW c, At(t, i, kind, c)
    PROVE  i \in 1..Len(Line(t)) /\ i \in Nat /\ i # 0 /\ Line(t)[i] \in Item
  <1>1. Line(t) \in Seq(Item)
    BY LineShape
  <1>2. i \in DOMAIN Line(t)
    BY DEF At
  <1>. QED
    BY <1>1, <1>2

\* The items of the connections that are not the first one of their thread
\* have their thread, too: no connection without a name has an item.
LEMMA AtIsRouted ==
    ASSUME Types, Routed, NEW t \in Threads, NEW i, NEW c, NEW kind \in {"open", "close"},
           At(t, i, kind, c)
    PROVE  /\ c \in Connections /\ phase[c] # "new" /\ ThreadOf[name[c]] = t
           /\ NListeners > 0
  <1>. DEFINE b == threads[t].batch
              q == queues[t]
  <1>1. b \in Seq(Item) /\ q \in Seq(Item) /\ AllOK(t, b) /\ AllOK(t, q)
    BY ThreadShape DEF Types, Routed
  <1>2. Line(t) = b \o q
    BY DEF Line
  <1>3. i \in 1..Len(Line(t)) /\ Line(t)[i] \in Item
    BY AtIsInLine
  <1>. HIDE DEF b, q
  <1>4. \/ i \in DOMAIN b /\ Line(t)[i] = b[i]
        \/ i - Len(b) \in DOMAIN q /\ Line(t)[i] = q[i - Len(b)]
    BY <1>1, <1>2, <1>3
  <1>5. ItemOK(t, Line(t)[i])
    BY <1>1, <1>4 DEF AllOK
  <1>6. Line(t)[i].kind = kind /\ Line(t)[i].c = c
    BY DEF At
  <1>. QED
    BY <1>3, <1>5, <1>6, ItemShape DEF ItemOK

\* What a pushed item changes.
LEMMA PushedAt ==
    ASSUME Types, NEW item, Pushed(item), NEW t \in Threads, NEW i, NEW kind, NEW c
    PROVE  At(t, i, kind, c)' <=>
               \/ At(t, i, kind, c)
               \/ /\ t = ThreadOf[item.to] /\ i = Len(Line(t)) + 1
                  /\ kind = item.kind /\ c = item.c
  <1>1. Line(t) \in Seq(Item)
    BY LineShape
  <1>2. CASE t # ThreadOf[item.to]
    BY <1>2 DEF Pushed, At
  <1>3. CASE t = ThreadOf[item.to]
    <2>. DEFINE s == Line(t)
                r == Line(t)'
    <2>1. r = Append(s, item) /\ s \in Seq(Item)
      BY <1>1, <1>3 DEF Pushed
    <2>2. At(t, i, kind, c) <=> i \in DOMAIN s /\ s[i].kind = kind /\ s[i].c = c
      BY DEF At
    <2>3. At(t, i, kind, c)' <=> i \in DOMAIN r /\ r[i].kind = kind /\ r[i].c = c
      BY DEF At
    <2>. HIDE DEF s, r
    <2>4. /\ DOMAIN r = 1..(Len(s) + 1) /\ DOMAIN s = 1..Len(s) /\ Len(s) \in Nat
          /\ \A k \in 1..Len(s) : r[k] = s[k]
          /\ r[Len(s) + 1] = item
      BY <2>1
    <2>5. i \in DOMAIN r <=> i \in DOMAIN s \/ i = Len(s) + 1
      BY <2>4
    <2>6. ~(Len(s) + 1 \in DOMAIN s)
      BY <2>4
    <2>7. Len(s) = Len(Line(t))
      BY DEF s
    <2>. QED
      BY <1>3, <2>2, <2>3, <2>4, <2>5, <2>6, <2>7
  <1>. QED
    BY <1>2, <1>3

\* What taking the first item away changes.
LEMMA PoppedAt ==
    ASSUME Types, NEW t \in Threads, Popped(t), NEW i \in Nat, NEW kind, NEW c
    PROVE  /\ At(t, i, kind, c)' <=> i # 0 /\ At(t, i + 1, kind, c)
           /\ \A u \in Threads : u # t => (At(u, i, kind, c)' <=> At(u, i, kind, c))
  <1>1. Line(t) \in Seq(Item) /\ Line(t) # <<>> /\ Line(t)' = Tail(Line(t))
    BY LineShape DEF Popped
  <1>2. /\ i \in DOMAIN Tail(Line(t)) <=> i # 0 /\ i + 1 \in DOMAIN Line(t)
        /\ i \in DOMAIN Tail(Line(t)) => Tail(Line(t))[i] = Line(t)[i + 1]
    BY <1>1
  <1>3. At(t, i, kind, c)' <=> i # 0 /\ At(t, i + 1, kind, c)
    BY <1>1, <1>2 DEF At
  <1>. QED
    BY <1>3 DEF Popped, At

\* Fire adds the item unless there is no queue for it.
LEMMA FireLines ==
    ASSUME Types, NEW item \in Item, Fire(item), UNCHANGED threads
    PROVE  IF NListeners = 0 \/ ended[ThreadOf[item.to]] THEN LinesKept ELSE Pushed(item)
  <1>. DEFINE u == ThreadOf[item.to]
  <1>1. u \in Threads
    BY ItemShape, ThreadAssumption
  <1>2. CASE NListeners = 0 \/ ended[u]
    BY <1>2 DEF Fire, CalcIndex, LinesKept, Line
  <1>3. CASE ~(NListeners = 0 \/ ended[u])
    <2>1. queues' = [queues EXCEPT ![u] = Append(@, item)]
      BY <1>3 DEF Fire, CalcIndex
    <2>2. ASSUME NEW t \in Threads
          PROVE  Line(t)' = IF t = u THEN Append(Line(t), item) ELSE Line(t)
      <3>. DEFINE b == threads[t].batch
                  q == queues[t]
      <3>1. b \in Seq(Item) /\ q \in Seq(Item)
        BY ThreadShape DEF Types
      <3>2. Line(t) = b \o q /\ Line(t)' = b \o queues'[t]
        BY DEF Line
      <3>3. queues'[t] = IF t = u THEN Append(q, item) ELSE q
        BY <2>1 DEF Types
      <3>. HIDE DEF b, q
      <3>4. b \o Append(q, item) = Append(b \o q, item)
        BY <3>1
      <3>. QED
        BY <3>2, <3>3, <3>4
    <2>. QED
      BY <1>3, <2>2 DEF Pushed
  <1>. QED
    BY <1>2, <1>3
-----------------------------------------------------------------------------
(* The invariant of the order.                                             *)

OnThread(c)      == ThreadOf[name[c]]
Opens(c, i)      == At(OnThread(c), i, "open", c)
Closes(c, i)     == At(OnThread(c), i, "close", c)
OpenSomewhere(c) == \E l \in Listeners : view[l][c] = "open"

\* A listener has the connection open, or will be told of it.
Alive(c) == OpenSomewhere(c) \/ \E i \in Nat : Opens(c, i)

\* Connections are numbered as they come, and an address is used again when
\* the connection that had it is freed.
Numbered ==
    \A c, d \in Connections : c < d /\ phase[d] # "new" =>
        phase[c] # "new" /\ (id[c] = id[d] => phase[c] = "freed")

\* The guard of a connection that is not registered yet is untouched.
Unborn == \A c \in Connections : phase[c] = "new" => guard[c] = "none"

\* A thread opens for an opening and closes for a closing.
Kinds ==
    \A t \in Threads :
        /\ threads[t].doing \in {"opening", "undoing"} => Current(t).kind = "open"
        /\ threads[t].doing = "closing" => Current(t).kind = "close"

\* A connection that is open to some listeners only is in the hands of its
\* thread.
InHands ==
    \A c \in Connections :
        guard[c] \notin {"none", "ok"} /\ (guard[c] = "opened" \/ OpenSomewhere(c)) =>
            Busy(OnThread(c)) /\ Current(OnThread(c)).c = c

\* The opening of a connection comes before its closing.
OpensFirst == \A c \in Connections, i, j \in Nat : Opens(c, i) /\ Closes(c, j) => i < j

\* The closing of a connection that is gone is on its way, unless its queue
\* or the manager is finished.
WillClose ==
    \A c \in Connections :
        Alive(c) /\ phase[c] \in {"closed", "freed"} /\ ~ended[OnThread(c)] /\ ~finished =>
            \E i \in Nat : Closes(c, i)

\* Of two connections that look alike the first is closed before the second
\* is opened.
ByTurns ==
    \A c, d \in Connections :
        /\ c < d /\ phase[d] # "new" /\ name[c] = name[d] /\ id[c] = id[d]
        /\ Alive(c)
        => /\ guard[d] = "none"
           /\ \A j \in Nat : Opens(d, j) => \E i \in Nat : i < j /\ Closes(c, i)

Order == Numbered /\ Unborn /\ Kinds /\ InHands /\ OpensFirst /\ WillClose /\ ByTurns

\* What is open to a listener in which state of the guard.
LEMMA OpenGuard ==
    ASSUME Viewed, InHands, NEW c \in Connections, OpenSomewhere(c)
    PROVE  guard[c] = "ok" \/ (Busy(OnThread(c)) /\ Current(OnThread(c)).c = c)
  BY DEF Viewed, ViewOK, InHands, OpenSomewhere

\* The items of a connection are those on its thread, also after a step.
LEMMA OnThreadAt ==
    ASSUME NEW c \in Connections, NEW u \in Threads, u = OnThread(c)', NEW i
    PROVE  /\ Opens(c, i)' <=> At(u, i, "open", c)'
           /\ Closes(c, i)' <=> At(u, i, "close", c)'
  <1>1. /\ Opens(c, i)' <=> /\ i \in DOMAIN (Line(OnThread(c))')
                            /\ Line(OnThread(c))'[i].kind = "open"
                            /\ Line(OnThread(c))'[i].c = c
        /\ Closes(c, i)' <=> /\ i \in DOMAIN (Line(OnThread(c))')
                             /\ Line(OnThread(c))'[i].kind = "close"
                             /\ Line(OnThread(c))'[i].c = c
    BY DEF Opens, Closes, At
  <1>2. Line(OnThread(c))' = Line(u)'
    BY DEF Line
  <1>. QED
    BY <1>1, <1>2 DEF At

-----------------------------------------------------------------------------
(* A step of a listener thread keeps it when it wakes up no connection,    *)
(* touches a guard only in its turn, and takes a closing away only when    *)
(* nothing is left of the connection.                                      *)

LEMMA LineKeptOrder ==
    ASSUME Types, Order, UNCHANGED <<phase, id, name, ended, finished>>, LinesKept,
           \A c \in Connections : OpenSomewhere(c)' => Alive(c),
           \A c \in Connections :
               guard'[c] # guard[c] => phase[c] # "new" /\ (guard[c] # "none" \/ Opens(c, 1)),
           Kinds', InHands'
    PROVE  Order'
  <1>. USE DEF Order
  <1>1. \A c \in Connections : OnThread(c) \in Threads /\ OnThread(c)' = OnThread(c)
    BY ThreadAssumption DEF OnThread, Types
  <1>2. \A c \in Connections, i \in Nat :
          (Opens(c, i)' <=> Opens(c, i)) /\ (Closes(c, i)' <=> Closes(c, i))
    BY <1>1, Zenon DEF Opens, Closes, At, LinesKept
  <1>3. \A c \in Connections : Alive(c)' => Alive(c)
    BY <1>2 DEF Alive
  <1>4. Numbered' /\ Unborn'
    BY DEF Numbered, Unborn
  <1>5. OpensFirst'
    BY <1>2 DEF OpensFirst
  <1>6. WillClose'
    BY <1>1, <1>2, <1>3 DEF WillClose
  <1>7. ByTurns'
    <2>. SUFFICES ASSUME NEW c \in Connections, NEW d \in Connections,
                         c < d, phase[d] # "new", name[c] = name[d], id[c] = id[d], Alive(c)'
                  PROVE  /\ guard'[d] = "none"
                         /\ \A j \in Nat : Opens(d, j)' => \E i \in Nat : i < j /\ Closes(c, i)'
      BY DEF ByTurns
    <2>1. /\ guard[d] = "none"
          /\ \A j \in Nat : Opens(d, j) => \E i \in Nat : i < j /\ Closes(c, i)
      BY <1>3 DEF ByTurns
    <2>2. ~Opens(d, 1)
      <3>1. SUFFICES ASSUME Opens(d, 1) PROVE FALSE
        OBVIOUS
      <3>2. PICK i \in Nat : i < 1 /\ Closes(c, i)
        BY <2>1, <3>1
      <3>3. i # 0
        BY <1>1, <3>2, AtIsInLine DEF Closes
      <3>. QED
        BY <3>2, <3>3
    <2>. QED
      BY <1>2, <2>1, <2>2
  <1>. QED
    BY <1>4, <1>5, <1>6, <1>7

LEMMA LinePoppedOrder ==
    ASSUME Types, Order, NEW t \in Threads, Popped(t),
           UNCHANGED <<phase, id, name, ended, finished>>,
           \A c \in Connections : OpenSomewhere(c)' => Alive(c),
           \A c \in Connections : guard'[c] # guard[c] => guard[c] # "none" /\ phase[c] # "new",
           \A c \in Connections : At(t, 1, "close", c) => ~OpenSomewhere(c)',
           Kinds', InHands'
    PROVE  Order'
  <1>. USE DEF Order
  <1>1. \A c \in Connections : OnThread(c) \in Threads /\ OnThread(c)' = OnThread(c)
    BY ThreadAssumption DEF OnThread, Types
  <1>2. ASSUME NEW c \in Connections, NEW i \in Nat
        PROVE  /\ Opens(c, i)' <=> IF OnThread(c) = t THEN i # 0 /\ Opens(c, i + 1)
                                                      ELSE Opens(c, i)
               /\ Closes(c, i)' <=> IF OnThread(c) = t THEN i # 0 /\ Closes(c, i + 1)
                                                       ELSE Closes(c, i)
    <2>1. PICK u \in Threads : u = OnThread(c) /\ u = OnThread(c)'
      BY <1>1
    <2>2. /\ Opens(c, i)' <=> At(u, i, "open", c)'
          /\ Closes(c, i)' <=> At(u, i, "close", c)'
      BY <2>1, OnThreadAt
    <2>3. /\ \A k \in Nat : Opens(c, k) <=> At(u, k, "open", c)
          /\ \A k \in Nat : Closes(c, k) <=> At(u, k, "close", c)
      BY <2>1 DEF Opens, Closes
    <2>4. i + 1 \in Nat
      OBVIOUS
    <2>. QED
      BY <2>1, <2>2, <2>3, <2>4, PoppedAt
  <1>3. ASSUME NEW c \in Connections, NEW i \in Nat, Closes(c, i), Alive(c)'
        PROVE  \E j \in Nat : /\ Closes(c, j)'
                              /\ j = IF OnThread(c) = t THEN i - 1 ELSE i
    <2>1. i # 0
      BY <1>1, <1>3, AtIsInLine DEF Closes
    <2>2. CASE OnThread(c) # t
      BY <1>2, <1>3, <2>2
    <2>3. CASE OnThread(c) = t /\ i # 1
      <3>1. i - 1 \in Nat /\ (i - 1) + 1 = i /\ i - 1 # 0
        BY <2>1, <2>3
      <3>. QED
        BY <1>2, <1>3, <2>3, <3>1
    <2>4. CASE OnThread(c) = t /\ i = 1
      <3>1. Closes(c, 1) /\ ~OpenSomewhere(c)'
        BY <1>3, <2>4 DEF Closes
      <3>2. PICK k \in Nat : Opens(c, k)'
        BY <1>3, <3>1 DEF Alive
      <3>3. Opens(c, k + 1) /\ k # 0
        BY <1>2, <2>4, <3>2
      <3>4. k + 1 < 1
        BY <3>1, <3>3 DEF OpensFirst
      <3>. QED
        BY <3>4
    <2>. QED
      BY <2>2, <2>3, <2>4
  <1>4. \A c \in Connections : Alive(c)' => Alive(c)
    BY <1>2 DEF Alive
  <1>5. Numbered' /\ Unborn'
    BY DEF Numbered, Unborn
  <1>6. OpensFirst'
    <2>. SUFFICES ASSUME NEW c \in Connections, NEW i \in Nat, NEW j \in Nat,
                         Opens(c, i)', Closes(c, j)'
                  PROVE  i < j
      BY DEF OpensFirst
    <2>1. CASE OnThread(c) = t
      <3>1. Opens(c, i + 1) /\ Closes(c, j + 1)
        BY <1>2, <2>1
      <3>2. i + 1 < j + 1
        BY <3>1 DEF OpensFirst
      <3>. QED
        BY <3>2
    <2>2. CASE OnThread(c) # t
      BY <1>2, <2>2 DEF OpensFirst
    <2>. QED
      BY <2>1, <2>2
  <1>7. WillClose'
    BY <1>1, <1>3, <1>4 DEF WillClose
  <1>8. ByTurns'
    <2>. SUFFICES ASSUME NEW c \in Connections, NEW d \in Connections,
                         c < d, phase[d] # "new", name[c] = name[d], id[c] = id[d], Alive(c)'
                  PROVE  /\ guard'[d] = "none"
                         /\ \A j \in Nat : Opens(d, j)' => \E i \in Nat : i < j /\ Closes(c, i)'
      BY DEF ByTurns
    <2>1. /\ guard[d] = "none"
          /\ \A j \in Nat : Opens(d, j) => \E i \in Nat : i < j /\ Closes(c, i)
      BY <1>4 DEF ByTurns
    <2>2. OnThread(c) = OnThread(d)
      BY DEF OnThread
    <2>3. ASSUME NEW j \in Nat, Opens(d, j)' PROVE \E i \in Nat : i < j /\ Closes(c, i)'
      <3>. DEFINE k == IF OnThread(c) = t THEN j + 1 ELSE j
      <3>1. k \in Nat /\ Opens(d, k)
        BY <1>2, <2>2, <2>3
      <3>2. PICK i \in Nat : i < k /\ Closes(c, i)
        BY <2>1, <3>1
      <3>3. PICK m \in Nat : Closes(c, m)' /\ m = IF OnThread(c) = t THEN i - 1 ELSE i
        BY <1>3, <3>2
      <3>. QED
        BY <3>2, <3>3
    <2>. QED
      BY <2>1, <2>3
  <1>. QED
    BY <1>5, <1>6, <1>7, <1>8

\* Whose connection a thread has in hand after a step of thread t, which may
\* have been in the middle of a round of calls.
LEMMA HandsKept ==
    ASSUME Types, InHands, NEW t \in Threads, UNCHANGED name,
           \A u \in Threads : u # t => threads'[u] = threads[u],
           \A d \in Connections :
               \/ /\ guard'[d] = guard[d] /\ (OpenSomewhere(d)' => OpenSomewhere(d))
                  /\ ~(Busy(t) /\ Current(t).c = d)
               \/ Busy(t)' /\ Current(t)'.c = d /\ OnThread(d) = t
               \/ guard'[d] \in {"none", "ok"}
               \/ guard'[d] # "opened" /\ ~OpenSomewhere(d)'
    PROVE  InHands'
  <1>. SUFFICES ASSUME NEW d \in Connections, guard'[d] \notin {"none", "ok"},
                       guard'[d] = "opened" \/ OpenSomewhere(d)'
                PROVE  Busy(OnThread(d))' /\ Current(OnThread(d))'.c = d
    BY DEF InHands
  <1>1. PICK u \in Threads : u = OnThread(d) /\ u = OnThread(d)'
    BY ThreadAssumption DEF OnThread, Types
  <1>2. (Busy(OnThread(d))' <=> Busy(u)') /\ Current(OnThread(d))' = Current(u)'
    BY <1>1 DEF Busy, Current
  <1>3. CASE Busy(t)' /\ Current(t)'.c = d /\ OnThread(d) = t
    BY <1>1, <1>2, <1>3
  <1>4. CASE /\ guard'[d] = guard[d] /\ (OpenSomewhere(d)' => OpenSomewhere(d))
             /\ ~(Busy(t) /\ Current(t).c = d)
    <2>1. Busy(u) /\ Current(u).c = d
      BY <1>1, <1>4 DEF InHands
    <2>2. u # t
      BY <1>4, <2>1
    <2>3. threads'[u] = threads[u]
      BY <2>2
    <2>. QED
      BY <1>2, <2>1, <2>3 DEF Busy, Current
  <1>. QED
    BY <1>3, <1>4

\* What a thread is at is the first item of its line.
LEMMA FirstInLine ==
    ASSUME Types, NEW t \in Threads, threads[t].batch # <<>>, NEW c, c = Current(t).c
    PROVE  At(t, 1, Current(t).kind, c)
  <1>1. Line(t) \in Seq(Item) /\ Line(t) # <<>> /\ Line(t)[1] = Current(t)
    BY LineShape
  <1>2. 1 \in DOMAIN Line(t)
    BY <1>1
  <1>. QED
    BY <1>1, <1>2 DEF At

\* A step of a thread that goes on with its item.
LEMMA StayOrder ==
    ASSUME Inv, Order, NEW t \in Threads, NEW c \in Connections,
           NEW doing \in {"opening", "undoing", "closing"}, NEW at \in 0..NListeners,
           threads[t].batch # <<>>, c = Current(t).c,
           Current(t).kind = IF doing = "closing" THEN "close" ELSE "open",
           UNCHANGED <<phase, id, name, ended, finished, queues>>,
           threads' = [threads EXCEPT ![t] = Round(t, doing, at)],
           \A d \in Connections : d # c =>
               guard'[d] = guard[d] /\ \A l \in Listeners : view'[l][d] = view[l][d],
           guard'[c] # guard[c] => guard[c] # "none" \/ doing = "opening",
           OpenSomewhere(c)' => OpenSomewhere(c) \/ doing = "opening" \/ doing = "undoing"
    PROVE  Order'
  <1>1. Types /\ Routed
    BY DEF Inv
  <1>2. threads'[t] = Round(t, doing, at) /\ \A u \in Threads : u # t => threads'[u] = threads[u]
    BY <1>1 DEF Types
  <1>3. threads'[t].batch = threads[t].batch /\ threads'[t].doing = doing
    BY <1>1, <1>2, GoesOn
  <1>4. Current(t)' = Current(t)
    BY <1>3 DEF Current
  <1>5. LinesKept
    <2>1. \A u \in Threads : threads'[u].batch = threads[u].batch
      BY <1>2, <1>3
    <2>. QED
      BY <2>1 DEF LinesKept, Line
  <1>6. At(t, 1, Current(t).kind, c)
    BY <1>1, FirstInLine
  <1>7. OnThread(c) = t /\ phase[c] # "new"
    BY <1>1, <1>6, AtIsRouted DEF OnThread
  <1>8. Current(t).kind = "open" => Opens(c, 1) /\ Alive(c)
    BY <1>6, <1>7 DEF Opens, Alive
  <1>9. Kinds'
    <2>1. \A u \in Threads : u # t => Current(u)' = Current(u)
      BY <1>2 DEF Current
    <2>. QED
      BY <1>2, <1>3, <1>4, <2>1 DEF Kinds, Order
  <1>10. \A d \in Connections : d # c => (OpenSomewhere(d)' <=> OpenSomewhere(d))
    BY DEF OpenSomewhere
  <1>11. Busy(t)' /\ Current(t)'.c = c
    BY <1>3, <1>4 DEF Busy
  <1>12. InHands'
    <2>1. \A d \in Connections : d # c =>
              guard'[d] = guard[d] /\ (OpenSomewhere(d)' => OpenSomewhere(d))
      BY <1>10
    <2>2. \A d \in Connections : d # c => ~(Current(t).c = d)
      OBVIOUS
    <2>3. InHands
      BY DEF Order
    <2>. QED
      BY <1>1, <1>2, <1>7, <1>11, <2>1, <2>2, <2>3, HandsKept
  <1>13. \A d \in Connections : OpenSomewhere(d)' => Alive(d)
    BY <1>8, <1>10 DEF Alive
  <1>14. \A d \in Connections :
            guard'[d] # guard[d] => phase[d] # "new" /\ (guard[d] # "none" \/ Opens(d, 1))
    BY <1>7, <1>8
  <1>. QED
    BY <1>1, <1>5, <1>9, <1>12, <1>13, <1>14, LineKeptOrder

\* A step of a thread that is through with its item.
LEMMA DoneOrder ==
    ASSUME Inv, Order, NEW t \in Threads, threads[t].batch # <<>>,
           UNCHANGED <<phase, id, name, ended, finished, queues>>,
           threads' = [threads EXCEPT ![t] = Done(t)],
           \A d \in Connections :
               \/ /\ guard'[d] = guard[d] /\ (OpenSomewhere(d)' => OpenSomewhere(d))
                  /\ ~(Busy(t) /\ Current(t).c = d)
               \/ /\ Current(t).c = d /\ guard[d] # "none" /\ phase[d] # "new"
                  /\ OpenSomewhere(d)' => Alive(d)
                  /\ guard'[d] = "ok" \/ (guard'[d] # "opened" /\ ~OpenSomewhere(d)'),
           \A d \in Connections :
               Current(t).kind = "close" /\ Current(t).c = d => ~OpenSomewhere(d)'
    PROVE  Order'
  <1>1. Types /\ Routed
    BY DEF Inv
  <1>2. threads'[t] = Done(t) /\ \A u \in Threads : u # t => threads'[u] = threads[u]
    BY <1>1 DEF Types
  <1>3. threads'[t].batch = Tail(threads[t].batch) /\ threads'[t].doing = "idle"
    BY <1>1, <1>2, DoneShape
  <1>4. Popped(t)
    <2>1. /\ Line(t) # <<>>
          /\ Tail(Line(t)) = Tail(threads[t].batch) \o queues[t]
      BY <1>1, LineShape
    <2>2. Line(t)' = Tail(threads[t].batch) \o queues[t]
      BY <1>3 DEF Line
    <2>3. \A u \in Threads : u # t => Line(u)' = Line(u)
      BY <1>2 DEF Line
    <2>. QED
      BY <2>1, <2>2, <2>3 DEF Popped
  <1>5. Kinds'
    <2>1. \A u \in Threads : u # t => Current(u)' = Current(u)
      BY <1>2 DEF Current
    <2>. QED
      BY <1>2, <1>3, <2>1 DEF Kinds, Order
  <1>6. InHands'
    <2>1. InHands
      BY DEF Order
    <2>. QED
      BY <1>1, <1>2, <2>1, HandsKept
  <1>7. \A d \in Connections : OpenSomewhere(d)' => Alive(d)
    BY DEF Alive
  <1>8. \A d \in Connections : guard'[d] # guard[d] => guard[d] # "none" /\ phase[d] # "new"
    OBVIOUS
  <1>9. \A d \in Connections : At(t, 1, "close", d) => ~OpenSomewhere(d)'
    <2>1. Line(t)[1] = Current(t)
      BY <1>1, LineShape
    <2>. QED
      BY <2>1 DEF At
  <1>. QED
    BY <1>1, <1>4, <1>5, <1>6, <1>7, <1>8, <1>9, LinePoppedOrder

\* pop_all() moves the queue into the empty batch; a thread that ends leaves
\* its line as it is.
LEMMA PopOrder ==
    ASSUME Inv, Order, NEW t \in Threads, PopAll(t) \/ ThreadEnds(t)
    PROVE  Order'
  <1>1. Types /\ threads[t] \in Thread /\ queues[t] \in Seq(Item)
    BY DEF Inv, Types
  <1>2. /\ UNCHANGED <<phase, id, name, ended, finished, guard, view>>
        /\ threads[t].batch = <<>> /\ threads[t].doing = "idle"
    BY DEF PopAll, ThreadEnds, managerVars, Doing
  <1>3. \A u \in Threads : u # t => threads'[u] = threads[u] /\ queues'[u] = queues[u]
    BY <1>1 DEF PopAll, ThreadEnds, Types
  <1>4. /\ threads'[t].doing \in {"idle", "gone"}
        /\ Line(t)' = Line(t)
    <2>1. Line(t) = queues[t]
      BY <1>1, <1>2, LineShape
    <2>2. CASE PopAll(t)
      <3>1. threads'[t] = Idle(queues[t]) /\ queues'[t] = <<>>
        BY <1>1, <2>2 DEF PopAll, Types
      <3>2. threads'[t].batch = queues[t] /\ threads'[t].doing = "idle"
        BY <3>1 DEF Idle
      <3>3. queues[t] \o <<>> = queues[t]
        BY <1>1
      <3>. QED
        BY <2>1, <3>1, <3>2, <3>3 DEF Line
    <2>3. CASE ThreadEnds(t)
      <3>1. threads'[t] = [threads[t] EXCEPT !.doing = "gone"] /\ queues'[t] = queues[t]
        BY <1>1, <2>3 DEF ThreadEnds, Types
      <3>2. threads'[t].batch = threads[t].batch /\ threads'[t].doing = "gone"
        BY <1>1, <3>1 DEF Thread
      <3>. QED
        BY <3>1, <3>2 DEF Line
    <2>. QED
      BY <2>2, <2>3
  <1>5. LinesKept
    BY <1>3, <1>4 DEF LinesKept, Line
  <1>6. Kinds'
    <2>1. \A u \in Threads : u # t => Current(u)' = Current(u)
      BY <1>3 DEF Current
    <2>. QED
      BY <1>3, <1>4, <2>1 DEF Kinds, Order
  <1>7. \A d \in Connections : OpenSomewhere(d)' <=> OpenSomewhere(d)
    BY <1>2 DEF OpenSomewhere
  <1>8. InHands'
    <2>1. InHands /\ ~Busy(t)
      BY <1>2 DEF Order, Busy
    <2>. QED
      BY <1>1, <1>2, <1>3, <1>7, <2>1, HandsKept
  <1>. QED
    BY <1>1, <1>2, <1>5, <1>6, <1>7, <1>8, LineKeptOrder DEF Alive

\* What process_item passes over is not open to anybody.
LEMMA SkipOrder ==
    ASSUME Inv, Order, NEW t \in Threads, threads[t].doing = "idle", threads[t].batch # <<>>,
           UNCHANGED <<phase, id, name, ended, finished, queues, guard, view>>,
           threads' = [threads EXCEPT ![t] = Done(t)],
           Current(t).kind = "close" => guard[Current(t).c] # "ok"
    PROVE  Order'
  <1>1. Types /\ Routed /\ Viewed /\ InHands /\ ~Busy(t)
    BY DEF Inv, Order, Busy
  <1>2. \A d \in Connections : OpenSomewhere(d)' <=> OpenSomewhere(d)
    BY DEF OpenSomewhere
  <1>3. ASSUME NEW d \in Connections, Current(t).kind = "close", Current(t).c = d
        PROVE  ~OpenSomewhere(d)
    <2>1. At(t, 1, "close", d)
      BY <1>1, <1>3, FirstInLine
    <2>2. OnThread(d) = t
      BY <1>1, <2>1, AtIsRouted DEF OnThread
    <2>. QED
      BY <1>1, <1>3, <2>2, OpenGuard
  <1>. QED
    BY <1>1, <1>2, <1>3, DoneOrder

\* process_item.
LEMMA ProcessOrder ==
    ASSUME Inv, Order, NEW t \in Threads, ProcessItem(t)
    PROVE  Order'
  <1>1. /\ Types /\ Routed /\ threads[t].batch # <<>> /\ threads[t].doing = "idle"
        /\ UNCHANGED <<phase, id, name, ended, finished, queues, view>>
    BY DEF Inv, ProcessItem, Doing, managerVars
  <1>2. threads[t] \in Thread /\ Current(t) \in Item
    BY <1>1, ThreadShape DEF Types
  <1>3. CASE /\ threads' = [threads EXCEPT ![t] = Done(t)] /\ UNCHANGED guard
             /\ Current(t).kind = "close" => guard[Current(t).c] # "ok"
    BY <1>1, <1>3, SkipOrder
  <1>4. ASSUME NEW doing \in {"opening", "closing"}, NEW at, NEW g,
               Current(t).kind = IF doing = "closing" THEN "close" ELSE "open",
               at = IF doing = "closing" THEN NListeners ELSE 1,
               doing = "closing" => guard[Current(t).c] = "ok",
               threads' = [threads EXCEPT ![t].doing = doing, ![t].at = at],
               guard' = [guard EXCEPT ![Current(t).c] = g]
        PROVE  Order'
    <2>1. PICK c \in Connections : c = Current(t).c
      BY <1>2, <1>4, ItemShape
    <2>2. At(t, 1, Current(t).kind, c)
      BY <1>1, <2>1, FirstInLine
    <2>3. NListeners > 0
      BY <1>1, <1>4, <2>2, AtIsRouted
    <2>4. at \in 0..NListeners
      BY <1>4, <2>3, SizeAssumption
    <2>5. threads' = [threads EXCEPT ![t] = Round(t, doing, at)]
      BY <1>1, <1>4 DEF Round, Types
    <2>6. \A d \in Connections : d # c =>
             guard'[d] = guard[d] /\ \A l \in Listeners : view'[l][d] = view[l][d]
      BY <1>1, <1>4, <2>1 DEF Types
    <2>7. OpenSomewhere(c)' => OpenSomewhere(c)
      BY <1>1 DEF OpenSomewhere
    <2>8. guard'[c] # guard[c] => guard[c] # "none" \/ doing = "opening"
      BY <1>4, <2>1
    <2>9. doing \in {"opening", "undoing", "closing"}
      OBVIOUS
    <2>10. Current(t).kind = IF doing = "closing" THEN "close" ELSE "open"
      BY <1>4
    <2>. QED
      BY <1>1, <2>1, <2>4, <2>5, <2>6, <2>7, <2>8, <2>9, <2>10, StayOrder
  <1>5. CASE /\ Current(t).kind = "open"
             /\ threads' = [threads EXCEPT ![t].doing = "opening", ![t].at = 1]
             /\ guard' = [guard EXCEPT ![Current(t).c] = "opened"]
    BY <1>4, <1>5
  <1>6. CASE /\ Current(t).kind = "close" /\ guard[Current(t).c] = "ok"
             /\ threads' = [threads EXCEPT ![t].doing = "closing", ![t].at = NListeners]
             /\ guard' = [guard EXCEPT ![Current(t).c] = "closed"]
    BY <1>4, <1>6
  <1>. QED
    BY <1>3, <1>5, <1>6 DEF ProcessItem, GuardOpens, GuardCloses

\* What is known in the middle of a round of calls.
LEMMA MidRound ==
    ASSUME Inv, Order, NEW t \in Threads, Busy(t)
    PROVE  /\ Types /\ threads[t].batch # <<>> /\ threads[t].at \in 0..NListeners
           /\ threads[t].doing # "undoing" => threads[t].at \in Listeners
           /\ Current(t).kind = IF threads[t].doing = "closing" THEN "close" ELSE "open"
           /\ Current(t).c \in Connections
           /\ phase[Current(t).c] # "new"
           /\ guard[Current(t).c] = IF threads[t].doing = "closing" THEN "closed" ELSE "opened"
           /\ threads[t].doing # "closing" => Alive(Current(t).c)
  <1>1. Types /\ Routed /\ Staged /\ StageOK(t)
    BY DEF Inv, Staged
  <1>2. threads[t].batch # <<>> /\ Current(t).kind # "disconnected"
    BY <1>1 DEF StageOK
  <1>3. threads[t].at \in 0..NListeners
    BY <1>1, ThreadShape
  <1>4. Current(t).c \in Connections
    BY <1>1, <1>2, InHand
  <1>5. Current(t).kind = IF threads[t].doing = "closing" THEN "close" ELSE "open"
    BY DEF Order, Kinds, Busy
  <1>6. At(t, 1, Current(t).kind, Current(t).c)
    BY <1>1, <1>2, FirstInLine
  <1>7. phase[Current(t).c] # "new" /\ OnThread(Current(t).c) = t
    BY <1>1, <1>5, <1>6, AtIsRouted DEF OnThread
  <1>8. /\ threads[t].doing # "undoing" => threads[t].at \in Listeners
        /\ guard[Current(t).c] = IF threads[t].doing = "closing" THEN "closed" ELSE "opened"
    BY <1>1 DEF StageOK, Doing, Busy, Listeners
  <1>9. threads[t].doing # "closing" => Alive(Current(t).c)
    BY <1>5, <1>6, <1>7 DEF Alive, Opens
  <1>. QED
    BY <1>1, <1>2, <1>3, <1>4, <1>5, <1>7, <1>8, <1>9

\* A call of a listener after which the round goes on.
LEMMA CallOrder ==
    ASSUME Inv, Order, NEW t \in Threads, Busy(t),
           NEW l \in Listeners, NEW what \in {"open", "refused", "closed"},
           Tell(l, Current(t).c, what),
           NEW doing \in {"opening", "undoing", "closing"}, NEW at \in 0..NListeners,
           (doing = "closing") <=> (threads[t].doing = "closing"),
           what = "open" => doing = "opening",
           UNCHANGED <<phase, id, name, ended, finished, queues, guard>>,
           threads' = [threads EXCEPT ![t] = Round(t, doing, at)]
    PROVE  Order'
  <1>1. PICK c \in Connections : c = Current(t).c
    BY MidRound
  <1>2. /\ Types /\ threads[t].batch # <<>>
        /\ Current(t).kind = IF doing = "closing" THEN "close" ELSE "open"
    BY MidRound
  <1>3. /\ view'[l][c] = what
        /\ \A k \in Listeners, d \in Connections : k # l \/ d # c => view'[k][d] = view[k][d]
    BY <1>1, <1>2, Told
  <1>4. OpenSomewhere(c)' => OpenSomewhere(c) \/ doing = "opening" \/ doing = "undoing"
    BY <1>3 DEF OpenSomewhere
  <1>5. \A d \in Connections : d # c =>
            guard'[d] = guard[d] /\ \A k \in Listeners : view'[k][d] = view[k][d]
    BY <1>3
  <1>6. guard'[c] = guard[c]
    OBVIOUS
  <1>. QED
    BY <1>1, <1>2, <1>4, <1>5, <1>6, StayOrder

\* The step that ends a round.
LEMMA EndOrder ==
    ASSUME Inv, Order, NEW t \in Threads, Busy(t), NEW c \in Connections, c = Current(t).c,
           UNCHANGED <<phase, id, name, ended, finished, queues>>,
           threads' = [threads EXCEPT ![t] = Done(t)],
           \A d \in Connections : d # c =>
               guard'[d] = guard[d] /\ \A l \in Listeners : view'[l][d] = view[l][d],
           \/ guard'[c] = "ok" /\ threads[t].doing = "opening"
           \/ guard'[c] \in {"canceled", "closed"} /\ ~OpenSomewhere(c)'
    PROVE  Order'
  <1>1. /\ threads[t].batch # <<>> /\ phase[c] # "new" /\ guard[c] # "none"
        /\ Current(t).kind = IF threads[t].doing = "closing" THEN "close" ELSE "open"
        /\ threads[t].doing # "closing" => Alive(c)
    BY MidRound
  <1>2. \A d \in Connections : d # c => (OpenSomewhere(d)' => OpenSomewhere(d))
    BY DEF OpenSomewhere
  <1>3. \A d \in Connections : d # c => Current(t).c # d
    OBVIOUS
  <1>4. ASSUME NEW d \in Connections, Current(t).kind = "close", Current(t).c = d
        PROVE  ~OpenSomewhere(d)'
    BY <1>1, <1>4
  <1>5. OpenSomewhere(c)' => Alive(c)
    BY <1>1
  <1>. QED
    BY <1>1, <1>2, <1>3, <1>4, <1>5, DoneOrder

\* The steps of a round of calls.
LEMMA RoundOrder ==
    ASSUME Inv, Order, NEW t \in Threads,
           \/ ListenerAccepts(t) \/ ListenerRefuses(t) \/ UndoOpened(t)
           \/ CancelOpened(t) \/ ListenerCloses(t)
    PROVE  Order'
  <1>. DEFINE at == threads[t].at
  <1>1. Busy(t)
    BY DEF Busy, Doing, ListenerAccepts, ListenerRefuses, UndoOpened, CancelOpened,
       ListenerCloses
  <1>2. Types /\ threads[t] \in Thread /\ StageOK(t) /\ at \in 0..NListeners
    BY <1>1, MidRound DEF Types, Inv, Staged
  <1>3. PICK c \in Connections : c = Current(t).c
    BY <1>1, MidRound
  <1>4. UNCHANGED <<phase, id, name, ended, finished, queues>>
    BY DEF managerVars, ListenerAccepts, ListenerRefuses, UndoOpened, CancelOpened,
       ListenerCloses
  <1>5. CASE ListenerAccepts(t)
    <2>1. threads[t].doing = "opening" /\ Tell(at, c, "open") /\ at \in Listeners
      BY <1>1, <1>3, <1>5, MidRound DEF ListenerAccepts, Doing
    <2>2. CASE at < NListeners
      <3>1. threads' = [threads EXCEPT ![t] = Round(t, "opening", at + 1)] /\ UNCHANGED guard
        BY <1>2, <1>5, <2>1, <2>2, ZenonT(60) DEF ListenerAccepts, Round, Types, Thread
      <3>2. at + 1 \in 0..NListeners
        BY <1>2, <2>2, SizeAssumption
      <3>. HIDE DEF at
      <3>. QED
        BY <1>1, <1>3, <1>4, <2>1, <3>1, <3>2, CallOrder
    <2>3. CASE ~(at < NListeners)
      <3>1. threads' = [threads EXCEPT ![t] = Done(t)] /\ guard' = [guard EXCEPT ![c] = "ok"]
        BY <1>3, <1>5, <2>3 DEF ListenerAccepts
      <3>2. guard'[c] = "ok" /\ \A d \in Connections : d # c => guard'[d] = guard[d]
        BY <1>2, <3>1 DEF Types
      <3>3. \A k \in Listeners, d \in Connections : d # c => view'[k][d] = view[k][d]
        BY <1>2, <2>1, Told
      <3>. HIDE DEF at
      <3>. QED
        BY <1>1, <1>3, <1>4, <2>1, <3>1, <3>2, <3>3, EndOrder, ZenonT(60)
    <2>. QED
      BY <2>2, <2>3
  <1>6. CASE ListenerRefuses(t)
    <2>1. /\ threads[t].doing = "opening" /\ Tell(at, c, "refused") /\ at \in Listeners
          /\ UNCHANGED guard
      BY <1>1, <1>3, <1>6, MidRound DEF ListenerRefuses, Doing
    <2>2. threads' = [threads EXCEPT ![t] = Round(t, "undoing", at - 1)]
      BY <1>2, <1>6 DEF ListenerRefuses, Round, Types, Thread
    <2>3. at - 1 \in 0..NListeners
      BY <2>1, SizeAssumption DEF Listeners
    <2>. HIDE DEF at
    <2>. QED
      BY <1>1, <1>3, <1>4, <2>1, <2>2, <2>3, CallOrder
  <1>7. CASE UndoOpened(t)
    <2>1. /\ threads[t].doing = "undoing" /\ Tell(at, c, "closed") /\ at \in Listeners
          /\ UNCHANGED guard
      BY <1>2, <1>3, <1>7, SizeAssumption DEF UndoOpened, Doing, Listeners
    <2>2. threads' = [threads EXCEPT ![t] = Round(t, "undoing", at - 1)]
      BY <1>2, <1>7, <2>1 DEF UndoOpened, Round, Types, Thread
    <2>3. at - 1 \in 0..NListeners
      BY <2>1, SizeAssumption DEF Listeners
    <2>. HIDE DEF at
    <2>. QED
      BY <1>1, <1>3, <1>4, <2>1, <2>2, <2>3, CallOrder
  <1>8. CASE CancelOpened(t)
    <2>1. /\ threads[t].doing = "undoing" /\ at = 0 /\ UNCHANGED view
          /\ threads' = [threads EXCEPT ![t] = Done(t)]
          /\ guard' = [guard EXCEPT ![c] = "canceled"]
      BY <1>3, <1>8 DEF CancelOpened, Doing
    <2>2. guard'[c] = "canceled" /\ \A d \in Connections : d # c => guard'[d] = guard[d]
      BY <1>2, <2>1 DEF Types
    <2>3. ~OpenSomewhere(c)'
      BY <1>2, <1>3, <2>1, SizeAssumption DEF StageOK, Doing, OpenSomewhere, Listeners
    <2>. QED
      BY <1>1, <1>3, <1>4, <2>1, <2>2, <2>3, EndOrder
  <1>9. CASE ListenerCloses(t)
    <2>1. /\ threads[t].doing = "closing" /\ Tell(at, c, "closed") /\ at \in Listeners
          /\ UNCHANGED guard
      BY <1>1, <1>3, <1>9, MidRound DEF ListenerCloses, Doing
    <2>2. CASE at > 1
      <3>1. threads' = [threads EXCEPT ![t] = Round(t, "closing", at - 1)]
        BY <1>2, <1>9, <2>1, <2>2 DEF ListenerCloses, Round, Types, Thread
      <3>2. at - 1 \in 0..NListeners
        BY <2>1, SizeAssumption DEF Listeners
      <3>. HIDE DEF at
      <3>. QED
        BY <1>1, <1>3, <1>4, <2>1, <3>1, <3>2, CallOrder
    <2>3. CASE ~(at > 1)
      <3>1. threads' = [threads EXCEPT ![t] = Done(t)]
        BY <1>9, <2>3 DEF ListenerCloses
      <3>2. guard'[c] = "closed"
        BY <1>1, <1>3, <2>1, MidRound
      <3>3. /\ view'[at][c] = "closed"
            /\ \A k \in Listeners, d \in Connections : k # at \/ d # c => view'[k][d] = view[k][d]
        BY <1>2, <2>1, Told
      <3>4. \A k \in Listeners : view[k][c] = "open" => k <= at
        BY <1>2, <1>3, <2>1 DEF StageOK, Doing
      <3>5. ~OpenSomewhere(c)'
        BY <2>1, <2>3, <3>3, <3>4, SizeAssumption DEF OpenSomewhere, Listeners
      <3>. QED
        BY <1>1, <1>3, <1>4, <2>1, <3>1, <3>2, <3>3, <3>5, EndOrder
    <2>. QED
      BY <2>2, <2>3
  <1>. QED
    BY <1>5, <1>6, <1>7, <1>8, <1>9

-----------------------------------------------------------------------------
(* The steps of the io thread and of stop().                               *)

\* A thread that is not stepping keeps its kind of round.
LEMMA KindsKept == Kinds /\ UNCHANGED threads => Kinds'
  BY DEF Kinds, Current

\* No item is about a connection that is not registered yet.
LEMMA NoItemYet ==
    ASSUME Inv, Order, NEW c \in Connections, phase[c] = "new"
    PROVE  /\ ~Alive(c)
           /\ \A t \in Threads, i \in Nat, kind \in {"open", "close"} : ~At(t, i, kind, c)
  <1>1. Types /\ Routed /\ ViewOK(c) /\ guard[c] = "none"
    BY DEF Inv, Viewed, Order, Unborn
  <1>2. ~OpenSomewhere(c)
    BY <1>1 DEF ViewOK, OpenSomewhere
  <1>3. \A t \in Threads, i \in Nat, kind \in {"open", "close"} : ~At(t, i, kind, c)
    BY <1>1, AtIsRouted
  <1>4. OnThread(c) \in Threads
    BY <1>1, ThreadAssumption DEF OnThread, Types
  <1>. QED
    BY <1>2, <1>3, <1>4 DEF Alive, Opens

\* The steps that push nothing about a connection.
LEMMA QuietOrder ==
    ASSUME Types, Order, UNCHANGED <<id, name, listenerVars>>,
           \A c \in Connections, i \in Nat :
               (Opens(c, i)' <=> Opens(c, i)) /\ (Closes(c, i)' <=> Closes(c, i)),
           \A c \in Connections :
               /\ phase'[c] = "new" <=> phase[c] = "new"
               /\ phase[c] = "freed" => phase'[c] = "freed"
               /\ phase'[c] \in {"closed", "freed"} => phase[c] \in {"closed", "freed"} \/ finished',
           \A t \in Threads : ended[t] => ended'[t],
           finished => finished'
    PROVE  Order'
  <1>. USE DEF Order
  <1>1. UNCHANGED <<threads, guard, view>>
    BY DEF listenerVars
  <1>2. \A c \in Connections : OnThread(c) \in Threads /\ OnThread(c)' = OnThread(c)
    BY ThreadAssumption DEF OnThread, Types
  <1>3. \A c \in Connections : OpenSomewhere(c)' <=> OpenSomewhere(c)
    BY <1>1 DEF OpenSomewhere
  <1>4. \A c \in Connections : Alive(c)' <=> Alive(c)
    BY <1>3 DEF Alive
  <1>5. Numbered' /\ Unborn' /\ Kinds' /\ OpensFirst'
    BY <1>1, KindsKept DEF Numbered, Unborn, OpensFirst
  <1>6. InHands'
    BY <1>1, <1>2, <1>3 DEF InHands, Busy, Current
  <1>7. WillClose'
    BY <1>2, <1>4 DEF WillClose
  <1>8. ByTurns'
    BY <1>1, <1>4 DEF ByTurns
  <1>. QED
    BY <1>5, <1>6, <1>7, <1>8

\* The same for a step that leaves the lines alone.
LEMMA LinesKeptAt ==
    ASSUME Types, UNCHANGED name, LinesKept
    PROVE  \A c \in Connections, i \in Nat :
               (Opens(c, i)' <=> Opens(c, i)) /\ (Closes(c, i)' <=> Closes(c, i))
  <1>1. \A c \in Connections : OnThread(c) \in Threads /\ OnThread(c)' = OnThread(c)
    BY ThreadAssumption DEF OnThread, Types
  <1>. QED
    BY <1>1, Zenon DEF Opens, Closes, At, LinesKept

\* And for the items that a push adds to those of a connection.
LEMMA PushedItems ==
    ASSUME Types, UNCHANGED name, NEW item, Pushed(item), NEW c \in Connections, NEW i \in Nat
    PROVE  /\ Opens(c, i)' <=>
                  \/ Opens(c, i)
                  \/ /\ OnThread(c) = ThreadOf[item.to] /\ i = Len(Line(OnThread(c))) + 1
                     /\ item.kind = "open" /\ item.c = c
           /\ Closes(c, i)' <=>
                  \/ Closes(c, i)
                  \/ /\ OnThread(c) = ThreadOf[item.to] /\ i = Len(Line(OnThread(c))) + 1
                     /\ item.kind = "close" /\ item.c = c
  <1>1. PICK u \in Threads : u = OnThread(c) /\ u = OnThread(c)'
    BY ThreadAssumption DEF OnThread, Types
  <1>2. /\ Opens(c, i)' <=> At(u, i, "open", c)'
        /\ Closes(c, i)' <=> At(u, i, "close", c)'
    BY <1>1, OnThreadAt
  <1>3. /\ Opens(c, i) <=> At(u, i, "open", c)
        /\ Closes(c, i) <=> At(u, i, "close", c)
    BY <1>1 DEF Opens, Closes
  <1>4. /\ At(u, i, "open", c)' <=>
               \/ At(u, i, "open", c)
               \/ /\ u = ThreadOf[item.to] /\ i = Len(Line(u)) + 1
                  /\ "open" = item.kind /\ c = item.c
        /\ At(u, i, "close", c)' <=>
               \/ At(u, i, "close", c)
               \/ /\ u = ThreadOf[item.to] /\ i = Len(Line(u)) + 1
                  /\ "close" = item.kind /\ c = item.c
    BY PushedAt
  <1>. QED
    BY <1>1, <1>2, <1>3, <1>4

\* send() to a name without connection.
LEMMA SendOrder ==
    ASSUME Inv, Order, NEW n \in Names, Send(n)
    PROVE  Order'
  <1>1. Types /\ UNCHANGED <<phase, id, name, ended, finished, listenerVars, threads>>
    BY DEF Inv, Send, listenerVars
  <1>. DEFINE item == [kind |-> "disconnected", to |-> n, c |-> 0]
  <1>2. item \in Item /\ item.kind = "disconnected"
    BY DEF Item
  <1>3. Fire(item)
    BY DEF Send, DisconnectedItem
  <1>. HIDE DEF item
  <1>4. LinesKept \/ Pushed(item)
    BY <1>1, <1>2, <1>3, FireLines
  <1>5. \A c \in Connections, i \in Nat :
            (Opens(c, i)' <=> Opens(c, i)) /\ (Closes(c, i)' <=> Closes(c, i))
    <2>1. CASE LinesKept
      BY <1>1, <2>1, LinesKeptAt
    <2>2. CASE Pushed(item)
      BY <1>1, <1>2, <2>2, PushedItems
    <2>. QED
      BY <1>4, <2>1, <2>2
  <1>. QED
    BY <1>1, <1>5, QuietOrder

\* remove_connection pushes the closing after the opening.
LEMMA RemoveOrder ==
    ASSUME Inv, Order, NEW c \in Connections, RemoveConnection(c),
           UNCHANGED <<id, name, ended, finished, listenerVars>>
    PROVE  Order'
  <1>. USE DEF Order
  <1>1. Types /\ Routed /\ UNCHANGED <<threads, guard, view>>
    BY DEF Inv, listenerVars
  <1>2. PICK n \in Names : n = name[c]
    BY <1>1 DEF Types
  <1>3. /\ phase[c] = "registered" /\ phase'[c] = "closed" /\ ~finished
        /\ \A d \in Connections : d # c => phase'[d] = phase[d]
    BY <1>1 DEF RemoveConnection, Types
  <1>4. PICK u \in Threads : u = OnThread(c) /\ u = ThreadOf[n]
    BY <1>2, ThreadAssumption DEF OnThread
  <1>. DEFINE item == [kind |-> "close", to |-> n, c |-> c]
  <1>5. Fire(item) /\ item \in Item
    BY <1>2, ItemsMade DEF RemoveConnection, CloseItem
  <1>6. item.c = c /\ item.to = n /\ item.kind = "close"
    OBVIOUS
  <1>. HIDE DEF item
  <1>7. IF NListeners = 0 \/ ended[u] THEN LinesKept ELSE Pushed(item)
    BY <1>1, <1>4, <1>5, <1>6, FireLines
  <1>8. ASSUME NEW d \in Connections, NEW i \in Nat
        PROVE  /\ Opens(d, i)' <=> Opens(d, i)
               /\ Closes(d, i)' <=> \/ Closes(d, i)
                                    \/ /\ d = c /\ ~(NListeners = 0 \/ ended[u])
                                       /\ i = Len(Line(u)) + 1
    <2>1. CASE NListeners = 0 \/ ended[u]
      BY <1>1, <1>7, <2>1, LinesKeptAt
    <2>2. CASE ~(NListeners = 0 \/ ended[u])
      <3>1. Pushed(item)
        BY <1>7, <2>2
      <3>. QED
        BY <1>1, <1>4, <1>6, <2>2, <3>1, PushedItems
    <2>. QED
      BY <2>1, <2>2
  <1>9. \A d \in Connections : OnThread(d) \in Threads /\ OnThread(d)' = OnThread(d)
    BY <1>1, ThreadAssumption DEF OnThread, Types
  <1>10. \A d \in Connections : /\ OpenSomewhere(d)' <=> OpenSomewhere(d)
                                /\ Alive(d)' <=> Alive(d)
    BY <1>1, <1>8 DEF OpenSomewhere, Alive
  <1>11. Numbered' /\ Unborn' /\ Kinds'
    BY <1>1, <1>3, KindsKept DEF Numbered, Unborn
  <1>12. InHands'
    BY <1>1, <1>9, <1>10 DEF InHands, Busy, Current
  <1>13. OpensFirst'
    <2>. SUFFICES ASSUME NEW d \in Connections, NEW i \in Nat, NEW j \in Nat,
                         Opens(d, i), Closes(d, j)'
                  PROVE  i < j
      BY <1>8 DEF OpensFirst
    <2>1. CASE Closes(d, j)
      BY <2>1 DEF OpensFirst
    <2>2. CASE d = c /\ j = Len(Line(u)) + 1
      <3>1. At(u, i, "open", c)
        BY <1>4, <2>2 DEF Opens
      <3>2. i \in 1..Len(Line(u)) /\ Line(u) \in Seq(Item)
        BY <1>1, <3>1, AtIsInLine, LineShape
      <3>3. Len(Line(u)) \in Nat
        BY <3>2
      <3>. QED
        BY <2>2, <3>2, <3>3
    <2>. QED
      BY <1>8, <2>1, <2>2
  <1>14. WillClose'
    <2>. SUFFICES ASSUME NEW d \in Connections, Alive(d)', phase'[d] \in {"closed", "freed"},
                         ~ended[OnThread(d)]
                  PROVE  \E i \in Nat : Closes(d, i)'
      BY <1>9 DEF WillClose
    <2>1. CASE d # c
      BY <1>3, <1>8, <1>10, <2>1 DEF WillClose
    <2>2. CASE d = c
      <3>1. NListeners # 0
        <4>1. CASE OpenSomewhere(c)
          BY <4>1, SizeAssumption DEF OpenSomewhere, Listeners
        <4>2. CASE \E i \in Nat : Opens(c, i)
          BY <1>1, <1>9, <4>2, AtIsRouted, SizeAssumption DEF Opens
        <4>. QED
          BY <1>10, <2>2, <4>1, <4>2 DEF Alive
      <3>2. Len(Line(u)) + 1 \in Nat
        <4>1. Line(u) \in Seq(Item)
          BY <1>1, LineShape
        <4>. QED
          BY <4>1
      <3>. QED
        BY <1>4, <1>8, <2>2, <3>1, <3>2
    <2>. QED
      BY <2>1, <2>2
  <1>15. ByTurns'
    <2>. SUFFICES ASSUME NEW x \in Connections, NEW d \in Connections, x < d,
                         phase'[d] # "new", name[x] = name[d], id[x] = id[d], Alive(x)'
                  PROVE  /\ guard[d] = "none"
                         /\ \A j \in Nat : Opens(d, j)' => \E i \in Nat : i < j /\ Closes(x, i)'
      BY <1>1 DEF ByTurns
    <2>1. phase[d] # "new"
      BY <1>3
    <2>2. /\ guard[d] = "none"
          /\ \A j \in Nat : Opens(d, j) => \E i \in Nat : i < j /\ Closes(x, i)
      BY <1>10, <2>1 DEF ByTurns
    <2>. QED
      BY <1>8, <2>2
  <1>. QED
    BY <1>11, <1>12, <1>13, <1>14, <1>15

\* insert_connection: a connection with the address of an earlier one comes
\* when that one is freed, and its closing, if it is still on its way, is in
\* the line already.
LEMMA InsertOrder ==
    ASSUME Inv, Order, id \in [Connections -> Addresses], NEW c \in Connections, InsertConnection(c)
    PROVE  Order'
  <1>. USE DEF Order
  <1>1. /\ Types /\ Routed
        /\ UNCHANGED <<ended, finished, listenerVars, threads, guard, view>>
    BY DEF Inv, InsertConnection, listenerVars
  <1>2. PICK a \in Addresses, n \in Names :
            /\ \A d \in Live : id[d] # a
            /\ id' = [id EXCEPT ![c] = a]
            /\ name' = [name EXCEPT ![c] = n]
    BY DEF InsertConnection
  <1>3. name'[c] = n /\ \A d \in Connections : d # c => name'[d] = name[d]
    BY <1>1, <1>2 DEF Types
  <1>4. /\ phase[c] = "new" /\ phase'[c] = IF finished THEN "closed" ELSE "registered"
        /\ \A d \in Connections : d # c => phase'[d] = phase[d]
        /\ \A d \in Connections : d < c => phase[d] # "new"
    BY <1>1 DEF InsertConnection, Types
  <1>5. PICK u \in Threads : u = ThreadOf[n]
    BY ThreadAssumption
  <1>6. /\ OnThread(c)' = u
        /\ \A d \in Connections : d # c => OnThread(d) \in Threads /\ OnThread(d)' = OnThread(d)
    BY <1>1, <1>3, <1>5, ThreadAssumption DEF OnThread, Types
  <1>7. /\ ~Alive(c) /\ guard[c] = "none"
        /\ \A t \in Threads, i \in Nat, kind \in {"open", "close"} : ~At(t, i, kind, c)
    BY <1>4, NoItemYet DEF Unborn
  <1>. DEFINE item == [kind |-> "open", to |-> n, c |-> c]
              pushes == ~finished /\ NListeners # 0 /\ ~ended[u]
  <1>8. item \in Item /\ item.c = c /\ item.to = n /\ item.kind = "open"
    BY ItemsMade
  <1>9. IF pushes THEN Pushed(item) ELSE LinesKept
    <2>1. CASE finished
      BY <1>1, <2>1 DEF InsertConnection, LinesKept, Line
    <2>2. CASE ~finished
      <3>1. Fire(item)
        BY <1>3, <2>2 DEF InsertConnection, OpenItem
      <3>. HIDE DEF item
      <3>. QED
        BY <1>1, <1>5, <1>8, <2>2, <3>1, FireLines
    <2>. QED
      BY <2>1, <2>2
  <1>. HIDE DEF item, pushes
  <1>10. ASSUME NEW t \in Threads, NEW i \in Nat, NEW kind \in {"open", "close"}, NEW d \in Connections
         PROVE  At(t, i, kind, d)' <=>
                    \/ At(t, i, kind, d)
                    \/ pushes /\ t = u /\ i = Len(Line(u)) + 1 /\ kind = "open" /\ d = c
    <2>1. CASE pushes
      <3>1. Pushed(item)
        BY <1>9, <2>1
      <3>2. At(t, i, kind, d)' <=>
               \/ At(t, i, kind, d)
               \/ /\ t = ThreadOf[item.to] /\ i = Len(Line(t)) + 1
                  /\ kind = item.kind /\ d = item.c
        BY <1>1, <3>1, PushedAt
      <3>. QED
        BY <1>5, <1>8, <2>1, <3>2
    <2>2. CASE ~pushes
      BY <1>9, <2>2, Zenon DEF LinesKept, At
    <2>. QED
      BY <2>1, <2>2
  <1>11. ASSUME NEW d \in Connections, d # c, NEW i \in Nat
         PROVE  (Opens(d, i)' <=> Opens(d, i)) /\ (Closes(d, i)' <=> Closes(d, i))
    <2>1. PICK t \in Threads : t = OnThread(d) /\ t = OnThread(d)'
      BY <1>6, <1>11
    <2>2. (Opens(d, i)' <=> At(t, i, "open", d)') /\ (Closes(d, i)' <=> At(t, i, "close", d)')
      BY <2>1, OnThreadAt
    <2>3. (Opens(d, i) <=> At(t, i, "open", d)) /\ (Closes(d, i) <=> At(t, i, "close", d))
      BY <2>1 DEF Opens, Closes
    <2>. QED
      BY <1>10, <1>11, <2>2, <2>3
  <1>12. ASSUME NEW i \in Nat
         PROVE  /\ Opens(c, i)' => pushes /\ i = Len(Line(u)) + 1
                /\ ~Closes(c, i)'
    <2>1. (Opens(c, i)' <=> At(u, i, "open", c)') /\ (Closes(c, i)' <=> At(u, i, "close", c)')
      BY <1>6, OnThreadAt
    <2>. QED
      BY <1>7, <1>10, <2>1
  <1>13. \A d \in Connections : OpenSomewhere(d)' <=> OpenSomewhere(d)
    BY <1>1 DEF OpenSomewhere
  <1>14. \A d \in Connections : d # c => (Alive(d)' <=> Alive(d))
    BY <1>11, <1>13 DEF Alive
  <1>15. \A d \in Connections : c < d => phase[d] = "new" /\ phase'[d] = "new"
    <2>1. \A d \in Connections : c < d => c # d
      BY SizeAssumption DEF Connections
    <2>. QED
      BY <1>4, <2>1 DEF Numbered
  <1>16. Numbered'
    <2>. SUFFICES ASSUME NEW x \in Connections, NEW d \in Connections, x < d, phase'[d] # "new"
                  PROVE  phase'[x] # "new" /\ (id'[x] = id'[d] => phase'[x] = "freed")
      BY DEF Numbered
    <2>1. x # d /\ x # c
      BY <1>15, SizeAssumption DEF Connections
    <2>2. CASE d = c
      <3>1. phase[x] # "new" /\ phase'[x] = phase[x]
        BY <1>4, <2>1, <2>2
      <3>2. id'[c] = a /\ id'[x] = id[x]
        BY <1>2, <2>1
      <3>3. id[x] = a => phase[x] = "freed"
        BY <1>1, <1>2, <3>1 DEF Live, Types
      <3>. QED
        BY <2>2, <3>1, <3>2, <3>3
    <2>3. CASE d # c
      <3>1. id'[x] = id[x] /\ id'[d] = id[d]
        BY <1>2, <2>1, <2>3
      <3>. QED
        BY <1>4, <2>1, <2>3, <3>1 DEF Numbered
    <2>. QED
      BY <2>2, <2>3
  <1>17. Unborn' /\ Kinds'
    BY <1>1, <1>4, KindsKept DEF Unborn
  <1>18. InHands'
    <2>. SUFFICES ASSUME NEW d \in Connections, guard[d] \notin {"none", "ok"},
                         guard[d] = "opened" \/ OpenSomewhere(d)
                  PROVE  Busy(OnThread(d))' /\ Current(OnThread(d))'.c = d
      BY <1>1, <1>13 DEF InHands
    <2>1. d # c
      BY <1>7
    <2>. QED
      BY <1>1, <1>6, <2>1 DEF InHands, Busy, Current
  <1>19. OpensFirst'
    BY <1>11, <1>12 DEF OpensFirst
  <1>20. WillClose'
    <2>. SUFFICES ASSUME NEW d \in Connections, Alive(d)', phase'[d] \in {"closed", "freed"},
                         ~ended'[OnThread(d)'], ~finished
                  PROVE  \E i \in Nat : Closes(d, i)'
      BY <1>1 DEF WillClose
    <2>1. d # c
      BY <1>4
    <2>2. ~ended[OnThread(d)] /\ Alive(d) /\ phase[d] \in {"closed", "freed"}
      BY <1>1, <1>4, <1>6, <1>14, <2>1
    <2>. QED
      BY <1>11, <2>1, <2>2 DEF WillClose
  <1>21. ByTurns'
    <2>. SUFFICES ASSUME NEW x \in Connections, NEW d \in Connections, x < d,
                         phase'[d] # "new", name'[x] = name'[d], id'[x] = id'[d], Alive(x)'
                  PROVE  /\ guard[d] = "none"
                         /\ \A j \in Nat : Opens(d, j)' => \E i \in Nat : i < j /\ Closes(x, i)'
      BY <1>1 DEF ByTurns
    <2>1. x # d /\ x # c
      BY <1>15, SizeAssumption DEF Connections
    <2>2. Alive(x)
      BY <1>14, <2>1
    <2>3. CASE d # c
      <3>1. id'[x] = id[x] /\ id'[d] = id[d] /\ name'[x] = name[x] /\ name'[d] = name[d]
        BY <1>2, <1>3, <2>1, <2>3
      <3>2. /\ guard[d] = "none"
            /\ \A j \in Nat : Opens(d, j) => \E i \in Nat : i < j /\ Closes(x, i)
        BY <1>4, <2>2, <2>3, <3>1 DEF ByTurns
      <3>. QED
        BY <1>11, <2>1, <2>3, <3>2
    <2>4. CASE d = c
      <3>1. phase'[x] = "freed" /\ phase[x] = "freed"
        BY <1>4, <1>16, <2>1 DEF Numbered
      <3>2. OnThread(x) = u
        BY <1>3, <1>5, <2>1, <2>4 DEF OnThread
      <3>3. ASSUME NEW j \in Nat, Opens(c, j)' PROVE \E i \in Nat : i < j /\ Closes(x, i)'
        <4>1. pushes /\ j = Len(Line(u)) + 1
          BY <1>12, <3>3
        <4>2. PICK i \in Nat : Closes(x, i)
          BY <2>2, <3>1, <3>2, <4>1 DEF WillClose, pushes
        <4>3. i \in 1..Len(Line(u)) /\ Line(u) \in Seq(Item)
          BY <1>1, <3>2, <4>2, AtIsInLine, LineShape DEF Closes
        <4>4. Len(Line(u)) \in Nat
          BY <4>3
        <4>5. i < j
          BY <4>1, <4>3, <4>4
        <4>. QED
          BY <1>11, <2>1, <4>2, <4>5
      <3>. QED
        BY <1>7, <2>4, <3>3
    <2>. QED
      BY <2>3, <2>4
  <1>. QED
    BY <1>16, <1>17, <1>18, <1>19, <1>20, <1>21

-----------------------------------------------------------------------------
(* The other fields, and that nothing is finished before stop().           *)

Rest ==
    /\ id \in [Connections -> Addresses]
    /\ finished \in BOOLEAN
    /\ jobs \in Seq(Job)
    /\ stop \in {"no", "stopping", "posted"}
    /\ ended \in [Threads -> BOOLEAN]
    /\ sends \in 0..MaxSends

Running ==
    stop = "no" =>
        /\ ~finished /\ \A t \in Threads : ~ended[t]
        /\ \A i \in DOMAIN jobs : jobs[i].job # "finish"

\* What the strand holds after a job is run and after one is posted.
LEMMA JobsKept ==
    ASSUME jobs \in Seq(Job), jobs # <<>>, jobs' = Tail(jobs)
    PROVE  /\ Head(jobs) \in Job /\ jobs' \in Seq(Job)
           /\ (\A i \in DOMAIN jobs : jobs[i].job # "finish") =>
                  /\ \A i \in DOMAIN jobs' : jobs'[i].job # "finish"
                  /\ Head(jobs).job # "finish"
  <1>1. Head(jobs) \in Job /\ jobs' \in Seq(Job)
    OBVIOUS
  <1>2. 1 \in DOMAIN jobs /\ Head(jobs) = jobs[1]
    OBVIOUS
  <1>3. \A i \in DOMAIN jobs' : i + 1 \in DOMAIN jobs /\ jobs'[i] = jobs[i + 1]
    OBVIOUS
  <1>. QED
    BY <1>1, <1>2, <1>3

LEMMA JobsAdded ==
    ASSUME jobs \in Seq(Job), NEW j \in Job, jobs' = Append(jobs, j)
    PROVE  /\ jobs' \in Seq(Job)
           /\ (\A i \in DOMAIN jobs : jobs[i].job # "finish") /\ j.job # "finish" =>
                  \A i \in DOMAIN jobs' : jobs'[i].job # "finish"
  <1>1. jobs' \in Seq(Job)
    OBVIOUS
  <1>2. \A i \in DOMAIN jobs' : (i \in DOMAIN jobs /\ jobs'[i] = jobs[i]) \/ jobs'[i] = j
    OBVIOUS
  <1>. QED
    BY <1>1, <1>2

\* Every step keeps the types, and only stop() begins the end.
LEMMA StepRest == Inv /\ Rest /\ Running /\ [Next]_vars => Rest' /\ Running'
  <1>. SUFFICES ASSUME Inv, Rest, Running, [Next]_vars PROVE Rest' /\ Running'
    OBVIOUS
  <1>. USE DEF Rest, Running
  <1>1. ASSUME NEW c \in Connections, InsertConnection(c) PROVE Rest' /\ Running'
    <2>1. PICK a \in Addresses : id' = [id EXCEPT ![c] = a]
      BY <1>1 DEF InsertConnection
    <2>. QED
      BY <1>1, <2>1 DEF InsertConnection
  <1>2. ASSUME NEW n \in Names, Send(n) PROVE Rest' /\ Running'
    BY <1>2, SizeAssumption DEF Send
  <1>3. ASSUME NEW c \in Connections, Close(c) \/ Free(c) PROVE Rest' /\ Running'
    BY <1>3 DEF Close, Free
  <1>4. CASE NotifyConnectionOpenedFailed
    BY <1>4, JobsKept DEF NotifyConnectionOpenedFailed
  <1>5. CASE Finish
    BY <1>5, JobsKept DEF Finish
  <1>6. CASE Stop
    BY <1>6 DEF Stop, managerVars
  <1>7. CASE PostFinish
    <2>. DEFINE j == [job |-> "finish"]
    <2>1. j \in Job
      BY DEF Job
    <2>2. jobs' = Append(jobs, j) /\ stop' = "posted" /\ UNCHANGED <<managerVars, ended>>
      BY <1>7 DEF PostFinish
    <2>. HIDE DEF j
    <2>3. jobs' \in Seq(Job)
      BY <2>1, <2>2
    <2>. QED
      BY <2>2, <2>3 DEF managerVars
  <1>8. ASSUME NEW t \in Threads, FinishQueue(t) PROVE Rest' /\ Running'
    BY <1>8 DEF FinishQueue, managerVars
  <1>9. ASSUME NEW t \in Threads, CancelOpened(t) PROVE Rest' /\ Running'
    <2>. DEFINE item == Current(t)
                j == [job |-> "opened_failed", to |-> item.to, id |-> id[item.c], c |-> item.c]
    <2>1. UNCHANGED <<id, finished, stop, ended, sends>>
      BY <1>9 DEF CancelOpened, managerVars
    <2>2. item \in Item /\ item.kind # "disconnected"
      <3>1. Types /\ StageOK(t) /\ Busy(t)
        BY <1>9 DEF Inv, Staged, CancelOpened, Doing, Busy
      <3>2. threads[t].batch # <<>> /\ item.kind # "disconnected"
        BY <3>1 DEF StageOK
      <3>. QED
        BY <3>1, <3>2, ThreadShape
    <2>3. item.to \in Names /\ item.c \in Connections
      BY <2>2, ItemShape
    <2>4. j \in Job /\ j.job # "finish"
      BY <2>3 DEF Job
    <2>5. jobs' = jobs \/ jobs' = Append(jobs, j)
      BY <1>9 DEF CancelOpened
    <2>. HIDE DEF j
    <2>. QED
      BY <2>1, <2>4, <2>5, JobsAdded
  <1>10. CASE UNCHANGED <<id, finished, stop, ended, sends, jobs>>
    BY <1>10
  <1>11. ASSUME NEW t \in Threads,
                \/ PopAll(t) \/ ThreadEnds(t) \/ ProcessItem(t) \/ ListenerAccepts(t)
                \/ ListenerRefuses(t) \/ UndoOpened(t) \/ ListenerCloses(t)
         PROVE  Rest' /\ Running'
    BY <1>10, <1>11 DEF PopAll, ThreadEnds, ProcessItem, ListenerAccepts, ListenerRefuses,
       UndoOpened, ListenerCloses, managerVars
  <1>12. CASE UNCHANGED vars
    BY <1>10, <1>12 DEF vars, managerVars
  <1>. QED
    BY <1>1, <1>2, <1>3, <1>4, <1>5, <1>6, <1>7, <1>8, <1>9, <1>11, <1>12
       DEF Next, RunJob, ThreadStep

\* Every step keeps the order.
LEMMA StepOrder == Inv /\ Rest /\ Order /\ [Next]_vars => Order'
  <1>. SUFFICES ASSUME Inv, Rest, Order, [Next]_vars PROVE Order'
    OBVIOUS
  <1>. USE DEF Rest
  <1>1. Types
    BY DEF Inv
  <1>2. ASSUME NEW c \in Connections, InsertConnection(c) PROVE Order'
    BY <1>2, InsertOrder
  <1>3. ASSUME NEW c \in Connections, Close(c) PROVE Order'
    BY <1>3, RemoveOrder DEF Close
  <1>4. ASSUME NEW n \in Names, Send(n) PROVE Order'
    BY <1>4, SendOrder
  <1>5. ASSUME NEW t \in Threads, ThreadStep(t) PROVE Order'
    BY <1>5, PopOrder, ProcessOrder, RoundOrder DEF ThreadStep
  <1>6. ASSUME UNCHANGED <<id, name, queues, listenerVars>>,
               \A c \in Connections :
                   /\ phase'[c] = "new" <=> phase[c] = "new"
                   /\ phase[c] = "freed" => phase'[c] = "freed"
                   /\ phase'[c] \in {"closed", "freed"} =>
                          phase[c] \in {"closed", "freed"} \/ finished',
               \A t \in Threads : ended[t] => ended'[t],
               finished => finished'
        PROVE  Order'
    <2>1. LinesKept
      BY <1>6 DEF LinesKept, Line, listenerVars
    <2>2. \A c \in Connections, i \in Nat :
              (Opens(c, i)' <=> Opens(c, i)) /\ (Closes(c, i)' <=> Closes(c, i))
      BY <1>1, <1>6, <2>1, LinesKeptAt
    <2>. QED
      BY <1>1, <1>6, <2>2, QuietOrder
  <1>7. CASE NotifyConnectionOpenedFailed
    <2>1. CASE finished \/ Named(Head(jobs)) = {}
      BY <1>6, <1>7, <2>1 DEF NotifyConnectionOpenedFailed
    <2>2. CASE ~(finished \/ Named(Head(jobs)) = {})
      <3>1. PICK c \in Named(Head(jobs)) : RemoveConnection(c)
        BY <1>7, <2>2 DEF NotifyConnectionOpenedFailed
      <3>2. c \in Connections
        BY <3>1 DEF Named, Registered
      <3>. QED
        BY <1>7, <3>1, <3>2, RemoveOrder DEF NotifyConnectionOpenedFailed
    <2>. QED
      BY <2>1, <2>2
  <1>8. CASE Finish
    <2>1. \A c \in Connections :
              phase'[c] = IF phase[c] = "registered" THEN "closed" ELSE phase[c]
      BY <1>8 DEF Finish, Registered
    <2>2. UNCHANGED <<id, name, queues, ended, listenerVars>> /\ finished'
      BY <1>8 DEF Finish
    <2>. QED
      BY <1>6, <2>1, <2>2
  <1>9. ASSUME NEW c \in Connections, Free(c) PROVE Order'
    <2>1. /\ phase[c] = "closed" /\ phase'[c] = "freed"
          /\ \A d \in Connections : d # c => phase'[d] = phase[d]
      BY <1>1, <1>9 DEF Free, Types
    <2>2. UNCHANGED <<id, name, queues, ended, finished, listenerVars>>
      BY <1>9 DEF Free
    <2>. QED
      BY <1>6, <2>1, <2>2
  <1>10. ASSUME NEW t \in Threads, FinishQueue(t) PROVE Order'
    <2>1. \A u \in Threads : ended[u] => ended'[u]
      BY <1>10 DEF FinishQueue
    <2>2. UNCHANGED <<phase, id, name, queues, finished, listenerVars>>
      BY <1>10 DEF FinishQueue, managerVars
    <2>. QED
      BY <1>6, <2>1, <2>2
  <1>11. CASE Stop \/ PostFinish \/ UNCHANGED vars
    <2>1. UNCHANGED <<phase, id, name, queues, ended, finished, listenerVars>>
      BY <1>11 DEF Stop, PostFinish, managerVars, vars
    <2>. QED
      BY <1>6, <2>1
  <1>. QED
    BY <1>2, <1>3, <1>4, <1>5, <1>7, <1>8, <1>9, <1>10, <1>11 DEF Next, RunJob

\* Nothing has happened yet.
LEMMA InitOrder == Init => Rest /\ Running /\ Order
  <1>. SUFFICES ASSUME Init PROVE Rest /\ Running /\ Order
    OBVIOUS
  <1>1. (CHOOSE a \in Addresses : TRUE) \in Addresses
    BY AddressAssumption
  <1>2. id \in [Connections -> Addresses]
    BY <1>1, Zenon DEF Init
  <1>3. jobs \in Seq(Job) /\ jobs = <<>>
    BY DEF Init
  <1>4. Rest /\ Running
    <2>1. 0 \in 0..MaxSends
      BY SizeAssumption
    <2>2. ended \in [Threads -> BOOLEAN] /\ \A t \in Threads : ~ended[t]
      BY DEF Init
    <2>3. finished \in BOOLEAN /\ ~finished /\ stop = "no" /\ sends = 0
      BY DEF Init
    <2>4. \A i \in DOMAIN jobs : jobs[i].job # "finish"
      BY <1>3
    <2>. QED
      BY <1>2, <1>3, <2>1, <2>2, <2>3, <2>4 DEF Rest, Running
  <1>5. Types
    BY InitInv DEF Inv
  <1>6. \A t \in Threads : Line(t) = <<>>
    BY DEF Init, Line, Idle
  <1>7. \A c \in Connections : OnThread(c) \in Threads
    BY <1>5, ThreadAssumption DEF OnThread, Types
  <1>8. \A c \in Connections, i \in Nat : ~Opens(c, i) /\ ~Closes(c, i)
    <2>1. \A i : ~(i \in DOMAIN <<>>)
      OBVIOUS
    <2>2. \A c \in Connections : Line(OnThread(c)) = <<>>
      BY <1>6, <1>7
    <2>. QED
      BY <2>1, <2>2, Zenon DEF Opens, Closes, At
  <1>9. \A c \in Connections : ~Alive(c) /\ ~OpenSomewhere(c)
    BY <1>8 DEF Init, Alive, OpenSomewhere
  <1>10. Numbered /\ Unborn /\ Kinds /\ InHands
    BY DEF Init, Numbered, Unborn, Kinds, InHands, Idle
  <1>11. OpensFirst /\ WillClose /\ ByTurns
    BY <1>8, <1>9 DEF OpensFirst, WillClose, ByTurns
  <1>. QED
    BY <1>4, <1>10, <1>11 DEF Order

\* The order of the notifications is kept by every step.
THEOREM OrderInvariant == Spec => [](Rest /\ Running /\ Order)
  <1>1. Inv /\ Rest /\ Running /\ Order /\ [Next]_vars => (Rest /\ Running /\ Order)'
    BY StepRest, StepOrder
  <1>. QED
    BY InitOrder, <1>1, PipelineInvariant, PTL DEF Spec

\* However addresses are reused, a listener never has two connections open
\* that bear the same name and address: the second one's opening waits on the
\* same thread behind the first one's closing.
THEOREM ListenersTellApart == Spec => []NoTwoAlike
  <1>1. Inv /\ Order => NoTwoAlike
    <2>. SUFFICES ASSUME Inv, Order, NEW l \in Listeners,
                         NEW c \in Connections, NEW d \in Connections,
                         view[l][c] = "open", view[l][d] = "open",
                         name[c] = name[d], id[c] = id[d], c # d
                  PROVE  FALSE
      BY DEF NoTwoAlike
    <2>1. ASSUME NEW x \in Connections, view[l][x] = "open"
          PROVE  Alive(x) /\ guard[x] # "none" /\ phase[x] # "new"
      BY <2>1 DEF Alive, OpenSomewhere, Inv, Viewed, ViewOK, Order, Unborn
    <2>2. c < d \/ d < c
      BY SizeAssumption DEF Connections
    <2>. QED
      BY <2>1, <2>2 DEF Order, ByTurns
  <1>. QED
    BY <1>1, PipelineInvariant, OrderInvariant, PTL

\* While the server runs and nothing about a connection is on its way, it is
\* registered and open to all listeners or open to none.
THEOREM ListenersAgree == Spec => []OfOneMind
  <1>1. Inv /\ Running /\ Order => OfOneMind
    <2>. SUFFICES ASSUME Inv, Running, Order, NEW c \in Connections, ~Pending(c), stop = "no",
                         NEW k \in Listeners, view[k][c] = "open"
                  PROVE  phase[c] = "registered" /\ \A l \in Listeners : view[l][c] = "open"
      BY DEF OfOneMind
    <2>1. Types /\ Viewed /\ InHands /\ OpenSomewhere(c)
      BY DEF Inv, Order, OpenSomewhere
    <2>2. OnThread(c) \in Threads
      BY <2>1, ThreadAssumption DEF OnThread, Types
    <2>3. guard[c] = "ok"
      <3>1. CASE Busy(OnThread(c)) /\ Current(OnThread(c)).c = c
        <4>. DEFINE s == threads[OnThread(c)].batch
        <4>1. s # <<>> /\ s \in Seq(Item)
          BY <2>1, <2>2, <3>1, ThreadShape DEF Inv, Staged, StageOK
        <4>2. 1 \in DOMAIN s /\ s[1] = Current(OnThread(c))
          BY <4>1 DEF Current
        <4>. QED
          BY <2>2, <3>1, <4>2 DEF Pending
      <3>. QED
        BY <2>1, <3>1, OpenGuard
    <2>4. \A i \in Nat : ~Closes(c, i)
      <3>. SUFFICES ASSUME NEW i \in Nat, Closes(c, i) PROVE FALSE
        OBVIOUS
      <3>. DEFINE t == OnThread(c)
                  b == threads[t].batch
                  q == queues[t]
      <3>1. b \in Seq(Item) /\ q \in Seq(Item)
        BY <2>1, <2>2, ThreadShape DEF Types
      <3>2. Line(t) = b \o q /\ i \in DOMAIN Line(t) /\ Line(t)[i].c = c
        BY DEF Line, Closes, At
      <3>3. /\ \A j \in DOMAIN b : b[j].c # c
            /\ \A j \in DOMAIN q : q[j].c # c
        BY <2>2 DEF Pending
      <3>. HIDE DEF t, b, q
      <3>4. \/ i \in DOMAIN b /\ Line(t)[i] = b[i]
            \/ i - Len(b) \in DOMAIN q /\ Line(t)[i] = q[i - Len(b)]
        BY <3>1, <3>2
      <3>. QED
        BY <3>2, <3>3, <3>4
    <2>5. phase[c] # "new"
      BY <2>3 DEF Order, Unborn
    <2>6. phase[c] \notin {"closed", "freed"}
      BY <2>1, <2>2, <2>4 DEF Order, WillClose, Alive, Running
    <2>7. phase[c] = "registered"
      BY <2>1, <2>5, <2>6 DEF Types
    <2>. QED
      BY <2>1, <2>3, <2>7 DEF Viewed, ViewOK
  <1>. QED
    BY <1>1, PipelineInvariant, OrderInvariant, PTL

\* The fields of the manager, the queues, the threads and the guards keep
\* their types; in particular no counter of a channel becomes negative.
THEOREM ManagerTypes == Spec => []TypeOK
  <1>1. Inv /\ Rest /\ Counted => TypeOK
    BY DEF Inv, Types, Rest, Counted, TypeOK
  <1>. QED
    BY <1>1, PipelineInvariant, OrderInvariant, CountInvariant, PTL
=============================================================================
