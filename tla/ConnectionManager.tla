------------------------- MODULE ConnectionManager -------------------------
(***************************************************************************)
(* The connection manager and the listener pipeline behind it:             *)
(* details/connection_manager.hpp, connection_manager_base.cpp,            *)
(* channels_stat_impl.cpp, threaded_listener.cpp, compound_listener.cpp    *)
(* and guard.cpp.                                                          *)
(*                                                                         *)
(* The io thread registers and removes connections and pushes a            *)
(* notification for each on the queue of one of the listener threads.  A   *)
(* listener thread calls the application's listeners, one after the other. *)
(* A listener may refuse a connection by throwing; the thread then takes   *)
(* back what it told the others and asks the io thread to close the        *)
(* connection, which it names by its address and its user name.  Addresses *)
(* are those of connection objects, hence reused.                          *)
(***************************************************************************)
EXTENDS Integers, Sequences, FiniteSets

CONSTANTS
    MaxConnections, \* bound on the number of connections ever registered
    Addresses,      \* addresses of connection objects
    Names,          \* user names
    Channels,       \* channels counted by the statistics
    Subscriptions,  \* the sets of channels a connection may subscribe to
    NThreads,       \* settings: listener_threads
    ThreadOf,       \* the thread a name hashes to
    NListeners,     \* number of listeners added to the server
    MaxSends        \* bound on the messages sent to names nobody listens to

Connections == 1..MaxConnections
Threads     == 1..NThreads
Listeners   == 1..NListeners

ASSUME SizeAssumption ==
    MaxConnections \in Nat /\ NThreads \in Nat /\ NListeners \in Nat /\ MaxSends \in Nat
ASSUME ThreadAssumption == ThreadOf \in [Names -> Threads]
ASSUME NameAssumption == Names # {}
ASSUME AddressAssumption == Addresses # {}
ASSUME ChannelAssumption == Subscriptions \subseteq SUBSET Channels

VARIABLES
    phase,    \* of a connection: new, registered, closed, freed
    id,       \* its address
    name,     \* the user it serves
    channels, \* the channels of its formatters data
    stat,     \* channels_stat_impl: the counters, 0 for one that is not there
    finished, \* connection_manager::finished_
    jobs,     \* what was posted to the strand and has not run
    stop,     \* server_impl::stop: no, stopping, posted
    queues,   \* the queue of each listener thread
    ended,    \* finished_ of each of these queues
    threads,  \* what each listener thread does
    guard,    \* the guard of each connection
    view,     \* history: what each listener was told of each connection
    sends     \* history: messages that found no connection

managerVars  == <<phase, id, name, channels, stat, finished, sends>>
listenerVars == <<threads, guard, view>>
vars == <<managerVars, jobs, stop, queues, ended, listenerVars>>

\* Everything but the address and the user of a notification's connection is
\* reached through its guard.
OpenItem(c)         == [kind |-> "open",  to |-> name'[c], c |-> c]
CloseItem(c)        == [kind |-> "close", to |-> name[c],  c |-> c]
DisconnectedItem(n) == [kind |-> "disconnected", to |-> n, c |-> 0]

Item == [kind : {"open", "close"}, to : Names, c : Connections]
        \union [kind : {"disconnected"}, to : Names, c : {0}]

Job == [job : {"opened_failed"}, to : Names, id : Addresses, c : Connections]
       \union {[job |-> "finish"]}

\* batch is what pop_all() returned and is not processed yet; its head is the
\* item in process unless the thread is idle, and at is the listener to call.
Idle(batch) == [batch |-> batch, doing |-> "idle", at |-> 0]

Thread == [batch : Seq(Item), doing : {"idle", "opening", "undoing", "closing", "gone"},
           at : 0..NListeners]

TypeOK ==
    /\ phase \in [Connections -> {"new", "registered", "closed", "freed"}]
    /\ id \in [Connections -> Addresses]
    /\ name \in [Connections -> Names]
    /\ channels \in [Connections -> SUBSET Channels]
    /\ stat \in [Channels -> Nat]
    /\ finished \in BOOLEAN
    /\ jobs \in Seq(Job)
    /\ stop \in {"no", "stopping", "posted"}
    /\ queues \in [Threads -> Seq(Item)]
    /\ ended \in [Threads -> BOOLEAN]
    /\ threads \in [Threads -> Thread]
    /\ guard \in [Connections -> {"none", "opened", "ok", "canceled", "closed"}]
    /\ view \in [Listeners -> [Connections -> {"unknown", "open", "refused", "closed"}]]
    /\ sends \in 0..MaxSends

Init ==
    /\ phase = [c \in Connections |-> "new"]
    /\ id = [c \in Connections |-> CHOOSE a \in Addresses : TRUE]
    /\ name = [c \in Connections |-> CHOOSE n \in Names : TRUE]
    /\ channels = [c \in Connections |-> {}]
    /\ stat = [ch \in Channels |-> 0]
    /\ finished = FALSE
    /\ jobs = <<>>
    /\ stop = "no"
    /\ queues = [t \in Threads |-> <<>>]
    /\ ended = [t \in Threads |-> FALSE]
    /\ threads = [t \in Threads |-> Idle(<<>>)]
    /\ guard = [c \in Connections |-> "none"]
    /\ view = [l \in Listeners |-> [c \in Connections |-> "unknown"]]
    /\ sends = 0

-----------------------------------------------------------------------------
(* channels_stat_impl.                                                     *)

UpdateChannelsStat(chs, by) ==
    stat' = [ch \in Channels |-> IF ch \in chs THEN stat[ch] + by ELSE stat[ch]]

-----------------------------------------------------------------------------
(* threaded_listener, called by the io thread.                             *)

\* Mutation: the index is computed from the connection, not from its name.
CalcIndexByConnection(item) == IF item.c = 0 THEN ThreadOf[item.to] ELSE 1 + (item.c % NThreads)

CalcIndex(item) == ThreadOf[item.to]

\* connection_opened_ex, connection_closed_ex and disconnected.  Without
\* listeners there are no queues; a queue that is finished takes no item.
Fire(item) ==
    LET t == CalcIndex(item) IN
    queues' = IF NListeners = 0 \/ ended[t] THEN queues
              ELSE [queues EXCEPT ![t] = Append(@, item)]

-----------------------------------------------------------------------------
(* connection_manager.                                                     *)

Registered == {c \in Connections : phase[c] = "registered"}
Live       == {c \in Connections : phase[c] \in {"registered", "closed"}}

\* A connection that got its name is registered, unless the manager is
\* finished: it then closes on its own.  Connections are numbered in the order
\* they are registered, and no two living ones have the same address.
InsertConnection(c) ==
    /\ phase[c] = "new" /\ \A d \in Connections : d < c => phase[d] # "new"
    /\ \E a \in Addresses, n \in Names, chs \in Subscriptions :
          /\ \A d \in Live : id[d] # a
          /\ id' = [id EXCEPT ![c] = a]
          /\ name' = [name EXCEPT ![c] = n]
          /\ channels' = [channels EXCEPT ![c] = chs]
    /\ IF finished
       THEN /\ phase' = [phase EXCEPT ![c] = "closed"]
            /\ UNCHANGED <<stat, queues>>
       ELSE /\ phase' = [phase EXCEPT ![c] = "registered"]
            /\ UpdateChannelsStat(channels'[c], 1)
            /\ Fire(OpenItem(c))
    /\ UNCHANGED <<finished, sends, jobs, stop, ended, listenerVars>>

\* Mutation: the statistics forget to count down.
RemoveConnectionUncounted(c) ==
    /\ phase[c] = "registered" /\ ~finished
    /\ phase' = [phase EXCEPT ![c] = "closed"]
    /\ Fire(CloseItem(c))
    /\ UNCHANGED stat

\* remove_connection(), called by the connection's cleanup().
RemoveConnection(c) ==
    /\ phase[c] = "registered" /\ ~finished
    /\ phase' = [phase EXCEPT ![c] = "closed"]
    /\ UpdateChannelsStat(channels[c], -1)
    /\ Fire(CloseItem(c))

\* The peer, a timer or an error closes a connection.
Close(c) ==
    /\ RemoveConnection(c)
    /\ UNCHANGED <<id, name, channels, finished, sends, jobs, stop, ended, listenerVars>>

\* The last reference to a closed connection goes; its address is free.
Free(c) ==
    /\ phase[c] = "closed"
    /\ phase' = [phase EXCEPT ![c] = "freed"]
    /\ UNCHANGED <<id, name, channels, stat, finished, sends,
                   jobs, stop, queues, ended, listenerVars>>

\* A message for a user without connection; what the others do with a message
\* is up to the connection.
Send(n) ==
    /\ sends < MaxSends
    /\ ~finished /\ \A c \in Registered : name[c] # n
    /\ Fire(DisconnectedItem(n))
    /\ sends' = sends + 1
    /\ UNCHANGED <<phase, id, name, channels, stat, finished,
                   jobs, stop, ended, listenerVars>>

Named(j) == {c \in Registered : id[c] = j.id /\ name[c] = j.to}

NotifyConnectionOpenedFailed ==
    /\ jobs # <<>> /\ Head(jobs).job = "opened_failed"
    /\ jobs' = Tail(jobs)
    /\ IF finished \/ Named(Head(jobs)) = {}
       THEN UNCHANGED <<phase, stat, queues>>
       ELSE \E c \in Named(Head(jobs)) : RemoveConnection(c)
    /\ UNCHANGED <<id, name, channels, finished, sends, stop, ended, listenerVars>>

\* connection_manager::finish: the connections are closed, the listeners and
\* the statistics are not told.
Finish ==
    /\ jobs # <<>> /\ Head(jobs).job = "finish"
    /\ jobs' = Tail(jobs)
    /\ finished' = TRUE
    /\ phase' = [c \in Connections |-> IF c \in Registered THEN "closed" ELSE phase[c]]
    /\ UNCHANGED <<id, name, channels, stat, sends, stop, queues, ended, listenerVars>>

-----------------------------------------------------------------------------
(* server_impl::stop, in the thread that stops the server.                 *)

Stop ==
    /\ stop = "no"
    /\ stop' = "stopping"
    /\ UNCHANGED <<managerVars, jobs, queues, ended, listenerVars>>

FinishQueue(t) ==
    /\ stop = "stopping" /\ ~ended[t] /\ \A u \in Threads : u < t => ended[u]
    /\ ended' = [ended EXCEPT ![t] = TRUE]
    /\ UNCHANGED <<managerVars, jobs, stop, queues, listenerVars>>

PostFinish ==
    /\ stop = "stopping" /\ \A t \in Threads : ended[t]
    /\ stop' = "posted"
    /\ jobs' = Append(jobs, [job |-> "finish"])
    /\ UNCHANGED <<managerVars, queues, ended, listenerVars>>

-----------------------------------------------------------------------------
(* threaded_listener::thread_func and process_item, in listener thread t.  *)

Doing(t, what) == threads[t].doing = what
Current(t)     == Head(threads[t].batch)
Done(t)        == Idle(Tail(threads[t].batch))

\* pop_all(): everything there is, or the end of the thread.
PopAll(t) ==
    /\ Doing(t, "idle") /\ threads[t].batch = <<>>
    /\ ~ended[t] /\ queues[t] # <<>>
    /\ threads' = [threads EXCEPT ![t] = Idle(queues[t])]
    /\ queues' = [queues EXCEPT ![t] = <<>>]
    /\ UNCHANGED <<managerVars, jobs, stop, ended, guard, view>>

ThreadEnds(t) ==
    /\ Doing(t, "idle") /\ threads[t].batch = <<>> /\ ended[t]
    /\ threads' = [threads EXCEPT ![t].doing = "gone"]
    /\ UNCHANGED <<managerVars, jobs, stop, queues, ended, guard, view>>

\* guard::open and guard::close.
GuardOpens(c)  == guard[c] = "none"
GuardCloses(c) == guard[c] = "ok"

\* process_item up to the first call of a listener.
ProcessItem(t) ==
    /\ Doing(t, "idle") /\ threads[t].batch # <<>>
    /\ LET item == Current(t)
           begin(doing, at, g) ==
               /\ threads' = [threads EXCEPT ![t].doing = doing, ![t].at = at]
               /\ guard' = [guard EXCEPT ![item.c] = g]
           skip == threads' = [threads EXCEPT ![t] = Done(t)] /\ UNCHANGED guard
       IN  \/ item.kind = "disconnected" /\ skip
           \/ item.kind = "open"  /\ GuardOpens(item.c)   /\ begin("opening", 1, "opened")
           \/ item.kind = "open"  /\ ~GuardOpens(item.c)  /\ skip
           \/ item.kind = "close" /\ GuardCloses(item.c)  /\ begin("closing", NListeners, "closed")
           \/ item.kind = "close" /\ ~GuardCloses(item.c) /\ skip
    /\ UNCHANGED <<managerVars, jobs, stop, queues, ended, view>>

Tell(l, c, what) == view' = [view EXCEPT ![l][c] = what]

\* Mutation: no commit() after the last listener.
ListenerAcceptsUncommitted(t) ==
    /\ Doing(t, "opening")
    /\ Tell(threads[t].at, Current(t).c, "open")
    /\ threads' = [threads EXCEPT ![t] = IF @.at < NListeners THEN [@ EXCEPT !.at = @ + 1]
                                         ELSE Done(t)]
    /\ UNCHANGED <<managerVars, jobs, stop, queues, ended, guard>>

\* A listener agrees to the connection; the last one's agreement commits.
ListenerAccepts(t) ==
    /\ Doing(t, "opening")
    /\ Tell(threads[t].at, Current(t).c, "open")
    /\ IF threads[t].at < NListeners
       THEN threads' = [threads EXCEPT ![t].at = @ + 1] /\ UNCHANGED guard
       ELSE threads' = [threads EXCEPT ![t] = Done(t)]
            /\ guard' = [guard EXCEPT ![Current(t).c] = "ok"]
    /\ UNCHANGED <<managerVars, jobs, stop, queues, ended>>

\* Mutation: the listener that threw is told of the closing too.
ListenerRefusesIncluded(t) ==
    /\ Doing(t, "opening")
    /\ Tell(threads[t].at, Current(t).c, "refused")
    /\ threads' = [threads EXCEPT ![t].doing = "undoing"]
    /\ UNCHANGED <<managerVars, jobs, stop, queues, ended, guard>>

\* A listener throws: the ones before it will be told that it closed.
ListenerRefuses(t) ==
    /\ Doing(t, "opening")
    /\ Tell(threads[t].at, Current(t).c, "refused")
    /\ threads' = [threads EXCEPT ![t].doing = "undoing", ![t].at = @ - 1]
    /\ UNCHANGED <<managerVars, jobs, stop, queues, ended, guard>>

UndoOpened(t) ==
    /\ Doing(t, "undoing") /\ threads[t].at > 0
    /\ Tell(threads[t].at, Current(t).c, "closed")
    /\ threads' = [threads EXCEPT ![t].at = @ - 1]
    /\ UNCHANGED <<managerVars, jobs, stop, queues, ended, guard>>

\* Mutation: the exception ends in process_item, the server hears nothing.
CancelOpenedSilently(t) ==
    /\ Doing(t, "undoing") /\ threads[t].at = 0
    /\ threads' = [threads EXCEPT ![t] = Done(t)]
    /\ guard' = [guard EXCEPT ![Current(t).c] = "canceled"]
    /\ UNCHANGED <<managerVars, jobs, stop, queues, ended, view>>

\* The exception reaches process_item.
CancelOpened(t) ==
    LET item == Current(t) IN
    /\ Doing(t, "undoing") /\ threads[t].at = 0
    /\ threads' = [threads EXCEPT ![t] = Done(t)]
    /\ guard' = [guard EXCEPT ![item.c] = "canceled"]
    /\ jobs' = IF stop # "no" THEN jobs
               ELSE Append(jobs, [job |-> "opened_failed", to |-> item.to,
                                  id |-> id[item.c], c |-> item.c])
    /\ UNCHANGED <<managerVars, stop, queues, ended, view>>

ListenerCloses(t) ==
    /\ Doing(t, "closing")
    /\ Tell(threads[t].at, Current(t).c, "closed")
    /\ threads' = IF threads[t].at > 1 THEN [threads EXCEPT ![t].at = @ - 1]
                  ELSE [threads EXCEPT ![t] = Done(t)]
    /\ UNCHANGED <<managerVars, jobs, stop, queues, ended, guard>>

ThreadStep(t) ==
    \/ PopAll(t) \/ ThreadEnds(t) \/ ProcessItem(t)
    \/ ListenerAccepts(t) \/ ListenerRefuses(t)
    \/ UndoOpened(t) \/ CancelOpened(t) \/ ListenerCloses(t)

-----------------------------------------------------------------------------

RunJob == NotifyConnectionOpenedFailed \/ Finish

Next ==
    \/ \E c \in Connections : InsertConnection(c) \/ Close(c) \/ Free(c)
    \/ \E n \in Names : Send(n)
    \/ RunJob
    \/ Stop \/ PostFinish
    \/ \E t \in Threads : FinishQueue(t) \/ ThreadStep(t)

Spec == Init /\ [][Next]_vars

\* The io thread runs what is posted, and the listener threads run (a listener
\* returns from a call).  Nobody has to close a connection or stop the server.
Fairness == WF_vars(RunJob) /\ \A t \in Threads : WF_vars(ThreadStep(t))

FairSpec == Spec /\ Fairness

-----------------------------------------------------------------------------
(* Properties.                                                             *)

\* The counters of channels_stat_impl are the numbers of registered
\* subscribers, so load_names() and load_keys() list the channels somebody
\* listens to, until the manager is finished.
StatIsExact ==
    ~finished =>
        \A ch \in Channels : stat[ch] = Cardinality({c \in Registered : ch \in channels[c]})

\* What the listeners hear of one connection is what ListenerContract allows.
Contract == INSTANCE ListenerContract
                WITH NListeners <- NListeners, Connections <- Connections, view <- view
KeepsContract == Contract!Spec

\* A listener knows a connection by its name and address only.  Although the
\* address of a closed connection is reused, a listener never has two
\* connections open that it cannot tell apart.
NoTwoAlike ==
    \A l \in Listeners, c, d \in Connections :
        /\ view[l][c] = "open" /\ view[l][d] = "open"
        /\ name[c] = name[d] /\ id[c] = id[d]
        => c = d

Pending(c) ==
    \E t \in Threads : \E s \in {queues[t], threads[t].batch} :
        \E i \in DOMAIN s : s[i].c = c

\* While the server runs, the listeners are of one mind once the notifications
\* of a connection are through: all of them have it open, and it is registered,
\* or none has.
OfOneMind ==
    \A c \in Connections : ~Pending(c) /\ stop = "no" =>
        \/ phase[c] = "registered" /\ \A l \in Listeners : view[l][c] = "open"
        \/ \A l \in Listeners : view[l][c] # "open"

\* A connection that a listener refused does not stay registered.
RefusedIsClosed ==
    \A c \in Connections :
        (phase[c] = "registered" /\ \E l \in Listeners : view[l][c] = "refused")
            ~> (phase[c] # "registered" \/ stop # "no")

\* A listener that has a connection open hears that it closed.
ClosedIsTold ==
    \A c \in Connections, l \in Listeners :
        (phase[c] # "registered" /\ view[l][c] = "open")
            ~> (view[l][c] = "closed" \/ stop # "no")
=============================================================================
