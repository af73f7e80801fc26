------------------------------- MODULE Server -------------------------------
(***************************************************************************)
(* Start, stop and destruction of the server: server_impl.cpp, with the    *)
(* acceptor (acceptor.hpp), the threaded handler invoker                   *)
(* (threaded_handler_invoker.cpp) and the threads of the providers.        *)
(*                                                                         *)
(* One thread is in start(), which runs the io_service.  Other threads may *)
(* call stop(), and the owner destroys the server, both at any time.  Each *)
(* of them goes through finish(), which ends the parts one after another.  *)
(* A request is what its connection does: it is read, it waits for a       *)
(* handler thread, it is answered, and the connection is open or closed.   *)
(***************************************************************************)
EXTENDS Integers, Sequences, FiniteSets

CONSTANTS
    Stoppers,   \* threads that call stop()
    Providers,  \* threads of message providers
    Handlers,   \* threads of the handler invoker
    Requests    \* connections that may be accepted

\* What finish() ends, in this order.
Parts == <<"data", "acceptor", "listener", "queue", "invoker">>
PartSet == {"data", "acceptor", "listener", "queue", "invoker"}

Threads == Stoppers \union {"starter", "owner"}

ASSUME ThreadAssumption == {"starter", "owner"} \intersect Stoppers = {}

\* A handler thread without a request has "none".
ASSUME RequestAssumption == "none" \notin Requests

VARIABLES
    started, stopped, \* started_ and stopped_
    mutex,     \* who holds stop_mutex_
    pc,        \* where the threads that start, stop and destroy are
    todo,      \* the part such a thread ends next in finish()
    down,      \* the parts that were ended
    halted,    \* io_service::stop was called
    jobs,      \* handlers and strand jobs the io_service has ready
    accept,    \* the pending async_accept: first, again or none
    request,   \* what became of each request
    answers,   \* history: how often handled() or handled_errors() was called
    finished,  \* connection_manager::finished_
    queue,     \* the handler invoker's input_queue_
    handler,   \* the request a handler thread works on
    providing  \* the providers whose function has not returned

lifeVars   == <<started, stopped, mutex, pc, todo, down, halted>>
serviceVars == <<jobs, accept, request, answers, finished, queue, handler>>
vars == <<lifeVars, serviceVars, providing>>

Stopping == "data" \in down

Job == [job : {"accepted"}, first : BOOLEAN, ok : BOOLEAN]
       \union [job : {"process", "answer"}, r : Requests]
       \union {[job |-> "accept_again"], [job |-> "finish"]}

TypeOK ==
    /\ started \in BOOLEAN /\ stopped \in BOOLEAN /\ halted \in BOOLEAN /\ finished \in BOOLEAN
    /\ mutex \in {"free", "starter", "owner"}
    /\ pc \in [Threads -> {"idle", "run", "finish", "drain", "manager", "mark", "unlock", "done",
                           "check", "dispatch", "wait", "io_stop", "returned",
                           "join", "lock", "inspect", "waiting", "gone"}]
    /\ todo \in [Threads -> 1..Len(Parts)]
    /\ down \subseteq PartSet
    /\ jobs \in Seq(Job)
    /\ accept \in {"first", "again", "none"}
    /\ request \in [Requests -> {"none", "accepted", "reading", "queued", "running", "posted",
                                 "open", "closed"}]
    /\ answers \in [Requests -> Nat]
    /\ queue \in Seq(Requests)
    /\ handler \in [Handlers -> Requests \union {"none"}]
    /\ providing \subseteq Providers

\* After init().
Init ==
    /\ started = FALSE /\ stopped = FALSE /\ halted = FALSE /\ finished = FALSE
    /\ mutex = "free"
    /\ pc = [t \in Threads |-> "idle"]
    /\ todo = [t \in Threads |-> 1]
    /\ down = {}
    /\ jobs = <<>>
    /\ accept = "first"
    /\ request = [r \in Requests |-> "none"]
    /\ answers = [r \in Requests |-> 0]
    /\ queue = <<>>
    /\ handler = [h \in Handlers |-> "none"]
    /\ providing = Providers

Goto(t, label) == pc' = [pc EXCEPT ![t] = label]

CloseAll(rs) == request' = [r \in Requests |-> IF r \in rs THEN "closed" ELSE request[r]]
In(state)    == {r \in Requests : request[r] = state}

-----------------------------------------------------------------------------
(* server_impl::finish(), called by every thread that ends the server.     *)

\* acceptor::stop: a pending accept is told.
StopAcceptor ==
    /\ accept' = "none"
    /\ jobs' = IF accept = "none" THEN jobs
               ELSE Append(jobs, [job |-> "accepted", first |-> accept = "first", ok |-> FALSE])

\* Mutation: finish() leaves out the message queue.
FinishPartButQueue(t) ==
    LET part == Parts[todo[t]] IN
    /\ pc[t] = "finish"
    /\ down' = IF part = "queue" THEN down ELSE down \union {part}
    /\ IF part = "acceptor" THEN StopAcceptor ELSE UNCHANGED <<jobs, accept>>
    /\ IF todo[t] < Len(Parts)
       THEN todo' = [todo EXCEPT ![t] = @ + 1] /\ UNCHANGED pc
       ELSE /\ Goto(t, IF t = "starter" THEN "drain" ELSE "check")
            /\ todo' = [todo EXCEPT ![t] = 1]
    /\ UNCHANGED <<started, stopped, mutex, halted, request, answers, finished, queue, handler,
                   providing>>

FinishPart(t) ==
    LET part == Parts[todo[t]] IN
    /\ pc[t] = "finish"
    /\ down' = down \union {part}
    /\ IF part = "acceptor" THEN StopAcceptor ELSE UNCHANGED <<jobs, accept>>
    /\ IF todo[t] < Len(Parts)
       THEN todo' = [todo EXCEPT ![t] = @ + 1] /\ UNCHANGED pc
       ELSE /\ Goto(t, IF t = "starter" THEN "drain" ELSE "check")
            /\ todo' = [todo EXCEPT ![t] = 1]
    /\ UNCHANGED <<started, stopped, mutex, halted, request, answers, finished, queue, handler,
                   providing>>

-----------------------------------------------------------------------------
(* server_impl::start().                                                   *)

Start ==
    /\ pc["starter"] = "idle" /\ pc["owner"] = "idle" /\ mutex = "free"
    /\ mutex' = "starter"
    /\ started' = TRUE
    /\ Goto("starter", "run")
    /\ UNCHANGED <<stopped, todo, down, halted, serviceVars, providing>>

\* io_service::run returns: it was stopped, or it has nothing left to do.
RunReturns ==
    /\ pc["starter"] = "run"
    /\ \/ halted
       \/ jobs = <<>> /\ accept = "none" /\ In("reading") \union In("open") = {}
    /\ Goto("starter", "finish")
    /\ UNCHANGED <<started, stopped, mutex, todo, down, halted, serviceVars, providing>>

\* Mutation: wait_for_complete() answers nobody.
DrainNothing ==
    /\ pc["starter"] = "drain"
    /\ Goto("starter", "manager")
    /\ UNCHANGED <<started, stopped, mutex, todo, down, halted, serviceVars, providing>>

\* handler_invoker::wait_for_complete: what no thread took is answered here.
Drain ==
    /\ pc["starter"] = "drain"
    /\ queue' = <<>>
    /\ CloseAll(In("queued"))
    /\ answers' = [r \in Requests |-> answers[r] + IF r \in In("queued") THEN 1 ELSE 0]
    /\ Goto("starter", "manager")
    /\ UNCHANGED <<started, stopped, mutex, todo, down, halted, jobs, accept, finished, handler,
                   providing>>

\* Mutation: start() leaves the manager to stop().
FinishManagerNot ==
    /\ pc["starter"] = "manager"
    /\ Goto("starter", "mark")
    /\ UNCHANGED <<started, stopped, mutex, todo, down, halted, serviceVars, providing>>

FinishManager ==
    /\ pc["starter"] = "manager"
    /\ finished' = TRUE
    /\ CloseAll(In("open"))
    /\ Goto("starter", "mark")
    /\ UNCHANGED <<started, stopped, mutex, todo, down, halted, jobs, accept, answers, queue,
                   handler, providing>>

MarkStopped ==
    /\ pc["starter"] = "mark"
    /\ stopped' = TRUE
    /\ Goto("starter", "unlock")
    /\ UNCHANGED <<started, mutex, todo, down, halted, serviceVars, providing>>

Unlock ==
    /\ pc["starter"] = "unlock"
    /\ mutex' = "free"
    /\ Goto("starter", "done")
    /\ UNCHANGED <<started, stopped, todo, down, halted, serviceVars, providing>>

-----------------------------------------------------------------------------
(* server_impl::stop() and the destructor.                                 *)

\* A server is destroyed when no thread is in stop() or will call it; start()
\* may still run.
Stop(t) ==
    /\ pc[t] = "idle" /\ pc["owner"] = "idle"
    /\ t = "owner" => \A s \in Stoppers : pc[s] \in {"idle", "returned"}
    /\ Goto(t, "finish")
    /\ UNCHANGED <<started, stopped, mutex, todo, down, halted, serviceVars, providing>>

\* started_ and stopped_ are read without the mutex: a value written meanwhile
\* need not be seen.
Check(t) ==
    /\ pc[t] = "check"
    /\ \E seen_started \in {FALSE, started}, seen_stopped \in {FALSE, stopped} :
          Goto(t, IF seen_started /\ ~seen_stopped THEN "dispatch" ELSE "io_stop")
    /\ UNCHANGED <<started, stopped, mutex, todo, down, halted, serviceVars, providing>>

Dispatch(t) ==
    /\ pc[t] = "dispatch"
    /\ jobs' = Append(jobs, [job |-> "finish"])
    /\ Goto(t, "wait")
    /\ UNCHANGED <<started, stopped, mutex, todo, down, halted, accept, request, answers, finished,
                   queue, handler, providing>>

\* connection_manager::wait_for_complete.
WaitForComplete(t) ==
    /\ pc[t] = "wait" /\ finished
    /\ Goto(t, "io_stop")
    /\ UNCHANGED <<started, stopped, mutex, todo, down, halted, serviceVars, providing>>

\* Mutation: no io_.stop().
IoStopNot(t) ==
    /\ pc[t] = "io_stop"
    /\ Goto(t, IF t = "owner" THEN "join" ELSE "returned")
    /\ UNCHANGED <<started, stopped, mutex, todo, down, halted, serviceVars, providing>>

IoStop(t) ==
    /\ pc[t] = "io_stop"
    /\ halted' = TRUE
    /\ Goto(t, IF t = "owner" THEN "join" ELSE "returned")
    /\ UNCHANGED <<started, stopped, mutex, todo, down, serviceVars, providing>>

\* The rest of the destructor: join_all(), the mutex, one wait.
JoinAll ==
    /\ pc["owner"] = "join" /\ providing = {}
    /\ Goto("owner", "lock")
    /\ UNCHANGED <<started, stopped, mutex, todo, down, halted, serviceVars, providing>>

Lock ==
    /\ pc["owner"] = "lock" /\ mutex = "free"
    /\ mutex' = "owner"
    /\ Goto("owner", "inspect")
    /\ UNCHANGED <<started, stopped, todo, down, halted, serviceVars, providing>>

\* The one wait of the destructor is not followed further: DestructorReturns
\* shows that it is never reached.
Inspect ==
    /\ pc["owner"] = "inspect"
    /\ IF started /\ ~stopped THEN Goto("owner", "waiting") ELSE Goto("owner", "gone")
    /\ mutex' = "free"
    /\ UNCHANGED <<started, stopped, todo, down, halted, serviceVars, providing>>

-----------------------------------------------------------------------------
(* What io_service::run runs.                                              *)

Running == pc["starter"] = "run" /\ ~halted

\* A client connects, or the accept fails for some reason.
AcceptCompletes ==
    /\ accept # "none"
    /\ \E ok \in {FALSE, In("none") # {}} :
          jobs' = Append(jobs, [job |-> "accepted", first |-> accept = "first", ok |-> ok])
    /\ accept' = "none"
    /\ UNCHANGED <<lifeVars, request, answers, finished, queue, handler, providing>>

NextJob(job) == Running /\ jobs # <<>> /\ Head(jobs).job = job

\* accept() on an acceptor that is closed fails at once.
AcceptAgain(js) ==
    IF "acceptor" \in down
    THEN /\ jobs' = Append(js, [job |-> "accepted", first |-> FALSE, ok |-> FALSE])
         /\ UNCHANGED accept
    ELSE jobs' = js /\ accept' = "again"

\* handle_accept_first throws, which ends run().
HandleAcceptFailedFirst ==
    /\ NextJob("accepted") /\ Head(jobs).first /\ ~Head(jobs).ok
    /\ jobs' = Tail(jobs)
    /\ Goto("starter", "finish")
    /\ UNCHANGED <<started, stopped, mutex, todo, down, halted, accept, request, answers, finished,
                   queue, handler, providing>>

HandleAcceptFailedAgain ==
    /\ NextJob("accepted") /\ ~Head(jobs).first /\ ~Head(jobs).ok
    /\ jobs' = IF Stopping THEN Tail(jobs) ELSE Append(Tail(jobs), [job |-> "accept_again"])
    /\ UNCHANGED <<lifeVars, accept, request, answers, finished, queue, handler, providing>>

\* The server may be stopped right after stopping() was asked.
HandleAcceptOk ==
    /\ NextJob("accepted") /\ Head(jobs).ok
    /\ \/ /\ Stopping
          /\ jobs' = Tail(jobs)
          /\ UNCHANGED <<accept, request>>
       \/ \E r \in In("none") :
             /\ AcceptAgain(Append(Tail(jobs), [job |-> "process", r |-> r]))
             /\ request' = [request EXCEPT ![r] = "accepted"]
    /\ UNCHANGED <<lifeVars, answers, finished, queue, handler, providing>>

RunAcceptAgain ==
    /\ NextJob("accept_again")
    /\ AcceptAgain(Tail(jobs))
    /\ UNCHANGED <<lifeVars, request, answers, finished, queue, handler, providing>>

ProcessConnection ==
    /\ NextJob("process")
    /\ request' = [request EXCEPT ![Head(jobs).r] = "reading"]
    /\ jobs' = Tail(jobs)
    /\ UNCHANGED <<lifeVars, accept, answers, finished, queue, handler, providing>>

\* The request was read: invoke_handler, which throws once the queue is finished.
InvokeHandler(r) ==
    /\ Running /\ request[r] = "reading"
    /\ IF "invoker" \in down
       THEN CloseAll({r}) /\ UNCHANGED queue
       ELSE /\ request' = [request EXCEPT ![r] = "queued"]
            /\ queue' = Append(queue, r)
    /\ UNCHANGED <<lifeVars, jobs, accept, answers, finished, handler, providing>>

\* Its connection times out or the client leaves.
ConnectionEnds(r) ==
    /\ Running /\ request[r] \in {"reading", "open"}
    /\ CloseAll({r})
    /\ UNCHANGED <<lifeVars, jobs, accept, answers, finished, queue, handler, providing>>

\* Mutation: the manager takes a connection although it is finished.
HandleItemLate ==
    /\ NextJob("answer")
    /\ request' = [request EXCEPT ![Head(jobs).r] = "open"]
    /\ answers' = [answers EXCEPT ![Head(jobs).r] = @ + 1]
    /\ jobs' = Tail(jobs)
    /\ UNCHANGED <<lifeVars, accept, finished, queue, handler, providing>>

\* handle_item: a connection is open when the manager takes it.
HandleItem ==
    /\ NextJob("answer")
    /\ \E state \in IF finished THEN {"closed"} ELSE {"open", "closed"} :
          request' = [request EXCEPT ![Head(jobs).r] = state]
    /\ answers' = [answers EXCEPT ![Head(jobs).r] = @ + 1]
    /\ jobs' = Tail(jobs)
    /\ UNCHANGED <<lifeVars, accept, finished, queue, handler, providing>>

\* connection_manager::finish, dispatched by stop().
RunFinish ==
    /\ NextJob("finish")
    /\ finished' = TRUE
    /\ CloseAll(In("open"))
    /\ jobs' = Tail(jobs)
    /\ UNCHANGED <<lifeVars, accept, answers, queue, handler, providing>>

RunJob ==
    \/ HandleAcceptFailedFirst \/ HandleAcceptFailedAgain \/ HandleAcceptOk
    \/ RunAcceptAgain \/ ProcessConnection \/ HandleItem \/ RunFinish

-----------------------------------------------------------------------------
(* The handler threads and the providers.                                  *)

\* Mutation: pop() leaves the item in the queue.
TakeUnpopped(h) ==
    /\ handler[h] = "none" /\ queue # <<>> /\ "invoker" \notin down
    /\ handler' = [handler EXCEPT ![h] = Head(queue)]
    /\ request' = [request EXCEPT ![Head(queue)] = "running"]
    /\ UNCHANGED <<lifeVars, jobs, accept, answers, finished, queue, providing>>

Take(h) ==
    /\ handler[h] = "none" /\ queue # <<>> /\ "invoker" \notin down
    /\ handler' = [handler EXCEPT ![h] = Head(queue)]
    /\ queue' = Tail(queue)
    /\ request' = [request EXCEPT ![Head(queue)] = "running"]
    /\ UNCHANGED <<lifeVars, jobs, accept, answers, finished, providing>>

Reply(h) ==
    /\ handler[h] # "none"
    /\ jobs' = Append(jobs, [job |-> "answer", r |-> handler[h]])
    /\ request' = [request EXCEPT ![handler[h]] = "posted"]
    /\ handler' = [handler EXCEPT ![h] = "none"]
    /\ UNCHANGED <<lifeVars, accept, answers, finished, queue, providing>>

\* A provider returns when the message queue is not active any more.
ProviderReturns(p) ==
    /\ p \in providing /\ "queue" \in down
    /\ providing' = providing \ {p}
    /\ UNCHANGED <<lifeVars, serviceVars>>

-----------------------------------------------------------------------------

StarterStep == RunReturns \/ RunJob \/ FinishPart("starter") \/ Drain \/ FinishManager
               \/ MarkStopped \/ Unlock
StopperStep(t) == FinishPart(t) \/ Check(t) \/ Dispatch(t) \/ WaitForComplete(t) \/ IoStop(t)
OwnerStep == StopperStep("owner") \/ JoinAll \/ Lock \/ Inspect

Next ==
    \/ Start \/ StarterStep \/ OwnerStep \/ AcceptCompletes
    \/ \E t \in Stoppers : StopperStep(t)
    \/ \E t \in Stoppers \union {"owner"} : Stop(t)
    \/ \E r \in Requests : InvokeHandler(r) \/ ConnectionEnds(r)
    \/ \E h \in Handlers : Take(h) \/ Reply(h)
    \/ \E p \in Providers : ProviderReturns(p)

Spec == Init /\ [][Next]_vars

\* Every thread that is in start(), stop() or the destructor gets on, and so do
\* providers that see the queue inactive.  Nothing is assumed of the clients, of
\* the application's request handlers, or of who calls start() and stop().
Fairness ==
    /\ WF_vars(StarterStep) /\ WF_vars(OwnerStep)
    /\ \A t \in Stoppers : WF_vars(StopperStep(t))
    /\ \A p \in Providers : WF_vars(ProviderReturns(p))

FairSpec == Spec /\ Fairness

-----------------------------------------------------------------------------
(* Properties.                                                             *)

\* A request is answered at most once, by a handler thread or by the drain.
AnsweredOnce == \A r \in Requests : answers[r] <= 1

\* When start() has returned, no request is left in the handler invoker's
\* queue: none was pushed behind the drain, and none overlooked by it.
NoRequestForgotten ==
    pc["starter"] = "done" => queue = <<>> /\ In("queued") = {}

\* Once the manager is finished no connection is registered any more, also by
\* an answer that comes late.
NoConnectionSurvives == finished => In("open") = {}

\* stop() returns, whenever it is called.
StopReturns == \A t \in Stoppers : (pc[t] = "finish") ~> (pc[t] = "returned")

\* start() returns once the server is being stopped.
StartReturns == (started /\ Stopping) ~> (pc["starter"] = "done")

\* The destructor returns, also while start() runs in another thread.
DestructorReturns == (pc["owner"] = "finish") ~> (pc["owner"] = "gone")
=============================================================================
