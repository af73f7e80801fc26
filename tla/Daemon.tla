------------------------------- MODULE Daemon -------------------------------
(***************************************************************************)
(* How a server comes and goes: main.cpp of the daemon, its command line,  *)
(* the modules it loads, the steps of server_impl::init(), any of which    *)
(* may throw, and the destruction of the server's members, one by one.     *)
(*                                                                         *)
(* The program is the daemon, with settings from a document, or a Python   *)
(* program, whose settings never throw.  Objects are shared by pointers    *)
(* that count: a member that goes takes an object along when nobody else   *)
(* refers to it, and the invoker and the listener join their threads then. *)
(* What nobody ran in the io_service goes with the io_service, last of all.*)
(***************************************************************************)
EXTENDS Settings

CONSTANTS
    Arguments,  \* what the daemon may be called with: sequences of options
    Documents,  \* the configurations there may be
    Texts,      \* what a configuration may have for a module
    Modules,    \* names of modules that can be loaded
    Handlers, Listeners, Providers \* the threads that may be created

\* The threads are different ones.
ASSUME WorkersAssumption ==
    /\ Handlers \intersect Listeners = {} /\ Handlers \intersect Providers = {}
    /\ Listeners \intersect Providers = {}

Programs == {"daemon", "python"}
Workers == Handlers \union Listeners \union Providers

\* Mutation: the data goes before the connection manager.
MembersDataFirst == <<"message_queue", "acceptor", "ssl_acceptor", "handler_invoker", "connection_traits",
             "ssl_connection_traits", "listener", "data", "connection_manager", "logger", "strand", "io">>

\* The members of server_impl, in the order in which they are destroyed.
Members == <<"message_queue", "acceptor", "ssl_acceptor", "handler_invoker", "connection_traits",
             "ssl_connection_traits", "listener", "connection_manager", "logger", "data", "strand", "io">>

\* The steps of init(), in order.
Steps == <<"data", "ssl_port", "traits", "handlers", "queue", "listeners", "bind", "providers">>

VARIABLES
    program, \* which program it is
    doc,     \* its configuration
    pc,      \* where its main thread is
    exit,    \* its exit code, or "none"
    text, name, \* the value of a module's name, and what it is resolved to
    loaded,  \* the modules whose code is there
    attached,\* whether a threaded response handler and a listener are attached
    step,    \* the step of init() that is next
    failed,  \* the step that could not read its settings, "system" or "none"
    members, \* the members that are set
    worker,  \* of each thread: unborn, idle, busy, posting or ended
    finished,\* what finish() has ended
    jobs     \* what io_service has not run, by what it refers to

mainVars   == <<program, doc, pc, exit, text, name, loaded>>
serverVars == <<attached, step, failed, members, worker, finished, jobs>>
vars == <<mainVars, serverVars>>

\* Mutation: finish() leaves the message queue active.
FinishedButQueue == {"data", "listener", "invoker"}

\* What finish() ends, of what there is.
Finished == {"data", "listener", "queue", "invoker"}

Stopping == "data" \in finished

\* Where a thread sees that it is to end.
QueueOf(w) == IF w \in Handlers THEN "invoker" ELSE IF w \in Listeners THEN "listener" ELSE "queue"

\* The members that the constructor sets.
Constructed == {"listener", "data", "strand", "io"}

Init ==
    /\ program \in Programs /\ doc \in Documents /\ attached \in SUBSET {"threaded handler", "listener"}
    /\ pc = IF program = "daemon" THEN "arguments" ELSE "init"
    /\ exit = "none" /\ text = <<>> /\ name = <<>> /\ loaded = {}
    /\ step = 1 /\ failed = "none"
    /\ members = Constructed
    /\ worker = [w \in Workers |-> "unborn"]
    /\ finished = {} /\ jobs = {}

-----------------------------------------------------------------------------
(* main.cpp, command_line.cpp, dynamic_loader.cpp.                         *)

\* --help ends the parsing; of the others the last one counts.
command_line(argv) ==
    [help   |-> Has("--help", argv),
     config |-> ~Has("--help", argv) /\ Has("--config=", argv),
     dump   |-> ~Has("--help", argv) /\ Has("--dump-variable=", argv)]

Exit(code) == pc' = "exited" /\ exit' = code

\* init and find_variables throw: there is no such file, or it is empty, or one of
\* its variables has no name or no value or is there twice.
BadConfig == Exit("failure")

\* The constructor of xml_settings.
ReadArguments(argv) ==
    /\ pc = "arguments"
    /\ \/ command_line(argv).help /\ Exit("success")
       \/ ~command_line(argv).help /\ ~command_line(argv).config /\ Exit("failure")
       \/ /\ command_line(argv).config
          /\ \/ BadConfig
             \/ command_line(argv).dump /\ Exit("success")
             \/ ~command_line(argv).dump /\ pc' = "modules" /\ exit' = exit
    /\ UNCHANGED <<program, doc, text, name, loaded, serverVars>>

\* xml_enumeration::next, for the next module.
NextModule ==
    /\ pc = "modules"
    /\ \E t \in Texts :
          /\ text' = t /\ name' = substitute(t)
          /\ pc' = IF substitute(t) = Error THEN "destroy" ELSE "load"
    /\ exit' = IF pc' = "destroy" THEN "failure" ELSE exit
    /\ UNCHANGED <<program, doc, loaded, serverVars>>

\* load_module: the module registers its components, or something fails.  A
\* logger it attaches takes the place of the one that init() would make.
load_module ==
    /\ pc = "load"
    /\ \/ name \in Modules /\ loaded' = loaded \union {name} /\ pc' = "modules" /\ exit' = exit
       \/ UNCHANGED loaded /\ pc' = "destroy" /\ exit' = "failure"
    /\ text' = <<>> /\ name' = <<>>
    /\ UNCHANGED <<program, doc, serverVars>>

ModulesLoaded ==
    /\ pc = "modules"
    /\ pc' = "init"
    /\ UNCHANGED <<program, doc, exit, text, name, loaded, serverVars>>

-----------------------------------------------------------------------------
(* server_impl::init().                                                    *)

\* Whether the settings that a step reads can be read.
Readable(s) ==
    \/ program = "python"
    \/ CASE s = "data"      -> timeouts_readable(doc)
         [] s = "ssl_port"  -> ssl_port(doc) # NotNumber
         [] s = "handlers"  -> "threaded handler" \in attached => handler_threads(doc) # NotNumber
         [] s = "listeners" -> "listener" \in attached => listener_threads(doc) # NotNumber
         [] s = "bind"      -> /\ endpoint_readable(doc)
                               /\ ssl_port(doc) \notin {0, NotNumber} => ssl_endpoint_readable(doc)
         [] OTHER -> TRUE

\* Files, certificates, addresses, threads and accept() may fail for reasons of their
\* own; accept() comes when the providers have been started.
MayFail(s) == s \in {"data", "traits", "handlers", "listeners", "bind", "providers"}

Secure == IF program = "python" THEN BOOLEAN ELSE {ssl_port(doc) \notin {0, NotNumber}}

\* The members that a step sets before it can throw, and when it does not.
SetBy(s, secure) ==
    CASE s = "data"   -> {"logger"}
      [] s = "traits" -> {"handler_invoker", "connection_manager", "connection_traits", "acceptor"}
                         \union IF secure THEN {"ssl_acceptor", "ssl_connection_traits"} ELSE {}
      [] s = "queue"  -> {"message_queue"}
      [] OTHER -> {}

\* The threads that a step creates; some of them when it throws.
CreatedBy(s) ==
    CASE s = "handlers"  -> IF "threaded handler" \in attached THEN Handlers ELSE {}
      [] s = "listeners" -> IF "listener" \in attached THEN Listeners ELSE {}
      [] s = "providers" -> Providers
      [] OTHER -> {}

Create(ws) == worker' = [w \in Workers |-> IF w \in ws THEN "idle" ELSE worker[w]]

InitStep ==
    /\ pc = "init" /\ Readable(Steps[step])
    /\ \E secure \in Secure : members' = members \union SetBy(Steps[step], secure)
    /\ Create(CreatedBy(Steps[step]))
    /\ pc' = IF step = Len(Steps) THEN "start" ELSE "init"
    /\ step' = step + 1
    /\ UNCHANGED <<program, doc, exit, text, name, loaded, attached, failed, finished, jobs>>

\* The exception ends start(), and the server is destroyed.
InitFails ==
    /\ pc = "init" /\ (MayFail(Steps[step]) \/ ~Readable(Steps[step]))
    /\ \E secure \in Secure : members' = members \union SetBy(Steps[step], secure)
    /\ \E some \in IF Readable(Steps[step]) THEN SUBSET CreatedBy(Steps[step]) ELSE {{}} : Create(some)
    /\ failed' = IF Readable(Steps[step]) THEN "system" ELSE Steps[step]
    /\ pc' = "destroy" /\ exit' = "failure"
    /\ UNCHANGED <<program, doc, text, name, loaded, attached, step, finished, jobs>>

-----------------------------------------------------------------------------
(* While the server runs: see Server and ConnectionManager.  Here it only  *)
(* matters who works, and what the io_service is left with.                *)

Start ==
    /\ pc = "start"
    /\ pc' = "running"
    /\ UNCHANGED <<program, doc, exit, text, name, loaded, serverVars>>

\* A request or a connection's event is taken by a thread.  A provider looks whether
\* the queue is active before it waits for what it sends; it is there before start().
Take(w) ==
    /\ worker[w] = "idle"
    /\ IF w \in Providers THEN "queue" \notin finished ELSE pc = "running" /\ ~Stopping
    /\ worker' = [worker EXCEPT ![w] = "busy"]
    /\ UNCHANGED <<mainVars, attached, step, failed, members, finished, jobs>>

\* The application's code returns.  A handler thread posts its answer, with the
\* connection; a listener thread whose listener failed asks whether the server is
\* being stopped; a provider's function may be at its end, or throw.
Done(w) ==
    /\ worker[w] = "busy"
    /\ \E state \in {"idle"} \union (IF w \in Providers THEN {"ended"} ELSE {})
                     \union (IF w \in Listeners /\ ~Stopping THEN {"posting"} ELSE {}) :
          worker' = [worker EXCEPT ![w] = state]
    /\ jobs' \in {jobs} \union (IF w \in Handlers THEN {jobs \union {"connection"}} ELSE {})
    /\ UNCHANGED <<mainVars, attached, step, failed, members, finished>>

RunJobs ==
    /\ pc = "running" /\ jobs # {}
    /\ \E j \in jobs : jobs' = jobs \ {j}
    /\ UNCHANGED <<mainVars, attached, step, failed, members, worker, finished>>

\* A thread ends when it finds its queue finished.
Ends(w) ==
    /\ worker[w] = "idle" /\ QueueOf(w) \in finished
    /\ worker' = [worker EXCEPT ![w] = "ended"]
    /\ UNCHANGED <<mainVars, attached, step, failed, members, finished, jobs>>

\* stop() in another thread leaves the manager a job, which start() need not run.
StopServer ==
    /\ pc = "running" /\ ~Stopping
    /\ finished' = Finished /\ jobs' = jobs \union {"manager"}
    /\ UNCHANGED <<mainVars, attached, step, failed, members, worker>>

\* start() returns, after a stop() or a failure, and calls finish().
StartReturns ==
    /\ pc = "running"
    /\ finished' = finished \union Finished
    /\ pc' = "destroy" /\ exit' = "success"
    /\ UNCHANGED <<program, doc, text, name, loaded, attached, step, failed, members, worker, jobs>>

-----------------------------------------------------------------------------
(* ~server_impl.                                                           *)

\* stop(), which calls finish(), and then join_all() for the providers.
Destroy ==
    /\ pc = "destroy"
    /\ finished' = finished \union Finished
    /\ pc' = "join"
    /\ text' = <<>> /\ name' = <<>>
    /\ UNCHANGED <<program, doc, exit, loaded, attached, step, failed, members, worker, jobs>>

AllEnded(ws) == \A w \in ws : worker[w] \in {"unborn", "ended"}

JoinProviders ==
    /\ pc = "join" /\ AllEnded(Providers)
    /\ pc' = "members"
    /\ UNCHANGED <<program, doc, exit, text, name, loaded, serverVars>>

\* Whether somebody refers to the invoker, the manager and the listener, given
\* the members that are left.
Invoker(ms) == {"handler_invoker", "connection_traits", "ssl_connection_traits"} \intersect ms # {}
Manager(ms) ==
    \/ {"connection_manager", "connection_traits", "ssl_connection_traits", "message_queue"}
          \intersect ms # {}
    \/ "manager" \in jobs /\ "io" \in ms
Listener(ms) == "listener" \in ms \/ Manager(ms)

\* notify_connection_opened_failed: the listener thread, which found the server
\* running, dispatches a job with a reference to the manager, and goes on with its
\* batch.  Nothing keeps the manager until then.
Post(l) ==
    /\ worker[l] = "posting"
    /\ jobs' = jobs \union {IF Manager(members) THEN "manager" ELSE "dangling"}
    /\ \E state \in {"idle", "busy"} : worker' = [worker EXCEPT ![l] = state]
    /\ UNCHANGED <<mainVars, attached, step, failed, members, finished>>

\* The next member goes.  When it was the last to refer to the invoker or to the
\* listener, that one is destroyed, and its destructor waits for its threads.
DestroyMember ==
    /\ pc = "members" /\ members # {}
    /\ LET m    == Members[CHOOSE i \in 1..Len(Members) :
                             Members[i] \in members /\ \A j \in 1..(i - 1) : Members[j] \notin members]
           left == members \ {m}
       IN /\ members' = left
          /\ pc' = IF Invoker(members) /\ ~Invoker(left) THEN "join_handlers"
                   ELSE IF Listener(members) /\ ~Listener(left) THEN "join_listeners"
                   ELSE "members"
    /\ UNCHANGED <<program, doc, exit, text, name, loaded, attached, step, failed, worker, finished, jobs>>

JoinThreads ==
    /\ \/ pc = "join_handlers" /\ AllEnded(Handlers)
       \/ pc = "join_listeners" /\ AllEnded(Listeners)
    /\ pc' = "members"
    /\ UNCHANGED <<program, doc, exit, text, name, loaded, serverVars>>

\* ~dynamic_loader.
Unload ==
    /\ pc = "members" /\ members = {}
    /\ loaded' = {}
    /\ pc' = "exited"
    /\ UNCHANGED <<program, doc, exit, text, name, serverVars>>

-----------------------------------------------------------------------------

MainSteps == Destroy \/ JoinProviders \/ DestroyMember \/ JoinThreads \/ Unload

Next ==
    \/ \E argv \in Arguments : ReadArguments(argv)
    \/ NextModule \/ load_module \/ ModulesLoaded \/ InitStep \/ InitFails
    \/ Start \/ RunJobs \/ StopServer \/ StartReturns
    \/ \E w \in Workers : Take(w) \/ Done(w) \/ Post(w) \/ Ends(w)
    \/ MainSteps

Spec == Init /\ [][Next]_vars

\* The destructors go on, and so do the threads with what is the server's own code.
\* Nothing is assumed of the application's: Done(w) may never happen.
Fairness == WF_vars(MainSteps) /\ \A w \in Workers : WF_vars(Post(w) \/ Ends(w))

FairSpec == Spec /\ Fairness

-----------------------------------------------------------------------------
(* Properties.                                                             *)

\* A value whose braces match is resolved to what it means.  substitute() reads from
\* the first "${" to the last "}", which is right when variables are nested in each
\* other, however they are; of variables that stand side by side it makes one name,
\* in which a "}" may come before a "${" and lengths wrap, and there it may refuse
\* the value, but it never takes another name for it: neither then, nor when the
\* text that a variable stands for has tokens of its own, which stay as they are.
ResolvedRight == pc = "load" \/ (pc = "destroy" /\ text # <<>>) =>
                    (Balanced(text) => \/ name = Expanded(text)
                                       \/ name = Error /\ ~Nested(text))

\* A thread still finds what it uses, however far init() came and while the server
\* is destroyed: a handler thread the strand and the logger, a listener thread the
\* connection data and the strand, a provider the message queue and the logger.  The
\* exception is a job of the connection manager that was never run: it keeps the
\* manager, and with it the listener, beyond the data and the strand.
ThreadsEndFirst ==
    /\ \A h \in Handlers : worker[h] = "busy" => {"strand", "logger"} \subseteq members
    /\ \A l \in Listeners : worker[l] \in {"busy", "posting"} =>
                               {"data", "strand"} \subseteq members \/ "manager" \in jobs
    /\ \A p \in Providers : worker[p] \in {"idle", "busy"} => {"message_queue", "logger"} \subseteq members

\* Once the server is to be destroyed, its destructor returns, and the program ends
\* with all its threads, if what the application was called for returns: the handler,
\* the listener, and the provider, which may be blocked where it does not see that
\* the queue is finished, as stdin_reader is in getline.
ProgramEnds ==
    (\A w \in Workers : []<>(worker[w] # "busy")) =>
        ((pc = "destroy") ~> (pc = "exited" /\ AllEnded(Workers)))

\* init() does not fail for the number of handler threads when the configuration
\* has one.
HandlerThreadsAreRead ==
    failed = "handlers" /\ program = "daemon" => as(doc, "handler-threads", unsigned_short) = NotNumber
=============================================================================
