----------------------------- MODULE Interpreter -----------------------------
(***************************************************************************)
(* The python binding: the threads of a python_server around the global    *)
(* lock of the Python interpreter (the GIL) and the thread state that they *)
(* share (interpreter_lock.cpp), the list of objects to be destroyed       *)
(* (cleanup_list.cpp), the log (python_logger.cpp) and stop()              *)
(* (python_server.cpp).                                                    *)
(*                                                                         *)
(* The "starter" is a Python thread in init() and then in start(), where   *)
(* it runs the io_service.  It gives its thread state to everybody who     *)
(* calls into Python: itself, the Handlers and Listeners, the cleanup      *)
(* thread and the logger's thread.  The "stopper" is another Python        *)
(* thread, with a state of its own, that calls stop() and drops the        *)
(* server.  Python may pass the GIL on in the middle of a callback.        *)
(***************************************************************************)
EXTENDS Integers, FiniteSets

CONSTANTS
    Handlers,  \* threads of the handler invoker
    Listeners, \* threads of the threaded listener
    Formatters,\* Python objects that are handed to cleanup_list
    MaxCalls,  \* calls into Python that a thread makes at most
    MaxLines   \* lines that are logged at most

Workers == Handlers \union Listeners

\* Every thread has its own name, and none has the name for nobody.
ASSUME WorkersAssumption == Workers \intersect {"starter", "stopper", "cleanup", "logger", "free"} = {}

Threads == Workers \union {"starter", "stopper", "cleanup", "logger"}

\* What the server calls in Python, by the thread that calls it.
python_settings == {"get", "value", "value_list"}
python_ping_formatter == {"message", "message_for_single"}
python_formatter == {"wrap_message"}
python_formatter_creator == {"create"}
python_message_filter == {"allow_message"}
python_listener == {"connection_opened", "connection_closed", "disconnected"}
python_handler == {"receiver", "handle_response"}
has_enough_data == {"has_enough_data"}

VARIABLES
    gil,      \* who holds the GIL, or "free"
    mutex,    \* who holds interpreter_lock_impl::mutex_, or "free"
    state,    \* thread_state_ is not NULL
    count,    \* thread_lock_count_
    asleep,   \* who waits on condition_
    pc,       \* where each thread is
    phase,    \* the starter is in "init" or in "start"
    impl,     \* python_server::impl_ is set
    io,       \* server_impl::start(): "idle", "running", "over"; "gone" once destroyed
    finishing,\* server_impl::finish() was called
    manager,  \* connection_manager::finish() was called
    halted,   \* io_service::stop() was called
    creating, \* the io thread is in formatter_creator::create
    refs,     \* who refers to each object: a formatter, a thread or a list
    fate,     \* of each object: "none", "alive", or how it was destroyed
    stopped,  \* cleanup_list::stopped_
    lines,    \* items in the logger's queue
    ended,    \* the logger's queue is finished
    calls     \* calls each thread has made

lockVars    == <<gil, mutex, state, count, asleep>>
serverVars  == <<phase, impl, io, finishing, manager, halted>>
cleanupVars == <<creating, refs, fate, stopped>>
logVars     == <<lines, ended>>
vars == <<lockVars, pc, serverVars, cleanupVars, logVars, calls>>

Init ==
    /\ gil = "free" /\ mutex = "free" /\ state = FALSE /\ count = -1 /\ asleep = {}
    /\ pc = [t \in Threads |-> IF t \in {"cleanup", "logger"} THEN "unborn"
                               ELSE IF t \in Workers THEN "out" ELSE "idle"]
    /\ phase = "init" /\ impl = TRUE /\ io = "idle"
    /\ finishing = FALSE /\ manager = FALSE /\ halted = FALSE
    /\ creating = FALSE
    /\ refs = [o \in Formatters |-> {}]
    /\ fate = [o \in Formatters |-> "none"]
    /\ stopped = FALSE
    /\ lines = 0 /\ ended = FALSE
    /\ calls = [t \in Threads |-> 0]

Goto(t, label) == pc' = [pc EXCEPT ![t] = label]

CallsOf(t) ==
    CASE t \in Handlers  -> python_handler
      [] t \in Listeners -> python_listener
      [] t = "starter" /\ phase = "init" -> python_settings \union python_ping_formatter
      [] OTHER -> has_enough_data \union python_formatter \union python_formatter_creator
                  \union python_message_filter

-----------------------------------------------------------------------------
(* interpreter_lock.cpp.                                                   *)

\* A Python thread gets its turn, and gives it up, outside of the server.
EnterPython(t) ==
    /\ pc[t] = "idle" /\ gil = "free"
    /\ t = "stopper" => phase = "start"
    /\ gil' = t
    /\ Goto(t, "python")
    /\ UNCHANGED <<mutex, state, count, asleep, serverVars, cleanupVars, logVars, calls>>

\* lock_thread: the Python thread leaves the interpreter to the server's threads.
lock_thread(t, label) ==
    /\ mutex = "free"
    /\ state' = TRUE /\ count' = 0 /\ asleep' = {}
    /\ gil' = "free"
    /\ Goto(t, label)
    /\ UNCHANGED mutex

\* Mutation: unlock_thread does not wait for who is inside.
UnlockThreadAtOnce(t) ==
    /\ pc[t] = "unlock_thread" /\ mutex = "free"
    /\ mutex' = t
    /\ Goto(t, "retake")
    /\ UNCHANGED <<gil, state, count, asleep, serverVars, cleanupVars, logVars, calls>>

\* unlock_thread, up to the GIL, and the rest of it.
unlock_thread(t) ==
    /\ pc[t] = "unlock_thread" /\ mutex = "free" /\ t \notin asleep
    /\ IF count > 0
       THEN asleep' = asleep \union {t} /\ UNCHANGED <<mutex, pc>>
       ELSE mutex' = t /\ Goto(t, "retake") /\ UNCHANGED asleep
    /\ UNCHANGED <<gil, state, count, serverVars, cleanupVars, logVars, calls>>

\* Mutation: thread_state_ is left as it is.
RetakeKeepsState(t) ==
    /\ pc[t] = "retake" /\ gil = "free"
    /\ gil' = t /\ mutex' = "free" /\ count' = 0 /\ asleep' = {}
    /\ Goto(t, "back")
    /\ UNCHANGED <<state, serverVars, cleanupVars, logVars, calls>>

RetakeThread(t) ==
    /\ pc[t] = "retake" /\ gil = "free"
    /\ gil' = t /\ mutex' = "free"
    /\ count' = -1 /\ state' = FALSE /\ asleep' = {}
    /\ Goto(t, "back")
    /\ UNCHANGED <<serverVars, cleanupVars, logVars, calls>>

\* Mutation: lock() does not wait for its turn.
LockAtOnce(t) ==
    /\ pc[t] = "lock" /\ mutex = "free"
    /\ IF state
       THEN mutex' = t /\ Goto(t, "take")
       ELSE Goto(t, IF t \in {"cleanup", "logger"} THEN "ended" ELSE "out") /\ UNCHANGED mutex
    /\ UNCHANGED <<gil, state, count, asleep, serverVars, cleanupVars, logVars, calls>>

\* lock, up to the GIL.  When it fails, interpreter_lock throws and the call is
\* given up, and the threads with an interpreter_try_lock end.
lock(t) ==
    /\ pc[t] = "lock" /\ mutex = "free" /\ t \notin asleep
    /\ IF state /\ count # 0
       THEN asleep' = asleep \union {t} /\ UNCHANGED <<mutex, pc>>
       ELSE /\ IF state
               THEN mutex' = t /\ Goto(t, "take")
               ELSE /\ Goto(t, IF t \in {"cleanup", "logger"} THEN "ended" ELSE "out")
                    /\ UNCHANGED mutex
            /\ UNCHANGED asleep
    /\ UNCHANGED <<gil, state, count, serverVars, cleanupVars, logVars, calls>>

\* The rest of lock.
RestoreThread(t) ==
    /\ pc[t] = "take" /\ gil = "free"
    /\ gil' = t /\ mutex' = "free" /\ count' = count + 1
    /\ Goto(t, "inside")
    /\ UNCHANGED <<state, asleep, serverVars, cleanupVars, logVars, calls>>

\* Python passes the GIL on while the callback runs, and the callback goes on
\* when it has the GIL again: one such time stands for all of a callback.
Switch(t) ==
    /\ pc[t] = "inside"
    /\ gil' = "free"
    /\ Goto(t, "away")
    /\ UNCHANGED <<mutex, state, count, asleep, serverVars, cleanupVars, logVars, calls>>

\* The rest of a callback, from which t goes to unlock().
Work(t) ==
    /\ pc[t] = "inside" \/ (pc[t] = "away" /\ gil = "free")
    /\ gil' = t
    /\ Goto(t, "unlock")
    /\ UNCHANGED <<mutex, state, count, asleep>>

unlock(t) ==
    /\ pc[t] = "unlock" /\ mutex = "free"
    /\ gil' = "free" /\ count' = count - 1
    /\ asleep' = IF count = 1 THEN {} ELSE asleep
    /\ Goto(t, IF t = "logger" /\ ended THEN "ended" ELSE "out")
    /\ UNCHANGED <<mutex, state, serverVars, cleanupVars, logVars, calls>>

-----------------------------------------------------------------------------
(* The calls into Python.                                                  *)

\* Requests, messages and closings come only when the io_service runs, and what
\* was queued for the workers when it ended is still worked on.
MayCall(t) ==
    IF t = "starter" THEN phase = "init" \/ ~halted ELSE io \in {"running", "over"}

Call(t) ==
    /\ t \in Workers \union {"starter"} /\ pc[t] = "out"
    /\ MayCall(t) /\ calls[t] < MaxCalls
    /\ calls' = [calls EXCEPT ![t] = @ + 1]
    /\ \E c \in CallsOf(t) : creating' = IF t = "starter" THEN c = "create" ELSE creating
    /\ Goto(t, "lock")
    /\ UNCHANGED <<lockVars, serverVars, refs, fate, stopped, logVars>>

\* The callback returns or raises; create returns a formatter when it does not
\* raise.
Return(t) ==
    /\ t \in Workers \union {"starter"} /\ Work(t)
    /\ \/ UNCHANGED <<refs, fate>>
       \/ /\ t = "starter" /\ creating
          /\ \E o \in Formatters :
                /\ fate[o] = "none"
                /\ refs' = [refs EXCEPT ![o] = {"formatter"}]
                /\ fate' = [fate EXCEPT ![o] = "alive"]
    /\ UNCHANGED <<serverVars, creating, stopped, logVars, calls>>

-----------------------------------------------------------------------------
(* cleanup_list.cpp.                                                       *)

\* Objects lose a reference: the last one destroys the object, in this manner.
DropRefs(objects, holder, manner) ==
    /\ refs' = [o \in Formatters |-> IF o \in objects THEN refs[o] \ {holder} ELSE refs[o]]
    /\ fate' = [o \in Formatters |-> IF o \in objects /\ refs[o] = {holder}
                                     THEN manner ELSE fate[o]]

Held(holder) == {o \in Formatters : holder \in refs[o]}

\* push_ref, called by a formatter's destructor: the object is in the list and
\* the local pointer refers to it as well, until the function returns.
push_ref(t, o) ==
    /\ t \in Workers \union {"starter"} /\ pc[t] = "out" /\ "formatter" \in refs[o]
    /\ refs' = [refs EXCEPT ![o] = {t, "input"}]
    /\ Goto(t, "pushed")
    /\ UNCHANGED <<lockVars, serverVars, creating, fate, stopped, logVars, calls>>

PushReturns(t) ==
    /\ pc[t] = "pushed"
    /\ DropRefs(Held(t), t, "outside")
    /\ Goto(t, "out")
    /\ UNCHANGED <<lockVars, serverVars, creating, stopped, logVars, calls>>

\* acquire_destroy_list, at the top of the loop of thread_func.
acquire_destroy_list ==
    /\ pc["cleanup"] = "out" /\ (stopped \/ Held("input") # {})
    /\ IF stopped
       THEN Goto("cleanup", "ended") /\ UNCHANGED refs
       ELSE /\ Goto("cleanup", "lock")
            /\ refs' = [o \in Formatters |-> IF o \in Held("input")
                                             THEN (refs[o] \ {"input"}) \union {"to_destroy"}
                                             ELSE refs[o]]
    /\ UNCHANGED <<lockVars, serverVars, creating, fate, stopped, logVars, calls>>

\* The rest of thread_func: the list is destroyed before the lock is given back.
\* A list that stays behind is destroyed with the cleanup_list.
DestroyList ==
    /\ Work("cleanup")
    /\ IF stopped
       THEN UNCHANGED <<refs, fate>>
       ELSE DropRefs(Held("to_destroy"), "to_destroy", "under the gil")
    /\ UNCHANGED <<serverVars, creating, stopped, logVars, calls>>

-----------------------------------------------------------------------------
(* python_logger.cpp.                                                      *)

\* invoke, by a thread of the server that is outside of Python.
invoke(t) ==
    /\ t \in Workers \union {"starter"} /\ pc[t] = "out" /\ io # "gone"
    /\ ~ended /\ lines < MaxLines
    /\ lines' = lines + 1
    /\ UNCHANGED <<lockVars, pc, serverVars, cleanupVars, ended, calls>>

\* thread_func: pop_all, which fails once the queue is finished.  When lock()
\* fails the lines are lost and the thread ends, but the queue stays open.
pop_all ==
    /\ pc["logger"] = "out" /\ (ended \/ lines > 0)
    /\ IF ended
       THEN Goto("logger", "ended") /\ UNCHANGED lines
       ELSE Goto("logger", "lock") /\ lines' = 0
    /\ UNCHANGED <<lockVars, serverVars, cleanupVars, ended, calls>>

\* process_items: an exception finishes the queue, and the thread ends.
process_items ==
    /\ Work("logger")
    /\ ended' \in {ended, TRUE}
    /\ UNCHANGED <<serverVars, cleanupVars, lines, calls>>

-----------------------------------------------------------------------------
(* python_server::init() and start().                                      *)

\* check_server, and the interpreter_thread_lock.
EnterServer ==
    /\ pc["starter"] = "python"
    /\ IF impl
       THEN lock_thread("starter", IF phase = "init" THEN "out" ELSE "entered")
       ELSE /\ gil' = "free" /\ Goto("starter", "returned")
            /\ UNCHANGED <<mutex, state, count, asleep>>
    /\ UNCHANGED <<serverVars, cleanupVars, logVars, calls>>

\* impl_ is read again after the GIL was given up.
StartImpl ==
    /\ pc["starter"] = "entered"
    /\ pc' = [pc EXCEPT !["cleanup"] = "out", !["logger"] = "out",
                        !["starter"] = IF impl THEN "out" ELSE "crashed"]
    /\ io' = IF impl THEN "running" ELSE io
    /\ UNCHANGED <<lockVars, phase, impl, finishing, manager, halted, cleanupVars, logVars, calls>>

\* connection_manager::finish(), which stop() dispatches to the io_service.
FinishManager ==
    /\ pc["starter"] = "out" /\ io = "running" /\ finishing /\ ~manager
    /\ manager' = TRUE
    /\ UNCHANGED <<lockVars, pc, phase, impl, io, finishing, halted, cleanupVars, logVars, calls>>

\* server_impl::init(), or server_impl::start() with the end of cleanup_auto,
\* returns.  A failure that ends the io_service is in scope too.
LeaveServer ==
    /\ pc["starter"] = "out"
    /\ IF phase = "init"
       THEN UNCHANGED <<io, finishing, manager, stopped>>
       ELSE io' = "over" /\ finishing' = TRUE /\ manager' = TRUE /\ stopped' = TRUE
    /\ Goto("starter", "unlock_thread")
    /\ UNCHANGED <<lockVars, phase, impl, halted, creating, refs, fate, logVars, calls>>

\* Back in Python: after init() the application calls start(), at some time.
ReturnToPython ==
    /\ pc["starter"] = "back"
    /\ gil' = "free"
    /\ Goto("starter", IF phase = "init" THEN "idle" ELSE "returned")
    /\ phase' = "start"
    /\ calls' = [calls EXCEPT !["starter"] = IF phase = "init" THEN 0 ELSE @]
    /\ UNCHANGED <<mutex, state, count, asleep, impl, io, finishing, manager, halted, cleanupVars,
                   logVars>>

-----------------------------------------------------------------------------
(* python_server::stop() and the destructor.                               *)

\* impl_ moves to a local pointer, and the GIL is given up.
Stop ==
    /\ pc["stopper"] = "python"
    /\ impl' = FALSE
    /\ gil' = "free"
    /\ Goto("stopper", "stopping")
    /\ UNCHANGED <<mutex, state, count, asleep, phase, io, finishing, manager, halted, cleanupVars,
                   logVars, calls>>

Finish ==
    /\ pc["stopper"] = "stopping"
    /\ finishing' = TRUE
    /\ Goto("stopper", "finishing")
    /\ UNCHANGED <<lockVars, phase, impl, io, manager, halted, cleanupVars, logVars, calls>>

\* server_impl::stop() waits for the manager when the server runs, and stops the
\* io_service.
StopIo ==
    /\ pc["stopper"] = "finishing" /\ (io = "running" => manager)
    /\ halted' = TRUE
    /\ Goto("stopper", "stopped")
    /\ UNCHANGED <<lockVars, phase, impl, io, finishing, manager, cleanupVars, logVars, calls>>

\* The end of the interpreter_unlock: the rest of stop() holds the GIL.
RelockPython ==
    /\ pc["stopper"] = "stopped" /\ gil = "free"
    /\ gil' = "stopper"
    /\ Goto("stopper", "destroying")
    /\ UNCHANGED <<mutex, state, count, asleep, serverVars, cleanupVars, logVars, calls>>

\* The local pointer goes: ~server_impl waits for start(), and the destructors of
\* the invoker and the listener join their threads.  The formatters that are left
\* are handed over by this thread.
Destroy ==
    /\ pc["stopper"] = "destroying"
    /\ io # "running" /\ \A w \in Workers : pc[w] = "ended"
    /\ io' = "gone"
    /\ refs' = [o \in Formatters |-> IF o \in Held("formatter") THEN {"input"} ELSE refs[o]]
    /\ gil' = "free"
    /\ Goto("stopper", "returned")
    /\ UNCHANGED <<mutex, state, count, asleep, phase, impl, finishing, manager, halted, creating,
                   fate, stopped, logVars, calls>>

\* ~python_server, in a Python thread, once start() and stop() have returned: it
\* ends the logger and then the cleanup thread.
Delete ==
    /\ pc["stopper"] = "returned" /\ pc["starter"] \in {"returned", "idle"} /\ gil = "free"
    /\ gil' = "stopper"
    /\ ended' = TRUE /\ stopped' = TRUE
    /\ pc' = [pc EXCEPT !["stopper"] = "deleting",
                        !["starter"] = "returned"]
    /\ UNCHANGED <<mutex, state, count, asleep, serverVars, creating, refs, fate, lines, calls>>

JoinThreads ==
    /\ pc["stopper"] = "deleting"
    /\ pc["cleanup"] \in {"unborn", "ended"} /\ pc["logger"] \in {"unborn", "ended"}
    /\ refs' = [o \in Formatters |-> refs[o] \ {"input", "to_destroy"}]
    /\ fate' = [o \in Formatters |-> IF refs[o] # {} THEN "under the gil" ELSE fate[o]]
    /\ gil' = "free"
    /\ Goto("stopper", "gone")
    /\ UNCHANGED <<mutex, state, count, asleep, serverVars, creating, stopped, logVars, calls>>

\* A worker returns when its queue is finished, whatever is left in it.
WorkerEnds(w) ==
    /\ pc[w] = "out" /\ finishing
    /\ Goto(w, "ended")
    /\ UNCHANGED <<lockVars, serverVars, cleanupVars, logVars, calls>>

-----------------------------------------------------------------------------

LockSteps(t) ==
    lock(t) \/ RestoreThread(t) \/ Return(t) \/ unlock(t) \/ PushReturns(t)
StarterSteps ==
    \/ EnterServer \/ StartImpl \/ FinishManager \/ unlock_thread("starter")
    \/ RetakeThread("starter") \/ ReturnToPython
StopperSteps == Stop \/ Finish \/ StopIo \/ RelockPython \/ Destroy \/ JoinThreads
CleanupSteps == acquire_destroy_list \/ DestroyList
LoggerSteps  == pop_all \/ process_items

Next ==
    \/ \E t \in {"starter", "stopper"} : EnterPython(t)
    \/ \E t \in Threads : LockSteps(t) \/ Switch(t) \/ Call(t) \/ invoke(t)
    \/ \E t \in Threads, o \in Formatters : push_ref(t, o)
    \/ \E w \in Workers : WorkerEnds(w)
    \/ StarterSteps \/ LeaveServer \/ StopperSteps \/ Delete \/ CleanupSteps \/ LoggerSteps

Spec == Init /\ [][Next]_vars

\* Callbacks return, and who asks again and again for the GIL or the mutex gets
\* it: Python passes the GIL on, and unlock() wakes everybody.  The io_service
\* ends when it is stopped.  Nothing is assumed of when the application calls
\* start() and stop().
Fairness ==
    /\ \A w \in Workers : SF_vars(LockSteps(w) \/ WorkerEnds(w))
    /\ SF_vars(LockSteps("starter") \/ StarterSteps \/ (halted /\ LeaveServer))
    /\ SF_vars(StopperSteps)
    /\ SF_vars(LockSteps("cleanup") \/ CleanupSteps)
    /\ SF_vars(LockSteps("logger") \/ LoggerSteps)

FairSpec == Spec /\ Fairness

-----------------------------------------------------------------------------
(* Properties.                                                             *)

\* Inside: who runs Python with the shared thread state.
Inside == {t \in Threads : pc[t] \in {"inside", "away", "unlock"}}

\* The shared thread state is used by one thread at a time, also while Python has
\* passed the GIL on in the middle of a callback; nobody is inside when the
\* starter has taken its state back, and the asserts of lock_thread,
\* unlock_thread and unlock hold.
OneAtATime ==
    /\ Cardinality(Inside) <= 1 /\ (Inside # {} => state /\ count = 1)
    /\ pc["starter"] = "python" => ~state /\ count < 0
    /\ pc["starter"] = "retake" => state

\* Where stop() holds the GIL and joins a thread that needs it.
Stuck ==
    /\ pc["stopper"] = "destroying"
    /\ \E t \in Workers \union {"starter"} : pc[t] \in {"lock", "take", "away"}

\* Once stop() is called, it and start() return, except when stop() stays stuck
\* in the one way that PythonStopReturns is about, and when impl_ was reset under
\* start()'s hands: the GIL and the mutex of the interpreter lock, taken in both
\* orders, do not block each other.
OnlyStopGetsStuck ==
    (pc["stopper"] = "stopping") ~>
        (\/ pc["stopper"] \in {"returned", "deleting", "gone"} /\ pc["starter"] \in {"idle", "returned"}
         \/ []Stuck \/ pc["starter"] = "crashed")

\* ~python_server joins the logger's and the cleanup thread under the GIL: it
\* returns, because neither is let in once start() has returned.  Then no object
\* is left.
PythonDestructorReturns ==
    (pc["stopper"] = "deleting") ~> (pc["stopper"] = "gone" /\ \A o \in Formatters : fate[o] # "alive")

\* stop() returns.
PythonStopReturns == (pc["stopper"] = "stopping") ~> (pc["stopper"] \in {"returned", "deleting", "gone"})

\* A Python object is destroyed only by a thread that holds the GIL.
DestroyedInside == \A o \in Formatters : fate[o] # "outside"
=============================================================================
