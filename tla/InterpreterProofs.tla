------------------------- MODULE InterpreterProofs -------------------------
(***************************************************************************)
(* Proofs about Interpreter, for any workers, objects and bounds.          *)
(*                                                                         *)
(* The mutex is held across the wait for the GIL, so what lock() and       *)
(* unlock_thread() have found out (Waiting) still holds when they have it; *)
(* the counter is exact (Counted), and the starter's place tells whether   *)
(* the shared state is there (Shared).  The logger's and the cleanup       *)
(* thread are born once (Born): start() never resets a thread that is      *)
(* inside.                                                                 *)
(***************************************************************************)
EXTENDS Interpreter, FiniteSetTheorems, TLAPS

\* Where a thread may be.
Place ==
    {"unborn", "out", "idle", "python", "lock", "take", "inside", "away", "unlock", "pushed",
     "entered", "crashed", "unlock_thread", "retake", "back", "returned", "stopping", "finishing",
     "stopped", "destroying", "deleting", "gone", "ended"}

InPython == {"inside", "away", "unlock"}

\* The state is shared from lock_thread to the end of unlock_thread.
Shared ==
    /\ state \in BOOLEAN
    /\ state <=> pc["starter"] \notin {"idle", "python", "back", "returned"}

\* thread_lock_count_ is -1 without the state, else the number of users.
Counted ==
    /\ count \in {-1, 0, 1}
    /\ state <=> count # -1
    /\ \A t \in Threads : pc[t] \in InPython => count = 1
    /\ \A t, u \in Threads : pc[t] \in InPython /\ pc[u] \in InPython => t = u

\* Who waits for the GIL in lock() or unlock_thread() has the mutex, and nobody
\* is inside.
Waiting == \A t \in Threads : pc[t] \in {"take", "retake"} => mutex = t /\ count = 0

\* Who may be where.
AtHome ==
    \A t \in Threads :
        /\ pc[t] \in {"idle", "python"} => t \in {"starter", "stopper"}
        /\ pc[t] \in {"entered", "crashed", "unlock_thread", "retake", "back"} => t = "starter"

\* The logger's and the cleanup thread are born when start() goes on.
Born ==
    /\ phase \in {"init", "start"}
    /\ pc["starter"] = "entered" => phase = "start"
    /\ \A t \in {"cleanup", "logger"} :
           pc[t] = "unborn" \/ (phase = "start" /\ pc["starter"] \notin {"idle", "python", "entered"})

Inv == pc \in [Threads -> Place] /\ Shared /\ Counted /\ Waiting /\ AtHome /\ Born

\* The named threads are threads, and "free" is none.
LEMMA Names ==
    /\ {"starter", "stopper", "cleanup", "logger"} \subseteq Threads
    /\ "free" \notin Threads
    /\ \A t \in Workers : t \notin {"starter", "stopper", "cleanup", "logger"}
  BY WorkersAssumption DEF Threads

\* Nobody is inside before start().
LEMMA InitInv == Init => Inv
  <1>. SUFFICES ASSUME Init PROVE Inv
    OBVIOUS
  <1>1. pc = [t \in Threads |-> IF t \in {"cleanup", "logger"} THEN "unborn"
                                ELSE IF t \in Workers THEN "out" ELSE "idle"]
    BY DEF Init
  <1>2. \A t \in Threads : pc[t] \in {"unborn", "out", "idle"}
    BY <1>1
  <1>3. /\ pc["starter"] = "idle" /\ pc["cleanup"] = "unborn" /\ pc["logger"] = "unborn"
        /\ \A t \in Threads : pc[t] = "idle" => t \in {"starter", "stopper"}
    BY <1>1, Names DEF Threads
  <1>4. pc \in [Threads -> Place]
    BY <1>1, <1>2 DEF Place
  <1>5. Shared /\ Born
    BY <1>3 DEF Init, Shared, Born
  <1>6. Counted /\ Waiting /\ AtHome
    BY <1>2, <1>3 DEF Init, Counted, Waiting, AtHome, InPython
  <1>. QED
    BY <1>4, <1>5, <1>6 DEF Inv

\* The steps of the interpreter lock.
LEMMA LockKeeps ==
    ASSUME Inv, NEW t \in Threads,
           lock(t) \/ RestoreThread(t) \/ Return(t) \/ unlock(t) \/ Switch(t)
    PROVE  Inv'
  <1>. USE Names DEF Inv, Shared, Counted, Waiting, AtHome, Born, Place, InPython, Goto, serverVars
  <1>1. CASE lock(t)
    BY <1>1 DEF lock
  <1>2. CASE RestoreThread(t)
    BY <1>2 DEF RestoreThread
  <1>3. CASE Return(t)
    BY <1>3 DEF Return, Work
  <1>4. CASE unlock(t)
    BY <1>4 DEF unlock
  <1>5. CASE Switch(t)
    BY <1>5 DEF Switch
  <1>. QED
    BY <1>1, <1>2, <1>3, <1>4, <1>5

\* The calls into Python, cleanup_list and the logger.
LEMMA CallsKeep ==
    ASSUME Inv, NEW t \in Threads, NEW o,
           \/ Call(t) \/ invoke(t) \/ push_ref(t, o) \/ PushReturns(t)
           \/ t \in Workers /\ WorkerEnds(t)
    PROVE  Inv'
  <1>. USE Names DEF Inv, Shared, Counted, Waiting, AtHome, Born, Place, InPython, Goto,
                     lockVars, serverVars
  <1>1. CASE Call(t)
    BY <1>1 DEF Call
  <1>2. CASE invoke(t)
    BY <1>2 DEF invoke
  <1>3. CASE push_ref(t, o)
    BY <1>3 DEF push_ref
  <1>4. CASE PushReturns(t)
    BY <1>4 DEF PushReturns
  <1>5. CASE t \in Workers /\ WorkerEnds(t)
    BY <1>5 DEF WorkerEnds
  <1>. QED
    BY <1>1, <1>2, <1>3, <1>4, <1>5

\* The logger's and the cleanup thread.
LEMMA ThreadsKeep ==
    ASSUME Inv, acquire_destroy_list \/ DestroyList \/ pop_all \/ process_items
    PROVE  Inv'
  <1>. USE Names DEF Inv, Shared, Counted, Waiting, AtHome, Born, Place, InPython, Goto, Work,
                     lockVars, serverVars
  <1>1. CASE acquire_destroy_list
    BY <1>1 DEF acquire_destroy_list
  <1>2. CASE DestroyList
    BY <1>2, ZenonT(60) DEF DestroyList
  <1>3. CASE pop_all
    BY <1>3 DEF pop_all
  <1>4. CASE process_items
    BY <1>4 DEF process_items
  <1>. QED
    BY <1>1, <1>2, <1>3, <1>4

\* init() and start(): the state is given away when nobody can be inside, and
\* taken back when nobody is.
LEMMA StarterKeeps ==
    ASSUME Inv, StarterSteps \/ LeaveServer
    PROVE  Inv'
  <1>. USE Names DEF Inv, Shared, Counted, Waiting, AtHome, Born, Place, InPython, Goto,
                     lockVars, serverVars
  <1>1. CASE EnterServer
    <2>1. CASE impl
      <3>1. /\ state' = TRUE /\ count' = 0 /\ mutex = "free" /\ pc["starter"] = "python"
            /\ UNCHANGED phase
        BY <1>1, <2>1 DEF EnterServer, lock_thread
      <3>2. pc' = [pc EXCEPT !["starter"] = IF phase = "init" THEN "out" ELSE "entered"]
        BY <1>1, <2>1 DEF EnterServer, lock_thread
      <3>3. \A t \in Threads : pc[t] \notin InPython \union {"take", "retake"}
        BY <3>1
      <3>4. /\ pc'["starter"] \in {"out", "entered"} /\ pc' \in [Threads -> Place]
            /\ \A t \in Threads : t # "starter" => pc'[t] = pc[t]
        BY <3>2
      <3>5. Counted' /\ Waiting' /\ Shared'
        BY <3>1, <3>3, <3>4
      <3>6. AtHome' /\ Born'
        BY <3>1, <3>2, <3>4
      <3>. QED
        BY <3>4, <3>5, <3>6
    <2>2. CASE ~impl
      BY <1>1, <2>2 DEF EnterServer
    <2>. QED
      BY <2>1, <2>2
  <1>2. CASE StartImpl
    BY <1>2 DEF StartImpl
  <1>3. CASE FinishManager
    BY <1>3 DEF FinishManager
  <1>4. CASE unlock_thread("starter")
    <2>1. CASE count > 0
      BY <1>4, <2>1 DEF unlock_thread
    <2>2. CASE ~(count > 0)
      <3>1. mutex = "free" /\ mutex' = "starter" /\ pc' = [pc EXCEPT !["starter"] = "retake"]
        BY <1>4, <2>2 DEF unlock_thread
      <3>2. count = 0 /\ UNCHANGED <<count, state, phase>> /\ pc["starter"] = "unlock_thread"
        BY <1>4, <2>2 DEF unlock_thread
      <3>. QED
        BY <3>1, <3>2
    <2>. QED
      BY <2>1, <2>2
  <1>5. CASE RetakeThread("starter")
    <2>1. /\ pc["starter"] = "retake" /\ pc' = [pc EXCEPT !["starter"] = "back"]
          /\ state' = FALSE /\ count' = -1 /\ UNCHANGED phase
      BY <1>5 DEF RetakeThread
    <2>2. \A t \in Threads : pc[t] \notin InPython /\ (t # "starter" => pc[t] \notin {"take", "retake"})
      BY <2>1
    <2>3. /\ pc'["starter"] = "back" /\ pc' \in [Threads -> Place]
          /\ \A t \in Threads : t # "starter" => pc'[t] = pc[t]
      BY <2>1
    <2>4. Counted' /\ Waiting' /\ Shared'
      BY <2>1, <2>2, <2>3
    <2>5. AtHome' /\ Born'
      BY <2>1, <2>3
    <2>. QED
      BY <2>3, <2>4, <2>5
  <1>6. CASE ReturnToPython
    BY <1>6 DEF ReturnToPython
  <1>7. CASE LeaveServer
    BY <1>7 DEF LeaveServer
  <1>. QED
    BY <1>1, <1>2, <1>3, <1>4, <1>5, <1>6, <1>7 DEF StarterSteps

\* Python threads outside of the server, stop() and the destructor.
LEMMA StopperKeeps ==
    ASSUME Inv, StopperSteps \/ Delete \/ \E t \in {"starter", "stopper"} : EnterPython(t)
    PROVE  Inv'
  <1>. USE Names DEF Inv, Shared, Counted, Waiting, AtHome, Born, Place, InPython, Goto,
                     lockVars, serverVars
  <1>1. CASE Stop
    BY <1>1 DEF Stop
  <1>2. CASE Finish
    BY <1>2 DEF Finish
  <1>3. CASE StopIo
    BY <1>3 DEF StopIo
  <1>4. CASE RelockPython
    BY <1>4 DEF RelockPython
  <1>5. CASE Destroy
    BY <1>5 DEF Destroy
  <1>6. CASE JoinThreads
    BY <1>6, ZenonT(60) DEF JoinThreads
  <1>7. CASE Delete
    BY <1>7 DEF Delete
  <1>8. CASE \E t \in {"starter", "stopper"} : EnterPython(t)
    BY <1>8 DEF EnterPython
  <1>. QED
    BY <1>1, <1>2, <1>3, <1>4, <1>5, <1>6, <1>7, <1>8 DEF StopperSteps

\* Every step keeps the invariant.
LEMMA NextInv == Inv /\ [Next]_vars => Inv'
  <1>. SUFFICES ASSUME Inv, [Next]_vars PROVE Inv'
    OBVIOUS
  <1>1. CASE UNCHANGED vars
    BY <1>1 DEF vars, lockVars, serverVars, Inv, Shared, Counted, Waiting, AtHome, Born
  <1>2. CASE \E t \in Threads : LockSteps(t) \/ Switch(t) \/ Call(t) \/ invoke(t)
    BY <1>2, LockKeeps, CallsKeep DEF LockSteps
  <1>3. CASE \E t \in Threads, o \in Formatters : push_ref(t, o)
    BY <1>3, CallsKeep
  <1>4. CASE \E w \in Workers : WorkerEnds(w)
    BY <1>4, CallsKeep DEF Threads
  <1>5. CASE CleanupSteps \/ LoggerSteps
    BY <1>5, ThreadsKeep DEF CleanupSteps, LoggerSteps
  <1>. QED
    BY <1>1, <1>2, <1>3, <1>4, <1>5, StarterKeeps, StopperKeeps DEF Next

\* The shared thread state is used by one thread at a time, also while Python has
\* passed the GIL on in the middle of a callback, and the asserts of lock_thread,
\* unlock_thread and unlock hold.
THEOREM OneUserOfTheThreadState == Spec => []OneAtATime
  <1>1. Inv => OneAtATime
    <2>. SUFFICES ASSUME Inv PROVE OneAtATime
      OBVIOUS
    <2>1. Cardinality(Inside) <= 1 /\ (Inside # {} => state /\ count = 1)
      <3>1. CASE Inside = {}
        BY <3>1, FS_EmptySet
      <3>2. CASE Inside # {}
        <4>1. PICK t \in Threads : pc[t] \in InPython
          BY <3>2 DEF Inside, InPython
        <4>2. Inside = {t}
          BY <4>1 DEF Inv, Counted, Inside, InPython
        <4>. QED
          BY <4>1, <4>2, FS_Singleton DEF Inv, Counted
      <3>. QED
        BY <3>1, <3>2
    <2>2. pc["starter"] = "python" => ~state /\ count < 0
      BY DEF Inv, Shared, Counted
    <2>3. pc["starter"] = "retake" => state
      BY DEF Inv, Shared
    <2>. QED
      BY <2>1, <2>2, <2>3 DEF OneAtATime
  <1>. QED
    BY <1>1, InitInv, NextInv, PTL DEF Spec
=============================================================================
