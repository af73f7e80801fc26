---------------------------- MODULE ServerProofs ----------------------------
(***************************************************************************)
(* Proofs about Server, for any threads and any requests.                  *)
(*                                                                         *)
(* A request is in one place at a time: in the job that starts it, in the  *)
(* invoker's queue, with one handler thread, or in the job that answers    *)
(* it, and its state tells in which (Queued, Handled, Posted).  From that  *)
(* it follows that it is answered once.  LifeInv relates the places of     *)
(* start() and the destructor to the mutex and to started_ and stopped_.   *)
(***************************************************************************)
EXTENDS Server, TLAPS

\* A queue holds requests that wait, each once.
QueuedIn(rs, states) ==
    /\ \A i \in 1..Len(rs) : states[rs[i]] = "queued"
    /\ \A i, j \in 1..Len(rs) : rs[i] = rs[j] => i = j

Queued == QueuedIn(queue, request)

\* A handler thread's request is running, and no other thread has it.
Handled ==
    /\ \A h \in Handlers : handler[h] # "none" => request[handler[h]] = "running"
    /\ \A g, h \in Handlers : handler[g] # "none" /\ handler[g] = handler[h] => g = h

\* A job that starts or answers a request finds it as it was left, and there is
\* no second such job.
PostedIn(js, states) ==
    /\ \A i \in 1..Len(js) :
          /\ js[i].job = "process" => states[js[i].r] = "accepted"
          /\ js[i].job = "answer" => states[js[i].r] = "posted"
    /\ \A i, j \in 1..Len(js) :
          js[i].job \in {"process", "answer"} /\ js[j].job = js[i].job /\ js[j].r = js[i].r => i = j

Posted == PostedIn(jobs, request)

\* Only a request that is over was answered, once.
Answered ==
    \A r \in Requests : answers[r] \in {0, 1} /\ (request[r] \notin {"open", "closed"} => answers[r] = 0)

\* Behind the drain nothing is queued.
Drained ==
    pc["starter"] \in {"manager", "mark", "unlock", "done"} => queue = <<>> /\ In("queued") = {}

RequestInv == Queued /\ Handled /\ Posted /\ Answered /\ Drained /\ NoConnectionSurvives

\* start() holds the mutex from its first to its last step, the destructor while
\* it looks at started_ and stopped_, which are what start() has come to.
LifeInv ==
    /\ pc["starter"] \in {"idle", "run", "finish", "drain", "manager", "mark", "unlock", "done"}
    /\ pc["starter"] \notin {"idle", "done"} <=> mutex = "starter"
    /\ started <=> pc["starter"] # "idle"
    /\ pc["starter"] \in {"unlock", "done"} => stopped
    /\ pc["owner"] \notin {"drain", "waiting"}
    /\ pc["owner"] = "inspect" <=> mutex = "owner"
    /\ pc["owner"] \in {"lock", "inspect", "gone"} => providing = {}
    /\ pc["owner"] = "gone" => pc["starter"] \in {"idle", "done"}

\* The destructor has not returned while start() runs or a provider's function
\* has not returned, and its one wait is never reached.
OutlivesItsThreads ==
    /\ pc["owner"] = "gone" => pc["starter"] \in {"idle", "done"} /\ providing = {}
    /\ pc["owner"] # "waiting"

\* The threads of start() and of the destructor are two threads, and no stopper.
LEMMA Names ==
    /\ "starter" \in Threads /\ "owner" \in Threads /\ "starter" # "owner"
    /\ Stoppers \subseteq Threads /\ "starter" \notin Stoppers /\ "owner" \notin Stoppers
  BY ThreadAssumption DEF Threads

\* finish() has five parts.
LEMMA PartsOfFinish ==
    Len(Parts) = 5 /\ \A n \in 1..5 : Parts[n] \in PartSet
  BY DEF Parts, PartSet

\* What a job holds.
LEMMA JobFields ==
    \A j \in Job : j.job \in {"process", "answer"} => j.r \in Requests
  BY DEF Job

\* Every job that is put is a job.
LEMMA PutJobs ==
    /\ [job |-> "finish"] \in Job /\ [job |-> "accept_again"] \in Job
    /\ \A a, b \in BOOLEAN : [job |-> "accepted", first |-> a, ok |-> b] \in Job
    /\ \A r \in Requests : [job |-> "process", r |-> r] \in Job /\ [job |-> "answer", r |-> r] \in Job
  BY DEF Job

\* Sequences of jobs stay sequences of jobs.
LEMMA JobSequences ==
    /\ \A s \in Seq(Job), j \in Job : Append(s, j) \in Seq(Job)
    /\ \A s \in Seq(Job) : s # <<>> => Head(s) \in Job /\ Tail(s) \in Seq(Job)
  OBVIOUS

\* Sequences of requests stay sequences of requests.
LEMMA RequestSequences ==
    /\ \A s \in Seq(Requests), r \in Requests : Append(s, r) \in Seq(Requests)
    /\ \A s \in Seq(Requests) : s # <<>> => Head(s) \in Requests /\ Tail(s) \in Seq(Requests)
  OBVIOUS

\* What is appended when an accept ends.
LEMMA AcceptedJob ==
    \A b \in BOOLEAN : [job |-> "accepted", first |-> accept = "first", ok |-> b] \in Job
  <1>1. (accept = "first") \in BOOLEAN
    BY Zenon
  <1>. QED
    BY <1>1, PutJobs, Zenon

\* Every variable has its type when init() has returned.
LEMMA InitType == Init => TypeOK
  <1>. SUFFICES ASSUME Init PROVE TypeOK
    OBVIOUS
  <1>1. jobs \in Seq(Job) /\ queue \in Seq(Requests)
    BY DEF Init
  <1>2. /\ todo \in [Threads -> 1..Len(Parts)]
        /\ answers \in [Requests -> Nat] /\ handler \in [Handlers -> Requests \union {"none"}]
    BY PartsOfFinish DEF Init
  <1>. QED
    BY <1>1, <1>2 DEF Init, TypeOK

\* Each step of finish() keeps the types.
LEMMA FinishPartType ==
    ASSUME TypeOK, NEW t \in Threads, FinishPart(t) PROVE TypeOK'
  <1>1. down' \subseteq PartSet
    BY PartsOfFinish DEF FinishPart, TypeOK
  <1>2. todo' \in [Threads -> 1..Len(Parts)]
    BY PartsOfFinish DEF FinishPart, TypeOK
  <1>3. jobs' \in Seq(Job) /\ accept' \in {"first", "again", "none"}
    <2>1. CASE jobs' = jobs
      BY <2>1 DEF FinishPart, StopAcceptor, TypeOK
    <2>2. CASE jobs' # jobs
      <3>1. /\ jobs' = Append(jobs, [job |-> "accepted", first |-> accept = "first", ok |-> FALSE])
            /\ accept' = "none"
        BY <2>2 DEF FinishPart, StopAcceptor
      <3>. QED
        BY <3>1, AcceptedJob, JobSequences, Zenon DEF TypeOK
    <2>. QED
      BY <2>1, <2>2
  <1>. QED
    BY <1>1, <1>2, <1>3 DEF FinishPart, TypeOK, Goto

\* So does every step of start(), stop() and the destructor.
LEMMA LifeType ==
    ASSUME TypeOK, NEW t \in Threads,
           \/ Start \/ RunReturns \/ Drain \/ FinishManager \/ MarkStopped \/ Unlock \/ Stop(t)
           \/ Check(t) \/ Dispatch(t) \/ WaitForComplete(t) \/ IoStop(t) \/ JoinAll \/ Lock \/ Inspect
    PROVE  TypeOK'
  <1>. USE Names DEF TypeOK, Goto, serviceVars
  <1>1. CASE Drain
    BY <1>1 DEF Drain, CloseAll, In
  <1>2. CASE FinishManager
    BY <1>2 DEF FinishManager, CloseAll, In
  <1>3. CASE Dispatch(t)
    BY <1>3, PutJobs DEF Dispatch
  <1>4. CASE Start \/ RunReturns \/ MarkStopped \/ Unlock
    BY <1>4, ZenonT(60) DEF Start, RunReturns, MarkStopped, Unlock
  <1>5. CASE Stop(t) \/ Check(t) \/ WaitForComplete(t) \/ IoStop(t)
    BY <1>5, ZenonT(60) DEF Stop, Check, WaitForComplete, IoStop
  <1>6. CASE JoinAll \/ Lock \/ Inspect
    BY <1>6, ZenonT(60) DEF JoinAll, Lock, Inspect
  <1>. QED
    BY <1>1, <1>2, <1>3, <1>4, <1>5, <1>6

\* The next accept is pending, or its failure is a job.
LEMMA AgainType ==
    ASSUME NEW js \in Seq(Job), AcceptAgain(js), TypeOK
    PROVE  jobs' \in Seq(Job) /\ accept' \in {"first", "again", "none"}
  <1>1. [job |-> "accepted", first |-> FALSE, ok |-> FALSE] \in Job
    BY PutJobs, Zenon
  <1>2. CASE "acceptor" \in down
    BY <1>1, <1>2, JobSequences DEF AcceptAgain, TypeOK
  <1>3. CASE "acceptor" \notin down
    BY <1>3 DEF AcceptAgain
  <1>. QED
    BY <1>2, <1>3

\* So does what the io_service runs.
LEMMA ServiceType ==
    ASSUME TypeOK, RunJob \/ AcceptCompletes
    PROVE  TypeOK'
  <1>. USE Names DEF TypeOK, Goto, lifeVars, NextJob
  <1>1. CASE HandleAcceptFailedFirst
    BY <1>1 DEF HandleAcceptFailedFirst
  <1>2. CASE HandleAcceptFailedAgain
    BY <1>2, PutJobs DEF HandleAcceptFailedAgain
  <1>3. CASE HandleAcceptOk
    <2>1. Tail(jobs) \in Seq(Job)
      BY <1>3, JobSequences DEF HandleAcceptOk
    <2>2. \A r \in Requests : Append(Tail(jobs), [job |-> "process", r |-> r]) \in Seq(Job)
      BY <2>1, JobSequences, PutJobs, Zenon
    <2>3. jobs' \in Seq(Job) /\ accept' \in {"first", "again", "none"}
      BY <1>3, <2>1, <2>2, AgainType DEF HandleAcceptOk, In
    <2>4. request' \in [Requests -> {"none", "accepted", "reading", "queued", "running", "posted",
                                     "open", "closed"}]
      BY <1>3 DEF HandleAcceptOk, In
    <2>. QED
      BY <1>3, <2>3, <2>4 DEF HandleAcceptOk
  <1>4. CASE RunAcceptAgain
    <2>1. Tail(jobs) \in Seq(Job)
      BY <1>4, JobSequences DEF RunAcceptAgain
    <2>. QED
      BY <1>4, <2>1, AgainType DEF RunAcceptAgain
  <1>5. CASE ProcessConnection
    <2>1. Tail(jobs) \in Seq(Job)
      BY <1>5, JobSequences DEF ProcessConnection
    <2>. QED
      BY <1>5, <2>1 DEF ProcessConnection
  <1>6. CASE HandleItem
    BY <1>6, JobFields DEF HandleItem
  <1>7. CASE RunFinish
    BY <1>7 DEF RunFinish, CloseAll
  <1>8. CASE AcceptCompletes
    <2>1. jobs' \in Seq(Job)
      <3>1. PICK ok \in {FALSE, In("none") # {}} :
                jobs' = Append(jobs, [job |-> "accepted", first |-> accept = "first", ok |-> ok])
        BY <1>8 DEF AcceptCompletes
      <3>2. ok \in BOOLEAN
        BY Zenon
      <3>. QED
        BY <3>1, <3>2, AcceptedJob, JobSequences, Zenon
    <2>. QED
      BY <1>8, <2>1 DEF AcceptCompletes
  <1>. QED
    BY <1>1, <1>2, <1>3, <1>4, <1>5, <1>6, <1>7, <1>8 DEF RunJob

\* So does what happens to a request.
LEMMA RequestType ==
    ASSUME TypeOK, NEW r \in Requests, InvokeHandler(r) \/ ConnectionEnds(r)
    PROVE  TypeOK'
  <1>. USE DEF TypeOK, lifeVars
  <1>1. CASE InvokeHandler(r)
    <2>1. queue' \in Seq(Requests)
      <3>1. queue' = queue \/ queue' = Append(queue, r)
        BY <1>1 DEF InvokeHandler
      <3>. QED
        BY <3>1, RequestSequences, Zenon
    <2>2. request' \in [Requests -> {"none", "accepted", "reading", "queued", "running", "posted",
                                     "open", "closed"}]
      <3>1. CASE "invoker" \in down
        BY <1>1, <3>1 DEF InvokeHandler, CloseAll
      <3>2. CASE "invoker" \notin down
        BY <1>1, <3>2 DEF InvokeHandler
      <3>. QED
        BY <3>1, <3>2
    <2>. QED
      BY <1>1, <2>1, <2>2 DEF InvokeHandler
  <1>2. CASE ConnectionEnds(r)
    BY <1>2 DEF ConnectionEnds, CloseAll
  <1>. QED
    BY <1>1, <1>2

\* So do the handler threads and the providers.
LEMMA HandlerType ==
    ASSUME TypeOK,
           \/ \E h \in Handlers : Take(h) \/ Reply(h)
           \/ \E p \in Providers : ProviderReturns(p)
    PROVE  TypeOK'
  <1>. USE DEF TypeOK, lifeVars, serviceVars
  <1>1. ASSUME NEW h \in Handlers, Take(h) PROVE TypeOK'
    BY <1>1 DEF Take
  <1>2. ASSUME NEW h \in Handlers, Reply(h) PROVE TypeOK'
    <2>1. handler[h] \in Requests
      BY <1>2 DEF Reply
    <2>2. jobs' \in Seq(Job)
      BY <1>2, <2>1, PutJobs, JobSequences DEF Reply
    <2>. QED
      BY <1>2, <2>1, <2>2 DEF Reply
  <1>3. CASE \E p \in Providers : ProviderReturns(p)
    BY <1>3 DEF ProviderReturns
  <1>. QED
    BY <1>1, <1>2, <1>3

\* Every step keeps the types.
LEMMA NextType == TypeOK /\ [Next]_vars => TypeOK'
  <1>. SUFFICES ASSUME TypeOK, [Next]_vars PROVE TypeOK'
    OBVIOUS
  <1>1. CASE UNCHANGED vars
    BY <1>1 DEF vars, lifeVars, serviceVars, TypeOK
  <1>2. CASE Start \/ StarterStep \/ OwnerStep \/ AcceptCompletes
    BY <1>2, Names, FinishPartType, LifeType, ServiceType DEF StarterStep, OwnerStep, StopperStep
  <1>3. CASE \/ \E t \in Stoppers : StopperStep(t)
             \/ \E t \in Stoppers \union {"owner"} : Stop(t)
    BY <1>3, Names, FinishPartType, LifeType DEF StopperStep
  <1>4. CASE \/ \E r \in Requests : InvokeHandler(r) \/ ConnectionEnds(r)
             \/ \E h \in Handlers : Take(h) \/ Reply(h)
             \/ \E p \in Providers : ProviderReturns(p)
    BY <1>4, RequestType, HandlerType
  <1>. QED
    BY <1>1, <1>2, <1>3, <1>4 DEF Next

-----------------------------------------------------------------------------
(* The places of a request.                                                *)

\* A job that is not about a request disturbs nothing.
LEMMA PutOther ==
    ASSUME NEW js \in Seq(Job), NEW states, PostedIn(js, states),
           NEW j \in Job, j.job \notin {"process", "answer"}
    PROVE  PostedIn(Append(js, j), states)
  BY DEF PostedIn

\* A job about a request that no job is about.
LEMMA PutNew ==
    ASSUME NEW js \in Seq(Job), NEW states, PostedIn(js, states),
           NEW j \in Job, j.job \in {"process", "answer"},
           states[j.r] = IF j.job = "process" THEN "accepted" ELSE "posted",
           \A i \in 1..Len(js) : js[i].job \in {"process", "answer"} => js[i].r # j.r
    PROVE  PostedIn(Append(js, j), states)
  BY DEF PostedIn

\* The rest of the jobs is not about the first job's request.
LEMMA TakeJob ==
    ASSUME NEW js \in Seq(Job), js # <<>>, NEW states, PostedIn(js, states)
    PROVE  /\ PostedIn(Tail(js), states)
           /\ \A i \in 1..Len(Tail(js)) :
                 Head(js).job \in {"process", "answer"} /\ Tail(js)[i].job \in {"process", "answer"}
                 => Tail(js)[i].r # Head(js).r
  BY DEF PostedIn

-----------------------------------------------------------------------------
(* start() and the destructor.                                             *)

\* What leaves the threads alone leaves LifeInv.
LEMMA LifeUnchanged ==
    ASSUME LifeInv, UNCHANGED <<pc, mutex, started, stopped>>, providing' \subseteq providing
    PROVE  LifeInv'
  BY DEF LifeInv

\* The steps of start().
LEMMA StartLife ==
    ASSUME TypeOK, LifeInv, Start \/ StarterStep
    PROVE  LifeInv'
  <1>. USE Names DEF TypeOK, LifeInv, Goto
  <1>1. CASE Start
    BY <1>1 DEF Start
  <1>2. CASE RunReturns
    BY <1>2 DEF RunReturns
  <1>3. CASE FinishPart("starter")
    BY <1>3 DEF FinishPart
  <1>4. CASE Drain
    BY <1>4 DEF Drain
  <1>5. CASE FinishManager
    BY <1>5 DEF FinishManager
  <1>6. CASE MarkStopped
    BY <1>6 DEF MarkStopped
  <1>7. CASE Unlock
    BY <1>7 DEF Unlock
  <1>8. CASE HandleAcceptFailedFirst
    BY <1>8 DEF HandleAcceptFailedFirst, NextJob, Running
  <1>9. CASE \/ HandleAcceptFailedAgain \/ HandleAcceptOk \/ RunAcceptAgain
             \/ ProcessConnection \/ HandleItem \/ RunFinish
    <2>1. UNCHANGED <<lifeVars, providing>>
      BY <1>9 DEF HandleAcceptFailedAgain, HandleAcceptOk, RunAcceptAgain, ProcessConnection,
                  HandleItem, RunFinish
    <2>. QED
      BY <2>1, LifeUnchanged DEF lifeVars
  <1>. QED
    BY <1>1, <1>2, <1>3, <1>4, <1>5, <1>6, <1>7, <1>8, <1>9 DEF StarterStep, RunJob

\* The steps of stop() and of the destructor.
LEMMA StopLife ==
    ASSUME TypeOK, LifeInv, NEW t \in Stoppers \union {"owner"},
           Stop(t) \/ StopperStep(t) \/ JoinAll \/ Lock \/ Inspect
    PROVE  LifeInv'
  <1>. USE Names DEF TypeOK, LifeInv, Goto
  <1>1. CASE Stop(t)
    BY <1>1 DEF Stop
  <1>2. CASE FinishPart(t)
    BY <1>2 DEF FinishPart
  <1>3. CASE Check(t)
    BY <1>3 DEF Check
  <1>4. CASE Dispatch(t)
    BY <1>4 DEF Dispatch
  <1>5. CASE WaitForComplete(t)
    BY <1>5 DEF WaitForComplete
  <1>6. CASE IoStop(t)
    BY <1>6 DEF IoStop
  <1>7. CASE JoinAll
    BY <1>7 DEF JoinAll
  <1>8. CASE Lock
    BY <1>8 DEF Lock
  <1>9. CASE Inspect
    BY <1>9 DEF Inspect
  <1>. QED
    BY <1>1, <1>2, <1>3, <1>4, <1>5, <1>6, <1>7, <1>8, <1>9 DEF StopperStep

\* Every step keeps LifeInv.
LEMMA NextLife == TypeOK /\ LifeInv /\ [Next]_vars => LifeInv'
  <1>. SUFFICES ASSUME TypeOK, LifeInv, [Next]_vars PROVE LifeInv'
    OBVIOUS
  <1>1. CASE UNCHANGED vars
    BY <1>1, LifeUnchanged DEF vars, lifeVars
  <1>2. CASE Start \/ StarterStep
    BY <1>2, StartLife
  <1>3. CASE OwnerStep \/ \E t \in Stoppers : StopperStep(t)
    BY <1>3, StopLife DEF OwnerStep
  <1>4. CASE \E t \in Stoppers \union {"owner"} : Stop(t)
    BY <1>4, StopLife
  <1>5. CASE \/ AcceptCompletes
             \/ \E r \in Requests : InvokeHandler(r) \/ ConnectionEnds(r)
             \/ \E h \in Handlers : Take(h) \/ Reply(h)
             \/ \E p \in Providers : ProviderReturns(p)
    <2>1. UNCHANGED lifeVars /\ providing' \subseteq providing
      BY <1>5 DEF AcceptCompletes, InvokeHandler, ConnectionEnds, Take, Reply, ProviderReturns
    <2>. QED
      BY <2>1, LifeUnchanged DEF lifeVars
  <1>. QED
    BY <1>1, <1>2, <1>3, <1>4, <1>5 DEF Next
-----------------------------------------------------------------------------
(* The requests.                                                           *)

Late == {"manager", "mark", "unlock", "done"}

\* A step that leaves the requests where they are.
LEMMA RequestsUnchanged ==
    ASSUME RequestInv, UNCHANGED <<request, answers, finished, queue, handler>>,
           PostedIn(jobs', request), pc'["starter"] \in Late => pc["starter"] \in Late
    PROVE  RequestInv'
  BY DEF RequestInv, Queued, Handled, Posted, Answered, Drained, NoConnectionSurvives, In, Late

\* Steps of start(), stop() and the destructor that only move a thread.
LEMMA MovesKeep ==
    ASSUME TypeOK, RequestInv, NEW t \in Threads,
           \/ Start \/ RunReturns \/ MarkStopped \/ Unlock \/ Stop(t) \/ Check(t)
           \/ WaitForComplete(t) \/ IoStop(t) \/ JoinAll \/ Lock \/ Inspect
    PROVE  RequestInv'
  <1>1. UNCHANGED serviceVars
    BY DEF Start, RunReturns, MarkStopped, Unlock, Stop, Check, WaitForComplete, IoStop, JoinAll,
           Lock, Inspect
  <1>2. pc'["starter"] \in Late => pc["starter"] \in Late
    BY Names DEF Late, TypeOK, Goto, Start, RunReturns, MarkStopped, Unlock, Stop, Check,
                 WaitForComplete, IoStop, JoinAll, Lock, Inspect
  <1>. QED
    BY <1>1, <1>2, RequestsUnchanged DEF serviceVars, RequestInv, Posted

\* Steps of finish() and stop() that put a job.
LEMMA FinishKeeps ==
    ASSUME TypeOK, RequestInv, NEW t \in Threads, FinishPart(t) \/ Dispatch(t)
    PROVE  RequestInv'
  <1>1. PostedIn(jobs', request)
    <2>1. CASE jobs' = jobs
      BY <2>1 DEF RequestInv, Posted
    <2>2. CASE jobs' # jobs
      <3>1. \/ jobs' = Append(jobs, [job |-> "accepted", first |-> accept = "first", ok |-> FALSE])
            \/ jobs' = Append(jobs, [job |-> "finish"])
        BY <2>2 DEF FinishPart, StopAcceptor, Dispatch
      <3>. DEFINE a == [job |-> "accepted", first |-> accept = "first", ok |-> FALSE]
                  f == [job |-> "finish"]
      <3>2. a \in Job /\ f \in Job
        BY AcceptedJob, PutJobs, Zenon
      <3>3. a.job = "accepted" /\ f.job = "finish"
        OBVIOUS
      <3>4. jobs' = Append(jobs, a) \/ jobs' = Append(jobs, f)
        BY <3>1
      <3>. HIDE DEF a, f
      <3>. QED
        BY <3>2, <3>3, <3>4, PutOther DEF TypeOK, RequestInv, Posted
    <2>. QED
      BY <2>1, <2>2
  <1>2. UNCHANGED <<request, answers, finished, queue, handler>>
    BY DEF FinishPart, Dispatch
  <1>3. pc'["starter"] \in Late => pc["starter"] \in Late
    BY Names DEF Late, TypeOK, Goto, FinishPart, Dispatch
  <1>. QED
    BY <1>1, <1>2, <1>3, RequestsUnchanged

\* What accept() puts is no job about a request.
LEMMA AgainPosted ==
    ASSUME NEW js \in Seq(Job), NEW states, PostedIn(js, states), AcceptAgain(js)
    PROVE  PostedIn(jobs', states)
  <1>. DEFINE a == [job |-> "accepted", first |-> FALSE, ok |-> FALSE]
  <1>1. a \in Job /\ a.job = "accepted"
    BY PutJobs
  <1>2. jobs' = js \/ jobs' = Append(js, a)
    BY DEF AcceptAgain
  <1>. HIDE DEF a
  <1>. QED
    BY <1>1, <1>2, PutOther

\* An accept that fails, and the accept that follows it.
LEMMA AcceptKeeps ==
    ASSUME TypeOK, RequestInv,
           \/ AcceptCompletes \/ HandleAcceptFailedFirst \/ HandleAcceptFailedAgain
           \/ RunAcceptAgain
    PROVE  RequestInv'
  <1>1. PostedIn(jobs', request)
    <2>1. CASE AcceptCompletes
      <3>1. PICK ok \in {FALSE, In("none") # {}} :
                jobs' = Append(jobs, [job |-> "accepted", first |-> accept = "first", ok |-> ok])
        BY <2>1 DEF AcceptCompletes
      <3>. DEFINE a == [job |-> "accepted", first |-> accept = "first", ok |-> ok]
      <3>2. ok \in BOOLEAN
        BY Zenon
      <3>3. a \in Job
        BY <3>2, AcceptedJob, Zenon
      <3>4. a.job = "accepted" /\ jobs' = Append(jobs, a)
        BY <3>1
      <3>. HIDE DEF a
      <3>. QED
        BY <3>3, <3>4, PutOther DEF TypeOK, RequestInv, Posted
    <2>2. CASE HandleAcceptFailedFirst \/ HandleAcceptFailedAgain \/ RunAcceptAgain
      <3>1. jobs # <<>>
        BY <2>2 DEF HandleAcceptFailedFirst, HandleAcceptFailedAgain, RunAcceptAgain, NextJob
      <3>2. Tail(jobs) \in Seq(Job) /\ PostedIn(Tail(jobs), request)
        BY <3>1, TakeJob, JobSequences DEF TypeOK, RequestInv, Posted
      <3>. DEFINE g == [job |-> "accept_again"]
      <3>3. g \in Job /\ g.job = "accept_again"
        BY PutJobs
      <3>4. jobs' = Tail(jobs) \/ jobs' = Append(Tail(jobs), g) \/ AcceptAgain(Tail(jobs))
        BY <2>2 DEF HandleAcceptFailedFirst, HandleAcceptFailedAgain, RunAcceptAgain
      <3>. HIDE DEF g
      <3>. QED
        BY <3>2, <3>3, <3>4, PutOther, AgainPosted
    <2>. QED
      BY <2>1, <2>2
  <1>2. UNCHANGED <<request, answers, finished, queue, handler>>
    BY DEF AcceptCompletes, HandleAcceptFailedFirst, HandleAcceptFailedAgain, RunAcceptAgain
  <1>3. pc'["starter"] \in Late => pc["starter"] \in Late
    BY Names DEF Late, TypeOK, Goto, lifeVars, AcceptCompletes, HandleAcceptFailedFirst,
                 HandleAcceptFailedAgain, RunAcceptAgain
  <1>. QED
    BY <1>1, <1>2, <1>3, RequestsUnchanged

\* A request is where its state says, and nowhere else.
LEMMA Elsewhere ==
    ASSUME TypeOK, RequestInv, NEW r \in Requests
    PROVE  /\ request[r] # "queued" => \A i \in 1..Len(queue) : queue[i] # r
           /\ request[r] # "running" => \A h \in Handlers : handler[h] # r
           /\ request[r] \notin {"accepted", "posted"} =>
                 \A i \in 1..Len(jobs) : jobs[i].job \in {"process", "answer"} => jobs[i].r # r
  BY RequestAssumption DEF RequestInv, Queued, QueuedIn, Handled, Posted, PostedIn

\* Only request r changes, from one state that the queue, the threads and the
\* answers do not tell from the other.
LEMMA OneChanges ==
    ASSUME TypeOK, RequestInv, NEW r \in Requests,
           request[r] \notin {"queued", "running", "open", "closed"},
           NEW s \in {"accepted", "reading"}, request' = [request EXCEPT ![r] = s],
           UNCHANGED <<pc, answers, finished, queue, handler>>
    PROVE  Queued' /\ Handled' /\ Answered' /\ Drained' /\ NoConnectionSurvives'
  <1>1. \A q \in Requests : q # r => request'[q] = request[q]
    BY DEF TypeOK
  <1>2. request'[r] = s
    BY DEF TypeOK
  <1>3. Queued'
    BY <1>1, Elsewhere DEF TypeOK, RequestInv, Queued, QueuedIn
  <1>4. Handled'
    BY <1>1, Elsewhere DEF TypeOK, RequestInv, Handled
  <1>5. Answered'
    BY <1>1, <1>2 DEF RequestInv, Answered
  <1>6. Drained'
    BY <1>1, <1>2 DEF RequestInv, Drained, In
  <1>7. NoConnectionSurvives'
    BY <1>1, <1>2 DEF RequestInv, NoConnectionSurvives, In
  <1>. QED
    BY <1>3, <1>4, <1>5, <1>6, <1>7

\* A connection is accepted.
LEMMA AcceptOkKeeps ==
    ASSUME TypeOK, RequestInv, HandleAcceptOk
    PROVE  RequestInv'
  <1>1. jobs # <<>>
    BY DEF HandleAcceptOk, NextJob
  <1>2. Tail(jobs) \in Seq(Job) /\ PostedIn(Tail(jobs), request)
    BY <1>1, TakeJob, JobSequences DEF TypeOK, RequestInv, Posted
  <1>3. UNCHANGED <<pc, answers, finished, queue, handler>>
    BY DEF HandleAcceptOk, lifeVars
  <1>4. CASE jobs' = Tail(jobs) /\ request' = request
    BY <1>2, <1>3, <1>4, RequestsUnchanged
  <1>5. CASE \E r \in In("none") :
               /\ AcceptAgain(Append(Tail(jobs), [job |-> "process", r |-> r]))
               /\ request' = [request EXCEPT ![r] = "accepted"]
    <2>1. PICK r \in Requests :
               /\ request[r] = "none"
               /\ AcceptAgain(Append(Tail(jobs), [job |-> "process", r |-> r]))
               /\ request' = [request EXCEPT ![r] = "accepted"]
      BY <1>5 DEF In
    <2>2. Queued' /\ Handled' /\ Answered' /\ Drained' /\ NoConnectionSurvives'
      BY <1>3, <2>1, OneChanges
    <2>3. \A i \in 1..Len(Tail(jobs)) :
             Tail(jobs)[i].job \in {"process", "answer"} => Tail(jobs)[i].r # r
      <3>1. \A i \in 1..Len(Tail(jobs)) : i + 1 \in 1..Len(jobs) /\ Tail(jobs)[i] = jobs[i + 1]
        BY <1>1 DEF TypeOK
      <3>2. \A i \in 1..Len(jobs) : jobs[i].job \in {"process", "answer"} => jobs[i].r # r
        BY <2>1, Elsewhere
      <3>. QED
        BY <3>1, <3>2
    <2>4. PostedIn(Tail(jobs), request')
      <3>1. \A i \in 1..Len(Tail(jobs)) : Tail(jobs)[i] \in Job
        BY <1>2
      <3>2. \A i \in 1..Len(Tail(jobs)) : Tail(jobs)[i].job \in {"process", "answer"} =>
                request'[Tail(jobs)[i].r] = request[Tail(jobs)[i].r]
        BY <2>1, <2>3, <3>1, JobFields DEF TypeOK
      <3>. QED
        BY <1>2, <3>2 DEF PostedIn
    <2>. DEFINE j == [job |-> "process", r |-> r]
    <2>5. j \in Job /\ j.job = "process" /\ j.r = r
      BY PutJobs
    <2>6. AcceptAgain(Append(Tail(jobs), j)) /\ request'[r] = "accepted"
      BY <2>1 DEF TypeOK
    <2>. HIDE DEF j
    <2>7. Append(Tail(jobs), j) \in Seq(Job) /\ PostedIn(Append(Tail(jobs), j), request')
      BY <1>2, <2>3, <2>4, <2>5, <2>6, PutNew, JobSequences
    <2>8. Posted'
      BY <2>6, <2>7, AgainPosted DEF Posted
    <2>. QED
      BY <2>2, <2>8 DEF RequestInv
  <1>. QED
    BY <1>4, <1>5 DEF HandleAcceptOk

\* A connection starts to read.
LEMMA ProcessKeeps ==
    ASSUME TypeOK, RequestInv, ProcessConnection
    PROVE  RequestInv'
  <1>. DEFINE r == Head(jobs).r
  <1>1. /\ jobs # <<>> /\ Head(jobs).job = "process" /\ jobs' = Tail(jobs)
        /\ request' = [request EXCEPT ![r] = "reading"]
        /\ UNCHANGED <<pc, answers, finished, queue, handler>>
    BY DEF ProcessConnection, NextJob, lifeVars
  <1>2. Head(jobs) = jobs[1] /\ jobs[1] \in Job /\ 1 \in 1..Len(jobs)
    BY <1>1 DEF TypeOK
  <1>3. r \in Requests /\ request[r] = "accepted"
    BY <1>1, <1>2, JobFields DEF RequestInv, Posted, PostedIn
  <1>4. /\ Tail(jobs) \in Seq(Job) /\ PostedIn(Tail(jobs), request)
        /\ \A i \in 1..Len(Tail(jobs)) :
              Tail(jobs)[i].job \in {"process", "answer"} => Tail(jobs)[i].r # r
    BY <1>1, TakeJob, JobSequences DEF TypeOK, RequestInv, Posted
  <1>. HIDE DEF r
  <1>5. PostedIn(Tail(jobs), request')
    <2>1. \A i \in 1..Len(Tail(jobs)) : Tail(jobs)[i] \in Job
      BY <1>4
    <2>2. \A i \in 1..Len(Tail(jobs)) : Tail(jobs)[i].job \in {"process", "answer"} =>
              request'[Tail(jobs)[i].r] = request[Tail(jobs)[i].r]
      BY <1>1, <1>4, <2>1, JobFields DEF TypeOK
    <2>. QED
      BY <1>4, <2>2 DEF PostedIn
  <1>6. Queued' /\ Handled' /\ Answered' /\ Drained' /\ NoConnectionSurvives'
    BY <1>1, <1>3, OneChanges
  <1>. QED
    BY <1>1, <1>5, <1>6 DEF RequestInv, Posted

\* An answer is taken: the connection is open, or closed.
LEMMA HandleItemKeeps ==
    ASSUME TypeOK, RequestInv, HandleItem
    PROVE  RequestInv'
  <1>. DEFINE r == Head(jobs).r
  <1>1. PICK s \in {"open", "closed"} :
          /\ s = "open" => ~finished
          /\ request' = [request EXCEPT ![r] = s]
    BY DEF HandleItem
  <1>2. /\ jobs # <<>> /\ Head(jobs).job = "answer" /\ jobs' = Tail(jobs)
        /\ answers' = [answers EXCEPT ![r] = @ + 1]
        /\ UNCHANGED <<pc, finished, queue, handler>>
    BY DEF HandleItem, NextJob, lifeVars
  <1>3. Head(jobs) = jobs[1] /\ jobs[1] \in Job /\ 1 \in 1..Len(jobs)
    BY <1>2 DEF TypeOK
  <1>4. r \in Requests /\ request[r] = "posted"
    BY <1>2, <1>3, JobFields DEF RequestInv, Posted, PostedIn
  <1>5. /\ Tail(jobs) \in Seq(Job) /\ PostedIn(Tail(jobs), request)
        /\ \A i \in 1..Len(Tail(jobs)) :
              Tail(jobs)[i].job \in {"process", "answer"} => Tail(jobs)[i].r # r
    BY <1>2, TakeJob, JobSequences DEF TypeOK, RequestInv, Posted
  <1>. HIDE DEF r
  <1>6. /\ request'[r] = s /\ answers'[r] = answers[r] + 1
        /\ \A q \in Requests : q # r => request'[q] = request[q] /\ answers'[q] = answers[q]
    BY <1>1, <1>2, <1>4 DEF TypeOK
  <1>7. Posted'
    <2>1. \A i \in 1..Len(Tail(jobs)) : Tail(jobs)[i] \in Job
      BY <1>5
    <2>2. \A i \in 1..Len(Tail(jobs)) : Tail(jobs)[i].job \in {"process", "answer"} =>
              request'[Tail(jobs)[i].r] = request[Tail(jobs)[i].r]
      BY <1>5, <1>6, <2>1, JobFields
    <2>. QED
      BY <1>2, <1>5, <2>2 DEF Posted, PostedIn
  <1>8. Queued'
    BY <1>2, <1>4, <1>6, Elsewhere, SMTT(30) DEF TypeOK, RequestInv, Queued, QueuedIn
  <1>9. Handled'
    BY <1>2, <1>4, <1>6, Elsewhere DEF TypeOK, RequestInv, Handled
  <1>10. Answered'
    BY <1>1, <1>4, <1>6 DEF RequestInv, Answered
  <1>11. Drained' /\ NoConnectionSurvives'
    BY <1>1, <1>2, <1>6 DEF RequestInv, Drained, NoConnectionSurvives, In
  <1>. QED
    BY <1>7, <1>8, <1>9, <1>10, <1>11 DEF RequestInv

\* Connections that are open or reading are closed, all of them or one.
LEMMA CloseKeeps ==
    ASSUME TypeOK, RequestInv, NEW rs \in SUBSET Requests, CloseAll(rs),
           \A r \in rs : request[r] \in {"reading", "open"},
           UNCHANGED <<pc, answers, queue, handler>>, PostedIn(jobs', request),
           jobs' \in Seq(Job), finished' => finished \/ rs = In("open")
    PROVE  RequestInv'
  <1>1. \A r \in Requests : request'[r] = IF r \in rs THEN "closed" ELSE request[r]
    BY DEF CloseAll
  <1>2. Queued'
    <2>1. \A i \in 1..Len(queue) : queue[i] \in Requests /\ queue[i] \notin rs
      <3>1. \A i \in 1..Len(queue) : queue[i] \in Requests
        BY DEF TypeOK
      <3>2. \A i \in 1..Len(queue) : request[queue[i]] = "queued"
        BY DEF RequestInv, Queued, QueuedIn
      <3>. QED
        BY <3>1, <3>2
    <2>. QED
      BY <1>1, <2>1 DEF RequestInv, Queued, QueuedIn
  <1>3. Handled'
    BY <1>1 DEF TypeOK, RequestInv, Handled
  <1>4. Posted'
    <2>1. \A i \in 1..Len(jobs') : jobs'[i] \in Job
      OBVIOUS
    <2>2. \A i \in 1..Len(jobs') : jobs'[i].job \in {"process", "answer"} =>
              jobs'[i].r \in Requests /\ request'[jobs'[i].r] = request[jobs'[i].r]
      BY <1>1, <2>1, JobFields DEF PostedIn
    <2>. QED
      BY <2>2 DEF Posted, PostedIn
  <1>5. Answered' /\ Drained'
    BY <1>1 DEF RequestInv, Answered, Drained, In
  <1>6. NoConnectionSurvives'
    BY <1>1 DEF RequestInv, NoConnectionSurvives, In
  <1>. QED
    BY <1>2, <1>3, <1>4, <1>5, <1>6 DEF RequestInv

\* connection_manager::finish, run by stop() or by start().
LEMMA FinishManagerKeeps ==
    ASSUME TypeOK, RequestInv, FinishManager \/ RunFinish
    PROVE  RequestInv'
  <1>1. CASE RunFinish
    <2>1. jobs # <<>> /\ jobs' = Tail(jobs)
      BY <1>1 DEF RunFinish, NextJob
    <2>2. PostedIn(jobs', request) /\ jobs' \in Seq(Job)
      BY <2>1, TakeJob, JobSequences DEF TypeOK, RequestInv, Posted
    <2>. QED
      BY <1>1, <2>2, CloseKeeps DEF RunFinish, lifeVars, In
  <1>2. CASE FinishManager
    <2>1. /\ CloseAll(In("open")) /\ UNCHANGED <<jobs, answers, queue, handler>>
          /\ pc["starter"] = "manager"
      BY <1>2 DEF FinishManager
    <2>2. \A r \in Requests : request'[r] = IF request[r] = "open" THEN "closed" ELSE request[r]
      BY <2>1 DEF CloseAll, In
    <2>3. Queued' /\ Handled'
      BY <2>1, <2>2 DEF TypeOK, RequestInv, Queued, QueuedIn, Handled
    <2>4. Posted'
      <3>1. \A i \in 1..Len(jobs) : jobs[i] \in Job
        BY DEF TypeOK
      <3>2. \A i \in 1..Len(jobs) : jobs[i].job \in {"process", "answer"} => jobs[i].r \in Requests
        BY <3>1, JobFields
      <3>. QED
        BY <2>1, <2>2, <3>2 DEF RequestInv, Posted, PostedIn
    <2>5. Answered'
      BY <2>1, <2>2 DEF RequestInv, Answered
    <2>6. Drained' /\ NoConnectionSurvives'
      BY <2>1, <2>2 DEF RequestInv, Drained, NoConnectionSurvives, In
    <2>. QED
      BY <2>3, <2>4, <2>5, <2>6 DEF RequestInv
  <1>. QED
    BY <1>1, <1>2

\* wait_for_complete() answers what is queued, and nothing else.
LEMMA DrainKeeps ==
    ASSUME TypeOK, RequestInv, Drain
    PROVE  RequestInv'
  <1>1. /\ CloseAll(In("queued")) /\ queue' = <<>> /\ UNCHANGED <<jobs, finished, handler>>
        /\ answers' = [r \in Requests |-> answers[r] + IF r \in In("queued") THEN 1 ELSE 0]
    BY DEF Drain
  <1>2. \A r \in Requests :
           /\ request'[r] = IF request[r] = "queued" THEN "closed" ELSE request[r]
           /\ answers'[r] = answers[r] + IF request[r] = "queued" THEN 1 ELSE 0
    BY <1>1 DEF CloseAll, In
  <1>3. Queued' /\ Handled'
    BY <1>1, <1>2 DEF TypeOK, RequestInv, Queued, QueuedIn, Handled
  <1>4. Posted'
    <2>1. \A i \in 1..Len(jobs) : jobs[i] \in Job
      BY DEF TypeOK
    <2>2. \A i \in 1..Len(jobs) : jobs[i].job \in {"process", "answer"} => jobs[i].r \in Requests
      BY <2>1, JobFields
    <2>. QED
      BY <1>1, <1>2, <2>2 DEF RequestInv, Posted, PostedIn
  <1>5. Answered'
    BY <1>2 DEF RequestInv, Answered
  <1>6. Drained' /\ NoConnectionSurvives'
    BY <1>1, <1>2 DEF RequestInv, Drained, NoConnectionSurvives, In
  <1>. QED
    BY <1>3, <1>4, <1>5, <1>6 DEF RequestInv

\* A request is queued, or its connection ends.
LEMMA ReadKeeps ==
    ASSUME TypeOK, RequestInv, NEW r \in Requests, InvokeHandler(r) \/ ConnectionEnds(r)
    PROVE  RequestInv'
  <1>1. UNCHANGED <<pc, jobs, answers, finished, handler>> /\ pc["starter"] = "run"
    BY DEF InvokeHandler, ConnectionEnds, lifeVars, Running
  <1>2. CASE CloseAll({r}) /\ request[r] \in {"reading", "open"} /\ UNCHANGED queue
    BY <1>1, <1>2, CloseKeeps DEF TypeOK, RequestInv, Posted
  <1>3. CASE /\ request[r] = "reading" /\ request' = [request EXCEPT ![r] = "queued"]
             /\ queue' = Append(queue, r)
    <2>1. request'[r] = "queued" /\ \A q \in Requests : q # r => request'[q] = request[q]
      BY <1>3 DEF TypeOK
    <2>2. Queued'
      BY <1>3, <2>1, Elsewhere, SMTT(30) DEF TypeOK, RequestInv, Queued, QueuedIn
    <2>3. Handled'
      BY <1>1, <1>3, <2>1, Elsewhere DEF TypeOK, RequestInv, Handled
    <2>4. Posted'
      <3>1. \A i \in 1..Len(jobs) : jobs[i] \in Job
        BY DEF TypeOK
      <3>2. \A i \in 1..Len(jobs) : jobs[i].job \in {"process", "answer"} =>
                jobs[i].r \in Requests /\ jobs[i].r # r
        BY <1>3, <3>1, JobFields, Elsewhere
      <3>. QED
        BY <1>1, <2>1, <3>2 DEF RequestInv, Posted, PostedIn
    <2>5. Answered'
      BY <1>1, <1>3, <2>1 DEF RequestInv, Answered
    <2>6. Drained' /\ NoConnectionSurvives'
      BY <1>1, <2>1 DEF RequestInv, Drained, NoConnectionSurvives, In
    <2>. QED
      BY <2>2, <2>3, <2>4, <2>5, <2>6 DEF RequestInv
  <1>. QED
    BY <1>2, <1>3 DEF InvokeHandler, ConnectionEnds

\* A handler thread takes the first request of the queue.
LEMMA TakeKeeps ==
    ASSUME TypeOK, RequestInv, NEW h \in Handlers, Take(h)
    PROVE  RequestInv'
  <1>. DEFINE r == Head(queue)
  <1>1. /\ queue # <<>> /\ queue' = Tail(queue) /\ request' = [request EXCEPT ![r] = "running"]
        /\ handler' = [handler EXCEPT ![h] = r] /\ UNCHANGED <<pc, jobs, answers, finished>>
    BY DEF Take, lifeVars
  <1>2. r = queue[1] /\ r \in Requests /\ request[r] = "queued"
    BY <1>1 DEF TypeOK, RequestInv, Queued, QueuedIn
  <1>. HIDE DEF r
  <1>3. request'[r] = "running" /\ \A q \in Requests : q # r => request'[q] = request[q]
    BY <1>1, <1>2 DEF TypeOK
  <1>4. Queued'
    <2>1. \A i \in 1..Len(Tail(queue)) :
             /\ i + 1 \in 1..Len(queue) /\ Tail(queue)[i] = queue[i + 1]
             /\ Tail(queue)[i] \in Requests /\ Tail(queue)[i] # r
      BY <1>1, <1>2 DEF TypeOK, RequestInv, Queued, QueuedIn
    <2>. QED
      BY <1>1, <1>3, <2>1 DEF TypeOK, RequestInv, Queued, QueuedIn
  <1>5. Handled'
    BY <1>1, <1>2, <1>3, Elsewhere DEF TypeOK, RequestInv, Handled
  <1>6. Posted'
    <2>1. \A i \in 1..Len(jobs) : jobs[i] \in Job
      BY DEF TypeOK
    <2>2. \A i \in 1..Len(jobs) : jobs[i].job \in {"process", "answer"} =>
              jobs[i].r \in Requests /\ jobs[i].r # r
      BY <1>2, <2>1, JobFields, Elsewhere
    <2>. QED
      BY <1>1, <1>3, <2>2 DEF RequestInv, Posted, PostedIn
  <1>7. Answered'
    BY <1>1, <1>2, <1>3 DEF RequestInv, Answered
  <1>8. Drained' /\ NoConnectionSurvives'
    BY <1>1, <1>2, <1>3 DEF RequestInv, Drained, NoConnectionSurvives, In
  <1>. QED
    BY <1>4, <1>5, <1>6, <1>7, <1>8 DEF RequestInv

\* A handler thread posts its answer.
LEMMA ReplyKeeps ==
    ASSUME TypeOK, RequestInv, NEW h \in Handlers, Reply(h)
    PROVE  RequestInv'
  <1>. DEFINE r == handler[h]
              j == [job |-> "answer", r |-> r]
  <1>1. /\ r # "none" /\ jobs' = Append(jobs, j) /\ request' = [request EXCEPT ![r] = "posted"]
        /\ handler' = [handler EXCEPT ![h] = "none"] /\ UNCHANGED <<pc, answers, finished, queue>>
    BY DEF Reply, lifeVars
  <1>2. r \in Requests /\ request[r] = "running" /\ \A g \in Handlers : handler[g] = r => g = h
    BY <1>1 DEF TypeOK, RequestInv, Handled
  <1>3. j \in Job /\ j.job = "answer" /\ j.r = r
    BY <1>2, PutJobs
  <1>. HIDE DEF r, j
  <1>4. request'[r] = "posted" /\ \A q \in Requests : q # r => request'[q] = request[q]
    BY <1>1, <1>2 DEF TypeOK
  <1>5. Queued'
    BY <1>1, <1>2, <1>4, Elsewhere DEF TypeOK, RequestInv, Queued, QueuedIn
  <1>6. Handled'
    BY <1>1, <1>2, <1>4 DEF TypeOK, RequestInv, Handled
  <1>7. Posted'
    <2>1. \A i \in 1..Len(jobs) : jobs[i] \in Job
      BY DEF TypeOK
    <2>2. \A i \in 1..Len(jobs) : jobs[i].job \in {"process", "answer"} =>
              jobs[i].r \in Requests /\ jobs[i].r # r
      BY <1>2, <2>1, JobFields, Elsewhere
    <2>3. PostedIn(jobs, request')
      BY <1>4, <2>2 DEF RequestInv, Posted, PostedIn
    <2>. QED
      <3>1. jobs \in Seq(Job) /\ \A i \in 1..Len(jobs) :
                 jobs[i].job \in {"process", "answer"} => jobs[i].r # j.r
        BY <1>3, <2>2 DEF TypeOK
      <3>2. PostedIn(Append(jobs, j), request')
        BY <1>3, <1>4, <2>3, <3>1, PutNew
      <3>. QED
        BY <1>1, <3>2 DEF Posted
  <1>8. Answered'
    BY <1>1, <1>2, <1>4 DEF RequestInv, Answered
  <1>9. Drained' /\ NoConnectionSurvives'
    BY <1>1, <1>4 DEF RequestInv, Drained, NoConnectionSurvives, In
  <1>. QED
    BY <1>5, <1>6, <1>7, <1>8, <1>9 DEF RequestInv

\* Every step keeps RequestInv.
LEMMA NextRequests == TypeOK /\ RequestInv /\ [Next]_vars => RequestInv'
  <1>. SUFFICES ASSUME TypeOK, RequestInv, [Next]_vars PROVE RequestInv'
    OBVIOUS
  <1>1. CASE UNCHANGED vars
    BY <1>1, RequestsUnchanged DEF vars, lifeVars, serviceVars, RequestInv, Posted
  <1>2. CASE Start \/ StarterStep \/ AcceptCompletes
    BY <1>2, Names, MovesKeep, FinishKeeps, AcceptKeeps, AcceptOkKeeps, ProcessKeeps,
       HandleItemKeeps, FinishManagerKeeps, DrainKeeps DEF StarterStep, RunJob
  <1>3. CASE OwnerStep
    BY <1>3, Names, MovesKeep, FinishKeeps DEF OwnerStep, StopperStep
  <1>4. CASE \/ \E t \in Stoppers : StopperStep(t)
             \/ \E t \in Stoppers \union {"owner"} : Stop(t)
    BY <1>4, Names, MovesKeep, FinishKeeps DEF StopperStep
  <1>5. CASE \/ \E r \in Requests : InvokeHandler(r) \/ ConnectionEnds(r)
             \/ \E h \in Handlers : Take(h) \/ Reply(h)
    BY <1>5, ReadKeeps, TakeKeeps, ReplyKeeps
  <1>6. CASE \E p \in Providers : ProviderReturns(p)
    BY <1>6, RequestsUnchanged DEF ProviderReturns, lifeVars, serviceVars, RequestInv, Posted
  <1>. QED
    BY <1>1, <1>2, <1>3, <1>4, <1>5, <1>6 DEF Next

-----------------------------------------------------------------------------

\* The invariant holds in every reachable state.
LEMMA ServerInvariant == Spec => [](TypeOK /\ LifeInv /\ RequestInv)
  <1>1. Init => LifeInv
    BY Names DEF Init, LifeInv
  <1>2. Init => RequestInv
    BY Names DEF Init, RequestInv, Queued, QueuedIn, Handled, Posted, PostedIn, Answered, Drained,
                 NoConnectionSurvives, In
  <1>. QED
    BY <1>1, <1>2, InitType, NextType, NextLife, NextRequests, PTL DEF Spec

\* Every variable of the server keeps its type, for any threads and requests.
THEOREM ServerTypes == Spec => []TypeOK
  BY ServerInvariant, PTL

\* A request is answered at most once, by a handler thread or by
\* wait_for_complete(), however the threads of stop() interleave with it.
THEOREM OneAnswer == Spec => []AnsweredOnce
  <1>1. RequestInv => AnsweredOnce
    BY DEF RequestInv, Answered, AnsweredOnce
  <1>. QED
    BY <1>1, ServerInvariant, PTL

\* When start() has returned, nothing is left in the handler invoker's queue.
THEOREM QueueLeftEmpty == Spec => []NoRequestForgotten
  <1>1. RequestInv => NoRequestForgotten
    BY DEF RequestInv, Drained, NoRequestForgotten
  <1>. QED
    BY <1>1, ServerInvariant, PTL

\* Once the manager is finished no connection is open, also by a late answer.
THEOREM AllClosed == Spec => []NoConnectionSurvives
  <1>1. RequestInv => NoConnectionSurvives
    BY DEF RequestInv
  <1>. QED
    BY <1>1, ServerInvariant, PTL

\* The destructor does not return before start() and the providers have, and
\* never needs its wait for start(): the mutex it takes is held by all of start().
THEOREM DestroyedLast == Spec => []OutlivesItsThreads
  <1>1. LifeInv => OutlivesItsThreads
    BY DEF LifeInv, OutlivesItsThreads
  <1>. QED
    BY <1>1, ServerInvariant, PTL
=============================================================================
