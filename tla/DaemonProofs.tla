---------------------------- MODULE DaemonProofs ----------------------------
(***************************************************************************)
(* Proofs about Daemon, for any threads, settings and modules.             *)
(*                                                                         *)
(* Threads are only there while somebody refers to the object that joins   *)
(* them, or while it joins them (Referred); who refers to it goes before   *)
(* what the threads use, in the order of the members (Ordered), however    *)
(* far init() came (SetUp).                                                *)
(***************************************************************************)
EXTENDS Daemon, WellFoundedInduction, TLAPS

MemberSet == {Members[i] : i \in 1..12}

\* The members that go before the logger, and the data.
Early == {"message_queue", "acceptor", "ssl_acceptor", "handler_invoker", "connection_traits",
          "ssl_connection_traits", "listener", "connection_manager"}

States == {"unborn", "idle", "busy", "posting", "ended"}
Alive(w) == worker[w] \in {"idle", "busy", "posting"}

\* Where the main thread is when it has joined the providers.
Joining  == {"join_handlers", "join_listeners"}
Clearing == {"members", "exited"} \union Joining

\* While there is a thread, there is who joins it.
Referred ==
    /\ worker \in [Workers -> States]
    /\ \A h \in Handlers : Alive(h) => Invoker(members) \/ pc = "join_handlers"
    /\ \A l \in Listeners : Alive(l) => Listener(members) \/ pc = "join_listeners"
    /\ \A p \in Providers : Alive(p) => {"message_queue", "logger"} \subseteq members /\ pc \notin Clearing

\* What the threads use goes after who joins them.
Ordered ==
    /\ members \subseteq MemberSet
    /\ Invoker(members) \/ pc = "join_handlers" => {"strand", "logger", "listener"} \subseteq members
    /\ Early \intersect members # {} => {"data", "strand"} \subseteq members
    /\ pc = "join_listeners" => {"data", "strand"} \subseteq members \/ "manager" \in jobs

\* How far the server is set up.
SetUp ==
    /\ pc \notin Clearing => Constructed \subseteq members
    /\ pc = "init" =>
          /\ step \in 1..8
          /\ step > 1 => "logger" \in members
          /\ step > 3 => "handler_invoker" \in members
          /\ step > 5 => "message_queue" \in members

Inv == Referred /\ Ordered /\ SetUp

\* The members and the steps of init(), one by one.
LEMMA MembersInOrder ==
    /\ Len(Members) = 12 /\ Len(Steps) = 8
    /\ MemberSet = Early \union {"logger", "data", "strand", "io"}
  BY DEF Members, Steps, MemberSet, Early

\* The members that the next member to go finds are those after it.
LEMMA FirstMember ==
    ASSUME members \subseteq MemberSet, members # {}
    PROVE  LET first == CHOOSE i \in 1..Len(Members) :
                          Members[i] \in members /\ \A j \in 1..(i - 1) : Members[j] \notin members
           IN  /\ first \in 1..12 /\ Members[first] \in members
               /\ \A j \in 1..(first - 1) : Members[j] \notin members
  <1>. DEFINE P(i) == Members[i] \in members /\ \A j \in 1..(i - 1) : Members[j] \notin members
  <1>1. \E i \in 1..12 : P(i)
    <2>. DEFINE T == {i \in 1..12 : Members[i] \in members}
                R == OpToRel(<, Nat)
    <2>1. T # {} /\ T \subseteq Nat
      BY DEF MemberSet
    <2>2. IsWellFoundedOn(R, Nat)
      BY NatLessThanWellFounded
    <2>3. PICK i \in T : \A j \in T : ~(<<j, i>> \in R)
      <3>. HIDE DEF T, R
      <3>. QED
        BY <2>1, <2>2, WFMin, Zenon
    <2>4. \A m, n \in Nat : m < n => <<m, n>> \in R
      BY DEF OpToRel
    <2>5. \A j \in T : ~(j < i)
      <3>. HIDE DEF T, R
      <3>. QED
        BY <2>1, <2>3, <2>4
    <2>. QED
      BY <2>5
  <1>. QED
    BY <1>1, MembersInOrder

\* What leaves the members and the threads alone.
LEMMA ServerUnchanged ==
    ASSUME Inv, UNCHANGED <<members, worker>>, jobs \subseteq jobs' \/ pc \notin Clearing,
           pc' = pc \/ (pc \notin Joining /\ pc' \notin Joining),
           pc' \notin Clearing => pc \notin Clearing,
           pc' \in Clearing => pc \in Clearing \/ AllEnded(Providers),
           pc' = "init" => (pc = "init" /\ step' = step) \/ step' = 1
    PROVE  Inv'
  <1>1. Referred'
    <2>1. /\ worker' \in [Workers -> States]
          /\ \A w \in Workers : Alive(w)' <=> Alive(w)
      BY DEF Inv, Referred, Alive
    <2>2. Invoker(members) <=> Invoker(members)'
      BY DEF Invoker
    <2>3. Listener(members) => Listener(members)'
      BY DEF Inv, SetUp, Listener, Manager, Constructed
    <2>4. /\ pc = "join_handlers" => pc' = "join_handlers"
          /\ pc = "join_listeners" => pc' = "join_listeners"
      BY DEF Joining
    <2>5. \A p \in Providers : Alive(p) => pc' \notin Clearing
      BY DEF Inv, Referred, Alive, AllEnded
    <2>. QED
      BY <2>1, <2>2, <2>3, <2>4, <2>5 DEF Inv, Referred, Workers
  <1>2. Ordered'
    BY DEF Inv, Ordered, Invoker, Joining, Clearing
  <1>3. SetUp'
    BY DEF Inv, SetUp
  <1>. QED
    BY <1>1, <1>2, <1>3 DEF Inv

\* init() starts at its first step, with no provider.
FirstStep == pc \in {"arguments", "modules", "load"} => step = 1 /\ AllEnded(Providers)

\* The steps of main() before init(), and of start().
LEMMA MainKeeps ==
    ASSUME Inv, FirstStep,
           \/ \E argv \in Arguments : ReadArguments(argv)
           \/ NextModule \/ load_module \/ ModulesLoaded \/ Start \/ RunJobs \/ StopServer
           \/ StartReturns \/ Destroy \/ JoinProviders \/ Unload
    PROVE  Inv' /\ FirstStep'
  <1>1. UNCHANGED <<members, worker, step>>
    BY DEF ReadArguments, NextModule, load_module, ModulesLoaded, Start, RunJobs, StopServer,
           StartReturns, Destroy, JoinProviders, Unload, serverVars
  <1>2. jobs \subseteq jobs' \/ pc \notin Clearing
    <2>1. CASE RunJobs
      BY <2>1 DEF RunJobs, Clearing, Joining
    <2>2. CASE ~RunJobs
      BY <2>2 DEF ReadArguments, NextModule, load_module, ModulesLoaded, Start, StopServer,
                  StartReturns, Destroy, JoinProviders, Unload, serverVars
    <2>. QED
      BY <2>1, <2>2
  <1>3. /\ pc' = pc \/ (pc \notin Joining /\ pc' \notin Joining)
        /\ pc' \notin Clearing => pc \notin Clearing
        /\ pc' \in Clearing => pc \in Clearing \cup {"join", "arguments"}
        /\ pc' \in Clearing /\ pc = "join" => AllEnded(Providers)
        /\ pc' = "init" => step = 1
        /\ pc' \in {"arguments", "modules", "load"} => pc \in {"arguments", "modules", "load"}
    BY DEF FirstStep, ReadArguments, BadConfig, Exit, NextModule, load_module, ModulesLoaded, Start,
           RunJobs, StopServer, StartReturns, Destroy, JoinProviders, Unload, mainVars, Clearing, Joining
  <1>4. AllEnded(Providers)' <=> AllEnded(Providers)
    BY <1>1 DEF AllEnded
  <1>. QED
    BY <1>1, <1>2, <1>3, <1>4, ServerUnchanged DEF FirstStep

\* The threads: no step of theirs makes one.
LEMMA WorkerKeeps ==
    ASSUME Inv, FirstStep, NEW w \in Workers, Take(w) \/ Done(w) \/ Post(w) \/ Ends(w)
    PROVE  Inv' /\ FirstStep'
  <1>1. /\ UNCHANGED <<mainVars, members, step>> /\ jobs \subseteq jobs'
        /\ worker' \in [Workers -> States]
        /\ \A u \in Workers : Alive(u)' => Alive(u)
    <2>1. \E state \in {"idle", "busy", "posting", "ended"} : worker' = [worker EXCEPT ![w] = state]
      BY DEF Take, Done, Post, Ends
    <2>2. worker \in [Workers -> States] /\ Alive(w)
      BY DEF Take, Done, Post, Ends, Inv, Referred, Alive
    <2>. QED
      BY <2>1, <2>2 DEF Take, Done, Post, Ends, Alive, States
  <1>2. Referred'
    <2>1. pc' = pc
      BY <1>1 DEF mainVars
    <2>2. Listener(members) => Listener(members)'
      BY <1>1 DEF Listener, Manager
    <2>3. Invoker(members) => Invoker(members)'
      BY <1>1 DEF Invoker
    <2>. QED
      BY <1>1, <2>1, <2>2, <2>3 DEF Inv, Referred, Workers
  <1>3. Ordered' /\ SetUp'
    BY <1>1 DEF Inv, Ordered, SetUp, Invoker, mainVars
  <1>4. FirstStep'
    <2>1. AllEnded(Providers) => AllEnded(Providers)'
      BY <1>1 DEF AllEnded, Alive, Workers, States
    <2>. QED
      BY <1>1, <2>1 DEF FirstStep, mainVars
  <1>. QED
    BY <1>2, <1>3, <1>4 DEF Inv

\* A step of init() sets members and makes threads: whoever joins the threads is
\* there by then.
LEMMA InitKeeps ==
    ASSUME Inv, InitStep \/ InitFails
    PROVE  Inv' /\ FirstStep'
  <1>1. pc = "init" /\ step \in 1..8 /\ Constructed \subseteq members
    BY DEF InitStep, InitFails, Inv, SetUp, Clearing, Joining
  <1>2. PICK secure \in Secure : members' = members \union SetBy(Steps[step], secure)
    BY DEF InitStep, InitFails
  <1>3. PICK ws \in SUBSET CreatedBy(Steps[step]) : Create(ws)
    BY DEF InitStep, InitFails
  <1>4. jobs' = jobs /\ (pc' = "init" => step < 8 /\ step' = step + 1)
                     /\ pc' \in {"init", "start", "destroy"}
    BY <1>1, MembersInOrder DEF InitStep, InitFails
  <1>5. /\ Steps[1] = "data" /\ Steps[2] = "ssl_port" /\ Steps[3] = "traits"
        /\ Steps[4] = "handlers" /\ Steps[5] = "queue" /\ Steps[6] = "listeners"
        /\ Steps[7] = "bind" /\ Steps[8] = "providers"
    BY DEF Steps
  <1>6. /\ step = 1 => members' = members \union {"logger"}
        /\ step = 3 => /\ members \union {"handler_invoker", "connection_manager",
                                          "connection_traits", "acceptor"} \subseteq members'
                       /\ members' \subseteq members \union Early
        /\ step \notin {1, 3} => members' \subseteq members \union {"message_queue"}
        /\ members \subseteq members'
    BY <1>1, <1>2, <1>5 DEF SetBy, Early
  <1>7. /\ worker' \in [Workers -> States]
        /\ \A h \in Handlers : step # 4 => worker'[h] = worker[h]
        /\ \A p \in Providers : step # 8 => worker'[p] = worker[p]
    <2>1. step # 4 => CreatedBy(Steps[step]) \intersect Handlers = {}
      <3>1. step # 4 => Steps[step] # "handlers"
        BY <1>1, <1>5
      <3>2. Steps[step] # "handlers" => CreatedBy(Steps[step]) \in {{}, Listeners, Providers}
        BY DEF CreatedBy
      <3>. QED
        BY <3>1, <3>2, WorkersAssumption
    <2>4. step # 8 => CreatedBy(Steps[step]) \intersect Providers = {}
      <3>1. step # 8 => Steps[step] # "providers"
        BY <1>1, <1>5
      <3>2. Steps[step] # "providers" => CreatedBy(Steps[step]) \in {{}, Listeners, Handlers}
        BY DEF CreatedBy
      <3>. QED
        BY <3>1, <3>2, WorkersAssumption
    <2>2. worker' = [w \in Workers |-> IF w \in ws THEN "idle" ELSE worker[w]]
      BY <1>3 DEF Create
    <2>3. \A w \in Workers : worker[w] \in States
      BY DEF Inv, Referred
    <2>. QED
      BY <1>3, <2>1, <2>2, <2>3, <2>4 DEF Workers, States
  <1>8. Referred'
    <2>1. pc = "init" /\ pc' \notin Clearing /\ pc \notin Joining
      BY <1>1, <1>4 DEF Clearing, Joining
    <2>2. \A h \in Handlers : Alive(h)' => Invoker(members)
      BY <1>1, <1>7, <2>1 DEF Inv, Referred, SetUp, Invoker, Alive, Joining
    <2>3. Invoker(members) => Invoker(members)'
      BY <1>6 DEF Invoker
    <2>4. Listener(members)'
      BY <1>1, <1>6 DEF Constructed, Listener
    <2>5. \A p \in Providers : Alive(p)' => {"message_queue", "logger"} \subseteq members
      BY <1>1, <1>7 DEF Inv, Referred, SetUp, Alive
    <2>. QED
      BY <1>6, <1>7, <2>1, <2>2, <2>3, <2>4, <2>5 DEF Referred
  <1>9. Ordered'
    BY <1>1, <1>4, <1>6, MembersInOrder DEF Inv, Ordered, SetUp, Invoker, Constructed, Early
  <1>10. SetUp'
    <2>1. step = 5 => "message_queue" \in members'
      BY <1>2, <1>5 DEF SetBy
    <2>. QED
      BY <1>1, <1>4, <1>6, <2>1 DEF Inv, SetUp
  <1>11. FirstStep'
    BY <1>4 DEF FirstStep
  <1>. QED
    BY <1>8, <1>9, <1>10, <1>11 DEF Inv

\* A member goes.  When it is the last one to refer to an object that joins
\* threads, they are joined next, and what they use goes later.
LEMMA MemberKeeps ==
    ASSUME Inv, DestroyMember
    PROVE  Inv' /\ FirstStep'
  <1>. DEFINE first == CHOOSE i \in 1..Len(Members) :
                         Members[i] \in members /\ \A j \in 1..(i - 1) : Members[j] \notin members
              left == members \ {Members[first]}
  <1>1. /\ members' = left /\ pc = "members"
        /\ pc' = IF Invoker(members) /\ ~Invoker(left) THEN "join_handlers"
                 ELSE IF Listener(members) /\ ~Listener(left) THEN "join_listeners"
                 ELSE "members"
        /\ UNCHANGED <<step, worker, jobs>>
    BY DEF DestroyMember
  <1>2. /\ first \in 1..12 /\ Members[first] \in members
        /\ \A j \in 1..(first - 1) : Members[j] \notin members
    BY FirstMember DEF DestroyMember, Inv, Ordered
  <1>. HIDE DEF first
  <1>3. Members[first] \in {"logger", "data", "strand", "io"} => Early \intersect members = {}
    BY <1>2 DEF Members, Early
  <1>4. Members[first] = "listener" => ~Invoker(members)
    BY <1>2 DEF Members, Invoker
  <1>5. Ordered'
    <2>1. members' \subseteq MemberSet
      BY <1>1 DEF Inv, Ordered
    <2>2. Invoker(members)' \/ pc' = "join_handlers" => {"strand", "logger", "listener"} \subseteq members'
      <3>1. Invoker(members)' \/ pc' = "join_handlers" => Invoker(members)
        BY <1>1 DEF Invoker
      <3>2. Invoker(members) => Early \intersect members # {}
        BY DEF Invoker, Early
      <3>. QED
        BY <1>1, <1>3, <1>4, <3>1, <3>2 DEF Inv, Ordered
    <2>3. Early \intersect members' # {} => {"data", "strand"} \subseteq members'
      BY <1>1, <1>3 DEF Inv, Ordered
    <2>4. pc' = "join_listeners" => {"data", "strand"} \subseteq members' \/ "manager" \in jobs'
      <3>1. pc' = "join_listeners" /\ "manager" \notin jobs => Members[first] \in Early
        BY <1>1 DEF Listener, Manager, Early
      <3>2. Members[first] \in Early => {"data", "strand"} \subseteq members'
        BY <1>1, <1>2 DEF Inv, Ordered, Early
      <3>. QED
        BY <1>1, <3>1, <3>2
    <2>. QED
      BY <2>1, <2>2, <2>3, <2>4 DEF Ordered
  <1>6. Referred'
    <2>1. /\ worker' \in [Workers -> States]
          /\ \A w \in Workers : Alive(w)' <=> Alive(w)
      BY <1>1 DEF Inv, Referred, Alive
    <2>2. \A h \in Handlers : Alive(h) => Invoker(members)' \/ pc' = "join_handlers"
      BY <1>1 DEF Inv, Referred, Invoker
    <2>3. Listener(members) => Listener(members)' \/ pc' = "join_listeners"
      <3>1. Invoker(members) => "listener" \in left
        BY <1>4 DEF Inv, Ordered
      <3>2. Listener(left) => Listener(members)'
        BY <1>1 DEF Listener, Manager
      <3>3. "listener" \in left => Listener(left)
        BY DEF Listener
      <3>. QED
        BY <1>1, <3>1, <3>2, <3>3
    <2>4. \A p \in Providers : ~Alive(p)
      BY <1>1 DEF Inv, Referred, Clearing
    <2>. QED
      BY <1>1, <2>1, <2>2, <2>3, <2>4 DEF Inv, Referred, Workers
  <1>7. SetUp' /\ FirstStep'
    BY <1>1 DEF SetUp, FirstStep, Clearing, Joining
  <1>. QED
    BY <1>5, <1>6, <1>7 DEF Inv

\* The threads that were waited for have ended.
LEMMA JoinKeeps ==
    ASSUME Inv, JoinThreads
    PROVE  Inv' /\ FirstStep'
  <1>1. /\ pc' = "members" /\ UNCHANGED <<members, worker, jobs, step>>
        /\ \/ pc = "join_handlers" /\ AllEnded(Handlers)
           \/ pc = "join_listeners" /\ AllEnded(Listeners)
    BY DEF JoinThreads, serverVars
  <1>2. Referred'
    <2>1. /\ worker' \in [Workers -> States]
          /\ \A w \in Workers : Alive(w)' <=> Alive(w)
      BY <1>1 DEF Inv, Referred, Alive
    <2>2. \A h \in Handlers : Alive(h) => Invoker(members)'
      BY <1>1 DEF Inv, Referred, Invoker, AllEnded, Alive
    <2>3. \A l \in Listeners : Alive(l) => Listener(members)
      BY <1>1 DEF Inv, Referred, AllEnded, Alive
    <2>4. Listener(members) => Listener(members)'
      BY <1>1 DEF Listener, Manager
    <2>5. \A p \in Providers : ~Alive(p)
      BY <1>1 DEF Inv, Referred, Clearing, Joining
    <2>. QED
      BY <2>1, <2>2, <2>3, <2>4, <2>5 DEF Referred, Workers
  <1>3. Ordered' /\ SetUp' /\ FirstStep'
    BY <1>1 DEF Inv, Ordered, SetUp, FirstStep, Invoker, Clearing
  <1>. QED
    BY <1>2, <1>3 DEF Inv

\* Every step keeps the invariant.
LEMMA NextInv == Inv /\ FirstStep /\ [Next]_vars => Inv' /\ FirstStep'
  <1>. SUFFICES ASSUME Inv, FirstStep, [Next]_vars PROVE Inv' /\ FirstStep'
    OBVIOUS
  <1>1. CASE UNCHANGED vars
    BY <1>1, ServerUnchanged DEF vars, mainVars, serverVars, FirstStep, Inv, SetUp, AllEnded
  <1>2. CASE \E w \in Workers : Take(w) \/ Done(w) \/ Post(w) \/ Ends(w)
    BY <1>2, WorkerKeeps
  <1>. QED
    BY <1>1, <1>2, MainKeeps, InitKeeps, MemberKeeps, JoinKeeps DEF Next, MainSteps

\* A thread still finds what it uses, of the members of the server that are
\* destroyed, however far init() came and whatever stop() left in the io_service.
THEOREM ThreadsFindWhatTheyUse == Spec => []ThreadsEndFirst
  <1>1. Init => Inv /\ FirstStep
    <2>. SUFFICES ASSUME Init PROVE Inv /\ FirstStep
      OBVIOUS
    <2>1. worker = [w \in Workers |-> "unborn"]
      BY DEF Init
    <2>2. Referred /\ AllEnded(Providers)
      BY <2>1 DEF Referred, Workers, Alive, AllEnded, States
    <2>3. members = Constructed /\ step = 1 /\ pc \in {"arguments", "init"}
      BY DEF Init
    <2>4. Ordered
      BY <2>3, MembersInOrder DEF Ordered, Constructed, Invoker, Early
    <2>5. SetUp /\ FirstStep
      BY <2>2, <2>3 DEF SetUp, FirstStep
    <2>. QED
      BY <2>2, <2>4, <2>5 DEF Inv
  <1>2. Inv => ThreadsEndFirst
    <2>. SUFFICES ASSUME Inv PROVE ThreadsEndFirst
      OBVIOUS
    <2>1. \A h \in Handlers : worker[h] = "busy" => {"strand", "logger"} \subseteq members
      BY DEF Inv, Referred, Ordered, Alive
    <2>2. \A l \in Listeners : worker[l] \in {"busy", "posting"} =>
                                  {"data", "strand"} \subseteq members \/ "manager" \in jobs
      <3>1. Listener(members) => Early \intersect members # {} \/ "manager" \in jobs
        BY DEF Listener, Manager, Early
      <3>. QED
        BY <3>1 DEF Inv, Referred, Ordered, Alive
    <2>3. \A p \in Providers : worker[p] \in {"idle", "busy"} => {"message_queue", "logger"} \subseteq members
      BY DEF Inv, Referred, Alive
    <2>. QED
      BY <2>1, <2>2, <2>3 DEF ThreadsEndFirst
  <1>. QED
    BY <1>1, <1>2, NextInv, PTL DEF Spec
=============================================================================
