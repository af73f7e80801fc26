------------------------ MODULE ThreadedQueueProofs ------------------------
(***************************************************************************)
(* Proofs about ThreadedQueue, for any threads and any number of items.    *)
(*                                                                         *)
(* The invariant says what a thread inside the mutex has found out and may *)
(* still rely on (Certain), and that work in the queue leaves a thread     *)
(* waiting only until the thread that brought it has notified (Awake).     *)
(***************************************************************************)
EXTENDS ThreadedQueue, TLAPS

\* Whoever is inside has the mutex.
Exclusive == \A t \in Threads : at[t] \in Inside => mutex = t

\* Producers, consumers and stoppers are in their own calls, and a producer
\* that calls has an item left.
AtHome ==
    \A t \in Threads :
        /\ at[t] \in {"sleep", "check", "take", "wait"} => t \in Consumers
        /\ at[t] \in {"relock", "set", "swap"} => t \in Stoppers
        /\ t \in Producers /\ at[t] \in {"lock", "push"} => sent[t] < MaxItems

\* What was true when a thread looked is true when it acts.
Certain ==
    \A t \in Threads :
        /\ at[t] = "sleep" => items = <<>> /\ ~finished
        /\ at[t] = "take" => items # <<>> /\ ~finished
        /\ t \in Stoppers /\ at[t] \in {"notify", "unlock", "relock", "swap"} => finished

\* A thread waits for a queue without work, or is about to be notified.
Awake ==
    (\E c \in Threads : at[c] = "wait") =>
        \/ items = <<>> /\ ~finished
        \/ \E t \in Threads : at[t] = "notify"

Inv == TypeOK /\ Exclusive /\ AtHome /\ Certain /\ Awake

\* Sequences of items stay sequences of items.
LEMMA ItemSequences ==
    /\ <<>> \in Seq(Item)
    /\ \A s \in Seq(Item), i \in Item : Append(s, i) \in Seq(Item) /\ Append(s, i) # <<>>
    /\ \A s, r \in Seq(Item) : s \o r \in Seq(Item)
    /\ \A s \in Seq(Item) : s # <<>> => Head(s) \in Item /\ Tail(s) \in Seq(Item)
  BY SMTT(30)

\* Nobody is inside an empty queue.
LEMMA InitInv == Init => Inv
  <1>. SUFFICES ASSUME Init PROVE Inv
    OBVIOUS
  <1>1. TypeOK
    <2>1. items \in Seq(Item) /\ taken \in Seq(Item) /\ drained \in Seq(Item)
      BY ItemSequences, Zenon DEF Init
    <2>2. at \in [Threads -> Place] /\ sent \in [Producers -> 0..MaxItems]
      BY BoundAssumption DEF Init, Place
    <2>3. finished \in BOOLEAN /\ mutex \in Threads \union {NoOne}
      BY Zenon DEF Init
    <2>4. spurious \in 0..MaxSpurious
      BY BoundAssumption DEF Init
    <2>. QED
      BY <2>1, <2>2, <2>3, <2>4 DEF TypeOK
  <1>2. Exclusive /\ AtHome /\ Certain /\ Awake
    BY DEF Init, Exclusive, AtHome, Certain, Awake, Inside
  <1>. QED
    BY <1>1, <1>2 DEF Inv

\* A step that only moves one thread.
LEMMA MoveKeeps ==
    ASSUME Inv, NEW t \in Threads,
           \/ Call(t) \/ Lock(t) \/ Unlock(t) \/ Wait(t) \/ WakeUp(t)
           \/ t \in Consumers /\ Check(t)
    PROVE  Inv'
  <1>. USE ThreadAssumption DEF Inv
  <1>1. TypeOK'
    <2>1. PICK place \in Place : at' = [at EXCEPT ![t] = place]
      BY DEF Call, Lock, Unlock, Wait, WakeUp, Check, Go, FirstPlace, Place, Inside
    <2>2. at' \in [Threads -> Place] /\ mutex' \in Threads \union {NoOne}
      BY <2>1 DEF TypeOK, Call, Lock, Unlock, Wait, WakeUp, Check
    <2>3. spurious' \in 0..MaxSpurious
      BY BoundAssumption DEF TypeOK, Call, Lock, Unlock, Wait, WakeUp, Check
    <2>4. UNCHANGED <<queueVars, sent>>
      BY DEF Call, Lock, Unlock, Wait, WakeUp, Check
    <2>. QED
      BY <2>2, <2>3, <2>4 DEF TypeOK, queueVars
  <1>. USE DEF TypeOK, Go, queueVars
  <1>2. CASE Call(t)
    BY <1>1, <1>2 DEF Call, Exclusive, AtHome, Certain, Awake, Inside
  <1>3. CASE Lock(t)
    <2>1. Exclusive'
      BY <1>3 DEF Lock, FirstPlace, Exclusive, Inside
    <2>2. AtHome'
      BY <1>3 DEF Lock, FirstPlace, AtHome, Threads
    <2>3. Certain'
      BY <1>3 DEF Lock, FirstPlace, Certain
    <2>4. Awake'
      BY <1>3 DEF Lock, FirstPlace, Awake
    <2>. QED
      BY <1>1, <2>1, <2>2, <2>3, <2>4
  <1>4. CASE Unlock(t)
    BY <1>1, <1>4 DEF Unlock, Exclusive, AtHome, Certain, Awake, Inside
  <1>5. CASE Wait(t)
    BY <1>1, <1>5 DEF Wait, Exclusive, AtHome, Certain, Awake, Inside
  <1>6. CASE WakeUp(t)
    BY <1>1, <1>6 DEF WakeUp, Exclusive, AtHome, Certain, Awake, Inside
  <1>7. CASE t \in Consumers /\ Check(t)
    BY <1>1, <1>7 DEF Check, Exclusive, AtHome, Certain, Awake, Inside
  <1>. QED
    BY <1>2, <1>3, <1>4, <1>5, <1>6, <1>7
\* notify_all() leaves nobody waiting.
LEMMA NotifyKeeps ==
    ASSUME Inv, NEW t \in Threads, Notify(t)
    PROVE  Inv'
  <1>. USE ThreadAssumption DEF Inv
  <1>1. at' \in [Threads -> Place]
    BY DEF Notify, TypeOK, Place, Inside
  <1>2. TypeOK'
    BY <1>1 DEF Notify, TypeOK, queueVars
  <1>3. \A u \in Threads :
            /\ at'[u] # "wait" /\ at'[t] = "unlock"
            /\ u # t => at'[u] = at[u] \/ (at[u] = "wait" /\ at'[u] = "lock")
    BY DEF Notify, TypeOK
  <1>4. Exclusive' /\ AtHome' /\ Certain' /\ Awake'
    BY <1>3 DEF Notify, Exclusive, AtHome, Certain, Awake, Inside, TypeOK, queueVars
  <1>. QED
    BY <1>2, <1>4

\* push() adds its item and has to notify, or leaves a finished queue alone.
LEMMA PushKeeps ==
    ASSUME Inv, NEW p \in Producers, Push(p)
    PROVE  Inv' /\ (UNCHANGED Contract!vars \/ \E i \in Item : Contract!Push(i))
  <1>. USE ThreadAssumption DEF Inv
  <1>1. p \in Threads /\ mutex = p /\ at[p] = "push" /\ sent[p] < MaxItems
    BY DEF Push, Exclusive, AtHome, Inside, Threads
  <1>. DEFINE i == <<p, sent[p] + 1>>
  <1>2. i \in Item /\ sent' \in [Producers -> 0..MaxItems] /\ sent'[p] = sent[p] + 1
    BY <1>1, BoundAssumption DEF Push, Item, TypeOK
  <1>3. \/ finished /\ UNCHANGED items /\ Go(p, "unlock")
        \/ ~finished /\ items' = Append(items, i) /\ Go(p, "notify")
    BY <1>2 DEF Push
  <1>4. UNCHANGED <<finished, mutex, spurious, taken, drained>>
    BY DEF Push
  <1>. HIDE DEF i
  <1>5. items' \in Seq(Item) /\ (~finished => items' # <<>>)
    BY <1>2, <1>3, ItemSequences, Zenon DEF TypeOK
  <1>6. at' \in [Threads -> Place]
    BY <1>1, <1>3 DEF TypeOK, Go, Place, Inside
  <1>7. TypeOK'
    BY <1>2, <1>4, <1>5, <1>6 DEF TypeOK
  <1>8. /\ at'[p] \in {"unlock", "notify"} /\ (~finished => at'[p] = "notify")
        /\ \A t \in Threads : t # p => at'[t] = at[t] /\ at[t] \notin Inside
    BY <1>1, <1>3 DEF TypeOK, Go, Exclusive
  <1>9. Exclusive'
    BY <1>1, <1>4, <1>8 DEF Exclusive
  <1>10. AtHome'
    <2>1. \A t \in Producers : t # p => sent'[t] = sent[t]
      BY DEF Push, TypeOK
    <2>. QED
      BY <1>8, <2>1 DEF AtHome
  <1>11. Certain'
    BY <1>4, <1>8 DEF Certain, Inside
  <1>12. Awake'
    BY <1>1, <1>3, <1>4, <1>8 DEF Awake
  <1>13. UNCHANGED Contract!vars \/ Contract!Push(i)
    BY <1>3, <1>4 DEF Contract!vars, Contract!Push
  <1>. QED
    BY <1>2, <1>7, <1>9, <1>10, <1>11, <1>12, <1>13

\* pop() and pop_all() take what they have seen.
LEMMA TakeKeeps ==
    ASSUME Inv, NEW c \in Consumers, Take(c)
    PROVE  Inv' /\ (Contract!Pop \/ Contract!PopAll)
  <1>. USE ThreadAssumption DEF Inv
  <1>1. c \in Threads /\ mutex = c /\ at[c] = "take" /\ items # <<>> /\ ~finished
    BY DEF Take, Exclusive, Certain, Inside, Threads
  <1>2. UNCHANGED <<finished, mutex, sent, spurious, drained>>
    BY DEF Take
  <1>3. /\ items' \in Seq(Item) /\ taken' \in Seq(Item)
        /\ Contract!Pop \/ Contract!PopAll
    <2>1. CASE c \in AllTakers
      <3>1. taken' = taken \o items /\ items' = <<>>
        BY <2>1 DEF Take
      <3>. QED
        BY <1>1, <1>2, <3>1, ItemSequences, Zenon DEF TypeOK, Contract!PopAll
    <2>2. CASE c \notin AllTakers
      <3>1. taken' = Append(taken, Head(items)) /\ items' = Tail(items)
        BY <1>1, <2>2 DEF Take, Front, Rest
      <3>. QED
        BY <1>1, <1>2, <3>1, ItemSequences, Zenon DEF TypeOK, Contract!Pop
    <2>. QED
      BY <2>1, <2>2
  <1>4. at' \in [Threads -> Place]
    BY <1>1 DEF Take, TypeOK, Go, Place, Inside
  <1>5. TypeOK'
    BY <1>2, <1>3, <1>4 DEF TypeOK
  <1>6. at'[c] = "unlock" /\ \A t \in Threads : t # c => at'[t] = at[t] /\ at[t] \notin Inside
    BY <1>1 DEF Take, TypeOK, Go, Exclusive
  <1>7. Exclusive' /\ AtHome' /\ Certain'
    BY <1>1, <1>2, <1>6 DEF Exclusive, AtHome, Certain, Inside
  <1>8. ~\E t \in Threads : at[t] = "notify"
    BY <1>1, <1>6 DEF Inside
  <1>9. Awake'
    BY <1>1, <1>6, <1>8 DEF Awake
  <1>. QED
    BY <1>3, <1>5, <1>7, <1>9

\* finish() has to notify; swap_data() finds the queue finished.
LEMMA StopKeeps ==
    ASSUME Inv, NEW s \in Stoppers, Finish(s) \/ SwapData(s)
    PROVE  Inv' /\ (Contract!Finish \/ Contract!SwapData)
  <1>. USE ThreadAssumption DEF Inv
  <1>1. /\ s \in Threads /\ mutex = s /\ at[s] \in {"set", "swap"}
        /\ at[s] = "swap" => finished
    BY DEF Finish, SwapData, Exclusive, Certain, Inside, Threads
  <1>2. /\ UNCHANGED <<mutex, sent, spurious, taken>>
        /\ finished' = TRUE /\ items' \in {items, <<>>}
        /\ Contract!Finish \/ Contract!SwapData
    BY <1>1 DEF Finish, SwapData, Contract!Finish, Contract!SwapData
  <1>3. items' \in Seq(Item) /\ drained' \in Seq(Item)
    <2>1. CASE Finish(s)
      BY <2>1, Zenon DEF Finish, TypeOK
    <2>2. CASE SwapData(s)
      BY <2>2, ItemSequences, Zenon DEF SwapData, TypeOK
    <2>. QED
      BY <2>1, <2>2
  <1>4. at' \in [Threads -> Place]
    BY <1>1 DEF Finish, SwapData, TypeOK, Go, Place, Inside
  <1>5. TypeOK'
    BY <1>2, <1>3, <1>4 DEF TypeOK
  <1>6. /\ at'[s] \in {"notify", "leave"} /\ (at[s] = "set" => at'[s] = "notify")
        /\ \A t \in Threads : t # s => at'[t] = at[t] /\ at[t] \notin Inside
    BY <1>1 DEF Finish, SwapData, TypeOK, Go, Exclusive
  <1>7. Exclusive' /\ AtHome' /\ Certain'
    BY <1>1, <1>2, <1>6 DEF Exclusive, AtHome, Certain, Inside
  <1>8. Awake'
    BY <1>1, <1>6 DEF Awake, Inside
  <1>. QED
    BY <1>2, <1>5, <1>7, <1>8

\* Every step keeps the invariant and implements a step of the contract.
LEMMA StepKeeps == Inv /\ [Next]_vars => Inv' /\ [Contract!Next]_(Contract!vars)
  <1>. SUFFICES ASSUME Inv, [Next]_vars PROVE Inv' /\ [Contract!Next]_(Contract!vars)
    OBVIOUS
  <1>. USE DEF Contract!Next
  <1>1. ASSUME NEW t \in Threads,
               \/ Call(t) \/ Lock(t) \/ Unlock(t) \/ Wait(t) \/ WakeUp(t)
               \/ t \in Consumers /\ Check(t)
        PROVE  Inv' /\ UNCHANGED Contract!vars
    <2>1. UNCHANGED queueVars
      BY <1>1 DEF Call, Lock, Unlock, Wait, WakeUp, Check
    <2>. QED
      BY <1>1, <2>1, MoveKeeps DEF queueVars, Contract!vars
  <1>2. ASSUME NEW t \in Threads, Notify(t) PROVE Inv' /\ UNCHANGED Contract!vars
    BY <1>2, NotifyKeeps DEF Notify, queueVars, Contract!vars
  <1>3. CASE UNCHANGED vars
    <2>1. Inv'
      BY <1>3 DEF vars, queueVars, Inv, TypeOK, Exclusive, AtHome, Certain, Awake
    <2>. QED
      BY <1>3, <2>1 DEF vars, queueVars, Contract!vars
  <1>. QED
    BY <1>1, <1>2, <1>3, PushKeeps, TakeKeeps, StopKeeps DEF Next, Step

\* The types and what the mutex protects.
THEOREM QueueInvariant == Spec => []Inv
  <1>1. Inv /\ [Next]_vars => Inv'
    BY StepKeeps
  <1>. QED
    BY InitInv, <1>1, PTL DEF Spec

\* No wake-up is lost: with push() and finish() notifying before they let the
\* mutex go, no thread is left waiting in pop() or pop_all() for a queue that
\* has an item or is finished.
THEOREM NoWakeUpIsLost == Spec => []NobodySleepsOnWork
  <1>1. Inv => NobodySleepsOnWork
    BY ThreadAssumption DEF Inv, NobodySleepsOnWork, Awake, Exclusive, Inside, Threads
  <1>. QED
    BY <1>1, QueueInvariant, PTL

\* Seen from outside, every call of threaded_queue happens at once: items
\* leave in the order they came, each to one thread, and none after finish()
\* but through swap_data().
THEOREM QueueImplementsContract == Spec => KeepsContract
  <1>1. Init => Contract!Init
    BY DEF Init, Contract!Init
  <1>2. Inv /\ [Next]_vars => [Contract!Next]_(Contract!vars)
    BY StepKeeps
  <1>. QED
    BY <1>1, <1>2, QueueInvariant, PTL DEF Spec, KeepsContract, Contract!Spec
=============================================================================
