------------------------- MODULE MessageQueueProofs -------------------------
(***************************************************************************)
(* Proofs about MessageQueue, for any number of providers and messages.    *)
(*                                                                         *)
(* OrderKept and NothingStranded are inductive together with the types and *)
(* with the fact that a batch belongs to a pop in progress.                *)
(***************************************************************************)
EXTENDS MessageQueue, SequenceTheorems, TLAPS

\* Nothing is in the batch while no pop runs.
BatchIsOfPop == popping = "none" => batch = <<>>

Inv == TypeOK /\ BatchIsOfPop /\ OrderKept /\ NothingStranded

\* Appending to the last part of a sequence in three parts appends to it.
LEMMA AppendToThree ==
    \A a, b, c \in Seq(Message), m \in Message :
        a \o b \o Append(c, m) = Append(a \o b \o c, m)
  OBVIOUS

\* The first element of the middle part may move to the end of the first part.
LEMMA MoveHead ==
    \A a, b, c \in Seq(Message) : b # <<>> =>
        Append(a, Head(b)) \o Tail(b) \o c = a \o b \o c
  OBVIOUS

\* So may the whole middle part.
LEMMA MoveAll ==
    \A a, b, c \in Seq(Message) :
        /\ (a \o b) \o <<>> \o c = a \o b \o c
        /\ a \o <<>> \o c = a \o c \o <<>>
  OBVIOUS

\* Appending a job keeps the ones that are there and adds the new one.
LEMMA AppendedJob ==
    ASSUME NEW js \in Seq(Queues), NEW q \in Queues, NEW r \in Queues
    PROVE  (\E i \in DOMAIN Append(js, r) : Append(js, r)[i] = q)
             <=> (r = q \/ \E i \in DOMAIN js : js[i] = q)
  OBVIOUS

\* Running the first job removes no job but that one.
LEMMA RemainingJob ==
    ASSUME NEW js \in Seq(Queues), js # <<>>, NEW q \in Queues, q # Head(js),
           \E i \in DOMAIN js : js[i] = q
    PROVE  \E i \in DOMAIN Tail(js) : Tail(js)[i] = q
  <1>1. PICK i \in DOMAIN js : js[i] = q
    OBVIOUS
  <1>2. i \in 2..Len(js)
    BY <1>1
  <1>3. i - 1 \in DOMAIN Tail(js) /\ Tail(js)[i - 1] = q
    BY <1>1, <1>2
  <1>. QED
    BY <1>3

LEMMA InitInv == Init => Inv
  <1>. SUFFICES ASSUME Init PROVE Inv
    OBVIOUS
  <1>. USE DEF Init
  <1>1. TypeOK
    BY BoundAssumption DEF TypeOK
  <1>2. BatchIsOfPop /\ OrderKept /\ NothingStranded
    BY DEF BatchIsOfPop, OrderKept, NothingStranded, Batch
  <1>. QED
    BY <1>1, <1>2 DEF Inv

LEMMA StepTypes == TypeOK /\ [Next]_vars => TypeOK'
  <1>. SUFFICES ASSUME TypeOK, [Next]_vars PROVE TypeOK'
    OBVIOUS
  <1>. USE BoundAssumption DEF TypeOK
  <1>1. ASSUME NEW p \in Providers, NEW q \in Queues, PushMessage(p, q) PROVE TypeOK'
    <2>. DEFINE m == <<p, sent[p] + 1>>
    <2>1. m \in Message
      BY <1>1, SMTT(30) DEF PushMessage, Message
    <2>2. sent' \in [Providers -> 0..MaxMessages]
      BY <1>1, SMTT(30) DEF PushMessage
    <2>. HIDE DEF m
    <2>3. /\ messages' \in [Queues -> Seq(Message)]
          /\ accepted' \in [Queues -> Seq(Message)]
          /\ posting' \in [Providers -> Queues \union {"none"}]
      <3>1. CASE accepting_messages_
        <4>1. messages' = [messages EXCEPT ![q] = Append(@, m)]
              /\ accepted' = [accepted EXCEPT ![q] = Append(@, m)]
              /\ posting' = [posting EXCEPT ![p] = q]
          BY <1>1, <3>1 DEF PushMessage, m
        <4>. QED
          BY <2>1, <4>1, AppendProperties
      <3>2. CASE ~accepting_messages_
        BY <1>1, <3>2 DEF PushMessage
      <3>. QED
        BY <3>1, <3>2
    <2>. QED
      BY <1>1, <2>2, <2>3 DEF PushMessage
  <1>2. ASSUME NEW p \in Providers, Post(p) PROVE TypeOK'
    BY <1>2 DEF Post
  <1>3. CASE Pop
    <2>1. Head(jobs) \in Queues /\ Tail(jobs) \in Seq(Queues)
      BY <1>3 DEF Pop
    <2>2. jobs' \in Seq(Queues) /\ popping' \in Queues /\ batch' \in Seq(Message)
      BY <1>3, <2>1 DEF Pop
    <2>3. <<>> \in Seq(Message)
      OBVIOUS
    <2>4. messages' \in [Queues -> Seq(Message)]
      BY <1>3, <2>1, <2>3, Zenon DEF Pop
    <2>. QED
      BY <1>3, <2>2, <2>4 DEF Pop
  <1>4. CASE Deliver
    BY <1>4 DEF Deliver
  <1>5. CASE Throw
    <2>1. \A i \in DOMAIN batch : batch[i] \in Message
      OBVIOUS
    <2>2. lost' \subseteq Message
      BY <1>5, <2>1 DEF Throw
    <2>3. left' \in [Queues -> Seq(Message)] /\ batch' \in Seq(Message)
      BY <1>5 DEF Throw
    <2>. QED
      BY <1>5, <2>2, <2>3 DEF Throw
  <1>6. CASE PopReturns \/ Finish \/ IoStop \/ UNCHANGED vars
    BY <1>6 DEF PopReturns, Finish, IoStop, queueVars, vars
  <1>. QED
    BY <1>1, <1>2, <1>3, <1>4, <1>5, <1>6 DEF Next, IoThread

LEMMA StepBatch == TypeOK /\ BatchIsOfPop /\ [Next]_vars => BatchIsOfPop'
  <1>. SUFFICES ASSUME TypeOK, BatchIsOfPop, [Next]_vars PROVE BatchIsOfPop'
    OBVIOUS
  <1>. USE DEF BatchIsOfPop
  <1>1. ASSUME NEW p \in Providers, NEW q \in Queues, PushMessage(p, q) \/ Post(p)
        PROVE  BatchIsOfPop'
    BY <1>1 DEF PushMessage, Post
  <1>2. CASE Pop
    BY <1>2 DEF Pop, TypeOK, Queues
  <1>3. CASE Deliver \/ Throw \/ PopReturns
    BY <1>3 DEF Deliver, Throw, PopReturns
  <1>4. CASE Finish \/ IoStop \/ UNCHANGED vars
    BY <1>4 DEF Finish, IoStop, queueVars, vars
  <1>. QED
    BY <1>1, <1>2, <1>3, <1>4 DEF Next, IoThread, Queues

LEMMA StepOrder ==
    TypeOK /\ BatchIsOfPop /\ OrderKept /\ [Next]_vars => OrderKept'
  <1>. SUFFICES ASSUME TypeOK, BatchIsOfPop, OrderKept, [Next]_vars, NEW q \in Queues
                PROVE  (left[q] \o Batch(q) \o messages[q] = accepted[q])'
    BY DEF OrderKept
  <1>a. left[q] \o Batch(q) \o messages[q] = accepted[q]
    BY DEF OrderKept
  <1>b. /\ left[q] \in Seq(Message) /\ Batch(q) \in Seq(Message)
        /\ messages[q] \in Seq(Message) /\ batch \in Seq(Message)
    BY DEF TypeOK, Batch
  <1>1. ASSUME NEW p \in Providers, NEW r \in Queues, PushMessage(p, r)
        PROVE  (left[q] \o Batch(q) \o messages[q] = accepted[q])'
    <2>. DEFINE m == <<p, sent[p] + 1>>
    <2>0. sent[p] \in 0..MaxMessages /\ sent[p] < MaxMessages
      BY <1>1 DEF PushMessage, TypeOK
    <2>1. m \in Message
      BY <2>0, BoundAssumption DEF Message
    <2>2. left' = left /\ Batch(q)' = Batch(q)
      BY <1>1 DEF PushMessage, Batch
    <2>3. \/ messages'[q] = messages[q] /\ accepted'[q] = accepted[q]
          \/ messages'[q] = Append(messages[q], m) /\ accepted'[q] = Append(accepted[q], m)
      BY <1>1, SMTT(30) DEF PushMessage, TypeOK
    <2>. HIDE DEF m
    <2>4. left[q] \o Batch(q) \o Append(messages[q], m)
            = Append(left[q] \o Batch(q) \o messages[q], m)
      BY <1>b, <2>1, AppendToThree, ZenonT(60)
    <2>. QED
      BY <1>a, <2>2, <2>3, <2>4
  <1>2. CASE Pop
    <2>1. left' = left /\ accepted' = accepted
      BY <1>2 DEF Pop
    <2>2. Batch(q) = <<>>
      BY <1>2 DEF Pop, Batch, Queues
    <2>3. CASE q = Head(jobs)
      <3>1. Batch(q)' = messages[q] /\ messages'[q] = <<>>
        BY <1>2, <2>3 DEF Pop, Batch, TypeOK
      <3>2. left[q] \o <<>> \o messages[q] = left[q] \o messages[q] \o <<>>
        BY <1>b, MoveAll
      <3>. QED
        BY <1>a, <2>1, <2>2, <3>1, <3>2
    <2>4. CASE q # Head(jobs)
      <3>1. Batch(q)' = <<>> /\ messages'[q] = messages[q]
        BY <1>2, <2>4 DEF Pop, Batch, TypeOK
      <3>. QED
        BY <1>a, <2>1, <2>2, <3>1
    <2>. QED
      BY <2>3, <2>4
  <1>3. CASE Deliver
    <2>0. batch # <<>>
      BY <1>3 DEF Deliver
    <2>1. messages' = messages /\ accepted' = accepted /\ popping' = popping
      BY <1>3 DEF Deliver
    <2>2. CASE q = popping
      <3>1. Batch(q) = batch /\ Batch(q)' = Tail(batch)
            /\ left'[q] = Append(left[q], Head(batch))
        BY <1>3, <2>2 DEF Deliver, Batch, TypeOK
      <3>2. Append(left[q], Head(batch)) \o Tail(batch) \o messages[q]
              = left[q] \o batch \o messages[q]
        BY <1>b, <2>0, MoveHead
      <3>. QED
        BY <1>a, <2>1, <3>1, <3>2
    <2>3. CASE q # popping
      <3>1. Batch(q)' = Batch(q) /\ left'[q] = left[q]
        BY <1>3, <2>3 DEF Deliver, Batch, TypeOK
      <3>. QED
        BY <1>a, <2>1, <3>1
    <2>. QED
      BY <2>2, <2>3
  <1>4. CASE Throw
    <2>1. messages' = messages /\ accepted' = accepted /\ popping' = popping /\ batch' = <<>>
      BY <1>4 DEF Throw
    <2>2. CASE q = popping
      <3>1. Batch(q) = batch /\ Batch(q)' = <<>> /\ left'[q] = left[q] \o batch
        BY <1>4, <2>2 DEF Throw, Batch, TypeOK
      <3>2. (left[q] \o batch) \o <<>> \o messages[q] = left[q] \o batch \o messages[q]
        BY <1>b, MoveAll
      <3>. QED
        BY <1>a, <2>1, <3>1, <3>2
    <2>3. CASE q # popping
      <3>1. Batch(q)' = Batch(q) /\ left'[q] = left[q]
        BY <1>4, <2>3 DEF Throw, Batch, TypeOK
      <3>. QED
        BY <1>a, <2>1, <3>1
    <2>. QED
      BY <2>2, <2>3
  <1>5. CASE PopReturns
    <2>1. Batch(q) = <<>> /\ Batch(q)' = <<>>
      BY <1>5 DEF PopReturns, Batch
    <2>. QED
      BY <1>5, <1>a, <2>1 DEF PopReturns
  <1>6. ASSUME NEW p \in Providers, Post(p)
        PROVE  (left[q] \o Batch(q) \o messages[q] = accepted[q])'
    BY <1>6, <1>a DEF Post, Batch
  <1>7. CASE Finish \/ IoStop \/ UNCHANGED vars
    BY <1>7, <1>a DEF Finish, IoStop, queueVars, vars, Batch
  <1>. QED
    BY <1>1, <1>2, <1>3, <1>4, <1>5, <1>6, <1>7 DEF Next, IoThread

LEMMA StepStranded == TypeOK /\ NothingStranded /\ [Next]_vars => NothingStranded'
  <1>. DEFINE Coming(q) == \/ \E i \in DOMAIN jobs : jobs[i] = q
                           \/ \E p \in Providers : posting[p] = q
  <1>. SUFFICES ASSUME TypeOK, NothingStranded, [Next]_vars,
                       NEW q \in Queues, messages'[q] # <<>>
                PROVE  Coming(q)'
    BY DEF NothingStranded
  <1>a. messages[q] # <<>> => Coming(q)
    BY DEF NothingStranded
  <1>1. ASSUME NEW p \in Providers, NEW r \in Queues, PushMessage(p, r) PROVE Coming(q)'
    <2>1. jobs' = jobs
      BY <1>1 DEF PushMessage
    <2>2. CASE accepting_messages_ /\ r = q
      <3>1. posting'[p] = q
        BY <1>1, <2>2 DEF PushMessage, TypeOK
      <3>. QED
        BY <3>1
    <2>3. CASE accepting_messages_ /\ r # q
      <3>1. messages'[q] = messages[q] /\ posting[p] = "none"
            /\ posting' = [posting EXCEPT ![p] = r]
        BY <1>1, <2>3 DEF PushMessage, TypeOK
      <3>. QED
        BY <1>a, <2>1, <3>1 DEF TypeOK, Queues
    <2>4. CASE ~accepting_messages_
      <3>1. messages' = messages /\ posting' = posting
        BY <1>1, <2>4 DEF PushMessage
      <3>. QED
        BY <1>a, <2>1, <3>1
    <2>. QED
      BY <2>2, <2>3, <2>4
  <1>2. ASSUME NEW p \in Providers, Post(p) PROVE Coming(q)'
    <2>1. /\ messages' = messages /\ posting[p] \in Queues
          /\ jobs' = Append(jobs, posting[p])
          /\ posting' = [posting EXCEPT ![p] = "none"]
          /\ jobs \in Seq(Queues)
      BY <1>2 DEF Post, TypeOK
    <2>2. (\E i \in DOMAIN jobs' : jobs'[i] = q)
             <=> (posting[p] = q \/ \E i \in DOMAIN jobs : jobs[i] = q)
      BY <2>1, AppendedJob
    <2>3. CASE \E i \in DOMAIN jobs : jobs[i] = q
      BY <2>2, <2>3
    <2>4. CASE \E r \in Providers : posting[r] = q
      <3>1. PICK r \in Providers : posting[r] = q
        BY <2>4
      <3>2. CASE r = p
        BY <2>2, <3>1, <3>2
      <3>3. CASE r # p
        <4>1. posting'[r] = q
          BY <2>1, <3>1, <3>3 DEF TypeOK
        <4>. QED
          BY <4>1
      <3>. QED
        BY <3>2, <3>3
    <2>. QED
      BY <1>a, <2>1, <2>3, <2>4
  <1>3. CASE Pop
    <2>1. /\ q # Head(jobs) /\ messages'[q] = messages[q] /\ jobs # <<>>
          /\ jobs' = Tail(jobs) /\ posting' = posting /\ jobs \in Seq(Queues)
      BY <1>3 DEF Pop, TypeOK
    <2>2. CASE \E i \in DOMAIN jobs : jobs[i] = q
      BY <2>1, <2>2, RemainingJob
    <2>. QED
      BY <1>a, <2>1, <2>2
  <1>4. CASE Deliver \/ Throw \/ PopReturns
    BY <1>4, <1>a DEF Deliver, Throw, PopReturns
  <1>5. CASE Finish \/ IoStop \/ UNCHANGED vars
    BY <1>5, <1>a DEF Finish, IoStop, queueVars, vars
  <1>. QED
    BY <1>1, <1>2, <1>3, <1>4, <1>5 DEF Next, IoThread

\* The inductive invariant of the message queue.
THEOREM QueueInvariant == Spec => []Inv
  <1>1. Inv /\ [Next]_vars => Inv'
    BY StepTypes, StepBatch, StepOrder, StepStranded DEF Inv
  <1>. QED
    BY InitInv, <1>1, PTL DEF Spec

\* message_queue keeps its types.
THEOREM TypeCorrect == Spec => []TypeOK
  <1>1. Inv => TypeOK
    BY DEF Inv
  <1>. QED
    BY QueueInvariant, <1>1, PTL

\* However providers and io thread interleave, each queue hands its messages
\* over in the order push_message() accepted them, none twice, none left out.
THEOREM MessagesInOrder == Spec => []OrderKept
  <1>1. Inv => OrderKept
    BY DEF Inv
  <1>. QED
    BY QueueInvariant, <1>1, PTL

\* An accepted message always has a pop coming for it, although the mutex is
\* released between push_message() and the post to the strand.
THEOREM PopIsComing == Spec => []NothingStranded
  <1>1. Inv => NothingStranded
    BY DEF Inv
  <1>. QED
    BY QueueInvariant, <1>1, PTL
=============================================================================
