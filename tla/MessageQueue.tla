---------------------------- MODULE MessageQueue ----------------------------
(***************************************************************************)
(* The message queue between the message providers, which run in threads   *)
(* of their own, and the connection manager, which only the io thread may  *)
(* call: message_queue.cpp.                                                *)
(*                                                                         *)
(* A provider puts its message on one of two deques under a mutex (for a   *)
(* user name, or for one connection) and then, the mutex released, posts a *)
(* job to the strand.  The job takes the whole deque and hands it to the   *)
(* manager message by message.  What a message says does not matter here.  *)
(***************************************************************************)
EXTENDS Integers, Sequences

CONSTANTS
    Providers,    \* the threads that send
    MaxMessages   \* bound on the number of messages of each provider

Queues == {"by_name", "by_id"}

ASSUME BoundAssumption == MaxMessages \in Nat

VARIABLES
    accepting_messages_, \* cleared by finish()
    messages,  \* messages_by_name_ and messages_by_id_
    posting,   \* the pop a provider is about to post, or none
    jobs,      \* the pops in the strand, in the order they were posted
    popping,   \* the pop the io thread runs, or none
    batch,     \* what that pop took and has not handed over yet
    io,        \* io_service::stop was not called
    sent,      \* history: how many messages a provider has tried to send
    accepted,  \* history: what push_message() took, in that order
    left,      \* history: what left the queue, in that order
    lost       \* history: what left it because of an exception

queueVars == <<messages, jobs, popping, batch, left, lost>>
vars == <<accepting_messages_, posting, io, sent, accepted, queueVars>>

\* The n-th message of provider p.
Message == Providers \X (1..MaxMessages)

TypeOK ==
    /\ accepting_messages_ \in BOOLEAN
    /\ messages \in [Queues -> Seq(Message)]
    /\ posting \in [Providers -> Queues \union {"none"}]
    /\ jobs \in Seq(Queues)
    /\ popping \in Queues \union {"none"}
    /\ batch \in Seq(Message)
    /\ io \in BOOLEAN
    /\ sent \in [Providers -> 0..MaxMessages]
    /\ accepted \in [Queues -> Seq(Message)]
    /\ left \in [Queues -> Seq(Message)]
    /\ lost \subseteq Message

Init ==
    /\ accepting_messages_ = TRUE
    /\ messages = [q \in Queues |-> <<>>]
    /\ posting = [p \in Providers |-> "none"]
    /\ jobs = <<>>
    /\ popping = "none"
    /\ batch = <<>>
    /\ io = TRUE
    /\ sent = [p \in Providers |-> 0]
    /\ accepted = [q \in Queues |-> <<>>]
    /\ left = [q \in Queues |-> <<>>]
    /\ lost = {}

-----------------------------------------------------------------------------
(* The threads of the providers.                                           *)

\* Mutation: the message goes to the front of the deque.
PushMessageFront(p, q) ==
    LET m == <<p, sent[p] + 1>> IN
    /\ posting[p] = "none" /\ sent[p] < MaxMessages
    /\ sent' = [sent EXCEPT ![p] = @ + 1]
    /\ messages' = [messages EXCEPT ![q] = <<m>> \o @]
    /\ accepted' = [accepted EXCEPT ![q] = Append(@, m)]
    /\ posting' = [posting EXCEPT ![p] = q]
    /\ UNCHANGED <<accepting_messages_, io, jobs, popping, batch, left, lost>>

\* push_message(): a message is refused once the queue is finished.
PushMessage(p, q) ==
    LET m == <<p, sent[p] + 1>> IN
    /\ posting[p] = "none" /\ sent[p] < MaxMessages
    /\ sent' = [sent EXCEPT ![p] = @ + 1]
    /\ IF accepting_messages_
       THEN /\ messages' = [messages EXCEPT ![q] = Append(@, m)]
            /\ accepted' = [accepted EXCEPT ![q] = Append(@, m)]
            /\ posting' = [posting EXCEPT ![p] = q]
       ELSE UNCHANGED <<messages, accepted, posting>>
    /\ UNCHANGED <<accepting_messages_, io, jobs, popping, batch, left, lost>>

\* Mutation: both kinds of send() post pop_by_name.
PostByName(p) ==
    /\ posting[p] # "none"
    /\ jobs' = Append(jobs, "by_name")
    /\ posting' = [posting EXCEPT ![p] = "none"]
    /\ UNCHANGED <<accepting_messages_, io, sent, accepted, messages, popping, batch, left, lost>>

\* The rest of send(), after the mutex was released.
Post(p) ==
    /\ posting[p] # "none"
    /\ jobs' = Append(jobs, posting[p])
    /\ posting' = [posting EXCEPT ![p] = "none"]
    /\ UNCHANGED <<accepting_messages_, io, sent, accepted, messages, popping, batch, left, lost>>

-----------------------------------------------------------------------------
(* pop_by_name() and pop_by_id(), in the io thread.                        *)

\* Mutation: the pop hands over the first message and clears the deque.
PopFirst ==
    /\ io /\ popping = "none" /\ jobs # <<>>
    /\ jobs' = Tail(jobs)
    /\ popping' = Head(jobs)
    /\ IF messages[Head(jobs)] = <<>>
       THEN batch' = <<>> /\ UNCHANGED messages
       ELSE /\ batch' = <<Head(messages[Head(jobs)])>>
            /\ messages' = [messages EXCEPT ![Head(jobs)] = <<>>]
    /\ UNCHANGED <<accepting_messages_, posting, io, sent, accepted, left, lost>>

\* The swap.  An earlier pop may have taken what this one was posted for.
Pop ==
    /\ io /\ popping = "none" /\ jobs # <<>>
    /\ jobs' = Tail(jobs)
    /\ popping' = Head(jobs)
    /\ batch' = messages[Head(jobs)]
    /\ messages' = [messages EXCEPT ![Head(jobs)] = <<>>]
    /\ UNCHANGED <<accepting_messages_, posting, io, sent, accepted, left, lost>>

\* manager_->send.
Deliver ==
    /\ popping # "none" /\ batch # <<>>
    /\ left' = [left EXCEPT ![popping] = Append(@, Head(batch))]
    /\ batch' = Tail(batch)
    /\ UNCHANGED <<accepting_messages_, posting, io, sent, accepted, messages, jobs, popping, lost>>

\* manager_->send throws: the rest of what was taken is dropped.
Throw ==
    /\ popping # "none" /\ batch # <<>>
    /\ left' = [left EXCEPT ![popping] = @ \o batch]
    /\ lost' = lost \union {batch[i] : i \in DOMAIN batch}
    /\ batch' = <<>>
    /\ UNCHANGED <<accepting_messages_, posting, io, sent, accepted, messages, jobs, popping>>

PopReturns ==
    /\ popping # "none" /\ batch = <<>>
    /\ popping' = "none"
    /\ UNCHANGED <<accepting_messages_, posting, io, sent, accepted, messages, jobs, batch, left, lost>>

-----------------------------------------------------------------------------
(* The end, in the thread that stops the server.                           *)

Finish ==
    /\ accepting_messages_
    /\ accepting_messages_' = FALSE
    /\ UNCHANGED <<posting, io, sent, accepted, queueVars>>

IoStop ==
    /\ ~accepting_messages_ /\ io
    /\ io' = FALSE
    /\ UNCHANGED <<accepting_messages_, posting, sent, accepted, queueVars>>

IoThread == Pop \/ Deliver \/ Throw \/ PopReturns

Next ==
    \/ \E p \in Providers, q \in Queues : PushMessage(p, q)
    \/ \E p \in Providers : Post(p)
    \/ IoThread
    \/ Finish \/ IoStop

Spec == Init /\ [][Next]_vars

\* The io thread runs what is in the strand and a provider's thread that is in
\* send() gets through it; nobody has to send or to stop the server.
Fairness == WF_vars(IoThread) /\ \A p \in Providers : WF_vars(Post(p))

FairSpec == Spec /\ Fairness

-----------------------------------------------------------------------------
(* Properties.                                                             *)

Batch(q) == IF popping = q THEN batch ELSE <<>>

\* No message is lost, duplicated or overtaken within its queue: what left the
\* queue, what the io thread has taken and what still waits are together what
\* push_message() accepted, in that order.
OrderKept == \A q \in Queues : left[q] \o Batch(q) \o messages[q] = accepted[q]

\* No message waits for the next one to come: while a deque is not empty, a
\* pop for it is in the strand or a provider is about to post one.
NothingStranded ==
    \A q \in Queues : messages[q] # <<>> =>
        \/ \E i \in DOMAIN jobs : jobs[i] = q
        \/ \E p \in Providers : posting[p] = q

\* A message that send() accepted is handed to the manager, unless the server
\* is stopped or the exception of another message takes it along.
AcceptedIsHandedOver ==
    \A q \in Queues, m \in Message :
        (\E i \in DOMAIN accepted[q] : accepted[q][i] = m)
            ~> (~io \/ \E i \in DOMAIN left[q] : left[q][i] = m)
=============================================================================
