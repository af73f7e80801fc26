----------------------------- MODULE Connection -----------------------------
(***************************************************************************)
(* One client connection of the server: details/connection_impl.hpp, with  *)
(* the parts of its surroundings that call it or that it calls.            *)
(*                                                                         *)
(* Exactly one thread runs the io_service, so every completion handler,    *)
(* every strand job and every call of the connection manager happens on    *)
(* that thread, one after the other.  A step of this module is one such    *)
(* job.  The concurrency is in what asio, the peer, the clock, the         *)
(* message providers and the handler threads do between two jobs.          *)
(*                                                                         *)
(* A method of connection_impl is an operator from a connection record to  *)
(* a connection record, so that one method calls another as it does in the *)
(* source.  What varies at run time (what the peer asked for, what the     *)
(* handler answered, what the clock says) is a parameter, chosen where the *)
(* job starts.                                                             *)
(***************************************************************************)
EXTENDS Integers, Sequences, SequencesExt

CONSTANTS
    Secure,          \* the connection came through the ssl acceptor
    Threaded,        \* the response handler runs in its own threads
    PolicyData,      \* the settings give a policy file to answer with
    PingText,        \* the ping message is not empty
    PingInterval,    \* settings: milliseconds between two pings
    InactiveTimeout, \* settings: milliseconds an idle client may stay
    Clock,           \* what may be left until inactive_expires_ when a ping ends
    InputBounded,    \* async_read can fill its buffer, hence end without error
    Transports,      \* how a client may talk to the server, see Transport
    Kinds,           \* which kinds of messages are sent, see Kind
    MaxMessages      \* bound on the number of messages sent to the connection

MINIMAL_PING_INTERVAL == 100
MINIMAL_INACTIVE_TIMEOUT == 100

\* Plain http; a websocket whose protocol has a close frame; one that has none;
\* one whose handshake the server cannot answer.
Transport == {"http", "ws_close", "ws_noclose", "ws_invalid"}

\* A message that prints to something, one that prints to nothing, and one
\* whose formatter throws.
Kind == {"data", "empty", "bad"}

ASSUME BoolAssumption ==
    {Secure, Threaded, PolicyData, PingText, InputBounded} \subseteq BOOLEAN
ASSUME TimeAssumption ==
    /\ PingInterval \in Nat
    /\ InactiveTimeout \in Nat
    /\ Clock \subseteq Int
ASSUME MessageAssumption ==
    /\ Transports \subseteq Transport
    /\ Kinds \subseteq Kind
    /\ MaxMessages \in Nat

VARIABLE conn

vars == <<conn>>

-----------------------------------------------------------------------------
(* The connection record.                                                  *)

TimerHandlers == {"timeout", "ping", "inactive"}
ReadHandlers  == {"handshake", "read_request", "read_some"}
WriteHandlers == {"write_headers", "write_message", "write_ping_message", "cleanup"}
Handlers      == TimerHandlers \union ReadHandlers \union WriteHandlers

\* Messages are numbered in the order the manager sends them.  Everything else
\* that is written or queued has number 0; Null is the empty pointer that
\* finish() queues.
Message  == [kind : Kind, n : Nat]
Fixed(k) == [kind |-> k, n |-> 0]
Null     == Fixed("null")
Item     == Message \union
            {Fixed(k) : k \in {"headers", "ping", "last", "error", "static", "policy"}}

\* The types of the fields that are not flags.
Queue     == Seq(Message \union {Null})
Timer     == TimerHandlers \union {"off"}
Read      == ReadHandlers \union {"none"}
Writes    == Seq([h : WriteHandlers, item : Item])
RunQueue  == Seq([h : Handlers, ok : BOOLEAN])
Numbers   == SUBSET Nat
Wire      == Seq(Item)

ConnectionState ==
    [ \* fields of connection_impl
      connected : BOOLEAN, writing : BOOLEAN, is_policy : BOOLEAN,
      single : BOOLEAN, disable_ping : BOOLEAN, managed : BOOLEAN,
      transport : Transport, messages : Queue,
      \* asio: the socket, the one timer, the operations and the run queue
      started : BOOLEAN, open : BOOLEAN, timer : Timer,
      read : Read, writes : Writes, ready : RunQueue,
      \* a request of this connection is with the handler invoker
      invoked : BOOLEAN,
      \* the manager's view: is it in connections_, what was the listener told
      registered : BOOLEAN, finished : BOOLEAN, opened : Nat, closed : Nat,
      \* history: the timer completion in ready was cancelled; such a handler
      \* ran; data messages accepted; what reached the peer, pings left out
      stale : BOOLEAN, late : BOOLEAN, sent : Nat,
      accepted : Numbers, wire : Wire ]

NewConnection ==
    [ connected |-> FALSE, writing |-> FALSE, is_policy |-> FALSE,
      single |-> FALSE, disable_ping |-> FALSE, managed |-> FALSE,
      transport |-> "http", messages |-> <<>>,
      started |-> FALSE, open |-> TRUE, timer |-> "off",
      read |-> "none", writes |-> <<>>, ready |-> <<>>, invoked |-> FALSE,
      registered |-> FALSE, finished |-> FALSE, opened |-> 0, closed |-> 0,
      stale |-> FALSE, late |-> FALSE, sent |-> 0,
      accepted |-> {}, wire |-> <<>> ]

Init == conn = NewConnection

-----------------------------------------------------------------------------
(* asio, as connection_impl uses it.                                       *)

\* A wait of the timer has expired and its handler is in the run queue.
TimerReady(c) == \E i \in DOMAIN c.ready : c.ready[i].h \in TimerHandlers

\* deadline_timer::cancel.  It recalls the wait that is running, but not the
\* handler of a wait that has expired: that one still runs, without error.
\* A recalled handler runs with operation_aborted, and then does nothing.
Cancel(c) == [c EXCEPT !.timer = "off", !.stale = @ \/ TimerReady(c)]

\* deadline_timer::expires_from_now (which cancels) and async_wait.
Arm(c, h) == [Cancel(c) EXCEPT !.timer = h]

Complete(c, h, ok) == [c EXCEPT !.ready = Append(@, [h |-> h, ok |-> ok])]

\* An operation on a closed socket fails, and its handler is told so later.
AsyncRead(c, h) ==
    IF c.open THEN [c EXCEPT !.read = h] ELSE Complete(c, h, FALSE)

AsyncWrite(c, h, item) ==
    IF c.open THEN [c EXCEPT !.writes = Append(@, [h |-> h, item |-> item])]
              ELSE Complete(c, h, FALSE)

\* socket::close: the operations that were waiting end with an error.
CloseSocket(c) ==
    LET aborted == (IF c.read = "none" THEN <<>> ELSE <<[h |-> c.read, ok |-> FALSE]>>)
                   \o [i \in DOMAIN c.writes |-> [h |-> c.writes[i].h, ok |-> FALSE]]
    IN  [c EXCEPT !.open = FALSE, !.read = "none", !.writes = <<>>,
                  !.ready = @ \o aborted]

-----------------------------------------------------------------------------
(* connection_manager, as one connection sees it.                          *)

InsertConnection(c) ==
    [c EXCEPT !.registered = TRUE, !.opened = @ + 1]

RemoveConnection(c) ==
    IF c.finished THEN c
                  ELSE [c EXCEPT !.registered = FALSE, !.closed = @ + 1]

-----------------------------------------------------------------------------
(* The methods of connection_impl.                                         *)

\* Mutation: the listener is told of every connection that ends, managed or not.
CleanupUnmanaged(c) ==
    LET removed == RemoveConnection([Cancel(c) EXCEPT !.connected = FALSE, !.managed = FALSE])
    IN  IF removed.open THEN CloseSocket(removed) ELSE removed

Cleanup(c) ==
    LET off     == [Cancel(c) EXCEPT !.connected = FALSE]
        removed == IF off.managed
                   THEN RemoveConnection([off EXCEPT !.managed = FALSE])
                   ELSE off
    IN  IF removed.open THEN CloseSocket(removed) ELSE removed

SetupTimeout(c) == Arm(c, "timeout")

\* Mutation: no write timeout.
WriteOutUnwatched(c, h, item) == AsyncWrite(c, h, item)

\* Print to out_, start the write, arm the write timeout.
WriteOut(c, h, item) == SetupTimeout(AsyncWrite(c, h, item))

WriteLastMessage(c) ==
    IF c.is_policy \/ c.transport = "ws_noclose"
    THEN Cleanup(c)
    ELSE WriteOut([c EXCEPT !.writing = TRUE], "cleanup", Fixed("last"))

\* left is inactive_expires_ minus now.
SetupPingOrInactiveTimeout(c, left) ==
    LET remaining == IF left <= 0 THEN InactiveTimeout ELSE left IN
    CASE ~c.disable_ping /\ PingInterval < remaining -> Arm(c, "ping")
      [] /\ c.disable_ping \/ PingInterval >= remaining
         /\ remaining >= MINIMAL_INACTIVE_TIMEOUT    -> Arm(c, "inactive")
      [] OTHER                                       -> WriteLastMessage(c)

SetupInactiveTimeout(c) == SetupPingOrInactiveTimeout(c, InactiveTimeout)

\* The loop of write_message steps over the messages that print to nothing.
SkipEmpty(q) ==
    LET i == SelectInSeq(q, LAMBDA m : m.kind # "empty")
    IN  IF i = 0 THEN <<>> ELSE SubSeq(q, i, Len(q))

\* Mutation: the message stays at the front of messages_.
WriteMessageUnpopped(c) ==
    LET q    == SkipEmpty(c.messages)
        left == [Cancel(c) EXCEPT !.messages = q]
    IN  IF ~c.connected THEN c
        ELSE IF q = <<>> THEN SetupInactiveTimeout(left)
        ELSE IF Head(q).kind = "null" THEN WriteLastMessage(left)
        ELSE IF Head(q).kind = "bad" THEN Cleanup(left)
        ELSE WriteOut([left EXCEPT !.writing = TRUE], "write_message", Head(q))

WriteMessage(c) ==
    LET q    == SkipEmpty(c.messages)
        left == [Cancel(c) EXCEPT !.messages = q]
    IN  CASE ~c.connected            -> c
          [] c.connected /\ q = <<>> -> SetupInactiveTimeout(left)
          [] c.connected /\ q # <<>> ->
                CASE Head(q).kind = "null" -> WriteLastMessage(left)
                  [] Head(q).kind = "bad"  -> Cleanup(left)
                  [] OTHER -> WriteOut([left EXCEPT !.messages = Tail(q), !.writing = TRUE],
                                       "write_message", Head(q))

WritePingMessage(c) ==
    WriteOut([c EXCEPT !.writing = TRUE], "write_ping_message", Fixed("ping"))

WriteStaticContent(c) ==
    IF c.is_policy \/ c.transport # "http"
    THEN Cleanup(c)
    ELSE WriteOut([c EXCEPT !.writing = TRUE], "cleanup", Fixed("static"))

WritePolicyData(c) ==
    IF PolicyData THEN WriteOut([c EXCEPT !.writing = TRUE], "cleanup", Fixed("policy"))
                  ELSE Cleanup(c)

WriteHttpError(c) ==
    IF c.is_policy THEN Cleanup(c) ELSE WriteOut(c, "cleanup", Fixed("error"))

WriteHeaders(c) ==
    IF c.is_policy \/ c.transport = "ws_invalid"
    THEN Cleanup(c)
    ELSE WriteOut(c, "write_headers", Fixed("headers"))

\* Mutation: no read timeout.
ReadRequestUnwatched(c) == AsyncRead(c, "read_request")

ReadRequest(c) == SetupTimeout(AsyncRead(c, "read_request"))
ReadSome(c)    == AsyncRead(c, "read_some")

Handshake(c) ==
    IF Secure THEN SetupTimeout(AsyncRead(c, "handshake")) ELSE ReadRequest(c)

\* Mutation: send() does not look at writing_message_.
PushMessageEager(c, m) ==
    LET pushed == [c EXCEPT !.messages = Append(@, m)]
    IN  IF c.connected THEN WriteMessage(pushed) ELSE pushed

PushMessage(c, m) ==
    LET pushed == [c EXCEPT !.messages = Append(@, m)]
    IN  IF ~c.writing /\ c.connected THEN WriteMessage(pushed) ELSE pushed

\* What handled() and handled_errors() tell apart: a static answer, an http
\* error (a connection without a name included), an exception, and a name the
\* connection will be served under, for one message or for many.
Answers == {"content", "http_error", "exception", "named_single", "named"}

Handled(c, answer) ==
    LET off   == [Cancel(c) EXCEPT !.invoked = FALSE]
        named == [off EXCEPT !.single = (answer = "named_single"),
                             !.disable_ping = PingInterval < MINIMAL_PING_INTERVAL \/ ~PingText]
    IN  CASE answer = "content"    -> WriteStaticContent(off)
          [] answer = "http_error" -> WriteHttpError(off)
          [] answer = "exception"  -> Cleanup(off)
          [] OTHER -> IF named.finished \/ named.registered \* refused, or "same connection"
                      THEN Cleanup(named)
                      ELSE WriteHeaders([InsertConnection(named) EXCEPT !.managed = TRUE])

-----------------------------------------------------------------------------
(* The completion handlers of connection_impl.                             *)

HandleHandshake(c, ok) ==
    IF ok THEN ReadRequest(Cancel(c)) ELSE Cleanup(Cancel(c))

\* What handle_read_request tells apart: a request that cannot be answered, one
\* that is answered with an http error, a policy file request, and a request
\* that is passed to the handler.
Requests == {"exception", "http_error", "policy", "request"}

HandleReadRequest(c, ok, request, transport, answer) ==
    LET off == Cancel(c) IN
    IF ~ok THEN Cleanup(off)
    ELSE CASE request = "exception"  -> Cleanup(off)
           [] request = "http_error" -> WriteHttpError(off)
           [] request = "policy"     -> WritePolicyData([off EXCEPT !.is_policy = TRUE])
           [] request = "request"    ->
                IF Threaded THEN [off EXCEPT !.transport = transport, !.invoked = TRUE]
                            ELSE Handled([off EXCEPT !.transport = transport], answer)

\* Mutation: the error of the read is not looked at.
HandleReadSomeBlind(c, ok) == ReadSome(Cancel(c))

\* A read that ends without error has filled the buffer, so it was not empty.
HandleReadSome(c, ok) ==
    IF ok THEN ReadSome(Cancel(c)) ELSE Cleanup(Cancel(c))

\* Mutation: no look at the socket.
HandleWriteHeadersBlind(c, ok) ==
    IF ok THEN WriteMessage(ReadSome([Cancel(c) EXCEPT !.connected = TRUE]))
          ELSE Cleanup(Cancel(c))

HandleWriteHeaders(c, ok) ==
    LET off == Cancel(c) IN
    CASE ~ok            -> Cleanup(off)
      [] ok /\ c.open   -> WriteMessage(ReadSome([off EXCEPT !.connected = TRUE]))
      [] ok /\ ~c.open  -> off

\* Mutation: single_message_ is not looked at.
HandleWriteMessageMany(c, ok) ==
    LET off == [Cancel(c) EXCEPT !.writing = FALSE]
    IN  IF ok THEN WriteMessage(off) ELSE Cleanup(off)

HandleWriteMessage(c, ok) ==
    LET off == [Cancel(c) EXCEPT !.writing = FALSE] IN
    CASE ~ok               -> Cleanup(off)
      [] ok /\ off.single  -> WriteLastMessage(off)
      [] ok /\ ~off.single -> WriteMessage(off)

HandleWritePingMessage(c, ok, left) ==
    LET off == [Cancel(c) EXCEPT !.writing = FALSE] IN
    CASE ~ok                        -> Cleanup(off)
      [] ok /\ off.messages # <<>>  -> WriteMessage(off)
      [] ok /\ off.messages = <<>>  -> SetupPingOrInactiveTimeout(off, left)

HandleCleanup(c)         == Cleanup(c)
HandleTimeout(c)         == Cleanup(c)
HandlePing(c)            == WritePingMessage(c)
HandleInactiveTimeout(c) == WriteLastMessage(c)

-----------------------------------------------------------------------------
(* Jobs of the io thread.                                                  *)

Next_h(h) == conn.ready # <<>> /\ Head(conn.ready).h = h
Ok        == Head(conn.ready).ok

\* The connection as the handler at the head of the run queue finds it.
Popped      == [conn EXCEPT !.ready = Tail(@)]
PoppedTimer == [Popped EXCEPT !.late = @ \/ conn.stale, !.stale = FALSE]

\* The acceptor starts the connection; the peer may be gone already, and then
\* remote_endpoint() throws.
Start ==
    /\ ~conn.started
    /\ LET c == [conn EXCEPT !.started = TRUE]
       IN  \/ conn' = Handshake(c)
           \/ conn' = Cleanup(c)

RunHandshake == Next_h("handshake") /\ conn' = HandleHandshake(Popped, Ok)

RunReadRequest ==
    /\ Next_h("read_request")
    /\ \E request \in Requests, transport \in Transports, answer \in Answers :
          conn' = HandleReadRequest(Popped, Ok, request, transport, answer)

RunReadSome     == Next_h("read_some")     /\ conn' = HandleReadSome(Popped, Ok)
RunWriteHeaders == Next_h("write_headers") /\ conn' = HandleWriteHeaders(Popped, Ok)
RunWriteMessage == Next_h("write_message") /\ conn' = HandleWriteMessage(Popped, Ok)

RunWritePingMessage ==
    /\ Next_h("write_ping_message")
    /\ \E left \in Clock : conn' = HandleWritePingMessage(Popped, Ok, left)

RunCleanup         == Next_h("cleanup")  /\ conn' = HandleCleanup(Popped)
RunTimeout         == Next_h("timeout")  /\ conn' = HandleTimeout(PoppedTimer)
RunPing            == Next_h("ping")     /\ conn' = HandlePing(PoppedTimer)
RunInactiveTimeout == Next_h("inactive") /\ conn' = HandleInactiveTimeout(PoppedTimer)

RunHandler ==
    \/ RunHandshake \/ RunReadRequest \/ RunReadSome \/ RunWriteHeaders
    \/ RunWriteMessage \/ RunWritePingMessage \/ RunCleanup
    \/ RunTimeout \/ RunPing \/ RunInactiveTimeout

\* A handler thread has an answer, dispatched through the strand.
Answer ==
    /\ conn.invoked
    /\ \E answer \in Answers : conn' = Handled(conn, answer)

\* The manager passes a message on to a connection it knows.
Send ==
    /\ conn.registered /\ ~conn.finished
    /\ conn.sent < MaxMessages
    /\ \E kind \in Kinds :
          LET m == [kind |-> kind, n |-> conn.sent + 1]
              c == [conn EXCEPT !.sent = @ + 1,
                                !.accepted = IF kind = "data" THEN @ \union {m.n} ELSE @]
          IN  conn' = PushMessage(c, m)

\* The listener refused the connection: the manager closes it.
OpenedFailed ==
    /\ conn.registered /\ ~conn.finished
    /\ conn' = Cleanup(conn)

\* connection_manager::finish, then finish() and close() of the connection.
Finish ==
    /\ ~conn.finished
    /\ LET c == [conn EXCEPT !.finished = TRUE, !.registered = FALSE]
       IN  conn' = IF conn.registered THEN Cleanup(PushMessage(c, Null)) ELSE c

-----------------------------------------------------------------------------
(* What happens outside the io thread's jobs: the peer, the network and    *)
(* the clock.                                                              *)

ReadCompletes ==
    /\ conn.read # "none"
    /\ \E ok \in BOOLEAN :
          /\ ok /\ conn.read = "read_some" => InputBounded
          /\ conn' = Complete([conn EXCEPT !.read = "none"], conn.read, ok)

WriteCompletes ==
    /\ conn.writes # <<>>
    /\ LET w == Head(conn.writes)
           c == [conn EXCEPT !.writes = Tail(@)]
       IN  \/ conn' = Complete([c EXCEPT !.wire = IF w.item.kind = "ping" THEN @
                                                  ELSE Append(@, w.item)], w.h, TRUE)
           \/ conn' = Complete(c, w.h, FALSE)

\* The reactor queues what it found ready and only looks again when all of
\* that has run, so no second wait expires while a first one is in the queue.
TimerExpires ==
    /\ conn.timer # "off" /\ ~TimerReady(conn)
    /\ conn' = Complete([conn EXCEPT !.timer = "off"], conn.timer, TRUE)

Next ==
    \/ Start \/ RunHandler \/ Answer
    \/ Send \/ OpenedFailed \/ Finish
    \/ ReadCompletes \/ WriteCompletes \/ TimerExpires

Spec == Init /\ [][Next]_vars

\* The io thread keeps running the handlers that are queued, the acceptor
\* starts what it accepted and a wait expires in the end.  Nothing is assumed
\* of the peer, of the handler threads or of the message providers.
Fairness == WF_vars(Start) /\ WF_vars(RunHandler) /\ WF_vars(TimerExpires)

FairSpec == Spec /\ Fairness

-----------------------------------------------------------------------------
(* Properties.                                                             *)

\* Every field has its type.
TypeOK == conn \in ConnectionState

\* A connection counts as connected only while its socket is open: no handler
\* revives a connection that cleanup() has closed.
ConnectedOnlyWhileOpen == conn.connected => conn.open

\* The connection's own flag managed_ and the manager's container agree, and
\* the listener hears of as many closings as openings, unless the manager was
\* finished in between: insert_connection() and remove_connection() are called
\* in pairs however a connection ends.
NotificationsBalanced ==
    /\ conn.managed = conn.registered
    /\ conn.registered => conn.opened = conn.closed + 1
    /\ ~conn.registered /\ ~conn.finished => conn.opened = conn.closed
    /\ conn.closed <= conn.opened

\* No stalled peer keeps the server: an open connection that is not with the
\* response handler has a timer running or a handler about to run.
AlwaysWatched ==
    conn.started /\ conn.open /\ ~conn.invoked => conn.timer # "off" \/ conn.ready # <<>>

WritesInFlight ==
    Len(conn.writes) + Cardinality({i \in DOMAIN conn.ready : conn.ready[i].h \in WriteHandlers})

\* All writes go through the one buffer out_, which is consumed when a handler
\* runs.  So a second write must not start before the handler of the first has
\* run.  connection_impl keeps to that unless a cancelled timer handler still ran.
OneWriteAtATime == conn.open /\ ~conn.late => WritesInFlight <= 1

\* The numbers of the data messages among some items, and that they increase.
DataIn(items) == {items[i].n : i \in {j \in DOMAIN items : items[j].kind = "data"}}
InOrder(items) ==
    \A i, j \in DOMAIN items :
        i < j /\ items[i].kind = "data" /\ items[j].kind = "data" => items[i].n < items[j].n
InFlight(c) == [i \in DOMAIN c.writes |-> c.writes[i].item]

\* While a connection is open and no write has failed, every data message that
\* was accepted for it is on the wire, in the write in flight or in messages_,
\* in the order of acceptance (which numbers them) and once.
NothingLostWhileOpen ==
    /\ conn.open /\ ~conn.late
    /\ \A i \in DOMAIN conn.ready : conn.ready[i].ok
    => LET items == conn.wire \o InFlight(conn) \o conn.messages
       IN  DataIn(items) = conn.accepted /\ InOrder(items)

\* What a peer can receive: one error, static answer or policy file and nothing
\* else; or headers, then messages (one when the client asked for one), then
\* the end marker, after which nothing comes.
WireWellFormed ==
    ~conn.late =>
        \A i \in DOMAIN conn.wire :
            LET kind == conn.wire[i].kind IN
            /\ kind \in {"headers", "error", "static", "policy"} <=> i = 1
            /\ kind \in {"error", "static", "policy", "last"} => i = Len(conn.wire)
            /\ kind = "data" /\ conn.single => i = 2

\* A closed connection stays closed, and sends and registers nothing any more.
ClosedIsFinal ==
    [][~conn.open => ~conn'.open /\ conn'.wire = conn.wire /\ ~conn'.connected]_vars

\* A peer that sends no request, or reads no answer, is dropped: before it is
\* connected or with the response handler, a connection does not wait forever.
StalledPeerIsDropped ==
    (conn.started /\ ~conn.connected /\ ~conn.invoked)
        ~> (~conn.open \/ conn.connected \/ conn.invoked)

Drained ==
    /\ conn.timer = "off" /\ conn.ready = <<>>
    /\ conn.read = "none" /\ conn.writes = <<>>

\* Once closed, a connection runs out of handlers, so that the last reference
\* to it goes: no handler keeps arming the timer of a dead connection.
ClosedIsReleased == (conn.started /\ ~conn.open) ~> (Drained \/ conn.invoked)

\* The comment in handle_write_headers: its branch for a closed socket is
\* "unreachable code, not connected after cleanup();".
HeadersFindSocketOpen ==
    Next_h("write_headers") /\ Ok => conn.open
=============================================================================
