# A TLA+ model of xiva

xiva is a push server in C++ on boost::asio: clients connect over HTTP or
WebSocket, the application names the user behind each request, and message
providers send messages to a user or to one connection.  This directory models
the parts in which the order of events matters, checks them with TLC on small
instances and proves the central facts with TLAPS for all instances.

## 1. The system

### Threads

* **The io thread** is the one that calls `server_impl::start()`.  It alone runs
  `io_service::run()`, so all completion handlers, all strand jobs and hence all
  of the connections and the connection manager run in it, one job at a time.
* **Provider threads** run the application's message sources and call
  `message_queue::send`.
* **Handler threads** run the application's `response_handler` when it is
  threaded (`threaded_handler_invoker`).
* **Listener threads** call the application's `connection_listener`s.
* Any other thread may call `server::stop()` or destroy the server.
* **In a Python program** the io thread is a Python thread in `start()`.  It lends
  its thread state to whoever calls into Python, itself included; two more
  threads destroy Python objects (`cleanup_list`) and write the log
  (`python_logger`).

### Components

| Component (source) | State | Operations | Talks to |
|---|---|---|---|
| connection (`connection_impl.hpp`) | socket, one timer, output buffer, `messages_`, five flags | start, read request, handled, send, write headers/message/ping/last message, timeouts, cleanup, finish | manager (register, remove), handler invoker, asio |
| connection manager (`connection_manager.hpp`) | container by id and by name, `finished_`, statistics | insert, remove, send by name/id, opened-failed, finish, wait | connections, listener pipeline |
| listener pipeline (`threaded_listener`, `compound_listener`, `guard`) | a queue per thread, a guard per connection | opened, closed, disconnected; roll-back of an opening | application listeners; strand job back to the manager |
| channel statistics (`channels_stat_impl`) | counters per channel | inc, dec, enumerate | manager |
| message queue (`message_queue.cpp`) | two deques, `accepting_messages_` | send by name/id, pop by name/id, finish, active | providers, strand, manager |
| handler invoker (`threaded_handler_invoker.cpp`) | input queue | invoke, thread function, finish, wait for complete | connection, strand |
| acceptor (`acceptor.hpp`) | listening socket | accept first, accept again, process, stop | connection, strand |
| threaded queue (`threaded_queue.hpp`) | deque, `finished_`, mutex, condition variable | push, pop, pop_all, finish, swap_data | io thread, handler and listener threads |
| server (`server_impl.cpp`) | `started_`, `stopped_`, `stop_mutex_` | init, start, stop, destructor | all of them |
| request reading (`request_checker`, `line_reader`, `request_helper`, `request_impl`) | the bytes read so far; the request | is it whole, parse | connection, asio |
| websocket (`websocket_info.cpp`) | protocol and secret of a connection | parse, write headers/body/message/close | connection |
| formatters (`formatters_*`, `connection_base`) | a formatter and the data of each channel | create, allow, find, update, print | connection, statistics, application |
| response, url handler | what a handler asked for | collect, find the receiver | handler invoker, formatters |
| settings, daemon (`daemon/`, `dynamic_loader`) | a document, variables, loaded modules | read, substitute, load, run | server |
| python binding (`python/`) | interpreter lock, cleanup list, log queue | lock, unlock, push, destroy, log, start, stop | server, Python |
| ssl, loggers, stdin reader | | | |

### What is hard here

1. `deadline_timer::cancel()` does not recall a handler that is already in the
   run queue; socket operations likewise complete some time before their handler
   runs.  Every handler may therefore find a connection that has moved on.
2. The answer of a handler thread, a message, a refusal by a listener and the
   shutdown reach a connection in any state, also after it was closed.
3. A listener may refuse a connection after the connection has been closed, after
   its memory was reused, or while the server stops.
4. `stop()`, the destructor and `start()` end the same parts concurrently and
   wait for each other.
5. `message_queue` releases its mutex between taking a message and posting the
   job that delivers it.
6. A consumer of a `threaded_queue` must not fall asleep on an item or on the end
   of the queue, and must not trust a wake-up.
7. The bytes of a request arrive cut anywhere, and two pieces of code, the checker
   and the parser, must agree on what they are.
8. Whether a message is allowed, what it is printed with and what the filter is
   asked next are decided at three different times.
9. The GIL and the mutex of the interpreter lock are taken in both orders, and
   destructors join threads that may want the GIL.
10. `init()` may throw at any of its steps, with some members set and some threads
    running; the members are then destroyed in their order.

For each component, what makes it correct: a *connection* never comes back to
life, is watched by a timer while it depends on its peer, is registered and
removed in pairs, and writes what it accepted once and in order; the *manager*
counts exactly and closes only what was refused; the *listener pipeline* tells
each listener a connected, nested story; the *message queue* and the *threaded
queue* lose, duplicate and reorder nothing and leave nobody waiting; the
*server* ends whatever was begun, answers each request once, and its start, stop
and destructor return; *request reading* understands what the peer meant, wherever
the request was cut; *websocket* and *formatters* bring every message to the
client whole; the *python binding* lets one thread at a time into Python and
destroys objects there only; the *daemon* ends with all its threads however far it
came.

The hazards are listed with their lines in `PROJECT.json`.

## 2. The modules

| Module | Models | Shape |
|---|---|---|
| `Connection` | one connection | each method of `connection_impl` is an operator from a connection record to a connection record, so that methods call each other as in the source; each completion handler, strand job and outside event is an action |
| `ConnectionManager` | the manager, the statistics and the listener pipeline, for many connections | one action per operation, one per call of a listener |
| `ListenerContract` | what an application's listener may rely on | abstract specification, implemented by `ConnectionManager` |
| `MessageQueue` | providers, the two deques, the strand's pops | one action per critical section |
| `ThreadedQueue` | the queue with its mutex and condition variable | one action per step inside the mutex |
| `QueueContract` | a queue with atomic calls, as the other modules use it | abstract specification, implemented by `ThreadedQueue` |
| `Server` | start, stop, destructor, acceptor, handler invoker | one program counter per thread that starts, stops or destroys |
| `Text`, `Request`, `WebSocket`, `Formatters` | reading a request, handshakes and frames, formatters and statistics | pure operators with the names of the functions they model |
| `Exchange` | what one connection reads and writes, and the statistics it shares | composes the four modules above |
| `Interpreter` | the python binding around the GIL | one action per critical section or wait, one program counter per thread |
| `Settings`, `Daemon` | the daemon from `main` to the last destructor, `server_impl::init` | operators; one action per step of `main`, `init` and the destructor |
| `ConnectionProofs`, `ConnectionManagerProofs`, `MessageQueueProofs`, `ThreadedQueueProofs`, `ServerProofs`, `ExchangeProofs`, `InterpreterProofs`, `DaemonProofs` | theorems | each extends the module it is about |
| `MCConnection`, `MCConnectionManager`, `MCMessageQueue`, `MCThreadedQueue`, `MCServer`, `MCExchange`, `MCInterpreter`, `MCDaemon` | instances for TLC | |

Operators whose comment begins with *Mutation* or *Mutant* are deliberate faults.  They stand
before the operator they vary and are used by no specification; replacing the
original by one of them must violate a property.

### Connection

The record `conn` has the fields of `connection_impl` (without `_`), the state
of asio as far as one connection sees it, the manager's view of the connection,
and history.

* `timer` is what the one `deadline_timer` waits for.  When it expires
  (`TimerExpires`) the handler moves to `ready`, the io_service's run queue, and
  `Cancel` does not take it back; `stale` and `late` remember that a cancelled
  handler is queued or has run.
* `read` and `writes` are the asynchronous operations in flight.  They complete
  (`ReadCompletes`, `WriteCompletes`) or are aborted by `CloseSocket`, and again
  only queue their handler.
* `invoked` says that the request is with the handler threads; `Answer` is the
  strand job that brings the answer.
* `Send`, `OpenedFailed` and `Finish` are the calls of the manager.

Data is reduced to what control depends on: a request is one of four outcomes of
parsing, an answer one of five, a transport one of four, a message prints to
something, prints to nothing or makes the formatter throw.  Time is the
remaining time at the one place that computes with it
(`SetupPingOrInactiveTimeout`), chosen from `Clock`.

### ConnectionManager and ListenerContract

Connections are numbered in the order of registration.  An address is free again
once its connection is `freed`, so a later connection may have the id and the
name of an earlier one whose notifications are still queued.  A listener thread
takes its whole queue (`PopAll`), consults the guard (`ProcessItem`) and calls
the listeners one per step; any of them may throw when a connection opens, which
starts the roll-back (`ListenerRefuses`, `UndoOpened`, `CancelOpened`).  An
exception from `connection_closed` or `disconnected` changes nothing that the
model keeps.  `Stop`, `FinishQueue` and `PostFinish` are the steps of
`server_impl::stop` that concern these parts.

`ListenerContract` has one variable, what each listener was told of each
connection.  Its three actions say that listeners are nested like brackets.

### MessageQueue

`PushMessage` is the critical section of `push_message`, `Post` the rest of
`send`.  A pop takes the deque (`Pop`) and hands the messages over one by one
(`Deliver`); `Throw` is an exception out of `connection_manager::send`, which
drops the rest of the batch.  `left` records what left a deque, in order.

### ThreadedQueue and QueueContract

A thread calls, waits for the mutex, works inside it step by step (`Inside` are
the places where it has the mutex) and leaves.  `Wait` gives the mutex back and
starts waiting in one step, as a condition variable does; `Notify` sends all the
waiting threads back to the mutex; `WakeUp` is a wake-up nobody caused.  Taking
from an empty deque is undefined in C++ and yields `Garbage` here.  A stopper
calls `finish()` and then `swap_data()`, as `wait_for_complete` does.
`QueueContract` is the queue whose calls happen at once; `ConnectionManager`
(`Fire`, `PopAll`, `FinishQueue`) and `Server` (`InvokeHandler`, `Take`, `Drain`)
use their queues so, and the refinement justifies it.

### Server

`finish()` is called by `start()`, `stop()` and the destructor and ends five
parts in order (`FinishPart`).  `started_` and `stopped_` are read by `stop()`
without the mutex that `start()` holds, so a read may miss a write.
`io_service::run` returns when it was stopped, when it runs out of work, or by
the exception that a failing first accept throws.  A request stands for its
connection: read, queued, with a handler thread, answered, open or closed.

### Text, Request, WebSocket, Formatters and Exchange

A text is a sequence of symbols.  A symbol is a character that some operation
looks for (a blank, a line end, a colon, a slash...) or a word that none looks
into; `Width` gives the bytes of a word, since the size of a request, the eight
bytes after its headers and the length of a frame matter.  The operators follow the
functions: `read_line` with its folded lines, `find_headers_break`,
`http_request_checker` on a prefix, `request_impl` on the whole, `parse` for the
choice of the websocket protocol.  Digests are symbolic and injective.

`Exchange` sends one request through them.  `Read` lets some more of it arrive and
asks the checker; `HandleReadRequest` is the whole of `handle_read_request` with
the synchronous invoker, `handled` and `print_headers`; `Send` asks
`allow_message`, `WriteMessage` prints.  Other connections subscribe and leave in
between.  Timers, errors and the order of handlers are `Connection`'s.

What these modules follow the code in, although one might expect something else:
a request without any header is never recognised as whole, nor is one whose last
header and whose empty line end in different ways; an url whose last slash stands after its last
question mark has a receiver of negative length, which throws; the last chunk is
`0` without the empty line after it, and a close frame has no length.

### Interpreter

`gil` and `mutex` are the two locks, `state` and `count` the fields of
`interpreter_lock_impl`.  `lock` takes the mutex, waits on the condition while
somebody is inside, and then waits for the GIL with the mutex in its hands, which
`RestoreThread` ends; `unlock_thread` does the same; `unlock` takes the mutex with
the GIL in its hands.  Python
passes the GIL on in the middle of a callback (`Switch`).  `Call` is every call of
a wrapper class into Python, by the thread that makes it.  The stopper is a second
Python thread: `Stop`, `Finish`, `StopIo`, `RelockPython` and `Destroy` are the
steps of `python_server::stop()`, `Delete` and `JoinThreads` the destructor.

### Settings and Daemon

A document is a function from paths to texts, a text a sequence of tokens.
`substitute` follows the code also where the `}` stands before the `${` and the
lengths wrap.  `Expanded` is what it should compute, for texts whose braces match: a
variable goes to the `}` that matches its `${`, the text in between is expanded and
looked up, and the value is put in as it is, since `substitute()` never looks into
values.

In `Daemon` the steps of `init()` are a sequence, each with the settings it reads, the
members it sets and the threads it creates; a step fails when its settings cannot be
read, and those that open files, sockets or threads may fail for other reasons.
`accept()` at the end of `init()` is part of the providers' step.  A provider works
from then on, before `start()` and while the server is destroyed: it looks at
`active()` (`Take`), waits for what it sends, and comes back or ends (`Done`).
`DestroyMember` takes one member after the other; when it was the last one to refer to
the invoker or to the listener, that one joins its threads (`JoinThreads`), which jobs
left in the io_service may delay.

A listener thread whose listener refused asks whether the server is being stopped
(`Done`) and dispatches a job with a reference to the manager (`Post`).  Between the
two the server may be stopped and destroyed, up to the manager's own destructor, which
waits for this very thread; the job then refers to a manager that is going
(`"dangling"`).  TLC reaches that state; what the program does afterwards is
undefined and is not modelled.

## 3. Runs

| Run | Question | Result |
|---|---|---|
| `connection` | does one connection keep its protocol, does any peer hold it, does a closed one go? | passes |
| `connection_headers` | is the "unreachable" branch of `handle_write_headers` unreachable? | violated |
| `manager` | do listeners hear what their contract allows, are refusals and closings carried through, do the statistics survive the reuse of an address? | passes |
| `message_queue` | is order kept, is anything stranded between push and post? | passes |
| `threaded_queue` | is the queue atomic from outside, is a wake-up lost, do items and consumers come to their end? | passes |
| `server` | is anything answered twice, forgotten or left open by a shutdown, do start, stop and destructor return? | passes |
| `exchange` | is a request understood however it is cut, does its handshake answer it, do messages arrive whole? | passes |
| `interpreter` | is Python entered by one thread at a time, who can wait for whom forever? | passes, with one exception stated |
| `python_stop` | does `stop()` of a Python server return? | violated |
| `python_refs` | is a Python object destroyed only under the GIL? | violated |
| `daemon` | does the program end however far it came, if the application returns, and without using what is gone; are variables resolved to what they mean? | passes |
| `handler_threads` | does the daemon read the number of handler threads? | violated |

**Bounds.**  `connection`: two messages of all kinds, all transports; one message
being written while another waits is what the code distinguishes.  The clock
values put the ping before and after the end of inactivity, below the minimum,
and past it.  `manager`: two connections of one user, two addresses, two
listeners, one message: two connections at one address in turn, or side by side,
with the notifications of the first still queued.  All of their notifications
belong to one listener thread; the second thread gets one only if the routing is
wrong, which is what breaks `NoTwoAlike`.  Different users in different threads
do not touch each other's connections, which the proof of the contract shows for
any number of them.
`message_queue`: two providers with two messages each, on either deque.
`threaded_queue`: two producers with two items each, a consumer that calls `pop`
and one that calls `pop_all` compete for them, one wake-up without a notification.
`server`: two stopping threads, the owner, a provider, two handler threads that
compete for one request.  `exchange`: 92 requests with both line ends, every error,
no, folded and repeated headers, an empty line that ends otherwise than the others, each websocket protocol with keys there or missing,
eight bytes that look like a line end or a blank and bytes that follow them; every
way to cut them; frames of at most two bytes, so that messages of one to five
bytes and their wrapping meet every boundary; one other connection and two
channels of one name.  `interpreter`: the two Python threads, a handler thread,
the cleanup and the log thread, one object, one call each: the number of waiting
threads does not matter to the locks, as they all wait for the same turn.
`daemon`: a thread of each kind, every document in which one setting is missing or
no number; as names of modules all texts of up to four tokens out of `${`, `}` and two
letters, and of those whose braces match all of up to six, with one letter up to eight,
so that variables stand side by side, alone and inside another one, or are nested in
each other.  The variables stand for letters, for a variable, and for a `}` before a
`${`; none has a brace in its name.

Deadlock is not checked: a closed connection, a stopped server and providers that
have sent everything are ends the system has.  That nobody waits in vain is what
the liveness properties say.

**Stale timers.**  `OneWriteAtATime`, `NothingLostWhileOpen` and `WireWellFormed`
are stated for executions in which no cancelled timer handler has run (`late`).
Without that condition they do not hold: a ping whose timer expired just before a
message is written starts a second write on the same buffer.  With it they do,
so that this is the only cause; what such a handler does to the timer and to a
connection that is closed is covered by `AlwaysWatched`, `ClosedIsFinal` and
`ClosedIsReleased`, which hold with it.

**Address reuse.**  `notify_connection_opened_failed` compares address and name,
hence may close a later connection of the same user at the same address.  That is
what the code does; `OfOneMind` and `RefusedIsClosed` hold all the same.

**Stated exceptions.**  `CompleteIsRecognised` excepts three kinds of requests
(`Recognisable`), which the checker never recognises, so that the connection runs into
its read timeout: one without headers, as the empty line is looked for only after a
header, although the smallest size in `request_checker` is that of such a request; one
whose empty line ends otherwise than the line before it; and one with a blank right
after the empty line, as a websocket request may have in its eight bytes, which the
line reader takes for a folded header.  `ResolvedRight` allows that
variables side by side are refused, as they are (`${a}${b}` looks for one variable
from the first `${` to the last `}`), and says nothing of a value whose braces do not
match: `}${b` is resolved, with lengths that wrap.  `ProgramEnds` has the hypothesis
that a thread is not forever in a call of the application.  `ThreadsEndFirst` excepts
a job of the manager that nobody ran: it keeps the listener alive beyond the data and
the strand.  `OnlyStopGetsStuck` excepts the
dead lock below, and a `stop()` between the check of `impl_` and its use in
`start()`, which the program does not survive.

### Findings

* `connection_headers`.  `handle_write_headers` says of its branch for a closed
  socket "unreachable code, not connected after cleanup()".  TLC reaches it: the
  headers are written and their handler is queued; a strand job closes the
  connection; the handler runs without error.  The branch does what it should, and
  `ConnectedOnlyWhileOpen` depends on it.
* `python_stop`.  `python_server::stop()` gives the GIL up for the server's
  `stop()`, but destroys the server after it has taken the GIL back: the
  destructor waits for `start()` and joins the handler and listener threads, and
  whoever of them is about to enter Python waits for the GIL.  The change log has
  "removed dead lock on stop python server".
* `python_refs`.  `push_ref()` keeps a pointer of its own to the object that it has
  put in the list until it returns.  The cleanup thread may be done with the object
  by then, and the last reference goes without the GIL.
* `handler_threads`.  `handler_threads()` looks the value of the setting up as the
  path of another one, so that a daemon with a threaded handler cannot start.

### Fairness

The io thread keeps running what is queued, timers expire, and a thread that is
inside `send`, `start`, `stop` or the destructor gets on.  In `ConnectionManager`
a listener thread gets on, which means that listeners return from a call; in
`Server` a provider returns when it sees that the queue is not active.  In
`Interpreter` callbacks return, and a thread that asks again and again for the GIL
or the mutex gets it (strong fairness: the GIL is passed on in turn by Python, and
`unlock` wakes all who wait); the io_service ends once it is stopped.  In `Daemon`
the destructors get on, and a thread that is in the server's own code does; that the
application's handlers, listeners and providers return is not assumed but is the
hypothesis of `ProgramEnds`.  It is needed: `stdin_reader`, which the example
configuration loads, waits in `getline` between two looks at `active()`, and
the destructor waits for it until a line or the end of the input comes.  The same
provider keeps `DestructorReturns` of `Server` waiting.  Nothing is assumed of peers or
of who sends or stops, nor, outside `Interpreter`, of the application's request
handlers.  Elsewhere weak fairness is enough: each of these steps stays possible until taken.
The one exception is the mutex of `ThreadedQueue`, which others may take first;
their calls and the wake-ups are bounded in number there, so that weak fairness
of each thread is enough again and no fair mutex is assumed.

## 4. Proofs

`ConnectionProofs` (any settings, any number of messages).  `TypeOK` and the
relation between socket, flags and manager are proved together as `LifeInv`:
neither `ConnectedOnlyWhileOpen` nor `NotificationsBalanced` is inductive alone,
because a handler that runs on a closed connection must find `connected` false
and one that removes it must find `managed` and `registered` equal.  As in the
source, the proof goes method by method: a lemma for each method says what it
does to a good connection (it stays good, or is cleaned up), and the handlers are
put together from them.  `ClosedIsFinal` follows from the same lemmas.

The second part of `ConnectionProofs` proves
`OneWriteAtATime`, `WireWellFormed` and `AlwaysWatched`.  None of them is inductive:
that a second write is not begun follows from who is about to call a method that
writes.  `WriteInv` therefore says

* whose turn it is (`Turns`): who may start a write, that is the reader of a request,
  `send()` when no message is being written, and a timer that was not cancelled, finds
  no write and no handler of one pending;
* that only a connected client is pinged or written to (`Served`), and that nothing
  is pending for a connection that has not started (`Fresh`);
* what the peer has (`GoodWire`) and what the writes in flight will add to it
  (`OnWire`);
* what watches the connection (`Watched`), and that the read which notices the end of
  the peer never ends without an error (`EndsBadly`).

A method that goes on with an open connection starts one write under the write
timeout (`Began`) or arms the timer of an idle client (`Waits`).  That is shown for
each method, from the calls of asio upwards, and one level higher for each handler.
The turns and everything about the wire carry the condition of the runs that no
cancelled timer handler has run.  `AlwaysWatched` has one hypothesis,
`~InputBounded`: a `streambuf` made without a size, as the one of `connection_impl`
is, never refuses to read.  With a bounded one `handle_read_some` could leave a
connection whose timer it had cancelled (`connection_impl.hpp:322`); the runs have
the same value.

The third part proves `NothingLostWhileOpen`.  An accepted message goes from
`messages_` into the write in flight and from there to the wire; the property looks at
the three one after the other, and a step moves a message across a border between
them.  `KeptInv` therefore speaks of each of the three: its numbers increase, all of
them are smaller than those of the next, and together they are the accepted ones, none
of which is larger than the number of the last message sent.  It is conditional, as
the property is, on an open socket and on no failed operation waiting in the run queue
(`Sound`): a write that fails loses its message, and the property holds again only
because its handler closes the socket when it runs.  That every handler does so when
it is told of an error, whichever it is, is part of the lemmas on the handlers.

`MessageQueueProofs` (any providers).  `OrderKept` and `NothingStranded` are
inductive with the types and the fact that no batch exists without a pop.  The
proof of order rests on three lemmas that move elements between the parts of a
concatenation; that of `NothingStranded` on what appending and removing a job
does to the jobs for a deque.

`ConnectionManagerProofs` (any connections, addresses, names, threads and
listeners).  `ConnectionManager` implements `ListenerContract`.  The invariant
says, for a thread in the middle of a round of calls, what every listener was
told of its connection (`Staged`); for a connection in nobody's hands the guard
says it (`Viewed`).  That a step of one thread does not disturb the round of
another needs `Routed`: all items of a connection bear the name it was registered
with, the name chooses the thread, and a connection's name does not change once
an item for it exists.  The assumptions are that there are a name and an address and
that each name has a thread.

`StatIsExact` is inductive with the types of the counters (`Counted`): a counter that
is taken down has counted the connection, so that it does not become negative.

`NoTwoAlike` and `OfOneMind` rest on the order of what a thread still has to do, the
rest of its batch followed by its queue (`Line`).  `Order` says that the opening of a
connection comes before its closing (`OpensFirst`); that the closing of one that is
gone is in the line as long as a listener has it open or will hear of it
(`WillClose`); that an address is used again only when its connection is freed
(`Numbered`); and hence that, of two connections with one name and one address, the
closing of the first stands before the opening of the second, whose guard is
untouched until then (`ByTurns`).  A listener that has part of a round behind it is
in the hands of the connection's thread (`InHands`).  Every step adds an item at the
end of one line, takes one from the front or leaves the lines alone, and the lemmas
are stated for these three.  `WillClose` is where `stop()` shows: a queue that is
finished takes no closing, which is why `OfOneMind` speaks of a server that runs.

`ThreadedQueueProofs` (any threads).  `ThreadedQueue` implements `QueueContract`,
and no wake-up is lost.  `NobodySleepsOnWork` speaks of moments when nobody is
inside; the invariant (`Awake`) adds that otherwise the thread that brought the
work has still to notify, and `Certain` that what a thread has seen inside the
mutex is still so when it acts on it.

`ServerProofs` (any stopping and handler threads, any requests).  A request is in one
place: in the job that starts it, in the queue, with one handler thread or in the job
that answers it, and its state tells in which (`Queued`, `Handled`, `Posted`).
Without that, `AnsweredOnce` is not inductive: two threads could have the same
request.  `Drained` says that nothing is queued behind the drain, for
`NoRequestForgotten`.  `LifeInv` relates the places of `start()` and of the
destructor to the mutex and the two flags; besides `NoConnectionSurvives` it yields
that the destructor does not return before `start()` and the providers
(`DestroyedLast`), and that its loop waiting for `start()` is never reached, because
`start()` holds the mutex that the destructor takes first.

`ExchangeProofs` (any requests, responses, messages and filter) proves
`FilterSeesTheLatest`.  The invariant (`FilterInv`) ties the data of every channel to
the printed messages (`Remembered`) and keeps the shape of the two maps (`Shaped`);
that the channels do not change under a queued message holds because nothing is queued
or printed before the response has chosen them, and `update` adds none.

`InterpreterProofs` (any workers, objects and bounds) proves `OneAtATime`.  The mutex
is held across the wait for the GIL, so that what `lock()` and `unlock_thread()` have
seen is still so when they get it (`Waiting`); `Counted` makes the counter exact,
`Shared` ties the thread state to the place of `start()`, and `Born` says that the
logger's and the cleanup thread are created once.

`DaemonProofs` (any threads, settings and modules) proves `ThreadsEndFirst`.  While
there is a thread there is a reference to the object that joins it, or it is being
joined (`Referred`), and the providers end before any member goes; what
the threads use stands before that object in the class and so goes after it
(`Ordered`); and each step of `init()` finds the members it needs (`SetUp`).  The
next member to be destroyed is the first that is left in that order; that there is
one follows from the library's theorem on least elements.

The assumptions of every module are named `ASSUME`s, evaluated by TLC in the
runs: sizes are natural numbers, sets that a field is chosen from are not empty, the
names of the threads of `Server`, `Interpreter` and `Daemon` are different, and "none"
is no request.  `WriteInv`, `KeptInv`, `FilterInv`, `Order` and the invariant of `DaemonProofs` were
also checked by TLC, on the instances of the runs `connection`, `exchange` and `daemon`
and on three connections at one address.

### Only model-checked

* Liveness (`StalledPeerIsDropped`, `ClosedIsReleased`, `RefusedIsClosed`,
  `ClosedIsTold`, `AcceptedIsHandedOver`, `ItemIsTaken`, `ConsumersEnd`,
  `StopReturns`, `StartReturns`, `DestructorReturns`, `OnlyStopGetsStuck`,
  `PythonDestructorReturns`, `ProgramEnds`): fairness and ENABLED are out of the
  prover's reach.
* `RequestUnderstood`, `CompleteIsRecognised`, `HandshakeAnswersTheKey`,
  `MessagesArriveWhole` and `ResolvedRight`: what parsing, framing and the expansion of
  variables compute for every input needs induction over data.
* `ChannelsInUse`: the channels of a connection are counted one after the other by a
  fold, whose value cannot be unfolded in a proof.  `StatIsExact`, about the same
  counters in `ConnectionManager`, is proved.

The type invariants of `Connection`, `ConnectionManager`, `MessageQueue`,
`ThreadedQueue` and `Server` are proved (`TypeCorrect`, `ManagerTypes`,
`QueueInvariant`, `ServerTypes`).

## 5. What is not modelled

* The wording of status lines and of log lines, loggers other than Python's, and how
  the stdin reader splits its lines: plain input and output.
* ssl beyond the handshake's place in a connection and the failure to make a
  context: OpenSSL's.
* Of websocket keys, the truncation of the quotient to 32 bits: no key of the
  instance has a larger one.  `request_impl::swap` leaves `body_` behind; nothing
  reads it after the swap.
* Of the python binding, `send`, `send_to_channel`, `list_channels` and the attach
  functions, which hold the GIL from beginning to end and call one function of the
  server each, and the conversion of arguments.
* `component_set` and `server.cpp` forward each call.
* `stop()` called from the io thread, which would wait for a job that only this thread
  can run; the second acceptor of a server with ssl, which runs the code of the first;
  the synchronous handler invoker in `Server` (it is in `Connection`, with
  `Threaded = FALSE`, and in `Exchange`).
* `Server` and `ConnectionManager` are not composed with `Connection`: the
  manager's connections close whenever they like, which includes everything
  `Connection` does.  `Connection` and `Exchange` are the control and the data of
  the same object; the outcomes that `Connection` chooses freely (a request, an
  answer, a transport, what a message prints to) include those that `Exchange`
  computes.

## 6. Plan

Done: the connection, the listeners, the message queue, the shutdown and the
queue, then requests, websockets, formatters, the python binding and the daemon.

The safety invariants of all the modules with threads are proved, `ResolvedRight`
excepted, which is about the text of a setting.  What is left is
data: the parser and the frames of a websocket would need proofs by induction over
sequences, and the fold of the statistics a proof about recursive functions.
