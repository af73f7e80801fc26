-------------------------- MODULE ConnectionProofs --------------------------
(***************************************************************************)
(* Theorems about Connection, for all settings, transports, kinds and any  *)
(* number of messages.                                                     *)
(*                                                                         *)
(* Each method of connection_impl either leaves the life of a connection   *)
(* alone (Same) or ends it (Ended).  Lemmas show that for every method,    *)
(* from the asio calls upwards; the theorems follow from the two cases.    *)
(* Two more parts say what a connection writes and when it waits, and that *)
(* it loses no message.                                                    *)
(***************************************************************************)
EXTENDS Connection, SequenceTheorems, FiniteSetTheorems, WellFoundedInduction, TLAPS

\* d is a connection whose life is that of c: socket, manager's view, wire.
Same(c, d) ==
    /\ d \in ConnectionState
    /\ d.connected = c.connected /\ d.open = c.open /\ d.managed = c.managed
    /\ d.registered = c.registered /\ d.finished = c.finished
    /\ d.opened = c.opened /\ d.closed = c.closed
    /\ d.wire = c.wire
    /\ ~c.open => d.writes = c.writes

\* d is what cleanup() leaves of c.
Ended(c, d) ==
    /\ d \in ConnectionState
    /\ ~d.connected /\ ~d.open /\ ~d.managed
    /\ d.finished = c.finished /\ d.opened = c.opened /\ d.wire = c.wire
    /\ d.writes = IF c.open THEN <<>> ELSE c.writes
    /\ IF c.managed /\ ~c.finished
       THEN ~d.registered /\ d.closed = c.closed + 1
       ELSE d.registered = c.registered /\ d.closed = c.closed

Outcome(c, d) == Same(c, d) \/ Ended(c, d)

-----------------------------------------------------------------------------
(* asio and the manager.                                                   *)

\* Cancelling the timer leaves everything but the timer alone.
LEMMA CancelLemma ==
    ASSUME NEW c \in ConnectionState
    PROVE  /\ Same(c, Cancel(c))
           /\ Cancel(c).messages = c.messages /\ Cancel(c).read = c.read
           /\ Cancel(c).ready = c.ready /\ Cancel(c).writes = c.writes
           /\ Cancel(c).single = c.single
  <1>1. "off" \in Timer  BY DEF Timer
  <1>2. (c.stale \/ TimerReady(c)) \in BOOLEAN  OBVIOUS
  <1> QED  BY <1>1, <1>2 DEF Cancel, ConnectionState, Same

\* So does arming it.
LEMMA ArmLemma ==
    ASSUME NEW c \in ConnectionState, NEW h \in TimerHandlers
    PROVE  Same(c, Arm(c, h)) /\ Arm(c, h).timer # "off"
  <1>1. Same(c, Cancel(c)) /\ Cancel(c) \in ConnectionState  BY CancelLemma DEF Same
  <1>2. h \in Timer /\ h # "off"  BY DEF Timer, TimerHandlers
  <1> QED  BY <1>1, <1>2 DEF Arm, ConnectionState, Same

\* A completion is queued, nothing else happens.
LEMMA CompleteLemma ==
    ASSUME NEW c \in ConnectionState, NEW h \in Handlers, NEW ok \in BOOLEAN
    PROVE  Same(c, Complete(c, h, ok))
  <1>1. c.ready \in RunQueue  BY DEF ConnectionState
  <1>2. [h |-> h, ok |-> ok] \in [h : Handlers, ok : BOOLEAN]  OBVIOUS
  <1>3. Append(c.ready, [h |-> h, ok |-> ok]) \in RunQueue  BY <1>1, <1>2 DEF RunQueue
  <1> QED  BY <1>3 DEF Complete, ConnectionState, Same

\* Starting a read does not touch the life of the connection.
LEMMA AsyncReadLemma ==
    ASSUME NEW c \in ConnectionState, NEW h \in ReadHandlers
    PROVE  Same(c, AsyncRead(c, h))
  <1>1. CASE c.open
    <2>1. h \in Read  BY DEF Read
    <2> QED  BY <1>1, <2>1 DEF AsyncRead, ConnectionState, Same
  <1>2. CASE ~c.open
    BY <1>2, CompleteLemma DEF AsyncRead, Handlers
  <1> QED  BY <1>1, <1>2

\* Neither does starting a write.
LEMMA AsyncWriteLemma ==
    ASSUME NEW c \in ConnectionState, NEW h \in WriteHandlers, NEW item \in Item
    PROVE  Same(c, AsyncWrite(c, h, item))
  <1>1. CASE c.open
    <2>1. c.writes \in Writes  BY DEF ConnectionState
    <2>2. [h |-> h, item |-> item] \in [h : WriteHandlers, item : Item]  OBVIOUS
    <2>3. Append(c.writes, [h |-> h, item |-> item]) \in Writes
      BY <2>1, <2>2 DEF Writes
    <2> QED  BY <1>1, <2>3 DEF AsyncWrite, ConnectionState, Same
  <1>2. CASE ~c.open
    BY <1>2, CompleteLemma DEF AsyncWrite, Handlers
  <1> QED  BY <1>1, <1>2

\* Closing the socket queues the failures of what was waiting on it.
LEMMA CloseSocketLemma ==
    ASSUME NEW c \in ConnectionState
    PROVE  /\ CloseSocket(c) \in ConnectionState
           /\ ~CloseSocket(c).open /\ CloseSocket(c).writes = <<>>
           /\ CloseSocket(c).connected = c.connected
           /\ CloseSocket(c).managed = c.managed
           /\ CloseSocket(c).registered = c.registered
           /\ CloseSocket(c).finished = c.finished
           /\ CloseSocket(c).opened = c.opened
           /\ CloseSocket(c).closed = c.closed
           /\ CloseSocket(c).wire = c.wire
  <1> DEFINE R     == [h : Handlers, ok : BOOLEAN]
             first == IF c.read = "none" THEN <<>> ELSE <<[h |-> c.read, ok |-> FALSE]>>
             rest  == [i \in DOMAIN c.writes |-> [h |-> c.writes[i].h, ok |-> FALSE]]
  <1>1. c.read \in Read /\ c.writes \in Writes /\ c.ready \in Seq(R)
    BY DEF ConnectionState, RunQueue
  <1>2. first \in Seq(R)
    <2>1. CASE c.read = "none"  BY <2>1
    <2>2. CASE c.read # "none"
      <3>1. [h |-> c.read, ok |-> FALSE] \in R  BY <1>1, <2>2 DEF Read, Handlers
      <3> HIDE DEF R
      <3> QED  BY <2>2, <3>1
    <2> QED  BY <2>1, <2>2
  <1>3. rest \in Seq(R)
    <2>1. c.writes \in Seq([h : WriteHandlers, item : Item])  BY <1>1 DEF Writes
    <2>2. Len(c.writes) \in Nat /\ DOMAIN c.writes = 1..Len(c.writes)  BY <2>1
    <2>3. ASSUME NEW i \in DOMAIN c.writes
          PROVE  [h |-> c.writes[i].h, ok |-> FALSE] \in R
      <3>1. c.writes[i] \in [h : WriteHandlers, item : Item]
        <4> DEFINE W == [h : WriteHandlers, item : Item]
        <4>1. c.writes \in Seq(W)  BY <2>1
        <4> HIDE DEF W
        <4>2. c.writes[i] \in W  BY <4>1
        <4> QED  BY <4>2 DEF W
      <3> QED  BY <3>1 DEF Handlers
    <2> HIDE DEF R
    <2>4. rest \in [1..Len(c.writes) -> R]  BY <2>2, <2>3
    <2> QED  BY <2>2, <2>4
  <1>4. c.ready \o (first \o rest) \in RunQueue
    <2> HIDE DEF R, first, rest
    <2>1. c.ready \o (first \o rest) \in Seq(R)  BY <1>1, <1>2, <1>3
    <2> QED  BY <2>1 DEF RunQueue, R
  <1>5. CloseSocket(c) = [c EXCEPT !.open = FALSE, !.read = "none", !.writes = <<>>,
                                   !.ready = c.ready \o (first \o rest)]
    BY DEF CloseSocket
  <1>6. "none" \in Read /\ <<>> \in Writes  BY DEF Read, Writes
  <1> HIDE DEF first, rest
  <1> QED  BY <1>4, <1>5, <1>6, ZenonT(60) DEF ConnectionState

\* remove_connection() does nothing once the manager is finished.
LEMMA RemoveConnectionLemma ==
    ASSUME NEW c \in ConnectionState
    PROVE  LET d == RemoveConnection(c) IN
           /\ d \in ConnectionState
           /\ d.connected = c.connected /\ d.open = c.open /\ d.managed = c.managed
           /\ d.finished = c.finished /\ d.opened = c.opened /\ d.wire = c.wire
           /\ d.writes = c.writes
           /\ IF c.finished THEN d.registered = c.registered /\ d.closed = c.closed
                            ELSE ~d.registered /\ d.closed = c.closed + 1
  <1>1. CASE c.finished  BY <1>1 DEF RemoveConnection
  <1>2. CASE ~c.finished
    <2>1. c.closed + 1 \in Nat  BY DEF ConnectionState
    <2> QED  BY <1>2, <2>1 DEF RemoveConnection, ConnectionState
  <1> QED  BY <1>1, <1>2

-----------------------------------------------------------------------------
(* The methods of connection_impl.                                         *)

\* cleanup() ends a connection in whatever state it is.
LEMMA CleanupLemma ==
    ASSUME NEW c \in ConnectionState
    PROVE  Ended(c, Cleanup(c))
  <1> DEFINE off     == [Cancel(c) EXCEPT !.connected = FALSE]
             unset   == [off EXCEPT !.managed = FALSE]
             removed == IF off.managed THEN RemoveConnection(unset) ELSE off
  <1>1. Same(c, Cancel(c))  BY CancelLemma
  <1>2. /\ off \in ConnectionState /\ ~off.connected
        /\ off.open = c.open /\ off.managed = c.managed /\ off.wire = c.wire
        /\ off.writes = c.writes
        /\ off.registered = c.registered /\ off.finished = c.finished
        /\ off.opened = c.opened /\ off.closed = c.closed
    BY <1>1, CancelLemma, ZenonT(60) DEF Same, ConnectionState
  <1>3. /\ unset \in ConnectionState /\ ~unset.connected /\ ~unset.managed
        /\ unset.open = off.open /\ unset.wire = off.wire
        /\ unset.writes = off.writes
        /\ unset.registered = off.registered /\ unset.finished = off.finished
        /\ unset.opened = off.opened /\ unset.closed = off.closed
    <2> HIDE DEF off
    <2> QED  BY <1>2 DEF ConnectionState
  <1>4. /\ removed \in ConnectionState /\ ~removed.connected /\ ~removed.managed
        /\ removed.open = c.open /\ removed.wire = c.wire
        /\ removed.writes = c.writes
        /\ removed.finished = c.finished /\ removed.opened = c.opened
        /\ IF c.managed /\ ~c.finished
           THEN ~removed.registered /\ removed.closed = c.closed + 1
           ELSE removed.registered = c.registered /\ removed.closed = c.closed
    <2> HIDE DEF off, unset
    <2>1. CASE off.managed
      BY <2>1, <1>2, <1>3, RemoveConnectionLemma
    <2>2. CASE ~off.managed
      BY <2>2, <1>2 DEF ConnectionState
    <2> QED  BY <2>1, <2>2
  <1>5. Cleanup(c) = IF removed.open THEN CloseSocket(removed) ELSE removed
    BY DEF Cleanup
  <1> HIDE DEF removed
  <1>6. CASE removed.open
    BY <1>4, <1>5, <1>6, CloseSocketLemma DEF Ended
  <1>7. CASE ~removed.open
    BY <1>4, <1>5, <1>7 DEF Ended
  <1> QED  BY <1>6, <1>7

\* What has the life of c, or ends it, after something that kept it.
LEMMA OutcomeAfterSame ==
    ASSUME NEW c \in ConnectionState, NEW d, NEW e, Same(c, d)
    PROVE  /\ Same(d, e) => Same(c, e)
           /\ Ended(d, e) => Ended(c, e)
           /\ Outcome(d, e) => Outcome(c, e)
  BY DEF Same, Ended, Outcome

\* Fields of the connection that its life does not depend on.
LEMMA FlagLemma ==
    ASSUME NEW c \in ConnectionState, NEW b \in BOOLEAN, NEW q \in Queue, NEW t \in Transport
    PROVE  /\ Same(c, [c EXCEPT !.writing = b])
           /\ Same(c, [c EXCEPT !.is_policy = b])
           /\ Same(c, [c EXCEPT !.invoked = b])
           /\ Same(c, [c EXCEPT !.messages = q])
           /\ Same(c, [c EXCEPT !.transport = t])
           /\ Same(c, [c EXCEPT !.transport = t, !.invoked = b])
           /\ Same(c, [c EXCEPT !.messages = q, !.writing = b])
           /\ [c EXCEPT !.messages = q].connected = c.connected
           /\ [c EXCEPT !.messages = q].messages = q
  BY ZenonT(60) DEF Same, ConnectionState

\* Everything the server writes of its own is an item.
LEMMA FixedItems ==
    ASSUME NEW k \in {"headers", "ping", "last", "error", "static", "policy"}
    PROVE  Fixed(k) \in Item
  BY DEF Item

\* A write and its timeout leave the life of the connection alone.
LEMMA WriteOutLemma ==
    ASSUME NEW c \in ConnectionState, NEW h \in WriteHandlers, NEW item \in Item
    PROVE  Same(c, WriteOut(c, h, item))
  <1>1. Same(c, AsyncWrite(c, h, item))  BY AsyncWriteLemma
  <1>2. AsyncWrite(c, h, item) \in ConnectionState  BY <1>1 DEF Same
  <1>3. Same(AsyncWrite(c, h, item), Arm(AsyncWrite(c, h, item), "timeout"))
    BY <1>2, ArmLemma DEF TimerHandlers
  <1> QED  BY <1>1, <1>3, OutcomeAfterSame DEF WriteOut, SetupTimeout

\* The same, with writing_message_ set first.
LEMMA WriteOutWriting ==
    ASSUME NEW c \in ConnectionState, NEW h \in WriteHandlers, NEW item \in Item
    PROVE  Same(c, WriteOut([c EXCEPT !.writing = TRUE], h, item))
  <1> DEFINE d == [c EXCEPT !.writing = TRUE]
  <1>1. Same(c, d)
    <2>1. <<>> \in Queue /\ "http" \in Transport  BY DEF Queue, Transport
    <2> QED  BY <2>1, FlagLemma
  <1>2. d \in ConnectionState  BY <1>1 DEF Same
  <1> HIDE DEF d
  <1>3. Same(d, WriteOut(d, h, item))  BY <1>2, WriteOutLemma
  <1>4. Same(c, WriteOut(d, h, item))  BY <1>1, <1>3, OutcomeAfterSame
  <1> QED  BY <1>4 DEF d

\* The methods that write an answer: they write it or they end the connection.
LEMMA AnswerLemma ==
    ASSUME NEW c \in ConnectionState
    PROVE  /\ Outcome(c, WriteLastMessage(c))
           /\ Outcome(c, WritePingMessage(c))
           /\ Outcome(c, WriteStaticContent(c))
           /\ Outcome(c, WritePolicyData(c))
           /\ Outcome(c, WriteHttpError(c))
           /\ Outcome(c, WriteHeaders(c))
  <1>1. Ended(c, Cleanup(c))  BY CleanupLemma
  <1>2. ASSUME NEW k \in {"headers", "ping", "last", "error", "static", "policy"},
               NEW h \in WriteHandlers
        PROVE  /\ Same(c, WriteOut(c, h, Fixed(k)))
               /\ Same(c, WriteOut([c EXCEPT !.writing = TRUE], h, Fixed(k)))
    BY FixedItems, WriteOutLemma, WriteOutWriting
  <1>3. Outcome(c, WriteLastMessage(c))
    BY <1>1, <1>2 DEF Outcome, WriteLastMessage, WriteHandlers
  <1>4. Outcome(c, WritePingMessage(c))
    BY <1>2 DEF Outcome, WritePingMessage, WriteHandlers
  <1>5. Outcome(c, WriteStaticContent(c))
    BY <1>1, <1>2 DEF Outcome, WriteStaticContent, WriteHandlers
  <1>6. Outcome(c, WritePolicyData(c))
    BY <1>1, <1>2 DEF Outcome, WritePolicyData, WriteHandlers
  <1>7. Outcome(c, WriteHttpError(c))
    BY <1>1, <1>2 DEF Outcome, WriteHttpError, WriteHandlers
  <1>8. Outcome(c, WriteHeaders(c))
    BY <1>1, <1>2 DEF Outcome, WriteHeaders, WriteHandlers
  <1> QED  BY <1>3, <1>4, <1>5, <1>6, <1>7, <1>8

\* An idle connection gets its next timer or is told that this is the end.
LEMMA IdleLemma ==
    ASSUME NEW c \in ConnectionState, NEW left
    PROVE  /\ Outcome(c, SetupPingOrInactiveTimeout(c, left))
           /\ Outcome(c, SetupInactiveTimeout(c))
  <1>1. ASSUME NEW l PROVE Outcome(c, SetupPingOrInactiveTimeout(c, l))
    <2>1. Outcome(c, Arm(c, "ping")) /\ Outcome(c, Arm(c, "inactive"))
      BY ArmLemma DEF TimerHandlers, Outcome
    <2>2. Outcome(c, WriteLastMessage(c))  BY AnswerLemma
    <2> QED  BY <2>1, <2>2 DEF SetupPingOrInactiveTimeout
  <1> QED  BY <1>1 DEF SetupInactiveTimeout

\* A set of numbers has a least one.
LEMMA LeastOf ==
    ASSUME NEW I, I # {}, I \subseteq Nat
    PROVE  Min(I) \in I /\ \A y \in I : Min(I) <= y
  <1> DEFINE R == OpToRel(<, Nat)
  <1>1. IsWellFoundedOn(R, Nat)  BY NatLessThanWellFounded, Zenon
  <1>2. \A x, y \in Nat : y < x => <<y, x>> \in R  BY Zenon DEF OpToRel
  <1> HIDE DEF R
  <1>3. PICK x \in I : \A y \in I : ~(<<y, x>> \in R)  BY <1>1, WFMin, Zenon
  <1>4. \A y \in I : ~(y < x)  BY <1>2, <1>3, Zenon
  <1>5. \A y \in I : x <= y  BY <1>4
  <1> QED  BY <1>5 DEF Min

\* Stepping over empty messages leaves a queue whose first message is not empty.
LEMMA SkipEmptyLemma ==
    ASSUME NEW q \in Queue
    PROVE  /\ SkipEmpty(q) \in Queue
           /\ SkipEmpty(q) # <<>> => Head(SkipEmpty(q)).kind # "empty"
  <1> DEFINE M == Message \union {Null}
             I == {i \in 1..Len(q) : q[i].kind # "empty"}
             n == SelectInSeq(q, LAMBDA m : m.kind # "empty")
  <1>1. q \in Seq(M)  BY DEF Queue
  <1>2. n = IF I # {} THEN Min(I) ELSE 0  BY DEF SelectInSeq
  <1>3. CASE n = 0
    BY <1>3 DEF SkipEmpty, Queue
  <1>4. CASE n # 0
    <2>1. I # {} /\ I \subseteq Nat  BY <1>1, <1>2, <1>4
    <2>2. n \in 1..Len(q) /\ q[n].kind # "empty"
      <3>1. Min(I) \in I
        <4> HIDE DEF I
        <4> QED  BY <2>1, LeastOf
      <3> QED  BY <1>2, <2>1, <3>1
    <2>3. SubSeq(q, n, Len(q)) \in Seq(M) /\ Head(SubSeq(q, n, Len(q))) = q[n]
      <3> HIDE DEF M, n
      <3> QED  BY <1>1, <2>2, SubSeqProperties
    <2> QED  BY <1>4, <2>2, <2>3 DEF SkipEmpty, Queue
  <1> QED  BY <1>3, <1>4

\* write_message() sends, waits or ends; it does nothing when not connected.
LEMMA WriteMessageLemma ==
    ASSUME NEW c \in ConnectionState
    PROVE  Outcome(c, WriteMessage(c))
  <1> DEFINE q    == SkipEmpty(c.messages)
             left == [Cancel(c) EXCEPT !.messages = q]
             sent == [left EXCEPT !.messages = Tail(q), !.writing = TRUE]
  <1>1. q \in Queue
    <2>1. c.messages \in Queue  BY DEF ConnectionState
    <2> QED  BY <2>1, SkipEmptyLemma
  <1> HIDE DEF q
  <1>2. Same(c, left) /\ left \in ConnectionState
    <2>1. Same(c, Cancel(c)) /\ Cancel(c) \in ConnectionState  BY CancelLemma DEF Same
    <2>2. "http" \in Transport  BY DEF Transport
    <2>3. Same(Cancel(c), left)  BY <1>1, <2>1, <2>2, FlagLemma
    <2> QED  BY <2>1, <2>3, OutcomeAfterSame DEF Same
  <1> HIDE DEF left
  <1>3. ASSUME NEW e, Outcome(left, e) PROVE Outcome(c, e)
    BY <1>2, <1>3, OutcomeAfterSame
  <1>4. Outcome(c, c)  BY DEF Outcome, Same
  <1>5. Outcome(c, SetupInactiveTimeout(left))  BY <1>2, <1>3, IdleLemma
  <1>6. Outcome(c, WriteLastMessage(left))  BY <1>2, <1>3, AnswerLemma
  <1>7. Outcome(c, Cleanup(left))  BY <1>2, <1>3, CleanupLemma DEF Outcome
  <1>8. ASSUME q # <<>>, Head(q).kind # "null"
        PROVE  Outcome(c, WriteOut(sent, "write_message", Head(q)))
    <2> DEFINE M == Message \union {Null}
    <2>1. Head(q) \in M /\ Tail(q) \in Queue
      <3>1. q \in Seq(M)  BY <1>1 DEF Queue
      <3> HIDE DEF M
      <3>2. Head(q) \in M /\ Tail(q) \in Seq(M)  BY <1>8, <3>1
      <3> QED  BY <3>2 DEF Queue, M
    <2>2. Head(q) \in Item  BY <2>1, <1>8 DEF Null, Fixed, Item
    <2>3. Same(left, sent) /\ sent \in ConnectionState
      BY <1>2, <2>1 DEF Same, ConnectionState
    <2> HIDE DEF sent
    <2>4. Same(sent, WriteOut(sent, "write_message", Head(q)))
      BY <2>2, <2>3, WriteOutLemma DEF WriteHandlers
    <2> QED  BY <1>2, <1>3, <2>3, <2>4, OutcomeAfterSame DEF Outcome
  <1>9. WriteMessage(c) =
          CASE ~c.connected            -> c
            [] c.connected /\ q = <<>> -> SetupInactiveTimeout(left)
            [] c.connected /\ q # <<>> ->
                CASE Head(q).kind = "null" -> WriteLastMessage(left)
                  [] Head(q).kind = "bad"  -> Cleanup(left)
                  [] OTHER -> WriteOut(sent, "write_message", Head(q))
    BY DEF WriteMessage, q, left
  <1>10. c.connected \in BOOLEAN  BY DEF ConnectionState
  <1> HIDE DEF sent
  <1>11. CASE ~c.connected  BY <1>4, <1>9, <1>11
  <1>12. CASE c.connected /\ q = <<>>  BY <1>5, <1>9, <1>12
  <1>13. CASE c.connected /\ q # <<>>
    <2>1. WriteMessage(c) = CASE Head(q).kind = "null" -> WriteLastMessage(left)
                              [] Head(q).kind = "bad"  -> Cleanup(left)
                              [] OTHER -> WriteOut(sent, "write_message", Head(q))
      BY <1>9, <1>13
    <2>2. CASE Head(q).kind = "null"  BY <1>6, <2>1, <2>2
    <2>3. CASE Head(q).kind = "bad"  BY <1>7, <2>1, <2>3
    <2>4. CASE Head(q).kind \notin {"null", "bad"}  BY <1>8, <1>13, <2>1, <2>4
    <2> QED  BY <2>2, <2>3, <2>4
  <1> QED  BY <1>10, <1>11, <1>12, <1>13

\* send() queues a message and may start writing.
LEMMA PushMessageLemma ==
    ASSUME NEW c \in ConnectionState, NEW m \in Message \union {Null}
    PROVE  Outcome(c, PushMessage(c, m))
  <1> DEFINE pushed == [c EXCEPT !.messages = Append(@, m)]
  <1>1. Append(c.messages, m) \in Queue
    <2> DEFINE M == Message \union {Null}
    <2>1. c.messages \in Seq(M)  BY DEF ConnectionState, Queue
    <2> HIDE DEF M
    <2>2. Append(c.messages, m) \in Seq(M)  BY <2>1 DEF M
    <2> QED  BY <2>2 DEF M, Queue
  <1>2. Same(c, pushed) /\ pushed \in ConnectionState
    BY <1>1 DEF Same, ConnectionState
  <1>3. PushMessage(c, m) = IF ~c.writing /\ c.connected THEN WriteMessage(pushed) ELSE pushed
    BY DEF PushMessage
  <1> HIDE DEF pushed
  <1>4. Outcome(pushed, WriteMessage(pushed))  BY <1>2, WriteMessageLemma
  <1> QED  BY <1>2, <1>3, <1>4, OutcomeAfterSame DEF Outcome

\* Reads that are started with or without a timeout.
LEMMA ReadLemma ==
    ASSUME NEW c \in ConnectionState
    PROVE  Same(c, ReadRequest(c)) /\ Same(c, ReadSome(c)) /\ Same(c, Handshake(c))
  <1>1. ASSUME NEW h \in ReadHandlers PROVE Same(c, SetupTimeout(AsyncRead(c, h)))
    <2>1. Same(c, AsyncRead(c, h)) /\ AsyncRead(c, h) \in ConnectionState
      BY AsyncReadLemma DEF Same
    <2>2. Same(AsyncRead(c, h), Arm(AsyncRead(c, h), "timeout"))
      BY <2>1, ArmLemma DEF TimerHandlers
    <2> QED  BY <2>1, <2>2, OutcomeAfterSame DEF SetupTimeout
  <1>2. Same(c, ReadSome(c))  BY AsyncReadLemma DEF ReadSome, ReadHandlers
  <1>3. Same(c, ReadRequest(c))  BY <1>1 DEF ReadRequest, ReadHandlers
  <1>4. Same(c, Handshake(c))  BY <1>1, <1>3 DEF Handshake, ReadHandlers
  <1> QED  BY <1>2, <1>3, <1>4

-----------------------------------------------------------------------------
(* The inductive invariant, and that every job keeps it.                   *)

\* The strengthening: beside what the properties say, a finished manager knows
\* no connection and a closed socket has no write waiting.
LifeInv(c) ==
    /\ c \in ConnectionState
    /\ c.connected => c.open
    /\ c.managed = c.registered
    /\ c.registered => c.opened = c.closed + 1
    /\ ~c.registered /\ ~c.finished => c.opened = c.closed
    /\ c.closed <= c.opened
    /\ c.finished => ~c.registered
    /\ ~c.open => c.writes = <<>>

\* d keeps the invariant, and stays closed if c was.
Good(c, d) ==
    /\ LifeInv(d)
    /\ ~c.open => ~d.open /\ d.wire = c.wire /\ ~d.connected

\* Both outcomes of a method keep the invariant.
LEMMA OutcomeIsGood ==
    ASSUME NEW c, LifeInv(c), NEW d, Outcome(c, d)
    PROVE  Good(c, d)
  <1>1. c \in ConnectionState  BY DEF LifeInv
  <1>2. c.closed \in Nat /\ c.opened \in Nat /\ c.managed \in BOOLEAN
        /\ c.registered \in BOOLEAN /\ c.finished \in BOOLEAN
    BY <1>1 DEF ConnectionState
  <1>3. CASE Same(c, d)
    BY <1>2, <1>3 DEF LifeInv, Good, Same
  <1>4. CASE Ended(c, d)
    <2>1. d.registered \in BOOLEAN /\ d.managed \in BOOLEAN
      BY <1>4 DEF Ended, ConnectionState
    <2> QED  BY <1>2, <1>4, <2>1 DEF LifeInv, Good, Ended
  <1> QED  BY <1>3, <1>4 DEF Outcome

\* Something that keeps the life of c may come first.
LEMMA GoodAfterSame ==
    ASSUME NEW c, LifeInv(c), NEW d, Same(c, d)
    PROVE  /\ LifeInv(d)
           /\ d \in ConnectionState
           /\ \A e : Good(d, e) => Good(c, e)
           /\ \A e : Outcome(d, e) => Good(c, e)
  <1>1. LifeInv(d)  BY OutcomeIsGood DEF Outcome, Good
  <1>2. ASSUME NEW e, Good(d, e) PROVE Good(c, e)
    BY <1>2 DEF Good, Same
  <1>3. ASSUME NEW e, Outcome(d, e) PROVE Good(c, e)
    BY <1>1, <1>2, <1>3, OutcomeIsGood
  <1> QED  BY <1>1, <1>2, <1>3 DEF LifeInv

\* handled() and handled_errors(), also for a connection closed meanwhile.
LEMMA HandledLemma ==
    ASSUME NEW c, LifeInv(c), NEW answer \in Answers
    PROVE  Good(c, Handled(c, answer))
  <1> DEFINE off   == [Cancel(c) EXCEPT !.invoked = FALSE]
             named == [off EXCEPT !.single = (answer = "named_single"),
                                  !.disable_ping = PingInterval < MINIMAL_PING_INTERVAL \/ ~PingText]
             ins   == InsertConnection(named)
             mgd   == [ins EXCEPT !.managed = TRUE]
  <1>1. c \in ConnectionState  BY DEF LifeInv
  <1>2. Same(c, off)
    <2>1. Same(c, Cancel(c)) /\ Cancel(c) \in ConnectionState  BY <1>1, CancelLemma DEF Same
    <2>2. Same(Cancel(c), off)  BY <2>1 DEF Same, ConnectionState
    <2> QED  BY <1>1, <2>1, <2>2, OutcomeAfterSame
  <1>3. off \in ConnectionState  BY <1>2 DEF Same
  <1> HIDE DEF off
  <1>4. Same(off, named)
    <2>1. (PingInterval < MINIMAL_PING_INTERVAL \/ ~PingText) \in BOOLEAN  OBVIOUS
    <2>2. (answer = "named_single") \in BOOLEAN  OBVIOUS
    <2> QED  BY <1>3, <2>1, <2>2, ZenonT(60) DEF Same, ConnectionState
  <1>5. Same(c, named)  BY <1>1, <1>2, <1>4, OutcomeAfterSame
  <1> HIDE DEF named
  <1>6. named \in ConnectionState /\ LifeInv(named)  BY <1>5, GoodAfterSame
  <1>7. /\ Outcome(off, WriteStaticContent(off))
        /\ Outcome(off, WriteHttpError(off))
        /\ Outcome(off, Cleanup(off))
    BY <1>3, AnswerLemma, CleanupLemma DEF Outcome
  <1>8. Outcome(named, Cleanup(named))  BY <1>6, CleanupLemma DEF Outcome
  <1>9. ASSUME ~named.finished, ~named.registered PROVE Good(named, WriteHeaders(mgd))
    <2>1. named.opened + 1 \in Nat /\ named.opened = named.closed
      BY <1>6, <1>9 DEF LifeInv, ConnectionState
    <2>2. /\ ins \in ConnectionState /\ ins.registered
          /\ ins.opened = named.opened + 1 /\ ins.closed = named.closed
          /\ ins.finished = named.finished /\ ins.open = named.open
          /\ ins.connected = named.connected /\ ins.wire = named.wire
          /\ ins.writes = named.writes
      BY <1>6, <2>1 DEF InsertConnection, ConnectionState
    <2> HIDE DEF ins
    <2>3. /\ mgd \in ConnectionState /\ mgd.registered /\ mgd.managed
          /\ mgd.opened = ins.opened /\ mgd.closed = ins.closed
          /\ mgd.finished = ins.finished /\ mgd.open = ins.open
          /\ mgd.connected = ins.connected /\ mgd.wire = ins.wire
          /\ mgd.writes = ins.writes
      BY <2>2 DEF ConnectionState
    <2> HIDE DEF mgd
    <2>4. named.closed \in Nat /\ mgd.registered \in BOOLEAN /\ mgd.managed \in BOOLEAN
      BY <1>6, <2>3 DEF ConnectionState
    <2>5. LifeInv(mgd)  BY <1>6, <1>9, <2>1, <2>2, <2>3, <2>4 DEF LifeInv
    <2>6. Outcome(mgd, WriteHeaders(mgd))  BY <2>3, AnswerLemma
    <2>7. Good(mgd, WriteHeaders(mgd))  BY <2>5, <2>6, OutcomeIsGood
    <2> QED  BY <2>2, <2>3, <2>7 DEF Good
  <1>10. Handled(c, answer) =
           CASE answer = "content"    -> WriteStaticContent(off)
             [] answer = "http_error" -> WriteHttpError(off)
             [] answer = "exception"  -> Cleanup(off)
             [] OTHER -> IF named.finished \/ named.registered THEN Cleanup(named)
                                                               ELSE WriteHeaders(mgd)
    BY DEF Handled, off, named
  <1> HIDE DEF mgd
  <1>11. /\ Good(c, WriteStaticContent(off))
         /\ Good(c, WriteHttpError(off))
         /\ Good(c, Cleanup(off))
    BY <1>2, <1>7, GoodAfterSame
  <1>12. /\ Good(c, Cleanup(named))
         /\ ~named.finished /\ ~named.registered => Good(c, WriteHeaders(mgd))
    BY <1>5, <1>8, <1>9, GoodAfterSame
  <1> QED  BY <1>10, <1>11, <1>12

\* The handlers of reads.
LEMMA ReadHandlersLemma ==
    ASSUME NEW c, LifeInv(c), NEW ok, NEW request \in Requests,
           NEW transport \in Transport, NEW answer \in Answers
    PROVE  /\ Good(c, HandleHandshake(c, ok))
           /\ Good(c, HandleReadSome(c, ok))
           /\ Good(c, HandleReadRequest(c, ok, request, transport, answer))
  <1> DEFINE off == Cancel(c)
             pol == [off EXCEPT !.is_policy = TRUE]
             inv == [off EXCEPT !.transport = transport, !.invoked = TRUE]
             ws  == [off EXCEPT !.transport = transport]
  <1>1. Same(c, off)  BY CancelLemma DEF LifeInv
  <1>2. off \in ConnectionState /\ LifeInv(off)  BY <1>1, GoodAfterSame
  <1> HIDE DEF off
  <1>3. Good(c, Cleanup(off)) /\ Good(c, WriteHttpError(off))
    BY <1>1, <1>2, CleanupLemma, AnswerLemma, GoodAfterSame DEF Outcome
  <1>4. Good(c, ReadRequest(off)) /\ Good(c, ReadSome(off))
    BY <1>1, <1>2, ReadLemma, GoodAfterSame DEF Outcome
  <1>5. Same(off, pol) /\ Same(off, inv) /\ Same(off, ws)
    BY <1>2 DEF Same, ConnectionState
  <1> HIDE DEF pol, inv, ws
  <1>6. Good(c, WritePolicyData(pol))
    <2>1. pol \in ConnectionState /\ Same(c, pol)
      BY <1>1, <1>5, OutcomeAfterSame DEF Same, LifeInv
    <2> QED  BY <2>1, AnswerLemma, GoodAfterSame
  <1>7. Good(c, inv)
    <2>1. Outcome(off, inv)  BY <1>5 DEF Outcome
    <2> QED  BY <1>1, <2>1, GoodAfterSame
  <1>8. Good(c, Handled(ws, answer))
    <2>1. Same(c, ws)  BY <1>1, <1>5, OutcomeAfterSame DEF LifeInv
    <2>2. LifeInv(ws)  BY <2>1, GoodAfterSame
    <2>3. Good(ws, Handled(ws, answer))  BY <2>2, HandledLemma
    <2> QED  BY <2>1, <2>3, GoodAfterSame
  <1>9. Good(c, HandleHandshake(c, ok)) /\ Good(c, HandleReadSome(c, ok))
    BY <1>3, <1>4 DEF HandleHandshake, HandleReadSome, off
  <1>10. HandleReadRequest(c, ok, request, transport, answer) =
           IF ~ok THEN Cleanup(off)
           ELSE CASE request = "exception"  -> Cleanup(off)
                  [] request = "http_error" -> WriteHttpError(off)
                  [] request = "policy"     -> WritePolicyData(pol)
                  [] request = "request"    -> IF Threaded THEN inv ELSE Handled(ws, answer)
    BY DEF HandleReadRequest, off, pol, inv, ws
  <1>11. Good(c, HandleReadRequest(c, ok, request, transport, answer))
    BY <1>3, <1>6, <1>7, <1>8, <1>10 DEF Requests
  <1> QED  BY <1>9, <1>11

\* The handlers of writes.  handle_write_headers() connects open sockets only.
LEMMA WriteHandlersLemma ==
    ASSUME NEW c, LifeInv(c), NEW ok \in BOOLEAN, NEW left
    PROVE  /\ Good(c, HandleWriteHeaders(c, ok))
           /\ Good(c, HandleWriteMessage(c, ok))
           /\ Good(c, HandleWritePingMessage(c, ok, left))
  <1> DEFINE off == Cancel(c)
             on  == [off EXCEPT !.connected = TRUE]
             end == [off EXCEPT !.writing = FALSE]
  <1>1. Same(c, off)  BY CancelLemma DEF LifeInv
  <1>2. off \in ConnectionState /\ LifeInv(off)  BY <1>1, GoodAfterSame
  <1>3. c \in ConnectionState /\ c.open \in BOOLEAN  BY DEF LifeInv, ConnectionState
  <1> HIDE DEF off
  <1>4. Good(c, Cleanup(off)) /\ Good(c, off)
    BY <1>1, <1>2, CleanupLemma, GoodAfterSame DEF Outcome, Good, Same
  <1>5. ASSUME c.open PROVE Good(c, WriteMessage(ReadSome(on)))
    <2>1. off.open  BY <1>1, <1>5 DEF Same
    <2>2. /\ on \in ConnectionState /\ on.connected
          /\ on.open = off.open /\ on.managed = off.managed /\ on.writes = off.writes
          /\ on.registered = off.registered /\ on.finished = off.finished
          /\ on.opened = off.opened /\ on.closed = off.closed
      BY <1>2 DEF ConnectionState
    <2> HIDE DEF on
    <2>3. LifeInv(on)  BY <1>2, <2>1, <2>2 DEF LifeInv
    <2>4. Same(on, ReadSome(on)) /\ ReadSome(on) \in ConnectionState
      BY <2>2, ReadLemma DEF Same
    <2>5. Outcome(ReadSome(on), WriteMessage(ReadSome(on)))  BY <2>4, WriteMessageLemma
    <2>6. Good(on, WriteMessage(ReadSome(on)))  BY <2>3, <2>4, <2>5, GoodAfterSame
    <2> QED  BY <1>5, <2>6 DEF Good
  <1>6. HandleWriteHeaders(c, ok) = CASE ~ok           -> Cleanup(off)
                                      [] ok /\ c.open  -> WriteMessage(ReadSome(on))
                                      [] ok /\ ~c.open -> off
    BY DEF HandleWriteHeaders, off
  <1> HIDE DEF on
  <1>7. Good(c, HandleWriteHeaders(c, ok))
    BY <1>3, <1>4, <1>5, <1>6
  <1>8. Same(c, end) /\ end \in ConnectionState
    <2>1. Same(off, end)  BY <1>2 DEF Same, ConnectionState
    <2> QED  BY <1>1, <1>3, <2>1, OutcomeAfterSame DEF Same
  <1>9. HandleWriteMessage(c, ok) = CASE ~ok               -> Cleanup(end)
                                      [] ok /\ end.single  -> WriteLastMessage(end)
                                      [] ok /\ ~end.single -> WriteMessage(end)
    BY DEF HandleWriteMessage, off
  <1>10. HandleWritePingMessage(c, ok, left) =
           CASE ~ok                       -> Cleanup(end)
             [] ok /\ end.messages # <<>> -> WriteMessage(end)
             [] ok /\ end.messages = <<>> -> SetupPingOrInactiveTimeout(end, left)
    BY DEF HandleWritePingMessage, off
  <1> HIDE DEF end
  <1>11. Outcome(end, Cleanup(end))  BY <1>8, CleanupLemma DEF Outcome
  <1>12. Outcome(end, WriteLastMessage(end))  BY <1>8, AnswerLemma
  <1>13. Outcome(end, WriteMessage(end))  BY <1>8, WriteMessageLemma
  <1>14. Outcome(end, SetupPingOrInactiveTimeout(end, left))  BY <1>8, IdleLemma
  <1>15. /\ Good(c, Cleanup(end)) /\ Good(c, WriteLastMessage(end))
         /\ Good(c, WriteMessage(end)) /\ Good(c, SetupPingOrInactiveTimeout(end, left))
    BY <1>8, <1>11, <1>12, <1>13, <1>14, GoodAfterSame
  <1>16. end.single \in BOOLEAN  BY <1>8 DEF ConnectionState
  <1>17. Good(c, HandleWriteMessage(c, ok))  BY <1>9, <1>15, <1>16
  <1>18. Good(c, HandleWritePingMessage(c, ok, left))  BY <1>10, <1>15
  <1> QED  BY <1>7, <1>17, <1>18

\* Taking a handler off the run queue leaves a connection with the same life.
LEMMA PoppedLemma ==
    ASSUME LifeInv(conn), conn.ready # <<>>
    PROVE  /\ Same(conn, Popped) /\ Same(conn, PoppedTimer)
           /\ Ok \in BOOLEAN
  <1> DEFINE R == [h : Handlers, ok : BOOLEAN]
  <1>1. conn \in ConnectionState /\ conn.ready \in Seq(R)
    BY DEF LifeInv, ConnectionState, RunQueue
  <1>2. Head(conn.ready) \in R /\ Tail(conn.ready) \in Seq(R)
    <2> HIDE DEF R
    <2> QED  BY <1>1
  <1>3. Ok \in BOOLEAN  BY <1>2 DEF Ok
  <1>4. Tail(conn.ready) \in RunQueue  BY <1>2 DEF RunQueue
  <1>5. Same(conn, Popped) /\ Popped \in ConnectionState
    BY <1>1, <1>4 DEF Popped, Same, ConnectionState
  <1>6. Same(Popped, PoppedTimer)
    <2>1. (Popped.late \/ conn.stale) \in BOOLEAN  OBVIOUS
    <2> QED  BY <1>5, <2>1, ZenonT(60) DEF PoppedTimer, Same, ConnectionState
  <1> QED  BY <1>1, <1>3, <1>5, <1>6, OutcomeAfterSame

\* Every step of the specification keeps the invariant.
LEMMA NextIsGood ==
    ASSUME LifeInv(conn), Next
    PROVE  Good(conn, conn')
  <1>1. conn \in ConnectionState  BY DEF LifeInv
  <1>2. ASSUME Start PROVE Good(conn, conn')
    <2> DEFINE c == [conn EXCEPT !.started = TRUE]
    <2>1. Same(conn, c) /\ c \in ConnectionState  BY <1>1 DEF Same, ConnectionState
    <2>2. conn' = Handshake(c) \/ conn' = Cleanup(c)  BY <1>2 DEF Start
    <2> HIDE DEF c
    <2>3. Outcome(c, Handshake(c)) /\ Outcome(c, Cleanup(c))
      BY <2>1, ReadLemma, CleanupLemma DEF Outcome
    <2> QED  BY <2>1, <2>2, <2>3, GoodAfterSame
  <1>3. ASSUME RunHandler PROVE Good(conn, conn')
    <2>1. conn.ready # <<>>
      BY <1>3 DEF RunHandler, RunHandshake, RunReadRequest, RunReadSome, RunWriteHeaders,
                  RunWriteMessage, RunWritePingMessage, RunCleanup, RunTimeout, RunPing,
                  RunInactiveTimeout, Next_h
    <2>2. Same(conn, Popped) /\ Same(conn, PoppedTimer) /\ Ok \in BOOLEAN
      BY <2>1, PoppedLemma
    <2>3. LifeInv(Popped) /\ LifeInv(PoppedTimer)  BY <2>2, GoodAfterSame
    <2>4. ASSUME NEW e, Good(Popped, e) PROVE Good(conn, e)
      BY <2>2, <2>4, GoodAfterSame
    <2>5. ASSUME NEW e, Outcome(PoppedTimer, e) PROVE Good(conn, e)
      BY <2>2, <2>5, GoodAfterSame
    <2>6. CASE RunHandshake \/ RunReadSome
      <3>1. "exception" \in Requests /\ "http" \in Transport /\ "exception" \in Answers
        BY DEF Requests, Transport, Answers
      <3>2. Good(Popped, HandleHandshake(Popped, Ok)) /\ Good(Popped, HandleReadSome(Popped, Ok))
        BY <2>3, <3>1, ReadHandlersLemma
      <3> QED  BY <2>4, <2>6, <3>2 DEF RunHandshake, RunReadSome
    <2>7. CASE RunReadRequest
      <3>1. PICK request \in Requests, transport \in Transports, answer \in Answers :
               conn' = HandleReadRequest(Popped, Ok, request, transport, answer)
        BY <2>7 DEF RunReadRequest
      <3>2. transport \in Transport  BY MessageAssumption
      <3>3. Good(Popped, HandleReadRequest(Popped, Ok, request, transport, answer))
        BY <2>3, <3>2, ReadHandlersLemma
      <3> QED  BY <2>4, <3>1, <3>3
    <2>8. CASE RunWriteHeaders \/ RunWriteMessage
      <3>1. Good(Popped, HandleWriteHeaders(Popped, Ok)) /\ Good(Popped, HandleWriteMessage(Popped, Ok))
        BY <2>2, <2>3, WriteHandlersLemma
      <3> QED  BY <2>4, <2>8, <3>1 DEF RunWriteHeaders, RunWriteMessage
    <2>9. CASE RunWritePingMessage
      <3>1. PICK left \in Clock : conn' = HandleWritePingMessage(Popped, Ok, left)
        BY <2>9 DEF RunWritePingMessage
      <3>2. Good(Popped, HandleWritePingMessage(Popped, Ok, left))
        BY <2>2, <2>3, WriteHandlersLemma
      <3> QED  BY <2>4, <3>1, <3>2
    <2>10. CASE RunCleanup
      <3>1. Good(Popped, Cleanup(Popped))
        BY <2>3, CleanupLemma, OutcomeIsGood DEF Outcome, LifeInv
      <3> QED  BY <2>4, <2>10, <3>1 DEF RunCleanup, HandleCleanup
    <2>11. CASE RunTimeout \/ RunPing \/ RunInactiveTimeout
      <3>1. PoppedTimer \in ConnectionState  BY <2>3 DEF LifeInv
      <3>2. /\ Outcome(PoppedTimer, Cleanup(PoppedTimer))
            /\ Outcome(PoppedTimer, WritePingMessage(PoppedTimer))
            /\ Outcome(PoppedTimer, WriteLastMessage(PoppedTimer))
        BY <3>1, CleanupLemma, AnswerLemma DEF Outcome
      <3> QED
        BY <2>5, <2>11, <3>2 DEF RunTimeout, RunPing, RunInactiveTimeout,
                                 HandleTimeout, HandlePing, HandleInactiveTimeout
    <2> QED  BY <1>3, <2>6, <2>7, <2>8, <2>9, <2>10, <2>11 DEF RunHandler
  <1>4. ASSUME Answer PROVE Good(conn, conn')
    BY <1>4, HandledLemma DEF Answer
  <1>5. ASSUME Send PROVE Good(conn, conn')
    <2>1. PICK kind \in Kinds :
            LET m == [kind |-> kind, n |-> conn.sent + 1]
                c == [conn EXCEPT !.sent = @ + 1,
                                  !.accepted = IF kind = "data" THEN @ \union {m.n} ELSE @]
            IN  conn' = PushMessage(c, m)
      BY <1>5 DEF Send
    <2> DEFINE m == [kind |-> kind, n |-> conn.sent + 1]
               a == IF kind = "data" THEN conn.accepted \union {m.n} ELSE conn.accepted
               c == [conn EXCEPT !.sent = @ + 1, !.accepted = a]
    <2>2. conn.sent + 1 \in Nat /\ conn.accepted \in SUBSET Nat
      BY <1>1 DEF ConnectionState, Numbers
    <2>3. m \in Message  BY <2>2, MessageAssumption DEF Message
    <2>4. a \in Numbers  BY <2>2 DEF Numbers
    <2>5. conn' = PushMessage(c, m)  BY <2>1
    <2> HIDE DEF a, m
    <2>6. Same(conn, c) /\ c \in ConnectionState
      BY <1>1, <2>2, <2>4 DEF Same, ConnectionState
    <2> HIDE DEF c
    <2>7. Outcome(c, PushMessage(c, m))  BY <2>3, <2>6, PushMessageLemma
    <2> QED  BY <2>5, <2>6, <2>7, GoodAfterSame
  <1>6. ASSUME OpenedFailed PROVE Good(conn, conn')
    BY <1>1, <1>6, CleanupLemma, OutcomeIsGood DEF OpenedFailed, Outcome
  <1>7. ASSUME Finish PROVE Good(conn, conn')
    <2> DEFINE c == [conn EXCEPT !.finished = TRUE, !.registered = FALSE]
    <2>1. /\ c \in ConnectionState /\ c.finished /\ ~c.registered
          /\ c.connected = conn.connected /\ c.open = conn.open /\ c.managed = conn.managed
          /\ c.opened = conn.opened /\ c.closed = conn.closed
          /\ c.wire = conn.wire /\ c.writes = conn.writes
      BY <1>1 DEF ConnectionState
    <2>2. conn' = IF conn.registered THEN Cleanup(PushMessage(c, Null)) ELSE c
      BY <1>7 DEF Finish
    <2> HIDE DEF c
    <2>3. c.registered \in BOOLEAN /\ c.managed \in BOOLEAN /\ conn.registered \in BOOLEAN
          /\ conn.opened \in Nat /\ conn.closed \in Nat
      BY <1>1, <2>1 DEF ConnectionState
    <2>4. CASE ~conn.registered
      BY <2>1, <2>2, <2>3, <2>4 DEF LifeInv, Good
    <2>5. CASE conn.registered
      <3> DEFINE p == PushMessage(c, Null)
                 e == Cleanup(p)
      <3>1. Outcome(c, p)  BY <2>1, PushMessageLemma
      <3>2. p \in ConnectionState  BY <3>1 DEF Outcome, Same, Ended
      <3> HIDE DEF p
      <3>3. Ended(p, e)  BY <3>2, CleanupLemma
      <3> HIDE DEF e
      <3>4. p.finished /\ ~p.registered /\ p.opened = c.opened /\ p.closed = c.closed
            /\ p.wire = c.wire /\ (~p.open => p.writes = <<>>)
        BY <2>1, <3>1 DEF Outcome, Same, Ended, LifeInv
      <3>5. e.registered \in BOOLEAN /\ e.managed \in BOOLEAN
        BY <3>3 DEF Ended, ConnectionState
      <3>6. /\ e \in ConnectionState /\ ~e.connected /\ ~e.open /\ ~e.managed
            /\ e.finished /\ ~e.registered /\ e.writes = <<>>
            /\ e.opened = conn.opened /\ e.closed = conn.closed /\ e.wire = conn.wire
        BY <2>1, <3>3, <3>4, <3>5 DEF Ended
      <3>7. conn' = e  BY <2>2, <2>5 DEF e, p
      <3> QED  BY <2>3, <3>5, <3>6, <3>7 DEF LifeInv, Good
    <2> QED  BY <2>3, <2>4, <2>5
  <1>8. ASSUME ReadCompletes PROVE Good(conn, conn')
    <2> DEFINE c == [conn EXCEPT !.read = "none"]
    <2>1. PICK ok \in BOOLEAN : conn' = Complete(c, conn.read, ok)
      BY <1>8 DEF ReadCompletes
    <2>2. conn.read \in Handlers
      <3>1. conn.read \in Read  BY <1>1 DEF ConnectionState
      <3> QED  BY <1>8, <3>1 DEF ReadCompletes, Read, Handlers
    <2>3. Same(conn, c) /\ c \in ConnectionState
      <3>1. "none" \in Read  BY DEF Read
      <3> QED  BY <1>1, <3>1 DEF Same, ConnectionState
    <2> HIDE DEF c
    <2>4. Outcome(c, conn')  BY <2>1, <2>2, <2>3, CompleteLemma DEF Outcome
    <2> QED  BY <2>3, <2>4, GoodAfterSame
  <1>9. ASSUME WriteCompletes PROVE Good(conn, conn')
    <2> DEFINE w == Head(conn.writes)
               wr == IF w.item.kind = "ping" THEN conn.wire ELSE Append(conn.wire, w.item)
               c == [conn EXCEPT !.writes = Tail(@)]
               d == [c EXCEPT !.wire = wr]
    <2>1. conn.open  BY <1>9 DEF WriteCompletes, LifeInv
    <2>2. w \in [h : WriteHandlers, item : Item] /\ Tail(conn.writes) \in Writes
      <3> DEFINE W == [h : WriteHandlers, item : Item]
      <3>1. conn.writes \in Seq(W)  BY <1>1 DEF ConnectionState, Writes
      <3> HIDE DEF W
      <3>2. Head(conn.writes) \in W /\ Tail(conn.writes) \in Seq(W)
        BY <1>9, <3>1 DEF WriteCompletes
      <3> QED  BY <3>2 DEF W, Writes
    <2>3. w.h \in Handlers /\ w.item \in Item  BY <2>2 DEF Handlers
    <2>4. /\ c \in ConnectionState /\ c.connected = conn.connected /\ c.open = conn.open
          /\ c.managed = conn.managed /\ c.registered = conn.registered
          /\ c.finished = conn.finished /\ c.opened = conn.opened /\ c.closed = conn.closed
          /\ c.wire = conn.wire
      BY <1>1, <2>2 DEF ConnectionState
    <2>5. conn' = Complete(d, w.h, TRUE) \/ conn' = Complete(c, w.h, FALSE)
      <3>1. d = [c EXCEPT !.wire = IF w.item.kind = "ping" THEN @ ELSE Append(@, w.item)]
        <4> HIDE DEF c, w
        <4> QED  BY <2>4 DEF ConnectionState
      <3> QED  BY <1>9, <3>1 DEF WriteCompletes
    <2> HIDE DEF c, w
    <2>6. wr \in Wire
      <3>1. conn.wire \in Seq(Item)  BY <1>1 DEF ConnectionState, Wire
      <3>2. Append(conn.wire, w.item) \in Seq(Item)  BY <2>3, <3>1
      <3> QED  BY <3>1, <3>2 DEF Wire
    <2> HIDE DEF wr
    <2>7. /\ d \in ConnectionState /\ d.connected = c.connected /\ d.open = c.open
          /\ d.managed = c.managed /\ d.registered = c.registered
          /\ d.finished = c.finished /\ d.opened = c.opened /\ d.closed = c.closed
      BY <2>4, <2>6 DEF ConnectionState
    <2> HIDE DEF d
    <2>8. LifeInv(c) /\ LifeInv(d)  BY <2>1, <2>4, <2>7 DEF LifeInv
    <2>9. Same(d, Complete(d, w.h, TRUE)) /\ Same(c, Complete(c, w.h, FALSE))
      BY <2>3, <2>4, <2>7, CompleteLemma
    <2>10. LifeInv(conn')  BY <2>5, <2>8, <2>9, GoodAfterSame
    <2> QED  BY <2>1, <2>10 DEF Good
  <1>10. ASSUME TimerExpires PROVE Good(conn, conn')
    <2> DEFINE c == [conn EXCEPT !.timer = "off"]
    <2>1. conn.timer \in Handlers
      <3>1. conn.timer \in Timer  BY <1>1 DEF ConnectionState
      <3> QED  BY <1>10, <3>1 DEF TimerExpires, Timer, Handlers
    <2>2. Same(conn, c) /\ c \in ConnectionState
      <3>1. "off" \in Timer  BY DEF Timer
      <3> QED  BY <1>1, <3>1 DEF Same, ConnectionState
    <2>3. conn' = Complete(c, conn.timer, TRUE)  BY <1>10 DEF TimerExpires
    <2> HIDE DEF c
    <2>4. Outcome(c, conn')  BY <2>1, <2>2, <2>3, CompleteLemma DEF Outcome
    <2> QED  BY <2>2, <2>4, GoodAfterSame
  <1> QED
    BY <1>2, <1>3, <1>4, <1>5, <1>6, <1>7, <1>8, <1>9, <1>10 DEF Next

\* A connection that was just accepted satisfies the invariant.
LEMMA InitIsGood == Init => LifeInv(conn)
  <1>1. /\ "http" \in Transport /\ <<>> \in Queue /\ "off" \in Timer /\ "none" \in Read
        /\ <<>> \in Writes /\ <<>> \in RunQueue /\ {} \in Numbers /\ <<>> \in Wire
    BY DEF Transport, Queue, Timer, Read, Writes, RunQueue, Numbers, Wire
  <1>2. NewConnection \in ConnectionState  BY <1>1 DEF NewConnection, ConnectionState
  <1> QED  BY <1>2 DEF Init, LifeInv, NewConnection

\* The invariant holds in every state of every behaviour.
THEOREM LifeInvariant == Spec => []LifeInv(conn)
  <1>1. Init => LifeInv(conn)  BY InitIsGood
  <1>2. LifeInv(conn) /\ [Next]_vars => LifeInv(conn)'
    <2> SUFFICES ASSUME LifeInv(conn), [Next]_vars PROVE LifeInv(conn)'
      OBVIOUS
    <2>1. CASE Next  BY <2>1, NextIsGood DEF Good, LifeInv
    <2>2. CASE UNCHANGED vars  BY <2>2 DEF vars, LifeInv
    <2> QED  BY <2>1, <2>2
  <1> QED  BY <1>1, <1>2, PTL DEF Spec

\* Every field of a connection always has its type.
THEOREM TypeCorrect == Spec => []TypeOK
  <1>1. LifeInv(conn) => TypeOK  BY DEF LifeInv, TypeOK
  <1> QED  BY <1>1, LifeInvariant, PTL

\* No handler revives a connection that cleanup() has closed, whatever timers,
\* completions and calls are still to come.
THEOREM NeverConnectedAfterClose == Spec => []ConnectedOnlyWhileOpen
  <1>1. LifeInv(conn) => ConnectedOnlyWhileOpen  BY DEF LifeInv, ConnectedOnlyWhileOpen
  <1> QED  BY <1>1, LifeInvariant, PTL

\* The flag managed_ and the manager agree, and the listener hears of openings
\* and closings in pairs, however a connection ends.
THEOREM ListenersHearPairs == Spec => []NotificationsBalanced
  <1>1. LifeInv(conn) => NotificationsBalanced  BY DEF LifeInv, NotificationsBalanced
  <1> QED  BY <1>1, LifeInvariant, PTL

\* A closed connection stays closed and nothing more reaches its peer.
THEOREM CloseIsForever == Spec => ClosedIsFinal
  <1>1. LifeInv(conn) /\ [Next]_vars
           => [~conn.open => ~conn'.open /\ conn'.wire = conn.wire /\ ~conn'.connected]_vars
    BY NextIsGood DEF Good, vars
  <1> QED  BY <1>1, LifeInvariant, PTL DEF Spec, ClosedIsFinal

-----------------------------------------------------------------------------
(***************************************************************************)
(* What is written and when the connection waits.                          *)
(*                                                                         *)
(* A method that goes on with an open connection starts one write under    *)
(* the write timeout (Began) or arms the timer of an idle client (Waits).  *)
(* Lemmas show that for every method, from the asio calls upwards.  The    *)
(* invariant says who may call these methods and finds no write in flight. *)
(***************************************************************************)

\* The reads of a request, and the handlers of a connection that is served.
Reading == {"handshake", "read_request"}
Idle    == {"ping", "inactive"}
Serving == Idle \union {"write_message", "write_ping_message"}

\* Some handler, or at most one, of a kind is in the run queue.
Pending(c, H)     == \E i \in 1..Len(c.ready) : c.ready[i].h \in H
PendingOnce(c, H) ==
    \A i, j \in 1..Len(c.ready) : c.ready[i].h \in H /\ c.ready[j].h \in H => i = j

\* No write, or at most one, whose handler has not run.
NoWrite(c)  == c.writes = <<>> /\ ~Pending(c, WriteHandlers)
OneWrite(c) ==
    /\ Len(c.writes) <= 1 /\ PendingOnce(c, WriteHandlers)
    /\ c.writes # <<>> => ~Pending(c, WriteHandlers)

\* No request is being read or is with the response handler, or at most one.
NoRead(c)  == c.read \notin Reading /\ ~Pending(c, Reading) /\ ~c.invoked
OneRead(c) ==
    /\ PendingOnce(c, Reading)
    /\ c.read \in Reading => ~Pending(c, Reading) /\ ~c.invoked
    /\ c.invoked => ~Pending(c, Reading)

\* Only a connected client is pinged, told to be inactive or sent messages.
Served(c) ==
    c.open =>
        /\ c.timer \in Idle => c.connected
        /\ Pending(c, Serving) => c.connected
        /\ \A i \in 1..Len(c.writes) : c.writes[i].h \in Serving => c.connected

\* A connection that the acceptor has not started.
Fresh(c) ==
    c.started \/ /\ c.read = "none" /\ c.writes = <<>> /\ c.ready = <<>> /\ c.wire = <<>>
                 /\ c.timer = "off" /\ ~c.invoked /\ ~c.connected /\ ~c.registered

\* AlwaysWatched of a connection.
Watched(c) ==
    c.open /\ c.started /\ ~c.invoked => c.timer # "off" \/ c.ready # <<>>

\* The read that notices the end of the peer never ends well if its buffer has
\* no limit.
EndsBadly(c) ==
    c.open => \A i \in 1..Len(c.ready) : c.ready[i].h = "read_some" => ~c.ready[i].ok

\* Who may start a write finds none: the reader of a request, send() when no
\* message is being written, and a timer that was not cancelled.
Turns(c) ==
    c.open =>
        /\ OneWrite(c) /\ OneRead(c)
        /\ ~NoRead(c) => NoWrite(c) /\ ~c.connected
        /\ c.connected /\ ~c.writing => NoWrite(c)
        /\ c.timer \in Idle => NoWrite(c)
        /\ Pending(c, Idle) /\ ~c.stale => NoWrite(c)

Opening == {"headers", "error", "static", "policy"}
Final   == {"error", "static", "policy", "last"}

\* What has reached a client that may be sent more.
Begun(c) ==
    c.wire # <<>> /\ \A i \in 1..Len(c.wire) : c.wire[i].kind \notin Final
BegunOnly(c) == Begun(c) /\ (c.single => Len(c.wire) = 1)

\* Which handler follows a write.
Fits(w) ==
    /\ w.item.kind = "headers" <=> w.h = "write_headers"
    /\ w.item.kind = "data" <=> w.h = "write_message"
    /\ w.item.kind = "ping" <=> w.h = "write_ping_message"
    /\ w.item.kind \in Final <=> w.h = "cleanup"

\* When an item of a kind may follow what is on the wire, or a wait.
May(c, k) ==
    /\ k \in Opening => c.wire = <<>>
    /\ k \in {"data", "ping", "wait"} => BegunOnly(c)
    /\ k = "last" => Begun(c)

\* What is on the wire, given what is being written or was just written.
OnWire(c) ==
    c.open =>
        /\ \A i \in 1..Len(c.writes) :
              Fits(c.writes[i]) /\ May(c, c.writes[i].item.kind)
        /\ \A i \in 1..Len(c.ready) : c.ready[i].ok =>
              /\ c.ready[i].h = "write_headers" => Len(c.wire) = 1 /\ c.wire[1].kind = "headers"
              /\ c.ready[i].h = "write_message" => Begun(c)
              /\ c.ready[i].h = "write_ping_message" => BegunOnly(c)
        /\ c.connected /\ NoWrite(c) => BegunOnly(c)

\* WireWellFormed of a connection, and that nothing is on the wire of one whose
\* request is not answered.
GoodWire(c) ==
    /\ ~NoRead(c) => c.wire = <<>>
    /\ \A i \in 1..Len(c.wire) :
          /\ c.wire[i].kind \in Opening <=> i = 1
          /\ c.wire[i].kind \in Final => i = Len(c.wire)
          /\ c.wire[i].kind = "data" /\ c.single => i = 2

WriteInv(c) ==
    /\ Served(c) /\ Fresh(c)
    /\ ~InputBounded => Watched(c) /\ EndsBadly(c)
    /\ ~c.late => Turns(c) /\ OnWire(c) /\ GoodWire(c)

-----------------------------------------------------------------------------
(* What the methods do.                                                    *)

\* d comes after c: nothing is sent and no request is asked for.
Quiet(c, d) ==
    /\ d \in ConnectionState
    /\ d.started = c.started /\ d.late = c.late
    /\ d.wire = c.wire /\ d.single = c.single
    /\ NoRead(c) => NoRead(d)

\* d is c but for flags, messages and the timer.
Like(c, d) ==
    /\ Quiet(c, d)
    /\ d.open = c.open /\ d.connected = c.connected
    /\ d.ready = c.ready /\ d.writes = c.writes
    /\ d.read = c.read /\ d.invoked = c.invoked

\* The timer runs, and a wait that expired before counts as cancelled.
Armed(d) == d.timer # "off" /\ (Pending(d, TimerHandlers) => d.stale)

\* One write of a kind in K was started under the write timeout.
Began(c, d, K) ==
    /\ d.ready = c.ready /\ d.read = c.read /\ d.invoked = c.invoked
    /\ d.connected = c.connected
    /\ Armed(d) /\ d.timer = "timeout"
    /\ c.connected => d.writing \/ d.late
    /\ \E w \in [h : WriteHandlers, item : Item] :
          /\ d.writes = Append(c.writes, w)
          /\ Fits(w) /\ w.item.kind \in K
          /\ w.h \in Serving => c.connected

\* The connected client is idle.
Waits(c, d) ==
    /\ d.ready = c.ready /\ d.read = c.read /\ d.invoked = c.invoked
    /\ d.connected = c.connected /\ d.writes = c.writes
    /\ Armed(d) /\ d.timer \in Idle /\ c.connected

\* The outcome of a method that may write the kinds in K, or wait.
Result(c, d, K) ==
    /\ Quiet(c, d)
    /\ d.open => c.open /\ (Began(c, d, K) \/ ("wait" \in K /\ Waits(c, d)))

\* Cancelling the timer.
LEMMA CancelQuiet ==
    ASSUME NEW c \in ConnectionState
    PROVE  /\ Quiet(c, Cancel(c))
           /\ Cancel(c).timer = "off" /\ Cancel(c).open = c.open
           /\ Cancel(c).ready = c.ready /\ Cancel(c).writes = c.writes
           /\ Cancel(c).read = c.read /\ Cancel(c).invoked = c.invoked
           /\ Cancel(c).connected = c.connected /\ Cancel(c).writing = c.writing
           /\ Cancel(c).messages = c.messages
           /\ Pending(c, TimerHandlers) => Cancel(c).stale
  <1>1. Cancel(c) \in ConnectionState  BY CancelLemma DEF Same
  <1>2. /\ Cancel(c).started = c.started /\ Cancel(c).late = c.late
        /\ Cancel(c).wire = c.wire /\ Cancel(c).single = c.single
        /\ Cancel(c).timer = "off" /\ Cancel(c).open = c.open
        /\ Cancel(c).ready = c.ready /\ Cancel(c).writes = c.writes
        /\ Cancel(c).read = c.read /\ Cancel(c).invoked = c.invoked
        /\ Cancel(c).connected = c.connected /\ Cancel(c).writing = c.writing
        /\ Cancel(c).messages = c.messages
        /\ Cancel(c).stale = (c.stale \/ TimerReady(c))
    BY DEF Cancel, ConnectionState
  <1>3. Pending(c, TimerHandlers) => TimerReady(c)
    <2>1. c.ready \in Seq([h : Handlers, ok : BOOLEAN])  BY DEF ConnectionState, RunQueue
    <2>2. DOMAIN c.ready = 1..Len(c.ready)  BY <2>1
    <2> QED  BY <2>2 DEF Pending, TimerReady
  <1>4. NoRead(c) => NoRead(Cancel(c))  BY <1>2 DEF NoRead, Pending
  <1> QED  BY <1>1, <1>2, <1>3, <1>4 DEF Quiet

\* Arming it.
LEMMA ArmQuiet ==
    ASSUME NEW c \in ConnectionState, NEW h \in TimerHandlers
    PROVE  /\ Quiet(c, Arm(c, h)) /\ Armed(Arm(c, h))
           /\ Arm(c, h).timer = h /\ Arm(c, h).open = c.open
           /\ Arm(c, h).ready = c.ready /\ Arm(c, h).writes = c.writes
           /\ Arm(c, h).read = c.read /\ Arm(c, h).invoked = c.invoked
           /\ Arm(c, h).connected = c.connected /\ Arm(c, h).writing = c.writing
  <1> DEFINE o == Cancel(c)
             d == Arm(c, h)
  <1>1. d \in ConnectionState /\ d.timer # "off"  BY ArmLemma DEF Same
  <1>2. o \in ConnectionState  BY CancelLemma DEF Same
  <1>3. d = [o EXCEPT !.timer = h]  BY DEF Arm
  <1> HIDE DEF d
  <1>4. /\ d.started = o.started /\ d.late = o.late /\ d.stale = o.stale
        /\ d.wire = o.wire /\ d.single = o.single
        /\ d.timer = h /\ d.open = o.open
        /\ d.ready = o.ready /\ d.writes = o.writes
        /\ d.read = o.read /\ d.invoked = o.invoked
        /\ d.connected = o.connected /\ d.writing = o.writing
    <2> HIDE DEF o
    <2> QED  BY <1>2, <1>3 DEF ConnectionState
  <1>5. /\ Quiet(c, o) /\ o.open = c.open
        /\ o.ready = c.ready /\ o.writes = c.writes
        /\ o.read = c.read /\ o.invoked = c.invoked
        /\ o.connected = c.connected /\ o.writing = c.writing
        /\ Pending(c, TimerHandlers) => o.stale
    BY CancelQuiet
  <1> HIDE DEF o
  <1>6. NoRead(c) => NoRead(d)  BY <1>4, <1>5 DEF NoRead, Pending
  <1>7. Pending(d, TimerHandlers) => d.stale  BY <1>4, <1>5 DEF Pending
  <1>8. /\ Quiet(c, d) /\ Armed(d)
        /\ d.timer = h /\ d.open = c.open
        /\ d.ready = c.ready /\ d.writes = c.writes
        /\ d.read = c.read /\ d.invoked = c.invoked
        /\ d.connected = c.connected /\ d.writing = c.writing
    BY <1>1, <1>4, <1>5, <1>6, <1>7 DEF Quiet, Armed
  <1> QED  BY <1>8 DEF d

\* What is quiet after something quiet.
LEMMA QuietAfter ==
    ASSUME NEW c, NEW d, NEW e, Quiet(c, d), Quiet(d, e)
    PROVE  Quiet(c, e)
  BY DEF Quiet

\* Closing the socket asks for no request: the handlers it queues are those of
\* operations that were waiting.
LEMMA CloseSocketQuiet ==
    ASSUME NEW c \in ConnectionState
    PROVE  Quiet(c, CloseSocket(c)) /\ ~CloseSocket(c).open
  <1> DEFINE first == IF c.read = "none" THEN <<>> ELSE <<[h |-> c.read, ok |-> FALSE]>>
             rest  == [i \in DOMAIN c.writes |-> [h |-> c.writes[i].h, ok |-> FALSE]]
             q     == first \o rest
             d     == CloseSocket(c)
  <1>1. d \in ConnectionState /\ ~d.open  BY CloseSocketLemma
  <1>2. d = [c EXCEPT !.open = FALSE, !.read = "none", !.writes = <<>>,
                      !.ready = c.ready \o q]
    BY DEF CloseSocket
  <1> HIDE DEF d, q
  <1>3. /\ d.started = c.started /\ d.late = c.late /\ d.wire = c.wire
        /\ d.single = c.single /\ d.read = "none" /\ d.invoked = c.invoked
        /\ d.ready = c.ready \o q
    BY <1>2 DEF ConnectionState
  <1>4. c.ready \in Seq([h : Handlers, ok : BOOLEAN])  BY DEF ConnectionState, RunQueue
  <1>5. ASSUME NoRead(c)
        PROVE  q \in Seq([h : Handlers, ok : BOOLEAN]) /\ \A i \in 1..Len(q) : q[i].h \notin Reading
    <2> DEFINE W == [h : WriteHandlers, item : Item]
               N == Handlers \ Reading
               R == [h : N, ok : BOOLEAN]
    <2>1. c.writes \in Seq(W) /\ c.read \in Read  BY DEF ConnectionState, Writes
    <2>2. Len(c.writes) \in Nat /\ DOMAIN c.writes = 1..Len(c.writes)
      <3> HIDE DEF W
      <3> QED  BY <2>1
    <2>3. first \in Seq(R)
      <3>1. c.read \in N \/ c.read = "none"
        BY <1>5, <2>1 DEF NoRead, Read, Handlers
      <3>2. CASE c.read = "none"  BY <3>2
      <3>3. CASE c.read # "none"
        <4> HIDE DEF N
        <4>1. [h |-> c.read, ok |-> FALSE] \in R  BY <3>1, <3>3
        <4> HIDE DEF R
        <4> QED  BY <3>3, <4>1
      <3> QED  BY <3>2, <3>3
    <2>4. rest \in Seq(R)
      <3>1. ASSUME NEW i \in 1..Len(c.writes)
            PROVE  [h |-> c.writes[i].h, ok |-> FALSE] \in R
        <4>1. c.writes[i] \in W
          <5> HIDE DEF W
          <5> QED  BY <2>1
        <4>2. c.writes[i].h \in N  BY <4>1 DEF WriteHandlers, Handlers, Reading
        <4> QED  BY <4>2
      <3> HIDE DEF R
      <3>2. rest \in [1..Len(c.writes) -> R]  BY <2>2, <3>1
      <3> QED  BY <2>2, <3>2
    <2>5. q \in Seq(R)
      <3> HIDE DEF first, rest, R
      <3> QED  BY <2>3, <2>4 DEF q
    <2>6. \A i \in 1..Len(q) : q[i] \in R
      <3> HIDE DEF R
      <3> QED  BY <2>5
    <2>7. q \in Seq([h : Handlers, ok : BOOLEAN])
      <3> DEFINE S == [h : Handlers, ok : BOOLEAN]
      <3>1. R \subseteq S  OBVIOUS
      <3> HIDE DEF R, S
      <3>2. q \in Seq(S)  BY <2>5, <3>1, SeqMonotonic, Zenon
      <3> QED  BY <3>2 DEF S
    <2> QED  BY <2>6, <2>7
  <1>6. ASSUME NoRead(c) PROVE NoRead(d)
    <2>1. ~Pending(c, Reading) /\ ~c.invoked  BY <1>6 DEF NoRead
    <2>2. ASSUME NEW i \in 1..Len(d.ready) PROVE d.ready[i].h \notin Reading
      <3> DEFINE R == [h : Handlers, ok : BOOLEAN]
      <3>1. c.ready \in Seq(R) /\ q \in Seq(R)  BY <1>4, <1>5, <1>6
      <3> HIDE DEF R
      <3>2. CASE i <= Len(c.ready)
        <4>1. d.ready[i] = c.ready[i] /\ i \in 1..Len(c.ready)  BY <1>3, <3>1, <3>2
        <4> QED  BY <2>1, <4>1 DEF Pending
      <3>3. CASE ~(i <= Len(c.ready))
        <4>1. d.ready[i] = q[i - Len(c.ready)] /\ i - Len(c.ready) \in 1..Len(q)
          BY <1>3, <3>1, <3>3
        <4> QED  BY <1>5, <1>6, <4>1
      <3> QED  BY <3>2, <3>3
    <2> QED  BY <1>3, <2>1, <2>2 DEF NoRead, Pending, Reading
  <1>7. Quiet(c, d)  BY <1>1, <1>3, <1>6 DEF Quiet
  <1> QED  BY <1>1, <1>7 DEF d

\* Fields that say nothing of reads, writes and waits.
LEMMA FlagQuiet ==
    ASSUME NEW c \in ConnectionState, NEW b \in BOOLEAN
    PROVE  /\ Quiet(c, [c EXCEPT !.connected = b])
           /\ Quiet(c, [c EXCEPT !.managed = b])
           /\ Quiet(c, [c EXCEPT !.writing = b])
           /\ Quiet(c, [c EXCEPT !.is_policy = b])
  <1>1. Quiet(c, [c EXCEPT !.connected = b])
    BY DEF Quiet, NoRead, Pending, ConnectionState
  <1>2. Quiet(c, [c EXCEPT !.managed = b])
    BY DEF Quiet, NoRead, Pending, ConnectionState
  <1>3. Quiet(c, [c EXCEPT !.writing = b])
    BY DEF Quiet, NoRead, Pending, ConnectionState
  <1>4. Quiet(c, [c EXCEPT !.is_policy = b])
    BY DEF Quiet, NoRead, Pending, ConnectionState
  <1> QED  BY <1>1, <1>2, <1>3, <1>4

\* cleanup().
LEMMA CleanupQuiet ==
    ASSUME NEW c \in ConnectionState
    PROVE  Quiet(c, Cleanup(c)) /\ ~Cleanup(c).open
  <1> DEFINE off     == [Cancel(c) EXCEPT !.connected = FALSE]
             unset   == [off EXCEPT !.managed = FALSE]
             gone    == RemoveConnection(unset)
             removed == IF off.managed THEN gone ELSE off
  <1>1. Quiet(c, off) /\ off \in ConnectionState
    <2>1. Quiet(c, Cancel(c)) /\ Cancel(c) \in ConnectionState  BY CancelQuiet DEF Quiet
    <2>2. Quiet(Cancel(c), off)  BY <2>1, FlagQuiet
    <2> QED  BY <2>1, <2>2, QuietAfter DEF Quiet
  <1> HIDE DEF off
  <1>2. Quiet(c, unset) /\ unset \in ConnectionState
    <2>1. Quiet(off, unset)  BY <1>1, FlagQuiet
    <2> QED  BY <1>1, <2>1, QuietAfter DEF Quiet
  <1> HIDE DEF unset
  <1>3. Quiet(c, gone)
    <2>1. Quiet(unset, gone)
      <3>1. CASE unset.finished  BY <1>2, <3>1 DEF RemoveConnection, Quiet
      <3>2. CASE ~unset.finished
        <4>1. gone = [unset EXCEPT !.registered = FALSE, !.closed = unset.closed + 1]
          BY <3>2 DEF RemoveConnection
        <4>2. unset.closed + 1 \in Nat  BY <1>2 DEF ConnectionState
        <4> QED  BY <1>2, <4>1, <4>2, ZenonT(60) DEF Quiet, NoRead, Pending, ConnectionState
      <3> QED  BY <3>1, <3>2
    <2> QED  BY <1>2, <2>1, QuietAfter
  <1> HIDE DEF gone
  <1>4. Quiet(c, removed) /\ removed \in ConnectionState  BY <1>1, <1>3 DEF Quiet
  <1>5. Cleanup(c) = IF removed.open THEN CloseSocket(removed) ELSE removed
    BY DEF Cleanup, off, unset, gone
  <1> HIDE DEF removed
  <1>6. Quiet(c, CloseSocket(removed)) /\ ~CloseSocket(removed).open
    BY <1>4, CloseSocketQuiet, QuietAfter
  <1> QED  BY <1>4, <1>5, <1>6

\* A handler that reads no request is queued.
LEMMA CompleteQuiet ==
    ASSUME NEW c \in ConnectionState, NEW h \in Handlers \ Reading, NEW ok \in BOOLEAN
    PROVE  Quiet(c, Complete(c, h, ok)) /\ Complete(c, h, ok).open = c.open
  <1> DEFINE R == [h : Handlers, ok : BOOLEAN]
             r == [h |-> h, ok |-> ok]
             d == Complete(c, h, ok)
  <1>1. d \in ConnectionState  BY CompleteLemma DEF Same
  <1>2. d = [c EXCEPT !.ready = Append(c.ready, r)]  BY DEF Complete
  <1>3. c.ready \in Seq(R)  BY DEF ConnectionState, RunQueue
  <1>4. r \in R /\ r.h \notin Reading  OBVIOUS
  <1> HIDE DEF d, r
  <1>5. /\ d.started = c.started /\ d.late = c.late /\ d.wire = c.wire
        /\ d.single = c.single /\ d.read = c.read /\ d.invoked = c.invoked
        /\ d.open = c.open /\ d.ready = Append(c.ready, r)
    BY <1>2 DEF ConnectionState
  <1>6. ~Pending(c, Reading) => ~Pending(d, Reading)
    <2> HIDE DEF R
    <2> QED  BY <1>3, <1>4, <1>5 DEF Pending
  <1>7. Quiet(c, d)  BY <1>1, <1>5, <1>6 DEF Quiet, NoRead
  <1> QED  BY <1>5, <1>7 DEF d

\* A write and its timeout.
LEMMA WriteOutResult ==
    ASSUME NEW c \in ConnectionState, NEW h \in WriteHandlers, NEW item \in Item,
           NEW K, item.kind \in K, Fits([h |-> h, item |-> item]),
           c.connected => c.writing \/ c.late, h \in Serving /\ c.open => c.connected
    PROVE  Result(c, WriteOut(c, h, item), K)
  <1> DEFINE a == AsyncWrite(c, h, item)
             w == [h |-> h, item |-> item]
             d == Arm(a, "timeout")
  <1>1. a \in ConnectionState  BY AsyncWriteLemma DEF Same
  <1>2. /\ Quiet(a, d) /\ Armed(d)
        /\ d.timer = "timeout" /\ d.open = a.open
        /\ d.ready = a.ready /\ d.writes = a.writes
        /\ d.read = a.read /\ d.invoked = a.invoked
        /\ d.connected = a.connected /\ d.writing = a.writing
    <2> HIDE DEF a
    <2> QED  BY <1>1, ArmQuiet DEF TimerHandlers
  <1>3. WriteOut(c, h, item) = d  BY DEF WriteOut, SetupTimeout
  <1> HIDE DEF d
  <1>4. c.open \in BOOLEAN  BY DEF ConnectionState
  <1>5. CASE c.open
    <2>1. a = [c EXCEPT !.writes = Append(c.writes, w)]  BY <1>5 DEF AsyncWrite
    <2>2. w \in [h : WriteHandlers, item : Item] /\ w.h = h /\ w.item = item  OBVIOUS
    <2>3. Fits(w)  OBVIOUS
    <2> HIDE DEF w, a
    <2>4. /\ a.started = c.started /\ a.late = c.late /\ a.wire = c.wire
          /\ a.single = c.single /\ a.read = c.read /\ a.invoked = c.invoked
          /\ a.open = c.open /\ a.ready = c.ready /\ a.writes = Append(c.writes, w)
          /\ a.connected = c.connected /\ a.writing = c.writing
      BY <2>1 DEF ConnectionState
    <2>5. Quiet(c, a)  BY <1>1, <2>4 DEF Quiet, NoRead, Pending
    <2>6. Quiet(c, d)  BY <1>2, <2>5, QuietAfter
    <2>7. Began(c, d, K)  BY <1>2, <1>5, <2>2, <2>3, <2>4 DEF Began, Quiet
    <2> QED  BY <1>3, <1>5, <2>6, <2>7 DEF Result
  <1>6. CASE ~c.open
    <2>1. h \in Handlers \ Reading  BY DEF Handlers, Reading, WriteHandlers
    <2>2. Quiet(c, a) /\ a.open = c.open  BY <1>6, <2>1, CompleteQuiet DEF AsyncWrite
    <2> HIDE DEF a
    <2>3. Quiet(c, d)  BY <1>2, <2>2, QuietAfter
    <2> QED  BY <1>2, <1>3, <1>6, <2>2, <2>3 DEF Result
  <1> QED  BY <1>4, <1>5, <1>6

\* What a method does after something that only touched flags, messages and timer.
LEMMA ResultAfterLike ==
    ASSUME NEW c, NEW a, NEW d, NEW K, Like(c, a), Result(a, d, K)
    PROVE  Result(c, d, K)
  <1>1. Quiet(c, d)  BY QuietAfter DEF Like, Result
  <1>2. Began(a, d, K) => Began(c, d, K)  BY DEF Began, Like
  <1>3. Waits(a, d) => Waits(c, d)  BY DEF Waits, Like
  <1> QED  BY <1>1, <1>2, <1>3 DEF Result, Like

\* The same, with writing_message_ set first.
LEMMA WriteOutWritingResult ==
    ASSUME NEW c \in ConnectionState, NEW h \in WriteHandlers, NEW item \in Item,
           NEW K, item.kind \in K, Fits([h |-> h, item |-> item]),
           h \in Serving /\ c.open => c.connected
    PROVE  Result(c, WriteOut([c EXCEPT !.writing = TRUE], h, item), K)
  <1> DEFINE a == [c EXCEPT !.writing = TRUE]
  <1>1. Quiet(c, a)  BY FlagQuiet
  <1>2. /\ a \in ConnectionState /\ a.writing /\ a.connected = c.connected
        /\ a.open = c.open /\ a.ready = c.ready /\ a.writes = c.writes
        /\ a.read = c.read /\ a.invoked = c.invoked
    BY DEF ConnectionState
  <1> HIDE DEF a
  <1>3. Result(a, WriteOut(a, h, item), K)  BY <1>2, WriteOutResult
  <1>4. Like(c, a)  BY <1>1, <1>2 DEF Like
  <1>5. Result(c, WriteOut(a, h, item), K)  BY <1>3, <1>4, ResultAfterLike
  <1> QED  BY <1>5 DEF a

\* Ending the connection is an outcome of every method.
LEMMA CleanupResult ==
    ASSUME NEW c \in ConnectionState, NEW K
    PROVE  Result(c, Cleanup(c), K)
  BY CleanupQuiet DEF Result

\* The methods that write an answer.
LEMMA AnswerResult ==
    ASSUME NEW c \in ConnectionState
    PROVE  /\ Result(c, WriteLastMessage(c), {"last"})
           /\ (c.open => c.connected) => Result(c, WritePingMessage(c), {"ping"})
           /\ Result(c, WriteStaticContent(c), {"static"})
           /\ Result(c, WritePolicyData(c), {"policy"})
           /\ (c.connected => c.late) => Result(c, WriteHttpError(c), {"error"})
           /\ (c.connected => c.late) => Result(c, WriteHeaders(c), {"headers"})
  <1>1. ASSUME NEW K PROVE Result(c, Cleanup(c), K)  BY CleanupResult
  <1>2. ASSUME NEW k \in {"last", "static", "policy", "error"}
        PROVE  /\ Result(c, WriteOut([c EXCEPT !.writing = TRUE], "cleanup", Fixed(k)), {k})
               /\ (c.connected => c.late) => Result(c, WriteOut(c, "cleanup", Fixed(k)), {k})
    <2>1. "cleanup" \in WriteHandlers /\ "cleanup" \notin Serving
      BY DEF WriteHandlers, Serving, Idle
    <2>2. Fixed(k) \in Item /\ Fixed(k).kind \in {k}  BY FixedItems DEF Fixed
    <2>3. Fits([h |-> "cleanup", item |-> Fixed(k)])  BY DEF Fits, Fixed, Final
    <2> QED  BY <2>1, <2>2, <2>3, WriteOutResult, WriteOutWritingResult
  <1>3. (c.connected => c.late) => Result(c, WriteOut(c, "write_headers", Fixed("headers")), {"headers"})
    <2>1. "write_headers" \in WriteHandlers /\ "write_headers" \notin Serving
      BY DEF WriteHandlers, Serving, Idle
    <2>2. Fixed("headers") \in Item /\ Fixed("headers").kind \in {"headers"}
      BY FixedItems DEF Fixed
    <2>3. Fits([h |-> "write_headers", item |-> Fixed("headers")])
      BY DEF Fits, Fixed, Final
    <2> QED  BY <2>1, <2>2, <2>3, WriteOutResult
  <1>4. (c.open => c.connected) => Result(c, WritePingMessage(c), {"ping"})
    <2>1. "write_ping_message" \in WriteHandlers  BY DEF WriteHandlers
    <2>2. Fixed("ping") \in Item /\ Fixed("ping").kind \in {"ping"}  BY FixedItems DEF Fixed
    <2>3. Fits([h |-> "write_ping_message", item |-> Fixed("ping")])
      BY DEF Fits, Fixed, Final
    <2> QED  BY <2>1, <2>2, <2>3, WriteOutWritingResult DEF WritePingMessage
  <1>5. Result(c, WriteLastMessage(c), {"last"})  BY <1>1, <1>2 DEF WriteLastMessage
  <1>6. Result(c, WriteStaticContent(c), {"static"})  BY <1>1, <1>2 DEF WriteStaticContent
  <1>7. Result(c, WritePolicyData(c), {"policy"})  BY <1>1, <1>2 DEF WritePolicyData
  <1>8. (c.connected => c.late) => Result(c, WriteHttpError(c), {"error"})
    BY <1>1, <1>2 DEF WriteHttpError
  <1>9. (c.connected => c.late) => Result(c, WriteHeaders(c), {"headers"})
    BY <1>1, <1>3 DEF WriteHeaders
  <1> QED  BY <1>4, <1>5, <1>6, <1>7, <1>8, <1>9

\* More may be written than a method writes.
LEMMA ResultGrows ==
    ASSUME NEW c, NEW d, NEW K, NEW L, K \subseteq L, Result(c, d, K)
    PROVE  Result(c, d, L)
  BY DEF Result, Began

\* An idle client gets its next timer or is told that this is the end.
LEMMA IdleResult ==
    ASSUME NEW c \in ConnectionState, c.open => c.connected, NEW left
    PROVE  /\ Result(c, SetupPingOrInactiveTimeout(c, left), {"last", "wait"})
           /\ Result(c, SetupInactiveTimeout(c), {"last", "wait"})
  <1>1. ASSUME NEW h \in Idle PROVE Result(c, Arm(c, h), {"last", "wait"})
    <2>1. h \in TimerHandlers  BY DEF Idle, TimerHandlers
    <2>2. c.open => Waits(c, Arm(c, h))  BY <2>1, ArmQuiet DEF Waits
    <2> QED  BY <2>1, <2>2, ArmQuiet DEF Result
  <1>2. Result(c, Arm(c, "ping"), {"last", "wait"})  BY <1>1 DEF Idle
  <1>3. Result(c, Arm(c, "inactive"), {"last", "wait"})  BY <1>1 DEF Idle
  <1>4. Result(c, WriteLastMessage(c), {"last", "wait"})  BY AnswerResult, ResultGrows
  <1>5. ASSUME NEW l PROVE Result(c, SetupPingOrInactiveTimeout(c, l), {"last", "wait"})
    BY <1>2, <1>3, <1>4 DEF SetupPingOrInactiveTimeout
  <1> QED  BY <1>5 DEF SetupInactiveTimeout

\* write_message() of a connected client, or of one that is closed.
LEMMA WriteMessageResult ==
    ASSUME NEW c \in ConnectionState, c.open => c.connected
    PROVE  Result(c, WriteMessage(c), {"data", "last", "wait"})
  <1> DEFINE q    == SkipEmpty(c.messages)
             off  == Cancel(c)
             left == [off EXCEPT !.messages = q]
             sent == [left EXCEPT !.messages = Tail(q), !.writing = TRUE]
             K    == {"data", "last", "wait"}
  <1>1. q \in Queue /\ (q # <<>> => Head(q).kind # "empty")
    <2>1. c.messages \in Queue  BY DEF ConnectionState
    <2> QED  BY <2>1, SkipEmptyLemma
  <1>2. c.connected => WriteMessage(c) =
          CASE q = <<>> -> SetupInactiveTimeout(left)
            [] q # <<>> ->
                CASE Head(q).kind = "null" -> WriteLastMessage(left)
                  [] Head(q).kind = "bad"  -> Cleanup(left)
                  [] OTHER -> WriteOut(sent, "write_message", Head(q))
    BY DEF WriteMessage
  <1> HIDE DEF q
  <1>3. Like(c, left) /\ left \in ConnectionState
    <2>1. Like(c, off) /\ off \in ConnectionState  BY CancelQuiet DEF Quiet, Like
    <2> HIDE DEF off
    <2>2. /\ left \in ConnectionState /\ left.open = off.open /\ left.connected = off.connected
          /\ left.ready = off.ready /\ left.writes = off.writes
          /\ left.read = off.read /\ left.invoked = off.invoked
          /\ left.started = off.started /\ left.late = off.late
          /\ left.wire = off.wire /\ left.single = off.single
      BY <1>1, <2>1 DEF ConnectionState
    <2> HIDE DEF left
    <2> QED  BY <2>1, <2>2 DEF Like, Quiet, NoRead, Pending
  <1> HIDE DEF left, K
  <1>4. left.open => left.connected  BY <1>3 DEF Like
  <1>5. ASSUME NEW e, Result(left, e, K) PROVE Result(c, e, K)
    BY <1>3, <1>5, ResultAfterLike
  <1>6. Result(c, SetupInactiveTimeout(left), K)
    <2>1. Result(left, SetupInactiveTimeout(left), {"last", "wait"})  BY <1>3, <1>4, IdleResult
    <2> QED  BY <1>5, <2>1, ResultGrows DEF K
  <1>7. Result(c, WriteLastMessage(left), K)
    <2>1. Result(left, WriteLastMessage(left), {"last"})  BY <1>3, AnswerResult
    <2> QED  BY <1>5, <2>1, ResultGrows DEF K
  <1>8. Result(c, Cleanup(left), K)  BY <1>3, <1>5, CleanupResult
  <1>9. ASSUME q # <<>>, Head(q).kind \notin {"null", "bad"}
        PROVE  Result(c, WriteOut(sent, "write_message", Head(q)), K)
    <2> DEFINE M == Message \union {Null}
               m == Head(q)
    <2>1. m \in M /\ Tail(q) \in Queue
      <3>1. q \in Seq(M)  BY <1>1 DEF Queue
      <3> HIDE DEF M
      <3>2. Head(q) \in M /\ Tail(q) \in Seq(M)  BY <1>9, <3>1
      <3> QED  BY <3>2 DEF Queue, M
    <2>2. m \in Item /\ m.kind = "data"
      BY <1>1, <1>9, <2>1 DEF Null, Fixed, Item, Message, Kind
    <2> HIDE DEF m
    <2>3. /\ sent \in ConnectionState /\ sent.open = left.open /\ sent.connected = left.connected
          /\ sent.ready = left.ready /\ sent.writes = left.writes
          /\ sent.read = left.read /\ sent.invoked = left.invoked
          /\ sent.started = left.started /\ sent.late = left.late
          /\ sent.wire = left.wire /\ sent.single = left.single /\ sent.writing
      BY <1>3, <2>1 DEF ConnectionState
    <2> HIDE DEF sent
    <2>4. Like(left, sent)  BY <2>3 DEF Like, Quiet, NoRead, Pending
    <2>5. "write_message" \in WriteHandlers /\ m.kind \in K  BY <2>2 DEF WriteHandlers, K
    <2>6. Fits([h |-> "write_message", item |-> m])  BY <2>2 DEF Fits, Final
    <2>7. Result(sent, WriteOut(sent, "write_message", m), K)
      BY <1>4, <2>2, <2>3, <2>5, <2>6, WriteOutResult
    <2>8. Result(left, WriteOut(sent, "write_message", m), K)
      BY <2>4, <2>7, ResultAfterLike
    <2> QED  BY <1>5, <2>8 DEF m
  <1> HIDE DEF sent
  <1>10. CASE c.connected /\ q = <<>>  BY <1>2, <1>6, <1>10 DEF K
  <1>11. CASE c.connected /\ q # <<>>
    <2>1. CASE Head(q).kind = "null"  BY <1>2, <1>7, <1>11, <2>1 DEF K
    <2>2. CASE Head(q).kind = "bad"  BY <1>2, <1>8, <1>11, <2>2 DEF K
    <2>3. CASE Head(q).kind \notin {"null", "bad"}  BY <1>2, <1>9, <1>11, <2>3 DEF K
    <2> QED  BY <2>1, <2>2, <2>3
  <1>12. CASE ~c.connected
    <2>1. Quiet(c, c)  BY DEF Quiet
    <2>2. WriteMessage(c) = c  BY <1>12 DEF WriteMessage
    <2> QED  BY <1>12, <2>1, <2>2 DEF Result
  <1> QED  BY <1>10, <1>11, <1>12
-----------------------------------------------------------------------------
(* The invariant after a job, from what the job found.                     *)

\* A job that ends the connection.
LEMMA ClosedKeeps ==
    ASSUME NEW c, NEW d, c.started, ~c.late => GoodWire(c), Quiet(c, d), ~d.open
    PROVE  WriteInv(d)
  <1>1. d.started /\ d.late = c.late /\ d.wire = c.wire /\ d.single = c.single
        /\ (NoRead(c) => NoRead(d))
    BY DEF Quiet
  <1>2. ~d.late => GoodWire(d)  BY <1>1 DEF GoodWire
  <1>3. Served(d) /\ Watched(d) /\ EndsBadly(d) /\ Turns(d) /\ OnWire(d)
    BY DEF Served, Watched, EndsBadly, Turns, OnWire
  <1> QED  BY <1>1, <1>2, <1>3 DEF WriteInv, Fresh

\* cleanup() does.
LEMMA CleanupKeeps ==
    ASSUME NEW c \in ConnectionState, c.started, ~c.late => GoodWire(c)
    PROVE  WriteInv(Cleanup(c))
  BY CleanupQuiet, ClosedKeeps

\* A job that goes on with a connection finds it like this: unless a cancelled
\* timer handler ran, nothing is being written or asked for, and what follows
\* may follow.
MayGoOn(c, K) ==
    /\ c \in ConnectionState /\ c.started /\ Served(c)
    /\ ~InputBounded => EndsBadly(c)
    /\ ~c.late => GoodWire(c)
    /\ c.open /\ ~c.late => NoWrite(c) /\ NoRead(c) /\ \A k \in K : May(c, k)

\* One write is started, or the next wait.
LEMMA ResultKeeps ==
    ASSUME NEW c, NEW d, NEW K, MayGoOn(c, K), Result(c, d, K)
    PROVE  WriteInv(d)
  <1> DEFINE W == [h : WriteHandlers, item : Item]
  <1>1. /\ Quiet(c, d) /\ d.started /\ d.late = c.late /\ d.wire = c.wire
        /\ d.single = c.single /\ c.started
    BY DEF Result, Quiet, MayGoOn
  <1>2. CASE ~d.open  BY <1>1, <1>2, ClosedKeeps DEF MayGoOn
  <1>3. CASE d.open
    <2>1. c.open /\ (Began(c, d, K) \/ ("wait" \in K /\ Waits(c, d)))
      BY <1>3 DEF Result
    <2>2. /\ d.ready = c.ready /\ d.read = c.read /\ d.invoked = c.invoked
          /\ d.connected = c.connected /\ Armed(d)
      BY <2>1 DEF Began, Waits
    <2>3. /\ \A H : Pending(d, H) <=> Pending(c, H)
          /\ NoRead(d) <=> NoRead(c)
      BY <2>2 DEF Pending, NoRead
    <2>4. Fresh(d) /\ Watched(d) /\ (~InputBounded => EndsBadly(d))
      BY <1>1, <2>1, <2>2 DEF Fresh, Watched, Armed, EndsBadly, MayGoOn
    <2>5. ~d.late => GoodWire(d)  BY <1>1, <2>3 DEF GoodWire, MayGoOn
    <2>6. Served(c)  BY DEF MayGoOn
    <2>7. Pending(d, Idle) => d.stale
      <3>1. Pending(d, Idle) => Pending(d, TimerHandlers)
        BY DEF Pending, Idle, TimerHandlers
      <3> QED  BY <2>2, <3>1 DEF Armed
    <2>8. ~d.late => ~Pending(d, WriteHandlers) /\ c.writes = <<>> /\ NoRead(d) /\ \A k \in K : May(d, k)
      <3>1. \A k : May(c, k) => May(d, k)  BY <1>1 DEF May, BegunOnly, Begun
      <3> QED  BY <1>1, <2>1, <2>3, <3>1 DEF MayGoOn, NoWrite
    <2>9. ~d.late => OneRead(d)
      BY <2>8 DEF OneRead, NoRead, PendingOnce, Pending
    <2>10. CASE Began(c, d, K)
      <3>1. PICK w \in W : /\ d.writes = Append(c.writes, w)
                           /\ Fits(w) /\ w.item.kind \in K
                           /\ w.h \in Serving => c.connected
        BY <2>10 DEF Began
      <3>2. d.timer = "timeout" /\ (d.connected => d.writing \/ d.late)  BY <2>2, <2>10 DEF Began
      <3>3. c.writes \in Seq(W)  BY DEF MayGoOn, ConnectionState, Writes
      <3> HIDE DEF W
      <3>4. Served(d)
        <4>1. ASSUME NEW i \in 1..Len(d.writes), d.writes[i].h \in Serving PROVE d.connected
          <5>1. CASE i \in 1..Len(c.writes)
            <6>1. d.writes[i] = c.writes[i]  BY <3>1, <3>3, <5>1
            <6> QED  BY <2>1, <2>2, <2>6, <4>1, <5>1, <6>1 DEF Served
          <5>2. CASE i \notin 1..Len(c.writes)
            <6>1. d.writes[i] = w  BY <3>1, <3>3, <5>2
            <6> QED  BY <2>2, <3>1, <4>1, <6>1
          <5> QED  BY <5>1, <5>2
        <4> QED  BY <2>1, <2>2, <2>3, <2>6, <3>2, <4>1 DEF Served, Idle
      <3>5. ASSUME ~d.late PROVE Turns(d) /\ OnWire(d)
        <4>1. d.writes = Append(<<>>, w)  BY <2>8, <3>1, <3>5
        <4>2. Len(d.writes) = 1 /\ d.writes[1] = w /\ d.writes # <<>>  BY <4>1
        <4>3. OneWrite(d)  BY <2>8, <3>5, <4>2 DEF OneWrite, PendingOnce, Pending
        <4>4. Turns(d)  BY <2>7, <2>8, <2>9, <3>2, <3>5, <4>3 DEF Turns, Idle
        <4>5. \A i \in 1..Len(d.writes) : Fits(d.writes[i]) /\ May(d, d.writes[i].item.kind)
          BY <2>8, <3>1, <3>5, <4>2
        <4>6. ASSUME NEW i \in 1..Len(d.ready)
              PROVE  d.ready[i].h \notin {"write_headers", "write_message", "write_ping_message"}
          BY <2>8, <3>5 DEF Pending, WriteHandlers
        <4>7. ~NoWrite(d)  BY <4>2 DEF NoWrite
        <4> QED  BY <4>4, <4>5, <4>6, <4>7 DEF OnWire
      <3> QED  BY <2>4, <2>5, <3>4, <3>5 DEF WriteInv
    <2>11. CASE "wait" \in K /\ Waits(c, d)
      <3>1. d.writes = c.writes /\ d.timer \in Idle /\ d.connected  BY <2>2, <2>11 DEF Waits
      <3>2. Served(d)  BY <3>1 DEF Served
      <3>3. ASSUME ~d.late PROVE Turns(d) /\ OnWire(d)
        <4>1. NoWrite(d) /\ d.writes = <<>>  BY <2>8, <3>1, <3>3 DEF NoWrite
        <4>2. OneWrite(d)  BY <4>1 DEF OneWrite, NoWrite, PendingOnce, Pending
        <4>3. Turns(d)  BY <2>8, <2>9, <3>3, <4>1, <4>2 DEF Turns
        <4>4. BegunOnly(d)  BY <2>8, <2>11, <3>3 DEF May
        <4>5. ASSUME NEW i \in 1..Len(d.ready)
              PROVE  d.ready[i].h \notin {"write_headers", "write_message", "write_ping_message"}
          BY <2>8, <3>3 DEF Pending, WriteHandlers
        <4> QED  BY <4>1, <4>3, <4>4, <4>5 DEF OnWire
      <3> QED  BY <2>4, <2>5, <3>2, <3>3 DEF WriteInv
    <2> QED  BY <2>1, <2>10, <2>11
  <1>4. d.open \in BOOLEAN  BY <1>1 DEF Quiet, ConnectionState
  <1> QED  BY <1>2, <1>3, <1>4
-----------------------------------------------------------------------------
(* The jobs.                                                               *)

\* What a handler finds that was taken off the run queue.
Taken(p) ==
    /\ p \in ConnectionState /\ p.started /\ Served(p)
    /\ ~InputBounded => EndsBadly(p)
    /\ ~p.late => ~conn.late /\ GoodWire(p)
    /\ p.wire = conn.wire /\ p.single = conn.single
    /\ p.open = conn.open /\ p.connected = conn.connected
    /\ p.writes = conn.writes /\ p.read = conn.read /\ p.invoked = conn.invoked
    /\ p.timer = conn.timer /\ p.writing = conn.writing

\* How the run queue changes.
LEMMA TailLemma ==
    ASSUME NEW R, NEW s \in Seq(R), s # <<>>
    PROVE  /\ 1 \in 1..Len(s) /\ Head(s) = s[1]
           /\ \A i \in 1..Len(Tail(s)) : i + 1 \in 1..Len(s) /\ Tail(s)[i] = s[i + 1]
           /\ \A i \in 1..Len(s) : i # 1 => i - 1 \in 1..Len(Tail(s)) /\ Tail(s)[i - 1] = s[i]
  <1>1. Len(s) \in Nat /\ Len(s) # 0  OBVIOUS
  <1>2. Len(Tail(s)) = Len(s) - 1  BY <1>1, HeadTailProperties
  <1>3. \A i \in 1..Len(Tail(s)) : Tail(s)[i] = s[i + 1]  BY HeadTailProperties
  <1>4. Head(s) = s[1]  BY HeadTailProperties
  <1> QED  BY <1>1, <1>2, <1>3, <1>4

\* Popped and PoppedTimer keep what does not depend on the handler taken.
LEMMA TakenLemma ==
    ASSUME LifeInv(conn), WriteInv(conn), conn.ready # <<>>,
           NEW p, p = Popped \/ p = PoppedTimer
    PROVE  /\ Taken(p) /\ p.ready = Tail(conn.ready)
           /\ p = PoppedTimer /\ ~p.late => ~conn.stale
           /\ Ok \in BOOLEAN
  <1> DEFINE R == [h : Handlers, ok : BOOLEAN]
  <1>1. conn \in ConnectionState /\ conn.started
    BY DEF LifeInv, WriteInv, Fresh
  <1>2. conn.ready \in Seq(R)  BY <1>1 DEF ConnectionState, RunQueue
  <1>3. p \in ConnectionState /\ Ok \in BOOLEAN  BY PoppedLemma DEF Same
  <1>4. /\ p.started = conn.started /\ p.ready = Tail(conn.ready)
        /\ p.wire = conn.wire /\ p.single = conn.single
        /\ p.open = conn.open /\ p.connected = conn.connected
        /\ p.writes = conn.writes /\ p.read = conn.read /\ p.invoked = conn.invoked
        /\ p.timer = conn.timer /\ p.writing = conn.writing
    <2>1. Popped \in ConnectionState  BY PoppedLemma DEF Same
    <2> QED  BY <1>1, <2>1, ZenonT(60) DEF Popped, PoppedTimer, ConnectionState
  <1>5. ~p.late => ~conn.late /\ (p = PoppedTimer => ~conn.stale)
    <2>1. Popped.late = conn.late  BY <1>1 DEF Popped, ConnectionState
    <2>2. Popped \in ConnectionState  BY PoppedLemma DEF Same
    <2>3. PoppedTimer.late = (Popped.late \/ conn.stale)
      BY <2>2 DEF PoppedTimer, ConnectionState
    <2> QED  BY <2>1, <2>3
  <1>6. \A H : Pending(p, H) => Pending(conn, H)
    <2> HIDE DEF R
    <2> QED  BY <1>2, <1>4, TailLemma DEF Pending
  <1>7. NoRead(conn) => NoRead(p)  BY <1>4, <1>6 DEF NoRead
  <1>8. ~p.late => GoodWire(p)
    BY <1>4, <1>5, <1>7 DEF WriteInv, GoodWire
  <1>9. Served(p)  BY <1>4, <1>6 DEF WriteInv, Served
  <1>10. ~InputBounded => EndsBadly(p)
    <2> HIDE DEF R
    <2> QED  BY <1>2, <1>4, TailLemma DEF WriteInv, EndsBadly
  <1> QED  BY <1>1, <1>3, <1>4, <1>5, <1>8, <1>9, <1>10 DEF Taken
\* The handler of a write finds no other write and no request.
LEMMA TakenWrite ==
    ASSUME LifeInv(conn), WriteInv(conn), conn.ready # <<>>,
           Head(conn.ready).h \in WriteHandlers
    PROVE  /\ Popped.open /\ ~Popped.late => NoWrite(Popped) /\ NoRead(Popped)
           /\ Popped.open /\ Head(conn.ready).h \in Serving => Popped.connected
  <1> DEFINE R == [h : Handlers, ok : BOOLEAN]
  <1>1. conn.ready \in Seq(R)  BY DEF LifeInv, ConnectionState, RunQueue
  <1>2. Taken(Popped) /\ Popped.ready = Tail(conn.ready)  BY TakenLemma
  <1> HIDE DEF R
  <1>3. \A H : Head(conn.ready).h \in H => Pending(conn, H)
    BY <1>1, TailLemma DEF Pending
  <1>4. \A H : Head(conn.ready).h \in H /\ PendingOnce(conn, H) => ~Pending(Popped, H)
    <2> SUFFICES ASSUME NEW H, Head(conn.ready).h \in H, PendingOnce(conn, H),
                        NEW i \in 1..Len(Popped.ready), Popped.ready[i].h \in H
                 PROVE  FALSE
      BY DEF Pending
    <2>1. i + 1 \in 1..Len(conn.ready) /\ conn.ready[i + 1].h \in H /\ 1 \in 1..Len(conn.ready)
          /\ conn.ready[1].h \in H
      BY <1>1, <1>2, TailLemma
    <2>2. i + 1 = 1  BY <2>1 DEF PendingOnce
    <2> QED  BY <2>2
  <1>5. \A H : ~Pending(conn, H) => ~Pending(Popped, H)
    BY <1>1, <1>2, TailLemma DEF Pending
  <1>6. ASSUME Popped.open, ~Popped.late PROVE NoWrite(Popped) /\ NoRead(Popped)
    <2>1. Turns(conn) /\ conn.open  BY <1>2, <1>6 DEF WriteInv, Taken
    <2>2. OneWrite(conn) /\ Pending(conn, WriteHandlers)  BY <1>3, <2>1 DEF Turns
    <2>3. NoWrite(Popped)  BY <1>2, <1>4, <2>2 DEF OneWrite, NoWrite, Taken
    <2>4. NoRead(conn)  BY <2>1, <2>2 DEF Turns, NoWrite
    <2>5. NoRead(Popped)  BY <1>2, <1>5, <2>4 DEF NoRead, Taken
    <2> QED  BY <2>3, <2>5
  <1>7. ASSUME Popped.open, Head(conn.ready).h \in Serving PROVE Popped.connected
    BY <1>2, <1>3, <1>7 DEF WriteInv, Served, Taken
  <1> QED  BY <1>6, <1>7

\* The handler of a request finds no other request and nothing written.
LEMMA TakenRead ==
    ASSUME LifeInv(conn), WriteInv(conn), conn.ready # <<>>,
           Head(conn.ready).h \in Reading
    PROVE  /\ ~Popped.late => Popped.wire = <<>>
           /\ Popped.open /\ ~Popped.late => NoWrite(Popped) /\ NoRead(Popped) /\ ~Popped.connected
  <1> DEFINE R == [h : Handlers, ok : BOOLEAN]
  <1>1. conn.ready \in Seq(R)  BY DEF LifeInv, ConnectionState, RunQueue
  <1>2. Taken(Popped) /\ Popped.ready = Tail(conn.ready)  BY TakenLemma
  <1> HIDE DEF R
  <1>3. Pending(conn, Reading) /\ ~NoRead(conn)  BY <1>1, TailLemma DEF Pending, NoRead
  <1>4. \A H : ~Pending(conn, H) => ~Pending(Popped, H)
    BY <1>1, <1>2, TailLemma DEF Pending
  <1>5. ASSUME PendingOnce(conn, Reading), NEW i \in 1..Len(Popped.ready),
               Popped.ready[i].h \in Reading
        PROVE  FALSE
    <2>1. i + 1 \in 1..Len(conn.ready) /\ conn.ready[i + 1].h \in Reading /\ 1 \in 1..Len(conn.ready)
          /\ conn.ready[1].h \in Reading
      BY <1>1, <1>2, <1>5, TailLemma
    <2>2. i + 1 = 1  BY <1>5, <2>1 DEF PendingOnce
    <2> QED  BY <2>2
  <1>6. ~Popped.late => Popped.wire = <<>>
    BY <1>2, <1>3 DEF WriteInv, GoodWire, Taken
  <1>7. ASSUME Popped.open, ~Popped.late
        PROVE  NoWrite(Popped) /\ NoRead(Popped) /\ ~Popped.connected
    <2>1. Turns(conn) /\ conn.open  BY <1>2, <1>7 DEF WriteInv, Taken
    <2>2. OneRead(conn) /\ NoWrite(conn) /\ ~conn.connected  BY <1>3, <2>1 DEF Turns
    <2>3. NoWrite(Popped) /\ ~Popped.connected  BY <1>2, <1>4, <2>2 DEF NoWrite, Taken
    <2>4. ~Pending(Popped, Reading)  BY <1>5, <2>2 DEF OneRead, Pending
    <2>5. NoRead(Popped)  BY <1>2, <1>3, <2>2, <2>4 DEF OneRead, NoRead, Taken
    <2> QED  BY <2>3, <2>5
  <1> QED  BY <1>6, <1>7

\* The timer of an idle client that was not cancelled finds it idle.
LEMMA TakenTimer ==
    ASSUME LifeInv(conn), WriteInv(conn), conn.ready # <<>>,
           Head(conn.ready).h \in Idle
    PROVE  /\ PoppedTimer.open => PoppedTimer.connected
           /\ PoppedTimer.open /\ ~PoppedTimer.late
                 => NoWrite(PoppedTimer) /\ NoRead(PoppedTimer) /\ BegunOnly(PoppedTimer)
  <1> DEFINE R == [h : Handlers, ok : BOOLEAN]
             p == PoppedTimer
  <1>1. conn.ready \in Seq(R)  BY DEF LifeInv, ConnectionState, RunQueue
  <1>2. Taken(p) /\ p.ready = Tail(conn.ready) /\ (~p.late => ~conn.stale)  BY TakenLemma
  <1> HIDE DEF R, p
  <1>3. Pending(conn, Idle) /\ Pending(conn, Serving)
    BY <1>1, TailLemma DEF Pending, Serving
  <1>4. \A H : ~Pending(conn, H) => ~Pending(p, H)
    BY <1>1, <1>2, TailLemma DEF Pending
  <1>5. p.open => conn.connected /\ p.connected
    BY <1>2, <1>3 DEF WriteInv, Served, Taken
  <1>6. ASSUME p.open, ~p.late PROVE NoWrite(p) /\ NoRead(p) /\ BegunOnly(p)
    <2>1. Turns(conn) /\ OnWire(conn) /\ conn.open  BY <1>2, <1>6 DEF WriteInv, Taken
    <2>2. NoWrite(conn) /\ NoRead(conn)  BY <1>2, <1>3, <1>5, <1>6, <2>1 DEF Turns
    <2>3. BegunOnly(conn)  BY <1>5, <1>6, <2>1, <2>2 DEF OnWire
    <2>4. NoWrite(p)  BY <1>2, <1>4, <2>2 DEF NoWrite, Taken
    <2>5. NoRead(p)  BY <1>2, <1>4, <2>2 DEF NoRead, Taken
    <2>6. BegunOnly(p)  BY <1>2, <2>3 DEF BegunOnly, Begun, Taken
    <2> QED  BY <2>4, <2>5, <2>6
  <1> QED  BY <1>5, <1>6 DEF p
-----------------------------------------------------------------------------
(* Jobs before a client is connected.                                      *)

\* A request is read, or is with the response handler, and nothing was written.
LEMMA AskingKeeps ==
    ASSUME NEW d, d.started, Served(d), ~InputBounded => Watched(d) /\ EndsBadly(d),
           ~d.late => d.wire = <<>>,
           d.open /\ ~d.late => NoWrite(d) /\ OneRead(d) /\ ~d.connected
    PROVE  WriteInv(d)
  <1>1. ~d.late => GoodWire(d)  BY DEF GoodWire
  <1>2. ASSUME d.open, ~d.late PROVE Turns(d) /\ OnWire(d)
    <2>1. NoWrite(d) /\ OneRead(d) /\ ~d.connected /\ d.writes = <<>>
      BY <1>2 DEF NoWrite
    <2>2. OneWrite(d)  BY <2>1 DEF NoWrite, OneWrite, PendingOnce, Pending
    <2>3. Turns(d)  BY <2>1, <2>2 DEF Turns
    <2>4. \A i \in 1..Len(d.ready) :
             d.ready[i].h \notin {"write_headers", "write_message", "write_ping_message"}
      BY <2>1 DEF NoWrite, Pending, WriteHandlers
    <2>5. OnWire(d)  BY <2>1, <2>4 DEF OnWire
    <2> QED  BY <2>3, <2>5
  <1>3. ~d.open => Turns(d) /\ OnWire(d)  BY DEF Turns, OnWire
  <1> QED  BY <1>1, <1>2, <1>3 DEF WriteInv, Fresh

\* What a job finds that reads or answers a request: nothing is written yet, and
\* the request it is about is no longer counted.
Answering(c) ==
    /\ c \in ConnectionState /\ c.started /\ Served(c)
    /\ ~InputBounded => EndsBadly(c)
    /\ c.connected => c.late
    /\ ~c.late => c.wire = <<>>
    /\ c.open /\ ~c.late => NoWrite(c) /\ NoRead(c)

\* Such a job may write any answer.
LEMMA AnsweringGoesOn ==
    ASSUME NEW c, Answering(c), NEW K, K \subseteq Opening
    PROVE  MayGoOn(c, K)
  <1>1. ~c.late => GoodWire(c)  BY DEF Answering, GoodWire
  <1>2. ~c.late => \A k \in K : May(c, k)  BY DEF Answering, May, Opening
  <1> QED  BY <1>1, <1>2 DEF Answering, MayGoOn

\* Answering says nothing of the flags a job sets on its way.
LEMMA AnsweringLike ==
    ASSUME NEW c, Answering(c), NEW d \in ConnectionState,
           d.started = c.started, d.late = c.late, d.wire = c.wire,
           d.open = c.open, d.connected = c.connected, d.ready = c.ready,
           d.writes = c.writes, d.read = c.read, d.invoked = c.invoked,
           d.timer = c.timer \/ d.timer = "off"
    PROVE  Answering(d)
  <1>1. Served(d)  BY DEF Answering, Served, Pending, Idle
  <1>2. ~InputBounded => EndsBadly(d)  BY DEF Answering, EndsBadly
  <1>3. d.open /\ ~d.late => NoWrite(d) /\ NoRead(d)
    BY DEF Answering, NoWrite, NoRead, Pending
  <1> QED  BY <1>1, <1>2, <1>3 DEF Answering

\* A request is read, with a timeout.
LEMMA ReadingKeeps ==
    ASSUME NEW c, Answering(c), NEW h \in Reading
    PROVE  WriteInv(SetupTimeout(AsyncRead(c, h)))
  <1> DEFINE a == AsyncRead(c, h)
             d == Arm(a, "timeout")
  <1>1. c \in ConnectionState /\ c.open \in BOOLEAN /\ c.started
    BY DEF Answering, ConnectionState
  <1>2. h \in ReadHandlers /\ h \in Handlers  BY DEF Reading, ReadHandlers, Handlers
  <1>3. a \in ConnectionState  BY <1>1, <1>2, AsyncReadLemma DEF Same
  <1>4. /\ Quiet(a, d) /\ Armed(d)
        /\ d.timer = "timeout" /\ d.open = a.open
        /\ d.ready = a.ready /\ d.writes = a.writes
        /\ d.read = a.read /\ d.invoked = a.invoked
        /\ d.connected = a.connected
    <2> HIDE DEF a
    <2> QED  BY <1>3, ArmQuiet DEF TimerHandlers
  <1>5. SetupTimeout(AsyncRead(c, h)) = d  BY DEF SetupTimeout
  <1> HIDE DEF d
  <1>6. CASE c.open
    <2>1. a = [c EXCEPT !.read = h]  BY <1>6 DEF AsyncRead
    <2> HIDE DEF a
    <2>2. /\ a.started = c.started /\ a.late = c.late /\ a.wire = c.wire
          /\ a.read = h /\ a.invoked = c.invoked /\ a.open = c.open
          /\ a.ready = c.ready /\ a.writes = c.writes /\ a.connected = c.connected
      BY <1>1, <2>1 DEF ConnectionState
    <2>3. /\ d.started /\ d.late = c.late /\ d.wire = c.wire
          /\ d.read = h /\ d.invoked = c.invoked /\ d.open
          /\ d.ready = c.ready /\ d.writes = c.writes /\ d.connected = c.connected
      BY <1>1, <1>4, <1>6, <2>2 DEF Quiet
    <2>4. Served(d)  BY <1>4, <1>6, <2>3 DEF Answering, Served, Pending, Idle
    <2>5. Watched(d) /\ (~InputBounded => EndsBadly(d))
      BY <1>4, <1>6, <2>3 DEF Answering, Watched, EndsBadly, Armed
    <2>6. ASSUME ~d.late PROVE NoWrite(d) /\ OneRead(d) /\ ~d.connected
      <3>1. NoWrite(c) /\ NoRead(c) /\ ~c.connected  BY <1>6, <2>3, <2>6 DEF Answering
      <3> QED  BY <2>3, <3>1 DEF NoWrite, NoRead, OneRead, Pending, PendingOnce
    <2>7. WriteInv(d)  BY <2>3, <2>4, <2>5, <2>6, AskingKeeps DEF Answering
    <2> QED  BY <1>5, <2>7
  <1>7. CASE ~c.open
    <2>1. a = [c EXCEPT !.ready = Append(c.ready, [h |-> h, ok |-> FALSE])]
      BY <1>7 DEF AsyncRead, Complete
    <2> HIDE DEF a
    <2>2. a.started = c.started /\ a.late = c.late /\ a.wire = c.wire /\ a.open = c.open
      BY <1>1, <2>1 DEF ConnectionState
    <2>3. d.started /\ d.late = c.late /\ d.wire = c.wire /\ ~d.open
      BY <1>1, <1>4, <1>7, <2>2 DEF Quiet
    <2>4. Served(d) /\ Watched(d) /\ EndsBadly(d)  BY <2>3 DEF Served, Watched, EndsBadly
    <2>5. WriteInv(d)  BY <2>3, <2>4, AskingKeeps DEF Answering
    <2> QED  BY <1>5, <2>5
  <1> QED  BY <1>1, <1>6, <1>7

\* Nor of the timer, and it is not with the response handler.
LEMMA UninvokedAnswers ==
    ASSUME NEW c \in ConnectionState, Answering(c)
    PROVE  Answering([Cancel(c) EXCEPT !.invoked = FALSE])
  <1> DEFINE o == Cancel(c)
             e == [o EXCEPT !.invoked = FALSE]
  <1>1. Answering(o) /\ o \in ConnectionState  BY CancelQuiet, AnsweringLike DEF Quiet
  <1> HIDE DEF o
  <1>2. /\ e \in ConnectionState /\ e.started = o.started /\ e.late = o.late
        /\ e.wire = o.wire /\ e.open = o.open /\ e.connected = o.connected
        /\ e.ready = o.ready /\ e.writes = o.writes /\ e.read = o.read
        /\ ~e.invoked /\ e.timer = o.timer
    BY <1>1 DEF ConnectionState
  <1> HIDE DEF e
  <1>3. Served(e)  BY <1>1, <1>2 DEF Answering, Served, Pending
  <1>4. ~InputBounded => EndsBadly(e)  BY <1>1, <1>2 DEF Answering, EndsBadly
  <1>5. e.open /\ ~e.late => NoWrite(e) /\ NoRead(e)
    BY <1>1, <1>2 DEF Answering, NoWrite, NoRead, Pending
  <1>6. Answering(e)  BY <1>1, <1>2, <1>3, <1>4, <1>5 DEF Answering
  <1> QED  BY <1>6 DEF e, o

\* handled() and handled_errors(), also for a connection closed meanwhile.
LEMMA HandledKeeps ==
    ASSUME NEW c \in ConnectionState, Answering([Cancel(c) EXCEPT !.invoked = FALSE]),
           NEW answer \in Answers
    PROVE  WriteInv(Handled(c, answer))
  <1> DEFINE off   == [Cancel(c) EXCEPT !.invoked = FALSE]
             one   == answer = "named_single"
             mute  == PingInterval < MINIMAL_PING_INTERVAL \/ ~PingText
             named == [off EXCEPT !.single = one, !.disable_ping = mute]
             mgd   == [InsertConnection(named) EXCEPT !.managed = TRUE]
  <1>1. Handled(c, answer) =
           CASE answer = "content"    -> WriteStaticContent(off)
             [] answer = "http_error" -> WriteHttpError(off)
             [] answer = "exception"  -> Cleanup(off)
             [] OTHER -> IF named.finished \/ named.registered THEN Cleanup(named)
                                                               ELSE WriteHeaders(mgd)
    BY DEF Handled
  <1> HIDE DEF off
  <1>2. Answering(off) /\ off \in ConnectionState  BY DEF off, Answering
  <1>3. ASSUME NEW e, Answering(e), NEW d, NEW K, K \subseteq Opening, Result(e, d, K)
        PROVE  WriteInv(d)
    BY <1>3, AnsweringGoesOn, ResultKeeps
  <1>4. {"static"} \subseteq Opening /\ {"error"} \subseteq Opening
        /\ {"headers"} \subseteq Opening
    BY DEF Opening
  <1>5. WriteInv(WriteStaticContent(off))
    <2>1. Result(off, WriteStaticContent(off), {"static"})  BY <1>2, AnswerResult
    <2> QED  BY <1>2, <1>3, <1>4, <2>1
  <1>6. WriteInv(WriteHttpError(off))
    <2>1. Result(off, WriteHttpError(off), {"error"})  BY <1>2, AnswerResult DEF Answering
    <2> QED  BY <1>2, <1>3, <1>4, <2>1
  <1>7. ASSUME NEW e, Answering(e) PROVE WriteInv(Cleanup(e))
    BY <1>7, CleanupKeeps DEF Answering, GoodWire
  <1>8. Answering(named) /\ named \in ConnectionState
    <2>1. one \in BOOLEAN  OBVIOUS
    <2>2. mute \in BOOLEAN  OBVIOUS
    <2> HIDE DEF one, mute
    <2>3. /\ named \in ConnectionState
          /\ named.started = off.started /\ named.late = off.late /\ named.wire = off.wire
          /\ named.open = off.open /\ named.connected = off.connected
          /\ named.ready = off.ready /\ named.writes = off.writes
          /\ named.read = off.read /\ named.invoked = off.invoked /\ named.timer = off.timer
      BY <1>2, <2>1, <2>2, ZenonT(60) DEF ConnectionState
    <2> HIDE DEF named
    <2> QED  BY <1>2, <2>3, AnsweringLike
  <1> HIDE DEF named
  <1>9. Answering(mgd) /\ mgd \in ConnectionState
    <2>1. named.opened + 1 \in Nat  BY <1>8 DEF ConnectionState
    <2>2. mgd = [[named EXCEPT !.registered = TRUE, !.opened = named.opened + 1] EXCEPT !.managed = TRUE]
      BY DEF InsertConnection
    <2> HIDE DEF mgd
    <2>3. /\ mgd \in ConnectionState
          /\ mgd.started = named.started /\ mgd.late = named.late /\ mgd.wire = named.wire
          /\ mgd.open = named.open /\ mgd.connected = named.connected
          /\ mgd.ready = named.ready /\ mgd.writes = named.writes
          /\ mgd.read = named.read /\ mgd.invoked = named.invoked /\ mgd.timer = named.timer
      BY <1>8, <2>1, <2>2 DEF ConnectionState
    <2> QED  BY <1>8, <2>3, AnsweringLike
  <1> HIDE DEF mgd
  <1>10. WriteInv(WriteHeaders(mgd))
    <2>1. Result(mgd, WriteHeaders(mgd), {"headers"})  BY <1>9, AnswerResult DEF Answering
    <2> QED  BY <1>3, <1>4, <1>9, <2>1
  <1>11. WriteInv(Cleanup(off)) /\ WriteInv(Cleanup(named))  BY <1>2, <1>7, <1>8
  <1> QED  BY <1>1, <1>5, <1>6, <1>10, <1>11
\* The acceptor starts a connection.
LEMMA StartKeeps ==
    ASSUME LifeInv(conn), WriteInv(conn), Start
    PROVE  WriteInv(conn')
  <1> DEFINE c == [conn EXCEPT !.started = TRUE]
  <1>1. conn \in ConnectionState /\ ~conn.started  BY DEF LifeInv, Start
  <1>2. /\ conn.read = "none" /\ conn.writes = <<>> /\ conn.ready = <<>> /\ conn.wire = <<>>
        /\ conn.timer = "off" /\ ~conn.invoked /\ ~conn.connected
    BY <1>1 DEF WriteInv, Fresh
  <1>3. conn' = Handshake(c) \/ conn' = Cleanup(c)  BY DEF Start
  <1>4. /\ c \in ConnectionState /\ c.started /\ c.read = "none" /\ c.writes = <<>>
        /\ c.ready = <<>> /\ c.wire = <<>> /\ c.timer = "off" /\ ~c.invoked /\ ~c.connected
    BY <1>1, <1>2 DEF ConnectionState
  <1> HIDE DEF c
  <1>5. \A H : ~Pending(c, H)  BY <1>4 DEF Pending
  <1>6. Answering(c)
    <2>1. Served(c) /\ EndsBadly(c)  BY <1>4, <1>5 DEF Served, EndsBadly, Idle
    <2>2. NoWrite(c) /\ NoRead(c)  BY <1>4, <1>5 DEF NoWrite, NoRead, Reading
    <2> QED  BY <1>4, <2>1, <2>2 DEF Answering
  <1>7. WriteInv(Handshake(c))
    BY <1>6, ReadingKeeps DEF Handshake, ReadRequest, Reading
  <1>8. WriteInv(Cleanup(c))  BY <1>4, CleanupKeeps DEF GoodWire
  <1> QED  BY <1>3, <1>7, <1>8

\* A handler of the handshake or of a request may answer, as soon as it has
\* cancelled the timeout.
LEMMA TakenAnswers ==
    ASSUME LifeInv(conn), WriteInv(conn), conn.ready # <<>>,
           Head(conn.ready).h \in Reading
    PROVE  Answering(Cancel(Popped))
  <1> DEFINE p == Popped
             off == Cancel(p)
  <1>1. Taken(p) /\ p \in ConnectionState  BY TakenLemma DEF Taken
  <1>2. /\ ~p.late => p.wire = <<>>
        /\ p.open /\ ~p.late => NoWrite(p) /\ NoRead(p) /\ ~p.connected
    BY TakenRead
  <1>3. p.connected => p.open  BY <1>1 DEF Taken, LifeInv
  <1>4. Answering(p)  BY <1>1, <1>2, <1>3 DEF Answering, Taken
  <1> HIDE DEF p
  <1>5. Answering(off)  BY <1>1, <1>4, CancelQuiet, AnsweringLike DEF Quiet
  <1> QED  BY <1>5 DEF p

\* The request is passed to the response handler.
LEMMA InvokedKeeps ==
    ASSUME NEW c, Answering(c), NEW transport \in Transport
    PROVE  WriteInv([c EXCEPT !.transport = transport, !.invoked = TRUE])
  <1> DEFINE d == [c EXCEPT !.transport = transport, !.invoked = TRUE]
  <1>1. c \in ConnectionState /\ c.started  BY DEF Answering
  <1>2. /\ d.started = c.started /\ d.late = c.late /\ d.wire = c.wire
        /\ d.open = c.open /\ d.connected = c.connected /\ d.ready = c.ready
        /\ d.writes = c.writes /\ d.read = c.read /\ d.invoked /\ d.timer = c.timer
    BY <1>1 DEF ConnectionState
  <1> HIDE DEF d
  <1>3. Served(d)  BY <1>2 DEF Answering, Served, Pending
  <1>4. Watched(d) /\ (~InputBounded => EndsBadly(d))
    BY <1>2 DEF Answering, Watched, EndsBadly
  <1>5. ASSUME d.open, ~d.late PROVE NoWrite(d) /\ OneRead(d) /\ ~d.connected
    <2>1. NoWrite(c) /\ NoRead(c) /\ ~c.connected  BY <1>2, <1>5 DEF Answering
    <2> QED  BY <1>2, <2>1 DEF NoWrite, NoRead, OneRead, Pending, PendingOnce
  <1>6. WriteInv(d)  BY <1>1, <1>2, <1>3, <1>4, <1>5, AskingKeeps DEF Answering
  <1> QED  BY <1>6 DEF d

\* The handlers of the handshake and of a request.
LEMMA ReadHandlersKeep ==
    ASSUME LifeInv(conn), WriteInv(conn), RunHandshake \/ RunReadRequest
    PROVE  WriteInv(conn')
  <1> DEFINE off == Cancel(Popped)
  <1>1. conn.ready # <<>> /\ Head(conn.ready).h \in Reading
    BY DEF RunHandshake, RunReadRequest, Next_h, Reading
  <1>2. Answering(off) /\ off \in ConnectionState  BY <1>1, TakenAnswers DEF Answering
  <1>3. WriteInv(Cleanup(off))  BY <1>2, CleanupKeeps DEF Answering, GoodWire
  <1>4. CASE RunHandshake
    <2>1. conn' = IF Ok THEN ReadRequest(off) ELSE Cleanup(off)
      BY <1>4 DEF RunHandshake, HandleHandshake
    <2> HIDE DEF off
    <2>2. WriteInv(ReadRequest(off))  BY <1>2, ReadingKeeps DEF ReadRequest, Reading
    <2> QED  BY <1>3, <2>1, <2>2
  <1>5. CASE RunReadRequest
    <2>1. PICK request \in Requests, transport \in Transports, answer \in Answers :
             conn' = HandleReadRequest(Popped, Ok, request, transport, answer)
      BY <1>5 DEF RunReadRequest
    <2> DEFINE pol == [off EXCEPT !.is_policy = TRUE]
               inv == [off EXCEPT !.transport = transport, !.invoked = TRUE]
               ws  == [off EXCEPT !.transport = transport]
               e   == [Cancel(ws) EXCEPT !.invoked = FALSE]
    <2>2. conn' = IF ~Ok THEN Cleanup(off)
                  ELSE CASE request = "exception"  -> Cleanup(off)
                         [] request = "http_error" -> WriteHttpError(off)
                         [] request = "policy"     -> WritePolicyData(pol)
                         [] request = "request"    -> IF Threaded THEN inv ELSE Handled(ws, answer)
      BY <2>1 DEF HandleReadRequest
    <2> HIDE DEF off
    <2>3. transport \in Transport  BY MessageAssumption
    <2>4. ASSUME NEW a, Answering(a), NEW d, NEW K, K \subseteq Opening, Result(a, d, K)
          PROVE  WriteInv(d)
      BY <2>4, AnsweringGoesOn, ResultKeeps
    <2>5. {"error"} \subseteq Opening /\ {"policy"} \subseteq Opening  BY DEF Opening
    <2>6. WriteInv(WriteHttpError(off))
      <3>1. Result(off, WriteHttpError(off), {"error"})  BY <1>2, AnswerResult DEF Answering
      <3> QED  BY <1>2, <2>4, <2>5, <3>1
    <2>7. WriteInv(WritePolicyData(pol))
      <3>1. /\ pol \in ConnectionState
            /\ pol.started = off.started /\ pol.late = off.late /\ pol.wire = off.wire
            /\ pol.open = off.open /\ pol.connected = off.connected
            /\ pol.ready = off.ready /\ pol.writes = off.writes
            /\ pol.read = off.read /\ pol.invoked = off.invoked /\ pol.timer = off.timer
        BY <1>2 DEF ConnectionState
      <3> HIDE DEF pol
      <3>2. Answering(pol)  BY <1>2, <3>1, AnsweringLike
      <3>3. Result(pol, WritePolicyData(pol), {"policy"})  BY <3>1, AnswerResult
      <3> QED  BY <2>4, <2>5, <3>2, <3>3
    <2>8. WriteInv(inv)  BY <1>2, <2>3, InvokedKeeps
    <2>9. WriteInv(Handled(ws, answer))
      <3>1. /\ ws \in ConnectionState
            /\ ws.started = off.started /\ ws.late = off.late /\ ws.wire = off.wire
            /\ ws.open = off.open /\ ws.connected = off.connected
            /\ ws.ready = off.ready /\ ws.writes = off.writes
            /\ ws.read = off.read /\ ws.invoked = off.invoked /\ ws.timer = off.timer
        BY <1>2, <2>3 DEF ConnectionState
      <3> HIDE DEF ws
      <3>2. Answering(ws)  BY <1>2, <3>1, AnsweringLike
      <3>3. Answering(e)  BY <3>1, <3>2, UninvokedAnswers
      <3> QED  BY <3>1, <3>3, HandledKeeps
    <2> HIDE DEF pol, inv, ws
    <2>10. Ok \in BOOLEAN  BY <1>1, TakenLemma
    <2>11. CASE ~Ok  BY <1>3, <2>2, <2>11
    <2>12. CASE Ok
      BY <1>3, <2>2, <2>6, <2>7, <2>8, <2>9, <2>12 DEF Requests
    <2> QED  BY <2>10, <2>11, <2>12
  <1> QED  BY <1>4, <1>5

\* A handler thread has an answer.
LEMMA AnswerKeeps ==
    ASSUME LifeInv(conn), WriteInv(conn), Answer
    PROVE  WriteInv(conn')
  <1> DEFINE o == Cancel(conn)
             e == [o EXCEPT !.invoked = FALSE]
  <1>1. conn \in ConnectionState /\ conn.invoked  BY DEF LifeInv, Answer
  <1>2. PICK answer \in Answers : conn' = Handled(conn, answer)  BY DEF Answer
  <1>3. conn.started /\ ~NoRead(conn)  BY <1>1 DEF WriteInv, Fresh, NoRead
  <1>4. Answering(e)
    <2>1. /\ e \in ConnectionState /\ e.started = conn.started /\ e.late = conn.late
          /\ e.wire = conn.wire /\ e.open = conn.open /\ e.connected = conn.connected
          /\ e.ready = conn.ready /\ e.writes = conn.writes /\ e.read = conn.read
          /\ ~e.invoked /\ e.timer = "off"
      <3>1. /\ o \in ConnectionState /\ o.started = conn.started /\ o.late = conn.late
            /\ o.wire = conn.wire /\ o.open = conn.open /\ o.connected = conn.connected
            /\ o.ready = conn.ready /\ o.writes = conn.writes /\ o.read = conn.read
            /\ o.timer = "off"
        BY <1>1, CancelQuiet DEF Quiet
      <3> HIDE DEF o
      <3> QED  BY <3>1 DEF ConnectionState
    <2> HIDE DEF e
    <2>2. Served(e)  BY <2>1 DEF WriteInv, Served, Pending, Idle
    <2>3. ~InputBounded => EndsBadly(e)  BY <2>1 DEF WriteInv, EndsBadly
    <2>4. ~e.late => e.wire = <<>>  BY <1>3, <2>1 DEF WriteInv, GoodWire
    <2>5. ASSUME e.open, ~e.late PROVE NoWrite(e) /\ NoRead(e) /\ ~e.connected
      <3>1. Turns(conn) /\ conn.open  BY <2>1, <2>5 DEF WriteInv
      <3>2. NoWrite(conn) /\ ~conn.connected /\ OneRead(conn)  BY <1>3, <3>1 DEF Turns
      <3> QED  BY <1>1, <2>1, <3>2 DEF NoWrite, NoRead, OneRead, Pending
    <2>6. e.connected => e.open  BY <2>1 DEF LifeInv
    <2> QED  BY <1>3, <2>1, <2>2, <2>3, <2>4, <2>5, <2>6 DEF Answering
  <1> QED  BY <1>1, <1>2, <1>4, HandledKeeps
-----------------------------------------------------------------------------
(* Jobs of a connection whose request was answered.                        *)

\* What is on the wire is good after something quiet.
LEMMA QuietWire ==
    ASSUME NEW c, NEW d, Quiet(c, d), ~c.late => GoodWire(c)
    PROVE  ~d.late => GoodWire(d)
  BY DEF Quiet, GoodWire

\* Cancelling the timer and setting flags leaves the invariant's facts alone.
LEMMA GoesOnLike ==
    ASSUME NEW c, NEW a, NEW K, MayGoOn(c, K), Like(c, a),
           a.timer = c.timer \/ a.timer = "off"
    PROVE  MayGoOn(a, K)
  <1>1. /\ a \in ConnectionState /\ a.started = c.started /\ a.late = c.late
        /\ a.wire = c.wire /\ a.single = c.single
        /\ a.open = c.open /\ a.connected = c.connected
        /\ a.ready = c.ready /\ a.writes = c.writes
        /\ a.read = c.read /\ a.invoked = c.invoked
    BY DEF Like, Quiet
  <1>2. Served(a)  BY <1>1 DEF MayGoOn, Served, Pending, Idle
  <1>3. ~InputBounded => EndsBadly(a)  BY <1>1 DEF MayGoOn, EndsBadly
  <1>4. ~a.late => GoodWire(a)  BY QuietWire DEF Like, MayGoOn
  <1>5. ASSUME a.open, ~a.late PROVE NoWrite(a) /\ NoRead(a) /\ \A k \in K : May(a, k)
    <2>1. NoWrite(c) /\ NoRead(c) /\ \A k \in K : May(c, k)  BY <1>1, <1>5 DEF MayGoOn
    <2>2. NoWrite(a) /\ NoRead(a)  BY <1>1, <2>1 DEF NoWrite, NoRead, Pending
    <2>3. \A k \in K : May(a, k)  BY <1>1, <2>1 DEF May, BegunOnly, Begun
    <2> QED  BY <2>2, <2>3
  <1> QED  BY <1>1, <1>2, <1>3, <1>4, <1>5 DEF MayGoOn

\* Handlers that end the connection whatever they find.
LEMMA EndingJobsKeep ==
    ASSUME LifeInv(conn), WriteInv(conn), RunCleanup \/ RunTimeout \/ OpenedFailed
    PROVE  WriteInv(conn')
  <1>1. CASE RunCleanup
    <2>1. conn.ready # <<>> /\ conn' = Cleanup(Popped)
      BY <1>1 DEF RunCleanup, Next_h, HandleCleanup
    <2>2. Taken(Popped)  BY <2>1, TakenLemma
    <2> QED  BY <2>1, <2>2, CleanupKeeps DEF Taken
  <1>2. CASE RunTimeout
    <2>1. conn.ready # <<>> /\ conn' = Cleanup(PoppedTimer)
      BY <1>2 DEF RunTimeout, Next_h, HandleTimeout
    <2>2. Taken(PoppedTimer)  BY <2>1, TakenLemma
    <2> QED  BY <2>1, <2>2, CleanupKeeps DEF Taken
  <1>3. CASE OpenedFailed
    <2>1. conn' = Cleanup(conn) /\ conn.started /\ conn \in ConnectionState
      BY <1>3 DEF OpenedFailed, WriteInv, Fresh, LifeInv
    <2> QED  BY <2>1, CleanupKeeps DEF WriteInv
  <1> QED  BY <1>1, <1>2, <1>3

\* The timers of an idle client.
LEMMA IdleJobsKeep ==
    ASSUME LifeInv(conn), WriteInv(conn), RunPing \/ RunInactiveTimeout
    PROVE  WriteInv(conn')
  <1> DEFINE p == PoppedTimer
  <1>1. conn.ready # <<>> /\ Head(conn.ready).h \in Idle
    BY DEF RunPing, RunInactiveTimeout, Next_h, Idle
  <1>2. Taken(p) /\ p \in ConnectionState  BY <1>1, TakenLemma DEF Taken
  <1>3. /\ p.open => p.connected
        /\ p.open /\ ~p.late => NoWrite(p) /\ NoRead(p) /\ BegunOnly(p)
    BY <1>1, TakenTimer
  <1>4. conn' = WritePingMessage(p) \/ conn' = WriteLastMessage(p)
    BY DEF RunPing, RunInactiveTimeout, HandlePing, HandleInactiveTimeout
  <1> HIDE DEF p
  <1>5. BegunOnly(p) => May(p, "ping") /\ May(p, "last")  BY DEF May, BegunOnly, Opening
  <1>6. MayGoOn(p, {"ping"}) /\ MayGoOn(p, {"last"})
    BY <1>2, <1>3, <1>5 DEF MayGoOn, Taken
  <1>7. Result(p, WritePingMessage(p), {"ping"}) /\ Result(p, WriteLastMessage(p), {"last"})
    BY <1>2, <1>3, AnswerResult
  <1> QED  BY <1>4, <1>6, <1>7, ResultKeeps

\* After the headers the connection is connected, and reads to notice its end.
LEMMA RunWriteHeadersKeeps ==
    ASSUME LifeInv(conn), WriteInv(conn), RunWriteHeaders
    PROVE  WriteInv(conn')
  <1> DEFINE p   == Popped
             off == Cancel(p)
             on  == [off EXCEPT !.connected = TRUE]
             r   == [on EXCEPT !.read = "read_some"]
             K   == {"data", "last", "wait"}
  <1>1. conn.ready # <<>> /\ Head(conn.ready).h = "write_headers"
    BY DEF RunWriteHeaders, Next_h
  <1>2. Taken(p) /\ p \in ConnectionState /\ p.ready = Tail(conn.ready) /\ Ok \in BOOLEAN
        /\ p.open \in BOOLEAN
    BY <1>1, TakenLemma DEF Taken, ConnectionState
  <1>3. p.open /\ ~p.late => NoWrite(p) /\ NoRead(p)
    BY <1>1, TakenWrite DEF WriteHandlers
  <1>4. conn' = CASE ~Ok            -> Cleanup(off)
                  [] Ok /\ p.open   -> WriteMessage(ReadSome(on))
                  [] Ok /\ ~p.open  -> off
    BY DEF RunWriteHeaders, HandleWriteHeaders
  <1> HIDE DEF p
  <1>5. /\ off \in ConnectionState /\ Quiet(p, off) /\ off.timer = "off" /\ off.open = p.open
        /\ off.ready = p.ready /\ off.writes = p.writes
        /\ off.read = p.read /\ off.invoked = p.invoked
    BY <1>2, CancelQuiet DEF Quiet
  <1> HIDE DEF off
  <1>6. CASE ~Ok
    <2>1. WriteInv(Cleanup(off))
      BY <1>2, <1>5, QuietWire, CleanupKeeps DEF Taken, Quiet
    <2> QED  BY <1>4, <1>6, <2>1
  <1>7. CASE Ok /\ ~p.open
    <2>1. WriteInv(off)  BY <1>2, <1>5, <1>7, ClosedKeeps DEF Taken
    <2> QED  BY <1>4, <1>7, <2>1
  <1>8. CASE Ok /\ p.open
    <2>1. /\ on \in ConnectionState /\ on.connected /\ on.open = off.open
          /\ on.started = off.started /\ on.late = off.late /\ on.wire = off.wire
          /\ on.single = off.single /\ on.ready = off.ready /\ on.writes = off.writes
          /\ on.invoked = off.invoked /\ on.timer = off.timer
      BY <1>5 DEF ConnectionState
    <2> HIDE DEF on
    <2>2. ReadSome(on) = r  BY <1>5, <1>8, <2>1 DEF ReadSome, AsyncRead
    <2>3. /\ r \in ConnectionState /\ r.connected /\ r.open
          /\ r.started /\ r.late = p.late /\ r.wire = p.wire
          /\ r.single = p.single /\ r.ready = p.ready /\ r.writes = p.writes
          /\ r.invoked = p.invoked /\ r.timer = "off" /\ r.read = "read_some"
      <3>1. "read_some" \in Read  BY DEF Read, ReadHandlers
      <3>2. /\ r \in ConnectionState /\ r.connected = on.connected /\ r.open = on.open
            /\ r.started = on.started /\ r.late = on.late /\ r.wire = on.wire
            /\ r.single = on.single /\ r.ready = on.ready /\ r.writes = on.writes
            /\ r.invoked = on.invoked /\ r.timer = on.timer /\ r.read = "read_some"
        BY <2>1, <3>1 DEF ConnectionState
      <3> HIDE DEF r
      <3> QED  BY <1>2, <1>5, <1>8, <2>1, <3>2 DEF Quiet, Taken
    <2> HIDE DEF r
    <2>4. Served(r)  BY <2>3 DEF Served
    <2>5. ~InputBounded => EndsBadly(r)  BY <1>2, <1>8, <2>3 DEF EndsBadly, Taken
    <2>6. NoRead(p) => NoRead(r)  BY <2>3 DEF NoRead, Pending, Reading
    <2>7. ASSUME ~r.late PROVE NoWrite(r) /\ NoRead(r) /\ \A k \in K : May(r, k)
      <3>1. NoWrite(r) /\ NoRead(r)
        BY <1>3, <1>8, <2>3, <2>6, <2>7 DEF NoWrite, Pending
      <3>2. OnWire(conn) /\ conn.open /\ r.wire = conn.wire /\ r.single = conn.single
        BY <1>2, <1>8, <2>3, <2>7 DEF WriteInv, Taken
      <3>3. Len(r.wire) = 1 /\ r.wire[1].kind = "headers"
        <4> DEFINE R == [h : Handlers, ok : BOOLEAN]
        <4>1. conn.ready \in Seq(R)  BY DEF LifeInv, ConnectionState, RunQueue
        <4> HIDE DEF R
        <4>2. 1 \in 1..Len(conn.ready) /\ conn.ready[1].h = "write_headers" /\ conn.ready[1].ok
          BY <1>1, <1>8, <4>1, TailLemma DEF Ok
        <4> QED  BY <3>2, <4>2 DEF OnWire
      <3>4. BegunOnly(r)  BY <3>3 DEF BegunOnly, Begun, Final
      <3>5. \A k \in K : May(r, k)  BY <3>4 DEF May, BegunOnly, Opening
      <3> QED  BY <3>1, <3>5
    <2>8. ~r.late => GoodWire(r)
      BY <1>2, <2>3, <2>6 DEF Taken, GoodWire
    <2>9. MayGoOn(r, K)  BY <2>3, <2>4, <2>5, <2>7, <2>8 DEF MayGoOn
    <2>10. Result(r, WriteMessage(r), K)  BY <2>3, WriteMessageResult
    <2>11. WriteInv(WriteMessage(r))  BY <2>9, <2>10, ResultKeeps
    <2> QED  BY <1>4, <1>8, <2>2, <2>11
  <1> QED  BY <1>2, <1>6, <1>7, <1>8
\* After a message or a ping.
LEMMA WriteJobsKeep ==
    ASSUME LifeInv(conn), WriteInv(conn), RunWriteMessage \/ RunWritePingMessage
    PROVE  WriteInv(conn')
  <1> DEFINE p   == Popped
             off == Cancel(p)
             end == [off EXCEPT !.writing = FALSE]
             All == {"data", "last", "wait"}
  <1>1. conn.ready # <<>> /\ Head(conn.ready).h \in {"write_message", "write_ping_message"}
    BY DEF RunWriteMessage, RunWritePingMessage, Next_h
  <1>2. Taken(p) /\ p \in ConnectionState /\ Ok \in BOOLEAN
    BY <1>1, TakenLemma DEF Taken
  <1>3. /\ p.open /\ ~p.late => NoWrite(p) /\ NoRead(p)
        /\ p.open => p.connected
    BY <1>1, TakenWrite DEF WriteHandlers, Serving
  <1>4. /\ RunWriteMessage => conn' = CASE ~Ok               -> Cleanup(end)
                                        [] Ok /\ end.single  -> WriteLastMessage(end)
                                        [] Ok /\ ~end.single -> WriteMessage(end)
        /\ RunWritePingMessage => \E left \in Clock :
              conn' = CASE ~Ok                       -> Cleanup(end)
                        [] Ok /\ end.messages # <<>> -> WriteMessage(end)
                        [] Ok /\ end.messages = <<>> -> SetupPingOrInactiveTimeout(end, left)
    BY DEF RunWriteMessage, HandleWriteMessage, RunWritePingMessage, HandleWritePingMessage
  <1>5. ASSUME p.open, ~p.late, Ok
        PROVE  /\ Head(conn.ready).h = "write_message" => Begun(p)
               /\ Head(conn.ready).h = "write_ping_message" => BegunOnly(p)
    <2> DEFINE R == [h : Handlers, ok : BOOLEAN]
    <2>1. conn.ready \in Seq(R)  BY DEF LifeInv, ConnectionState, RunQueue
    <2> HIDE DEF R
    <2>2. 1 \in 1..Len(conn.ready) /\ conn.ready[1] = Head(conn.ready) /\ conn.ready[1].ok
      BY <1>1, <1>5, <2>1, TailLemma DEF Ok
    <2>3. OnWire(conn) /\ conn.open /\ p.wire = conn.wire /\ p.single = conn.single
      BY <1>2, <1>5 DEF WriteInv, Taken
    <2>4. /\ Head(conn.ready).h = "write_message" => Begun(conn)
          /\ Head(conn.ready).h = "write_ping_message" => BegunOnly(conn)
      BY <2>2, <2>3 DEF OnWire
    <2> QED  BY <2>3, <2>4 DEF Begun, BegunOnly
  <1> HIDE DEF p
  <1>6. /\ off \in ConnectionState /\ Quiet(p, off) /\ off.timer = "off" /\ off.open = p.open
        /\ off.connected = p.connected /\ off.ready = p.ready /\ off.writes = p.writes
        /\ off.read = p.read /\ off.invoked = p.invoked /\ off.messages = p.messages
    BY <1>2, CancelQuiet DEF Quiet
  <1> HIDE DEF off
  <1>7. /\ end \in ConnectionState /\ Like(p, end) /\ end.timer = "off" /\ end.open = p.open
        /\ end.connected = p.connected /\ end.single = p.single /\ end.late = p.late
        /\ end.single \in BOOLEAN
    <2>1. Quiet(off, end)  BY <1>6, FlagQuiet
    <2>2. /\ end \in ConnectionState /\ end.timer = off.timer /\ end.open = off.open
          /\ end.connected = off.connected /\ end.ready = off.ready /\ end.writes = off.writes
          /\ end.read = off.read /\ end.invoked = off.invoked
      BY <1>6 DEF ConnectionState
    <2> HIDE DEF end
    <2>3. Quiet(p, end)  BY <1>6, <2>1, QuietAfter
    <2> QED  BY <1>6, <2>2, <2>3 DEF Like, Quiet, ConnectionState
  <1> HIDE DEF end
  <1>8. ASSUME NEW K, p.open /\ ~p.late => \A k \in K : May(p, k)
        PROVE  MayGoOn(end, K)
    <2>1. MayGoOn(p, K)  BY <1>2, <1>3, <1>8 DEF MayGoOn, Taken
    <2> QED  BY <1>7, <2>1, GoesOnLike
  <1>9. WriteInv(Cleanup(end))
    BY <1>2, <1>7, QuietWire, CleanupKeeps DEF Taken, Like, Quiet
  <1>10. Begun(p) => May(p, "last")  BY DEF May, Opening
  <1>11. BegunOnly(p) => \A k \in All : May(p, k)  BY DEF May, BegunOnly, Opening
  <1>12. CASE RunWriteMessage
    <2>1. Head(conn.ready).h = "write_message"  BY <1>12 DEF RunWriteMessage, Next_h
    <2>2. ASSUME Ok, end.single PROVE WriteInv(WriteLastMessage(end))
      <3>1. MayGoOn(end, {"last"})  BY <1>5, <1>8, <1>10, <2>1, <2>2
      <3>2. Result(end, WriteLastMessage(end), {"last"})  BY <1>7, AnswerResult
      <3> QED  BY <3>1, <3>2, ResultKeeps
    <2>3. ASSUME Ok, ~end.single PROVE WriteInv(WriteMessage(end))
      <3>1. Begun(p) => BegunOnly(p)  BY <1>7, <2>3 DEF BegunOnly
      <3>2. MayGoOn(end, All)  BY <1>5, <1>8, <1>11, <2>1, <2>3, <3>1
      <3>3. Result(end, WriteMessage(end), All)  BY <1>3, <1>7, WriteMessageResult
      <3> QED  BY <3>2, <3>3, ResultKeeps
    <2> QED  BY <1>2, <1>4, <1>7, <1>9, <1>12, <2>2, <2>3
  <1>13. CASE RunWritePingMessage
    <2>1. Head(conn.ready).h = "write_ping_message"  BY <1>13 DEF RunWritePingMessage, Next_h
    <2>2. PICK left \in Clock :
            conn' = CASE ~Ok                       -> Cleanup(end)
                      [] Ok /\ end.messages # <<>> -> WriteMessage(end)
                      [] Ok /\ end.messages = <<>> -> SetupPingOrInactiveTimeout(end, left)
      BY <1>4, <1>13
    <2>3. ASSUME Ok PROVE WriteInv(WriteMessage(end)) /\ WriteInv(SetupPingOrInactiveTimeout(end, left))
      <3>1. MayGoOn(end, All)  BY <1>5, <1>8, <1>11, <2>1, <2>3
      <3>2. Result(end, WriteMessage(end), All)  BY <1>3, <1>7, WriteMessageResult
      <3>3. Result(end, SetupPingOrInactiveTimeout(end, left), {"last", "wait"})
        BY <1>3, <1>7, IdleResult
      <3>4. Result(end, SetupPingOrInactiveTimeout(end, left), All)  BY <3>3, ResultGrows
      <3> QED  BY <3>1, <3>2, <3>4, ResultKeeps
    <2> QED  BY <1>2, <1>9, <2>2, <2>3
  <1> QED  BY <1>12, <1>13

\* The invariant is about these fields.
LEMMA SameKeeps ==
    ASSUME NEW c, WriteInv(c), NEW d,
           d.started = c.started, d.open = c.open, d.connected = c.connected,
           d.writing = c.writing, d.single = c.single, d.timer = c.timer,
           d.read = c.read, d.writes = c.writes, d.ready = c.ready, d.invoked = c.invoked,
           d.stale = c.stale, d.late = c.late, d.wire = c.wire,
           d.registered => c.registered
    PROVE  WriteInv(d)
  <1>1. \A H : (Pending(d, H) <=> Pending(c, H)) /\ (PendingOnce(d, H) <=> PendingOnce(c, H))
    BY DEF Pending, PendingOnce
  <1>2. /\ NoWrite(d) <=> NoWrite(c)
        /\ NoRead(d) <=> NoRead(c)
        /\ OneWrite(d) <=> OneWrite(c)
        /\ OneRead(d) <=> OneRead(c)
    BY <1>1 DEF NoWrite, NoRead, OneWrite, OneRead
  <1>3. Served(d) /\ Fresh(d)  BY <1>1 DEF WriteInv, Served, Fresh
  <1>4. ~InputBounded => Watched(d) /\ EndsBadly(d)  BY DEF WriteInv, Watched, EndsBadly
  <1>5. ASSUME ~d.late PROVE Turns(d) /\ OnWire(d) /\ GoodWire(d)
    <2>1. Turns(c) /\ OnWire(c) /\ GoodWire(c)  BY <1>5 DEF WriteInv
    <2>2. Turns(d)  BY <1>1, <1>2, <2>1 DEF Turns
    <2>3. (Begun(d) <=> Begun(c)) /\ (BegunOnly(d) <=> BegunOnly(c))  BY DEF Begun, BegunOnly
    <2>4. \A k : May(d, k) <=> May(c, k)  BY <2>3 DEF May
    <2>5. OnWire(d)  BY <1>2, <2>1, <2>3, <2>4 DEF OnWire
    <2>6. GoodWire(d)  BY <1>2, <2>1 DEF GoodWire
    <2> QED  BY <2>2, <2>5, <2>6
  <1> QED  BY <1>3, <1>4, <1>5 DEF WriteInv

\* send(): the message is queued, and written if nothing is being written.
LEMMA PushKeeps ==
    ASSUME NEW c \in ConnectionState, c.connected => c.open, WriteInv(c), c.started,
           NEW m \in Message \union {Null}
    PROVE  WriteInv(PushMessage(c, m)) /\ Quiet(c, PushMessage(c, m))
  <1> DEFINE a == [c EXCEPT !.messages = Append(c.messages, m)]
             K == {"data", "last", "wait"}
  <1>1. Append(c.messages, m) \in Queue
    <2> DEFINE M == Message \union {Null}
    <2>1. c.messages \in Seq(M)  BY DEF ConnectionState, Queue
    <2> HIDE DEF M
    <2>2. Append(c.messages, m) \in Seq(M)  BY <2>1 DEF M
    <2> QED  BY <2>2 DEF M, Queue
  <1>2. PushMessage(c, m) = IF ~c.writing /\ c.connected THEN WriteMessage(a) ELSE a
    BY DEF PushMessage
  <1>3. /\ a \in ConnectionState
        /\ a.started = c.started /\ a.open = c.open /\ a.connected = c.connected
        /\ a.writing = c.writing /\ a.single = c.single /\ a.timer = c.timer
        /\ a.read = c.read /\ a.writes = c.writes /\ a.ready = c.ready
        /\ a.invoked = c.invoked /\ a.stale = c.stale /\ a.late = c.late
        /\ a.wire = c.wire /\ a.registered = c.registered
    BY <1>1 DEF ConnectionState
  <1> HIDE DEF a
  <1>4. Quiet(c, a)  BY <1>3 DEF Quiet, NoRead, Pending
  <1>5. WriteInv(a)  BY <1>3, SameKeeps
  <1>6. ASSUME ~c.writing, c.connected
        PROVE  WriteInv(WriteMessage(a)) /\ Quiet(c, WriteMessage(a))
    <2>1. a.open /\ a.connected /\ ~a.writing  BY <1>3, <1>6
    <2>2. ASSUME ~a.late PROVE NoWrite(a) /\ NoRead(a) /\ BegunOnly(a)
      BY <1>5, <2>1, <2>2 DEF WriteInv, Turns, OnWire
    <2>3. BegunOnly(a) => \A k \in K : May(a, k)  BY DEF May, BegunOnly, Opening
    <2>4. MayGoOn(a, K)  BY <1>3, <1>5, <2>2, <2>3 DEF MayGoOn, WriteInv
    <2>5. Result(a, WriteMessage(a), K)  BY <1>3, <2>1, WriteMessageResult
    <2>6. WriteInv(WriteMessage(a))  BY <2>4, <2>5, ResultKeeps
    <2>7. Quiet(c, WriteMessage(a))  BY <1>4, <2>5, QuietAfter DEF Result
    <2> QED  BY <2>6, <2>7
  <1> QED  BY <1>2, <1>4, <1>5, <1>6

\* The manager sends a message.
LEMMA SendKeeps ==
    ASSUME LifeInv(conn), WriteInv(conn), Send
    PROVE  WriteInv(conn')
  <1>1. PICK kind \in Kinds :
          LET m == [kind |-> kind, n |-> conn.sent + 1]
              c == [conn EXCEPT !.sent = @ + 1,
                                !.accepted = IF kind = "data" THEN @ \union {m.n} ELSE @]
          IN  conn' = PushMessage(c, m)
    BY DEF Send
  <1> DEFINE m == [kind |-> kind, n |-> conn.sent + 1]
             a == IF kind = "data" THEN conn.accepted \union {m.n} ELSE conn.accepted
             c == [conn EXCEPT !.sent = @ + 1, !.accepted = a]
  <1>2. conn \in ConnectionState /\ conn.started  BY DEF LifeInv, WriteInv, Fresh, Send
  <1>3. conn.sent + 1 \in Nat /\ conn.accepted \in SUBSET Nat
    BY <1>2 DEF ConnectionState, Numbers
  <1>4. m \in Message  BY <1>3, MessageAssumption DEF Message
  <1>5. a \in Numbers  BY <1>3 DEF Numbers
  <1>6. conn' = PushMessage(c, m)  BY <1>1
  <1> HIDE DEF a, m
  <1>7. /\ c \in ConnectionState
        /\ c.started = conn.started /\ c.open = conn.open /\ c.connected = conn.connected
        /\ c.writing = conn.writing /\ c.single = conn.single /\ c.timer = conn.timer
        /\ c.read = conn.read /\ c.writes = conn.writes /\ c.ready = conn.ready
        /\ c.invoked = conn.invoked /\ c.stale = conn.stale /\ c.late = conn.late
        /\ c.wire = conn.wire /\ c.registered = conn.registered
    BY <1>2, <1>3, <1>5 DEF ConnectionState
  <1> HIDE DEF c
  <1>8. WriteInv(c)  BY <1>7, SameKeeps
  <1> QED  BY <1>2, <1>4, <1>6, <1>7, <1>8, PushKeeps DEF LifeInv
\* connection_manager::finish closes a connection it knows, and only marks one
\* that it does not.
LEMMA FinishKeeps ==
    ASSUME LifeInv(conn), WriteInv(conn), Finish
    PROVE  WriteInv(conn')
  <1> DEFINE c == [conn EXCEPT !.finished = TRUE, !.registered = FALSE]
             p == PushMessage(c, Null)
  <1>1. conn \in ConnectionState /\ conn.registered \in BOOLEAN  BY DEF LifeInv, ConnectionState
  <1>2. conn' = IF conn.registered THEN Cleanup(p) ELSE c  BY DEF Finish
  <1>3. /\ c \in ConnectionState
        /\ c.started = conn.started /\ c.open = conn.open /\ c.connected = conn.connected
        /\ c.writing = conn.writing /\ c.single = conn.single /\ c.timer = conn.timer
        /\ c.read = conn.read /\ c.writes = conn.writes /\ c.ready = conn.ready
        /\ c.invoked = conn.invoked /\ c.stale = conn.stale /\ c.late = conn.late
        /\ c.wire = conn.wire /\ ~c.registered
    BY <1>1 DEF ConnectionState
  <1> HIDE DEF c
  <1>4. WriteInv(c)  BY <1>3, SameKeeps
  <1>5. ASSUME conn.registered PROVE WriteInv(Cleanup(p))
    <2>1. conn.started  BY <1>5 DEF WriteInv, Fresh
    <2>2. Quiet(c, p)  BY <1>3, <1>4, <2>1, PushKeeps DEF LifeInv
    <2> HIDE DEF p
    <2>3. p \in ConnectionState /\ p.started /\ (~p.late => GoodWire(p))
      BY <1>3, <1>4, <2>1, <2>2, QuietWire DEF Quiet, WriteInv
    <2> QED  BY <2>3, CleanupKeeps
  <1> HIDE DEF p
  <1> QED  BY <1>1, <1>2, <1>4, <1>5

\* The run queue gets one more entry.
LEMMA AppendPending ==
    ASSUME NEW c \in ConnectionState, NEW d, NEW r \in [h : Handlers, ok : BOOLEAN],
           d.ready = Append(c.ready, r)
    PROVE  /\ \A H : Pending(d, H) <=> Pending(c, H) \/ r.h \in H
           /\ \A H : PendingOnce(c, H) /\ r.h \notin H => PendingOnce(d, H)
           /\ \A H : ~Pending(c, H) => PendingOnce(d, H)
           /\ Len(d.ready) = Len(c.ready) + 1 /\ Len(c.ready) \in Nat
           /\ \A i \in 1..Len(c.ready) : d.ready[i] = c.ready[i]
           /\ d.ready[Len(d.ready)] = r /\ d.ready # <<>>
  <1> DEFINE R == [h : Handlers, ok : BOOLEAN]
             n == Len(c.ready)
  <1>1. c.ready \in Seq(R)  BY DEF ConnectionState, RunQueue
  <1>2. r \in R  OBVIOUS
  <1> HIDE DEF R
  <1>3. /\ n \in Nat /\ Len(d.ready) = n + 1
        /\ \A i \in 1..n : d.ready[i] = c.ready[i]
        /\ d.ready[n + 1] = r /\ d.ready # <<>>
    BY <1>1, <1>2
  <1> HIDE DEF n
  <1>4. \A i \in 1..(n + 1) : i \in 1..n \/ i = n + 1  BY <1>3
  <1>5. n + 1 \in 1..(n + 1) /\ 1..n \subseteq 1..(n + 1)  BY <1>3
  <1>6. ASSUME NEW H PROVE Pending(d, H) <=> Pending(c, H) \/ r.h \in H
    BY <1>3, <1>4, <1>5 DEF Pending, n
  <1>7. ASSUME NEW H, PendingOnce(c, H), r.h \notin H PROVE PendingOnce(d, H)
    BY <1>3, <1>4, <1>7 DEF PendingOnce, n
  <1>8. ASSUME NEW H, ~Pending(c, H) PROVE PendingOnce(d, H)
    BY <1>3, <1>4, <1>8 DEF PendingOnce, Pending, n
  <1> QED  BY <1>3, <1>6, <1>7, <1>8 DEF n

\* The wait of the timer is over.
LEMMA TimerExpiresKeeps ==
    ASSUME LifeInv(conn), WriteInv(conn), TimerExpires
    PROVE  WriteInv(conn')
  <1> DEFINE c == [conn EXCEPT !.timer = "off"]
             r == [h |-> conn.timer, ok |-> TRUE]
             d == [c EXCEPT !.ready = Append(conn.ready, r)]
  <1>1. conn \in ConnectionState /\ conn.timer \in TimerHandlers
    BY DEF LifeInv, TimerExpires, ConnectionState, Timer
  <1>2. c \in ConnectionState /\ c.ready = conn.ready
    BY <1>1 DEF ConnectionState, Timer
  <1>3. conn' = d  BY <1>2 DEF TimerExpires, Complete
  <1>4. r \in [h : Handlers, ok : BOOLEAN] /\ r.h = conn.timer  BY <1>1 DEF Handlers
  <1> HIDE DEF r
  <1>5. /\ c.started = conn.started /\ c.open = conn.open /\ c.connected = conn.connected
        /\ c.writing = conn.writing /\ c.single = conn.single /\ c.timer = "off"
        /\ c.read = conn.read /\ c.writes = conn.writes /\ c.invoked = conn.invoked
        /\ c.stale = conn.stale /\ c.late = conn.late /\ c.wire = conn.wire
    BY <1>1 DEF ConnectionState
  <1> HIDE DEF c
  <1>6. /\ d.started = conn.started /\ d.open = conn.open /\ d.connected = conn.connected
        /\ d.writing = conn.writing /\ d.single = conn.single /\ d.timer = "off"
        /\ d.read = conn.read /\ d.writes = conn.writes /\ d.invoked = conn.invoked
        /\ d.stale = conn.stale /\ d.late = conn.late /\ d.wire = conn.wire
        /\ d.ready = Append(conn.ready, r)
    BY <1>2, <1>5 DEF ConnectionState
  <1> HIDE DEF d
  <1>7. r.h \notin Reading /\ r.h \notin WriteHandlers /\ r.h # "read_some"
        /\ (r.h \in Serving => conn.timer \in Idle)
    BY <1>1, <1>4 DEF Reading, WriteHandlers, Serving, Idle, TimerHandlers
  <1>8. /\ \A H : Pending(d, H) <=> Pending(conn, H) \/ r.h \in H
        /\ \A H : PendingOnce(conn, H) /\ r.h \notin H => PendingOnce(d, H)
        /\ Len(d.ready) = Len(conn.ready) + 1 /\ Len(conn.ready) \in Nat
        /\ \A i \in 1..Len(conn.ready) : d.ready[i] = conn.ready[i]
        /\ d.ready[Len(d.ready)] = r /\ d.ready # <<>>
    BY <1>1, <1>4, <1>6, AppendPending
  <1>9. /\ NoWrite(d) <=> NoWrite(conn)
        /\ NoRead(d) <=> NoRead(conn)
        /\ OneWrite(conn) => OneWrite(d)
        /\ OneRead(conn) => OneRead(d)
    BY <1>6, <1>7, <1>8 DEF NoWrite, NoRead, OneWrite, OneRead
  <1>10. Fresh(d)
    BY <1>1, <1>6 DEF WriteInv, Fresh, TimerHandlers
  <1>11. Served(d)  BY <1>6, <1>7, <1>8 DEF WriteInv, Served, Idle
  <1>12. ASSUME NEW i \in 1..Len(d.ready) PROVE i \in 1..Len(conn.ready) \/ d.ready[i] = r
    BY <1>8
  <1>13. ~InputBounded => Watched(d) /\ EndsBadly(d)
    BY <1>6, <1>7, <1>8, <1>12 DEF WriteInv, Watched, EndsBadly
  <1>14. ASSUME ~d.late PROVE Turns(d) /\ OnWire(d) /\ GoodWire(d)
    <2>1. Turns(conn) /\ OnWire(conn) /\ GoodWire(conn)  BY <1>6, <1>14 DEF WriteInv
    <2>2. Turns(d)  BY <1>4, <1>6, <1>8, <1>9, <2>1 DEF Turns, Idle
    <2>3. (Begun(d) <=> Begun(conn)) /\ (BegunOnly(d) <=> BegunOnly(conn))
      BY <1>6 DEF Begun, BegunOnly
    <2>4. \A k : May(d, k) <=> May(conn, k)  BY <1>6, <2>3 DEF May
    <2>5. OnWire(d)
      BY <1>6, <1>7, <1>8, <1>9, <1>12, <2>1, <2>3, <2>4 DEF OnWire, WriteHandlers
    <2>6. GoodWire(d)  BY <1>6, <1>9, <2>1 DEF GoodWire
    <2> QED  BY <2>2, <2>5, <2>6
  <1> QED  BY <1>3, <1>10, <1>11, <1>13, <1>14 DEF WriteInv
\* A read is over.
LEMMA ReadCompletesKeeps ==
    ASSUME LifeInv(conn), WriteInv(conn), ReadCompletes
    PROVE  WriteInv(conn')
  <1>1. PICK ok \in BOOLEAN :
           /\ ok /\ conn.read = "read_some" => InputBounded
           /\ conn' = Complete([conn EXCEPT !.read = "none"], conn.read, ok)
    BY DEF ReadCompletes
  <1> DEFINE c == [conn EXCEPT !.read = "none"]
             r == [h |-> conn.read, ok |-> ok]
             d == [c EXCEPT !.ready = Append(conn.ready, r)]
  <1>2. conn \in ConnectionState /\ conn.read \in ReadHandlers
    BY DEF LifeInv, ReadCompletes, ConnectionState, Read
  <1>3. c \in ConnectionState /\ c.ready = conn.ready  BY <1>2 DEF ConnectionState, Read
  <1>4. conn' = d  BY <1>1, <1>3 DEF Complete
  <1>5. r \in [h : Handlers, ok : BOOLEAN] /\ r.h = conn.read /\ r.ok = ok  BY <1>2 DEF Handlers
  <1> HIDE DEF r
  <1>6. /\ c.started = conn.started /\ c.open = conn.open /\ c.connected = conn.connected
        /\ c.writing = conn.writing /\ c.single = conn.single /\ c.timer = conn.timer
        /\ c.read = "none" /\ c.writes = conn.writes /\ c.invoked = conn.invoked
        /\ c.stale = conn.stale /\ c.late = conn.late /\ c.wire = conn.wire
    BY <1>2 DEF ConnectionState
  <1> HIDE DEF c
  <1>7. /\ d.started = conn.started /\ d.open = conn.open /\ d.connected = conn.connected
        /\ d.writing = conn.writing /\ d.single = conn.single /\ d.timer = conn.timer
        /\ d.read = "none" /\ d.writes = conn.writes /\ d.invoked = conn.invoked
        /\ d.stale = conn.stale /\ d.late = conn.late /\ d.wire = conn.wire
        /\ d.ready = Append(conn.ready, r)
    BY <1>3, <1>6 DEF ConnectionState
  <1> HIDE DEF d
  <1>8. r.h \notin WriteHandlers /\ r.h \notin Serving /\ r.h \notin Idle /\ d.read \notin Reading
    BY <1>2, <1>5, <1>7 DEF Reading, ReadHandlers, WriteHandlers, Serving, Idle
  <1>9. /\ \A H : Pending(d, H) <=> Pending(conn, H) \/ r.h \in H
        /\ \A H : PendingOnce(conn, H) /\ r.h \notin H => PendingOnce(d, H)
        /\ \A H : ~Pending(conn, H) => PendingOnce(d, H)
        /\ Len(d.ready) = Len(conn.ready) + 1 /\ Len(conn.ready) \in Nat
        /\ \A i \in 1..Len(conn.ready) : d.ready[i] = conn.ready[i]
        /\ d.ready[Len(d.ready)] = r /\ d.ready # <<>>
    <2>1. r \in [h : Handlers, ok : BOOLEAN]  BY <1>5
    <2>2. d.ready = Append(conn.ready, r) /\ conn \in ConnectionState  BY <1>2, <1>7
    <2> QED  BY <2>1, <2>2, AppendPending, ZenonT(60)
  <1>10. /\ NoWrite(d) <=> NoWrite(conn)
         /\ NoRead(d) <=> NoRead(conn)
         /\ OneWrite(conn) => OneWrite(d)
         /\ OneRead(conn) => OneRead(d)
    BY <1>5, <1>7, <1>8, <1>9 DEF NoWrite, NoRead, OneWrite, OneRead
  <1>11. Fresh(d)
    BY <1>2, <1>7 DEF WriteInv, Fresh, ReadHandlers
  <1>12. Served(d)  BY <1>7, <1>8, <1>9 DEF WriteInv, Served
  <1>13. ASSUME NEW i \in 1..Len(d.ready) PROVE i \in 1..Len(conn.ready) \/ d.ready[i] = r
    BY <1>9
  <1>14. ~InputBounded => Watched(d) /\ EndsBadly(d)
    <2>1. r.h = "read_some" /\ r.ok => InputBounded  BY <1>1, <1>5
    <2> QED  BY <1>7, <1>9, <1>13, <2>1 DEF WriteInv, Watched, EndsBadly
  <1>15. ASSUME ~d.late PROVE Turns(d) /\ OnWire(d) /\ GoodWire(d)
    <2>1. Turns(conn) /\ OnWire(conn) /\ GoodWire(conn)  BY <1>7, <1>15 DEF WriteInv
    <2>2. Turns(d)  BY <1>7, <1>8, <1>9, <1>10, <2>1 DEF Turns
    <2>3. (Begun(d) <=> Begun(conn)) /\ (BegunOnly(d) <=> BegunOnly(conn))
      BY <1>7 DEF Begun, BegunOnly
    <2>4. \A k : May(d, k) <=> May(conn, k)  BY <1>7, <2>3 DEF May
    <2>5. OnWire(d)
      BY <1>7, <1>8, <1>9, <1>10, <1>13, <2>1, <2>3, <2>4 DEF OnWire, WriteHandlers
    <2>6. GoodWire(d)  BY <1>7, <1>10, <2>1 DEF GoodWire
    <2> QED  BY <2>2, <2>5, <2>6
  <1> QED  BY <1>4, <1>11, <1>12, <1>14, <1>15 DEF WriteInv

\* A write is over, well or not.
LEMMA WriteCompletesKeeps ==
    ASSUME LifeInv(conn), WriteInv(conn), WriteCompletes
    PROVE  WriteInv(conn')
  <1> DEFINE W  == [h : WriteHandlers, item : Item]
             w  == Head(conn.writes)
             wr == IF w.item.kind = "ping" THEN conn.wire ELSE Append(conn.wire, w.item)
             c  == [conn EXCEPT !.writes = Tail(@)]
             b  == [c EXCEPT !.wire = wr]
  <1>1. conn \in ConnectionState /\ conn.writes # <<>> /\ conn.open
    BY DEF LifeInv, WriteCompletes
  <1>2. conn.writes \in Seq(W)  BY <1>1 DEF ConnectionState, Writes
  <1>3. /\ 1 \in 1..Len(conn.writes) /\ w = conn.writes[1]
        /\ \A i \in 1..Len(Tail(conn.writes)) :
              i + 1 \in 1..Len(conn.writes) /\ Tail(conn.writes)[i] = conn.writes[i + 1]
        /\ Len(conn.writes) = 1 => Tail(conn.writes) = <<>>
        /\ Len(conn.writes) \in Nat
        /\ w \in W /\ Tail(conn.writes) \in Seq(W)
    <2> HIDE DEF W
    <2>1. Tail(conn.writes) \in Seq(W) /\ Len(Tail(conn.writes)) = Len(conn.writes) - 1
      BY <1>1, <1>2, HeadTailProperties
    <2>2. Len(conn.writes) = 1 => Tail(conn.writes) = <<>>
      <3> DEFINE t == Tail(conn.writes)
      <3>1. t # <<>> => Len(t) # 0  BY <2>1, EmptySeq, Zenon
      <3>2. Len(conn.writes) = 1 => Len(t) = 0  BY <2>1
      <3> QED  BY <3>1, <3>2, Zenon
    <2> QED  BY <1>1, <1>2, <2>1, <2>2, TailLemma
  <1>4. conn.wire \in Seq(Item) /\ w.item \in Item  BY <1>1, <1>3 DEF ConnectionState, Wire
  <1>5. wr \in Wire
    <2> HIDE DEF w
    <2>1. Append(conn.wire, w.item) \in Seq(Item)  BY <1>4
    <2> QED  BY <1>4, <2>1 DEF Wire
  <1>6. PICK ok \in BOOLEAN, a \in {b, c} :
           /\ conn' = [a EXCEPT !.ready = Append(a.ready, [h |-> w.h, ok |-> ok])]
           /\ a = b \/ ~ok
    <2>1. c.wire = conn.wire  BY <1>1 DEF ConnectionState
    <2>2. b = [c EXCEPT !.wire = IF w.item.kind = "ping" THEN @ ELSE Append(@, w.item)]
      <3> HIDE DEF w
      <3> QED  BY <1>1 DEF ConnectionState
    <2>3. conn' = Complete(b, w.h, TRUE) \/ conn' = Complete(c, w.h, FALSE)
      BY <2>2 DEF WriteCompletes
    <2> HIDE DEF b, c, w
    <2> QED  BY <2>3 DEF Complete
  <1> DEFINE r == [h |-> w.h, ok |-> ok]
             d == [a EXCEPT !.ready = Append(a.ready, r)]
  <1>7. /\ c \in ConnectionState
        /\ c.started = conn.started /\ c.open = conn.open /\ c.connected = conn.connected
        /\ c.writing = conn.writing /\ c.single = conn.single /\ c.timer = conn.timer
        /\ c.read = conn.read /\ c.writes = Tail(conn.writes) /\ c.invoked = conn.invoked
        /\ c.stale = conn.stale /\ c.late = conn.late /\ c.wire = conn.wire
        /\ c.ready = conn.ready
    <2>1. Tail(conn.writes) \in Writes  BY <1>3 DEF Writes
    <2> QED  BY <1>1, <2>1 DEF ConnectionState
  <1> HIDE DEF c, wr
  <1>8. /\ a \in ConnectionState
        /\ a.started = conn.started /\ a.open = conn.open /\ a.connected = conn.connected
        /\ a.writing = conn.writing /\ a.single = conn.single /\ a.timer = conn.timer
        /\ a.read = conn.read /\ a.writes = Tail(conn.writes) /\ a.invoked = conn.invoked
        /\ a.stale = conn.stale /\ a.late = conn.late
        /\ a.wire = conn.wire \/ a.wire = wr
        /\ ok => a.wire = wr
        /\ a.ready = conn.ready
    <2>1. /\ b \in ConnectionState
          /\ b.started = c.started /\ b.open = c.open /\ b.connected = c.connected
          /\ b.writing = c.writing /\ b.single = c.single /\ b.timer = c.timer
          /\ b.read = c.read /\ b.writes = c.writes /\ b.invoked = c.invoked
          /\ b.stale = c.stale /\ b.late = c.late /\ b.wire = wr
          /\ b.ready = c.ready
      BY <1>5, <1>7 DEF ConnectionState
    <2> HIDE DEF b
    <2> QED  BY <1>6, <1>7, <2>1
  <1>9. conn' = d  BY <1>6
  <1> HIDE DEF b, w
  <1>10. r \in [h : Handlers, ok : BOOLEAN] /\ r.h = w.h /\ r.ok = ok
    BY <1>3 DEF Handlers
  <1> HIDE DEF r
  <1>11. /\ d.started = conn.started /\ d.open = conn.open /\ d.connected = conn.connected
         /\ d.writing = conn.writing /\ d.single = conn.single /\ d.timer = conn.timer
         /\ d.read = conn.read /\ d.writes = Tail(conn.writes) /\ d.invoked = conn.invoked
         /\ d.stale = conn.stale /\ d.late = conn.late
         /\ d.wire = conn.wire \/ d.wire = wr
         /\ ok => d.wire = wr
         /\ d.ready = Append(conn.ready, r)
    BY <1>8 DEF ConnectionState
  <1> HIDE DEF d
  <1>12. w.h \in WriteHandlers /\ r.h \notin Reading /\ r.h \notin Idle /\ r.h # "read_some"
    BY <1>3, <1>10 DEF WriteHandlers, Reading, Idle
  <1>13. /\ \A H : Pending(d, H) <=> Pending(conn, H) \/ r.h \in H
         /\ \A H : PendingOnce(conn, H) /\ r.h \notin H => PendingOnce(d, H)
         /\ \A H : ~Pending(conn, H) => PendingOnce(d, H)
         /\ Len(d.ready) = Len(conn.ready) + 1 /\ Len(conn.ready) \in Nat
         /\ \A i \in 1..Len(conn.ready) : d.ready[i] = conn.ready[i]
         /\ d.ready[Len(d.ready)] = r /\ d.ready # <<>>
    BY <1>1, <1>10, <1>11, AppendPending
  <1>14. ASSUME NEW i \in 1..Len(d.ready) PROVE i \in 1..Len(conn.ready) \/ d.ready[i] = r
    BY <1>13
  <1>15. NoRead(d) <=> NoRead(conn)  BY <1>11, <1>12, <1>13 DEF NoRead
  <1>16. Fresh(d)  BY <1>1, <1>11 DEF WriteInv, Fresh
  <1>17. Served(d)
    <2>1. Served(conn)  BY DEF WriteInv
    <2>2. w.h \in Serving => conn.connected  BY <1>1, <1>3, <2>1 DEF Served
    <2>3. \A i \in 1..Len(d.writes) : d.writes[i].h \in Serving => conn.connected
      BY <1>1, <1>3, <1>11, <2>1 DEF Served
    <2> QED  BY <1>1, <1>10, <1>11, <1>13, <2>1, <2>2, <2>3 DEF Served
  <1>18. ~InputBounded => Watched(d) /\ EndsBadly(d)
    BY <1>11, <1>12, <1>13, <1>14 DEF WriteInv, Watched, EndsBadly
  <1>19. ASSUME ~d.late PROVE Turns(d) /\ OnWire(d) /\ GoodWire(d)
    <2>1. Turns(conn) /\ OnWire(conn) /\ GoodWire(conn)  BY <1>11, <1>19 DEF WriteInv
    <2>2. OneWrite(conn) /\ ~NoWrite(conn)  BY <1>1, <2>1 DEF Turns, NoWrite
    <2>3. Len(conn.writes) = 1 /\ d.writes = <<>> /\ ~Pending(conn, WriteHandlers)
      <3>1. Len(conn.writes) <= 1 /\ ~Pending(conn, WriteHandlers)
        BY <1>1, <2>2 DEF OneWrite
      <3> DEFINE k == Len(conn.writes)
      <3>2. k <= 1 /\ k \in Nat /\ 1 \in 1..k  BY <1>3, <3>1
      <3> HIDE DEF k
      <3>3. k = 1  BY <3>2
      <3> QED  BY <1>3, <1>11, <3>1, <3>3 DEF k
    <2>4. /\ NoRead(conn) /\ OneRead(conn) /\ (conn.connected => conn.writing)
          /\ conn.timer \notin Idle /\ (Pending(conn, Idle) => conn.stale)
      BY <1>1, <2>1, <2>2 DEF Turns, ConnectionState
    <2>5. OneWrite(d)  BY <1>13, <2>3 DEF OneWrite
    <2>6. OneRead(d)  BY <1>11, <1>12, <1>13, <2>4 DEF OneRead
    <2>7. Turns(d)
      BY <1>11, <1>12, <1>13, <1>15, <2>4, <2>5, <2>6 DEF Turns
    <2>8. Fits(w) /\ May(conn, w.item.kind)  BY <1>1, <1>3, <2>1 DEF OnWire
    <2>9. w.item.kind \in Opening \union {"data", "ping", "last"}
      BY <1>12, <2>8 DEF Fits, WriteHandlers, Opening, Final
    <2> DEFINE n == Len(conn.wire)
    <2>10. /\ n \in Nat
           /\ wr = conn.wire \/ /\ w.item.kind # "ping" /\ Len(wr) = n + 1 /\ wr[n + 1] = w.item
                                /\ \A i \in 1..n : wr[i] = conn.wire[i]
           /\ w.item.kind # "ping" =>
                 /\ Len(wr) = n + 1 /\ wr[n + 1] = w.item /\ wr # <<>>
                 /\ \A i \in 1..n : wr[i] = conn.wire[i]
           /\ w.item.kind = "ping" => wr = conn.wire
           /\ conn.wire = <<>> <=> n = 0
      BY <1>4 DEF wr
    <2> HIDE DEF n
    <2>11. \A i \in 1..(n + 1) : i \in 1..n \/ i = n + 1  BY <2>10
    <2>12. OnWire(d)
      <3>1. ASSUME ok PROVE
               /\ w.h = "write_headers" => Len(d.wire) = 1 /\ d.wire[1].kind = "headers"
               /\ w.h = "write_message" => Begun(d)
               /\ w.h = "write_ping_message" => BegunOnly(d)
        <4>1. d.wire = wr /\ d.single = conn.single  BY <1>11, <3>1
        <4>2. ASSUME w.h = "write_headers"
              PROVE  Len(d.wire) = 1 /\ d.wire[1].kind = "headers"
          <5>1. w.item.kind = "headers" /\ conn.wire = <<>>
            BY <2>8, <4>2 DEF Fits, May, Opening
          <5> QED  BY <2>10, <4>1, <5>1
        <4>3. ASSUME w.h = "write_message" PROVE Begun(d)
          <5>1. w.item.kind = "data" /\ Begun(conn)
            BY <2>8, <4>3 DEF Fits, May, BegunOnly
          <5> QED  BY <2>10, <2>11, <4>1, <5>1 DEF Begun, Final, n
        <4>4. ASSUME w.h = "write_ping_message" PROVE BegunOnly(d)
          <5>1. w.item.kind = "ping" /\ BegunOnly(conn)
            BY <2>8, <4>4 DEF Fits, May
          <5> QED  BY <2>10, <4>1, <5>1 DEF Begun, BegunOnly
        <4> QED  BY <4>2, <4>3, <4>4
      <3>2. ~NoWrite(d)  BY <1>10, <1>12, <1>13 DEF NoWrite
      <3>3. \A i \in 1..Len(conn.ready) :
               d.ready[i].h \notin {"write_headers", "write_message", "write_ping_message"}
        BY <1>13, <2>3 DEF Pending, WriteHandlers
      <3> QED  BY <1>10, <1>14, <2>3, <3>1, <3>2, <3>3 DEF OnWire
    <2>13. GoodWire(d)
      <3>1. NoRead(d)  BY <1>15, <2>4
      <3>2. CASE d.wire = conn.wire
        BY <1>11, <2>1, <3>1, <3>2 DEF GoodWire
      <3>3. CASE d.wire # conn.wire
        <4>1. d.wire = wr /\ d.single = conn.single /\ w.item.kind # "ping"
          BY <1>11, <2>10, <3>3
        <4>2. w.item.kind \in Opening => n = 0  BY <2>8, <2>10 DEF May
        <4>3. w.item.kind \notin Opening =>
                 n # 0 /\ \A i \in 1..n : conn.wire[i].kind \notin Final
          BY <2>8, <2>9, <2>10, <4>1 DEF May, BegunOnly, Begun, n
        <4>4. w.item.kind = "data" /\ conn.single => n = 1
          BY <2>8 DEF May, BegunOnly, n
        <4>5. ASSUME NEW i \in 1..Len(d.wire)
              PROVE  /\ d.wire[i].kind \in Opening <=> i = 1
                     /\ d.wire[i].kind \in Final => i = Len(d.wire)
                     /\ d.wire[i].kind = "data" /\ d.single => i = 2
          <5>1. Len(d.wire) = n + 1 /\ i \in 1..(n + 1)  BY <2>10, <4>1
          <5>2. CASE i = n + 1
            <6>1. d.wire[i] = w.item  BY <2>10, <4>1, <5>2
            <6>2. w.item.kind \in Opening <=> i = 1  BY <2>10, <4>2, <4>3, <5>2
            <6>3. w.item.kind = "data" /\ d.single => i = 2  BY <4>1, <4>4, <5>2
            <6> QED  BY <5>1, <5>2, <6>1, <6>2, <6>3
          <5>3. CASE i \in 1..n
            <6>1. d.wire[i] = conn.wire[i]  BY <2>10, <4>1, <5>3
            <6>2. w.item.kind \notin Opening  BY <2>10, <4>2, <5>3
            <6> QED  BY <2>1, <4>1, <4>3, <5>3, <6>1, <6>2 DEF GoodWire, n
          <5> QED  BY <2>11, <5>1, <5>2, <5>3
        <4> QED  BY <3>1, <4>5 DEF GoodWire
      <3> QED  BY <3>2, <3>3
    <2> QED  BY <2>7, <2>12, <2>13
  <1> QED  BY <1>9, <1>16, <1>17, <1>18, <1>19 DEF WriteInv
\* The read that notices the end of the peer is over.  If it ended well, which
\* takes a bounded buffer, it is started again.
LEMMA RunReadSomeKeeps ==
    ASSUME LifeInv(conn), WriteInv(conn), RunReadSome
    PROVE  WriteInv(conn')
  <1> DEFINE R   == [h : Handlers, ok : BOOLEAN]
             p   == Popped
             off == Cancel(p)
             d   == [off EXCEPT !.read = "read_some"]
  <1>1. conn.ready # <<>> /\ Head(conn.ready).h = "read_some"  BY DEF RunReadSome, Next_h
  <1>2. Taken(p) /\ p \in ConnectionState /\ p.ready = Tail(conn.ready) /\ Ok \in BOOLEAN
    BY <1>1, TakenLemma DEF Taken
  <1>3. conn' = IF Ok THEN ReadSome(off) ELSE Cleanup(off)
    BY DEF RunReadSome, HandleReadSome
  <1>4. conn.ready \in Seq(R)  BY DEF LifeInv, ConnectionState, RunQueue
  <1>5. p.late = conn.late
    BY DEF Popped, LifeInv, ConnectionState
  <1> HIDE DEF p
  <1>6. /\ off \in ConnectionState /\ Quiet(p, off) /\ off.timer = "off" /\ off.open = p.open
        /\ off.connected = p.connected /\ off.writing = p.writing
        /\ off.ready = p.ready /\ off.writes = p.writes
        /\ off.read = p.read /\ off.invoked = p.invoked
        /\ Pending(p, TimerHandlers) => off.stale
    BY <1>2, CancelQuiet DEF Quiet
  <1> HIDE DEF off, R
  <1>7. WriteInv(Cleanup(off))
    BY <1>2, <1>6, QuietWire, CleanupKeeps DEF Taken, Quiet
  <1>8. ASSUME Ok PROVE WriteInv(ReadSome(off))
    <2>1. CASE ~off.open
      <3>1. "read_some" \in Handlers \ Reading  BY DEF Handlers, ReadHandlers, Reading
      <3> DEFINE e == Complete(off, "read_some", FALSE)
      <3>2. ReadSome(off) = e  BY <2>1 DEF ReadSome, AsyncRead
      <3>3. Quiet(off, e) /\ e.open = off.open  BY <1>6, <3>1, CompleteQuiet
      <3> HIDE DEF e
      <3>4. Quiet(p, e) /\ ~e.open  BY <1>6, <2>1, <3>3, QuietAfter
      <3>5. WriteInv(e)  BY <1>2, <3>4, ClosedKeeps DEF Taken
      <3> QED  BY <3>2, <3>5
    <2>2. CASE off.open
      <3>1. ReadSome(off) = d  BY <2>2 DEF ReadSome, AsyncRead
      <3>2. "read_some" \in Read  BY DEF Read, ReadHandlers
      <3>3. /\ d.open = off.open /\ d.connected = off.connected /\ d.writing = off.writing
            /\ d.started = off.started /\ d.late = off.late /\ d.wire = off.wire
            /\ d.single = off.single /\ d.ready = off.ready /\ d.writes = off.writes
            /\ d.invoked = off.invoked /\ d.timer = off.timer /\ d.stale = off.stale
            /\ d.read = "read_some"
        BY <1>6, <3>2 DEF ConnectionState
      <3> HIDE DEF d
      <3>4. /\ d.open /\ conn.open /\ d.connected = conn.connected /\ d.writing = conn.writing
            /\ d.started /\ d.late = conn.late /\ d.wire = conn.wire
            /\ d.single = conn.single /\ d.ready = Tail(conn.ready) /\ d.writes = conn.writes
            /\ d.invoked = conn.invoked /\ d.timer = "off"
        BY <1>2, <1>5, <1>6, <2>2, <3>3 DEF Quiet, Taken
      <3>5. /\ 1 \in 1..Len(conn.ready) /\ conn.ready[1].h = "read_some" /\ conn.ready[1].ok
            /\ \A i \in 1..Len(d.ready) : i + 1 \in 1..Len(conn.ready) /\ d.ready[i] = conn.ready[i + 1]
            /\ \A i \in 1..Len(conn.ready) :
                  i # 1 => i - 1 \in 1..Len(d.ready) /\ d.ready[i - 1] = conn.ready[i]
        BY <1>1, <1>4, <1>8, <3>4, TailLemma DEF Ok
      <3>6. InputBounded
        BY <3>4, <3>5 DEF WriteInv, EndsBadly
      <3>7. /\ \A H : Pending(d, H) => Pending(conn, H)
            /\ \A H : "read_some" \notin H /\ Pending(conn, H) => Pending(d, H)
        BY <3>5 DEF Pending
      <3>8. \A H : PendingOnce(conn, H) => PendingOnce(d, H)
        <4> SUFFICES ASSUME NEW H, PendingOnce(conn, H),
                            NEW i \in 1..Len(d.ready), NEW j \in 1..Len(d.ready),
                            d.ready[i].h \in H, d.ready[j].h \in H
                     PROVE  i = j
          BY DEF PendingOnce
        <4>1. i + 1 = j + 1  BY <3>5 DEF PendingOnce
        <4> QED  BY <4>1
      <3>9. "read_some" \notin WriteHandlers /\ "read_some" \notin Reading
        BY DEF WriteHandlers, Reading
      <3>10. /\ NoWrite(d) <=> NoWrite(conn)
             /\ NoRead(conn) => NoRead(d)
             /\ OneWrite(conn) => OneWrite(d)
             /\ OneRead(conn) => OneRead(d)
        BY <3>3, <3>4, <3>7, <3>8, <3>9 DEF NoWrite, NoRead, OneWrite, OneRead
      <3>11. Served(d)  BY <3>4, <3>7 DEF WriteInv, Served, Idle
      <3>12. Pending(d, Idle) => d.stale
        <4>1. Pending(d, Idle) => Pending(p, TimerHandlers)
          BY <1>6, <3>3 DEF Pending, Idle, TimerHandlers
        <4> QED  BY <1>6, <3>3, <4>1
      <3>13. ASSUME ~d.late PROVE Turns(d) /\ OnWire(d) /\ GoodWire(d)
        <4>1. Turns(conn) /\ OnWire(conn) /\ GoodWire(conn)  BY <3>4, <3>13 DEF WriteInv
        <4>2. Turns(d)  BY <3>4, <3>10, <3>12, <4>1 DEF Turns, Idle
        <4>3. (Begun(d) <=> Begun(conn)) /\ (BegunOnly(d) <=> BegunOnly(conn))
          BY <3>4 DEF Begun, BegunOnly
        <4>4. \A k : May(d, k) <=> May(conn, k)  BY <3>4, <4>3 DEF May
        <4>5. OnWire(d)  BY <3>4, <3>5, <3>10, <4>1, <4>3, <4>4 DEF OnWire
        <4>6. GoodWire(d)  BY <3>4, <3>10, <4>1 DEF GoodWire
        <4> QED  BY <4>2, <4>5, <4>6
      <3>14. WriteInv(d)  BY <3>4, <3>6, <3>11, <3>13 DEF WriteInv, Fresh
      <3> QED  BY <3>1, <3>14
    <2>3. off.open \in BOOLEAN  BY <1>6 DEF ConnectionState
    <2> QED  BY <2>1, <2>2, <2>3
  <1> QED  BY <1>2, <1>3, <1>7, <1>8

-----------------------------------------------------------------------------
(* The theorems.                                                           *)

\* Every step keeps the invariant.
LEMMA NextKeeps ==
    ASSUME LifeInv(conn), WriteInv(conn), Next
    PROVE  WriteInv(conn')
  <1>1. ASSUME RunHandler PROVE WriteInv(conn')
    BY <1>1, ReadHandlersKeep, RunReadSomeKeeps, RunWriteHeadersKeeps, WriteJobsKeep,
       EndingJobsKeep, IdleJobsKeep
    DEF RunHandler
  <1> QED
    BY <1>1, StartKeeps, AnswerKeeps, SendKeeps, EndingJobsKeep, FinishKeeps,
       ReadCompletesKeeps, WriteCompletesKeeps, TimerExpiresKeeps
    DEF Next

\* A connection that was just accepted satisfies it.
LEMMA InitKeeps == Init => WriteInv(conn)
  <1> SUFFICES ASSUME Init PROVE WriteInv(conn)
    OBVIOUS
  <1>1. /\ conn.read = "none" /\ conn.writes = <<>> /\ conn.ready = <<>> /\ conn.wire = <<>>
        /\ conn.timer = "off" /\ ~conn.invoked /\ ~conn.connected /\ ~conn.registered
        /\ ~conn.started
    BY DEF Init, NewConnection
  <1>2. \A H : ~Pending(conn, H)  BY <1>1 DEF Pending
  <1>3. Served(conn) /\ Fresh(conn) /\ Watched(conn) /\ EndsBadly(conn)
    BY <1>1, <1>2 DEF Served, Fresh, Watched, EndsBadly, Idle
  <1>4. NoWrite(conn) /\ NoRead(conn)  BY <1>1, <1>2 DEF NoWrite, NoRead, Reading
  <1>5. OneWrite(conn) /\ OneRead(conn)
    BY <1>1, <1>2 DEF OneWrite, OneRead, Pending, PendingOnce, Reading
  <1>6. Turns(conn)  BY <1>1, <1>2, <1>4, <1>5 DEF Turns
  <1>7. OnWire(conn)  BY <1>1 DEF OnWire
  <1>8. GoodWire(conn)  BY <1>1 DEF GoodWire
  <1> QED  BY <1>3, <1>6, <1>7, <1>8 DEF WriteInv

\* The invariant holds in every state of every behaviour.
THEOREM WriteInvariant == Spec => []WriteInv(conn)
  <1>1. Init => WriteInv(conn)  BY InitKeeps
  <1>2. LifeInv(conn) /\ WriteInv(conn) /\ [Next]_vars => WriteInv(conn)'
    <2> SUFFICES ASSUME LifeInv(conn), WriteInv(conn), [Next]_vars PROVE WriteInv(conn)'
      OBVIOUS
    <2>1. CASE Next  BY <2>1, NextKeeps, Zenon
    <2>2. CASE UNCHANGED vars
      <3>1. conn' = conn  BY <2>2 DEF vars
      <3>2. WriteInv(conn')  BY <3>1
      <3> QED  BY <3>2, Zenon
    <2> QED  BY <2>1, <2>2
  <1> QED  BY <1>1, <1>2, LifeInvariant, PTL DEF Spec

\* As long as no cancelled timer handler ran, an open connection never starts a
\* write before the handler of the previous one has run: out_ has one user.
THEOREM OutHasOneUser == Spec => []OneWriteAtATime
  <1>1. LifeInv(conn) /\ WriteInv(conn) => OneWriteAtATime
    <2> SUFFICES ASSUME LifeInv(conn), WriteInv(conn), conn.open, ~conn.late
                 PROVE  WritesInFlight <= 1
      BY DEF OneWriteAtATime
    <2> DEFINE S == {i \in DOMAIN conn.ready : conn.ready[i].h \in WriteHandlers}
               R == [h : Handlers, ok : BOOLEAN]
               W == [h : WriteHandlers, item : Item]
               k == Len(conn.writes)
    <2>1. OneWrite(conn)  BY DEF WriteInv, Turns
    <2>2. DOMAIN conn.ready = 1..Len(conn.ready)
      <3>1. conn.ready \in Seq(R)  BY DEF LifeInv, ConnectionState, RunQueue
      <3> HIDE DEF R
      <3> QED  BY <3>1
    <2>3. k \in Nat /\ (k # 0 => conn.writes # <<>>)
      <3>1. conn.writes \in Seq(W)  BY DEF LifeInv, ConnectionState, Writes
      <3> HIDE DEF W
      <3> QED  BY <3>1
    <2>4. k <= 1 /\ (k # 0 => S = {}) /\ \A i, j \in S : i = j
      BY <2>1, <2>2, <2>3 DEF OneWrite, Pending, PendingOnce
    <2>5. S = {} \/ \E i : S = {i}
      <3> HIDE DEF S
      <3> QED  BY <2>4, SMTT(30)
    <2>6. Cardinality(S) = 0 \/ (S # {} /\ Cardinality(S) = 1)
      <3> HIDE DEF S
      <3>1. CASE S = {}  BY <3>1, FS_EmptySet
      <3>2. CASE \E i : S = {i}
        <4>1. PICK i : S = {i}  BY <3>2
        <4>2. Cardinality(S) = 1  BY <4>1, FS_Singleton
        <4> QED  BY <4>1, <4>2
      <3> QED  BY <2>5, <3>1, <3>2
    <2>7. WritesInFlight = k + Cardinality(S)  BY DEF WritesInFlight
    <2> HIDE DEF S, k
    <2> QED  BY <2>3, <2>4, <2>6, <2>7
  <1> QED  BY <1>1, LifeInvariant, WriteInvariant, PTL

\* As long as no cancelled timer handler ran, the peer receives one complete
\* answer, or headers, messages and an end marker, in that order.
THEOREM PeerReceivesOneAnswer == Spec => []WireWellFormed
  <1>1. LifeInv(conn) /\ WriteInv(conn) => WireWellFormed
    <2> SUFFICES ASSUME LifeInv(conn), WriteInv(conn), ~conn.late,
                        NEW i \in DOMAIN conn.wire
                 PROVE  LET kind == conn.wire[i].kind IN
                        /\ kind \in {"headers", "error", "static", "policy"} <=> i = 1
                        /\ kind \in {"error", "static", "policy", "last"} => i = Len(conn.wire)
                        /\ kind = "data" /\ conn.single => i = 2
      BY DEF WireWellFormed
    <2>1. i \in 1..Len(conn.wire)
      <3>1. conn.wire \in Seq(Item)  BY DEF LifeInv, ConnectionState, Wire
      <3> QED  BY <3>1
    <2>2. GoodWire(conn)  BY DEF WriteInv
    <2> QED  BY <2>1, <2>2 DEF GoodWire, Opening, Final
  <1> QED  BY <1>1, LifeInvariant, WriteInvariant, PTL

\* No stalled peer keeps the server: an open connection that is not with the
\* response handler has a timer running or a handler about to run.  The buffer
\* the connection reads into is an asio streambuf without a limit.
THEOREM NeverUnwatched ==
    ASSUME ~InputBounded
    PROVE  Spec => []AlwaysWatched
  <1>1. WriteInv(conn) => AlwaysWatched
    BY DEF WriteInv, Watched, AlwaysWatched
  <1> QED  BY <1>1, WriteInvariant, PTL

-----------------------------------------------------------------------------
(***************************************************************************)
(* No message is lost.  An accepted message is in messages_, then in the   *)
(* write in flight, then on the wire.  The invariant says that these three *)
(* hold all the accepted ones, each before the next, as long as no failed  *)
(* operation waits in the run queue: its handler will close the socket.    *)
(***************************************************************************)

\* An open connection none of whose operations is known to have failed.
Sound(c) ==
    c.open /\ \A i \in 1..Len(c.ready) : c.ready[i].h \notin TimerHandlers => c.ready[i].ok

\* Every accepted data message is on the wire, in flight or in messages_, in
\* this order and in the order of the numbers.
Kept(c) ==
    LET sent    == DataIn(c.wire)
        written == DataIn(InFlight(c))
        queued  == DataIn(c.messages)
    IN  /\ InOrder(c.wire) /\ InOrder(InFlight(c)) /\ InOrder(c.messages)
        /\ \A x \in sent, y \in written \union queued : x < y
        /\ \A x \in written, y \in queued : x < y
        /\ sent \union written \union queued = c.accepted
        /\ \A x \in c.accepted : x <= c.sent

KeptInv(c) == Sound(c) => Kept(c)

\* What a method does to them.
Holds(c, d) == d \in ConnectionState /\ (KeptInv(c) => KeptInv(d))

-----------------------------------------------------------------------------

\* Something is added at the end of a sequence of items.
LEMMA AppendData ==
    ASSUME NEW S, NEW s \in Seq(S), NEW x \in S
    PROVE  /\ x.kind = "data" => DataIn(Append(s, x)) = DataIn(s) \union {x.n}
           /\ x.kind # "data" => DataIn(Append(s, x)) = DataIn(s)
           /\ /\ InOrder(s)
              /\ x.kind = "data" => \A y \in DataIn(s) : y < x.n
              => InOrder(Append(s, x))
  <1> DEFINE k == Len(s)
             r == Append(s, x)
  <1>1. /\ DOMAIN s = 1..k /\ DOMAIN r = 1..(k + 1) /\ k \in Nat
        /\ r[k + 1] = x /\ \A i \in 1..k : r[i] = s[i]
    OBVIOUS
  <1>2. \A i \in 1..(k + 1) : i \in 1..k \/ i = k + 1  BY <1>1
  <1>3. \A i \in 1..k : i \in 1..(k + 1)  BY <1>1
  <1>4. k + 1 \in 1..(k + 1)  BY <1>1
  <1>5. \A i, j \in 1..(k + 1) : i < j => i \in 1..k  BY <1>1
  <1> HIDE DEF k, r
  <1>6. /\ x.kind = "data" => DataIn(r) = DataIn(s) \union {x.n}
        /\ x.kind # "data" => DataIn(r) = DataIn(s)
    BY <1>1, <1>2, <1>3, <1>4 DEF DataIn
  <1>7. ASSUME InOrder(s), x.kind = "data" => \A y \in DataIn(s) : y < x.n
        PROVE  InOrder(r)
    <2> SUFFICES ASSUME NEW i \in 1..(k + 1), NEW j \in 1..(k + 1), i < j,
                        r[i].kind = "data", r[j].kind = "data"
                 PROVE  r[i].n < r[j].n
      BY <1>1 DEF InOrder
    <2>1. i \in 1..k /\ r[i] = s[i]  BY <1>1, <1>5
    <2>2. CASE j \in 1..k  BY <1>1, <1>7, <2>1, <2>2 DEF InOrder
    <2>3. CASE j = k + 1
      <3>1. s[i].n \in DataIn(s)  BY <1>1, <2>1 DEF DataIn
      <3> QED  BY <1>1, <1>7, <2>1, <2>3, <3>1
    <2> QED  BY <1>2, <2>2, <2>3
  <1> QED  BY <1>6, <1>7 DEF r

\* The first of a sequence of items is taken away.
LEMMA TailData ==
    ASSUME NEW S, NEW s \in Seq(S), s # <<>>
    PROVE  /\ Head(s).kind = "data" => DataIn(s) = DataIn(Tail(s)) \union {Head(s).n}
           /\ Head(s).kind # "data" => DataIn(s) = DataIn(Tail(s))
           /\ InOrder(s) =>
                 /\ InOrder(Tail(s))
                 /\ Head(s).kind = "data" => \A y \in DataIn(Tail(s)) : Head(s).n < y
  <1> DEFINE k == Len(s)
             r == Tail(s)
             x == Head(s)
  <1>1. /\ DOMAIN s = 1..k /\ DOMAIN r = 1..(k - 1) /\ k \in Nat /\ k # 0
        /\ s[1] = x /\ \A i \in 1..(k - 1) : r[i] = s[i + 1]
    OBVIOUS
  <1>2. \A i \in 1..k : i = 1 \/ (i - 1 \in 1..(k - 1) /\ i = (i - 1) + 1)  BY <1>1
  <1>3. \A i \in 1..(k - 1) : i + 1 \in 1..k /\ 1 < i + 1  BY <1>1
  <1>4. 1 \in 1..k  BY <1>1
  <1>5. \A i, j \in 1..(k - 1) : i < j => i + 1 < j + 1  BY <1>1
  <1> HIDE DEF k, r, x
  <1>6. \A i \in 1..k : i = 1 \/ \E j \in 1..(k - 1) : s[i] = r[j]
    BY <1>1, <1>2
  <1>7. /\ x.kind = "data" => DataIn(s) = DataIn(r) \union {x.n}
        /\ x.kind # "data" => DataIn(s) = DataIn(r)
    <2>1. ASSUME NEW y \in DataIn(s) PROVE y \in DataIn(r) \/ (x.kind = "data" /\ y = x.n)
      <3>1. PICK i \in 1..k : s[i].kind = "data" /\ s[i].n = y  BY <1>1 DEF DataIn
      <3> QED  BY <1>1, <1>6, <3>1 DEF DataIn
    <2>2. ASSUME NEW y \in DataIn(r) PROVE y \in DataIn(s)
      <3>1. PICK i \in 1..(k - 1) : r[i].kind = "data" /\ r[i].n = y  BY <1>1 DEF DataIn
      <3>2. i + 1 \in 1..k /\ s[i + 1] = r[i]  BY <1>1, <1>3
      <3> QED  BY <1>1, <3>1, <3>2 DEF DataIn
    <2>3. x.kind = "data" => x.n \in DataIn(s)  BY <1>1, <1>4 DEF DataIn
    <2> QED  BY <2>1, <2>2, <2>3
  <1>8. ASSUME InOrder(s) PROVE InOrder(r)
    BY <1>1, <1>3, <1>5, <1>8 DEF InOrder
  <1>9. ASSUME InOrder(s), x.kind = "data", NEW y \in DataIn(r) PROVE x.n < y
    <2>1. PICK i \in 1..(k - 1) : r[i].kind = "data" /\ r[i].n = y
      BY <1>1 DEF DataIn
    <2> QED  BY <1>1, <1>3, <1>4, <1>9, <2>1 DEF InOrder
  <1> QED  BY <1>7, <1>8, <1>9 DEF r, x

\* write_message() passes over what prints to nothing, and over nothing else.
LEMMA SkipData ==
    ASSUME NEW q \in Queue
    PROVE  /\ DataIn(SkipEmpty(q)) = DataIn(q)
           /\ InOrder(q) => InOrder(SkipEmpty(q))
  <1> DEFINE M == Message \union {Null}
             I == {i \in 1..Len(q) : q[i].kind # "empty"}
             n == SelectInSeq(q, LAMBDA m : m.kind # "empty")
             k == Len(q)
             r == SubSeq(q, n, k)
  <1>1. q \in Seq(M)  BY DEF Queue
  <1>2. n = IF I # {} THEN Min(I) ELSE 0  BY DEF SelectInSeq
  <1>3. k \in Nat /\ DOMAIN q = 1..k
    <2> HIDE DEF M
    <2> QED  BY <1>1
  <1>4. CASE I = {}
    <2>1. n = 0 /\ SkipEmpty(q) = <<>>  BY <1>2, <1>4 DEF SkipEmpty
    <2>2. \A i \in 1..k : q[i].kind = "empty"  BY <1>4
    <2> HIDE DEF k
    <2>3. DataIn(q) = {} /\ DataIn(<<>>) = {}  BY <1>3, <2>2 DEF DataIn
    <2>4. InOrder(<<>>)  BY DEF InOrder
    <2> QED  BY <2>1, <2>3, <2>4
  <1>5. CASE I # {}
    <2>1. I \subseteq Nat  OBVIOUS
    <2>2. n \in I /\ \A y \in I : n <= y  BY <1>2, <1>5, <2>1, LeastOf
    <2>3. n \in 1..k /\ \A i \in 1..k : i < n => q[i].kind = "empty"
      BY <1>3, <2>2
    <2>4. SkipEmpty(q) = r  BY <2>3 DEF SkipEmpty
    <2> HIDE DEF n
    <2>5. DOMAIN r = 1..(k - n + 1) /\ \A i \in 1..(k - n + 1) : r[i] = q[n + i - 1]
      <3> HIDE DEF M
      <3> QED  BY <1>1, <1>3, <2>3
    <2> HIDE DEF k, r
    <2>6. \A i \in 1..(k - n + 1) : n + i - 1 \in 1..k  BY <1>3, <2>3
    <2>7. \A i \in 1..k : i < n \/ (i - n + 1 \in 1..(k - n + 1) /\ n + (i - n + 1) - 1 = i)
      BY <1>3, <2>3
    <2>8. \A i, j \in 1..(k - n + 1) : i < j => n + i - 1 < n + j - 1  BY <1>3, <2>3
    <2>9. \A i \in 1..k : q[i].kind = "data" => \E j \in 1..(k - n + 1) : r[j] = q[i]
      BY <2>3, <2>5, <2>7
    <2>10. DataIn(r) = DataIn(q)  BY <1>3, <2>5, <2>6, <2>9 DEF DataIn
    <2>11. InOrder(q) => InOrder(r)  BY <1>3, <2>5, <2>6, <2>8 DEF InOrder
    <2> QED  BY <2>4, <2>10, <2>11
  <1> QED  BY <1>4, <1>5

\* Two sequences of items, one after the other.
LEMMA ConcatData ==
    ASSUME NEW S, NEW s \in Seq(S), NEW r \in Seq(S)
    PROVE  /\ DataIn(s \o r) = DataIn(s) \union DataIn(r)
           /\ /\ InOrder(s) /\ InOrder(r)
              /\ \A x \in DataIn(s), y \in DataIn(r) : x < y
              => InOrder(s \o r)
  <1> DEFINE k == Len(s)
             l == Len(r)
             q == s \o r
  <1>1. /\ k \in Nat /\ l \in Nat
        /\ DOMAIN s = 1..k /\ DOMAIN r = 1..l /\ DOMAIN q = 1..(k + l)
        /\ \A i \in 1..k : q[i] = s[i]
        /\ \A i \in 1..(k + l) : i > k => q[i] = r[i - k]
    OBVIOUS
  <1> HIDE DEF k, l, q
  <1>2. \A i \in 1..(k + l) : i \in 1..k \/ (i > k /\ i - k \in 1..l)  BY <1>1
  <1>3. \A i \in 1..k : i \in 1..(k + l)  BY <1>1
  <1>4. \A i \in 1..l : k + i \in 1..(k + l) /\ k + i > k /\ (k + i) - k = i  BY <1>1
  <1>5. DataIn(q) = DataIn(s) \union DataIn(r)
    <2>1. ASSUME NEW y \in DataIn(q) PROVE y \in DataIn(s) \union DataIn(r)
      <3>1. PICK i \in 1..(k + l) : q[i].kind = "data" /\ q[i].n = y  BY <1>1 DEF DataIn
      <3> QED  BY <1>1, <1>2, <3>1 DEF DataIn
    <2>2. ASSUME NEW y \in DataIn(s) PROVE y \in DataIn(q)
      BY <1>1, <1>3 DEF DataIn
    <2>3. ASSUME NEW y \in DataIn(r) PROVE y \in DataIn(q)
      <3>1. PICK i \in 1..l : r[i].kind = "data" /\ r[i].n = y  BY <1>1 DEF DataIn
      <3>2. q[k + i] = r[i] /\ k + i \in 1..(k + l)  BY <1>1, <1>4
      <3> QED  BY <1>1, <3>1, <3>2 DEF DataIn
    <2> QED  BY <2>1, <2>2, <2>3
  <1>6. ASSUME InOrder(s), InOrder(r), \A x \in DataIn(s), y \in DataIn(r) : x < y
        PROVE  InOrder(q)
    <2> SUFFICES ASSUME NEW i \in 1..(k + l), NEW j \in 1..(k + l), i < j,
                        q[i].kind = "data", q[j].kind = "data"
                 PROVE  q[i].n < q[j].n
      BY <1>1 DEF InOrder
    <2>1. CASE i \in 1..k /\ j \in 1..k  BY <1>1, <1>6, <2>1 DEF InOrder
    <2>2. CASE i \in 1..k /\ j > k /\ j - k \in 1..l
      <3>1. s[i].n \in DataIn(s) /\ r[j - k].n \in DataIn(r)  BY <1>1, <2>2 DEF DataIn
      <3> QED  BY <1>1, <1>6, <2>2, <3>1
    <2>3. CASE i > k /\ i - k \in 1..l /\ j > k /\ j - k \in 1..l
      <3>1. i - k < j - k  BY <1>1
      <3>2. q[i] = r[i - k] /\ q[j] = r[j - k]  BY <1>1, <2>3
      <3> QED  BY <1>1, <1>6, <2>3, <3>1, <3>2 DEF InOrder
    <2>4. ~(i > k /\ j \in 1..k)  BY <1>1
    <2> QED  BY <1>2, <2>1, <2>2, <2>3, <2>4
  <1> QED  BY <1>5, <1>6 DEF q

\* A write is started, or the first one is over.
LEMMA InFlightLemma ==
    ASSUME NEW c, NEW d,
           c.writes \in Writes
    PROVE  /\ InFlight(c) \in Seq(Item)
           /\ d.writes = c.writes => InFlight(d) = InFlight(c)
           /\ \A w \in [h : WriteHandlers, item : Item] :
                 d.writes = Append(c.writes, w) => InFlight(d) = Append(InFlight(c), w.item)
           /\ c.writes # <<>> =>
                 /\ InFlight(c) # <<>> /\ Head(InFlight(c)) = Head(c.writes).item
                 /\ d.writes = Tail(c.writes) => InFlight(d) = Tail(InFlight(c))
  <1> DEFINE W == [h : WriteHandlers, item : Item]
             s == c.writes
             k == Len(s)
             f == InFlight(c)
  <1>1. s \in Seq(W)  BY DEF Writes
  <1>2. \A w \in W : w.item \in Item  OBVIOUS
  <1> HIDE DEF W
  <1>3. k \in Nat /\ DOMAIN s = 1..k /\ \A i \in 1..k : s[i] \in W  BY <1>1
  <1>4. f = [i \in 1..k |-> s[i].item]  BY <1>3 DEF InFlight
  <1> HIDE DEF s, f, k
  <1>5. f \in Seq(Item) /\ Len(f) = k /\ DOMAIN f = 1..k  BY <1>2, <1>3, <1>4
  <1>6. ASSUME NEW w \in W, d.writes = Append(s, w)
        PROVE  InFlight(d) = Append(f, w.item)
    <2>1. /\ DOMAIN Append(s, w) = 1..(k + 1) /\ Append(s, w)[k + 1] = w
          /\ \A i \in 1..k : Append(s, w)[i] = s[i]
      BY <1>1, <1>6 DEF k
    <2>2. /\ DOMAIN Append(f, w.item) = 1..(k + 1) /\ Append(f, w.item)[k + 1] = w.item
          /\ \A i \in 1..k : Append(f, w.item)[i] = f[i]
          /\ Append(f, w.item) \in Seq(Item)
      BY <1>2, <1>5
    <2>3. \A i \in 1..(k + 1) : i \in 1..k \/ i = k + 1  BY <1>3
    <2> DEFINE e == [i \in 1..(k + 1) |-> Append(s, w)[i].item]
    <2>4. InFlight(d) = e  BY <1>6, <2>1 DEF InFlight
    <2>5. \A i \in 1..(k + 1) : e[i] = Append(f, w.item)[i]
      BY <1>4, <2>1, <2>2, <2>3
    <2>6. Append(f, w.item) = [i \in 1..(k + 1) |-> Append(f, w.item)[i]]
      <3> DEFINE a == Append(f, w.item)
      <3>1. DOMAIN a = 1..(k + 1) /\ a \in Seq(Item)  BY <2>2
      <3> HIDE DEF a
      <3>2. a \in [DOMAIN a -> Item]  BY <3>1, LenProperties
      <3> QED  BY <3>1, <3>2 DEF a
    <2> QED  BY <2>4, <2>5, <2>6
  <1>7. ASSUME s # <<>>
        PROVE  /\ f # <<>> /\ Head(f) = Head(s).item
               /\ d.writes = Tail(s) => InFlight(d) = Tail(f)
    <2>1. k # 0 /\ 1 \in 1..k /\ Head(s) = s[1]  BY <1>1, <1>7 DEF k
    <2>2. f # <<>> /\ Head(f) = Head(s).item  BY <1>4, <1>5, <2>1
    <2>3. /\ DOMAIN Tail(s) = 1..(k - 1)
          /\ \A i \in 1..(k - 1) : Tail(s)[i] = s[i + 1] /\ i + 1 \in 1..k
      BY <1>1, <1>3, <1>7 DEF k
    <2>4. /\ DOMAIN Tail(f) = 1..(k - 1) /\ Tail(f) \in Seq(Item)
          /\ \A i \in 1..(k - 1) : Tail(f)[i] = f[i + 1]
      BY <1>5, <2>2
    <2> DEFINE e == [i \in 1..(k - 1) |-> Tail(s)[i].item]
    <2>5. ASSUME d.writes = Tail(s) PROVE InFlight(d) = e
      BY <2>3, <2>5 DEF InFlight
    <2>6. \A i \in 1..(k - 1) : e[i] = Tail(f)[i]  BY <1>4, <2>3, <2>4
    <2>7. Tail(f) = [i \in 1..(k - 1) |-> Tail(f)[i]]
      <3> DEFINE a == Tail(f)
      <3>1. DOMAIN a = 1..(k - 1) /\ a \in Seq(Item)  BY <2>4
      <3> HIDE DEF a
      <3>2. a \in [DOMAIN a -> Item]  BY <3>1, LenProperties
      <3> QED  BY <3>1, <3>2 DEF a
    <2> QED  BY <2>2, <2>5, <2>6, <2>7
  <1>8. d.writes = s => InFlight(d) = f  BY DEF InFlight, f, s
  <1> QED  BY <1>5, <1>6, <1>7, <1>8 DEF s, f, W


\* Kept is about five fields.
LEMMA KeptLike ==
    ASSUME NEW c \in ConnectionState, NEW d,
           d.wire = c.wire, d.writes = c.writes, d.messages = c.messages,
           d.accepted = c.accepted, d.sent = c.sent
    PROVE  Kept(d) <=> Kept(c)
  <1>1. c.writes \in Writes  BY DEF ConnectionState
  <1>2. InFlight(d) = InFlight(c)  BY <1>1, InFlightLemma
  <1> QED  BY <1>2 DEF Kept

\* What leaves those fields and the run queue alone loses nothing.
LEMMA LikeHolds ==
    ASSUME NEW c \in ConnectionState, NEW d \in ConnectionState,
           d.wire = c.wire, d.writes = c.writes, d.messages = c.messages,
           d.accepted = c.accepted, d.sent = c.sent,
           d.open => c.open, d.ready = c.ready
    PROVE  Holds(c, d)
  <1>1. Kept(d) <=> Kept(c)  BY KeptLike
  <1> QED  BY <1>1 DEF Holds, KeptInv, Sound

\* Nothing is promised of a closed connection.
LEMMA ClosedHolds ==
    ASSUME NEW c, NEW d \in ConnectionState, ~d.open
    PROVE  Holds(c, d)
  BY DEF Holds, KeptInv, Sound

\* One method after another.
LEMMA HoldsAfter ==
    ASSUME NEW c, NEW d, NEW e, Holds(c, d), Holds(d, e)
    PROVE  Holds(c, e)
  BY DEF Holds

\* cancel(), the timer, and cleanup().
LEMMA CancelHolds ==
    ASSUME NEW c \in ConnectionState
    PROVE  /\ Holds(c, Cancel(c)) /\ Holds(c, Cleanup(c))
           /\ \A h \in TimerHandlers : Holds(c, Arm(c, h))
  <1>1. Holds(c, Cancel(c)) /\ Cancel(c) \in ConnectionState
    <2> DEFINE d == Cancel(c)
    <2>1. d \in ConnectionState  BY CancelLemma DEF Same
    <2>2. /\ d.wire = c.wire /\ d.writes = c.writes /\ d.messages = c.messages
          /\ d.accepted = c.accepted /\ d.sent = c.sent /\ d.open = c.open
          /\ d.ready = c.ready
      BY DEF Cancel, ConnectionState
    <2> HIDE DEF d
    <2>3. Holds(c, d)  BY <2>1, <2>2, LikeHolds
    <2> QED  BY <2>1, <2>3 DEF d
  <1>2. Holds(c, Cleanup(c))  BY CleanupQuiet, ClosedHolds DEF Quiet
  <1>3. ASSUME NEW h \in TimerHandlers PROVE Holds(c, Arm(c, h))
    <2> DEFINE o == Cancel(c)
               d == Arm(c, h)
    <2>1. d \in ConnectionState  BY ArmLemma DEF Same
    <2>2. d = [o EXCEPT !.timer = h]  BY DEF Arm
    <2> HIDE DEF o, d
    <2>3. o \in ConnectionState  BY <1>1 DEF o
    <2>4. /\ d.wire = o.wire /\ d.writes = o.writes /\ d.messages = o.messages
          /\ d.accepted = o.accepted /\ d.sent = o.sent /\ d.open = o.open
          /\ d.ready = o.ready
      BY <2>2, <2>3 DEF ConnectionState
    <2>5. Holds(o, d)  BY <2>1, <2>3, <2>4, LikeHolds
    <2> QED  BY <1>1, <2>5, HoldsAfter DEF o, d
  <1> QED  BY <1>1, <1>2, <1>3

\* An operation on a closed socket.
LEMMA FailHolds ==
    ASSUME NEW c \in ConnectionState, NEW h \in Handlers, ~c.open
    PROVE  Holds(c, Complete(c, h, FALSE))
  <1> DEFINE d == Complete(c, h, FALSE)
  <1>1. d \in ConnectionState  BY CompleteLemma DEF Same
  <1>2. d.open = c.open  BY DEF Complete, ConnectionState
  <1> HIDE DEF d
  <1>3. Holds(c, d)  BY <1>1, <1>2, ClosedHolds
  <1> QED  BY <1>3 DEF d

\* async_read, on an open socket or a closed one.
LEMMA AsyncReadHolds ==
    ASSUME NEW c \in ConnectionState, NEW h \in ReadHandlers
    PROVE  Holds(c, AsyncRead(c, h))
  <1>1. CASE c.open
    <2> DEFINE d == [c EXCEPT !.read = h]
    <2>1. AsyncRead(c, h) = d  BY <1>1 DEF AsyncRead
    <2>2. h \in Read  BY DEF Read
    <2>3. /\ d \in ConnectionState
          /\ d.wire = c.wire /\ d.writes = c.writes /\ d.messages = c.messages
          /\ d.accepted = c.accepted /\ d.sent = c.sent /\ d.open = c.open
          /\ d.ready = c.ready
      BY <2>2 DEF ConnectionState
    <2> HIDE DEF d
    <2>4. Holds(c, d)  BY <2>3, LikeHolds
    <2> QED  BY <2>1, <2>4
  <1>2. CASE ~c.open
    <2>1. h \in Handlers  BY DEF Handlers
    <2> QED  BY <1>2, <2>1, FailHolds DEF AsyncRead
  <1> QED  BY <1>1, <1>2

\* A write of something that is not a message.
LEMMA AsyncWriteHolds ==
    ASSUME NEW c \in ConnectionState, NEW h \in WriteHandlers, NEW item \in Item,
           item.kind # "data"
    PROVE  Holds(c, AsyncWrite(c, h, item))
  <1>1. CASE c.open
    <2> DEFINE w == [h |-> h, item |-> item]
               d == AsyncWrite(c, h, item)
               W == [h : WriteHandlers, item : Item]
    <2>1. d = [c EXCEPT !.writes = Append(c.writes, w)]  BY <1>1 DEF AsyncWrite
    <2>2. w \in W /\ w.item = item  OBVIOUS
    <2>3. d \in ConnectionState  BY AsyncWriteLemma DEF Same
    <2> HIDE DEF d, w, W
    <2>4. /\ d.wire = c.wire /\ d.messages = c.messages /\ d.open = c.open
          /\ d.accepted = c.accepted /\ d.sent = c.sent /\ d.ready = c.ready
          /\ d.writes = Append(c.writes, w) /\ c.writes \in Writes
      BY <2>1 DEF ConnectionState
    <2>5. InFlight(d) = Append(InFlight(c), item) /\ InFlight(c) \in Seq(Item)
      BY <2>2, <2>4, InFlightLemma DEF W
    <2>6. DataIn(InFlight(d)) = DataIn(InFlight(c)) /\ (InOrder(InFlight(c)) => InOrder(InFlight(d)))
      BY <2>5, AppendData
    <2>7. Kept(c) => Kept(d)  BY <2>4, <2>6 DEF Kept
    <2> QED  BY <2>3, <2>4, <2>7 DEF Holds, KeptInv, Sound, d
  <1>2. CASE ~c.open
    <2>1. h \in Handlers  BY DEF Handlers
    <2> QED  BY <1>2, <2>1, FailHolds DEF AsyncWrite
  <1> QED  BY <1>1, <1>2

\* The write of an answer, with the timer it arms.
LEMMA WriteOutHolds ==
    ASSUME NEW c \in ConnectionState, NEW h \in WriteHandlers, NEW item \in Item,
           item.kind # "data"
    PROVE  Holds(c, WriteOut(c, h, item))
  <1> DEFINE d == AsyncWrite(c, h, item)
  <1>1. Holds(c, d)  BY AsyncWriteHolds
  <1>2. Holds(d, Arm(d, "timeout"))
    BY <1>1, CancelHolds DEF Holds, TimerHandlers
  <1> QED  BY <1>1, <1>2, HoldsAfter DEF WriteOut, SetupTimeout


\* Fields that say nothing of messages.
LEMMA FlagHolds ==
    ASSUME NEW c \in ConnectionState, NEW b \in BOOLEAN, NEW tr \in Transport
    PROVE  /\ Holds(c, [c EXCEPT !.writing = b])
           /\ Holds(c, [c EXCEPT !.connected = b])
           /\ Holds(c, [c EXCEPT !.is_policy = b])
           /\ Holds(c, [c EXCEPT !.invoked = b])
           /\ Holds(c, [c EXCEPT !.managed = b])
           /\ Holds(c, [c EXCEPT !.transport = tr])
           /\ Holds(c, [c EXCEPT !.transport = tr, !.invoked = b])
  <1> DEFINE Only(d) == /\ d \in ConnectionState
                        /\ d.wire = c.wire /\ d.writes = c.writes /\ d.messages = c.messages
                        /\ d.accepted = c.accepted /\ d.sent = c.sent /\ d.open = c.open
                        /\ d.ready = c.ready
  <1>1. ASSUME NEW d, Only(d) PROVE Holds(c, d)  BY <1>1, LikeHolds
  <1>2. Only([c EXCEPT !.writing = b])  BY ZenonT(60) DEF ConnectionState
  <1>3. Only([c EXCEPT !.connected = b])  BY ZenonT(60) DEF ConnectionState
  <1>4. Only([c EXCEPT !.is_policy = b])  BY ZenonT(60) DEF ConnectionState
  <1>5. Only([c EXCEPT !.invoked = b])  BY ZenonT(60) DEF ConnectionState
  <1>6. Only([c EXCEPT !.managed = b])  BY ZenonT(60) DEF ConnectionState
  <1>7. Only([c EXCEPT !.transport = tr])  BY ZenonT(60) DEF ConnectionState
  <1>8. Only([c EXCEPT !.transport = tr, !.invoked = b])  BY ZenonT(60) DEF ConnectionState
  <1> HIDE DEF Only
  <1> QED  BY <1>1, <1>2, <1>3, <1>4, <1>5, <1>6, <1>7, <1>8

\* The methods that write an answer of the server's own.
LEMMA AnswerHolds ==
    ASSUME NEW c \in ConnectionState
    PROVE  /\ Holds(c, WriteLastMessage(c)) /\ Holds(c, WritePingMessage(c))
           /\ Holds(c, WriteStaticContent(c)) /\ Holds(c, WritePolicyData(c))
           /\ Holds(c, WriteHttpError(c)) /\ Holds(c, WriteHeaders(c))
  <1> DEFINE Own == {"headers", "ping", "last", "error", "static", "policy"}
  <1>1. ASSUME NEW e \in ConnectionState, NEW k \in Own, NEW h \in WriteHandlers
        PROVE  Holds(e, WriteOut(e, h, Fixed(k)))
    <2>1. Fixed(k) \in Item /\ Fixed(k).kind # "data"  BY FixedItems DEF Fixed
    <2> QED  BY <2>1, WriteOutHolds
  <1>2. ASSUME NEW k \in Own, NEW h \in WriteHandlers
        PROVE  Holds(c, WriteOut([c EXCEPT !.writing = TRUE], h, Fixed(k)))
    <2> DEFINE d == [c EXCEPT !.writing = TRUE]
    <2>1. "http" \in Transport  BY DEF Transport
    <2>2. Holds(c, d)  BY <2>1, FlagHolds
    <2>3. d \in ConnectionState  BY <2>2 DEF Holds
    <2> HIDE DEF d
    <2>4. Holds(d, WriteOut(d, h, Fixed(k)))  BY <1>1, <2>3
    <2>5. Holds(c, WriteOut(d, h, Fixed(k)))  BY <2>2, <2>4, HoldsAfter
    <2> QED  BY <2>5 DEF d
  <1>3. Holds(c, Cleanup(c))  BY CancelHolds
  <1>4. Holds(c, WriteLastMessage(c))  BY <1>2, <1>3 DEF WriteLastMessage, WriteHandlers
  <1>5. Holds(c, WritePingMessage(c))  BY <1>2 DEF WritePingMessage, WriteHandlers
  <1>6. Holds(c, WriteStaticContent(c))  BY <1>2, <1>3 DEF WriteStaticContent, WriteHandlers
  <1>7. Holds(c, WritePolicyData(c))  BY <1>2, <1>3 DEF WritePolicyData, WriteHandlers
  <1>8. Holds(c, WriteHttpError(c))  BY <1>1, <1>3 DEF WriteHttpError, WriteHandlers
  <1>9. Holds(c, WriteHeaders(c))  BY <1>1, <1>3 DEF WriteHeaders, WriteHandlers
  <1> QED  BY <1>4, <1>5, <1>6, <1>7, <1>8, <1>9

\* The timers of an idle client.
LEMMA IdleHolds ==
    ASSUME NEW c \in ConnectionState, NEW left
    PROVE  /\ Holds(c, SetupPingOrInactiveTimeout(c, left))
           /\ Holds(c, SetupInactiveTimeout(c))
  <1>1. ASSUME NEW l PROVE Holds(c, SetupPingOrInactiveTimeout(c, l))
    <2>1. Holds(c, Arm(c, "ping")) /\ Holds(c, Arm(c, "inactive"))
      BY CancelHolds DEF TimerHandlers
    <2>2. Holds(c, WriteLastMessage(c))  BY AnswerHolds
    <2> QED  BY <2>1, <2>2 DEF SetupPingOrInactiveTimeout
  <1> QED  BY <1>1 DEF SetupInactiveTimeout

\* The first message of the queue is taken and written.
LEMMA TakenHolds ==
    ASSUME NEW c \in ConnectionState, c.messages # <<>>, Head(c.messages).kind # "null"
    PROVE  LET d == [c EXCEPT !.messages = Tail(c.messages), !.writing = TRUE]
           IN  Holds(c, WriteOut(d, "write_message", Head(c.messages)))
  <1> DEFINE M == Message \union {Null}
             m == Head(c.messages)
             d == [c EXCEPT !.messages = Tail(c.messages), !.writing = TRUE]
             e == AsyncWrite(d, "write_message", m)
  <1>1. c.messages \in Seq(M)  BY DEF ConnectionState, Queue
  <1>2. m \in M /\ Tail(c.messages) \in Seq(M)
    <2> HIDE DEF M
    <2> QED  BY <1>1
  <1>3. m \in Item /\ Tail(c.messages) \in Queue /\ "write_message" \in WriteHandlers
    BY <1>2 DEF Null, Fixed, Item, Queue, WriteHandlers
  <1> HIDE DEF m
  <1>4. /\ d \in ConnectionState
        /\ d.wire = c.wire /\ d.writes = c.writes /\ d.messages = Tail(c.messages)
        /\ d.accepted = c.accepted /\ d.sent = c.sent /\ d.open = c.open
        /\ d.ready = c.ready
    BY <1>3, ZenonT(60) DEF ConnectionState
  <1> HIDE DEF d
  <1>5. e \in ConnectionState  BY <1>3, <1>4, AsyncWriteLemma DEF Same
  <1>6. Holds(c, e)
    <2>1. CASE ~d.open
      <3>1. e.open = d.open  BY <1>3, <1>4, AsyncWriteLemma DEF Same
      <3> QED  BY <1>5, <2>1, <3>1, ClosedHolds
    <2>2. CASE d.open
      <3> DEFINE w == [h |-> "write_message", item |-> m]
                 W == [h : WriteHandlers, item : Item]
      <3>1. e = [d EXCEPT !.writes = Append(d.writes, w)]  BY <2>2 DEF AsyncWrite
      <3>2. w \in W /\ w.item = m  BY <1>3
      <3> HIDE DEF e, w, W
      <3>3. /\ e.wire = c.wire /\ e.messages = Tail(c.messages) /\ e.open = c.open
            /\ e.accepted = c.accepted /\ e.sent = c.sent /\ e.ready = c.ready
            /\ e.writes = Append(c.writes, w)
        BY <1>4, <3>1 DEF ConnectionState
      <3>4. InFlight(e) = Append(InFlight(c), m) /\ InFlight(c) \in Seq(Item)
        <4>1. c.writes \in Writes  BY DEF ConnectionState
        <4> QED  BY <3>2, <3>3, <4>1, InFlightLemma DEF W
      <3>5. ASSUME Kept(c) PROVE Kept(e)
        <4> DEFINE s == c.messages
        <4>1. s \in Seq(M) /\ s # <<>> /\ m = Head(s)  BY <1>1 DEF m
        <4> HIDE DEF M, s
        <4>2. /\ m.kind = "data" => DataIn(s) = DataIn(Tail(s)) \union {m.n}
              /\ m.kind # "data" => DataIn(s) = DataIn(Tail(s))
              /\ InOrder(s) =>
                 /\ InOrder(Tail(s))
                 /\ m.kind = "data" => \A y \in DataIn(Tail(s)) : m.n < y
          BY <4>1, TailData
        <4>3. /\ m.kind = "data" => DataIn(InFlight(e)) = DataIn(InFlight(c)) \union {m.n}
              /\ m.kind # "data" => DataIn(InFlight(e)) = DataIn(InFlight(c))
              /\ /\ InOrder(InFlight(c))
                 /\ m.kind = "data" => \A y \in DataIn(InFlight(c)) : y < m.n
                 => InOrder(InFlight(e))
          BY <1>3, <3>4, AppendData
        <4>4. /\ InOrder(c.wire) /\ InOrder(InFlight(c)) /\ InOrder(s)
              /\ \A x \in DataIn(c.wire), y \in DataIn(InFlight(c)) \union DataIn(s) : x < y
              /\ \A x \in DataIn(InFlight(c)), y \in DataIn(s) : x < y
              /\ DataIn(c.wire) \union DataIn(InFlight(c)) \union DataIn(s) = c.accepted
              /\ \A x \in c.accepted : x <= c.sent
          BY <3>5 DEF Kept, s
        <4>5. InOrder(InFlight(e)) /\ InOrder(Tail(s))  BY <4>2, <4>3, <4>4
        <4>6. DataIn(InFlight(e)) \union DataIn(Tail(s)) = DataIn(InFlight(c)) \union DataIn(s)
          BY <4>2, <4>3
        <4>7. \A x \in DataIn(InFlight(e)), y \in DataIn(Tail(s)) : x < y
          BY <4>2, <4>3, <4>4
        <4>8. e.messages = Tail(s)  BY <3>3 DEF s
        <4> QED  BY <3>3, <4>4, <4>5, <4>6, <4>7, <4>8 DEF Kept
      <3> QED  BY <1>5, <3>3, <3>5 DEF Holds, KeptInv, Sound
    <2> QED  BY <2>1, <2>2
  <1> HIDE DEF e
  <1>7. Holds(e, Arm(e, "timeout"))  BY <1>5, CancelHolds DEF TimerHandlers
  <1>8. Holds(c, Arm(e, "timeout"))  BY <1>6, <1>7, HoldsAfter
  <1> QED  BY <1>8 DEF WriteOut, SetupTimeout, e, d, m


\* write_message().
LEMMA WriteMessageHolds ==
    ASSUME NEW c \in ConnectionState
    PROVE  Holds(c, WriteMessage(c))
  <1> DEFINE q    == SkipEmpty(c.messages)
             o    == Cancel(c)
             left == [o EXCEPT !.messages = q]
  <1>1. c.messages \in Queue  BY DEF ConnectionState
  <1>2. q \in Queue  BY <1>1, SkipEmptyLemma
  <1>3. DataIn(q) = DataIn(c.messages) /\ (InOrder(c.messages) => InOrder(q))
    BY <1>1, SkipData
  <1>4. Holds(c, o) /\ o \in ConnectionState /\ o.messages = c.messages
    BY CancelHolds, CancelLemma DEF Holds
  <1>5. WriteMessage(c) =
          CASE ~c.connected            -> c
            [] c.connected /\ q = <<>> -> SetupInactiveTimeout(left)
            [] c.connected /\ q # <<>> ->
                CASE Head(q).kind = "null" -> WriteLastMessage(left)
                  [] Head(q).kind = "bad"  -> Cleanup(left)
                  [] OTHER -> WriteOut([left EXCEPT !.messages = Tail(q), !.writing = TRUE],
                                       "write_message", Head(q))
    BY DEF WriteMessage
  <1> HIDE DEF q, o
  <1>6. /\ left \in ConnectionState /\ left.messages = q
        /\ left.wire = o.wire /\ left.writes = o.writes
        /\ left.accepted = o.accepted /\ left.sent = o.sent /\ left.open = o.open
        /\ left.ready = o.ready
    BY <1>2, <1>4 DEF ConnectionState
  <1> HIDE DEF left
  <1>7. Kept(o) => Kept(left)
    <2>1. o.writes \in Writes  BY <1>4 DEF ConnectionState
    <2>2. InFlight(left) = InFlight(o)  BY <1>6, <2>1, InFlightLemma
    <2> QED  BY <1>3, <1>4, <1>6, <2>2 DEF Kept
  <1>8. Holds(c, left)
    <2>1. Holds(o, left)  BY <1>6, <1>7 DEF Holds, KeptInv, Sound
    <2> QED  BY <1>4, <2>1, HoldsAfter
  <1>9. Holds(c, c)  BY DEF Holds
  <1>10. Holds(c, SetupInactiveTimeout(left))  BY <1>6, <1>8, IdleHolds, HoldsAfter
  <1>11. Holds(c, WriteLastMessage(left))  BY <1>6, <1>8, AnswerHolds, HoldsAfter
  <1>12. Holds(c, Cleanup(left))  BY <1>6, <1>8, CancelHolds, HoldsAfter
  <1>13. ASSUME q # <<>>, Head(q).kind # "null"
         PROVE  Holds(c, WriteOut([left EXCEPT !.messages = Tail(q), !.writing = TRUE],
                                  "write_message", Head(q)))
    <2>1. LET d == [left EXCEPT !.messages = Tail(left.messages), !.writing = TRUE]
          IN  Holds(left, WriteOut(d, "write_message", Head(left.messages)))
      BY <1>6, <1>13, TakenHolds
    <2>2. Holds(left, WriteOut([left EXCEPT !.messages = Tail(q), !.writing = TRUE],
                               "write_message", Head(q)))
      BY <1>6, <2>1
    <2> QED  BY <1>8, <2>2, HoldsAfter
  <1>14. c.connected \in BOOLEAN  BY DEF ConnectionState
  <1> QED  BY <1>5, <1>9, <1>10, <1>11, <1>12, <1>13, <1>14

\* The reads.
LEMMA ReadHolds ==
    ASSUME NEW c \in ConnectionState
    PROVE  Holds(c, ReadRequest(c)) /\ Holds(c, ReadSome(c)) /\ Holds(c, Handshake(c))
  <1>1. ASSUME NEW h \in ReadHandlers PROVE Holds(c, SetupTimeout(AsyncRead(c, h)))
    <2> DEFINE d == AsyncRead(c, h)
    <2>1. Holds(c, d)  BY AsyncReadHolds
    <2>2. d \in ConnectionState  BY <2>1 DEF Holds
    <2> HIDE DEF d
    <2>3. Holds(d, Arm(d, "timeout"))  BY <2>2, CancelHolds DEF TimerHandlers
    <2>4. Holds(c, Arm(d, "timeout"))  BY <2>1, <2>3, HoldsAfter
    <2> QED  BY <2>4 DEF SetupTimeout, d
  <1>2. Holds(c, ReadSome(c))  BY AsyncReadHolds DEF ReadSome, ReadHandlers
  <1>3. Holds(c, ReadRequest(c))  BY <1>1 DEF ReadRequest, ReadHandlers
  <1>4. Holds(c, Handshake(c))  BY <1>1, <1>3 DEF Handshake, ReadHandlers
  <1> QED  BY <1>2, <1>3, <1>4

\* handled() and handled_errors().
LEMMA HandledHolds ==
    ASSUME NEW c \in ConnectionState, NEW answer
    PROVE  Holds(c, Handled(c, answer))
  <1> DEFINE o     == Cancel(c)
             off   == [o EXCEPT !.invoked = FALSE]
             one   == (answer = "named_single")
             mute  == PingInterval < MINIMAL_PING_INTERVAL \/ ~PingText
             named == [off EXCEPT !.single = one, !.disable_ping = mute]
             mgd   == [InsertConnection(named) EXCEPT !.managed = TRUE]
  <1>1. Handled(c, answer) =
          CASE answer = "content"    -> WriteStaticContent(off)
            [] answer = "http_error" -> WriteHttpError(off)
            [] answer = "exception"  -> Cleanup(off)
            [] OTHER -> IF named.finished \/ named.registered
                        THEN Cleanup(named)
                        ELSE WriteHeaders(mgd)
    BY DEF Handled
  <1>2. one \in BOOLEAN /\ mute \in BOOLEAN
    <2>1. one \in BOOLEAN  OBVIOUS
    <2>2. mute \in BOOLEAN  OBVIOUS
    <2> QED  BY <2>1, <2>2
  <1>3. Holds(c, o) /\ o \in ConnectionState  BY CancelHolds DEF Holds
  <1> HIDE DEF o
  <1>4. "http" \in Transport  BY DEF Transport
  <1>5. Holds(c, off) /\ off \in ConnectionState
    <2>1. Holds(o, off)  BY <1>3, <1>4, FlagHolds
    <2> QED  BY <1>3, <2>1, HoldsAfter DEF Holds
  <1> HIDE DEF off, one, mute
  <1>6. Holds(c, named) /\ named \in ConnectionState
    <2>1. /\ named \in ConnectionState
          /\ named.wire = off.wire /\ named.writes = off.writes /\ named.messages = off.messages
          /\ named.accepted = off.accepted /\ named.sent = off.sent /\ named.open = off.open
          /\ named.ready = off.ready
      BY <1>2, <1>5, ZenonT(60) DEF ConnectionState
    <2> HIDE DEF named
    <2>2. Holds(off, named)  BY <1>5, <2>1, LikeHolds
    <2> QED  BY <1>5, <2>1, <2>2, HoldsAfter
  <1> HIDE DEF named
  <1>7. Holds(c, mgd) /\ mgd \in ConnectionState
    <2>1. mgd = [named EXCEPT !.registered = TRUE, !.opened = named.opened + 1, !.managed = TRUE]
      BY <1>6 DEF InsertConnection, ConnectionState
    <2>2. named.opened + 1 \in Nat  BY <1>6 DEF ConnectionState
    <2> HIDE DEF mgd
    <2>3. /\ mgd \in ConnectionState
          /\ mgd.wire = named.wire /\ mgd.writes = named.writes /\ mgd.messages = named.messages
          /\ mgd.accepted = named.accepted /\ mgd.sent = named.sent /\ mgd.open = named.open
          /\ mgd.ready = named.ready
      BY <1>6, <2>1, <2>2, ZenonT(60) DEF ConnectionState
    <2>4. Holds(named, mgd)  BY <1>6, <2>3, LikeHolds
    <2> QED  BY <1>6, <2>3, <2>4, HoldsAfter
  <1> HIDE DEF mgd
  <1>8. Holds(c, WriteStaticContent(off)) /\ Holds(c, WriteHttpError(off))
    BY <1>5, AnswerHolds, HoldsAfter
  <1>9. Holds(c, Cleanup(off)) /\ Holds(c, Cleanup(named))
    BY <1>5, <1>6, CancelHolds, HoldsAfter
  <1>10. Holds(c, WriteHeaders(mgd))  BY <1>7, AnswerHolds, HoldsAfter
  <1> QED  BY <1>1, <1>8, <1>9, <1>10


\* The handlers: one that is told of a failure closes the socket.
LEMMA HandlersKeep ==
    ASSUME NEW c \in ConnectionState, NEW ok \in BOOLEAN, ok => KeptInv(c),
           NEW request \in Requests, NEW transport \in Transport, NEW answer, NEW left
    PROVE  /\ KeptInv(HandleHandshake(c, ok)) /\ KeptInv(HandleReadSome(c, ok))
           /\ KeptInv(HandleReadRequest(c, ok, request, transport, answer))
           /\ KeptInv(HandleWriteHeaders(c, ok)) /\ KeptInv(HandleWriteMessage(c, ok))
           /\ KeptInv(HandleWritePingMessage(c, ok, left))
  <1> DEFINE off == Cancel(c)
             pol == [off EXCEPT !.is_policy = TRUE]
             inv == [off EXCEPT !.transport = transport, !.invoked = TRUE]
             ws  == [off EXCEPT !.transport = transport]
             on  == [off EXCEPT !.connected = TRUE]
             end == [off EXCEPT !.writing = FALSE]
  <1>1. Holds(c, off) /\ off \in ConnectionState  BY CancelHolds DEF Holds
  <1> HIDE DEF off
  <1>2. /\ Holds(off, pol) /\ Holds(off, inv) /\ Holds(off, ws)
        /\ Holds(off, on) /\ Holds(off, end)
    BY <1>1, FlagHolds
  <1> HIDE DEF pol, inv, ws, on, end
  <1>3. /\ pol \in ConnectionState /\ inv \in ConnectionState /\ ws \in ConnectionState
        /\ on \in ConnectionState /\ end \in ConnectionState
    BY <1>2 DEF Holds
  <1>4. \A e \in ConnectionState : KeptInv(Cleanup(e))
    BY CleanupQuiet DEF KeptInv, Sound
  <1>5. ASSUME ok
        PROVE  /\ KeptInv(off) /\ KeptInv(pol) /\ KeptInv(inv) /\ KeptInv(ws)
               /\ KeptInv(on) /\ KeptInv(end)
    BY <1>1, <1>2, <1>5 DEF Holds
  <1>6. KeptInv(HandleHandshake(c, ok)) /\ KeptInv(HandleReadSome(c, ok))
    <2>1. ok => KeptInv(ReadRequest(off)) /\ KeptInv(ReadSome(off))
      BY <1>1, <1>5, ReadHolds DEF Holds
    <2> QED  BY <1>1, <1>4, <2>1 DEF HandleHandshake, HandleReadSome, off
  <1>7. KeptInv(HandleReadRequest(c, ok, request, transport, answer))
    <2>1. HandleReadRequest(c, ok, request, transport, answer) =
           IF ~ok THEN Cleanup(off)
           ELSE CASE request = "exception"  -> Cleanup(off)
                  [] request = "http_error" -> WriteHttpError(off)
                  [] request = "policy"     -> WritePolicyData(pol)
                  [] request = "request"    -> IF Threaded THEN inv ELSE Handled(ws, answer)
      BY DEF HandleReadRequest, off, pol, inv, ws
    <2>2. ok => KeptInv(WriteHttpError(off)) /\ KeptInv(WritePolicyData(pol))
      BY <1>1, <1>3, <1>5, AnswerHolds DEF Holds
    <2>3. ok => KeptInv(Handled(ws, answer))  BY <1>3, <1>5, HandledHolds DEF Holds
    <2> QED  BY <1>1, <1>4, <1>5, <2>1, <2>2, <2>3 DEF Requests
  <1>8. KeptInv(HandleWriteHeaders(c, ok))
    <2>1. HandleWriteHeaders(c, ok) = CASE ~ok           -> Cleanup(off)
                                        [] ok /\ c.open  -> WriteMessage(ReadSome(on))
                                        [] ok /\ ~c.open -> off
      BY DEF HandleWriteHeaders, off, on
    <2> DEFINE r == ReadSome(on)
    <2>2. Holds(on, r)  BY <1>3, ReadHolds
    <2>3. r \in ConnectionState  BY <2>2 DEF Holds
    <2> HIDE DEF r
    <2>4. Holds(r, WriteMessage(r))  BY <2>3, WriteMessageHolds
    <2>5. ok => KeptInv(WriteMessage(r))  BY <1>5, <2>2, <2>4 DEF Holds
    <2>6. c.open \in BOOLEAN  BY DEF ConnectionState
    <2> QED  BY <1>1, <1>4, <1>5, <2>1, <2>5, <2>6 DEF r
  <1>9. ok => /\ KeptInv(WriteLastMessage(end)) /\ KeptInv(WriteMessage(end))
              /\ KeptInv(SetupPingOrInactiveTimeout(end, left))
    BY <1>3, <1>5, AnswerHolds, WriteMessageHolds, IdleHolds DEF Holds
  <1>10. KeptInv(HandleWriteMessage(c, ok))
    <2>1. HandleWriteMessage(c, ok) = CASE ~ok               -> Cleanup(end)
                                        [] ok /\ end.single  -> WriteLastMessage(end)
                                        [] ok /\ ~end.single -> WriteMessage(end)
      BY DEF HandleWriteMessage, off, end
    <2>2. end.single \in BOOLEAN  BY <1>3 DEF ConnectionState
    <2> QED  BY <1>3, <1>4, <1>9, <2>1, <2>2
  <1>11. KeptInv(HandleWritePingMessage(c, ok, left))
    <2>1. HandleWritePingMessage(c, ok, left) =
           CASE ~ok                       -> Cleanup(end)
             [] ok /\ end.messages # <<>> -> WriteMessage(end)
             [] ok /\ end.messages = <<>> -> SetupPingOrInactiveTimeout(end, left)
      BY DEF HandleWritePingMessage, off, end
    <2> QED  BY <1>3, <1>4, <1>9, <2>1
  <1> QED  BY <1>6, <1>7, <1>8, <1>10, <1>11

\* The handler that is taken off the run queue succeeded, or is one of the
\* timer's.
LEMMA PoppedKept ==
    ASSUME LifeInv(conn), KeptInv(conn), conn.ready # <<>>
    PROVE  /\ Popped \in ConnectionState /\ PoppedTimer \in ConnectionState /\ Ok \in BOOLEAN
           /\ Ok => KeptInv(Popped)
           /\ Head(conn.ready).h \in TimerHandlers => KeptInv(PoppedTimer)
  <1> DEFINE R == [h : Handlers, ok : BOOLEAN]
             p == Popped
             q == PoppedTimer
  <1>1. p \in ConnectionState /\ q \in ConnectionState /\ Ok \in BOOLEAN
    BY PoppedLemma DEF Same
  <1>2. conn \in ConnectionState  BY DEF LifeInv
  <1>3. conn.ready \in Seq(R)  BY <1>2 DEF ConnectionState, RunQueue
  <1>4. /\ p.wire = conn.wire /\ p.writes = conn.writes /\ p.messages = conn.messages
        /\ p.accepted = conn.accepted /\ p.sent = conn.sent /\ p.open = conn.open
        /\ p.ready = Tail(conn.ready)
    BY <1>2 DEF Popped, ConnectionState
  <1>5. q = [p EXCEPT !.late = p.late \/ conn.stale, !.stale = FALSE]  BY DEF PoppedTimer
  <1> HIDE DEF p, q, R
  <1>6. /\ q.wire = p.wire /\ q.writes = p.writes /\ q.messages = p.messages
        /\ q.accepted = p.accepted /\ q.sent = p.sent /\ q.open = p.open
        /\ q.ready = p.ready
    BY <1>1, <1>5, ZenonT(60) DEF ConnectionState
  <1>7. /\ Head(conn.ready) = conn.ready[1]
        /\ \A i \in 1..Len(conn.ready) : i # 1 =>
              i - 1 \in 1..Len(p.ready) /\ p.ready[i - 1] = conn.ready[i]
    BY <1>3, <1>4, TailLemma
  <1>8. ASSUME Sound(p), Ok \/ Head(conn.ready).h \in TimerHandlers PROVE Kept(p)
    <2>1. Sound(conn)  BY <1>4, <1>7, <1>8 DEF Sound, Ok
    <2>2. Kept(conn)  BY <2>1 DEF KeptInv
    <2> QED  BY <1>2, <1>4, <2>2, KeptLike
  <1>9. Ok => KeptInv(p)  BY <1>8 DEF KeptInv
  <1>10. Head(conn.ready).h \in TimerHandlers => KeptInv(p)  BY <1>8 DEF KeptInv
  <1>11. Holds(p, q)  BY <1>1, <1>6, LikeHolds
  <1> QED  BY <1>1, <1>9, <1>10, <1>11 DEF Holds, p, q

\* The io thread runs the first handler of the queue.
LEMMA RunHandlerKept ==
    ASSUME LifeInv(conn), KeptInv(conn), RunHandler
    PROVE  KeptInv(conn')
  <1>1. conn.ready # <<>>  BY DEF RunHandler, RunHandshake, RunReadRequest, RunReadSome,
          RunWriteHeaders, RunWriteMessage, RunWritePingMessage, RunCleanup, RunTimeout,
          RunPing, RunInactiveTimeout, Next_h
  <1>2. /\ Popped \in ConnectionState /\ PoppedTimer \in ConnectionState /\ Ok \in BOOLEAN
        /\ Ok => KeptInv(Popped)
        /\ Head(conn.ready).h \in TimerHandlers => KeptInv(PoppedTimer)
    BY <1>1, PoppedKept
  <1>3. "policy" \in Requests /\ "http" \in Transport  BY DEF Requests, Transport
  <1>4. CASE RunHandshake \/ RunReadSome \/ RunWriteHeaders \/ RunWriteMessage
    BY <1>2, <1>3, <1>4, HandlersKeep
    DEF RunHandshake, RunReadSome, RunWriteHeaders, RunWriteMessage
  <1>5. CASE RunReadRequest
    <2>1. PICK request \in Requests, transport \in Transports, answer \in Answers :
             conn' = HandleReadRequest(Popped, Ok, request, transport, answer)
      BY <1>5 DEF RunReadRequest
    <2>2. transport \in Transport  BY MessageAssumption
    <2> QED  BY <1>2, <2>1, <2>2, HandlersKeep
  <1>6. CASE RunWritePingMessage
    <2>1. PICK left \in Clock : conn' = HandleWritePingMessage(Popped, Ok, left)
      BY <1>6 DEF RunWritePingMessage
    <2> QED  BY <1>2, <1>3, <2>1, HandlersKeep
  <1>7. CASE RunCleanup \/ RunTimeout
    BY <1>2, <1>7, CleanupQuiet DEF RunCleanup, RunTimeout, HandleCleanup, HandleTimeout,
       KeptInv, Sound
  <1>8. CASE RunPing \/ RunInactiveTimeout
    <2>1. KeptInv(PoppedTimer)
      BY <1>2, <1>8 DEF RunPing, RunInactiveTimeout, Next_h, TimerHandlers
    <2> QED
      BY <1>2, <1>8, <2>1, AnswerHolds DEF RunPing, RunInactiveTimeout, HandlePing,
         HandleInactiveTimeout, Holds
  <1> QED  BY <1>4, <1>5, <1>6, <1>7, <1>8 DEF RunHandler


\* A message is accepted: its number is larger than all before it.
LEMMA SendKept ==
    ASSUME LifeInv(conn), KeptInv(conn), Send
    PROVE  KeptInv(conn')
  <1>1. PICK kind \in Kinds :
          LET m == [kind |-> kind, n |-> conn.sent + 1]
              c == [conn EXCEPT !.sent = @ + 1,
                                !.accepted = IF kind = "data" THEN @ \union {m.n} ELSE @]
          IN  conn' = PushMessage(c, m)
    BY DEF Send
  <1> DEFINE M == Message \union {Null}
             k == conn.sent + 1
             m == [kind |-> kind, n |-> k]
             a == IF kind = "data" THEN conn.accepted \union {k} ELSE conn.accepted
             c == [conn EXCEPT !.sent = k, !.accepted = a]
             q == Append(conn.messages, m)
             b == [c EXCEPT !.messages = q]
  <1>2. conn \in ConnectionState  BY DEF LifeInv
  <1>3. k \in Nat /\ conn.sent \in Nat /\ conn.sent < k /\ conn.accepted \in SUBSET Nat
    BY <1>2 DEF ConnectionState, Numbers
  <1>4. m \in Message /\ m.kind = kind /\ m.n = k  BY <1>3, MessageAssumption DEF Message
  <1>5. a \in Numbers  BY <1>3 DEF Numbers
  <1>6. conn' = PushMessage(c, m)  BY <1>1
  <1>7. conn.messages \in Seq(M) /\ m \in M  BY <1>2, <1>4 DEF ConnectionState, Queue
  <1> HIDE DEF a, m, k
  <1>8. q \in Queue
    <2> HIDE DEF M
    <2>1. q \in Seq(M)  BY <1>7
    <2> QED  BY <2>1 DEF M, Queue
  <1>9. c \in ConnectionState /\ c.messages = conn.messages
    BY <1>2, <1>3, <1>5 DEF ConnectionState
  <1>10. PushMessage(c, m) = IF ~c.writing /\ c.connected THEN WriteMessage(b) ELSE b
    BY <1>9 DEF PushMessage
  <1> HIDE DEF q
  <1>11. /\ b \in ConnectionState /\ b.messages = q /\ b.accepted = a /\ b.sent = k
         /\ b.wire = conn.wire /\ b.writes = conn.writes /\ b.open = conn.open
         /\ b.ready = conn.ready
    BY <1>2, <1>3, <1>5, <1>8 DEF ConnectionState
  <1> HIDE DEF b, c
  <1>12. ASSUME Kept(conn) PROVE Kept(b)
    <2> DEFINE W == DataIn(conn.wire)
               F == DataIn(InFlight(conn))
               Q == DataIn(conn.messages)
    <2>1. /\ InOrder(conn.wire) /\ InOrder(InFlight(conn)) /\ InOrder(conn.messages)
          /\ \A x \in W, y \in F \union Q : x < y
          /\ \A x \in F, y \in Q : x < y
          /\ W \union F \union Q = conn.accepted
          /\ \A x \in conn.accepted : x <= conn.sent
      BY <1>12 DEF Kept
    <2>2. conn.writes \in Writes  BY <1>2 DEF ConnectionState
    <2>3. InFlight(b) = InFlight(conn)  BY <1>11, <2>2, InFlightLemma
    <2>4. /\ kind = "data" => DataIn(q) = Q \union {k}
          /\ kind # "data" => DataIn(q) = Q
          /\ /\ InOrder(conn.messages)
             /\ kind = "data" => \A y \in Q : y < k
             => InOrder(q)
      <3> HIDE DEF M
      <3> QED  BY <1>4, <1>7, AppendData DEF q
    <2> HIDE DEF W, F, Q
    <2>5. \A x \in conn.accepted : x \in Nat /\ x < k  BY <1>3, <2>1
    <2>6. \A x \in W \union F \union Q : x < k  BY <2>1, <2>5
    <2>7. InOrder(q)  BY <2>1, <2>4, <2>6
    <2>8. \A x \in W, y \in F \union DataIn(q) : x < y  BY <2>1, <2>4, <2>6
    <2>9. \A x \in F, y \in DataIn(q) : x < y  BY <2>1, <2>4, <2>6
    <2>10. W \union F \union DataIn(q) = a  BY <2>1, <2>4 DEF a
    <2>11. \A x \in a : x <= k  BY <1>3, <2>5 DEF a
    <2> QED
      BY <1>11, <2>1, <2>3, <2>7, <2>8, <2>9, <2>10, <2>11 DEF Kept, W, F
  <1>13. KeptInv(b)  BY <1>11, <1>12 DEF KeptInv, Sound
  <1>14. KeptInv(WriteMessage(b))  BY <1>11, <1>13, WriteMessageHolds DEF Holds
  <1> QED  BY <1>6, <1>10, <1>13, <1>14

\* A completion is queued.
LEMMA CompleteKept ==
    ASSUME NEW c \in ConnectionState, NEW h \in Handlers, NEW ok \in BOOLEAN,
           ok \/ h \in TimerHandlers => KeptInv(c)
    PROVE  KeptInv(Complete(c, h, ok))
  <1> DEFINE d == Complete(c, h, ok)
             r == [h |-> h, ok |-> ok]
             R == [h : Handlers, ok : BOOLEAN]
  <1>1. /\ d.wire = c.wire /\ d.writes = c.writes /\ d.messages = c.messages
        /\ d.accepted = c.accepted /\ d.sent = c.sent /\ d.open = c.open
        /\ d.ready = Append(c.ready, r)
    BY DEF Complete, ConnectionState
  <1>2. c.ready \in Seq(R) /\ r \in R /\ r.h = h /\ r.ok = ok  BY DEF ConnectionState, RunQueue
  <1> DEFINE n == Len(c.ready)
  <1> HIDE DEF d, r, R
  <1>3. /\ n \in Nat /\ Len(d.ready) = n + 1 /\ d.ready[n + 1] = r
        /\ \A i \in 1..n : d.ready[i] = c.ready[i]
    BY <1>1, <1>2
  <1>4. n + 1 \in 1..(n + 1) /\ \A i \in 1..n : i \in 1..(n + 1)  BY <1>3
  <1> HIDE DEF n
  <1>5. ASSUME Sound(d) PROVE Kept(d)
    <2>1. ok \/ h \in TimerHandlers  BY <1>2, <1>3, <1>4, <1>5 DEF Sound
    <2>2. Sound(c)  BY <1>1, <1>3, <1>4, <1>5 DEF Sound, n
    <2>3. Kept(c)  BY <2>1, <2>2 DEF KeptInv
    <2> QED  BY <1>1, <2>3, KeptLike
  <1>6. KeptInv(d)  BY <1>5 DEF KeptInv
  <1> QED  BY <1>6 DEF d

\* A write is over: what was in flight is on the wire, or the handler is told
\* of the failure.
LEMMA WriteCompletesKept ==
    ASSUME LifeInv(conn), KeptInv(conn), WriteCompletes
    PROVE  KeptInv(conn')
  <1> DEFINE W  == [h : WriteHandlers, item : Item]
             w  == Head(conn.writes)
             c  == [conn EXCEPT !.writes = Tail(@)]
             wr == IF w.item.kind = "ping" THEN conn.wire ELSE Append(conn.wire, w.item)
             d  == [c EXCEPT !.wire = wr]
  <1>1. conn \in ConnectionState /\ conn.writes # <<>>  BY DEF LifeInv, WriteCompletes
  <1>2. conn.writes \in Seq(W) /\ conn.wire \in Seq(Item)
    BY <1>1 DEF ConnectionState, Writes, Wire
  <1>3. w \in W /\ Tail(conn.writes) \in Seq(W)
    <2> HIDE DEF W
    <2> QED  BY <1>1, <1>2
  <1>4. w.h \in Handlers /\ w.h \notin TimerHandlers /\ w.item \in Item
    BY <1>3 DEF Handlers, WriteHandlers, TimerHandlers
  <1>5. /\ c \in ConnectionState /\ c.wire = conn.wire
    BY <1>1, <1>3 DEF ConnectionState, Writes
  <1>6. conn' = Complete(d, w.h, TRUE) \/ conn' = Complete(c, w.h, FALSE)
    BY <1>5 DEF WriteCompletes
  <1>7. wr \in Wire  BY <1>2, <1>4 DEF Wire
  <1> HIDE DEF w, wr
  <1>8. /\ d \in ConnectionState
        /\ d.wire = wr /\ d.writes = Tail(conn.writes) /\ d.messages = conn.messages
        /\ d.accepted = conn.accepted /\ d.sent = conn.sent /\ d.open = conn.open
        /\ d.ready = conn.ready
    BY <1>1, <1>3, <1>7, ZenonT(60) DEF ConnectionState, Writes
  <1> HIDE DEF c, d
  <1>9. ASSUME Kept(conn) PROVE Kept(d)
    <2> DEFINE X == DataIn(conn.wire)
               f == InFlight(conn)
               Q == DataIn(conn.messages)
               i == w.item
    <2>1. /\ InOrder(conn.wire) /\ InOrder(f) /\ InOrder(conn.messages)
          /\ \A x \in X, y \in DataIn(f) \union Q : x < y
          /\ \A x \in DataIn(f), y \in Q : x < y
          /\ X \union DataIn(f) \union Q = conn.accepted
          /\ \A x \in conn.accepted : x <= conn.sent
      BY <1>9 DEF Kept
    <2>2. f \in Seq(Item) /\ f # <<>> /\ Head(f) = i /\ InFlight(d) = Tail(f)
      <3>1. conn.writes \in Writes  BY <1>1 DEF ConnectionState
      <3> QED  BY <1>1, <1>8, <3>1, InFlightLemma DEF w
    <2> HIDE DEF f
    <2>3. /\ i.kind = "data" => DataIn(f) = DataIn(Tail(f)) \union {i.n}
          /\ i.kind # "data" => DataIn(f) = DataIn(Tail(f))
          /\ InOrder(Tail(f))
          /\ i.kind = "data" => \A y \in DataIn(Tail(f)) : i.n < y
      BY <2>1, <2>2, TailData
    <2>4. /\ i.kind = "data" => DataIn(Append(conn.wire, i)) = X \union {i.n}
          /\ i.kind # "data" => DataIn(Append(conn.wire, i)) = X
          /\ /\ InOrder(conn.wire)
             /\ i.kind = "data" => \A y \in X : y < i.n
             => InOrder(Append(conn.wire, i))
      BY <1>2, <1>4, AppendData
    <2> HIDE DEF X, Q
    <2>5. i.kind = "data" => \A y \in X : y < i.n  BY <2>1, <2>3
    <2>6. /\ InOrder(wr)
          /\ i.kind = "data" => DataIn(wr) = X \union {i.n}
          /\ i.kind # "data" => DataIn(wr) = X
      BY <2>1, <2>4, <2>5 DEF wr, X
    <2> HIDE DEF i
    <2>7. \A x \in DataIn(wr), y \in DataIn(Tail(f)) \union Q : x < y
      BY <2>1, <2>3, <2>6
    <2>8. DataIn(wr) \union DataIn(Tail(f)) \union Q = conn.accepted
      BY <2>1, <2>3, <2>6
    <2>9. \A x \in DataIn(Tail(f)), y \in Q : x < y  BY <2>1, <2>3
    <2> QED  BY <1>8, <2>1, <2>2, <2>3, <2>6, <2>7, <2>8, <2>9 DEF Kept, Q
  <1>10. KeptInv(d)  BY <1>8, <1>9 DEF KeptInv, Sound
  <1>11. KeptInv(Complete(d, w.h, TRUE))  BY <1>4, <1>8, <1>10, CompleteKept
  <1>12. KeptInv(Complete(c, w.h, FALSE))  BY <1>4, <1>5, CompleteKept
  <1> QED  BY <1>6, <1>11, <1>12

\* Every step keeps the invariant.
LEMMA NextKept ==
    ASSUME LifeInv(conn), KeptInv(conn), Next
    PROVE  KeptInv(conn')
  <1>1. conn \in ConnectionState  BY DEF LifeInv
  <1>2. \A e \in ConnectionState : KeptInv(Cleanup(e))
    BY CleanupQuiet DEF KeptInv, Sound
  <1>3. CASE Start
    <2> DEFINE c == [conn EXCEPT !.started = TRUE]
    <2>1. conn' = Handshake(c) \/ conn' = Cleanup(c)  BY <1>3 DEF Start
    <2>2. /\ c \in ConnectionState
          /\ c.wire = conn.wire /\ c.writes = conn.writes /\ c.messages = conn.messages
          /\ c.accepted = conn.accepted /\ c.sent = conn.sent /\ c.open = conn.open
          /\ c.ready = conn.ready
      BY <1>1, ZenonT(60) DEF ConnectionState
    <2> HIDE DEF c
    <2>3. KeptInv(c)  BY <1>1, <2>2, LikeHolds DEF Holds
    <2>4. KeptInv(Handshake(c))  BY <2>2, <2>3, ReadHolds DEF Holds
    <2> QED  BY <1>2, <2>1, <2>2, <2>4
  <1>4. CASE Answer
    BY <1>1, <1>4, HandledHolds DEF Answer, Holds
  <1>5. CASE OpenedFailed
    BY <1>1, <1>2, <1>5 DEF OpenedFailed
  <1>6. CASE Finish
    <2> DEFINE c == [conn EXCEPT !.finished = TRUE, !.registered = FALSE]
               p == PushMessage(c, Null)
    <2>1. conn' = IF conn.registered THEN Cleanup(p) ELSE c  BY <1>6 DEF Finish
    <2>2. /\ c \in ConnectionState
          /\ c.wire = conn.wire /\ c.writes = conn.writes /\ c.messages = conn.messages
          /\ c.accepted = conn.accepted /\ c.sent = conn.sent /\ c.open = conn.open
          /\ c.ready = conn.ready
      BY <1>1, ZenonT(60) DEF ConnectionState
    <2> HIDE DEF c
    <2>3. KeptInv(c)  BY <1>1, <2>2, LikeHolds DEF Holds
    <2>4. p \in ConnectionState  BY <2>2, PushMessageLemma DEF Outcome, Same, Ended
    <2> HIDE DEF p
    <2> QED  BY <1>2, <2>1, <2>3, <2>4
  <1>7. CASE ReadCompletes
    <2> DEFINE c == [conn EXCEPT !.read = "none"]
    <2>1. PICK ok \in BOOLEAN : conn' = Complete(c, conn.read, ok)
      BY <1>7 DEF ReadCompletes
    <2>2. conn.read \in Handlers  BY <1>1, <1>7 DEF ReadCompletes, ConnectionState, Read, Handlers
    <2>3. "none" \in Read  BY DEF Read
    <2>4. /\ c \in ConnectionState
          /\ c.wire = conn.wire /\ c.writes = conn.writes /\ c.messages = conn.messages
          /\ c.accepted = conn.accepted /\ c.sent = conn.sent /\ c.open = conn.open
          /\ c.ready = conn.ready
      BY <1>1, <2>3, ZenonT(60) DEF ConnectionState
    <2> HIDE DEF c
    <2>5. KeptInv(c)  BY <1>1, <2>4, LikeHolds DEF Holds
    <2> QED  BY <2>1, <2>2, <2>4, <2>5, CompleteKept
  <1>8. CASE TimerExpires
    <2> DEFINE c == [conn EXCEPT !.timer = "off"]
    <2>1. conn' = Complete(c, conn.timer, TRUE)  BY <1>8 DEF TimerExpires
    <2>2. conn.timer \in Handlers
      BY <1>1, <1>8 DEF TimerExpires, ConnectionState, Timer, Handlers
    <2>3. "off" \in Timer  BY DEF Timer
    <2>4. /\ c \in ConnectionState
          /\ c.wire = conn.wire /\ c.writes = conn.writes /\ c.messages = conn.messages
          /\ c.accepted = conn.accepted /\ c.sent = conn.sent /\ c.open = conn.open
          /\ c.ready = conn.ready
      BY <1>1, <2>3, ZenonT(60) DEF ConnectionState
    <2> HIDE DEF c
    <2>5. KeptInv(c)  BY <1>1, <2>4, LikeHolds DEF Holds
    <2> QED  BY <2>1, <2>2, <2>4, <2>5, CompleteKept
  <1> QED
    BY <1>3, <1>4, <1>5, <1>6, <1>7, <1>8, RunHandlerKept, SendKept, WriteCompletesKept DEF Next

\* The invariant holds in every state of every behaviour.
THEOREM KeptInvariant == Spec => []KeptInv(conn)
  <1>1. Init => KeptInv(conn)
    <2> SUFFICES ASSUME Init PROVE Kept(conn)
      BY DEF KeptInv
    <2>1. /\ conn.wire = <<>> /\ conn.writes = <<>> /\ conn.messages = <<>>
          /\ conn.accepted = {}
      BY DEF Init, NewConnection
    <2>2. DataIn(<<>>) = {} /\ InOrder(<<>>)  BY DEF DataIn, InOrder
    <2>3. DataIn(InFlight(conn)) = {} /\ InOrder(InFlight(conn))
      BY <2>1 DEF DataIn, InOrder, InFlight
    <2> QED  BY <2>1, <2>2, <2>3 DEF Kept
  <1>2. LifeInv(conn) /\ KeptInv(conn) /\ [Next]_vars => KeptInv(conn)'
    <2> SUFFICES ASSUME LifeInv(conn), KeptInv(conn), [Next]_vars PROVE KeptInv(conn)'
      OBVIOUS
    <2>1. CASE Next  BY <2>1, NextKept, Zenon
    <2>2. CASE UNCHANGED vars
      <3>1. conn' = conn  BY <2>2 DEF vars
      <3>2. KeptInv(conn')  BY <3>1
      <3> QED  BY <3>2, Zenon
    <2> QED  BY <2>1, <2>2
  <1> QED  BY <1>1, <1>2, LifeInvariant, PTL DEF Spec

\* While a connection is open and nothing has failed, every data message that
\* send() accepted is on the wire, in the write in flight or in messages_, once
\* and in the order of acceptance.
THEOREM NoMessageLost == Spec => []NothingLostWhileOpen
  <1>1. LifeInv(conn) /\ KeptInv(conn) => NothingLostWhileOpen
    <2> DEFINE f     == InFlight(conn)
               items == conn.wire \o f \o conn.messages
               M     == Item \union {Null}
               R     == [h : Handlers, ok : BOOLEAN]
    <2> SUFFICES ASSUME LifeInv(conn), KeptInv(conn), conn.open,
                        \A i \in DOMAIN conn.ready : conn.ready[i].ok
                 PROVE  DataIn(items) = conn.accepted /\ InOrder(items)
      BY DEF NothingLostWhileOpen
    <2>1. conn \in ConnectionState  BY DEF LifeInv
    <2>2. conn.ready \in Seq(R)  BY <2>1 DEF ConnectionState, RunQueue
    <2>3. DOMAIN conn.ready = 1..Len(conn.ready)
      <3> HIDE DEF R
      <3> QED  BY <2>2
    <2>4. Kept(conn)  BY <2>3 DEF KeptInv, Sound
    <2>5. conn.wire \in Seq(M) /\ f \in Seq(M) /\ conn.messages \in Seq(M)
      <3>1. conn.writes \in Writes  BY <2>1 DEF ConnectionState
      <3>2. conn.wire \in Seq(Item) /\ f \in Seq(Item)
        BY <2>1, <3>1, InFlightLemma DEF ConnectionState, Wire
      <3>3. conn.messages \in Seq(Message \union {Null})  BY <2>1 DEF ConnectionState, Queue
      <3> DEFINE N == Message \union {Null}
      <3>4. Item \subseteq M /\ N \subseteq M  BY DEF Item
      <3>5. conn.messages \in Seq(N)  BY <3>3
      <3> HIDE DEF M, N, f
      <3> QED  BY <3>2, <3>4, <3>5, SeqMonotonic, Zenon
    <2> HIDE DEF M, f
    <2> DEFINE g == conn.wire \o f
    <2>6. g \in Seq(M)  BY <2>5
    <2>7. /\ InOrder(conn.wire) /\ InOrder(f) /\ InOrder(conn.messages)
          /\ \A x \in DataIn(conn.wire), y \in DataIn(f) \union DataIn(conn.messages) : x < y
          /\ \A x \in DataIn(f), y \in DataIn(conn.messages) : x < y
          /\ DataIn(conn.wire) \union DataIn(f) \union DataIn(conn.messages) = conn.accepted
      BY <2>4 DEF Kept, f
    <2>8. DataIn(g) = DataIn(conn.wire) \union DataIn(f) /\ InOrder(g)
      BY <2>5, <2>7, ConcatData
    <2> HIDE DEF g
    <2>9. /\ DataIn(g \o conn.messages) = DataIn(g) \union DataIn(conn.messages)
          /\ InOrder(g \o conn.messages)
      BY <2>5, <2>6, <2>7, <2>8, ConcatData
    <2>10. items = g \o conn.messages  BY DEF g
    <2> HIDE DEF items
    <2> QED  BY <2>7, <2>8, <2>9, <2>10
  <1> QED  BY <1>1, LifeInvariant, KeptInvariant, PTL
=============================================================================
