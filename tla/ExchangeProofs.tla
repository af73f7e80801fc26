--------------------------- MODULE ExchangeProofs ---------------------------
(***************************************************************************)
(* What the filter and the formatters of a connection are asked with, for  *)
(* all requests, responses and messages.                                   *)
(*                                                                         *)
(* A message is allowed when it is sent and printed later.  The invariant  *)
(* ties what formatters_data_channels remembers to the messages printed so *)
(* far, and says that nothing was queued or printed before the response    *)
(* chose the channels.                                                     *)
(***************************************************************************)
EXTENDS Exchange, SequenceTheorems, TLAPS

IsSequence(s) == s \in Seq({s[i] : i \in DOMAIN s})

\* The data of every channel, as the last of the printed messages left it.
Remembered(fd, r, p) ==
    fd.kind = "channels" => \A ch \in DOMAIN fd.channels :
        LET told == {i \in DOMAIN p : p[i].channel = ch /\ p[i].data # ""}
            last == {i \in told : \A j \in told : j <= i}
        IN  /\ told = {} => fd.channels[ch].data = r.channels_data[ch].data
            /\ \A i \in last : fd.channels[ch].data = p[i].data

\* formatters_data_channels has a formatter and some data for each channel.
Shaped(fd) ==
    fd.kind = "channels" =>
        fd = [kind |-> "channels", fmt |-> NoFormatter,
              channels |-> [ch \in DOMAIN fd.channels |->
                  [data |-> fd.channels[ch].data, fmt |-> fd.channels[ch].fmt]]]

FilterInv ==
    /\ IsSequence(messages) /\ IsSequence(printed) /\ Shaped(fmt_data)
    /\ phase \in {"reading", "read"} =>
          messages = <<>> /\ printed = <<>> /\ fmt_data.kind # "channels"
    /\ \A i \in DOMAIN messages : can_find_formatter(fmt_data, messages[i])
    /\ Remembered(fmt_data, resp, printed)

-----------------------------------------------------------------------------

\* Something is added at the end of a sequence.
LEMMA AppendSequence ==
    ASSUME NEW s, IsSequence(s), NEW x
    PROVE  /\ IsSequence(Append(s, x)) /\ Len(s) \in Nat
           /\ DOMAIN s = 1..Len(s) /\ DOMAIN Append(s, x) = 1..(Len(s) + 1)
           /\ Append(s, x)[Len(s) + 1] = x /\ \A i \in 1..Len(s) : Append(s, x)[i] = s[i]
  <1> DEFINE S == {s[i] : i \in DOMAIN s}
             T == S \union {x}
             r == Append(s, x)
             U == {r[i] : i \in DOMAIN r}
  <1>1. s \in Seq(S)  BY DEF IsSequence
  <1>2. S \subseteq T /\ x \in T  OBVIOUS
  <1> HIDE DEF S, T
  <1>3. s \in Seq(T)  BY <1>1, <1>2, SeqMonotonic, Zenon
  <1>4. /\ DOMAIN s = 1..Len(s) /\ DOMAIN r = 1..(Len(s) + 1) /\ Len(s) \in Nat
        /\ r[Len(s) + 1] = x /\ \A i \in 1..Len(s) : r[i] = s[i]
        /\ r \in Seq(T) /\ Len(r) = Len(s) + 1
    BY <1>2, <1>3
  <1> HIDE DEF r
  <1>5. IsSequence(r)
    <2>1. \A i \in 1..Len(r) : r[i] \in U  BY <1>4
    <2> HIDE DEF U
    <2>2. r \in Seq(U)  BY <1>4, <2>1, SeqDef
    <2> QED  BY <2>2 DEF U, IsSequence
  <1> QED  BY <1>4, <1>5 DEF r

\* The first of a sequence is taken away.
LEMMA TailSequence ==
    ASSUME NEW s, IsSequence(s), s # <<>>
    PROVE  /\ IsSequence(Tail(s)) /\ Len(s) \in Nat /\ 1 \in DOMAIN s /\ Head(s) = s[1]
           /\ \A i \in DOMAIN Tail(s) : i + 1 \in DOMAIN s /\ Tail(s)[i] = s[i + 1]
  <1> DEFINE S == {s[i] : i \in DOMAIN s}
             r == Tail(s)
             U == {r[i] : i \in DOMAIN r}
  <1>1. s \in Seq(S)  BY DEF IsSequence
  <1> HIDE DEF S
  <1>2. /\ DOMAIN s = 1..Len(s) /\ Len(s) \in Nat /\ Len(s) > 0
        /\ Head(s) = s[1] /\ r \in Seq(S)
        /\ DOMAIN r = 1..(Len(s) - 1) /\ Len(r) = Len(s) - 1
        /\ \A i \in 1..(Len(s) - 1) : r[i] = s[i + 1]
    BY <1>1
  <1> HIDE DEF r
  <1>3. IsSequence(r)
    <2>1. \A i \in 1..Len(r) : r[i] \in U  BY <1>2
    <2> HIDE DEF U
    <2>2. r \in Seq(U)  BY <1>2, <2>1, SeqDef
    <2> QED  BY <2>2 DEF U, IsSequence
  <1>4. \A i \in DOMAIN r : i + 1 \in DOMAIN s /\ r[i] = s[i + 1]  BY <1>2
  <1> QED  BY <1>2, <1>3, <1>4 DEF r

\* update() remembers the data of a message that has any, for its channel.
Updated(fd, msg, to) ==
    /\ Shaped(to) /\ to.kind = "channels" /\ DOMAIN to.channels = DOMAIN fd.channels
    /\ \A ch \in DOMAIN fd.channels :
          /\ ch = msg.channel /\ msg.data # "" => to.channels[ch].data = msg.data
          /\ ch # msg.channel \/ msg.data = "" => to.channels[ch].data = fd.channels[ch].data

\* update() does what Updated says, for a channel the connection has.
LEMMA UpdateLemma ==
    ASSUME NEW fd, Shaped(fd), fd.kind = "channels", NEW msg, msg.channel \in DOMAIN fd.channels
    PROVE  Updated(fd, msg, update(fd, msg))
  <1> DEFINE D  == DOMAIN fd.channels
             f  == [ch \in D |-> [data |-> fd.channels[ch].data, fmt |-> fd.channels[ch].fmt]]
             g  == [f EXCEPT ![msg.channel].data = msg.data]
             to == update(fd, msg)
  <1>1. fd = [kind |-> "channels", fmt |-> NoFormatter, channels |-> f]  BY DEF Shaped
  <1>2. CASE msg.data = ""  BY <1>2 DEF update, Updated
  <1>3. CASE msg.data # ""
    <2>1. to = [fd EXCEPT !.channels[msg.channel].data = msg.data]  BY <1>3 DEF update
    <2>2. /\ fd.channels = f
          /\ to = [kind |-> "channels", fmt |-> NoFormatter, channels |-> g]
      <3> HIDE DEF f
      <3> QED  BY <1>1, <2>1
    <2>3. /\ DOMAIN g = D
          /\ \A ch \in D : g[ch] = IF ch = msg.channel THEN [f[ch] EXCEPT !.data = msg.data]
                                                        ELSE f[ch]
      <3> HIDE DEF f
      <3>1. DOMAIN f = D /\ f = [ch \in DOMAIN f |-> f[ch]]  BY DEF f
      <3> QED  BY <3>1
    <2>4. /\ DOMAIN g = D
          /\ \A ch \in D : /\ g[ch] = [data |-> g[ch].data, fmt |-> g[ch].fmt]
                           /\ ch = msg.channel => g[ch].data = msg.data
                           /\ ch # msg.channel => g[ch].data = fd.channels[ch].data
      BY <2>2, <2>3
    <2>5. g = [ch \in D |-> [data |-> g[ch].data, fmt |-> g[ch].fmt]]
      <3>1. g = [ch \in DOMAIN g |-> g[ch]]  OBVIOUS
      <3> HIDE DEF g
      <3> QED  BY <2>4, <3>1
    <2> HIDE DEF f, g, to
    <2>6. to.channels = g /\ to.kind = "channels"  BY <2>2
    <2>7. Shaped(to)  BY <2>2, <2>4, <2>5, <2>6 DEF Shaped
    <2> QED  BY <1>3, <2>4, <2>6, <2>7 DEF to, Updated
  <1> QED  BY <1>2, <1>3

\* A message is printed: its data is the last of its channel.
LEMMA PrintedRemembered ==
    ASSUME NEW fd, Shaped(fd), NEW r, NEW p, IsSequence(p), Remembered(fd, r, p),
           NEW msg, can_find_formatter(fd, msg), NEW x, x.channel = msg.channel, x.data = msg.data
    PROVE  /\ Shaped(update(fd, msg)) /\ Remembered(update(fd, msg), r, Append(p, x))
           /\ \A m : can_find_formatter(fd, m) => can_find_formatter(update(fd, msg), m)
  <1> DEFINE to == update(fd, msg)
             q  == Append(p, x)
             n  == Len(p) + 1
  <1>1. CASE fd.kind # "channels"
    <2>1. to = fd  BY <1>1 DEF update
    <2> HIDE DEF to
    <2>2. Remembered(to, r, q)  BY <1>1, <2>1 DEF Remembered
    <2> QED  BY <2>1, <2>2 DEF to
  <1>2. CASE fd.kind = "channels"
    <2>1. msg.channel \in DOMAIN fd.channels  BY <1>2 DEF can_find_formatter
    <2>2. /\ Shaped(to) /\ to.kind = "channels" /\ DOMAIN to.channels = DOMAIN fd.channels
          /\ \A ch \in DOMAIN fd.channels :
                /\ ch = msg.channel /\ msg.data # "" => to.channels[ch].data = msg.data
                /\ ch # msg.channel \/ msg.data = "" => to.channels[ch].data = fd.channels[ch].data
      <3>1. Updated(fd, msg, to)  BY <1>2, <2>1, UpdateLemma
      <3> HIDE DEF to
      <3> QED  BY <3>1 DEF Updated
    <2>3. /\ DOMAIN p = 1..Len(p) /\ DOMAIN q = 1..n /\ Len(p) \in Nat
          /\ q[n] = x /\ \A i \in 1..Len(p) : q[i] = p[i]
      BY AppendSequence
    <2>4. /\ \A i \in 1..n : i \in 1..Len(p) \/ i = n
          /\ \A i \in 1..Len(p) : i \in 1..n /\ i <= n /\ ~(n <= i)
          /\ n \in 1..n
      <3>1. Len(p) \in Nat  BY <2>3
      <3> QED  BY <3>1
    <2> HIDE DEF to, q, n
    <2>5. ASSUME NEW ch \in DOMAIN to.channels
          PROVE  LET told == {i \in DOMAIN q : q[i].channel = ch /\ q[i].data # ""}
                     last == {i \in told : \A j \in told : j <= i}
                 IN  /\ told = {} => to.channels[ch].data = r.channels_data[ch].data
                     /\ \A i \in last : to.channels[ch].data = q[i].data
      <3> DEFINE told == {i \in DOMAIN q : q[i].channel = ch /\ q[i].data # ""}
                 last == {i \in told : \A j \in told : j <= i}
                 tolp == {i \in DOMAIN p : p[i].channel = ch /\ p[i].data # ""}
                 lasp == {i \in tolp : \A j \in tolp : j <= i}
      <3>1. ch \in DOMAIN fd.channels  BY <2>2
      <3>2. /\ tolp = {} => fd.channels[ch].data = r.channels_data[ch].data
            /\ \A i \in lasp : fd.channels[ch].data = p[i].data
        BY <1>2, <3>1 DEF Remembered
      <3>3. CASE ch = msg.channel /\ msg.data # ""
        <4>1. n \in told  BY <2>3, <2>4, <3>3
        <4>2. \A i \in last : i = n
          <5> SUFFICES ASSUME NEW i \in last PROVE i = n
            OBVIOUS
          <5>1. i \in 1..n /\ n <= i  BY <2>3, <4>1
          <5> QED  BY <2>4, <5>1
        <4>3. to.channels[ch].data = q[n].data  BY <2>2, <2>3, <3>1, <3>3
        <4> HIDE DEF told, last
        <4>4. (told = {} => to.channels[ch].data = r.channels_data[ch].data)
              /\ \A i \in last : to.channels[ch].data = q[i].data
          BY <4>1, <4>2, <4>3
        <4> QED  BY <4>4 DEF told, last
      <3>4. CASE ch # msg.channel \/ msg.data = ""
        <4>1. told = tolp  BY <2>3, <2>4, <3>4
        <4>2. last = lasp
          <5> HIDE DEF told, tolp
          <5> QED  BY <4>1
        <4>3. \A i \in last : q[i] = p[i]  BY <2>3, <4>1
        <4>4. to.channels[ch].data = fd.channels[ch].data  BY <2>2, <3>1, <3>4
        <4> HIDE DEF told, last, tolp, lasp
        <4>5. (told = {} => to.channels[ch].data = r.channels_data[ch].data)
              /\ \A i \in last : to.channels[ch].data = q[i].data
          BY <3>2, <4>1, <4>2, <4>3, <4>4
        <4> QED  BY <4>5 DEF told, last
      <3> QED  BY <3>3, <3>4
    <2>6. Remembered(to, r, q)  BY <2>5 DEF Remembered
    <2>7. \A m : can_find_formatter(fd, m) => can_find_formatter(to, m)
      BY <1>2, <2>2 DEF can_find_formatter
    <2> QED  BY <2>2, <2>6, <2>7 DEF to, q
  <1> QED  BY <1>1, <1>2

\* The channels of a response, before anything is printed.
LEMMA CreatedRemembered ==
    ASSUME NEW r
    PROVE  /\ Shaped(create_formatters_data(r))
           /\ Remembered(create_formatters_data(r), r, <<>>)
  <1> DEFINE fd == create_formatters_data(r)
             D  == DOMAIN r.channels_data
             f  == [ch \in D |-> [data |-> r.channels_data[ch].data,
                                  fmt |-> find(r.channels_data[ch].fmt_id)]]
  <1>1. CASE r.channels_data # <<>>
    <2>1. fd = [kind |-> "channels", fmt |-> NoFormatter, channels |-> f]
      BY <1>1 DEF create_formatters_data
    <2>2. /\ DOMAIN f = D
          /\ \A ch \in D : /\ f[ch] = [data |-> f[ch].data, fmt |-> f[ch].fmt]
                           /\ f[ch].data = r.channels_data[ch].data
          /\ f = [ch \in DOMAIN f |-> f[ch]]
      OBVIOUS
    <2> HIDE DEF fd, f, D
    <2>3. fd.channels = f /\ fd.kind = "channels"  BY <2>1
    <2>4. f = [ch \in D |-> [data |-> f[ch].data, fmt |-> f[ch].fmt]]  BY <2>2
    <2>5. Shaped(fd)  BY <2>1, <2>2, <2>3, <2>4 DEF Shaped
    <2>6. Remembered(fd, r, <<>>)  BY <2>2, <2>3 DEF Remembered
    <2> QED  BY <2>5, <2>6 DEF fd
  <1>2. CASE r.channels_data = <<>>
    <2>1. fd.kind # "channels"  BY <1>2 DEF create_formatters_data
    <2> HIDE DEF fd
    <2>2. Shaped(fd) /\ Remembered(fd, r, <<>>)  BY <2>1 DEF Shaped, Remembered
    <2> QED  BY <2>2 DEF fd
  <1> QED  BY <1>1, <1>2

-----------------------------------------------------------------------------

\* What FilterInv says of an answer that leaves nothing to print.
LEMMA AnsweredKeeps ==
    ASSUME FilterInv, phase = "read", UNCHANGED <<messages, printed, fmt_data>>
    PROVE  FilterInv'
  BY DEF FilterInv, Remembered

\* The response chooses the channels before anything is queued or printed.
LEMMA HandledKeeps ==
    ASSUME FilterInv, phase = "read", UNCHANGED <<messages, printed>>,
           NEW ws, NEW r, NEW inserted, handled(ws, r, inserted), resp' = r
    PROVE  FilterInv'
  <1>1. CASE r.content
    <2>1. UNCHANGED fmt_data  BY <1>1 DEF handled, Answer
    <2> QED  BY <2>1, AnsweredKeeps
  <1>2. CASE ~r.content
    <2>1. /\ fmt_data' = create_formatters_data(r) /\ phase' \in {"open", "closed"}
      BY <1>2 DEF handled
    <2>2. Shaped(fmt_data') /\ Remembered(fmt_data', r, <<>>)  BY <2>1, CreatedRemembered
    <2>3. messages = <<>> /\ printed = <<>>  BY DEF FilterInv
    <2>4. messages' = <<>> /\ printed' = <<>>  BY <2>3
    <2>5. Remembered(fmt_data', resp', printed')  BY <2>2, <2>4
    <2> QED  BY <2>1, <2>2, <2>3, <2>4, <2>5 DEF FilterInv
  <1> QED  BY <1>1, <1>2

\* handle_read_request: every way but handled() closes the connection.
LEMMA RequestKeeps ==
    ASSUME FilterInv, NEW r, NEW inserted, HandleReadRequest(r, inserted)
    PROVE  FilterInv'
  <1>1. phase = "read" /\ UNCHANGED <<messages, printed>>  BY DEF HandleReadRequest
  <1>2. \/ UNCHANGED fmt_data
        \/ \E parsed, ws : invoke_handler(parsed, ws, r, inserted)
    BY DEF HandleReadRequest, Answer
  <1>3. CASE UNCHANGED fmt_data  BY <1>1, <1>3, AnsweredKeeps
  <1>4. ASSUME NEW parsed, NEW ws, invoke_handler(parsed, ws, r, inserted)
        PROVE  FilterInv'
    <2>1. UNCHANGED fmt_data \/ (handled(ws, r, inserted) /\ resp' = r)
      BY <1>4 DEF invoke_handler, Answer
    <2> QED  BY <1>1, <2>1, AnsweredKeeps, HandledKeeps
  <1> QED  BY <1>2, <1>3, <1>4

\* A message is queued only when the connection has a formatter for it.
LEMMA SendKeeps ==
    ASSUME FilterInv, NEW msg, Send(msg)
    PROVE  FilterInv'
  <1> DEFINE q == Append(messages, msg)
  <1>1. /\ IsSequence(q) /\ Len(messages) \in Nat
        /\ DOMAIN messages = 1..Len(messages) /\ DOMAIN q = 1..(Len(messages) + 1)
        /\ q[Len(messages) + 1] = msg /\ \A i \in 1..Len(messages) : q[i] = messages[i]
    BY AppendSequence DEF FilterInv
  <1>2. \A i \in DOMAIN q : i \in DOMAIN messages \/ i = Len(messages) + 1  BY <1>1
  <1>3. /\ messages' = q /\ phase = "open"
        /\ UNCHANGED <<phase, fmt_data, printed, resp>>
    BY DEF Send, request_vars
  <1>4. can_find_formatter(fmt_data, msg)  BY DEF Send, allow_message, can_find_formatter
  <1> HIDE DEF q
  <1>5. \A i \in DOMAIN q : can_find_formatter(fmt_data, q[i])
    BY <1>1, <1>2, <1>4 DEF FilterInv
  <1> QED  BY <1>1, <1>3, <1>5 DEF FilterInv

\* A message is printed with the formatter of its channel, which is told.
LEMMA WriteKeeps ==
    ASSUME FilterInv, WriteMessage
    PROVE  FilterInv'
  <1> DEFINE q   == Tail(messages)
             msg == Head(messages)
  <1>1. /\ messages # <<>> /\ messages' = q /\ phase = "open" /\ UNCHANGED resp
    BY DEF WriteMessage, request_vars
  <1>2. /\ IsSequence(q) /\ msg = messages[1] /\ 1 \in DOMAIN messages
        /\ \A i \in DOMAIN q : i + 1 \in DOMAIN messages /\ q[i] = messages[i + 1]
    BY <1>1, TailSequence DEF FilterInv
  <1>3. \/ UNCHANGED <<fmt_data, printed, phase>>
        \/ /\ fmt_data' = update(fmt_data, msg) /\ phase' \in {"open", "last"}
           /\ \E text : printed' = Append(printed,
                            [channel |-> msg.channel, data |-> msg.data, text |-> text])
    BY DEF WriteMessage
  <1> HIDE DEF q, msg
  <1>4. can_find_formatter(fmt_data, msg) /\ \A i \in DOMAIN q : can_find_formatter(fmt_data, q[i])
    BY <1>2 DEF FilterInv
  <1>5. CASE UNCHANGED <<fmt_data, printed, phase>>
    BY <1>1, <1>2, <1>4, <1>5 DEF FilterInv
  <1>6. ASSUME fmt_data' = update(fmt_data, msg), phase' \in {"open", "last"},
               NEW text,
               printed' = Append(printed, [channel |-> msg.channel, data |-> msg.data, text |-> text])
        PROVE  FilterInv'
    <2> DEFINE x == [channel |-> msg.channel, data |-> msg.data, text |-> text]
    <2>1. x.channel = msg.channel /\ x.data = msg.data  OBVIOUS
    <2>2. printed' = Append(printed, x)  BY <1>6
    <2> HIDE DEF x
    <2>3. IsSequence(printed')  BY <2>2, AppendSequence DEF FilterInv
    <2>4. /\ Shaped(fmt_data') /\ Remembered(fmt_data', resp, printed')
          /\ \A m : can_find_formatter(fmt_data, m) => can_find_formatter(fmt_data', m)
      BY <1>4, <1>6, <2>1, <2>2, PrintedRemembered DEF FilterInv
    <2>5. \A i \in DOMAIN q : can_find_formatter(fmt_data', q[i])  BY <1>4, <2>4
    <2> QED  BY <1>1, <1>2, <1>6, <2>3, <2>4, <2>5 DEF FilterInv
  <1> QED  BY <1>3, <1>5, <1>6

\* Every step keeps the invariant.
LEMMA FilterStep ==
    FilterInv /\ [Next]_vars => FilterInv'
  <1> SUFFICES ASSUME FilterInv, [Next]_vars PROVE FilterInv'
    OBVIOUS
  <1>1. ASSUME UNCHANGED <<messages, printed, fmt_data, resp>>,
               phase' \in {"reading", "read"} => phase \in {"reading", "read"}
        PROVE  FilterInv'
    BY <1>1 DEF FilterInv
  <1>2. ASSUME NEW n, Read(n) PROVE FilterInv'
    BY <1>1, <1>2 DEF Read
  <1>3. CASE HandleOtherRequest  BY <1>1, <1>3 DEF HandleOtherRequest, Answer, request_vars
  <1>4. CASE WriteLastMessage  BY <1>1, <1>4 DEF WriteLastMessage, request_vars
  <1>5. ASSUME NEW o, NEW chs, Subscribe(o, chs) PROVE FilterInv'
    BY <1>1, <1>5 DEF Subscribe, request_vars
  <1>6. ASSUME NEW o, Unsubscribe(o) PROVE FilterInv'
    BY <1>1, <1>6 DEF Unsubscribe, request_vars
  <1>7. CASE UNCHANGED vars  BY <1>1, <1>7 DEF vars, request_vars
  <1> QED
    BY <1>2, <1>3, <1>4, <1>5, <1>6, <1>7, RequestKeeps, SendKeeps, WriteKeeps DEF Next

\* The filter of a connection is asked with the data of the last message that
\* went out on the channel, and every queued message has a formatter when it is
\* printed, for all responses and messages.
THEOREM FilterUpToDate == Spec => []FilterSeesTheLatest
  <1>1. Init => FilterInv
    <2> SUFFICES ASSUME Init PROVE FilterInv
      OBVIOUS
    <2>1. messages = <<>> /\ printed = <<>> /\ resp = response_impl
          /\ fmt_data = create_formatters_data(response_impl)
      BY DEF Init
    <2>2. Shaped(fmt_data) /\ Remembered(fmt_data, resp, printed)  BY <2>1, CreatedRemembered
    <2>3. fmt_data.kind # "channels"
      BY <2>1 DEF create_formatters_data, response_impl
    <2>4. IsSequence(<<>>)  BY DEF IsSequence
    <2> QED  BY <2>1, <2>2, <2>3, <2>4 DEF FilterInv
  <1>2. FilterInv => FilterSeesTheLatest
    BY DEF FilterInv, Remembered, FilterSeesTheLatest
  <1> QED  BY <1>1, <1>2, FilterStep, PTL DEF Spec

=============================================================================
