------------------------------ MODULE Exchange ------------------------------
(***************************************************************************)
(* What one connection reads and writes.  The peer sends a request that    *)
(* arrives in pieces cut anywhere; the checker decides when it is whole,   *)
(* handle_read_request parses it, opens a websocket or not, lets the       *)
(* handler name the connection and choose its channels, and writes the     *)
(* headers; after that every message the connection allows is queued,      *)
(* wrapped by its formatter and written in chunks or in frames.            *)
(*                                                                         *)
(* Connection.tla has the life of a connection (timers, errors, the order  *)
(* of its handlers) and none of its data; this module has the data and a   *)
(* connection that never times out.                                        *)
(***************************************************************************)
EXTENDS WebSocket, Formatters
LOCAL INSTANCE SequencesExt
LOCAL INSTANCE FiniteSetsExt
LOCAL INSTANCE Functions
LOCAL INSTANCE FiniteSets

CONSTANTS Requests,     \* what the peer may send, see Encoded
          Responses,    \* what the handler may make of a response
          Messages,     \* what may be sent to the connection
          Subscribers,  \* other connections of the server
          Channels,     \* channels they may subscribe to
          Filtering,    \* whether the server has a message_filter
          Secure,       \* ct_.secure()
          PolicyData,   \* whether the server has policy data
          MaxPrinted    \* bound on the messages of one connection

VARIABLES sent,       \* what the peer sends
          got,        \* how much of it has arrived: in_
          phase,      \* "reading", "read", "open", "last" or "closed"
          req,        \* the request parsed
          ws_info,    \* connection_base::ws_info_
          resp,       \* the response of the handler
          name,       \* connection_base::name_
          fmt_data,   \* connection_base::fmt_data_
          messages,   \* connection_impl::messages_
          printed,    \* the messages printed so far, with their wrapping
          wire,       \* what has been written
          stat,       \* channels_stat_impl::data_, shared by the connections
          others      \* the channels of the other connections

request_vars == <<sent, got, req, ws_info, resp, name>>
vars == <<request_vars, phase, fmt_data, messages, printed, wire, stat, others>>

(***************************************************************************)
(* The peer.  A header whose value is folded continues on a second line;   *)
(* one without a colon is malformed.  empty is the end of the empty line   *)
(* after the headers, body the eight bytes that belong to the request,     *)
(* trail what the peer sends after it without waiting.                     *)
(***************************************************************************)
HeaderText(h, eol) ==
    <<h.name>> \o (IF h.colon THEN <<":", "SP">> ELSE <<"SP">>) \o h.value
        \o (IF h.folded = <<>> THEN <<>> ELSE eol \o <<"TAB">> \o h.folded) \o eol

Encoded(r) ==
    IF r.method = "<" THEN r.uri
    ELSE <<r.method, "SP">> \o r.uri \o <<"SP", r.version>> \o r.eol
         \o FlattenSeq([i \in DOMAIN r.headers |-> HeaderText(r.headers[i], r.eol)])
         \o r.empty \o r.body \o r.trail

buffer == SubSeq(Encoded(sent), 1, got)

no_request == request_impl(<<"SP">>)

Init ==
    /\ sent \in Requests
    /\ got = 0
    /\ phase = "reading"
    /\ req = no_request
    /\ ws_info = no_websocket
    /\ resp = response_impl
    /\ name = <<>>
    /\ fmt_data = create_formatters_data(response_impl)
    /\ messages = <<>>
    /\ printed = <<>>
    /\ wire = <<>>
    /\ stat = <<>>
    /\ others = [o \in Subscribers |-> {}]

\* Some more of the request arrives and asio asks the checker.
Read(n) ==
    /\ phase = "reading"
    /\ n \in (got + 1)..Len(Encoded(sent))
    /\ got' = n
    /\ phase' = IF request_checker(SubSeq(Encoded(sent), 1, n)) THEN "read" ELSE "reading"
    /\ UNCHANGED <<sent, req, ws_info, resp, name, fmt_data, messages, printed, wire, stat, others>>

(***************************************************************************)
(* connection_base: what is printed.                                       *)
(***************************************************************************)
print_error(code) == <<[kind |-> "error", data |-> code]>>

print_policy_data == IF PolicyData THEN <<[kind |-> "policy", data |-> <<>>]>> ELSE <<>>

print_common_headers(r) == [kind |-> "headers", data |-> r.headers]

print_static_content(ws, r) ==
    IF ~ws.empty THEN <<>>
    ELSE <<[kind |-> "200", data |-> <<>>], print_common_headers(r),
           [kind |-> "content", data |-> <<>>]>>

print_headers(ws, r) ==
    CASE ~ws.empty /\ ~valid(ws) -> <<>>
      [] ~ws.empty /\ valid(ws) ->
            <<[kind |-> "101", data |-> write_headers(ws)], print_common_headers(r),
              [kind |-> "body", data |-> write_body(ws)]>>
      [] OTHER -> <<[kind |-> "200", data |-> <<"chunked">>], print_common_headers(r)>>

print_message_content(ws, content) ==
    CASE content = <<>> -> <<>>
      [] content # <<>> /\ ~ws.empty -> <<[kind |-> "frames", data |-> write_message(ws, content)]>>
      [] OTHER -> <<[kind |-> "chunk", data |-> <<[size |-> Len(content), data |-> content]>>]>>

print_last_message(ws) ==
    IF ws.empty THEN <<[kind |-> "chunk", data |-> <<[size |-> 0, data |-> <<>>]>>]>>
    ELSE IF write_close(ws) = <<>> THEN <<>> ELSE <<[kind |-> "close", data |-> write_close(ws)]>>

\* formatter::wrap_message of the application.
wrap_message(fmt, content) == IF fmt = NoFormatter THEN content ELSE <<fmt>> \o content

(***************************************************************************)
(* handle_read_request, with everything it calls up to the write of the    *)
(* headers.                                                                *)
(***************************************************************************)
\* Answered and closed, or closed without a word when nothing was printed.
Answer(items) ==
    /\ phase' = "closed"
    /\ wire' = wire \o items
    /\ UNCHANGED <<fmt_data, stat>>

\* connection_impl::handled: inserted is what the manager answers.
handled(ws, r, inserted) ==
    \E fd \in {create_formatters_data(r)}, headers \in {print_headers(ws, r)} :
        IF r.content THEN Answer(print_static_content(ws, r))
        ELSE /\ fmt_data' = fd
             /\ stat' = IF inserted /\ headers # <<>> THEN update_channels_stat(fd, stat, TRUE) ELSE stat
             /\ phase' = IF inserted /\ headers # <<>> THEN "open" ELSE "closed"
             /\ wire' = IF inserted THEN wire \o headers ELSE wire

\* handler_invoker::invoke_handler, then connection_impl::handled.
invoke_handler(request, ws, r, inserted) ==
    IF ~has_enough_data(request)
    THEN Answer(print_error(forbidden)) /\ UNCHANGED <<name, resp>>
    ELSE \E who \in {receiver(request.uri)} :
            /\ name' = who.name
            /\ resp' = IF who.code = 0 THEN r ELSE resp
            /\ CASE who.code = 0         -> handled(ws, r, inserted)
                 [] who.code = exception -> Answer(<<>>)
                 [] OTHER                -> Answer(print_error(who.code))

\* More than a request may be, or a policy request: neither is parsed.
HandleOtherRequest ==
    /\ phase = "read"
    /\ Head(buffer) = "<" \/ size(buffer) > MaxRequestSize
    /\ Answer(IF size(buffer) > MaxRequestSize THEN print_error(entity_too_large)
              ELSE IF is_ci_equal(SubSeq(buffer, 1, 3), policy_str) THEN print_policy_data ELSE <<>>)
    /\ UNCHANGED <<request_vars, messages, printed, others>>

HandleReadRequest(r, inserted) ==
    /\ phase = "read"
    /\ Head(buffer) # "<" /\ size(buffer) <= MaxRequestSize
    /\ \E parsed \in {request_impl(buffer)} : \E opened \in {parse(parsed, Secure)} :
          /\ req' = [parsed EXCEPT !.websocket = opened.code = 0 /\ ~opened.ws.empty]
          /\ ws_info' = IF parsed.code = 0 THEN opened.ws ELSE ws_info
          /\ IF parsed.code # 0 \/ opened.code # 0
             THEN /\ Answer(print_error(IF parsed.code # 0 THEN parsed.code ELSE bad_request))
                  /\ UNCHANGED <<name, resp>>
             ELSE invoke_handler(parsed, opened.ws, r, inserted)
    /\ UNCHANGED <<sent, got, messages, printed, others>>

(***************************************************************************)
(* Messages.  The manager asks allow_message when a message is sent; the   *)
(* formatter is looked up, and the channel told of its data, when the      *)
(* message is printed, which may be after others were sent.                *)
(***************************************************************************)
Send(msg) ==
    /\ phase = "open"
    /\ Len(messages) + Len(printed) < MaxPrinted
    /\ allow_message(fmt_data, msg, Filtering)
    /\ messages' = Append(messages, msg)
    /\ UNCHANGED <<request_vars, phase, fmt_data, printed, wire, stat, others>>

\* An empty message is skipped: nothing is written, the channel not told.
WriteMessage ==
    /\ phase = "open"
    /\ messages # <<>>
    /\ \E msg \in {Head(messages)} :
       \E text \in {wrap_message(find_formatter(fmt_data, msg), msg.content)} :
       \E out \in {print_message_content(ws_info, text)} :
           IF out = <<>> THEN UNCHANGED <<fmt_data, printed, wire, phase>>
           ELSE /\ wire' = wire \o out
                /\ printed' = Append(printed, [channel |-> msg.channel, data |-> msg.data, text |-> text])
                /\ fmt_data' = update(fmt_data, msg)
                /\ phase' = IF resp.single_message THEN "last" ELSE phase
    /\ messages' = Tail(messages)
    /\ UNCHANGED <<request_vars, stat, others>>

\* write_last_message, the end of the write and the cleanup after it.
WriteLastMessage ==
    /\ phase \in {"open", "last"}
    /\ wire' = wire \o print_last_message(ws_info)
    /\ phase' = "closed"
    /\ stat' = update_channels_stat(fmt_data, stat, FALSE)
    /\ UNCHANGED <<request_vars, fmt_data, messages, printed, others>>

\* Another connection is inserted into the manager, or removed from it.
Subscribe(o, chs) ==
    /\ others[o] = {} /\ chs # {}
    /\ others' = [others EXCEPT ![o] = chs]
    /\ stat' = update_channels_stat([channels |-> [ch \in chs |-> <<>>]], stat, TRUE)
    /\ UNCHANGED <<request_vars, phase, fmt_data, messages, printed, wire>>

Unsubscribe(o) ==
    /\ others[o] # {}
    /\ others' = [others EXCEPT ![o] = {}]
    /\ stat' = update_channels_stat([channels |-> [ch \in others[o] |-> <<>>]], stat, FALSE)
    /\ UNCHANGED <<request_vars, phase, fmt_data, messages, printed, wire>>

Next ==
    \/ \E n \in 1..Len(Encoded(sent)) : Read(n)
    \/ HandleOtherRequest
    \/ \E r \in Responses, inserted \in BOOLEAN : HandleReadRequest(r, inserted)
    \/ \E msg \in Messages : Send(msg)
    \/ WriteMessage
    \/ WriteLastMessage
    \/ \E o \in Subscribers, chs \in SUBSET Channels : Subscribe(o, chs)
    \/ \E o \in Subscribers : Unsubscribe(o)

Spec == Init /\ [][Next]_vars

-----------------------------------------------------------------------------
(***************************************************************************)
(* What the peer means by a request.  params, cookies, receiver and the    *)
(* numbers of the keys are part of what it sends, next to the text that    *)
(* carries them.                                                           *)
(***************************************************************************)
MeantValue(h) == IF h.folded = <<>> THEN h.value ELSE h.value \o <<"TAB">> \o h.folded

MeantNames(r) == {<<to_lower(r.headers[i].name)>> : i \in DOMAIN r.headers}

MeantHeader(r, n) ==
    LET named == {i \in DOMAIN r.headers : <<to_lower(r.headers[i].name)>> = n}
    IN  IF named = {} THEN <<>> ELSE MeantValue(r.headers[Min(named)])

MeantCode(r) ==
    LET wrong == {i \in DOMAIN r.headers : ~r.headers[i].colon \/ to_lower(r.headers[i].name) = "range"}
    IN  CASE to_lower(r.method) # "get" -> method_not_allowed
          [] to_lower(r.method) = "get" /\ to_lower(r.version) # "http/1.1" -> version_not_supported
          [] OTHER -> IF wrong = {} THEN 0
                      ELSE IF r.headers[Min(wrong)].colon THEN range_not_satisfiable ELSE bad_request

Parsed == phase \notin {"reading", "read"} /\ sent.method # "<" /\ size(buffer) <= MaxRequestSize

(***************************************************************************)
(* However the request was cut on its way, what the server makes of it is  *)
(* what the peer meant: the error of the first line that is wrong, or the  *)
(* uri, the parameters and the cookies decoded, every header with the      *)
(* value of its first occurrence, folded or not, and the receiver the      *)
(* connection is named after.  (http_request_checker stopping at the right *)
(* byte, request_impl::init, url_response_handler::receiver.)              *)
(***************************************************************************)
RequestUnderstood ==
    Parsed =>
        /\ req.code = MeantCode(sent)
        /\ req.code = 0 =>
              /\ req.uri = sent.uri /\ req.params = sent.params /\ req.cookies = sent.cookies
              /\ DOMAIN req.headers = MeantNames(sent)
              /\ \A n \in MeantNames(sent) : header(req, n) = MeantHeader(sent, n)
        /\ name # <<>> => name = sent.receiver

(***************************************************************************)
(* A request that has arrived to its last byte is recognised, wherever it  *)
(* was cut on its way: the checker does not wait for more.  That is so for *)
(* the requests that the checker can recognise at all.  It never does when *)
(* there is no header, since it looks for the empty line only after one;   *)
(* when the empty line ends in another way than the lines before it, since *)
(* it looks for two equal ends; and when the byte after the empty line is  *)
(* a blank, which makes the last header look like a folded one.            *)
(* (request_checker with line_reader and find_headers_break.)              *)
(***************************************************************************)
Recognisable(r) ==
    /\ r.headers # <<>>
    /\ r.empty = r.eol
    /\ r.body \o r.trail # <<>> => Head(r.body \o r.trail) \notin is_blank

CompleteIsRecognised ==
    got = Len(Encoded(sent)) /\ Recognisable(sent) => phase # "reading"

(***************************************************************************)
(* A handshake answers the request it was asked in: it names the host and  *)
(* the uri, and proves that the server read the key of this request or its *)
(* two numbers and the eight bytes that followed the headers, whatever     *)
(* came with them in the same read; every other request that is served     *)
(* gets a plain answer.  (websocket_info::parse and write_headers against  *)
(* print_headers.)                                                         *)
(***************************************************************************)
HandshakeAnswersTheKey ==
    wire # <<>> /\ Parsed /\ req.code = 0 =>
        LET key    == MeantHeader(sent, <<"sec-websocket-key">>)
            says   == wire[1].data
            asked  == MeantHeader(sent, <<"connection">>) = <<"Upgrade">>
            loc    == MeantHeader(sent, <<"host">>) \o sent.uri
            secret == IF {<<"sec-websocket-key1">>, <<"sec-websocket-key2">>} \subseteq MeantNames(sent)
                      THEN <<"md5", sent.numbers[1], sent.numbers[2], sent.body>> ELSE <<>>
        IN  /\ wire[1].kind = "200" => ~asked
            /\ wire[1].kind = "101" =>
                  /\ asked /\ req.websocket
                  /\ \E i \in DOMAIN says : Tail(says[i][2]) = loc
                  /\ IF key # <<>> THEN says[Len(says)] = <<<<"Sec-WebSocket-Accept">>, <<"sha1", key>>>>
                     ELSE wire[3].data = secret

(***************************************************************************)
(* What a client reads off the wire after the headers.  In the framed      *)
(* protocol a message begins with a text frame, goes on with continuation  *)
(* frames and ends with the frame whose first bit is set.                  *)
(***************************************************************************)
Frames == FlattenSeq([i \in DOMAIN wire |-> IF wire[i].kind \in {"frames", "chunk"} THEN wire[i].data ELSE <<>>])

Reassembled ==
    LET begins == SelectSeq([i \in DOMAIN Frames |-> i], LAMBDA i : Frames[i].head % 16 = 1)
        end(i) == Min({j \in i..Len(Frames) : Frames[j].head >= 128})
        text(i) == FlattenSeq([k \in 1..(end(i) - i + 1) |-> Frames[i + k - 1].data])
    IN  [n \in DOMAIN begins |-> text(begins[n])]

(***************************************************************************)
(* The client gets every printed message once, whole and in order, framed  *)
(* after a handshake and chunked otherwise, and no frame is longer than    *)
(* its one byte of size can say.  (websocket_info::write_message at the    *)
(* boundaries of its chunks, print_message_content.)                       *)
(***************************************************************************)
MessagesArriveWhole ==
    LET texts == [i \in DOMAIN printed |-> printed[i].text]
    IN  phase \in {"open", "last"} =>
          CASE ws_info.newsec ->
                   /\ Reassembled = texts
                   /\ \A f \in Range(Frames) : f.size = Len(f.data) /\ f.size <= SmallMsgMaxSize
            [] ~ws_info.newsec /\ ~ws_info.empty -> [i \in DOMAIN Frames |-> Frames[i].data] = texts
            [] OTHER -> Frames = [i \in DOMAIN texts |-> [size |-> Len(texts[i]), data |-> texts[i]]]

(***************************************************************************)
(* The filter is asked with the data of the last message that went out on  *)
(* the channel, or with the data of the subscription before there was one, *)
(* and every message that waits to be printed has a formatter: the         *)
(* assertions of find_formatter hold although it is called long after      *)
(* allow_message.                                                          *)
(***************************************************************************)
FilterSeesTheLatest ==
    fmt_data.kind = "channels" =>
        /\ \A ch \in DOMAIN fmt_data.channels :
              LET told == {i \in DOMAIN printed : printed[i].channel = ch /\ printed[i].data # ""}
                  last == {i \in told : \A j \in told : j <= i}
              IN  /\ told = {} => fmt_data.channels[ch].data = resp.channels_data[ch].data
                  /\ \A i \in last : fmt_data.channels[ch].data = printed[i].data
        /\ \A i \in DOMAIN messages : can_find_formatter(fmt_data, messages[i])

(***************************************************************************)
(* The statistics say how many connections use a channel, and list exactly *)
(* the names and the keys in use: nothing is left behind when the last one *)
(* goes, and no assertion of dec fails.  (channels_stat_impl::inc, dec,    *)
(* load_names, load_keys.)                                                 *)
(***************************************************************************)
ChannelsInUse ==
    LET mine == IF phase \in {"open", "last"} THEN DOMAIN fmt_data.channels ELSE {}
        users(ch) == Cardinality({o \in Subscribers : ch \in others[o]}) + IF ch \in mine THEN 1 ELSE 0
        used == {ch \in Channels \cup mine : users(ch) > 0}
    IN  /\ load_names(stat) = {ch[1] : ch \in used}
        /\ \A n \in load_names(stat) : load_keys(stat, n) = {ch[2] : ch \in {c \in used : c[1] = n}}
        /\ \A ch \in used : can_dec(stat, ch) /\ stat[ch[1]][ch[2]] = users(ch)

=============================================================================
