------------------------------ MODULE WebSocket ------------------------------
(***************************************************************************)
(* websocket_info: whether a request opens a websocket and in which of the *)
(* protocols the code knows (drafts 75 and 76 with "Upgrade: WebSocket",   *)
(* versions 7, 8 and 13 with "Upgrade: websocket"), the handshake that     *)
(* answers it, and the frames a message is written in.                     *)
(*                                                                         *)
(* A digest is a tuple of what goes into it.  A line of the handshake is   *)
(* a pair of a name and a value; the date, the server and the type, which  *)
(* no decision depends on, are left out.                                   *)
(***************************************************************************)
EXTENDS Request, Integers
LOCAL INSTANCE SequencesExt

CONSTANTS SmallMsgMaxSize,    \* WS_SMALL_MSG_MAX_SIZE
          Digit               \* the value of every symbol that is a digit

ASSUME WebSocketAssumption == SmallMsgMaxSize \in Nat \ {0}

\* A websocket_info as its constructor leaves it.
no_websocket ==
    [empty |-> TRUE, newsec |-> FALSE, proto_13 |-> FALSE,
     location |-> <<>>, origin |-> <<>>, protocol |-> <<>>, sec_data |-> <<>>]

valid(ws) == ws.location # <<>>

(***************************************************************************)
(* The keys of draft 76: the number its digits make, divided by the number *)
(* of its spaces, of which there has to be one.  The quotient is kept in   *)
(* 32 bits, which the protocol promises to suffice and the code does not   *)
(* check; here no key has more.                                            *)
(***************************************************************************)
get_websocket_key_value(key) ==
    LET v  == FoldLeft(LAMBDA n, c : IF c \in DOMAIN Digit THEN n * 10 + Digit[c] ELSE n, 0, key)
        ac == Len(SelectSeq(key, LAMBDA c : c = "SP"))
    IN  IF ac = 0 THEN [code |-> exception, value |-> 0]
                  ELSE [code |-> 0, value |-> v \div ac]

parse_sec_key(req) ==
    LET key == header(req, <<"sec-websocket-key">>)
    IN  [code |-> IF key = <<>> THEN exception ELSE 0,
         sec_data |-> <<"sha1", key>>]

\* Mutant: the digest is made of the whole body.
SecretOfAllTheBody(req) ==
    LET v(n) == get_websocket_key_value(header(req, <<n>>))
    IN  IF {<<"sec-websocket-key1">>, <<"sec-websocket-key2">>} \subseteq DOMAIN req.headers
        THEN [code |-> v("sec-websocket-key2").code,
              sec_data |-> <<"md5", v("sec-websocket-key1").value, v("sec-websocket-key2").value, req.body>>]
        ELSE [code |-> 0, sec_data |-> <<>>]

\* Without both keys the handshake is that of draft 75, which has no secret.
parse_sec_keys(req) ==
    LET key1 == header(req, <<"sec-websocket-key1">>)
        key2 == header(req, <<"sec-websocket-key2">>)
        v1   == get_websocket_key_value(key1)
        v2   == get_websocket_key_value(key2)
        body == CHOOSE b \in {SubSeq(req.body, 1, n) : n \in 0..Len(req.body)} : size(b) = 8
    IN  CASE key1 = <<>> \/ key2 = <<>> -> [code |-> 0, sec_data |-> <<>>]
          [] size(req.body) < 8 \/ v1.code # 0 \/ v2.code # 0 ->
                 [code |-> exception, sec_data |-> <<>>]
          [] OTHER -> [code |-> 0, sec_data |-> <<"md5", v1.value, v2.value, body>>]

(***************************************************************************)
(* parse: the info after a request, and whether it threw.  An info that    *)
(* threw once the protocol was known stays neither empty nor valid.        *)
(***************************************************************************)
parse(req, secure) ==
    LET upgrade  == header(req, <<"upgrade">>)
        version  == header(req, <<"sec-websocket-version">>)
        host     == header(req, <<"host">>)
        newsec   == upgrade = <<"websocket">>
        proto_13 == newsec /\ version = <<"13">>
        known    == [no_websocket EXCEPT !.empty = FALSE, !.newsec = newsec, !.proto_13 = proto_13]
        sec      == IF newsec THEN parse_sec_key(req) ELSE parse_sec_keys(req)
        origin   == header(req, <<"origin">>)
        sec_origin == header(req, <<"sec-websocket-origin">>)
        protocol == header(req, <<"websocket-protocol">>)
    IN  CASE \/ header(req, <<"connection">>) # <<"Upgrade">>
             \/ upgrade \notin {<<"websocket">>, <<"WebSocket">>} ->
                 [code |-> 0, ws |-> no_websocket]
          [] newsec /\ version \notin {<<"7">>, <<"8">>, <<"13">>} ->
                 [code |-> exception, ws |-> no_websocket]
          [] host = <<>> \/ sec.code # 0 ->
                 [code |-> exception, ws |-> known]
          [] OTHER ->
                 [code |-> 0,
                  ws |-> [known EXCEPT
                     !.sec_data = sec.sec_data,
                     !.location = <<IF secure THEN "wss://" ELSE "ws://">> \o host \o req.uri,
                     !.origin   = IF newsec /\ ~proto_13 /\ sec_origin # <<>> THEN sec_origin ELSE origin,
                     !.protocol = IF newsec THEN split_once(protocol, {","}).first ELSE protocol]]

\* The lines a handshake begins with; the names get the prefix "Sec-" with
\* a secret.
write_headers(ws) ==
    LET prefix == IF ws.sec_data = <<>> THEN <<>> ELSE <<"Sec-">>
        optional(name, value) == IF value = <<>> THEN <<>> ELSE <<(<<prefix \o name, value>>)>>
    IN  <<(<<<<"HTTP/1.1">>, <<IF ws.newsec THEN "101 Switching" ELSE "101 Handshake">>>>),
          (<<<<"Upgrade">>, <<"WebSocket">>>>), (<<<<"Connection">>, <<"Upgrade">>>>)>>
        \o optional(<<"WebSocket-Origin">>, ws.origin)
        \o <<(<<prefix \o <<"WebSocket-Location">>, ws.location>>)>>
        \o optional(<<"WebSocket-Protocol">>, ws.protocol)
        \o IF ws.newsec THEN <<(<<<<"Sec-WebSocket-Accept">>, ws.sec_data>>)>> ELSE <<>>

\* What follows the headers: the secret of draft 76.
write_body(ws) == IF ws.newsec THEN <<>> ELSE ws.sec_data

\* The close frame is its first byte alone.
write_close(ws) == IF ws.newsec THEN <<[head |-> 136, size |-> 0, data |-> <<>>]>> ELSE <<>>

(***************************************************************************)
(* The frames of a message: one text frame, or a first chunk, middle ones  *)
(* and a last one, none longer than SmallMsgMaxSize.  The old protocol has *)
(* one frame between the bytes 0 and 255, without a size.                  *)
(***************************************************************************)
\* Mutant: the text pointer does not advance past the first chunk.
FirstChunkTwice(ws, msg) ==
    LET first == SubSeq(msg, 1, SmallMsgMaxSize)
    IN  IF Len(msg) <= SmallMsgMaxSize THEN <<[head |-> 129, size |-> Len(msg), data |-> msg]>>
        ELSE <<[head |-> 1, size |-> Len(first), data |-> first],
               [head |-> 128, size |-> Len(first), data |-> first]>>

write_message(ws, msg) ==
    LET frame(head, data) == [head |-> head, size |-> Len(data), data |-> data]
        rest[i \in 1..(Len(msg) + 1)] ==
            LET left == Len(msg) + 1 - i
            IN  IF left > SmallMsgMaxSize
                THEN <<frame(0, SubSeq(msg, i, i + SmallMsgMaxSize - 1))>> \o rest[i + SmallMsgMaxSize]
                ELSE <<frame(128, SubSeq(msg, i, Len(msg)))>>
    IN  CASE ~ws.newsec -> <<[head |-> 0, size |-> 255, data |-> msg]>>
          [] ws.newsec /\ Len(msg) <= SmallMsgMaxSize -> <<frame(129, msg)>>
          [] OTHER -> <<frame(1, SubSeq(msg, 1, SmallMsgMaxSize))>> \o rest[SmallMsgMaxSize + 1]

=============================================================================
