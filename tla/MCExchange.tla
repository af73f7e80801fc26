----------------------------- MODULE MCExchange -----------------------------
(***************************************************************************)
(* Instances of Exchange for TLC: requests with both line ends, every      *)
(* error a request line or a header can have, folded and repeated headers, *)
(* cookies, parameters, each websocket protocol with its keys there or     *)
(* missing, bodies of eight bytes and more, policy requests, and requests  *)
(* without a header or with line ends that differ.                         *)
(***************************************************************************)
EXTENDS Exchange

MCWidth ==
    ("GET" :> 3) @@ ("get" :> 3) @@ ("POST" :> 4) @@ ("HTTP/1.1" :> 8) @@ ("HTTP/1.0" :> 8) @@
    ("Host" :> 4) @@ ("host" :> 4) @@ ("policy-file-request/>" :> 21) @@ ("b8" :> 8) @@ ("b7" :> 7) @@
    ("Sec-WebSocket-Key1" :> 18) @@ ("Sec-WebSocket-Key2" :> 18) @@ ("long" :> 300)

MCLower ==
    ("GET" :> "get") @@ ("HTTP/1.1" :> "http/1.1") @@ ("HTTP/1.0" :> "http/1.0") @@
    ("Host" :> "host") @@ ("Range" :> "range") @@ ("Cookie" :> "cookie") @@ ("Origin" :> "origin") @@
    ("Connection" :> "connection") @@ ("Upgrade" :> "upgrade") @@
    ("Sec-WebSocket-Key" :> "sec-websocket-key") @@ ("Sec-WebSocket-Key1" :> "sec-websocket-key1") @@
    ("Sec-WebSocket-Key2" :> "sec-websocket-key2") @@ ("Sec-WebSocket-Version" :> "sec-websocket-version")

MCEscaped == (<<"2", "0">> :> "SP")
MCDigit == ("1" :> 1) @@ ("2" :> 2) @@ ("4" :> 4)

CRLF == <<"CR", "LF">>
LF == <<"LF">>

H(n, v) == [name |-> n, colon |-> TRUE, value |-> v, folded |-> <<>>]

Plain ==
    [method |-> "GET", uri |-> <<"/", "n">>, version |-> "HTTP/1.1", headers |-> <<H("Host", <<"h">>)>>,
     eol |-> CRLF, empty |-> CRLF, body |-> <<>>, trail |-> <<>>, params |-> <<>>, cookies |-> <<>>,
     receiver |-> <<"n">>, numbers |-> <<12, 14>>]

Lines ==
    {[Plain EXCEPT !.method = m, !.version = v, !.eol = e, !.empty = e] :
        m \in {"GET", "get", "POST"}, v \in {"HTTP/1.1", "HTTP/1.0"}, e \in {CRLF, LF}}

Uris ==
    {[Plain EXCEPT !.uri = <<"/">>], [Plain EXCEPT !.uri = <<"/", "n", "/">>],
     [Plain EXCEPT !.uri = <<"/", "n", "?", "p", "=", "a", "+", "b", "&", "q", "=", "%", "2", "0", "%", "2">>,
                   !.params = <<<<<<"p">>, <<"a", "SP", "b">>>>, <<<<"q">>, <<"SP", "%", "2">>>>>>],
     [Plain EXCEPT !.uri = <<"/", "n", "?", "p", "=", "/">>, !.params = <<<<<<"p">>, <<"/">>>>>>]}

Headers ==
    {[Plain EXCEPT !.headers = hs \o @, !.eol = e, !.empty = e] : e \in {CRLF, LF},
        hs \in {<<H("host", <<"first">>)>>, <<H("Range", <<"r">>)>>,
                <<[H("Host", <<"SP", "a">>) EXCEPT !.colon = FALSE]>>,
                <<[H("Origin", <<"o">>) EXCEPT !.folded = <<"p">>]>>,
                <<H("X", <<"long">>)>>}}
    \cup {[Plain EXCEPT !.headers = <<H("Cookie", <<"c", "=", "1", ";", "SP", "d", "=", "2">>)>> \o @,
                        !.cookies = (<<"c">> :> <<"1">>) @@ (<<"d">> :> <<"2">>)]}

Asks(proto) == <<H("Connection", <<"Upgrade">>), H("Upgrade", <<proto>>)>>

NewKeys ==
    {[Plain EXCEPT !.headers = hs \o Asks("websocket") \o <<H("Sec-WebSocket-Version", <<v>>)>> \o ks] :
        hs \in {Plain.headers, <<>>}, v \in {"7", "8", "13", "12"},
        ks \in {<<>>, <<H("Sec-WebSocket-Key", <<"k">>), H("Origin", <<"o">>)>>}}

OldKeys(bodies) ==
    {[Plain EXCEPT !.headers = <<H("Sec-WebSocket-Key1", <<"2", "SP", "SP", "4">>)>> \o @ \o Asks("WebSocket") \o ks,
                   !.body = b[1], !.trail = b[2], !.eol = e, !.empty = e] :
        ks \in {<<>>, <<H("Sec-WebSocket-Key2", <<"1", "SP", "4">>)>>, <<H("Sec-WebSocket-Key2", <<"4">>)>>},
        b \in bodies, e \in {CRLF, LF}}

Policies ==
    {[Plain EXCEPT !.method = "<", !.uri = u] :
        u \in {<<"<", "policy-file-request/>", "NUL">>, <<"<", "policy-file-request/>", "X", "NUL">>}}

\* None of these is ever recognised by the checker, except for a wrong method or version.
Odd ==
    {[Plain EXCEPT !.headers = <<>>, !.method = m, !.version = v, !.eol = e, !.empty = e, !.trail = t] :
        m \in {"GET", "POST"}, v \in {"HTTP/1.1", "HTTP/1.0"}, e \in {CRLF, LF}, t \in {<<>>, <<"b8">>}}
    \cup {[Plain EXCEPT !.eol = e, !.empty = IF e = LF THEN CRLF ELSE LF, !.trail = t] :
        e \in {CRLF, LF}, t \in {<<>>, <<"b8">>}}
    \cup {[Plain EXCEPT !.trail = <<"SP", "b7">>]}

MCRequests ==
    Odd \cup Lines \cup Uris \cup Headers \cup NewKeys \cup Policies
    \cup {[Plain EXCEPT !.headers = @ \o Asks("WebSocket")], [Plain EXCEPT !.trail = <<"b8">>]}
    \cup OldKeys({<<<<"b8">>, <<>>>>, <<<<"b8">>, <<"SP", "b7">>>>, <<<<"LF", "b7">>, <<>>>>, <<<<"SP", "b7">>, <<>>>>})

MCChannels == {<<"n", "k">>, <<"n", "l">>}

MCResponses ==
    LET one == formatter_by_channel(set_header(response_impl, "S", "1"), <<"n", "k">>, "d1", "f")
    IN  {response_impl, [response_impl EXCEPT !.formatter_id = "f", !.single_message = TRUE],
         [response_impl EXCEPT !.formatter_id = "unknown"], [response_impl EXCEPT !.content = TRUE],
         formatter_by_channel(one, <<"n", "k">>, "d2", "unknown"),
         formatter_by_channel(one, <<"n", "l">>, "", "")}

Msg(ch, d, c) == [channel |-> ch, data |-> d, content |-> c]

MCMessages ==
    {Msg(<<"n", "k">>, "d1", <<"a">>), Msg(<<"n", "k">>, "d2", <<"a", "b", "c">>),
     Msg(<<"n", "l">>, "", <<"a", "b">>), Msg(<<"n", "l">>, "d1", <<"a", "b", "c", "d">>),
     Msg(<<"", "">>, "", <<"a", "b", "c", "d", "e">>), Msg(<<"n", "k">>, "d1", <<>>)}

MCRefused == {<<"d1", "d1">>, <<"d2", "d2">>}

=============================================================================
