------------------------------- MODULE Request -------------------------------
(***************************************************************************)
(* Reading one HTTP request: request_checker, which asio calls with all    *)
(* that has arrived so far to learn whether the request is whole, and      *)
(* request_impl, which parses what the buffer holds once the checker says  *)
(* so.  Both split the text into lines with line_reader and know the end   *)
(* of the headers through request_helper, but only the parser takes the    *)
(* line ends out of a line that was joined from several.  The handler      *)
(* that names a connection after its url is here as well.                  *)
(***************************************************************************)
EXTENDS Text, TLC
LOCAL INSTANCE SequencesExt
LOCAL INSTANCE FiniteSetsExt

CONSTANT MaxRequestSize    \* settings::max_request_size()

ASSUME RequestAssumption == MaxRequestSize \in Nat

\* http_constants: what the words of a request are compared with.
get == <<"get">>
range_name == <<"range">>
cookie_name == <<"cookie">>
param_delimiter == {";", "&"}
protocol_version == <<"http/1.1">>
sec_websocket_key1 == <<"sec-websocket-key1">>
headers_end == <<"CR", "LF", "CR", "LF">>
nonstd_headers_end == <<"LF", "LF">>
policy_str == <<"<", "policy-file-request/>", "NUL">>

\* The codes of http_error that a request can be answered with.
bad_request == 400
forbidden == 403
not_found == 404
method_not_allowed == 405
entity_too_large == 413
range_not_satisfiable == 416
version_not_supported == 505
\* Any other exception has no code of its own.
exception == 1

(***************************************************************************)
(* request_helper.                                                         *)
(***************************************************************************)
\* The uri of a request line, or the error it is refused with.
parse_request_line(line) ==
    LET m == split_once(line, is_blank)
        u == split_once(m.second, is_blank)
        p == split_once(u.second, is_blank)
    IN  [uri  |-> u.first,
         code |-> CASE ~is_ci_equal(get, m.first) -> method_not_allowed
                    [] ~is_ci_equal(protocol_version, trim(p.first)) -> version_not_supported
                    [] OTHER -> 0]

\* Mutant: only the standard end of the headers is known.
StandardBreakOnly(s, l) ==
    IF starts_with(range(s, l.at, l.next), headers_end) THEN l.at + Len(headers_end) ELSE 0

\* Where the body begins when the headers end with line l of s, otherwise 0.
find_headers_break(s, l) ==
    LET end_line == range(s, l.at, l.next)
    IN  CASE starts_with(end_line, nonstd_headers_end) -> l.at + Len(nonstd_headers_end)
          [] starts_with(end_line, headers_end) -> l.at + Len(headers_end)
          [] OTHER -> 0

\* How many bytes of body to wait for because of this header.
check_read_body_ahead(line) ==
    LET h == split_once(line, {":"})
    IN  IF h.found /\ is_ci_equal(trim_right(h.first), sec_websocket_key1) THEN 8 ELSE 0

(***************************************************************************)
(* request_checker: has the request s arrived?  An exception of the parser *)
(* ends the reading, too: request_impl meets it again and answers.         *)
(***************************************************************************)
\* Mutant: the request line is parsed before its line end has arrived.
CheckPartialLine(s) ==
    LET ls == read_lines(s)
    IN  \/ parse_request_line(ls[1].line).code # 0
        \/ \E k \in 2..Len(ls) : find_headers_break(s, ls[k]) # 0

http_request_checker(s) ==
    LET ls    == read_lines(s)
        whole == ls[1].next > ls[1].at
        ahead(k) == Max({check_read_body_ahead(ls[i].line) : i \in 2..k})
    IN  whole /\ \/ parse_request_line(ls[1].line).code # 0
                 \/ \E k \in 2..Len(ls) :
                       LET body == find_headers_break(s, ls[k])
                       IN  body # 0 /\ size(range(s, body, Len(s) + 1)) >= ahead(k)

request_checker(s) ==
    LET min_size == 16    \* "get / http/1.1\n\n"
    IN  CASE size(s) < min_size -> FALSE
          [] size(s) > MaxRequestSize -> TRUE
          [] Head(s) = "<" -> size(s) >= size(policy_str)
          [] OTHER -> http_request_checker(s)

(***************************************************************************)
(* request_impl.  Header names are kept in lower case, which is what the   *)
(* case-insensitive order of the map amounts to.  A map keeps the first    *)
(* value of a key; the parameters are a multimap and keep every one.       *)
(***************************************************************************)
unfolded(l) == IF l.multiline THEN SelectSeq(l.line, LAMBDA c : c \notin is_line_end) ELSE l.line

insert(map, p) == map @@ (p[1] :> p[2])

insert_all(pairs) == FoldLeft(insert, <<>>, pairs)

parse_to(part) ==
    LET p == split_once(part, {"="}) IN <<urldecode(p.first), urldecode(p.second)>>

parse_query_string(query) ==
    [i \in DOMAIN parts(query, param_delimiter) |-> parse_to(parts(query, param_delimiter)[i])]

parse_cookies(cookies) ==
    [i \in DOMAIN parts(cookies, {";"}) |-> parse_to(trim(parts(cookies, {";"})[i]))]

parse_uri(uri) == parse_query_string(split_once(uri, {"?"}).second)

parse_headers_line(line) ==
    LET h    == split_once(line, {":"})
        head == trim_right(h.first)
    IN  [head |-> [i \in DOMAIN head |-> to_lower(head[i])],
         tail |-> trim(h.second),
         code |-> CASE ~h.found -> bad_request
                    [] is_ci_equal(range_name, head) -> range_not_satisfiable
                    [] OTHER -> 0]

\* The request in s; its code is the one of the first line that throws.
request_impl(s) ==
    LET ls    == read_lines(s)
        first == parse_request_line(unfolded(ls[1]))
        stops == {k \in 2..Len(ls) : find_headers_break(s, ls[k]) # 0}
        last  == Min(stops \cup {Len(ls)})
        hdrs  == [i \in 1..(last - 1) |-> parse_headers_line(unfolded(ls[i + 1]))]
        codes == SelectSeq(<<first.code>> \o [i \in DOMAIN hdrs |-> hdrs[i].code], LAMBDA c : c # 0)
        cookies == SelectSeq(hdrs, LAMBDA h : is_ci_equal(cookie_name, h.head))
    IN  [code    |-> IF codes = <<>> THEN 0 ELSE Head(codes),
         uri     |-> first.uri,
         params  |-> parse_uri(first.uri),
         headers |-> insert_all([i \in DOMAIN hdrs |-> <<hdrs[i].head, hdrs[i].tail>>]),
         cookies |-> insert_all(FlattenSeq([i \in DOMAIN cookies |-> parse_cookies(cookies[i].tail)])),
         body    |-> IF stops = {} THEN <<>>
                     ELSE range(s, find_headers_break(s, ls[last]), Len(s) + 1),
         websocket |-> FALSE]

\* request::header, cookie and param: an absent one reads as empty.
header(req, name) == IF name \in DOMAIN req.headers THEN req.headers[name] ELSE <<>>

(***************************************************************************)
(* url_response_handler: the receiver is what stands between the last      *)
(* slash and the last question mark.  When the slash comes later the range *)
(* has a negative size, and reserving it throws.                           *)
(***************************************************************************)
has_enough_data(req) == req.uri # <<"/">>

receiver(uri) ==
    LET s == rfind(uri, "/") + 1
        q == IF rfind(uri, "?") # 0 THEN rfind(uri, "?") ELSE Len(uri) + 1
        res == urldecode(range(uri, s, q))
    IN  CASE s > q     -> [code |-> exception, name |-> <<>>]
          [] res = <<>> -> [code |-> not_found, name |-> <<>>]
          [] OTHER      -> [code |-> 0, name |-> res]

=============================================================================
