------------------------------ MODULE MCDaemon ------------------------------
(* A daemon with small configurations, in which each setting may be        *)
(* missing.  Variables stand for letters, for a variable and for braces    *)
(* that do not match.                                                      *)
EXTENDS Daemon, TLC

MCVars ==
    (<<"a">> :> <<"b">>) @@ (<<"b">> :> <<"a">>) @@ (<<"a", "b">> :> <<"x">>) @@
    (<<"x">> :> <<"${", "a", "}">>) @@ (<<"b", "b">> :> <<"}", "${">>)
MCNumberOf == (<<"1">> :> 1) @@ (<<"70000">> :> 70000)
MCModules == {<<"a">>, <<"x">>}

TextsOf(tokens, n) == UNION {[1..k -> tokens] : k \in 1..n}
MCTexts ==
    TextsOf({"${", "}", "a", "b"}, 4)
    \union {t \in TextsOf({"${", "}", "a", "b"}, 6) \union TextsOf({"${", "}", "a"}, 8) : Balanced(t)}

Names == {"read-timeout", "write-timeout", "inactive-timeout", "ping-interval", "address", "port",
          "backlog", "handler-threads", "listener-threads"}
SslNames == {"ssl-address", "ssl-port", "ssl-backlog"}
Complete(names) == [n \in names |-> <<"1">>]

MCDocuments ==
    {Complete(Names), Complete(Names \union SslNames),
     Complete(Names) @@ ("ssl-port" :> <<"a">>),
     ("read-timeout" :> <<"70000">>) @@ Complete(Names)}
    \union {Complete(Names \ {n}) : n \in Names}
    \union {Complete((Names \union SslNames) \ {n}) : n \in {"ssl-address", "ssl-backlog"}}

MCArguments == {<<>>, <<"--config=">>, <<"--config=", "--help">>, <<"--config=", "--dump-variable=">>}
=============================================================================
