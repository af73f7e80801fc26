------------------------------ MODULE Settings ------------------------------
(***************************************************************************)
(* The settings of the daemon: variables in values (variable_map.cpp) and  *)
(* the getters of xml_settings.cpp.  A document is a function from the     *)
(* paths that it has to their texts; a text is a sequence of tokens, where *)
(* "${" and "}" are the two that substitute() looks for.                   *)
(***************************************************************************)
EXTENDS Integers, Sequences, FiniteSets

CONSTANTS
    Vars,     \* vars_: the variables of the configuration, by name
    NumberOf  \* what lexical_cast makes of the texts that are numbers

\* What is thrown instead of a text, and instead of a number.
Error     == <<"error">>
NotNumber == -1

begin_token == "${"
end_token   == "}"

FirstOf(token, str) == CHOOSE i \in 1..Len(str) : str[i] = token /\ \A j \in 1..(i - 1) : str[j] # token
LastOf(token, str) ==
    CHOOSE i \in 1..Len(str) : str[i] = token /\ \A j \in (i + 1)..Len(str) : str[j] # token
Has(token, str) == \E i \in 1..Len(str) : str[i] = token

lookup(name) == IF name \in DOMAIN Vars THEN Vars[name] ELSE Error

\* Mutation: the first "}" ends the variable.
SubstituteToFirst(text) ==
    LET Resolve[str \in Seq(STRING)] ==
            IF ~Has(begin_token, str) THEN str
            ELSE IF ~Has(end_token, str) THEN Error
            ELSE LET begin == FirstOf(begin_token, str)
                     end   == FirstOf(end_token, str)
                     name  == Resolve[SubSeq(str, begin + 1, end - 1)]
                     val   == IF name = Error THEN Error ELSE lookup(name)
                 IN IF val = Error THEN Error
                    ELSE SubSeq(str, 1, begin - 1) \o val \o SubSeq(str, end + 1, Len(str))
    IN Resolve[text]

\* From the first "${" to the last "}".  When the "}" comes first the lengths
\* wrap: the name is all that follows, and it is replaced unless the "}" stands
\* right before the "${".
substitute(text) ==
    LET Resolve[str \in Seq(STRING)] ==
            IF ~Has(begin_token, str) THEN str
            ELSE IF ~Has(end_token, str) THEN Error
            ELSE LET begin == FirstOf(begin_token, str)
                     end   == LastOf(end_token, str)
                     name  == Resolve[SubSeq(str, begin + 1,
                                             IF end < begin THEN Len(str) ELSE end - 1)]
                     val   == IF name = Error THEN Error ELSE lookup(name)
                     rest  == IF end = begin - 1 THEN SubSeq(str, begin, Len(str))
                              ELSE IF end < begin THEN <<>> ELSE SubSeq(str, end + 1, Len(str))
                 IN IF val = Error THEN Error ELSE SubSeq(str, 1, begin - 1) \o val \o rest
    IN Resolve[text]

\* xml_settings::value, and settings::as for numbers of a type.
value(doc, name) == IF name \in DOMAIN doc THEN substitute(doc[name]) ELSE Error

as(doc, name, type) ==
    LET text == value(doc, name)
    IN IF text \in DOMAIN NumberOf /\ NumberOf[text] \in type THEN NumberOf[text] ELSE NotNumber

\* No number of NumberOf is too large for an unsigned int.
unsigned_short == 0..65535
unsigned_int   == Nat

\* The getters, as init() uses them.
timeouts_readable(doc) ==
    NotNumber \notin {as(doc, "read-timeout", unsigned_short), as(doc, "write-timeout", unsigned_short),
                      as(doc, "inactive-timeout", unsigned_int), as(doc, "ping-interval", unsigned_int)}
endpoint_readable(doc) ==
    /\ value(doc, "address") # Error
    /\ NotNumber \notin {as(doc, "port", unsigned_short), as(doc, "backlog", unsigned_short)}
ssl_endpoint_readable(doc) ==
    value(doc, "ssl-address") # Error /\ as(doc, "ssl-backlog", unsigned_short) # NotNumber

\* A port that is not there is 0, one that is no number throws.
ssl_port(doc) == IF value(doc, "ssl-port") = Error THEN 0 ELSE as(doc, "ssl-port", unsigned_short)

listener_threads(doc) == as(doc, "listener-threads", unsigned_short)

\* The value is looked up once more, as the name of a setting.
handler_threads(doc) ==
    LET name == value(doc, "handler-threads")
    IN IF name = Error THEN NotNumber ELSE as(doc, name, unsigned_short)

-----------------------------------------------------------------------------
(* What substitution means.  In a text whose braces match, each variable   *)
(* goes from its "${" to the "}" that matches it; the text in between,     *)
(* itself expanded, is its name.  What a variable stands for is put in as  *)
(* it is.                                                                  *)

Opened(str) == {i \in 1..Len(str) : str[i] = begin_token}
Closed(str) == {i \in 1..Len(str) : str[i] = end_token}

\* How many variables are open after the first n tokens.
Depth(str, n) == Cardinality(Opened(str) \cap (1..n)) - Cardinality(Closed(str) \cap (1..n))

Balanced(str) == Depth(str, Len(str)) = 0 /\ \A n \in 1..Len(str) : Depth(str, n) >= 0

\* The "}" that matches the first "${".
Match(str) ==
    CHOOSE j \in Closed(str) : Depth(str, j) = 0 /\ \A i \in Closed(str) \cap (1..(j - 1)) : Depth(str, i) > 0

Expanded(text) ==
    LET Expand[str \in Seq(STRING)] ==
            IF ~Has(begin_token, str) THEN str
            ELSE LET begin == FirstOf(begin_token, str)
                     end   == Match(str)
                     var   == Expand[SubSeq(str, begin + 1, end - 1)]
                     val   == IF var = Error THEN Error ELSE lookup(var)
                     rest  == Expand[SubSeq(str, end + 1, Len(str))]
                 IN IF Error \in {val, rest} THEN Error ELSE SubSeq(str, 1, begin - 1) \o val \o rest
    IN Expand[text]

\* Variables are nested in each other, and none stands beside another.
Nested(str) == \A i \in Opened(str), j \in Closed(str) : i < j
=============================================================================
