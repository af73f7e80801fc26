-------------------------------- MODULE Text --------------------------------
(***************************************************************************)
(* The text operations the request reader is built from: the character     *)
(* classes of functors.hpp, the splitting and trimming of string_utils.hpp *)
(* over the half-open ranges of range.hpp, line_reader.hpp and             *)
(* urlencode.hpp.                                                          *)
(*                                                                         *)
(* A text is a sequence of symbols.  A symbol is one character, or a word  *)
(* no operation looks into (a method, a header name, a piece of a value):  *)
(* what the operations decide depends on blanks, line ends and delimiters, *)
(* which are symbols of their own, and on the length of a text in bytes,   *)
(* which Width gives.  A predicate on characters is the set of those that  *)
(* satisfy it.                                                             *)
(***************************************************************************)
EXTENDS Naturals, Sequences
LOCAL INSTANCE SequencesExt
LOCAL INSTANCE FiniteSetsExt

CONSTANTS Width,     \* bytes of every symbol longer than one byte
          Lower,     \* the lower case of every symbol that has another one
          Escaped    \* the character that a pair of hexadecimal digits names

ASSUME TextAssumption == \A w \in DOMAIN Width : Width[w] \in Nat \ {0}

is_blank == {"SP", "TAB"}

is_line_end == {"CR", "LF"}

is_space == is_blank \cup is_line_end

to_lower(c) == IF c \in DOMAIN Lower THEN Lower[c] ELSE c

is_ci_equal(s, t) ==
    Len(s) = Len(t) /\ \A i \in DOMAIN s : to_lower(s[i]) = to_lower(t[i])

\* std::distance over a text.
size(s) == MapThenSumSet(LAMBDA i : IF s[i] \in DOMAIN Width THEN Width[s[i]] ELSE 1, DOMAIN s)

\* The part of s between two positions, the second one excluded.
range(s, begin, end) == SubSeq(s, begin, end - 1)

\* The first position of s, from begin on, with a character of the class.
find_if(s, begin, class) ==
    Min({i \in begin..Len(s) : s[i] \in class} \cup {Len(s) + 1})

find_if_not(s, begin, class) ==
    Min({i \in begin..Len(s) : s[i] \notin class} \cup {Len(s) + 1})

rfind(s, c) == Max({i \in DOMAIN s : s[i] = c} \cup {0})

trim_left(s) == range(s, find_if_not(s, 1, is_space), Len(s) + 1)

trim_right(s) == SubSeq(s, 1, Max({i \in DOMAIN s : s[i] \notin is_space} \cup {0}))

trim(s) == trim_left(trim_right(s))

do_split(s, pos) ==
    [first  |-> range(s, 1, pos),
     second |-> range(s, pos + 1, Len(s) + 1),
     found  |-> pos <= Len(s)]

\* split_once, split_first_of_once and split_if_once: at the first character
\* of the class.
split_once(s, class) == do_split(s, find_if(s, 1, class))

starts_with(s, prefix) == IsPrefix(prefix, s)

(***************************************************************************)
(* One line from position begin on: it ends at the first run of line ends  *)
(* that no blank follows; a run that a blank follows joins the next line   *)
(* to this one (multiline).  at is where its run of line ends begins, next *)
(* where the following line does.                                          *)
(***************************************************************************)
read_line(s, begin) ==
    LET after(i) == find_if_not(s, i, is_line_end)
        runs == {i \in begin..Len(s) :
                    s[i] \in is_line_end /\ (i = begin \/ s[i - 1] \notin is_line_end)}
        ends == {i \in runs : after(i) > Len(s) \/ s[after(i)] \notin is_blank}
        at   == Min(ends \cup {Len(s) + 1})
    IN  [line |-> range(s, begin, at), at |-> at, next |-> after(at),
         multiline |-> \E i \in runs : i < at]

\* The lines a reader returns one after another until it returns false.
read_lines(s) ==
    LET from[i \in 1..(Len(s) + 1)] ==
            IF i > Len(s) THEN <<>>
            ELSE LET l == read_line(s, i) IN <<l>> \o from[l.next]
    IN  from[1]

\* The parts a loop over split_once takes off s until nothing is left.
parts(s, class) ==
    LET from[i \in 1..(Len(s) + 2)] ==
            IF i > Len(s) THEN <<>>
            ELSE LET e == find_if(s, i, class) IN <<range(s, i, e)>> \o from[e + 1]
    IN  from[1]

\* An escape the text is too short for stays as it is.
urldecode(s) ==
    LET from[i \in 1..(Len(s) + 1)] ==
            IF i > Len(s) THEN <<>>
            ELSE CASE s[i] = "+" -> <<"SP">> \o from[i + 1]
                   [] s[i] = "%" /\ Len(s) - i >= 2 ->
                          <<Escaped[<<s[i + 1], s[i + 2]>>]>> \o from[i + 3]
                   [] OTHER -> <<s[i]>> \o from[i + 1]
    IN  from[1]

=============================================================================
