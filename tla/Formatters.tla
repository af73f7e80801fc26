----------------------------- MODULE Formatters -----------------------------
(***************************************************************************)
(* What a response asks for and what the messages of its connection are    *)
(* printed with: response_impl, channel_id, the formatters_factory and the *)
(* two kinds of formatters_data, one formatter for every message or one    *)
(* for each channel the response subscribed to, and the two-level counters *)
(* of channels_stat_impl.                                                  *)
(*                                                                         *)
(* A channel is a pair of a name and a key; a formatter is the identifier  *)
(* it was created from.                                                    *)
(***************************************************************************)
EXTENDS Naturals, Sequences, TLC
LOCAL INSTANCE SequencesExt
LOCAL INSTANCE Functions

CONSTANTS Creators,    \* identifiers a formatter_creator is attached for
          Refused      \* pairs of message data and channel data a filter refuses

NoFormatter == ""

\* A response as its constructor leaves it.
response_impl ==
    [formatter_id |-> NoFormatter, channels_data |-> <<>>, headers |-> <<>>,
     content |-> FALSE, single_message |-> FALSE]

\* channel_id::empty().
no_channel(ch) == ch = <<"", "">>

\* A channel named twice keeps its first data and gets the last formatter.
formatter_by_channel(resp, ch, data, fmt_id) ==
    LET kept == IF ch \in DOMAIN resp.channels_data THEN resp.channels_data[ch].data ELSE data
    IN  IF no_channel(ch) THEN resp
        ELSE [resp EXCEPT !.channels_data = (ch :> [data |-> kept, fmt_id |-> fmt_id]) @@ @]

\* The first value given to a header stays.
set_header(resp, name, value) ==
    IF name = "" THEN resp ELSE [resp EXCEPT !.headers = @ @@ (name :> value)]

(***************************************************************************)
(* formatters_factory and formatters_data.                                 *)
(***************************************************************************)
find(fmt_id) == IF fmt_id \in Creators THEN fmt_id ELSE NoFormatter

\* formatters_data_channels, formatters_data_simple, or none at all.
create_formatters_data(resp) ==
    IF resp.channels_data # <<>>
    THEN [kind |-> "channels", fmt |-> NoFormatter,
          channels |-> [ch \in DOMAIN resp.channels_data |->
              [data |-> resp.channels_data[ch].data, fmt |-> find(resp.channels_data[ch].fmt_id)]]]
    ELSE [kind |-> IF find(resp.formatter_id) = NoFormatter THEN "none" ELSE "simple",
          fmt |-> find(resp.formatter_id), channels |-> <<>>]

\* filter is whether the server has a message_filter.
allow_message(fd, msg, filter) ==
    IF fd.kind = "channels"
    THEN /\ ~no_channel(msg.channel)
         /\ msg.channel \in DOMAIN fd.channels
         /\ filter => <<msg.data, fd.channels[msg.channel].data>> \notin Refused
    ELSE filter => <<msg.data, "">> \notin Refused

\* The assertions of find_formatter.
can_find_formatter(fd, msg) ==
    fd.kind = "channels" => ~no_channel(msg.channel) /\ msg.channel \in DOMAIN fd.channels

find_formatter(fd, msg) ==
    IF fd.kind = "channels" THEN fd.channels[msg.channel].fmt ELSE fd.fmt

\* Mutant: a message without data clears the channel's.
UpdateAlways(fd, msg) ==
    IF fd.kind = "channels" /\ msg.channel \in DOMAIN fd.channels
    THEN [fd EXCEPT !.channels[msg.channel].data = msg.data]
    ELSE fd

\* The channel remembers the data of the last message that had any.
update(fd, msg) ==
    IF fd.kind = "channels" /\ msg.data # "" /\ msg.channel \in DOMAIN fd.channels
    THEN [fd EXCEPT !.channels[msg.channel].data = msg.data]
    ELSE fd

(***************************************************************************)
(* channels_stat_impl: for every name the keys in use, with how many       *)
(* connections use each.  A name whose last key goes is erased.            *)
(***************************************************************************)
inc(stat, ch) ==
    LET keys == IF ch[1] \in DOMAIN stat THEN stat[ch[1]] ELSE <<>>
        n    == IF ch[2] \in DOMAIN keys THEN keys[ch[2]] ELSE 0
    IN  IF ch[1] = "" THEN stat
        ELSE (ch[1] :> ((ch[2] :> n + 1) @@ keys)) @@ stat

\* The assertions of dec.
can_dec(stat, ch) ==
    ch[1] # "" => /\ ch[1] \in DOMAIN stat
                  /\ ch[2] \in DOMAIN stat[ch[1]]
                  /\ stat[ch[1]][ch[2]] > 0

\* Mutant: a name stays when its last key goes.
KeepName(stat, ch) ==
    LET keys == stat[ch[1]]
    IN  [stat EXCEPT ![ch[1]] = IF keys[ch[2]] > 1 THEN [keys EXCEPT ![ch[2]] = @ - 1]
                                ELSE Restrict(keys, DOMAIN keys \ {ch[2]})]

dec(stat, ch) ==
    LET keys == stat[ch[1]]
        left == IF keys[ch[2]] > 1 THEN [keys EXCEPT ![ch[2]] = @ - 1]
                ELSE Restrict(keys, DOMAIN keys \ {ch[2]})
    IN  CASE ch[1] = "" -> stat
          [] ch[1] # "" /\ left # <<>> -> [stat EXCEPT ![ch[1]] = left]
          [] OTHER -> Restrict(stat, DOMAIN stat \ {ch[1]})

load_names(stat) == DOMAIN stat

load_keys(stat, name) == IF name \in DOMAIN stat THEN DOMAIN stat[name] ELSE {}

update_channels_stat(fd, stat, add) ==
    FoldLeft(LAMBDA st, ch : IF add THEN inc(st, ch) ELSE dec(st, ch),
             stat, SetToSeq(DOMAIN fd.channels))

=============================================================================
