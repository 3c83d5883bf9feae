------------------------------ MODULE NetdbLines ----------------------------
(***************************************************************************)
(* lib/posix/options/networking/netdb_ent.c: the lines of the databases of *)
(* hosts, networks, protocols and services.                                *)
(*                                                                         *)
(* A line is a sequence of words and of the characters that the parser     *)
(* looks for: "sp", "tab", "#" and "/".                                    *)
(***************************************************************************)
EXTENDS Integers, SequencesExt

CONSTANTS
    LineMax,    \* NETDB_LINE_MAX, in words
    MaxAliases  \* the size of the alias arrays

skip_ws(s) ==
    LET word == {i \in 1..Len(s) : s[i] \notin {"sp", "tab"}} IN
    IF word = {} THEN <<>> ELSE SubSeq(s, Min(word), Len(s))

is_comment_or_blank(s) == skip_ws(s) = <<>> \/ Head(skip_ws(s)) = "#"

At(s, c) == {i \in 1..Len(s) : s[i] = c}

\* strchr ' ' or else '\t': a field, whether something follows it, and that.
Cut(s) ==
    LET sep == IF At(s, "sp") # {} THEN At(s, "sp") ELSE At(s, "tab") IN
    IF sep = {} THEN [head |-> s, more |-> FALSE, rest |-> <<>>]
    ELSE [head |-> SubSeq(s, 1, Min(sep) - 1), more |-> TRUE,
          rest |-> skip_ws(SubSeq(s, Min(sep) + 1, Len(s)))]

RECURSIVE Aliases(_, _)
Aliases(s, n) ==
    IF n = 0 THEN <<>>
    ELSE <<Cut(s).head>> \o (IF Cut(s).more THEN Aliases(Cut(s).rest, n - 1) ELSE <<>>)

\* The two fields that every line has, and the aliases that may follow.
Fields(line) ==
    LET one == Cut(skip_ws(line))
        two == Cut(one.rest)
    IN  [ok |-> one.more /\ one.rest # <<>>,
         first |-> one.head, second |-> two.head,
         aliases |-> IF two.rest = <<>> THEN <<>> ELSE Aliases(two.rest, MaxAliases - 1)]

\* strtoul and inet_pton, for the words in use
Value(field) == CASE field = <<"6">> -> 6 [] field = <<"7">> -> 7 [] field = <<"127">> -> 127
                  [] field = <<"65543">> -> 65543 [] OTHER -> 0
inet_pton(field) == field \in {<<"6">>, <<"7">>}

htons(n) == (n % 256) * 256 + n \div 256

NoEntry == [ok |-> FALSE]

parse_hosts_line(line) ==
    LET f == Fields(line) IN
    IF ~f.ok \/ ~inet_pton(f.first) THEN NoEntry
    ELSE [ok |-> TRUE, name |-> f.second, num |-> Value(f.first), aliases |-> f.aliases,
          proto |-> <<>>]

parse_networks_line(line) ==
    LET f == Fields(line) IN
    IF ~f.ok THEN NoEntry
    ELSE [ok |-> TRUE, name |-> f.first, num |-> Value(f.second), aliases |-> f.aliases,
          proto |-> <<>>]

parse_protocols_line(line) == parse_networks_line(line)

parse_services_line(line) ==
    LET f == Fields(line)
        slash == At(f.second, "/")
    IN  IF ~f.ok \/ slash = {} THEN NoEntry
        ELSE [ok |-> TRUE, name |-> f.first, aliases |-> f.aliases,
              num |-> htons(Value(SubSeq(f.second, 1, Min(slash) - 1)) % 65536),
              proto |-> SubSeq(f.second, Min(slash) + 1, Len(f.second))]

Parse(db, line) ==
    IF is_comment_or_blank(line) THEN NoEntry
    ELSE CASE db = "hosts" -> parse_hosts_line(line)
           [] db = "networks" -> parse_networks_line(line)
           [] db = "protocols" -> parse_protocols_line(line)
           [] db = "services" -> parse_services_line(line)

\* fgets reads a line that is too long in pieces.
RECURSIVE Pieces(_)
Pieces(line) == IF Len(line) < LineMax THEN <<line>>
                ELSE <<SubSeq(line, 1, LineMax - 1)>> \o Pieces(SubSeq(line, LineMax, Len(line)))

\* What get...ent and the searches read, one after another, from a file
ParsedFile(db, lines) ==
    LET read == FlattenSeq([i \in 1..Len(lines) |-> Pieces(lines[i])])
    IN  [i \in 1..Len(read) |-> Parse(db, read[i])]

-----------------------------------------------------------------------------
\* The reference for one line: the fields between single separators.
Join(words, sep) == FlattenSeq([i \in 1..Len(words) |->
    IF i = 1 THEN <<words[i]>> ELSE <<sep, words[i]>>])

\* A line whose words are separated by one kind of white space, whatever stands
\* before it, is parsed into its words: the number, the name, and as many
\* aliases as the array holds.
NetdbLinesParse(words, sep) ==
    Len(words) >= 2 /\ words[1] # "#" =>
        LET e == parse_networks_line(<<"tab">> \o Join(words, sep)) IN
        /\ e.ok /\ e.name = <<words[1]>> /\ e.num = Value(<<words[2]>>)
        /\ e.aliases = [i \in 1..Min({Len(words) - 2, MaxAliases - 1}) |-> <<words[i + 2]>>]
=============================================================================
