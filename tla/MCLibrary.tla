------------------------------ MODULE MCLibrary -----------------------------
(***************************************************************************)
(* Message traffic, signals, shared memory, the network databases, socket  *)
(* addresses, files and getopt, which share no state, and the pure         *)
(* functions of the library, checked in one run.  The first state says     *)
(* which of the parts moves; for the pure functions it holds their input,  *)
(* and there is nothing more to do.                                        *)
(***************************************************************************)
EXTENDS LibraryParts, SequencesExt, TLC

VARIABLE in

-----------------------------------------------------------------------------
(* The instances *)

\* Fields separated by blanks or tabs, a comment, a port that does not fit 16
\* bits, a line that is longer than the buffer.
Databases ==
    [hosts |-> << <<"7", "sp", "a", "sp", "b">> >>,
     networks |-> << <<"a", "sp", "6">>, <<"b", "tab", "7", "tab", "x">> >>,
     protocols |-> << <<"b", "sp", "6">> >>,
     services |-> << <<"a", "sp", "7", "/", "tcp">>, <<"#">>,
        <<"b", "sp", "65543", "/", "udp", "sp", "x", "sp", "a", "sp", "6", "/", "tcp">> >>]
Lin == INSTANCE NetdbLines WITH LineMax <- 9, MaxAliases <- 3
ParsedFiles == [db \in DOMAIN Databases |-> Lin!ParsedFile(db, Databases[db])]
ParsedDatabases == ParsedFiles     \* TLC computes ParsedFiles once
Key(name, num, proto) == [name |-> name, num |-> num, proto |-> proto]
NetKeys == {Key(<<"b">>, -1, <<>>), Key(<<"loopback">>, -1, <<>>), Key(<<>>, 6, <<>>),
            Key(<<>>, Lin!htons(7), <<"udp">>)}

Address(f, scope, path) == [family |-> f, scope |-> scope, path |-> path, as |-> "both"]
SomeAddresses ==
    {Address("in", 0, 0), Address("in6", 1, 0), Address("in6", 2, 0), Address("un", 0, 1),
     Address("un", 0, 2), Address("can", 0, 0), Address("packet", 0, 0)}
Sizes == [posix |-> [in |-> 4, in6 |-> 7, un |-> 6, can |-> 2, packet |-> 3],
          zephyr |-> [in |-> 2, in6 |-> 6, un |-> 5, can |-> 2, packet |-> 3]]
Paths == [posix |-> 2, zephyr |-> 1]

Directories == [d1 |-> <<1, 3>>, d2 |-> <<>>]

\* An option with an argument alone, first and last in a group, and separate from
\* its argument; long options by their whole name and in the short form.
Arguments == {<<"-", "a">>, <<"-", "b">>, <<"-", "a", "b">>, <<"-", "b", "a">>, <<"-", "a", "c", "a">>,
              <<"x">>, <<"-", "-">>, <<"-">>, <<"-", "-", "l", "o">>, <<"-", "-", "r", "e", "=", "a">>,
              <<"-", "-", "r", "e">>, <<"-", "-", "f", "l">>, <<"-", "l", "o">>, <<"-", "z">>}
GetoptArgvs == {<<<<"p">>>> \o s : s \in UNION {[1..n -> Arguments] : n \in 0..3}}
Long(n, a, v, f) == [name |-> n, has_arg |-> a, val |-> v, flag |-> f]
ShortOptions == <<"a", "b", ":", "c", "a", ":">>
LongOptions == <<Long(<<"l", "o">>, "no_argument", "L", FALSE),
                 Long(<<"r", "e">>, "required_argument", "b", FALSE),
                 Long(<<"f", "l">>, "optional_argument", "F", TRUE)>>
Ref == INSTANCE GetoptReference

Txt == INSTANCE Text WITH MaxRecursion <- 64
Mon == INSTANCE Money WITH CHAR_MAX <- 127, FracDigits <- 127, UintDigits <- 5, UINT64 <- 262144
Acc == INSTANCE Accounts

-----------------------------------------------------------------------------
(* The inputs of the pure functions, each with its kind *)

a == 97
b == 98
A == 65
SeqsOf(S, lo, hi) == UNION {[1..n -> S] : n \in lo..hi}

PatternItems == {Txt!Lit(a), Txt!Lit(Txt!Slash), Txt!Quoted(Txt!Star), Txt!AnyChar, Txt!AnyString,
                 Txt!OneOf({a, b}, <<a, Txt!Dash, b>>),
                 Txt!NoneOf({a, Txt!Close}, <<Txt!Close, a>>), Txt!OneOf({a, b, A}, <<Txt!Alpha>>)}
Patterns == SeqsOf(PatternItems, 0, 3)
Subjects == SeqsOf({a, A, Txt!Slash, Txt!Dot}, 0, 2) \cup {<<a, Txt!Slash, Txt!Dot>>, <<Txt!Star, b, a>>}
FlagSets == {{}, {"PATHNAME", "PERIOD"}, {"CASEFOLD", "PATHNAME"}, {"LEADING_DIR", "PERIOD"}}

Tokens == SeqsOf({a, b, Txt!Comma, Txt!Equals}, 0, 4)
Keywords == << <<a, b>>, <<a>> >>

Formats == [flags : {<<>>, <<"+">>, <<"(">>, <<"-">>}, fill : {" ", "*"}, width : {0, 3, 12},
            left : {0, 1, 4}, right : {0, 1, 2, 6}]
Amounts == {-801, -100, -12, -4, -1, 0, 1, 3, 4, 12, 20, 27, 795, 799, 8000}

AccountLines ==
    {<<"a", ":", "x", ":", "1", ":", "\n">>, <<"b", ":", ":", "1", "2", ":", "a", "\n">>,
     <<"a", ":", "x", ":", "2", ":", "a", ",", "b", "\n">>, <<"\n">>, <<"a", "\n">>,
     <<"c", ":", ":", "1", ":", "a", ",", "a", ",", "b">>,
     <<"a", ":", "x", ":", "1", ":", "2", ":", ":", "/", ":", "s", "\n">>,
     <<"b", ":", ":", "1", ":", "a", ",", ":", "b", ",", "\n">>}
AccountKeys == {[name |-> NULL, id |-> -1], [name |-> <<"a">>, id |-> -1], [name |-> <<"b">>, id |-> -1],
                [name |-> NULL, id |-> 1], [name |-> NULL, id |-> 12]}
Buffers == [size : {0, 1, 2, 8, 9, 14, 40, 45, 46, 48, 52, 56, 58, 64}, base : {16, 17, 24, 31}]

\* A few days around the ends of eras, centuries and leap years
Days == UNION {{e + o - 719468 + k : k \in -2..2} :
            e \in {-146097, 0, 146097, 292194}, o \in {0, 305, 306, 1460, 36524, 73048, 145731}}
            \cup {-6, -5, -4, -1, 0, 58, 59, 364}
            \cup {e + k : e \in {-1084407, 2932896}, k \in 0..1}   \* the years -1000 and 9999 end
Seconds == {-2000000000, -86401, -86400, -1, 0, 86399, 86400, 951782399, 951782400, 2000000000}
Times == [sec : -1..3, nsec : 0..3]

AttrCalls(k) == [op : {"init", "destroy", "get"}, arg : {"other"}]
                  \cup [op : {"set"}, arg : Obj!Supported[k] \cup {"other"}]

Inputs ==
    \/ in \in {<<"pattern", p>> : p \in Patterns}
    \/ in \in {<<"tokens", s>> : s \in Tokens}
    \/ in \in {<<"line", w>> : w \in SeqsOf({"a", "7"}, 2, 5)}
    \/ in \in {<<"money", f>> : f \in Formats}
    \/ in \in {<<"accounts", f>> : f \in SeqsOf(AccountLines, 0, 2)}
    \/ in \in {<<"day", d>> : d \in Days}
    \/ in \in {<<"time", t>> : t \in Times}
    \/ in \in {<<"address", p>> : p \in [1..4 -> {0, 7, 25, 255}]}
    \/ \E k \in DOMAIN Obj!Supported : in \in {<<"attributes", k, c>> : c \in SeqsOf(AttrCalls(k), 0, 3)}
    \/ in \in {<<"handle", o>> : o \in 1..11}
    \/ in \in {<<"interfaces", n>> : n \in 0..3}
    \/ in \in {<<"signals", s>> : s \in {{n, m} : n, m \in {0, 1, 2, 15, 16, 31, 34, 36}}}

Pure == part = "pure"

-----------------------------------------------------------------------------
LibVars == <<partsVars, in>>

LibInit ==
    /\ part \in {"mq", "signals", "shm", "netdb", "sockets", "files", "getopt", "pure"}
    /\ IF Pure THEN Inputs ELSE in = <<>>
    /\ PartsInit

LibNext == PartsNext /\ UNCHANGED in

LibSpec == LibInit /\ [][LibNext]_LibVars

Symmetry == Permutations(Threads)

-----------------------------------------------------------------------------
(* The properties of each part, where that part moves *)

\* getopt reports every option of an argument list in which no option with an
\* argument ends a group (zephyr_getopt.c).
PlainOptionsAreSeen == part = "getopt" => Ref!PlainOptionsAreSeen

\* getopt reports every option of every argument list (zephyr_getopt.c).
EveryOptionIsSeen == part = "getopt" => Ref!EveryOptionIsSeen

\* Every pure function agrees with its definition: fnmatch with the items of its
\* pattern; strtok_r and getsubopt with the stretches between separators; a line
\* of a database with its words; strfmon with the amount it was given; the lookup
\* of accounts with the lines of the file, and its array with the buffer; gmtime_r
\* with the calendar; timeouts with their deadlines; inet_addr with the parts of
\* an address; attribute objects with the calls made on them; handles with their
\* objects; and signal sets with the numbers in them.
PureFunctionsAgree == Pure =>
    CASE in[1] = "pattern" -> \A s \in Subjects, f \in FlagSets : Txt!PatternAgrees(in[2], s, f)
      [] in[1] = "tokens" -> Txt!TokensAgree(in[2], {Txt!Comma, Txt!Equals}, Keywords)
      [] in[1] = "line" -> \A sep \in {"sp", "tab"} : Lin!NetdbLinesParse(in[2], sep)
      [] in[1] = "money" -> \A v \in Amounts, max \in {0, 1, 5} :
            Mon!MoneyAgrees(in[2].flags, in[2].fill, in[2].width, in[2].left, in[2].right, v, max)
      [] in[1] = "accounts" -> \A key \in AccountKeys, buffer \in Buffers :
            Acc!AccountsAgree(FlattenSeq(in[2]), key, buffer)
      [] in[1] = "day" -> \A t \in Seconds : Con!CalendarAgrees(in[2], t) /\ Con!DatesAreWritten(in[2], t)
      [] in[1] = "time" -> \A t \in Times : Con!DeadlinesAgree(in[2], t)
      [] in[1] = "address" -> \A len \in {1, 9, 16} : Con!NumbersAgree(in[2], <<Con!Dot>>, len)
      [] in[1] = "attributes" -> \A raw \in Obj!Garbage(in[2]) : Obj!AttributesAgree(in[2], raw, in[3])
      [] in[1] = "handle" -> \A live \in SUBSET {5, 6, 9} : Obj!HandlesAgree(5, live, in[2])
      [] in[1] = "interfaces" -> \A bad \in 0..4 : Obj!InterfacesAgree(in[2], bad)
      [] in[1] = "signals" -> Sig!SignalSetsTranslate(in[2])
=============================================================================
