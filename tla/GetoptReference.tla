-------------------------- MODULE GetoptReference ---------------------------
(***************************************************************************)
(* The options of a whole argument vector, and what the program has seen   *)
(* of them when getopt has come to its end.                                *)
(***************************************************************************)
EXTENDS Getopt

-----------------------------------------------------------------------------
(* The reference: the options of an argument vector, read from left to right *)

\* Exactly this option, or the one before "=".
LongNamed(arg) == {k \in 1..Len(LongOpts) :
    LET name == LongOpts[k].name IN
    arg = name \/ (LongOpts[k].has_arg # "no_argument" /\ IsPrefix(name \o <<"=">>, arg))}

RECURSIVE Options(_), Group(_, _)

\* A group of short options, and the arguments after it; "bad" where getopt complains.
Group(s, rest) ==
    IF s = <<>> THEN Options(rest)
    ELSE IF s[1] \notin optmask THEN <<"bad">>
    ELSE IF s[1] \notin argmask THEN <<<<s[1], NULL>>>> \o Group(Tail(s), rest)
    ELSE IF Len(s) > 1 THEN <<<<s[1], Tail(s)>>>> \o Options(rest)
    ELSE IF rest = <<>> THEN <<"bad">>
    ELSE <<<<s[1], rest[1]>>>> \o Options(Tail(rest))

Options(args) ==
    IF args = <<>> \/ Chr(args[1], 0) # "-" \/ Len(args[1]) = 1 \/ args[1] = <<"-", "-">> THEN <<>>
    ELSE IF Chr(args[1], 1) # "-" THEN Group(Tail(args[1]), Tail(args))
    ELSE LET arg == From(args[1], 2)
             o == LongOpts[CHOOSE k \in LongNamed(arg) : TRUE]
         IN  IF LongNamed(arg) = {} \/ how \in {"getopt", "getopt_null"} THEN <<"bad">>
             ELSE IF o.has_arg # "required_argument"
             THEN <<<<Val(o), NULL>>>> \o Options(Tail(args))
             ELSE IF Len(arg) > Len(o.name)
             THEN <<<<Val(o), From(arg, Len(o.name) + 1)>>>> \o Options(Tail(args))
             ELSE IF Len(args) = 1 THEN <<"bad">>
             ELSE <<<<Val(o), args[2]>>>> \o Options(SubSeq(args, 3, Len(args)))

Expected == Options(Tail(argv))
Clean == ~Contains(Expected, "bad")

\* An option with an argument stands behind others in its group.
LateArgument == \E i \in 2..Len(argv) :
    /\ Chr(argv[i], 0) = "-" /\ Chr(argv[i], 1) # "-"
    /\ \E j \in 3..Len(argv[i]) : argv[i][j] \in argmask

\* With -1 the program has seen each option of a command line that has nothing
\* to complain about, once, in order and with its argument; except behind a group
\* with an argument at its end, and for getopt_long_only, whose long names take
\* precedence.
PlainOptionsAreSeen ==
    Clean /\ ~LateArgument /\ how # "getopt_long_only" =>
        /\ IsPrefix(seen, Expected)
        /\ result = "-1" => seen = Expected
        /\ result \notin {"?", ":", "undefined"}

\* What the comment of l.289 says, for any command line: a new argument is read
\* from its first character.
EveryOptionIsSeen == Clean /\ how = "getopt" /\ result = "-1" => seen = Expected
=============================================================================
