------------------------------- MODULE Getopt -------------------------------
(***************************************************************************)
(* lib/posix/c_lib_ext/zephyr_getopt.c, getopt.c, getopt_long.c: a program *)
(* that calls getopt, or getopt_long, until it returns -1.  Between two    *)
(* calls all there is are optind, optarg, optopt and, hidden in opterr,    *)
(* optind_prev and nextchar_idx.                                           *)
(*                                                                         *)
(* An argument is a sequence of characters; indices into arguments and     *)
(* into argv are C's, from 0.                                              *)
(***************************************************************************)
EXTENDS Integers, Sequences, SequencesExt

CONSTANTS
    Alnum,      \* the characters an option may have
    Argvs,      \* the argument vectors
    OptString,  \* of the program
    LongOpts,   \* records [name, has_arg, val, flag]
    NULL

VARIABLES
    argv, how,  \* which function: one of Functions
    opt,        \* optind, optarg, optopt, optind_prev, nextchar_idx
    result,     \* what the last call returned
    seen        \* the options so far, each with its argument

getoptVars == <<argv, how, opt, result, seen>>

\* getopt in a build without CONFIG_ZEPHYR_GETOPT_LONG, and in one that has it, where
\* longopts is NULL; the two others are called in the latter only.
Functions == {"getopt", "getopt_null", "getopt_long", "getopt_long_only"}

argc == Len(argv)
Arg(i) == argv[i + 1]
Chr(s, j) == IF j < Len(s) THEN s[j + 1] ELSE "NUL"
From(s, j) == SubSeq(s, j + 1, Len(s))

-----------------------------------------------------------------------------
(* getopt_parse_optstring: only the first occurrence of a character counts. *)

optmask == {OptString[i] : i \in 1..Len(OptString)} \cap Alnum
argmask == {c \in optmask : Chr(OptString, SelectInSeq(OptString, LAMBDA x : x = c)) = ":"}
colon_at_start == Chr(OptString, 0) = ":"
Complaint == IF colon_at_start THEN ":" ELSE "?"

-----------------------------------------------------------------------------
(* getopt_match_longopt: "go on" where it returns -1. *)

GoOn == [ret |-> "go on"]

\* It reads the first option at NULL.  Whatever that does, nothing is said of the
\* program afterwards.
Undefined(g) == [ret |-> "undefined", g |-> g]

\* Some options match by the length of their name; the first one is taken.
LongMatches(arg) == {k \in 1..Len(LongOpts) : IsPrefix(LongOpts[k].name, arg)}

\* What a long option returns: its value, or 0 when it sets a flag.
Val(o) == IF o.flag THEN "0" ELSE o.val

\* Option o, which the text arg of argument i begins with.
LongOption(g, i, arg, o) ==
    LET n == Len(o.name)
        short == o.val \in Alnum
        value == From(arg, n + 1)
        Fails == [ret |-> Complaint, g |-> g]
        Gives(next, a) == [ret |-> Val(o),
            g |-> [g EXCEPT !.optind = next, !.optarg = a, !.optopt = Val(o)]]
    IN  CASE o.has_arg = "no_argument" ->
                IF short /\ o.val \in argmask THEN Fails ELSE Gives(i + 1, g.optarg)
          [] o.has_arg = "required_argument" ->
                IF short /\ o.val \notin argmask THEN Fails
                ELSE IF Chr(arg, n) = "=" THEN Gives(i + 1, value)
                ELSE IF i + 1 >= argc THEN Fails
                ELSE Gives(i + 2, Arg(i + 1))
          [] o.has_arg = "optional_argument" ->
                LET a == IF Chr(arg, n) = "=" THEN value ELSE g.optarg IN
                IF short /\ o.val \notin argmask
                THEN [Fails EXCEPT !.g.optarg = a] ELSE Gives(i + 1, a)

getopt_match_longopt(g, i) ==
    LET skip == IF Chr(Arg(i), 1) = "-" THEN 2 ELSE 1
        arg == From(Arg(i), skip)
        k == CHOOSE k \in LongMatches(arg) : \A l \in LongMatches(arg) : k <= l
    IN  IF skip = 1 /\ how # "getopt_long_only" THEN GoOn
        ELSE IF how = "getopt_null" THEN Undefined(g)
        ELSE IF LongMatches(arg) = {} THEN GoOn
        ELSE LongOption(g, i, arg, LongOpts[k])

-----------------------------------------------------------------------------
(* zephyr_getopt *)

\* The resets on entry: of everything, and for an argument that is new.
Reset(g) ==
    LET h == IF g.optind < 1 THEN [g EXCEPT !.optind = 1, !.prev = 1, !.next = 0] ELSE g IN
    IF h.optind # h.prev THEN [h EXCEPT !.next = 1, !.prev = h.optind] ELSE h

\* (mutant) the index is left behind the last character
NextChar_kept(n, last) == n + 1

\* (mutant) the loop adds one more
NextChar_twice(n, last) == IF last THEN 0 ELSE n + 2

\* nextchar_idx after an option without an argument
NextChar(n, last) == IF last THEN 0 ELSE n + 1

\* One character of a group of short options.
ShortOption(g, i) ==
    LET arg == Arg(i)
        n == IF g.next < 1 \/ g.next >= Len(arg) THEN 1 ELSE g.next
        c == Chr(arg, n)
        h == [g EXCEPT !.next = n, !.optopt = c]
        last == Chr(arg, n + 1) = "NUL"
    IN  IF c \notin optmask THEN [ret |-> "?", g |-> [h EXCEPT !.optind = i]]
        ELSE IF c \in argmask THEN
          IF ~last THEN [ret |-> c, g |-> [h EXCEPT !.optarg = From(arg, n + 1), !.optind = i + 1]]
          ELSE IF i + 1 < argc
          THEN [ret |-> c, g |-> [h EXCEPT !.optarg = Arg(i + 1), !.optind = i + 2]]
          ELSE [ret |-> Complaint, g |-> [h EXCEPT !.optind = i]]
        ELSE [ret |-> c, g |-> [h EXCEPT !.optarg = NULL, !.optind = IF last THEN i + 1 ELSE i,
                                         !.next = NextChar(n, last)]]

\* One call: what it returns and the state it leaves.
zephyr_getopt(g0) ==
    LET g == Reset(g0)
        i == g.optind
        long == IF how = "getopt" THEN GoOn ELSE getopt_match_longopt(g, i)
        r == IF Chr(Arg(i), 0) # "-" \/ Len(Arg(i)) = 1 THEN [ret |-> "-1", g |-> g]
             ELSE IF Arg(i) = <<"-", "-">> THEN [ret |-> "-1", g |-> [g EXCEPT !.optind = i + 1]]
             ELSE IF long.ret # "go on" THEN long
             ELSE ShortOption(g, i)
    IN  IF i >= argc THEN [ret |-> "-1", g |-> g]
        ELSE [r EXCEPT !.g.prev = r.g.optind]

Init ==
    /\ argv \in Argvs
    /\ how \in Functions
    /\ opt = [optind |-> 0, optarg |-> NULL, optopt |-> NULL, prev |-> 0, next |-> 0]
    /\ result = "none"
    /\ seen = <<>>

Takes(c) == c \in argmask \/ \E k \in 1..Len(LongOpts) :
    LongOpts[k].val = c /\ LongOpts[k].has_arg = "required_argument"

\* The program's loop; it gives up at a complaint.
Ended == {"-1", "?", ":", "undefined"}
Step ==
    /\ result \notin Ended
    /\ LET r == zephyr_getopt(opt) IN
       /\ opt' = r.g
       /\ result' = r.ret
       /\ seen' = IF r.ret \in Ended THEN seen
                  ELSE Append(seen, <<r.ret, IF Takes(r.ret) THEN r.g.optarg ELSE NULL>>)
    /\ UNCHANGED <<argv, how>>

Next == Step

Spec == Init /\ [][Next]_getoptVars

-----------------------------------------------------------------------------
\* Where the next call reads, as GetoptSpec counts: the argument, and the character
\* of it, the first one behind "-" if nextchar_idx says nothing.
Position ==
    LET g == Reset(opt) IN
    [arg |-> g.optind + 1, chr |-> IF g.next < 1 THEN 2 ELSE g.next + 1]
=============================================================================
