----------------------------- MODULE GetoptSpec -----------------------------
(***************************************************************************)
(* getopt and getopt_long as a reader of the command line.  Its state is a *)
(* position, an argument of argv and a character in it; both count from 1. *)
(* Each call reports the option at the position, with its argument, and    *)
(* moves on, or stops at the first argument that is no option.             *)
(*                                                                         *)
(* Only an option without an argument that ends its group makes the reader *)
(* begin the next argument at its first character.  An option that has an  *)
(* argument, or a long name, leaves the character as it was: behind others *)
(* of a group the reader goes on in the middle of the next argument.       *)
(*                                                                         *)
(* Nothing is said about an argument that the long options leave in doubt. *)
(***************************************************************************)
EXTENDS Integers, Sequences

CONSTANTS
    Shorts, WithArg,    \* the short options, and those with an argument
    Alnum,              \* what could be a short option
    LongOpts,           \* records [name, has_arg, val, flag]
    Complaint,          \* what is returned if an argument is missing, "?" or ":"
    NULL

VARIABLES argv, how, pos, result, seen

readsVars == <<argv, how, pos, result, seen>>

Here == argv[pos.arg]
At(i, j) == [arg |-> i, chr |-> j]
First == 2              \* the first character behind "-"
Char == IF pos.chr > Len(Here) THEN First ELSE pos.chr

AtEnd == \/ pos.arg > Len(argv)
         \/ Len(Here) < 2 \/ Here[1] # "-"
         \/ Here = <<"-", "-">>

-----------------------------------------------------------------------------
(* Long options *)

IsLong == how \in {"getopt_long", "getopt_long_only"} /\ Here[2] = "-"
StartsWith(s, t) == Len(t) <= Len(s) /\ SubSeq(s, 1, Len(t)) = t
Matches(text) == {k \in 1..Len(LongOpts) : StartsWith(text, LongOpts[k].name)}
Text == SubSeq(Here, 3, Len(Here))

Value(o) == IF o.flag THEN "0" ELSE o.val
Takes(c) == c \in WithArg \/ \E k \in 1..Len(LongOpts) :
    LongOpts[k].val = c /\ LongOpts[k].has_arg = "required_argument"

\* The argument behind "="
HasEquals(o) == Len(Text) > Len(o.name) /\ Text[Len(o.name) + 1] = "="
Behind(o) == SubSeq(Text, Len(o.name) + 2, Len(Text))

\* The argument is the whole name of o, with "=" behind it only if o may have an
\* argument; and the program can tell whether there is one.
Plain(o) ==
    /\ Text = o.name \/ (HasEquals(o) /\ o.has_arg # "no_argument")
    /\ o.has_arg # "required_argument" /\ ~HasEquals(o) => ~Takes(Value(o))

\* A short option of the same name agrees about the argument.
Agrees(o) == o.val \in Alnum => (o.val \in WithArg <=> o.has_arg # "no_argument")

\* There are no long options to look at; a long option begins with the name of
\* another, or something else follows its name; or getopt_long_only takes a group
\* for a long option.
InDoubt ==
    \/ how = "getopt_null" /\ Here[2] = "-"
    \/ IsLong /\ Matches(Text) # {} /\ \A k \in Matches(Text) : Matches(Text) # {k} \/ ~Plain(LongOpts[k])
    \/ how = "getopt_long_only" /\ ~IsLong /\ Matches(SubSeq(Here, 2, Len(Here))) # {}

-----------------------------------------------------------------------------
(* The next option *)

Reports(c, a) == result' = c /\ seen' = Append(seen, <<c, IF Takes(c) THEN a ELSE NULL>>)
Complains(r) == result' = r /\ UNCHANGED seen

\* A short option
Short ==
    LET c == Here[Char]
        last == Char = Len(Here)
    IN  \/ c \notin Shorts /\ Complains("?") /\ pos' = At(pos.arg, Char)
        \/ /\ c \in Shorts \ WithArg
           /\ result' = c /\ seen' = Append(seen, <<c, NULL>>)
           /\ pos' = IF last THEN At(pos.arg + 1, First) ELSE At(pos.arg, Char + 1)
        \/ /\ c \in Shorts \cap WithArg /\ ~last
           /\ Reports(c, SubSeq(Here, Char + 1, Len(Here))) /\ pos' = At(pos.arg + 1, Char)
        \/ /\ c \in Shorts \cap WithArg /\ last /\ pos.arg < Len(argv)
           /\ Reports(c, argv[pos.arg + 1]) /\ pos' = At(pos.arg + 2, Char)
        \/ /\ c \in Shorts \cap WithArg /\ last /\ pos.arg = Len(argv)
           /\ Complains(Complaint) /\ pos' = At(pos.arg, Char)

\* Option o, by its long name.
Long(o) ==
    LET required == o.has_arg = "required_argument" IN
    \/ ~Agrees(o) /\ Complains(Complaint) /\ UNCHANGED pos
    \/ /\ Agrees(o) /\ HasEquals(o)
       /\ Reports(Value(o), Behind(o)) /\ pos' = At(pos.arg + 1, pos.chr)
    \/ /\ Agrees(o) /\ ~HasEquals(o) /\ ~required
       /\ Reports(Value(o), NULL) /\ pos' = At(pos.arg + 1, pos.chr)
    \/ /\ Agrees(o) /\ ~HasEquals(o) /\ required /\ pos.arg < Len(argv)
       /\ Reports(Value(o), argv[pos.arg + 1]) /\ pos' = At(pos.arg + 2, pos.chr)
    \/ /\ Agrees(o) /\ ~HasEquals(o) /\ required /\ pos.arg = Len(argv)
       /\ Complains(Complaint) /\ UNCHANGED pos

Stop ==
    /\ AtEnd
    /\ result' = "-1" /\ UNCHANGED seen
    /\ pos' = IF pos.arg <= Len(argv) /\ Here = <<"-", "-">> THEN [pos EXCEPT !.arg = @ + 1] ELSE pos

Init == pos = At(2, First) /\ result = "none" /\ seen = <<>>

Next ==
    /\ result \notin {"-1", "?", ":", "undefined"} /\ UNCHANGED <<argv, how>>
    /\ \/ Stop
       \/ ~AtEnd /\ InDoubt
       \/ ~AtEnd /\ ~InDoubt /\ (IsLong => Matches(Text) = {}) /\ Short
       \/ ~AtEnd /\ ~InDoubt /\ IsLong /\ \E k \in Matches(Text) : Long(LongOpts[k])

Spec == Init /\ [][Next]_readsVars
=============================================================================
