--------------------------------- MODULE Text -------------------------------
(***************************************************************************)
(* lib/posix/c_lib_ext: fnmatch.c, getsubopt.c, strncasecmp.c, strnlen.c   *)
(* and strdup.c, and strtok_r of lib/posix/c_lang_support_r: the matching  *)
(* of names against patterns, the cutting of strings into tokens and       *)
(* suboptions, comparison and copies, each next to a definition of what it *)
(* should find.                                                            *)
(*                                                                         *)
(* A string is a sequence of ASCII codes, without its NUL.  A character    *)
(* class of a pattern is one symbol.                                       *)
(***************************************************************************)
EXTENDS Integers, Sequences, SequencesExt, FiniteSetsExt

CONSTANT MaxRecursion   \* 64: the depth at which fnmatchx gives up

EOS == 0
Bang == 33
Star == 42
Comma == 44
Dash == 45
Dot == 46
Slash == 47
Equals == 61
Question == 63
Open == 91
Backslash == 92
Close == 93
Caret == 94
Alpha == 202            \* [:alpha:]

IsUpper(c) == c \in 65..90

\* The class with the symbol 200 + k: alnum, alpha, blank, cntrl, digit, graph, lower,
\* print, punct, space, upper, xdigit.
Classes ==
    LET alpha == (65..90) \cup (97..122)
        digit == 48..57
    IN  <<alpha \cup digit, alpha, {9, 32}, (0..31) \cup {127}, digit, 33..126, 97..122,
          32..126, (33..126) \ (alpha \cup digit), (9..13) \cup {32}, 65..90,
          digit \cup (65..70) \cup (97..102)>>
InClass(c, cc) == c \in Classes[cc - 200]

C(s, i) == IF i \in 1..Len(s) THEN s[i] ELSE EOS

foldcase(c, flags) == IF "CASEFOLD" \in flags /\ IsUpper(c) THEN c + 32 ELSE c

-----------------------------------------------------------------------------
(* rangematch: what follows '[' in the pattern, from position p; .next is the *)
(* position behind the ']'.                                                   *)

RECURSIVE RangeLoop(_, _, _, _, _, _)
RangeLoop(pat, p, first, test, flags, ok) ==
    LET escaped == C(pat, p) = Backslash /\ "NOESCAPE" \notin flags
        q == IF escaped THEN p + 1 ELSE p           \* the character itself
        c == foldcase(C(pat, q), flags)
        range == C(pat, q + 1) = Dash /\ C(pat, q + 2) \notin {EOS, Close}
        r == IF C(pat, q + 2) = Backslash /\ "NOESCAPE" \notin flags THEN q + 3 ELSE q + 2
        c2 == foldcase(C(pat, r), flags)
    IN  CASE C(pat, p) = Close /\ p > first -> [res |-> "end", ok |-> ok, next |-> p + 1]
          [] C(pat, p) = EOS -> [res |-> "error"]
          [] C(pat, p) = Slash /\ "PATHNAME" \in flags -> [res |-> "nomatch"]
          [] C(pat, p) > 200 ->
                RangeLoop(pat, p + 1, first, test, flags, ok \/ InClass(test, C(pat, p)))
          [] OTHER ->
                IF ~range THEN RangeLoop(pat, q + 1, first, test, flags, ok \/ c = test)
                ELSE IF c2 = EOS THEN [res |-> "error"]
                ELSE RangeLoop(pat, r + 1, first, test, flags, ok \/ (c <= test /\ test <= c2))

rangematch(pat, p, test, flags) ==
    LET negate == C(pat, p) \in {Bang, Caret}
        first == IF negate THEN p + 1 ELSE p
        r == RangeLoop(pat, first, first, foldcase(test, flags), flags, FALSE)
    IN  IF r.res # "end" THEN r
        ELSE [res |-> IF r.ok # negate THEN "match" ELSE "nomatch", next |-> r.next]

-----------------------------------------------------------------------------
(* fnmatchx, from position p of the pattern and i of the string *)

\* A period that has to be matched explicitly
LeadingPeriod(s, i, flags) ==
    /\ "PERIOD" \in flags /\ C(s, i) = Dot
    /\ i = 1 \/ ("PATHNAME" \in flags /\ C(s, i - 1) = Slash)

RECURSIVE SkipStars(_, _)
SkipStars(pat, p) == IF C(pat, p) = Star THEN SkipStars(pat, p + 1) ELSE p

\* (mutant) a star goes on over a slash
TriesBeyond(s, i, flags) == i..(Len(s) + 1)

\* Where the general case of '*' tries the rest of the pattern.
Tries(s, i, flags) ==
    LET stop == {j \in i..Len(s) : s[j] = Slash /\ "PATHNAME" \in flags} IN
    IF i > Len(s) THEN {} ELSE IF stop = {} THEN i..(Len(s) + 1) ELSE i..Min(stop)

RECURSIVE fnmatchx(_, _, _, _, _, _)
fnmatchx(pat, p, s, i, flags, depth) ==
    LET pc == foldcase(C(pat, p), flags)
        sc == foldcase(C(s, i), flags)
        path == "PATHNAME" \in flags
        Literal(q) == foldcase(C(pat, q), flags) = sc /\ fnmatchx(pat, q + 1, s, i + 1, flags, depth)
        fits == sc # EOS /\ ~(sc = Slash /\ path) /\ ~LeadingPeriod(s, i, flags)
    IN  CASE depth = 0 -> FALSE
          [] pc = EOS -> sc = EOS \/ ("LEADING_DIR" \in flags /\ sc = Slash)
          [] pc = Question -> fits /\ fnmatchx(pat, p + 1, s, i + 1, flags, depth)
          [] pc = Star ->
                LET q == SkipStars(pat, p)
                    c == C(pat, q)
                    slashes == {j \in i..Len(s) : s[j] = Slash}
                IN  /\ ~LeadingPeriod(s, i, flags)
                    /\ IF c = EOS THEN ~path \/ "LEADING_DIR" \in flags \/ slashes = {}
                       ELSE IF c = Slash /\ path
                       THEN slashes # {} /\ fnmatchx(pat, q, s, Min(slashes), flags, depth)
                       ELSE \E j \in Tries(s, i, flags) : fnmatchx(pat, q, s, j, flags, depth - 1)
          [] pc = Open ->
                LET r == rangematch(pat, p + 1, sc, flags) IN
                fits /\ IF r.res = "error" THEN Literal(p)
                        ELSE r.res = "match" /\ fnmatchx(pat, r.next, s, i + 1, flags, depth)
          [] pc = Backslash /\ "NOESCAPE" \notin flags -> Literal(p + 1)
          [] OTHER -> Literal(p)

fnmatch(pat, s, flags) == fnmatchx(pat, 1, s, 1, flags, MaxRecursion)

-----------------------------------------------------------------------------
(* The reference: a pattern as a sequence of items, how each is written, and *)
(* which pieces of a string it stands for.                                   *)

Item(kind, set, text) == [kind |-> kind, set |-> set, text |-> text]
Lit(c) == Item("lit", {c}, <<c>>)
Quoted(c) == Item("lit", {c}, <<Backslash, c>>)
AnyChar == Item("any", {}, <<Question>>)
AnyString == Item("star", {}, <<Star>>)
OneOf(set, text) == Item("one", set, <<Open>> \o text \o <<Close>>)
NoneOf(set, text) == Item("none", set, <<Open, Bang>> \o text \o <<Close>>)

Written(items) == FlattenSeq([k \in 1..Len(items) |-> items[k].text])

\* Item k stands for the characters from..to-1 of s.
StandsFor(items, k, s, from, to, flags) ==
    LET it == items[k]
        one == to = from + 1
        c == foldcase(C(s, from), flags)
        free == ~("PATHNAME" \in flags /\ c = Slash) /\ ~LeadingPeriod(s, from, flags)
    IN  CASE it.kind = "lit" -> one /\ c \in {foldcase(x, flags) : x \in it.set}
          [] it.kind = "any" -> one /\ free
          [] it.kind = "one" -> one /\ free /\ c \in {foldcase(x, flags) : x \in it.set}
          [] it.kind = "none" -> one /\ free /\ c \notin {foldcase(x, flags) : x \in it.set}
          [] it.kind = "star" ->
                /\ ~LeadingPeriod(s, from, flags)
                /\ "PATHNAME" \in flags => \A j \in from..(to - 1) : s[j] # Slash

\* Some way of cutting s, or a leading directory of it, into the pieces.
Matches(items, s, flags) ==
    LET n == Len(items) IN
    \E cut \in [0..n -> 1..(Len(s) + 1)] :
        /\ cut[0] = 1
        /\ cut[n] = Len(s) + 1
             \/ ("LEADING_DIR" \in flags /\ C(s, cut[n]) = Slash)
             \/ ("LEADING_DIR" \in flags /\ n > 0 /\ items[n].kind = "star")
        /\ \A k \in 1..n : cut[k - 1] <= cut[k] /\ StandsFor(items, k, s, cut[k - 1], cut[k], flags)

\* fnmatch answers as the items of the pattern say, for every way the stars can
\* be expanded, with slashes, leading periods, leading directories, quoting and
\* case treated as the flags ask.
PatternAgrees(items, s, flags) == fnmatch(Written(items), s, flags) = Matches(items, s, flags)

-----------------------------------------------------------------------------
(* strtok_r and getsubopt: what one call returns, and where the next begins. *)

strtok_r(s, seps) ==
    LET word == {i \in 1..Len(s) : s[i] \notin seps}
        start == Min(word)
        ends == {i \in start..Len(s) : s[i] \in seps}
    IN  IF word = {} THEN [tok |-> <<>>, rest |-> <<>>]
        ELSE IF ends = {} THEN [tok |-> SubSeq(s, start, Len(s)), rest |-> <<>>]
        ELSE [tok |-> SubSeq(s, start, Min(ends) - 1), rest |-> SubSeq(s, Min(ends) + 1, Len(s))]

RECURSIVE Tokens(_, _)
Tokens(s, seps) ==
    LET r == strtok_r(s, seps) IN
    IF r.tok = <<>> THEN <<>> ELSE <<r.tok>> \o Tokens(r.rest, seps)

SameKey(key, k) == IsPrefix(key, k) /\ Len(k) = Len(key)

getsubopt(s, keys) ==
    LET commas == {i \in 1..Len(s) : s[i] = Comma}
        end == IF commas = {} THEN Len(s) + 1 ELSE Min(commas)
        eqs == {i \in 1..(end - 1) : s[i] = Equals}
        key == SubSeq(s, 1, (IF eqs = {} THEN end ELSE Min(eqs)) - 1)
        hits == {k \in 1..Len(keys) : SameKey(key, keys[k])}
    IN  [idx |-> IF key = <<>> \/ hits = {} THEN -1 ELSE Min(hits) - 1,
         value |-> IF eqs = {} THEN <<>> ELSE SubSeq(s, Min(eqs) + 1, end - 1),
         rest |-> SubSeq(s, end + 1, Len(s))]

RECURSIVE Suboptions(_, _)
Suboptions(s, keys) ==
    IF s = <<>> THEN <<>>
    ELSE LET r == getsubopt(s, keys) IN <<[idx |-> r.idx, value |-> r.value]>> \o Suboptions(r.rest, keys)

strnlen(s, maxlen) == Min({maxlen, Len(s)})
strndup(s, n) == SubSeq(s, 1, strnlen(s, n))

\* From character i of both strings, of which n are left to compare
RECURSIVE strncasecmp(_, _, _, _)
strncasecmp(s1, s2, i, n) ==
    LET lower1 == foldcase(C(s1, i), {"CASEFOLD"})
        lower2 == foldcase(C(s2, i), {"CASEFOLD"})
    IN  CASE n = 0 -> 0
          [] n > 0 /\ lower1 < lower2 -> -1
          [] n > 0 /\ lower1 > lower2 -> 1
          [] OTHER -> IF C(s1, i) = EOS THEN 0 ELSE strncasecmp(s1, s2, i + 1, n - 1)

\* The maximal stretches of s without a separator.
Stretch(s, seps, i, j) ==
    i <= j /\ (\A k \in i..j : s[k] \notin seps) /\ C(s, i - 1) \in seps \cup {EOS}
           /\ C(s, j + 1) \in seps \cup {EOS}
Stretches(s, seps) ==
    LET starts == {i \in 1..Len(s) : \E j \in i..Len(s) : Stretch(s, seps, i, j)} IN
    [n \in 1..Cardinality(starts) |->
        LET i == CHOOSE i \in starts : Cardinality({x \in starts : x < i}) = n - 1 IN
        SubSeq(s, i, CHOOSE j \in i..Len(s) : Stretch(s, seps, i, j))]

\* The pieces of s between its commas, which may be empty, except a last one.
Pieces(s) ==
    LET commas == SelectSeq([k \in 1..Len(s) |-> k], LAMBDA k : s[k] = Comma)
        ends == <<0>> \o commas \o (IF C(s, Len(s)) \in {Comma, EOS} THEN <<>> ELSE <<Len(s) + 1>>)
    IN  [n \in 1..(Len(ends) - 1) |-> SubSeq(s, ends[n] + 1, ends[n + 1] - 1)]

\* strtok_r cuts a string into exactly the stretches between its separators, and
\* getsubopt finds for each suboption the first key that it names in full, no key
\* only where it names none, and the value behind the key; strncasecmp
\* finds two strings equal exactly when their copies by strndup are, but for case,
\* and orders them the other way round when they change places.
TokensAgree(s, seps, keys) ==
    /\ Tokens(s, seps) = Stretches(s, seps)
    /\ LET parts == Suboptions(s, keys) IN
       /\ Len(parts) = Len(Pieces(s))
       /\ \A n \in 1..Len(parts) :
             LET text == Pieces(s)[n]
                 named == {k \in 1..Len(keys) : text = keys[k] \/ IsPrefix(Append(keys[k], Equals), text)}
             IN  /\ parts[n].idx = IF named = {} THEN -1 ELSE Min(named) - 1
                 /\ \A k \in named : text \in {keys[k], Append(keys[k], Equals) \o parts[n].value}
    /\ \A k \in 1..Len(keys), n \in 0..2 :
          LET Small(t) == [i \in 1..Len(t) |-> foldcase(t[i], {"CASEFOLD"})]
              order == strncasecmp(s, keys[k], 1, n)
          IN  /\ order = 0 <=> Small(strndup(s, n)) = Small(strndup(keys[k], n))
              /\ order = -strncasecmp(keys[k], s, 1, n)
=============================================================================
