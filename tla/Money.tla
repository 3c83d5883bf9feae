-------------------------------- MODULE Money -------------------------------
(***************************************************************************)
(* lib/posix/c_lib_ext/strfmon.c: amounts of money written after a format. *)
(*                                                                         *)
(* A string is a sequence of one-character strings.  An amount is a number *)
(* of eighths, which a double holds exactly, at every scale used here: the *)
(* tolerance of the code's comparison with one half never matters.  Where  *)
(* the scale or the scaled amount does not fit the code's uint64_t, what   *)
(* is written is left open.                                                *)
(***************************************************************************)
EXTENDS Integers, Sequences, SequencesExt, FiniteSetsExt, TLC

CONSTANTS CHAR_MAX,     \* what localeconv() says of a locale that does not care
          FracDigits,   \* lconv's frac_digits and int_frac_digits
          UINT64,       \* 2^64: how many values the code's integers have
          UintDigits    \* 19: the largest power of ten among them

EOS == "EOS"
Garbled == "garbled"
Digits == <<"0", "1", "2", "3", "4", "5", "6", "7", "8", "9">>
Value(c) == (CHOOSE k \in 1..10 : Digits[k] = c) - 1
At(s, i) == IF i \in 1..Len(s) THEN s[i] ELSE EOS
Times(c, n) == IF n > 0 THEN [k \in 1..n |-> c] ELSE <<>>
Int8(v) == ((v + 128) % 256) - 128

read_number(f, p) ==
    LET end == Min({q \in p..(Len(f) + 1) : ~Contains(Digits, At(f, q))}) IN
    [next |-> end,
     value |-> IF end = p THEN -1
               ELSE FoldLeft(LAMBDA v, c : Int8(v * 10 + Value(c)), 0, SubSeq(f, p, end - 1))]

RECURSIVE Flags(_, _, _, _)
Flags(f, p, set, fill) ==
    CASE At(f, p) \in {"^", "+", "(", "!", "-"} -> Flags(f, p + 1, set \cup {f[p]}, fill)
      [] At(f, p) = "=" ->
            IF At(f, p + 1) = EOS THEN [bad |-> TRUE]
            ELSE Flags(f, p + 2, set, f[p + 1])
      [] OTHER -> [bad |-> FALSE, set |-> set, fill |-> fill, next |-> p]

\* A number behind a mark; .value is -1 when the digits are missing.
Marked(f, p, mark, default) ==
    IF At(f, p) = mark THEN read_number(f, p + 1) ELSE [next |-> p, value |-> default]

strfmon_parse_format(f, start) ==
    LET fl == Flags(f, start, {}, " ") IN
    IF fl.bad THEN [bad |-> TRUE]
    ELSE LET width == read_number(f, fl.next)
             left == Marked(f, width.next, "#", 0)
             right == Marked(f, left.next, ".", 127)
             conv == At(f, right.next)
             locale == IF FracDigits = CHAR_MAX THEN 2 ELSE FracDigits
             missing == left.value < 0 \/ right.value < 0
         IN  IF missing \/ conv \notin {"i", "n"} THEN [bad |-> TRUE]
             ELSE [bad |-> FALSE, flags |-> fl.set, fill |-> fl.fill, next |-> right.next + 1,
                   width |-> Max({width.value, 0}), left |-> left.value,
                   right |-> IF At(f, left.next) = "." THEN right.value ELSE locale]

-----------------------------------------------------------------------------
(* strfmon_one *)

\* iscale wraps around for a large precision, and an amount too large for its scale
\* has no value as an integer.
Scaled(val, right) == (IF val < 0 THEN -val ELSE val) * 10^right
Overflows(val, right) == right > UintDigits \/ Scaled(val, right) \div 8 + 1 >= UINT64

\* The amount in units of the last digit, to the nearest, ties to the even one.
Rounded(val, right) ==
    LET scaled == Scaled(val, right)
        int == scaled \div 8
        twice == 2 * (scaled % 8)
    IN  IF twice > 8 \/ (twice = 8 /\ int % 2 = 1) THEN int + 1 ELSE int

RECURSIVE Decimal(_)
Decimal(n) == (IF n < 10 THEN <<>> ELSE Decimal(n \div 10)) \o <<Digits[(n % 10) + 1]>>

\* The sign before the digits, the sign behind them.
SignLead(spec, neg) ==
    CASE neg /\ "(" \in spec.flags -> <<"(">>
      [] neg /\ "(" \notin spec.flags -> <<"-">>
      [] ~neg /\ "+" \in spec.flags -> <<"+">>
      [] OTHER -> IF spec.left > 0 THEN <<" ">> ELSE <<>>

SignTrail(spec, neg) == IF neg /\ "(" \in spec.flags THEN <<")">> ELSE <<>>

strfmon_one(spec, val) ==
    LET units == Rounded(val, spec.right)
        int == Decimal(units \div 10^spec.right)
        frac == Decimal(units % 10^spec.right)
        number == SignLead(spec, val < 0)
                  \o Times(spec.fill, spec.left - Len(int)) \o int
                  \o (IF spec.right = 0 THEN <<>>
                      ELSE <<".">> \o Times("0", spec.right - Len(frac)) \o frac)
                  \o SignTrail(spec, val < 0)
        pad == Times(" ", spec.width - Len(number))
    IN  IF Overflows(val, spec.right) THEN <<Garbled>>
        ELSE IF "-" \in spec.flags THEN number \o pad ELSE pad \o number

-----------------------------------------------------------------------------
(* strfmon: position p of the format, the character before it, the arguments *)
(* left and the text so far, of which putc_if_space keeps the first maxsize. *)

RECURSIVE Scan(_, _, _, _, _)
Scan(f, p, prev, args, text) ==
    LET ch == At(f, p)
        spec == strfmon_parse_format(f, p)
    IN  CASE ch = EOS -> [ret |-> "ok", text |-> text]
          [] ch = "%" /\ prev # "%" /\ p = Len(f) -> [ret |-> "EINVAL", text |-> text]
          [] ch # EOS /\ ((ch = "%") = (prev = "%")) -> Scan(f, p + 1, ch, args, Append(text, ch))
          [] ch = "%" /\ prev # "%" /\ p < Len(f) -> Scan(f, p + 1, ch, args, text)
          [] OTHER ->
                IF spec.bad THEN [ret |-> "EINVAL", text |-> text]
                ELSE Scan(f, spec.next, ch, Tail(args), text \o strfmon_one(spec, Head(args)))

putc_if_space(text, maxsize) == SubSeq(text, 1, Min({maxsize, Len(text)}))

InBuffer(r, maxsize) ==
    [ret |-> IF r.ret = "ok" /\ maxsize > 0 THEN Len(putc_if_space(r.text, maxsize)) ELSE -1,
     text |-> putc_if_space(r.text, maxsize),
     terminated |-> Len(r.text) < maxsize]

strfmon(maxsize, f, args) == InBuffer(Scan(f, 1, EOS, args, <<>>), maxsize)

-----------------------------------------------------------------------------
(* What an amount should look like *)

Wanted(flags, fill, width, left, right) ==
    <<"%">> \o flags \o (IF fill = " " THEN <<>> ELSE <<"=", fill>>)
    \o (IF width = 0 THEN <<>> ELSE Decimal(width))
    \o (IF left = 0 THEN <<>> ELSE <<"#">> \o Decimal(left))
    \o <<".">> \o Decimal(right) \o <<"n">>

\* The number the digits of a text spell.
Spelled(text) ==
    FoldLeft(LAMBDA v, c : IF Contains(Digits, c) THEN v * 10 + Value(c) ELSE v, 0, text)

\* However width, precisions and flags are combined, for an amount that the code's
\* integers hold at the precision, the digits that strfmon writes spell the amount
\* rounded to the nearest unit with ties to the even one, the text is as wide as
\* asked, says whether the amount is negative and keeps amounts that fit the left
\* precision in one column; any text is cut, not written past, at the end of the
\* buffer.
Reads(text, width, right, val) ==
    LET digits == Spelled(text)
        error == (8 * digits) - Scaled(val, right)
    IN  /\ error \in -4..4
        /\ error \in {-4, 4} => digits % 2 = 0
        /\ Len(text) >= width
        /\ val < 0 <=> \E k \in 1..Len(text) : text[k] \in {"-", "("}

OneColumn(text, other, left, right, val) ==
    Spelled(text) < 10^(left + right) /\ val # 0 => Len(other) = Len(text)

Truncated(cut, text, maxsize) ==
    /\ cut.ret = (IF maxsize = 0 THEN -1 ELSE Len(cut.text))
    /\ Len(cut.text) <= maxsize /\ IsPrefix(cut.text, text)

TextsAgree(full, other, cut, flags, width, left, right, val, maxsize) ==
    /\ ~Overflows(val, right) => Reads(full.text, width, right, val)
    /\ ~Overflows(val, right) /\ width = 0 /\ "(" \notin Range(flags) /\ left > 0
         => OneColumn(full.text, other.text, left, right, val)
    /\ Truncated(cut, full.text, maxsize)

MoneyAgrees(flags, fill, width, left, right, val, maxsize) ==
    LET f == Wanted(flags, fill, width, left, right)
    IN  TextsAgree(strfmon(99, f, <<val>>), strfmon(99, f, <<-val>>), strfmon(maxsize, f, <<val>>),
                   flags, width, left, right, val, maxsize)
=============================================================================
