------------------------------- MODULE Convert ------------------------------
(***************************************************************************)
(* Functions that convert one representation of a value into another:      *)
(* gmtime_r and asctime_r of lib/posix/c_lang_support_r, the deadlines of  *)
(* lib/posix/options/timers and shared/timespec_to_timeout.c, inet_addr of *)
(* options/networking, and confstr_copy of options/single_process.  Each   *)
(* is next to a definition of what it should compute.                      *)
(***************************************************************************)
EXTENDS Integers, Sequences, SequencesExt, FiniteSetsExt

CONSTANTS NsPerMs, MsPerSec,    \* 1000000 and 1000, in a smaller clock
          TimeoutMax,           \* UINT32_MAX
          TimeLimit,            \* the first number that an int64_t does not hold
          AddrStrLen            \* INET_ADDRSTRLEN

\* Integer division and remainder of C, which round towards zero; b > 0
Quot(a, b) == IF a >= 0 THEN a \div b ELSE -((-a) \div b)
Rem(a, b) == a - b * Quot(a, b)
Flag(b) == IF b THEN 1 ELSE 0

-----------------------------------------------------------------------------
(* gmtime_r *)

\* The era of 400 years, which begins on the first of March 0000, of day z
Era(z) == Quot(IF z >= 0 THEN z ELSE z - 146096, 146097)

time_civil_from_days(day) ==
    LET z == day + 719468
        era == Era(z)
        doe == z - era * 146097
        yoe == (doe - doe \div 1460 + doe \div 36524 - doe \div 146096) \div 365
        doy == doe - (365 * yoe + yoe \div 4 - yoe \div 100)
        mp == (5 * doy + 2) \div 153
        m == IF mp < 10 THEN mp + 3 ELSE mp - 9
        leap == (yoe % 4 = 0 /\ yoe % 100 # 0) \/ yoe = 0
    IN  [tm_wday |-> IF day >= -4 THEN Rem(day + 4, 7) ELSE Rem(day + 5, 7) + 6,
         tm_year |-> yoe + era * 400 + Flag(m <= 2) - 1900,
         tm_mon |-> m - 1,
         tm_mday |-> doy - (153 * mp + 2) \div 5 + 1,
         tm_yday |-> IF doy >= 306 THEN doy - 306 ELSE doy + 59 + Flag(leap)]

gmtime_r(t) ==
    LET days == Quot(IF t >= 0 THEN t ELSE t - 86399, 86400)
        rem == t - days * 86400
    IN  [date |-> time_civil_from_days(days), tm_hour |-> rem \div 3600,
         tm_min |-> (rem % 3600) \div 60, tm_sec |-> rem % 60]

\* The characters of a number, written with %d and with at least two digits (%.2d)
Digits(n) == CHOOSE d \in 1..9 : (d = 1 \/ n >= 10^(d - 1)) /\ n < 10^d
Decimal(n) == IF n < 0 THEN 1 + Digits(-n) ELSE Digits(n)
TwoDigits(n) == IF n \in -9..9 THEN Decimal(n) + 1 ELSE Decimal(n)

\* asctime_r: whether it returns the text, which must fit 26 characters with its NUL,
\* and not NULL; the month and the day of the week must have a name.
asctime_r(tm) ==
    /\ tm.date.tm_wday \in 0..6 /\ tm.date.tm_mon \in 0..11
    /\ 7 + Max({3, Decimal(tm.date.tm_mday)}) + 1 + TwoDigits(tm.tm_hour) + 1 + TwoDigits(tm.tm_min)
         + 1 + TwoDigits(tm.tm_sec) + 1 + Decimal(1900 + tm.date.tm_year) + 1 < 26

-----------------------------------------------------------------------------
(* Deadlines: a timespec is [sec, nsec], a timeout a number of milliseconds. *)

NsPerSec == NsPerMs * MsPerSec

\* What an int64_t holds of a number; C leaves an overflow undefined, and the
\* instructions of the targets wrap around.
Int64(n) == ((n + TimeLimit) % (2 * TimeLimit)) - TimeLimit

ts_to_ns(ts) == Int64(ts.sec * NsPerSec + ts.nsec)
ts_to_ms(ts) == Int64(ts.sec * MsPerSec + Quot(ts.nsec, NsPerMs))
tp_diff(a, b) == Int64(ts_to_ns(a) - ts_to_ns(b))
tp_ge(a, b) == a.sec > b.sec \/ (a.sec = b.sec /\ a.nsec >= b.nsec)
tp_diff_in_range_ns(a, b, lo, hi) == lo <= tp_diff(a, b) /\ tp_diff(a, b) < hi

sys_clock_from_clockid(clock) ==
    IF clock \in {"CLOCK_REALTIME", "CLOCK_MONOTONIC"} THEN clock ELSE "EINVAL"

\* now is what sys_clock_gettime reads, of a clock that it knows.
timespec_to_timeoutms(clock, now, abstime) ==
    IF sys_clock_from_clockid(clock) = "EINVAL" THEN 0
    ELSE Max({0, Min({TimeoutMax, Quot(tp_diff(abstime, now), NsPerMs)})})

-----------------------------------------------------------------------------
(* inet_addr: a string of characters "." and " ", digits, which are numbers, and *)
(* others.  Its result is four parts; above 255 one would run into the next.     *)

Dot == 46
Space == 32
Letter == 120
IsDigit(c) == c \in 0..9

\* The characters before the end or a space, of which at most AddrStrLen + 1 are
\* looked at; subdigits counts the digits behind a dot.
Subdigits(s, i) == i - Max({k \in 0..i : k = 0 \/ ~IsDigit(s[k])})
InetLen(s) ==
    LET spaces == {k \in 1..Min({Len(s), AddrStrLen + 1}) : s[k] = Space} IN
    IF spaces = {} THEN Min({Len(s), AddrStrLen + 1}) ELSE Min(spaces) - 1

inet_addr(s) ==
    LET text == SubSeq(s, 1, InetLen(s))
        n == Len(text)
        dots == {k \in 1..n : text[k] = Dot}
        bad == \/ \E k \in 1..n : Subdigits(text, k) > 3 \/ ~(IsDigit(text[k]) \/ text[k] = Dot)
               \/ \E k \in dots : k = 1 \/ text[k - 1] = Dot
               \/ Cardinality(dots) # 3 \/ n - Cardinality(dots) < 4
        step(acc, c) == IF c = Dot THEN [parts |-> Append(acc.parts, acc.tmp), tmp |-> 0]
                        ELSE [acc EXCEPT !.tmp = 10 * @ + c]
        r == FoldLeft(step, [parts |-> <<>>, tmp |-> 0], text)
    IN  IF bad THEN <<>> ELSE IF text[n] = Dot THEN r.parts ELSE Append(r.parts, r.tmp)

-----------------------------------------------------------------------------
(* confstr: what the buffer holds, and the length the string needs. *)

confstr_copy(val, len) ==
    [text |-> SubSeq(val, 1, Min({Len(val), len - 1})), n |-> Len(val) + 1]

\* values[name] is the string of a name that is known; EINVAL for the others.
confstr(name, values, len) ==
    IF name \in DOMAIN values THEN confstr_copy(values[name], len) ELSE [text |-> <<>>, n |-> 0]

-----------------------------------------------------------------------------
(* What they should compute *)

IsLeap(y) == y % 4 = 0 /\ (y % 100 # 0 \/ y % 400 = 0)
DaysIn(mon, y) == IF mon = 1 THEN 28 + Flag(IsLeap(y)) ELSE IF mon \in {3, 5, 8, 10} THEN 30 ELSE 31

\* The day after a day
Tomorrow(d) ==
    LET y == d.tm_year + 1900
        last == d.tm_mday = DaysIn(d.tm_mon, y)
        newyear == last /\ d.tm_mon = 11
    IN  [tm_wday |-> (d.tm_wday + 1) % 7,
         tm_mday |-> IF last THEN 1 ELSE d.tm_mday + 1,
         tm_mon |-> IF newyear THEN 0 ELSE IF last THEN d.tm_mon + 1 ELSE d.tm_mon,
         tm_year |-> IF newyear THEN d.tm_year + 1 ELSE d.tm_year,
         tm_yday |-> IF newyear THEN 0 ELSE d.tm_yday + 1]

\* gmtime_r is the proleptic Gregorian calendar: day 0 is Thursday the first of
\* January 1970, and every day, in every era before and after, is followed by the
\* next one; and each second falls in the day it belongs to, before 1970 too.
CalendarAgrees(day, sec) ==
    LET tm == gmtime_r(sec) IN
    /\ time_civil_from_days(day + 1) = Tomorrow(time_civil_from_days(day))
    /\ time_civil_from_days(0) = [tm_wday |-> 4, tm_mday |-> 1, tm_mon |-> 0, tm_year |-> 70, tm_yday |-> 0]
    /\ tm.tm_hour \in 0..23 /\ tm.tm_min \in 0..59 /\ tm.tm_sec \in 0..59
    /\ \E d \in {sec \div 86400} :
          /\ tm.date = time_civil_from_days(d)
          /\ sec = ((d * 24 + tm.tm_hour) * 60 + tm.tm_min) * 60 + tm.tm_sec

\* asctime_r writes every date of the calendar whose year has at most four
\* characters, the sign of one before the year 0 among them.
DatesAreWritten(day, sec) ==
    LET tm == [gmtime_r(sec) EXCEPT !.date = time_civil_from_days(day)] IN
    asctime_r(tm) <=> tm.date.tm_year + 1900 \in -999..9999

\* The timeout of a deadline is never longer than the time that is left, and
\* less than a millisecond shorter unless it is cut at the largest timeout; one
\* that has passed gives no time at all, and nor does one of a clock that cannot be
\* read.  The comparisons of times agree.  All but tp_ge is for times, and a time
\* left, whose nanoseconds an int64_t holds; timespec_to_timeoutms looks at none of it.
Nanoseconds(ts) == ts.sec * NsPerSec + ts.nsec
Held(n) == -TimeLimit <= n /\ n < TimeLimit
DeadlinesAgree(now, abstime) ==
    LET ms == timespec_to_timeoutms("CLOCK_REALTIME", now, abstime)
        left == Nanoseconds(abstime) - Nanoseconds(now)
    IN  /\ tp_ge(abstime, now) <=> left >= 0
        /\ timespec_to_timeoutms("CLOCK_PROCESS_CPUTIME_ID", now, abstime) = 0
        /\ Held(Nanoseconds(now)) /\ Held(Nanoseconds(abstime)) /\ Held(left) =>
             /\ left <= 0 => ms = 0
             /\ left > 0 => ms * NsPerMs <= left
             /\ left > 0 /\ ms < TimeoutMax => left < (ms + 1) * NsPerMs
             /\ tp_diff_in_range_ns(abstime, now, 0, NsPerSec) =>
                  0 <= left /\ ts_to_ms(abstime) - ts_to_ms(now) \in 0..MsPerSec

Part(v) == IF v < 10 THEN <<v>> ELSE IF v < 100 THEN <<v \div 10, v % 10>>
           ELSE <<v \div 100, (v \div 10) % 10, v % 10>>

\* inet_addr reads back the four parts of an address in dotted notation, whatever
\* stands behind a space, and refuses one with another character; confstr gives a
\* prefix that fits with its NUL and the length with which it would be whole.
NumbersAgree(parts, rest, len) ==
    LET text == Part(parts[1]) \o <<Dot>> \o Part(parts[2]) \o <<Dot>> \o Part(parts[3])
                \o <<Dot>> \o Part(parts[4])
        values == [path |-> text, empty |-> <<>>]
        c == confstr("path", values, len)
    IN  /\ inet_addr(text) = parts
        /\ inet_addr(text \o <<Space>> \o rest) = parts
        /\ inet_addr(SubSeq(text, 1, Len(text) - 1)) # parts
        /\ \A k \in 0..Len(text) :
              inet_addr(SubSeq(text, 1, k) \o <<Letter>> \o SubSeq(text, k + 1, Len(text))) = <<>>
        /\ len >= c.n <=> c.text = text
        /\ Len(c.text) < len /\ IsPrefix(c.text, text)
        /\ \A name \in {"path", "empty", "unknown"} :
              confstr(name, values, len).n = 0 <=> name \notin DOMAIN values
=============================================================================
