------------------------------ MODULE Accounts ------------------------------
(***************************************************************************)
(* lib/posix/options/system_database*: entries of /etc/group and           *)
(* /etc/passwd looked up by name or by number, in a buffer of the caller.  *)
(*                                                                         *)
(* A file is a sequence of one-character strings, without NULs.  A buffer  *)
(* has a size and an address, of which the alignment matters.              *)
(***************************************************************************)
EXTENDS Integers, Sequences, SequencesExt, FiniteSetsExt

CONSTANT NULL

PtrSize == 8
Digits == <<"0", "1", "2", "3", "4", "5", "6", "7", "8", "9">>

atoi(s) ==
    LET end == Min({k \in 1..(Len(s) + 1) : k > Len(s) \/ ~Contains(Digits, s[k])}) IN
    FoldLeft(LAMBDA v, c : v * 10 + (CHOOSE k \in 1..10 : Digits[k] = c) - 1, 0,
             SubSeq(s, 1, end - 1))

\* Where fgets stops that reads from position p into a buffer of n characters
fgets(file, p, n) ==
    LET last == Min({p + n - 2, Len(file)})
        lines == {k \in p..last : file[k] = "\n"}
    IN  IF lines = {} THEN last ELSE Min(lines)

Colons(s) == SelectSeq([k \in 1..Len(s) |-> k], LAMBDA k : s[k] = ":")

\* Field k of a piece, up to the next colon; the last field of an entry goes on to
\* the end of the line, colons or not.
Field(s, k) ==
    LET c == Colons(s) IN SubSeq(s, IF k = 1 THEN 1 ELSE c[k - 1] + 1, c[k] - 1)
LastField(s, k) == SubSeq(s, Colons(s)[k - 1] + 1, Len(s) - 1)
Fields(s, fields) == [k \in 1..fields |-> IF k < fields THEN Field(s, k) ELSE LastField(s, k)]

-----------------------------------------------------------------------------
(* One piece that fgets read, for a key [name, id] of which name may be NULL. *)
(* fields is the number of fields of an entry, four or seven.                 *)

Look(s, key, fields) ==
    LET n == Len(Colons(s)) IN
    CASE s[1] = "\n" -> "next"
      [] s[1] # "\n" /\ n = 0 -> "ERANGE"
      [] s[1] # "\n" /\ n > 0 /\ key.name \notin {NULL, Field(s, 1)} -> "next"
      [] OTHER ->
            IF n < 3 THEN "ERANGE"
            ELSE IF key.name = NULL /\ atoi(Field(s, 3)) # key.id THEN "next"
            ELSE IF n < fields - 1 \/ s[Len(s)] # "\n" THEN "ERANGE"
            ELSE "found"

Members(s) ==
    LET m == LastField(s, 4) IN
    IF m = <<>> THEN 0 ELSE 1 + Cardinality({k \in 1..Len(m) : m[k] = ","})

\* The buffer that the members of a group need, behind a line of len characters
MinSize(len, nmemb) == len + nmemb * PtrSize + 32

\* Where the array of members begins, in a buffer at address base
MemberArray(base, len) == ((base + len + 15) \div 16) * 16

z_getgr_line(s, key, buf) ==
    LET r == Look(s, key, 4) IN
    IF r # "found" THEN [ret |-> r]
    ELSE IF buf.size < MinSize(Len(s), Members(s)) THEN [ret |-> "ERANGE"]
    ELSE [ret |-> "found", entry |-> Fields(s, 4),
          mem |-> MemberArray(buf.base, Len(s)), nmemb |-> Members(s)]

z_getpw_line(s, key, buf) ==
    LET r == Look(s, key, 7) IN
    IF r # "found" THEN [ret |-> r]
    ELSE [ret |-> "found", entry |-> Fields(s, 7)]

RECURSIVE ReadOn(_, _, _, _, _)
ReadOn(db, file, p, key, buf) ==
    IF p > Len(file) THEN [ret |-> "none"]
    ELSE LET end == fgets(file, p, buf.size)
             line == SubSeq(file, p, end)
             r == IF db = "group" THEN z_getgr_line(line, key, buf) ELSE z_getpw_line(line, key, buf)
         IN  IF r.ret = "next" THEN ReadOn(db, file, end + 1, key, buf) ELSE r

Lookup(db, file, key, buf) ==
    IF key.name = NULL /\ key.id = -1 THEN [ret |-> "EINVAL"]
    ELSE IF buf.size < 2 THEN [ret |-> "ERANGE"]
    ELSE IF file = NULL THEN [ret |-> "EIO"]
    ELSE ReadOn(db, file, 1, key, buf)

z_getgr_r(file, key, buf) == Lookup("group", file, key, buf)
z_getpw_r(file, key, buf) == Lookup("passwd", file, key, buf)

\* getpwnam_r and its like pass one half of the key on; without a name there is
\* nothing for the half that is missing to match.
getpwnam_r(file, name, buf) == z_getpw_r(file, [name |-> name, id |-> -1], buf)
getpwuid_r(file, uid, buf) == z_getpw_r(file, [name |-> NULL, id |-> uid], buf)
getgrnam_r(file, name, buf) == z_getgr_r(file, [name |-> name, id |-> -1], buf)
getgrgid_r(file, gid, buf) == z_getgr_r(file, [name |-> NULL, id |-> gid], buf)

\* getpwnam and its like read into a buffer of their own, and return a pointer to
\* the entry or NULL; errno says why, except where no entry was found.
Pointer(r) == IF r.ret = "found" THEN [entry |-> r.entry, errno |-> "0"]
              ELSE [entry |-> NULL, errno |-> IF r.ret = "none" THEN "0" ELSE r.ret]
Unnamed == [entry |-> NULL, errno |-> "0"]

getpwnam(file, name, own) == IF name = NULL THEN Unnamed ELSE Pointer(getpwnam_r(file, name, own))
getpwuid(file, uid, own) == Pointer(getpwuid_r(file, uid, own))
getgrnam(file, name, own) == IF name = NULL THEN Unnamed ELSE Pointer(getgrnam_r(file, name, own))
getgrgid(file, gid, own) == Pointer(getgrgid_r(file, gid, own))

-----------------------------------------------------------------------------
(* The reference: the file as lines. *)

RECURSIVE LinesOf(_)
LinesOf(file) ==
    LET ends == {k \in 1..Len(file) : file[k] = "\n"} IN
    IF file = <<>> THEN <<>>
    ELSE IF ends = {} THEN <<file>>
    ELSE <<SubSeq(file, 1, Min(ends))>> \o LinesOf(SubSeq(file, Min(ends) + 1, Len(file)))

WellFormed(s, fields) == s = <<"\n">> \/ (Len(Colons(s)) = fields - 1 /\ s[Len(s)] = "\n")
Wanted(s, key) ==
    s # <<"\n">> /\ IF key.name = NULL THEN atoi(Field(s, 3)) = key.id ELSE Field(s, 1) = key.name

\* In a file of well formed lines that fit the buffer, a lookup finds the first
\* entry that has the name or the number, and returns NULL without an error only
\* when there is none; whatever the file, the array of a group's members with the NULL
\* behind them lies in the caller's buffer, behind the line whose text it points to.
AccountsAgree(file, key, buf) ==
    LET Sound(p, fields) ==
            LET lines == LinesOf(file)
                hits == {k \in 1..Len(lines) : Wanted(lines[k], key)}
                readable == \A k \in 1..Len(lines) :
                                WellFormed(lines[k], fields) /\ Len(lines[k]) < buf.size
            IN  readable /\ buf.size >= 2 /\ key # [name |-> NULL, id |-> -1] =>
                    CASE p.entry # NULL ->
                            hits # {} /\ p.entry = Fields(lines[Min(hits)], fields)
                      [] p.entry = NULL /\ p.errno = "0" -> hits = {}
                      [] OTHER -> fields = 4 /\ hits # {}
        gr == IF key.name = NULL THEN getgrgid_r(file, key.id, buf) ELSE getgrnam_r(file, key.name, buf)
    IN  /\ Sound(IF key.name = NULL THEN getgrgid(file, key.id, buf) ELSE getgrnam(file, key.name, buf), 4)
        /\ Sound(IF key.name = NULL THEN getpwuid(file, key.id, buf) ELSE getpwnam(file, key.name, buf), 7)
        /\ gr.ret = "found" =>
              /\ gr.mem % 16 = 0
              /\ gr.mem >= buf.base + Len(FlattenSeq(gr.entry)) + 4
              /\ gr.mem + (gr.nmemb + 1) * PtrSize <= buf.base + buf.size
=============================================================================
