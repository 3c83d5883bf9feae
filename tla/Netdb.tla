-------------------------------- MODULE Netdb -------------------------------
(***************************************************************************)
(* lib/posix/options/networking/netdb_ent.c: the four text databases of    *)
(* hosts, networks, protocols and services.  Each has one static file,     *)
(* which get...ent walks through, get...by... searches from its beginning, *)
(* set...ent rewinds and may keep open, and end...ent closes.              *)
(***************************************************************************)
EXTENDS Integers, SequencesExt

CONSTANTS
    Parsed,     \* what the lines of each file parse to, by NetdbLines; a missing
                \* file has no entry here
    Streams,    \* the FILE objects that fopen can give out
    Keys,       \* what the program looks for
    NULL

VARIABLES
    netdb,      \* .fp and .stayopen of each netdb_file; .pos of each stream, 0: closed
    answer,     \* what the last call was asked and what it returned
    walked      \* how many entries a file has given since it was opened or
                \* rewound; -1 once a search has moved it

netdbVars == <<netdb, answer, walked>>

NoEntry == [ok |-> FALSE]
DBs == {"hosts", "networks", "protocols", "services"}

-----------------------------------------------------------------------------
(* Streams *)

netdb_release(s, db) ==
    IF s.fp[db] = NULL THEN s
    ELSE [s EXCEPT !.pos[s.fp[db]] = 0, !.fp[db] = NULL]

netdb_release_others(s, db) ==
    LET idle == {d \in DBs \ {db} : s.fp[d] # NULL /\ ~s.stayopen[d]} IN
    [s EXCEPT !.pos = [f \in Streams |-> IF \E d \in idle : s.fp[d] = f THEN 0 ELSE @[f]],
              !.fp = [d \in DBs |-> IF d \in idle THEN NULL ELSE @[d]]]

\* fopen fails when the file is missing or all streams are in use.
netdb_open(s, db) ==
    LET o == netdb_release_others(s, db)
        free == {f \in Streams : o.pos[f] = 0}
        f == CHOOSE f \in free : TRUE
    IN  IF s.fp[db] # NULL THEN s
        ELSE IF db \notin DOMAIN Parsed \/ free = {} THEN o
        ELSE [o EXCEPT !.fp[db] = f, !.pos[f] = 1]

\* Also the closing that get...ent and the searches do by themselves.
netdb_close(s, db) == IF s.stayopen[db] THEN s ELSE netdb_release(s, db)

\* (mutant) a stream that is open already stays where it is
netdb_rewind_none(s, db) == netdb_open(s, db)

netdb_rewind(s, db) ==
    LET o == netdb_open(s, db) IN
    IF o.fp[db] = NULL THEN o ELSE [o EXCEPT !.pos[o.fp[db]] = 1]

\* Reads on until an entry that fits: the state, and the entry.
Seek(s, db, Fits(_)) ==
    LET from == s.pos[s.fp[db]]
        hits == {i \in from..Len(Parsed[db]) : Parsed[db][i].ok /\ Fits(Parsed[db][i])}
    IN  IF hits = {}
        THEN [st |-> [s EXCEPT !.pos[s.fp[db]] = Len(Parsed[db]) + 1], entry |-> NoEntry]
        ELSE [st |-> [s EXCEPT !.pos[s.fp[db]] = Min(hits) + 1], entry |-> Parsed[db][Min(hits)]]

-----------------------------------------------------------------------------
(* Calls *)

\* A search: by name, by number, and for services also by protocol.  A field of
\* the key that is NULL is not looked at.
Matches(key, e) ==
    /\ key.name \in {<<>>, e.name}
    /\ key.num \in {-1, e.num}
    /\ key.proto \in {<<>>, e.proto}

lookup_network_fallback(key) ==
    LET loopback == [ok |-> TRUE, name |-> <<"loopback">>, num |-> 127, aliases |-> <<>>,
                     proto |-> <<>>] IN
    IF Matches(key, loopback) THEN loopback ELSE NoEntry

NoAnswer == [db |-> NULL, call |-> "none", n |-> 0, key |-> NULL, entry |-> NoEntry]

Init ==
    /\ netdb = [fp |-> [d \in DBs |-> NULL], stayopen |-> [d \in DBs |-> FALSE],
                pos |-> [f \in Streams |-> 0]]
    /\ answer = NoAnswer
    /\ walked = [d \in DBs |-> 0]

\* The state after a call, after which n entries of db have been walked through
Becomes(s, db, n) ==
    /\ netdb' = s
    /\ walked' = [d \in DBs |-> IF s.fp[d] = NULL THEN 0 ELSE IF d = db THEN n ELSE walked[d]]

\* get...ent: the next entry, and without stayopen the file is closed again.
getent(db) ==
    LET s == netdb_open(netdb, db)
        r == Seek(s, db, LAMBDA e : TRUE)
        n == IF walked[db] \in {-1, Len(Parsed[db]) + 1} THEN walked[db] ELSE walked[db] + 1
    IN  \/ /\ s.fp[db] = NULL
           /\ Becomes(s, db, 0)
           /\ answer' = NoAnswer
        \/ /\ s.fp[db] # NULL
           /\ Becomes(netdb_close(r.st, db), db, n)
           /\ answer' = [NoAnswer EXCEPT !.db = db, !.call = "next", !.n = n, !.entry = r.entry]

\* getnetbyname, getnetbyaddr, getprotobyname, getprotobynumber, getservbyname
\* and getservbyport; there is no search for hosts.
getby(db, key) ==
    LET s == netdb_rewind(netdb, db)
        r == Seek(s, db, LAMBDA e : Matches(key, e))
        Found(e) == answer' = [NoAnswer EXCEPT !.db = db, !.key = key,
            !.call = IF s.fp[db] = NULL THEN "none" ELSE "search",
            !.entry = IF ~e.ok /\ db = "networks" THEN lookup_network_fallback(key) ELSE e]
    IN  \/ s.fp[db] = NULL /\ Becomes(s, db, 0) /\ Found(NoEntry)
        \/ s.fp[db] # NULL /\ Becomes(netdb_close(r.st, db), db, -1) /\ Found(r.entry)

setent(db, stayopen) ==
    /\ Becomes(netdb_rewind([netdb EXCEPT !.stayopen[db] = stayopen], db), db, 0)
    /\ answer' = NoAnswer

endent(db) ==
    /\ Becomes([netdb_release(netdb, db) EXCEPT !.stayopen[db] = FALSE], db, 0)
    /\ answer' = NoAnswer

gethostent == getent("hosts")
getnetent == getent("networks")
getprotoent == getent("protocols")
getservent == getent("services")

scan_networks(key) == getby("networks", key)
scan_protocols(key) == getby("protocols", key)
scan_services(key) == getby("services", key)

sethostent(b) == setent("hosts", b)
setnetent(b) == setent("networks", b)
setprotoent(b) == setent("protocols", b)
setservent(b) == setent("services", b)

endhostent == endent("hosts")
endnetent == endent("networks")
endprotoent == endent("protocols")
endservent == endent("services")

Next ==
    \/ gethostent \/ getnetent \/ getprotoent \/ getservent
    \/ \E key \in Keys : scan_networks(key) \/ scan_protocols(key) \/ scan_services(key)
    \/ \E b \in BOOLEAN : sethostent(b) \/ setnetent(b) \/ setprotoent(b) \/ setservent(b)
    \/ endhostent \/ endnetent \/ endprotoent \/ endservent

Spec == Init /\ [][Next]_netdbVars

-----------------------------------------------------------------------------
(* Properties *)

\* The lines of a file that hold an entry, and the n-th of them.
Entries(db) == {i \in 1..Len(Parsed[db]) : Parsed[db][i].ok}
Nth(db, n) == {i \in Entries(db) : Cardinality({j \in Entries(db) : j <= i}) = n}

\* Every stream that is open belongs to one database, and the stream of a
\* database is open: the closing in get...ent and in the searches, and
\* netdb_release_others, neither leak a stream nor leave one that is closed.
NetdbStreamsAreOwned ==
    /\ \A f \in Streams : netdb.pos[f] > 0 <=> \E d \in DBs : netdb.fp[d] = f
    /\ \A d1, d2 \in DBs : d1 # d2 => netdb.fp[d1] = NULL \/ netdb.fp[d1] # netdb.fp[d2]

\* A search finds the first entry of its file that matches, wherever an
\* enumeration has left the file, and the loopback network when there is none;
\* and the n-th get...ent in a row returns the n-th entry of the file, or NULL
\* after the last, although other databases are opened and closed meanwhile.
NetdbAnswers ==
    /\ answer.call = "search" =>
         LET fit == {i \in Entries(answer.db) : Matches(answer.key, Parsed[answer.db][i])}
         IN  \/ \E i \in fit : answer.entry = Parsed[answer.db][i] /\ \A j \in fit : i <= j
             \/ /\ fit = {}
                /\ answer.entry = IF answer.db = "networks" THEN lookup_network_fallback(answer.key)
                                  ELSE NoEntry
    /\ answer.call = "next" /\ answer.n > 0 =>
         \/ \E i \in Nth(answer.db, answer.n) : answer.entry = Parsed[answer.db][i]
         \/ Nth(answer.db, answer.n) = {} /\ answer.entry = NoEntry

NetdbIsSound == NetdbStreamsAreOwned /\ NetdbAnswers
=============================================================================
