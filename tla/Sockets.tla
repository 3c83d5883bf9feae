------------------------------- MODULE Sockets ------------------------------
(***************************************************************************)
(* lib/posix/include/zephyr/posix/net/conversion.h and the calls of        *)
(* lib/posix/options/networking that carry an address between the C        *)
(* library's structures and Zephyr's.  Where the layouts are the same, an  *)
(* address is passed as it is; where they differ, its fields are copied.   *)
(* socket.c asserts that the numbers of the families are the same.         *)
(*                                                                         *)
(* zsock_* is external: a socket remembers, in Zephyr's layout, the        *)
(* addresses that it is given.                                             *)
(***************************************************************************)
EXTENDS Integers, Sequences, FiniteSetsExt

CONSTANTS
    SizeOf,     \* SizeOf[layout][family]: sizeof the structure of an address
    Storage,    \* sizeof(struct sockaddr_storage)
    ScopeMod,   \* 2^8: Zephyr's sin6_scope_id is a uint8_t
    PathMax,    \* PathMax[layout]: sizeof sun_path
    Addresses,  \* the addresses of the program
    NULL

VARIABLES
    layout,     \* "same", or "differs"
    sock,       \* what Zephyr holds: .name, .peer, .inbox
    said,       \* what the program said they were
    got         \* the last address that was returned, and for which buffer

socketVars == <<layout, sock, said, got>>

Converted == {"in", "in6", "un"}            \* the families with a structure of POSIX
Native == {"can", "packet", "mgmt"}         \* the ones with a structure of Zephyr only

-----------------------------------------------------------------------------
(* Conversions.  An address is [family, scope, path, as]: the layout it has in *)
(* memory, and of its fields those whose width differs.                        *)

As(a, l) == IF layout = "same" THEN a ELSE [a EXCEPT !.as = l]

sockaddr_in_to_zephyr(a) == As(a, "zephyr")
sockaddr_in_to_posix(a) == As(a, "posix")

sockaddr_in6_to_zephyr(a) ==
    IF layout = "same" THEN a ELSE [As(a, "zephyr") EXCEPT !.scope = @ % ScopeMod]
sockaddr_in6_to_posix(a) == As(a, "posix")

\* The path is copied as far as the smaller of the two arrays.
Shorter == Min({PathMax["posix"], PathMax["zephyr"]})
sockaddr_un_to_zephyr(a) ==
    IF layout = "same" THEN a ELSE [As(a, "zephyr") EXCEPT !.path = Min({@, Shorter})]
sockaddr_un_to_posix(a) ==
    IF layout = "same" THEN a ELSE [As(a, "posix") EXCEPT !.path = Min({@, Shorter})]

\* What Zephyr gets, and its length.
posix_sockaddr_to_zephyr(a, len) ==
    CASE a.family = "in" -> [addr |-> sockaddr_in_to_zephyr(a), len |-> SizeOf["zephyr"]["in"]]
      [] a.family = "in6" -> [addr |-> sockaddr_in6_to_zephyr(a), len |-> SizeOf["zephyr"]["in6"]]
      [] a.family = "un" -> [addr |-> sockaddr_un_to_zephyr(a), len |-> SizeOf["zephyr"]["un"]]
      [] a.family \in Native -> [addr |-> a, len |-> SizeOf["zephyr"][a.family]]
      [] OTHER -> [addr |-> a, len |-> len]

\* (mutant) the length is not limited to the caller's buffer
zephyr_sockaddr_to_posix_unlimited(z, zlen, room) ==
    CASE z.family = "in" -> [addr |-> sockaddr_in_to_posix(z), len |-> SizeOf["posix"]["in"]]
      [] z.family = "in6" -> [addr |-> sockaddr_in6_to_posix(z), len |-> SizeOf["posix"]["in6"]]
      [] z.family = "un" -> [addr |-> sockaddr_un_to_posix(z), len |-> SizeOf["posix"]["un"]]
      [] OTHER -> [addr |-> z, len |-> zlen]

\* What the program gets in a buffer of a size, and the length of it.
zephyr_sockaddr_to_posix(z, zlen, room) ==
    CASE z.family = "in" -> [addr |-> sockaddr_in_to_posix(z), len |-> SizeOf["posix"]["in"]]
      [] z.family = "in6" -> [addr |-> sockaddr_in6_to_posix(z), len |-> SizeOf["posix"]["in6"]]
      [] z.family = "un" -> [addr |-> sockaddr_un_to_posix(z), len |-> SizeOf["posix"]["un"]]
      [] OTHER -> [addr |-> z, len |-> Min({zlen, room})]

-----------------------------------------------------------------------------
(* Calls *)

Nothing == [addr |-> NULL, len |-> 0]
NotAsked == [of |-> NULL, addr |-> NULL, len |-> 0, room |-> 0]

InitialLayout(a) == [a EXCEPT !.as = IF layout = "same" \/ a.family \in Native THEN "both" ELSE "posix"]

Init ==
    /\ layout \in {"same", "differs"}
    /\ sock = [name |-> Nothing, peer |-> Nothing, inbox |-> Nothing]
    /\ said = [name |-> NULL, peer |-> NULL, inbox |-> NULL]
    /\ got = NotAsked

\* The conversion that bind, connect, sendto, sendmsg and getnameinfo share
\* (EDESTADDRREQ or EINVAL without an address).
Give(slot, a) ==
    LET p == InitialLayout(a) IN
    /\ sock' = [sock EXCEPT ![slot] = posix_sockaddr_to_zephyr(p, SizeOf["posix"][a.family])]
    /\ said' = [said EXCEPT ![slot] = p]
    /\ got' = NotAsked
    /\ UNCHANGED layout

bind(a) == sock.name = Nothing /\ Give("name", a)
connect(a) == Give("peer", a)

\* The peer is the socket itself: what it sends comes back to it.  The source
\* of a message is the address that the other side gave its socket with bind.
sendto(a) == sock.inbox = Nothing /\ Give("inbox", a)
sendmsg(a) == sendto(a)

\* CAN does not say where a message came from.
Silent(slot) == slot = "inbox" /\ sock[slot].addr.family = "can"

\* What zsock_* leaves in the scratch buffer: the address or, when nobody writes
\* it, whatever the stack held, with the length that it was declared with.
Scratch(slot) ==
    IF Silent(slot) THEN {[addr |-> a, len |-> Storage] : a \in Addresses} ELSE {sock[slot]}

\* What accept, getsockname, getpeername, recvfrom and recvmsg share.  Nothing but
\* an assertion compares the room with the size of a family that is converted:
\* .len bytes are written to the caller's buffer, whether it has them or not.
Take(slot, room) ==
    /\ sock[slot] # Nothing
    /\ \E z \in Scratch(slot) :
         LET r == zephyr_sockaddr_to_posix(z.addr, z.len, room) IN
         got' = [of |-> IF Silent(slot) THEN NULL ELSE slot, addr |-> r.addr, len |-> r.len,
                 room |-> room]

getsockname(room) == Take("name", room) /\ UNCHANGED <<layout, sock, said>>
getpeername(room) == Take("peer", room) /\ UNCHANGED <<layout, sock, said>>

recvfrom(room) ==
    /\ Take("inbox", room)
    /\ sock' = [sock EXCEPT !.inbox = Nothing]
    /\ UNCHANGED <<layout, said>>

accept(room) == Take("peer", room) /\ UNCHANGED <<layout, sock, said>>

\* recvmsg without msg_name leaves msg_namelen alone.
recvmsg(room) ==
    \/ room > 0 /\ recvfrom(room)
    \/ /\ room = 0 /\ sock.inbox # Nothing
       /\ sock' = [sock EXCEPT !.inbox = Nothing]
       /\ got' = NotAsked
       /\ UNCHANGED <<layout, said>>

Rooms == {0, Storage} \cup {SizeOf["posix"][a.family] : a \in Addresses}

\* Bound: the addresses that a socket holds do not meet, and so it holds two at a time.
Few == Cardinality({s \in DOMAIN sock : sock[s] # Nothing}) < 2

Next ==
    \/ Few /\ \E a \in Addresses : bind(a) \/ connect(a) \/ sendto(a) \/ sendmsg(a)
    \/ \E room \in Rooms :
         \/ getsockname(room) \/ getpeername(room) \/ accept(room)
         \/ recvfrom(room) \/ recvmsg(room)

Spec == Init /\ [][Next]_socketVars

-----------------------------------------------------------------------------
(* Properties *)

ScopeKept(a) == a.family = "in6" => a.scope < ScopeMod

\* The bytes that a buffer needs for what comes back: the structure of the
\* address, or any structure when the source is not known.
Needed(of) == IF of = NULL THEN Storage ELSE SizeOf["posix"][said[of].family]

\* An address that comes back from getsockname, getpeername, accept, recvfrom
\* or recvmsg is the one that the program gave, in the program's layout and with
\* the length of its structure; unless the layouts differ and an IPv6 scope does
\* not fit Zephyr's uint8_t (l.197), or a path its array.  More is written than
\* the buffer holds only for a family that is converted, and only if the buffer
\* is smaller than the structure of the address that the socket was given or, for
\* a message whose source CAN does not set, than a sockaddr_storage.
AddressesSurvive ==
    /\ got.len > got.room =>
         got.addr.family \in Converted /\ got.room < Needed(got.of)
    /\ got.of # NULL =>
         LET a == said[got.of] IN
         (layout = "same" \/ (ScopeKept(a) /\ a.path <= Shorter)) =>
             got.addr = a /\ (a.family \in Converted => got.len = SizeOf["posix"][a.family])
=============================================================================
