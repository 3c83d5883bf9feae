--------------------------- MODULE ConvertProofs ----------------------------
(***************************************************************************)
(* What holds of the conversions (socket addresses, the flags and locks of *)
(* files, the calendar, deadlines, handles, lists of interfaces) and of    *)
(* option parsing, for all addresses, flags, dates, times, objects,        *)
(* interfaces, options and arguments.                                      *)
(***************************************************************************)
EXTENDS LibraryParts, FiniteSetTheorems, SequenceTheorems, WellFoundedInduction, TLAPS

-----------------------------------------------------------------------------
(* Socket addresses *)

Slots == {"name", "peer", "inbox"}

FormOf(a) == Soc!posix_sockaddr_to_zephyr(Soc!InitialLayout(a), SizeOf["posix"][a.family])

\* A socket holds nothing, or Zephyr's form of the address that the program said.
SlotsHold == \A s \in Slots : sock[s] = Soc!Nothing \/
    \E a \in Addresses :
        said[s] = Soc!InitialLayout(a) /\ sock[s] = FormOf(a)

SocInv ==
    /\ layout \in {"same", "differs"}
    /\ sock = [s \in Slots |-> sock[s]] /\ said = [s \in Slots |-> said[s]]
    /\ SlotsHold
    /\ Soc!AddressesSurvive

\* The smaller of two numbers.
LEMMA SmallerOfTwo ==
  ASSUME NEW x \in Nat, NEW y \in Nat
  PROVE  Soc!Min({x, y}) = IF x <= y THEN x ELSE y
  <1>1. Soc!Min({x, y}) = CHOOSE z \in {x, y} : \A w \in {x, y} : z <= w  BY DEF Soc!Min
  <1>2. CASE x <= y  BY <1>1, <1>2
  <1>3. CASE ~(x <= y)  BY <1>1, <1>3
  <1> QED  BY <1>2, <1>3

Addr(f, s, h, q) == [family |-> f, scope |-> s, path |-> h, as |-> q]

LEMMA AddrFields ==
  ASSUME NEW f, NEW s, NEW h, NEW q, NEW x
  PROVE  /\ [Addr(f, s, h, q) EXCEPT !.as = x] = Addr(f, s, h, x)
         /\ [Addr(f, s, h, q) EXCEPT !.scope = x] = Addr(f, x, h, q)
         /\ [Addr(f, s, h, q) EXCEPT !.path = x] = Addr(f, s, x, q)
         /\ Addr(f, s, h, q).family = f /\ Addr(f, s, h, q).scope = s
         /\ Addr(f, s, h, q).path = h
  BY DEF Addr

\* No conversion changes the family.
LEMMA FamilyStays ==
  ASSUME NEW f, NEW s, NEW h, NEW q, NEW b, b = Addr(f, s, h, q)
  PROVE  Soc!As(b, "posix").family = f /\ Soc!sockaddr_un_to_posix(b).family = f
  <1>1. PICK q2 : Soc!As(b, "posix") = Addr(f, s, h, q2)
    <2>1. CASE layout = "same"  BY <2>1 DEF Soc!As
    <2>2. CASE layout # "same"
      <3>1. Soc!As(b, "posix") = [Addr(f, s, h, q) EXCEPT !.as = "posix"]  BY <2>2 DEF Soc!As
      <3>2. Soc!As(b, "posix") = Addr(f, s, h, "posix")  BY <3>1, AddrFields
      <3> QED  BY <3>2
    <2> QED  BY <2>1, <2>2
  <1>2. CASE layout = "same"  BY <1>1, <1>2, AddrFields DEF Soc!sockaddr_un_to_posix
  <1>3. CASE layout # "same"
    <2> DEFINE m == Soc!Min({Soc!As(b, "posix").path, Soc!Shorter})
    <2>1. Soc!sockaddr_un_to_posix(b) = [Soc!As(b, "posix") EXCEPT !.path = m]
      BY <1>3 DEF Soc!sockaddr_un_to_posix
    <2> HIDE DEF m
    <2>2. Soc!sockaddr_un_to_posix(b) = [Addr(f, s, h, q2) EXCEPT !.path = m]  BY <1>1, <2>1
    <2>3. Soc!sockaddr_un_to_posix(b) = Addr(f, s, m, q2)  BY <2>2, AddrFields
    <2> QED  BY <1>1, <2>3, AddrFields
  <1> QED  BY <1>2, <1>3

\* An address that goes to Zephyr and comes back is the same, if Zephyr's
\* structure has room for its scope and its path; what is written is its
\* structure or, of a family that is not converted, no more than the buffer holds.
LEMMA AddressRoundTrip ==
  ASSUME layout \in {"same", "differs"}, NEW a \in Addresses, NEW room \in Nat,
         NEW p, p = Soc!InitialLayout(a),
         NEW z, z = Soc!posix_sockaddr_to_zephyr(p, SizeOf["posix"][a.family]),
         NEW len \in Nat,
         NEW r, r = Soc!zephyr_sockaddr_to_posix(z.addr, len, room)
  PROVE  /\ r.len \in Int
         /\ r.len <= room \/ (/\ r.addr.family \in Soc!Converted
                              /\ r.len = SizeOf["posix"][p.family])
         /\ layout = "same" \/ (Soc!ScopeKept(p) /\ p.path <= Soc!Shorter) =>
              r.addr = p /\ (p.family \in Soc!Converted => r.len = SizeOf["posix"][p.family])
  <1>1. /\ SizeOf["posix"][a.family] \in Nat /\ ScopeMod \in Nat \ {0}
        /\ PathMax["posix"] \in Nat /\ PathMax["zephyr"] \in Nat
    BY SocketsAssumption
  <1>2. PICK f \in STRING, s \in Nat, h \in Nat : a = Addr(f, s, h, "both")
    BY SocketsAssumption DEF Addr
  <1>3. PICK q :
          p = Addr(f, s, h, q) /\ (layout # "same" /\ f \notin Soc!Native => q = "posix")
    
    <2>1. CASE layout = "same" \/ f \in Soc!Native
      <3>1. p = [a EXCEPT !.as = "both"]  BY <1>2, <2>1, AddrFields DEF Soc!InitialLayout
      <3>2. p = Addr(f, s, h, "both")  BY <1>2, <3>1, AddrFields
      <3> QED  BY <2>1, <3>2
    <2>2. CASE ~(layout = "same" \/ f \in Soc!Native)
      <3>1. p = [a EXCEPT !.as = "posix"]  BY <1>2, <2>2, AddrFields DEF Soc!InitialLayout
      <3>2. p = Addr(f, s, h, "posix")  BY <1>2, <3>1, AddrFields
      <3> QED  BY <2>2, <3>2
    <2> QED  BY <2>1, <2>2
  <1>4. Soc!Shorter \in Nat  BY <1>1, SmallerOfTwo DEF Soc!Shorter
  <1>5. a.family = f /\ p.family = f /\ p.scope = s /\ p.path = h  BY <1>2, <1>3 DEF Addr
  <1>6. CASE f = "in"
    <2>1. z.addr = Soc!sockaddr_in_to_zephyr(p)
      BY <1>5, <1>6 DEF Soc!posix_sockaddr_to_zephyr, Soc!Native
    <2>2. z.addr = IF layout = "same" THEN p ELSE Addr(f, s, h, "zephyr")
      BY <1>3, <2>1 DEF Soc!sockaddr_in_to_zephyr, Soc!As, Addr
    <2>3. z.addr.family = "in"  BY <1>5, <1>6, <2>2 DEF Addr
    <2>4. r = [addr |-> Soc!sockaddr_in_to_posix(z.addr), len |-> SizeOf["posix"]["in"]]
      BY <2>3 DEF Soc!zephyr_sockaddr_to_posix
    <2>5. r.addr = p
      BY <1>3, <1>6, <2>2, <2>4 DEF Soc!sockaddr_in_to_posix, Soc!As, Soc!Native, Addr
    <2> QED  BY <1>1, <1>5, <1>6, <2>3, <2>4, <2>5 DEF Soc!Converted
  <1>7. CASE f = "in6"
    <2>1. z.addr = Soc!sockaddr_in6_to_zephyr(p)
      BY <1>5, <1>7 DEF Soc!posix_sockaddr_to_zephyr, Soc!Native
    <2>2. z.addr = IF layout = "same" THEN p ELSE Addr(f, s % ScopeMod, h, "zephyr")
      <3>1. Soc!As(p, "zephyr") = IF layout = "same" THEN p ELSE Addr(f, s, h, "zephyr")
        BY <1>3, AddrFields DEF Soc!As
      <3> QED  BY <2>1, <3>1, AddrFields DEF Soc!sockaddr_in6_to_zephyr
    <2>3. z.addr.family = "in6"  BY <1>5, <1>7, <2>2 DEF Addr
    <2>4. r = [addr |-> Soc!sockaddr_in6_to_posix(z.addr), len |-> SizeOf["posix"]["in6"]]
      BY <2>3 DEF Soc!zephyr_sockaddr_to_posix
    <2>5. ASSUME layout = "same" \/ Soc!ScopeKept(p) PROVE r.addr = p
      <3>1. layout = "same" \/ s % ScopeMod = s  BY <1>1, <1>5, <1>7, <2>5 DEF Soc!ScopeKept
      <3>2. r.addr = IF layout = "same" THEN p ELSE Addr(f, s, h, "posix")
        BY <2>2, <2>4, <3>1 DEF Soc!sockaddr_in6_to_posix, Soc!As, Addr
      <3> QED  BY <1>3, <1>7, <3>2 DEF Soc!Native
    <2>6. r.addr.family = "in6"
      <3>1. \E s2, q2 : z.addr = Addr("in6", s2, h, q2)  BY <1>3, <1>7, <2>2
      <3> QED  BY <2>4, <3>1, FamilyStays DEF Soc!sockaddr_in6_to_posix
    <2> QED  BY <1>1, <1>5, <1>7, <2>4, <2>5, <2>6 DEF Soc!Converted
  <1>8. CASE f = "un"
    <2>1. z.addr = Soc!sockaddr_un_to_zephyr(p)
      BY <1>5, <1>8 DEF Soc!posix_sockaddr_to_zephyr, Soc!Native
    <2>2. z.addr = IF layout = "same" THEN p ELSE Addr(f, s, Soc!Min({h, Soc!Shorter}), "zephyr")
      <3>1. Soc!As(p, "zephyr") = IF layout = "same" THEN p ELSE Addr(f, s, h, "zephyr")
        BY <1>3, AddrFields DEF Soc!As
      <3>2. CASE layout = "same"  BY <2>1, <3>2 DEF Soc!sockaddr_un_to_zephyr
      <3>3. CASE layout # "same"
        <4> DEFINE y == Addr(f, s, h, "zephyr")
        <4>1. z.addr = [y EXCEPT !.path = Soc!Min({y.path, Soc!Shorter})]
          BY <2>1, <3>1, <3>3 DEF Soc!sockaddr_un_to_zephyr
        <4>2. y.path = h  BY AddrFields
        <4>3. z.addr = [y EXCEPT !.path = Soc!Min({h, Soc!Shorter})]  BY <4>1, <4>2
        <4> QED  BY <3>3, <4>3, AddrFields
      <3> QED  BY <3>2, <3>3
    <2>3. z.addr.family = "un"  BY <1>5, <1>8, <2>2 DEF Addr
    <2>4. r = [addr |-> Soc!sockaddr_un_to_posix(z.addr), len |-> SizeOf["posix"]["un"]]
      BY <2>3 DEF Soc!zephyr_sockaddr_to_posix
    <2>5. ASSUME layout = "same" \/ p.path <= Soc!Shorter PROVE r.addr = p
      <3>1. layout = "same" \/ Soc!Min({h, Soc!Shorter}) = h  BY <1>4, <1>5, <2>5, SmallerOfTwo
      <3>2. z.addr = IF layout = "same" THEN p ELSE Addr(f, s, h, "zephyr")  BY <2>2, <3>1
      <3>3. r.addr = IF layout = "same" THEN p
                     ELSE Addr(f, s, Soc!Min({h, Soc!Shorter}), "posix")
        <4>1. Soc!As(z.addr, "posix") = IF layout = "same" THEN p ELSE Addr(f, s, h, "posix")
          BY <3>2, AddrFields DEF Soc!As
        <4>2. CASE layout = "same"  BY <2>4, <3>2, <4>2 DEF Soc!sockaddr_un_to_posix
        <4>3. CASE layout # "same"
          <5> DEFINE y == Addr(f, s, h, "posix")
          <5>1. r.addr = [y EXCEPT !.path = Soc!Min({y.path, Soc!Shorter})]
            BY <2>4, <4>1, <4>3 DEF Soc!sockaddr_un_to_posix
          <5>2. y.path = h  BY AddrFields
          <5>3. r.addr = [y EXCEPT !.path = Soc!Min({h, Soc!Shorter})]  BY <5>1, <5>2
          <5> QED  BY <4>3, <5>3, AddrFields
        <4> QED  BY <4>2, <4>3
      <3> QED  BY <1>3, <1>8, <3>1, <3>3 DEF Soc!Native
    <2>6. r.addr.family = "un"
      <3>1. \E h2, q2 : z.addr = Addr("un", s, h2, q2)  BY <1>3, <1>8, <2>2
      <3> QED  BY <2>4, <3>1, FamilyStays
    <2> QED  BY <1>1, <1>5, <1>8, <2>4, <2>5, <2>6 DEF Soc!Converted
  <1>9. CASE f \notin Soc!Converted
    <2>1. z.addr = p  BY <1>5, <1>9 DEF Soc!posix_sockaddr_to_zephyr, Soc!Converted, Soc!Native
    <2>2. r = [addr |-> p, len |-> Soc!Min({len, room})]
      BY <1>5, <1>9, <2>1 DEF Soc!zephyr_sockaddr_to_posix, Soc!Converted
    <2> QED  BY <1>5, <1>9, <2>2, SmallerOfTwo
  <1> QED  BY <1>6, <1>7, <1>8, <1>9 DEF Soc!Converted

\* What comes back of a scratch buffer that nobody wrote is a structure of some
\* family, or no more than the buffer holds.
LEMMA GarbageComesBack ==
  ASSUME layout \in {"same", "differs"}, NEW b \in Addresses, NEW room \in Nat,
         NEW r, r = Soc!zephyr_sockaddr_to_posix(b, Storage, room)
  PROVE  /\ r.len \in Int
         /\ r.len <= room \/ (r.addr.family \in Soc!Converted /\ r.len <= Storage)
  <1>1. /\ SizeOf["posix"][b.family] \in Nat /\ SizeOf["posix"][b.family] <= Storage
        /\ Storage \in Nat
    BY SocketsAssumption
  <1>2. PICK f \in STRING, s \in Nat, h \in Nat : b = Addr(f, s, h, "both")
    BY SocketsAssumption DEF Addr
  <1>3. b.family = f  BY <1>2, AddrFields
  <1>5. Soc!As(b, "posix").family = f  BY <1>2, FamilyStays
  <1>6. CASE f = "in"
    <2>1. r = [addr |-> Soc!As(b, "posix"), len |-> SizeOf["posix"]["in"]]
      BY <1>3, <1>6 DEF Soc!zephyr_sockaddr_to_posix, Soc!sockaddr_in_to_posix
    <2> QED  BY <1>1, <1>3, <1>5, <1>6, <2>1 DEF Soc!Converted
  <1>7. CASE f = "in6"
    <2>1. r = [addr |-> Soc!As(b, "posix"), len |-> SizeOf["posix"]["in6"]]
      BY <1>3, <1>7 DEF Soc!zephyr_sockaddr_to_posix, Soc!sockaddr_in6_to_posix
    <2> QED  BY <1>1, <1>3, <1>5, <1>7, <2>1 DEF Soc!Converted
  <1>8. CASE f = "un"
    <2>1. r = [addr |-> Soc!sockaddr_un_to_posix(b), len |-> SizeOf["posix"]["un"]]
      BY <1>3, <1>8 DEF Soc!zephyr_sockaddr_to_posix
    <2>2. Soc!sockaddr_un_to_posix(b).family = f  BY <1>2, FamilyStays
    <2> QED  BY <1>1, <1>3, <1>8, <2>1, <2>2 DEF Soc!Converted
  <1>9. CASE f \notin Soc!Converted
    <2>1. r = [addr |-> b, len |-> Soc!Min({Storage, room})]
      BY <1>3, <1>9 DEF Soc!zephyr_sockaddr_to_posix, Soc!Converted
    <2> QED  BY <1>1, <2>1, SmallerOfTwo
  <1> QED  BY <1>6, <1>7, <1>8, <1>9 DEF Soc!Converted

LEMMA SocInitially == PartsInit => SocInv
  <1> SUFFICES ASSUME PartsInit PROVE SocInv  OBVIOUS
  <1>1. Soc!Init  BY DEF PartsInit
  <1> QED
    BY <1>1 DEF Soc!Init, SocInv, SlotsHold, Slots, Soc!AddressesSurvive, Soc!NotAsked

LEMMA LayoutStays ==
  ASSUME layout' = layout, NEW a
  PROVE  Soc!InitialLayout(a)' = Soc!InitialLayout(a) /\ FormOf(a)' = FormOf(a)
  BY DEF FormOf, Soc!InitialLayout, Soc!posix_sockaddr_to_zephyr, Soc!sockaddr_in_to_zephyr,
         Soc!sockaddr_in6_to_zephyr, Soc!sockaddr_un_to_zephyr, Soc!As

\* A call that gives the socket an address.
LEMMA SocGive ==
  ASSUME SocInv, NEW slot \in Slots, NEW a \in Addresses, Soc!Give(slot, a)
  PROVE  SocInv'
  <1>1. /\ layout' = layout /\ got' = Soc!NotAsked
        /\ sock' = [sock EXCEPT ![slot] = FormOf(a)]
        /\ said' = [said EXCEPT ![slot] = Soc!InitialLayout(a)]
    BY DEF Soc!Give, FormOf
  <1>2. SlotsHold'
    <2> SUFFICES ASSUME NEW s \in Slots, sock'[s] # Soc!Nothing
                 PROVE  \E b \in Addresses :
                            said'[s] = Soc!InitialLayout(b)' /\ sock'[s] = FormOf(b)'
      BY DEF SlotsHold, Soc!Nothing
    <2>1. CASE s = slot  BY <1>1, <2>1, LayoutStays DEF SocInv
    <2>2. CASE s # slot
      <3>1. sock'[s] = sock[s] /\ said'[s] = said[s]  BY <1>1, <2>2 DEF SocInv
      <3>2. PICK b \in Addresses : said[s] = Soc!InitialLayout(b) /\ sock[s] = FormOf(b)
        BY <3>1 DEF SocInv, SlotsHold
      <3> QED  BY <1>1, <3>1, <3>2, LayoutStays
    <2> QED  BY <2>1, <2>2
  <1>3. Soc!AddressesSurvive'  BY <1>1 DEF Soc!AddressesSurvive, Soc!NotAsked
  <1>4. /\ layout' \in {"same", "differs"}
        /\ sock' = [s \in Slots |-> sock'[s]] /\ said' = [s \in Slots |-> said'[s]]
    BY <1>1 DEF SocInv
  <1> QED  BY <1>2, <1>3, <1>4 DEF SocInv

\* A call that returns an address: what it returns.
LEMMA SocTake ==
  ASSUME SocInv, NEW slot \in Slots, NEW room \in Nat, Soc!Take(slot, room),
         layout' = layout, said' = said
  PROVE  Soc!AddressesSurvive'
  <1>1. sock[slot] # Soc!Nothing  BY DEF Soc!Take
  <1>2. PICK a \in Addresses : said[slot] = Soc!InitialLayout(a) /\ sock[slot] = FormOf(a)
    BY <1>1 DEF SocInv, SlotsHold
  <1>3. PICK z \in Soc!Scratch(slot) :
          got' = [of |-> IF Soc!Silent(slot) THEN NULL ELSE slot,
                  addr |-> Soc!zephyr_sockaddr_to_posix(z.addr, z.len, room).addr,
                  len |-> Soc!zephyr_sockaddr_to_posix(z.addr, z.len, room).len,
                  room |-> room]
    BY DEF Soc!Take
  <1> DEFINE r == Soc!zephyr_sockaddr_to_posix(z.addr, z.len, room)
             p == Soc!InitialLayout(a)
  <1>4. /\ got'.len = r.len /\ got'.room = room /\ got'.addr = r.addr
        /\ got'.of = IF Soc!Silent(slot) THEN NULL ELSE slot
    BY <1>3
  <1>5. layout \in {"same", "differs"}  BY DEF SocInv
  <1>6. Soc!InitialLayout(a).family = a.family
    BY SocketsAssumption DEF Soc!InitialLayout
  <1>7. CASE Soc!Silent(slot)
    <2>1. PICK b \in Addresses : z = [addr |-> b, len |-> Storage]  BY <1>7 DEF Soc!Scratch
    <2>2. r.len <= room \/ (r.addr.family \in Soc!Converted /\ r.len <= Storage)
      BY <1>5, <2>1, GarbageComesBack
    <2>3. got'.of = NULL  BY <1>4, <1>7
    <2>4. Storage \in Nat  BY SocketsAssumption
    <2>5. r.len \in Int  BY <1>5, <2>1, GarbageComesBack
    <2> HIDE DEF r
    <2>6. Soc!Needed(NULL)' = Storage  BY DEF Soc!Needed
    <2>7. r.len > room => r.addr.family \in Soc!Converted /\ room < Storage  BY <2>2, <2>4, <2>5
    <2> QED  BY <1>4, <2>3, <2>6, <2>7 DEF Soc!AddressesSurvive
  <1>8. CASE ~Soc!Silent(slot)
    <2>1. z = FormOf(a)  BY <1>2, <1>8 DEF Soc!Scratch
    <2>2. SizeOf["posix"][a.family] \in Nat /\ SizeOf["zephyr"][a.family] \in Nat
      BY SocketsAssumption
    <2>3. z.len \in Nat  BY <1>6, <2>1, <2>2 DEF FormOf, Soc!posix_sockaddr_to_zephyr, Soc!Native
    <2>4. z = Soc!posix_sockaddr_to_zephyr(p, SizeOf["posix"][a.family])  BY <2>1 DEF FormOf
    <2>5. /\ r.len \in Int
          /\ r.len <= room \/ (r.addr.family \in Soc!Converted /\ r.len = SizeOf["posix"][p.family])
          /\ layout = "same" \/ (Soc!ScopeKept(p) /\ p.path <= Soc!Shorter) =>
                r.addr = p /\ (p.family \in Soc!Converted => r.len = SizeOf["posix"][p.family])
      BY <1>5, <2>3, <2>4, AddressRoundTrip
    <2>6. got'.of = slot /\ said'[slot] = p  BY <1>2, <1>4, <1>8
    <2>7. Soc!Needed(got.of)' = IF slot = NULL THEN Storage ELSE SizeOf["posix"][p.family]
      BY <2>6 DEF Soc!Needed
    <2>8. SizeOf["posix"][p.family] \in Nat /\ SizeOf["posix"][p.family] <= Storage /\ Storage \in Nat
      BY <1>6, SocketsAssumption
    <2> HIDE DEF r, p
    <2>9. got'.len > got'.room =>
            got'.addr.family \in Soc!Converted /\ got'.room < Soc!Needed(got.of)'
      BY <1>4, <2>5, <2>7, <2>8
    <2> QED  BY <1>4, <2>5, <2>6, <2>9 DEF Soc!AddressesSurvive, Soc!ScopeKept, Soc!Shorter
  <1> QED  BY <1>7, <1>8

\* A call that takes what a socket holds, or leaves it, and says what it held.
LEMMA SocKeeps ==
  ASSUME SocInv, layout' = layout, said' = said, Soc!AddressesSurvive',
         sock' = sock \/ sock' = [sock EXCEPT !.inbox = Soc!Nothing]
  PROVE  SocInv'
  <1>1. SlotsHold'
    <2> SUFFICES ASSUME NEW s \in Slots, sock'[s] # Soc!Nothing
                 PROVE  \E b \in Addresses :
                            said'[s] = Soc!InitialLayout(b)' /\ sock'[s] = FormOf(b)'
      BY DEF SlotsHold, Soc!Nothing
    <2>1. sock'[s] = sock[s]  BY DEF SocInv, Slots
    <2>2. PICK b \in Addresses : said[s] = Soc!InitialLayout(b) /\ sock[s] = FormOf(b)
      BY <2>1 DEF SocInv, SlotsHold
    <2> QED  BY <2>1, <2>2, LayoutStays
  <1>2. /\ layout' \in {"same", "differs"}
        /\ sock' = [s \in Slots |-> sock'[s]] /\ said' = [s \in Slots |-> said'[s]]
    BY DEF SocInv, Slots
  <1> QED  BY <1>1, <1>2 DEF SocInv

LEMMA SocStep == SocInv /\ Soc!Next => SocInv'
  <1> SUFFICES ASSUME SocInv, Soc!Next PROVE SocInv'  OBVIOUS
  <1>1. CASE Soc!Few /\ \E a \in Addresses : Soc!bind(a) \/ Soc!connect(a) \/ Soc!sendto(a) \/ Soc!sendmsg(a)
    BY <1>1, SocGive DEF Soc!bind, Soc!connect, Soc!sendto, Soc!sendmsg, Slots
  <1>2. ASSUME NEW room \in Soc!Rooms,
               \/ Soc!getsockname(room) \/ Soc!getpeername(room) \/ Soc!accept(room)
               \/ Soc!recvfrom(room) \/ Soc!recvmsg(room)
        PROVE  SocInv'
    <2>1. room \in Nat  BY SocketsAssumption DEF Soc!Rooms
    <2>2. CASE Soc!getsockname(room) \/ Soc!getpeername(room) \/ Soc!accept(room)
      BY <2>1, <2>2, SocTake, SocKeeps DEF Soc!getsockname, Soc!getpeername, Soc!accept, Slots
    <2>3. CASE Soc!recvfrom(room)
      BY <2>1, <2>3, SocTake, SocKeeps DEF Soc!recvfrom, Slots
    <2>4. CASE Soc!recvmsg(room) /\ ~Soc!recvfrom(room)
      <3>1. /\ sock' = [sock EXCEPT !.inbox = Soc!Nothing] /\ got' = Soc!NotAsked
            /\ layout' = layout /\ said' = said
        BY <2>4 DEF Soc!recvmsg
      <3>2. Soc!AddressesSurvive'  BY <3>1 DEF Soc!AddressesSurvive, Soc!NotAsked
      <3> QED  BY <3>1, <3>2, SocKeeps
    <2> QED  BY <1>2, <2>2, <2>3, <2>4
  <1> QED  BY <1>1, <1>2 DEF Soc!Next

\* For every address, size and buffer, and whether the layouts are the same or not,
\* an address that a socket returns is the one the program gave, with the exceptions
\* that AddressesSurvive names; and a buffer with room for the structure of the
\* socket's family, or for a sockaddr_storage where the source is not known, is
\* never overrun (conversion.h).
THEOREM AddressesComeBack == PartsSpec => []AddressesSurvive
  <1>1. PartsInit => SocInv  BY SocInitially
  <1>2. SocInv /\ [PartsNext]_partsVars => SocInv'
    <2> SUFFICES ASSUME SocInv, [PartsNext]_partsVars PROVE SocInv'  OBVIOUS
    <2>1. CASE part = "sockets" /\ Soc!Next  BY <2>1, SocStep
    <2>2. CASE UNCHANGED ofSoc
      <3>1. layout' = layout /\ sock' = sock /\ said' = said /\ got' = got  BY <2>2 DEF ofSoc
      <3>2. Soc!AddressesSurvive'
        BY <3>1 DEF SocInv, Soc!AddressesSurvive, Soc!ScopeKept, Soc!Shorter, Soc!Converted,
                    Soc!Needed
      <3> QED  BY <3>1, <3>2, SocKeeps
    <2> QED  BY <2>1, <2>2 DEF PartsNext, partsVars
  <1>3. SocInv => AddressesSurvive  BY DEF SocInv, AddressesSurvive
  <1> QED  BY <1>1, <1>2, <1>3, PTL DEF PartsSpec

-----------------------------------------------------------------------------
(* Files *)

\* Renumber takes the only name that a number has.
LEMMA OneName ==
  ASSUME NEW from, NEW to, NEW x \in DOMAIN from, \A y \in DOMAIN from : from[y] = from[x] => y = x
  PROVE  Fil!Renumber(from[x], from, to) = to[x]
  <1>1. {y \in DOMAIN from : from[y] = from[x]} = {x}  OBVIOUS
  <1> QED  BY <1>1 DEF Fil!Renumber

\* A command arrives as itself.
LEMMA CommandsArrive ==
  ASSUME flags \in {"same", "other"},
         NEW n \in {"F_GETFD", "F_SETFD", "F_GETFL", "F_SETFL"}
  PROVE  Fil!fcntl_posix_to_zvfs_cmd(Fil!Cmd[n]) = Fil!ZCmd[n]
  <1> DEFINE C == {"F_GETFD", "F_SETFD", "F_GETFL", "F_SETFL", "F_GETLK", "F_SETLK", "F_SETLKW"}
  <1>1. DOMAIN Fil!Cmd = C  BY DEF Fil!Cmd, Fil!ZCmd
  <1>2. \A x \in C : Fil!Cmd[x] = Fil!Cmd[n] => x = n
    <2>1. /\ Fil!Cmd["F_GETFD"] = 1 /\ Fil!Cmd["F_SETFD"] = 2
          /\ Fil!Cmd["F_GETFL"] = 3 /\ Fil!Cmd["F_SETFL"] = 4
      BY DEF Fil!Cmd, Fil!ZCmd
    <2>2. Fil!Cmd["F_GETLK"] \in {5, 7}  BY DEF Fil!Cmd, Fil!ZCmd
    <2>3. Fil!Cmd["F_SETLK"] \in {6, 8}  BY DEF Fil!Cmd, Fil!ZCmd
    <2>4. Fil!Cmd["F_SETLKW"] \in {7, 9}  BY DEF Fil!Cmd, Fil!ZCmd
    <2> QED  BY <2>1, <2>2, <2>3, <2>4
  <1> QED  BY <1>1, <1>2, OneName DEF Fil!fcntl_posix_to_zvfs_cmd

\* The type of a lock goes to its counterpart and comes back.
LEMMA LockTypes ==
  ASSUME flags \in {"same", "other"}, NEW n \in {"F_RDLCK", "F_WRLCK", "F_UNLCK"}
  PROVE  /\ Fil!fcntl_posix_to_zvfs_lock_type(Fil!Type[n]) = Fil!ZType[n]
         /\ Fil!fcntl_zvfs_to_posix_lock_type(Fil!ZType[n]) = Fil!Type[n]
  <1>1. DOMAIN Fil!Type = {"F_RDLCK", "F_WRLCK", "F_UNLCK"} /\ DOMAIN Fil!ZType = DOMAIN Fil!Type
    BY DEF Fil!Type, Fil!ZType
  <1>2. \A y \in DOMAIN Fil!Type : Fil!Type[y] = Fil!Type[n] => y = n
    BY <1>1 DEF Fil!Type, Fil!ZType
  <1>3. \A y \in DOMAIN Fil!ZType : Fil!ZType[y] = Fil!ZType[n] => y = n
    BY <1>1 DEF Fil!ZType
  <1> QED  BY <1>1, <1>2, <1>3, OneName
              DEF Fil!fcntl_posix_to_zvfs_lock_type, Fil!fcntl_zvfs_to_posix_lock_type

LEMMA WhenceStays ==
  ASSUME NEW w \in 0..2
  PROVE  Fil!fcntl_posix_to_zvfs_whence(w) = w /\ Fil!fcntl_zvfs_to_posix_whence(w) = w
  <1>1. DOMAIN Fil!Whence = {"SEEK_SET", "SEEK_CUR", "SEEK_END"}  BY DEF Fil!Whence
  <1>2. PICK x \in DOMAIN Fil!Whence : Fil!Whence[x] = w  BY <1>1 DEF Fil!Whence
  <1>3. \A y \in DOMAIN Fil!Whence : Fil!Whence[y] = Fil!Whence[x] => y = x
    BY <1>1 DEF Fil!Whence
  <1> QED  BY <1>2, <1>3, OneName DEF Fil!fcntl_posix_to_zvfs_whence, Fil!fcntl_zvfs_to_posix_whence

LockNames == {"F_RDLCK", "F_WRLCK", "F_UNLCK"}

LEMMA TypeNames ==
  /\ DOMAIN Fil!Type = LockNames /\ DOMAIN Fil!ZType = LockNames
  /\ Fil!ZType["F_RDLCK"] = 1 /\ Fil!ZType["F_WRLCK"] = 2 /\ Fil!ZType["F_UNLCK"] = 3
  BY DEF Fil!Type, Fil!ZType, LockNames

Lk(t, w, s, n) == [type |-> t, whence |-> w, start |-> s, len |-> n]

LEMMA LkTyped ==
  ASSUME NEW t, NEW w, NEW s, NEW n, NEW x
  PROVE  [Lk(t, w, s, n) EXCEPT !.type = x] = Lk(x, w, s, n)
  BY DEF Lk

LEMMA LkFields ==
  ASSUME NEW t, NEW w, NEW s, NEW n
  PROVE  /\ Lk(t, w, s, n).type = t /\ Lk(t, w, s, n).whence = w
         /\ Lk(t, w, s, n).start = s /\ Lk(t, w, s, n).len = n
  BY DEF Lk

\* A struct flock in ZVFS's numbers; its offsets are those of the caller.
LEMMA LockGoes ==
  ASSUME NEW l \in Fil!Locks
  PROVE  /\ l = Lk(l.type, l.whence, l.start, l.len)
         /\ l.whence \in 0..3 /\ l.start \in Int /\ l.len \in Int
         /\ Fil!fcntl_posix_to_zvfs_flock(l) =
              Lk(Fil!fcntl_posix_to_zvfs_lock_type(l.type),
                 Fil!fcntl_posix_to_zvfs_whence(l.whence), l.start, l.len)
  <1> DEFINE Whole == /\ l = [type |-> l.type, whence |-> l.whence, start |-> l.start, len |-> l.len]
                      /\ l.whence \in 0..3 /\ l.start \in Int /\ l.len \in Int
  <1>1. ASSUME l \in [type : 0..3, whence : {0}, start : {0, 1}, len : {0, 1}] PROVE Whole
    BY <1>1
  <1>2. ASSUME l \in [type : 0..3, whence : {1}, start : {0}, len : {1}] PROVE Whole
    BY <1>2
  <1>3. ASSUME l \in [type : {Fil!Type.F_WRLCK}, whence : {0}, start : {-1}, len : {1}] PROVE Whole
    BY <1>3
  <1>4. ASSUME l \in [type : {Fil!Type.F_WRLCK}, whence : {3}, start : {0}, len : {1}] PROVE Whole
    BY <1>4
  <1> HIDE DEF Whole
  <1>5. Whole  BY <1>1, <1>2, <1>3, <1>4 DEF Fil!Locks
  <1> USE DEF Whole
  <1> QED  BY <1>5 DEF Fil!fcntl_posix_to_zvfs_flock, Lk

\* A type that has a name arrives as that name's; another is no lock.
LEMMA TypesArrive ==
  ASSUME flags \in {"same", "other"}, NEW t
  PROVE  /\ \A n \in Fil!Named(t) : n \in LockNames /\ Fil!fcntl_posix_to_zvfs_lock_type(t) = Fil!ZType[n]
         /\ Fil!Named(t) = {} => Fil!fcntl_posix_to_zvfs_lock_type(t) \notin {1, 2}
  <1>1. ASSUME NEW n \in Fil!Named(t)
        PROVE  n \in LockNames /\ Fil!fcntl_posix_to_zvfs_lock_type(t) = Fil!ZType[n]
    BY LockTypes, TypeNames DEF Fil!Named, LockNames
  <1>2. ASSUME Fil!Named(t) = {}
        PROVE  Fil!fcntl_posix_to_zvfs_lock_type(t) \notin {1, 2}
    <2>1. Fil!fcntl_posix_to_zvfs_lock_type(t) = t
      BY <1>2 DEF Fil!Named, Fil!fcntl_posix_to_zvfs_lock_type, Fil!Renumber
    <2>2. \A n \in LockNames : Fil!Type[n] # t  BY <1>2, TypeNames DEF Fil!Named
    <2>3. Fil!Type["F_RDLCK"] # t /\ Fil!Type["F_WRLCK"] # t /\ Fil!Type["F_UNLCK"] # t
      BY <2>2 DEF LockNames
    <2> QED  BY <2>1, <2>3 DEF Fil!Type, Fil!ZType
  <1> QED  BY <1>1, <1>2

-----------------------------------------------------------------------------

FilShape ==
    /\ flags \in {"same", "other"}
    /\ file \in [Fds -> [obj : {"none", "file", "event"}, fd : SUBSET {0}]]
    /\ object = [fl |-> object.fl, locks |-> object.locks]
    /\ told = [fl |-> told.fl, fd |-> told.fd, lock |-> told.lock]
    /\ told.fd \in [Fds -> SUBSET {0}] /\ told.lock \in [Fil!Bytes -> LockNames]
    /\ \A e \in object.locks : e.pid = 1 /\ e.start \in Int /\ e.end \in Int

\* What ZVFS holds is what the program set, in ZVFS's numbers.
FlagsHeld ==
    /\ \A f \in Fds : file[f].obj # "none" => file[f].fd = told.fd[f]
    /\ object.fl = Fil!Moved(told.fl, Fil!Nonblock, Fil!ZNonblock)

LocksHeld ==
    /\ \A e \in object.locks : \A b \in Fil!Bytes :
          Fil!Covers(e, b) => e.type = Fil!ZType[told.lock[b]]
    /\ (\A f \in Fds : file[f].obj # "file") => object.locks = {}

FilInv == FilShape /\ FlagsHeld /\ LocksHeld /\ Fil!FcntlReadsBack

Answers == {"F_GETFL", "F_GETFD", "F_GETLK", "F_SETLK"}

LEMMA FilInitially == PartsInit => FilInv
  <1> SUFFICES ASSUME PartsInit PROVE FilInv  OBVIOUS
  <1>1. Fil!Init  BY DEF PartsInit
  <1>2. FilShape
    <2>1. Fil!Unlocked \in [Fil!Bytes -> LockNames]  BY DEF Fil!Unlocked, LockNames
    <2> HIDE DEF Fil!Unlocked
    <2> QED  BY <1>1, <2>1 DEF Fil!Init, FilShape, Fil!Closed
  <1>3. FlagsHeld  BY <1>1 DEF Fil!Init, FlagsHeld, Fil!Closed, Fil!Moved
  <1>4. LocksHeld  BY <1>1 DEF Fil!Init, LocksHeld
  <1>5. ret.cmd = "none"  BY <1>1 DEF Fil!Init, Fil!NoResult
  <1> QED  BY <1>2, <1>3, <1>4, <1>5 DEF FilInv, LocksHeld, Fil!FcntlReadsBack, Fil!LocksAsAsked

\* A call that answers nothing about flags and locks.
LEMMA FilCalm ==
  ASSUME FilShape', FlagsHeld', LocksHeld', ret'.cmd \notin Answers
  PROVE  FilInv'
  BY DEF FilInv, LocksHeld, Fil!FcntlReadsBack, Fil!LocksAsAsked, Answers

\* A call that changes nothing.
LEMMA FilSame ==
  ASSUME FilShape /\ FlagsHeld /\ LocksHeld, UNCHANGED <<flags, file, object, told>>
  PROVE  FilShape' /\ FlagsHeld' /\ LocksHeld'
  <1>1. FilShape'  BY DEF FilShape, Fil!Bytes
  <1>2. FlagsHeld'  BY DEF FlagsHeld, Fil!Moved, Fil!Nonblock, Fil!ZNonblock
  <1>3. LocksHeld'  BY DEF LocksHeld, Fil!Bytes, Fil!Covers, Fil!ZType
  <1> QED  BY <1>1, <1>2, <1>3

\* A descriptor is opened, closed or taken over: it has its flags or is closed, and
\* the locks stay or are dropped with the file.
LEMMA FilUse ==
  ASSUME FilInv, NEW f \in Fds, NEW obj \in {"none", "file", "event"}, NEW fd \in SUBSET {0},
         Fil!Use(f, obj, fd), NEW toldFd \in SUBSET {0}, obj # "none" => toldFd = fd,
         NEW fl, NEW tfl, fl = Fil!Moved(tfl, Fil!Nonblock, Fil!ZNonblock),
         NEW locks, NEW tlock, tlock \in [Fil!Bytes -> LockNames],
         object' = [fl |-> fl, locks |-> locks],
         told' = [fl |-> tfl, fd |-> [told.fd EXCEPT ![f] = toldFd], lock |-> tlock],
         locks = {} \/ (/\ locks = object.locks /\ tlock = told.lock
                        /\ \E g \in Fds : file'[g].obj = "file")
  PROVE  FilInv'
  <1>1. /\ file' = [file EXCEPT ![f] = [obj |-> obj, fd |-> fd]]
        /\ ret' = Fil!NoResult /\ flags' = flags
    BY DEF Fil!Use
  <1>2. FilShape
    BY DEF FilInv
  <1>3. FilShape'
    <2>1. file' \in [Fds -> [obj : {"none", "file", "event"}, fd : SUBSET {0}]]
      BY <1>1, <1>2 DEF FilShape
    <2>2. [told.fd EXCEPT ![f] = toldFd] \in [Fds -> SUBSET {0}]  BY <1>2 DEF FilShape
    <2>3. \A e \in locks : e.pid = 1 /\ e.start \in Int /\ e.end \in Int  BY <1>2 DEF FilShape
    <2>4. object'.fl = fl /\ object'.locks = locks  OBVIOUS
    <2>5. /\ told'.fl = tfl /\ told'.fd = [told.fd EXCEPT ![f] = toldFd] /\ told'.lock = tlock
      OBVIOUS
    <2> QED  BY <1>1, <1>2, <2>1, <2>2, <2>3, <2>4, <2>5 DEF FilShape, Fil!Bytes
  <1>4. FlagsHeld'
    <2>1. told'.fd = [told.fd EXCEPT ![f] = toldFd] /\ told'.fl = tfl /\ object'.fl = fl  OBVIOUS
    <2>2. ASSUME NEW g \in Fds, file'[g].obj # "none" PROVE file'[g].fd = told'.fd[g]
      <3>1. CASE g = f  BY <1>1, <1>2, <2>1, <2>2, <3>1 DEF FilShape
      <3>2. CASE g # f  BY <1>1, <1>2, <2>1, <2>2, <3>2 DEF FilShape, FilInv, FlagsHeld
      <3> QED  BY <3>1, <3>2
    <2> QED  BY <1>1, <2>1, <2>2 DEF FlagsHeld, Fil!Moved, Fil!Nonblock, Fil!ZNonblock
  <1>5. LocksHeld'
    <2>1. object'.locks = locks /\ told'.lock = tlock  OBVIOUS
    <2>2. CASE locks = {}  BY <2>1, <2>2 DEF LocksHeld
    <2>3. CASE /\ locks = object.locks /\ tlock = told.lock
               /\ \E g \in Fds : file'[g].obj = "file"
      BY <2>1, <2>3 DEF FilInv, LocksHeld, Fil!Bytes, Fil!Covers, Fil!ZType
    <2> QED  BY <2>2, <2>3
  <1>6. ret'.cmd \notin Answers  BY <1>1 DEF Fil!NoResult, Answers
  <1> QED  BY <1>3, <1>4, <1>5, <1>6, FilCalm

\* The locks after a descriptor is closed, and who still has the file.
LEMMA DroppedLocks ==
  ASSUME FilInv, NEW f \in Fds
  PROVE  \E locks : /\ Fil!Dropped(f) = [fl |-> object.fl, locks |-> locks]
                    /\ locks = {} \/ (locks = object.locks
                                      /\ \E g \in Fds : g # f /\ file[g].obj = "file")
  <1>1. object = [fl |-> object.fl, locks |-> object.locks]  BY DEF FilInv, FilShape
  <1>2. CASE file[f].obj = "file" /\ Fil!Sharing(f) = {f}
    <2>1. Fil!Dropped(f) = [object EXCEPT !.locks = {}]  BY <1>2 DEF Fil!Dropped
    <2>2. Fil!Dropped(f) = [fl |-> object.fl, locks |-> {}]  BY <1>1, <2>1
    <2> QED  BY <2>2
  <1>3. CASE ~(file[f].obj = "file" /\ Fil!Sharing(f) = {f})
    <2>1. Fil!Dropped(f) = [fl |-> object.fl, locks |-> object.locks]
      BY <1>1, <1>3 DEF Fil!Dropped
    <2>2. object.locks = {} \/ \E g \in Fds : g # f /\ file[g].obj = "file"
      <3>1. CASE file[f].obj = "file"
        <4>1. f \in Fil!Sharing(f)  BY DEF Fil!Sharing
        <4>2. \E g \in Fil!Sharing(f) : g # f  BY <1>3, <3>1, <4>1
        <4> QED  BY <3>1, <4>2 DEF Fil!Sharing
      <3>2. CASE file[f].obj # "file"  BY <3>2 DEF FilInv, LocksHeld
      <3> QED  BY <3>1, <3>2
    <2> QED  BY <2>1, <2>2
  <1> QED  BY <1>2, <1>3

LEMMA FilDescriptors ==
  ASSUME FilInv, NEW f \in Fds, NEW g \in Fds,
         Fil!open(f) \/ Fil!eventfd(f) \/ Fil!close(f) \/ Fil!dup(f, g) \/ Fil!dup2(f, g)
  PROVE  FilInv'
  <1>1. /\ told = [fl |-> told.fl, fd |-> told.fd, lock |-> told.lock]
        /\ object = [fl |-> object.fl, locks |-> object.locks]
        /\ told.fd \in [Fds -> SUBSET {0}] /\ told.lock \in [Fil!Bytes -> LockNames]
        /\ object.fl = Fil!Moved(told.fl, Fil!Nonblock, Fil!ZNonblock)
        /\ file \in [Fds -> [obj : {"none", "file", "event"}, fd : SUBSET {0}]]
    BY DEF FilInv, FilShape, FlagsHeld
  <1>2. CASE Fil!open(f)
    <2>1. Fil!Unlocked \in [Fil!Bytes -> LockNames]  BY DEF Fil!Unlocked, LockNames
    <2>2. object.locks = {}  BY <1>2 DEF Fil!open, FilInv, LocksHeld
    <2>3. /\ object' = [fl |-> object.fl, locks |-> {}]
          /\ told' = [fl |-> told.fl, fd |-> [told.fd EXCEPT ![f] = {}], lock |-> Fil!Unlocked]
      <3> HIDE DEF Fil!Unlocked
      <3> QED  BY <1>1, <1>2, <2>2 DEF Fil!open
    <2> HIDE DEF Fil!Unlocked
    <2>4. Fil!Use(f, "file", {})  BY <1>2 DEF Fil!open
    <2> QED  BY <1>1, <2>1, <2>3, <2>4, FilUse
  <1>3. CASE Fil!eventfd(f)
    <2>1. Fil!Moved({}, Fil!Nonblock, Fil!ZNonblock) = {}  BY DEF Fil!Moved
    <2>2. /\ object' = [fl |-> {}, locks |-> object.locks]
          /\ told' = [fl |-> {}, fd |-> [told.fd EXCEPT ![f] = {}], lock |-> told.lock]
      BY <1>1, <1>3 DEF Fil!eventfd
    <2>3. Fil!Use(f, "event", {})  BY <1>3 DEF Fil!eventfd
    <2>4. object.locks = {} \/ \E h \in Fds : file'[h].obj = "file"
      <3>1. ASSUME NEW h \in Fds, file[h].obj = "file" PROVE file'[h].obj = "file"
        BY <1>1, <1>3, <3>1 DEF Fil!eventfd, Fil!Use
      <3> QED  BY <3>1 DEF FilInv, LocksHeld
    <2> QED  BY <1>1, <2>1, <2>2, <2>3, <2>4, FilUse
  <1>4. CASE Fil!close(f)
    <2>1. PICK locks : /\ Fil!Dropped(f) = [fl |-> object.fl, locks |-> locks]
                       /\ locks = {} \/ (locks = object.locks
                                         /\ \E h \in Fds : h # f /\ file[h].obj = "file")
      BY DroppedLocks
    <2>2. Fil!Use(f, "none", {}) /\ object' = Fil!Dropped(f) /\ told' = told  BY <1>4 DEF Fil!close
    <2>3. told' = [fl |-> told.fl, fd |-> [told.fd EXCEPT ![f] = told.fd[f]], lock |-> told.lock]
      BY <1>1, <2>2
    <2>4. locks = {} \/ (locks = object.locks /\ \E h \in Fds : file'[h].obj = "file")
      BY <1>1, <2>1, <2>2 DEF Fil!Use
    <2> DEFINE fl == object.fl
               tfl == told.fl
               tlock == told.lock
               toldFd == told.fd[f]
    <2>5. /\ toldFd \in SUBSET {0} /\ tlock \in [Fil!Bytes -> LockNames]
          /\ fl = Fil!Moved(tfl, Fil!Nonblock, Fil!ZNonblock)
          /\ object' = [fl |-> fl, locks |-> locks]
          /\ told' = [fl |-> tfl, fd |-> [told.fd EXCEPT ![f] = toldFd], lock |-> tlock]
          /\ locks = {} \/ (/\ locks = object.locks /\ tlock = told.lock
                            /\ \E h \in Fds : file'[h].obj = "file")
      BY <1>1, <2>1, <2>2, <2>3, <2>4
    <2> HIDE DEF fl, tfl, tlock, toldFd
    <2>6. Fil!Use(f, "none", {}) /\ {} \in SUBSET {0}  BY <2>2
    <2> QED  BY <2>5, <2>6, FilUse
  <1>5. ASSUME NEW fd \in SUBSET {0}, Fil!Duplicate(f, g, fd) PROVE FilInv'
    <2>1. PICK locks : /\ Fil!Dropped(g) = [fl |-> object.fl, locks |-> locks]
                       /\ locks = {} \/ (locks = object.locks
                                         /\ \E h \in Fds : h # g /\ file[h].obj = "file")
      BY DroppedLocks
    <2>2. /\ Fil!Use(g, file[f].obj, fd) /\ object' = Fil!Dropped(g)
          /\ told' = [told EXCEPT !.fd[g] = fd] /\ file[f].obj \in {"none", "file", "event"}
      BY <1>1, <1>5 DEF Fil!Duplicate
    <2>3. told' = [fl |-> told.fl, fd |-> [told.fd EXCEPT ![g] = fd], lock |-> told.lock]
      BY <1>1, <2>2
    <2>4. locks = {} \/ (locks = object.locks /\ \E h \in Fds : file'[h].obj = "file")
      BY <1>1, <2>1, <2>2 DEF Fil!Use
    <2> DEFINE fl == object.fl
               tfl == told.fl
               tlock == told.lock
               obj == file[f].obj
    <2>5. /\ tlock \in [Fil!Bytes -> LockNames] /\ obj \in {"none", "file", "event"}
          /\ fl = Fil!Moved(tfl, Fil!Nonblock, Fil!ZNonblock)
          /\ object' = [fl |-> fl, locks |-> locks] /\ Fil!Use(g, obj, fd)
          /\ told' = [fl |-> tfl, fd |-> [told.fd EXCEPT ![g] = fd], lock |-> tlock]
          /\ locks = {} \/ (/\ locks = object.locks /\ tlock = told.lock
                            /\ \E h \in Fds : file'[h].obj = "file")
      BY <1>1, <2>1, <2>2, <2>3, <2>4
    <2> HIDE DEF fl, tfl, tlock, obj
    <2> QED  BY <2>5, FilUse
  <1>6. CASE Fil!dup(f, g) \/ Fil!dup2(f, g)  BY <1>5, <1>6 DEF Fil!dup, Fil!dup2
  <1> QED  BY <1>2, <1>3, <1>4, <1>6

LEMMA FilFcntlSet ==
  ASSUME FilInv, NEW f \in Fds, NEW arg,
         (arg \subseteq {0} /\ Fil!FcntlSetFd(f, arg)) \/ Fil!FcntlSetFl(f, arg)
  PROVE  FilInv'
  <1>1. FilShape /\ FlagsHeld /\ LocksHeld  BY DEF FilInv
  <1>2. flags \in {"same", "other"} /\ flags' = flags /\ ret'.cmd \notin Answers
    BY <1>1 DEF FilShape, Fil!FcntlSetFd, Fil!FcntlSetFl, Fil!NoResult, Answers
  <1>3. CASE arg \subseteq {0} /\ Fil!FcntlSetFd(f, arg)
    <2>1. Fil!fcntl_posix_to_zvfs_cmd(Fil!Cmd.F_SETFD) = Fil!ZCmd.F_SETFD
      BY <1>2, CommandsArrive
    <2>2. Fil!fcntl_posix_to_zvfs_arg(Fil!ZCmd.F_SETFD, arg) \cap {0} = arg
      <3>1. Fil!ZCmd.F_SETFD # Fil!ZCmd.F_SETFL  BY DEF Fil!ZCmd
      <3>2. arg \cap {0} = arg  BY <1>3
      <3> QED  BY <3>1, <3>2 DEF Fil!fcntl_posix_to_zvfs_arg
    <2>3. /\ file' = [file EXCEPT ![f].fd = arg] /\ told' = [told EXCEPT !.fd[f] = arg]
          /\ object' = object
      BY <1>3, <2>1, <2>2 DEF Fil!FcntlSetFd
    <2>4. \A g \in Fds : /\ file'[g].obj = file[g].obj
                         /\ file'[g].fd = IF g = f THEN arg ELSE file[g].fd
      BY <1>1, <2>3 DEF FilShape
    <2>5. file' \in [Fds -> [obj : {"none", "file", "event"}, fd : SUBSET {0}]]
      BY <1>1, <1>3, <2>3 DEF FilShape
    <2>6. /\ told' = [fl |-> told.fl, fd |-> [told.fd EXCEPT ![f] = arg], lock |-> told.lock]
          /\ [told.fd EXCEPT ![f] = arg] \in [Fds -> SUBSET {0}]
      BY <1>1, <1>3, <2>3 DEF FilShape
    <2>7. told'.fl = told.fl /\ told'.lock = told.lock /\ told'.fd = [told.fd EXCEPT ![f] = arg]
      BY <2>6
    <2>8. FilShape'  BY <1>1, <1>2, <2>3, <2>5, <2>6, <2>7 DEF FilShape, Fil!Bytes
    <2>9. FlagsHeld'
      <3>1. \A g \in Fds : told'.fd[g] = IF g = f THEN arg ELSE told.fd[g]
        BY <1>1, <2>7 DEF FilShape
      <3>2. \A g \in Fds : file'[g].obj # "none" => file'[g].fd = told'.fd[g]
        BY <1>1, <2>4, <3>1 DEF FlagsHeld
      <3> QED  BY <1>1, <1>2, <2>3, <2>7, <3>2 DEF FlagsHeld, Fil!Moved, Fil!Nonblock, Fil!ZNonblock
    <2>10. LocksHeld'
      BY <1>1, <2>3, <2>4, <2>7 DEF LocksHeld, Fil!Bytes, Fil!Covers, Fil!ZType
    <2> QED  BY <1>2, <2>8, <2>9, <2>10, FilCalm
  <1>4. CASE Fil!FcntlSetFl(f, arg)
    <2>1. Fil!fcntl_posix_to_zvfs_cmd(Fil!Cmd.F_SETFL) = Fil!ZCmd.F_SETFL
      BY <1>2, CommandsArrive
    <2> DEFINE m == Fil!Moved(arg, Fil!Nonblock, Fil!ZNonblock)
    <2>2. /\ object' = [object EXCEPT !.fl = m] /\ told' = [told EXCEPT !.fl = arg]
          /\ file' = file
      BY <1>4, <2>1 DEF Fil!FcntlSetFl, Fil!fcntl_posix_to_zvfs_arg
    <2>3. m' = m  BY <1>2 DEF Fil!Moved, Fil!Nonblock, Fil!ZNonblock
    <2>4. m = Fil!Moved(arg, Fil!Nonblock, Fil!ZNonblock)'
      BY <1>2 DEF Fil!Moved, Fil!Nonblock, Fil!ZNonblock
    <2> HIDE DEF m
    <2>5. /\ object' = [fl |-> m, locks |-> object.locks]
          /\ told' = [fl |-> arg, fd |-> told.fd, lock |-> told.lock]
      BY <1>1, <2>2 DEF FilShape
    <2>6. /\ object'.fl = m /\ object'.locks = object.locks
          /\ told'.fl = arg /\ told'.fd = told.fd /\ told'.lock = told.lock
      BY <2>5
    <2>7. FilShape'  BY <1>1, <1>2, <2>2, <2>5, <2>6 DEF FilShape, Fil!Bytes
    <2>8. FlagsHeld'  BY <1>1, <2>2, <2>4, <2>6 DEF FlagsHeld
    <2>9. LocksHeld'  BY <1>1, <2>2, <2>6 DEF LocksHeld, Fil!Bytes, Fil!Covers, Fil!ZType
    <2> QED  BY <1>2, <2>7, <2>8, <2>9, FilCalm
  <1> QED  BY <1>3, <1>4

\* Flags that no bit of ZVFS's is among come back as they were.
LEMMA FlagsRoundTrip ==
  ASSUME flags \in {"same", "other"}, NEW s, flags = "same" \/ Fil!ZNonblock \notin s
  PROVE  Fil!Moved(Fil!Moved(s, Fil!Nonblock, Fil!ZNonblock), Fil!ZNonblock, Fil!Nonblock) = s
  <1>1. CASE flags = "same"  BY <1>1 DEF Fil!Moved, Fil!Nonblock, Fil!ZNonblock
  <1>2. CASE flags = "other"
    <2>1. Fil!Nonblock = 1 /\ Fil!ZNonblock = 2 /\ 2 \notin s
      BY <1>2 DEF Fil!Nonblock, Fil!ZNonblock
    <2>2. Fil!Moved(s, 1, 2) = IF 1 \in s THEN (s \ {1}) \cup {2} ELSE s  BY DEF Fil!Moved
    <2>3. CASE 1 \in s
      <3>1. Fil!Moved((s \ {1}) \cup {2}, 2, 1) = (((s \ {1}) \cup {2}) \ {2}) \cup {1}
        BY DEF Fil!Moved
      <3>2. (((s \ {1}) \cup {2}) \ {2}) \cup {1} = s  BY <2>1, <2>3
      <3> QED  BY <2>1, <2>2, <2>3, <3>1, <3>2
    <2>4. CASE 1 \notin s  BY <2>1, <2>2, <2>4 DEF Fil!Moved
    <2> QED  BY <2>3, <2>4
  <1> QED  BY <1>1, <1>2

LEMMA FilFcntlGet ==
  ASSUME FilInv, NEW f \in Fds, NEW name \in {"F_GETFL", "F_GETFD"}, Fil!FcntlGet(f, name)
  PROVE  FilInv'
  <1> DEFINE zcmd == Fil!fcntl_posix_to_zvfs_cmd(Fil!Cmd[name])
             res == IF file[f].obj # "none" /\ zcmd = Fil!ZCmd.F_GETFD THEN file[f].fd
                    ELSE IF file[f].obj = "event" /\ zcmd = Fil!ZCmd.F_GETFL THEN object.fl
                    ELSE Fil!MinusOne
  <1>1. FilShape /\ FlagsHeld /\ LocksHeld /\ flags \in {"same", "other"}  BY DEF FilInv, FilShape
  <1>2. zcmd = Fil!ZCmd[name] /\ Fil!ZCmd["F_GETFL"] = 3 /\ Fil!ZCmd["F_GETFD"] = 1
    <2>1. zcmd = Fil!ZCmd[name]  BY <1>1, CommandsArrive
    <2>2. Fil!ZCmd["F_GETFL"] = 3 /\ Fil!ZCmd["F_GETFD"] = 1  BY DEF Fil!ZCmd
    <2> QED  BY <2>1, <2>2
  <1>3. /\ ret' = [Fil!NoResult EXCEPT !.cmd = name, !.fd = f,
                                       !.res = Fil!fcntl_zvfs_to_posix_result(zcmd, res)]
        /\ UNCHANGED <<flags, file, object, told>>
    BY DEF Fil!FcntlGet
  <1> HIDE DEF zcmd, res
  <1>4. ret'.cmd = name /\ ret'.fd = f /\ ret'.res = Fil!fcntl_zvfs_to_posix_result(zcmd, res)
    BY <1>3 DEF Fil!NoResult
  <1>5. FilShape' /\ FlagsHeld' /\ LocksHeld'  BY <1>1, <1>3, FilSame
  <1>6. CASE name = "F_GETFL"
    <2>1. ASSUME file[f].obj = "event", flags = "same" \/ Fil!ZNonblock \notin told.fl
          PROVE  ret'.res = told.fl
      <3>1. res = object.fl  BY <1>2, <1>6, <2>1 DEF res
      <3>2. ret'.res = Fil!Moved(object.fl, Fil!ZNonblock, Fil!Nonblock)
        BY <1>2, <1>4, <1>6, <3>1 DEF Fil!fcntl_zvfs_to_posix_result
      <3> QED  BY <1>1, <2>1, <3>2, FlagsRoundTrip DEF FlagsHeld
    <2>2. Fil!ZNonblock' = Fil!ZNonblock  BY DEF Fil!ZNonblock
    <2>3. Fil!FcntlReadsBack'
      BY <1>3, <1>4, <1>5, <1>6, <2>1, <2>2 DEF Fil!FcntlReadsBack, Fil!LocksAsAsked, LocksHeld
    <2> QED  BY <1>5, <2>3 DEF FilInv
  <1>7. CASE name = "F_GETFD"
    <2>1. ASSUME file[f].obj # "none" PROVE ret'.res = told.fd[f]
      <3>1. res = file[f].fd  BY <1>2, <1>7, <2>1 DEF res
      <3>2. ret'.res = file[f].fd
        BY <1>2, <1>4, <1>7, <3>1 DEF Fil!fcntl_zvfs_to_posix_result
      <3> QED  BY <1>1, <2>1, <3>2 DEF FlagsHeld
    <2>2. Fil!FcntlReadsBack'
      BY <1>3, <1>4, <1>5, <1>7, <2>1 DEF Fil!FcntlReadsBack, Fil!LocksAsAsked, LocksHeld
    <2> QED  BY <1>5, <2>2 DEF FilInv
  <1> QED  BY <1>6, <1>7

\* No lock of another process is in the way.
LEMMA NoConflict ==
  ASSUME FilShape, NEW r, NEW t PROVE Fil!record_lock_find_conflict(r, t) = {}
  BY DEF FilShape, Fil!record_lock_find_conflict, Fil!record_lock_pid

LEMMA FilFcntlGetLock ==
  ASSUME FilInv, NEW f \in Fds, NEW l \in Fil!Locks, NEW base, Fil!FcntlGetLock(f, l, base)
  PROVE  FilInv'
  <1> DEFINE z == Fil!fcntl_posix_to_zvfs_flock(l)
             found == [z EXCEPT !.type = Fil!ZType.F_UNLCK]
  <1>1. FilShape /\ FlagsHeld /\ LocksHeld /\ flags \in {"same", "other"}  BY DEF FilInv, FilShape
  <1>2. Fil!record_lock_find_conflict(Fil!record_lock_resolve_range(z, base), z.type) = {}
    BY <1>1, NoConflict
  <1>3. /\ ret' = [Fil!NoResult EXCEPT !.cmd = "F_GETLK", !.asked = l,
                                       !.lock = Fil!fcntl_zvfs_to_posix_flock(found)]
        /\ ~Fil!Unresolved(z) /\ UNCHANGED <<flags, file, object, told>>
    BY <1>2 DEF Fil!FcntlGetLock
  <1> DEFINE w == l.whence
             s == l.start
             n == l.len
  <1>4. /\ l = Lk(l.type, w, s, n) /\ w \in 0..3
        /\ z = Lk(Fil!fcntl_posix_to_zvfs_lock_type(l.type), Fil!fcntl_posix_to_zvfs_whence(w), s, n)
    BY LockGoes
  <1> HIDE DEF z, w, s, n
  <1>5. w \in 0..2 /\ Fil!fcntl_posix_to_zvfs_whence(w) = w /\ Fil!fcntl_zvfs_to_posix_whence(w) = w
    <2>1. z.whence = Fil!fcntl_posix_to_zvfs_whence(w)  BY <1>4, LkFields
    <2>2. w # 3
      <3> SUFFICES ASSUME w = 3 PROVE FALSE  OBVIOUS
      <3>1. Fil!Whence["SEEK_SET"] = 0 /\ Fil!Whence["SEEK_CUR"] = 1 /\ Fil!Whence["SEEK_END"] = 2
            /\ DOMAIN Fil!Whence = {"SEEK_SET", "SEEK_CUR", "SEEK_END"}
        BY DEF Fil!Whence
      <3>2. {x \in DOMAIN Fil!Whence : Fil!Whence[x] = 3} = {}  BY <3>1
      <3>3. z.whence = 3  BY <2>1, <3>2 DEF Fil!fcntl_posix_to_zvfs_whence, Fil!Renumber
      <3>4. 3 \notin {Fil!Whence[x] : x \in DOMAIN Fil!Whence}  BY <3>2
      <3> QED  BY <1>3, <3>3, <3>4 DEF Fil!Unresolved
    <2>3. w \in 0..2  BY <1>4, <2>2
    <2> QED  BY <2>3, WhenceStays
  <1>6. found = Lk(Fil!ZType.F_UNLCK, w, s, n)  BY <1>4, <1>5, LkTyped
  <1> HIDE DEF found
  <1>7. Fil!fcntl_zvfs_to_posix_lock_type(Fil!ZType.F_UNLCK) = Fil!Type.F_UNLCK
    BY <1>1, LockTypes
  <1>8. Fil!fcntl_zvfs_to_posix_flock(found) = Lk(Fil!Type.F_UNLCK, w, s, n)
    <2>1. found.type = Fil!ZType.F_UNLCK /\ found.whence = w /\ found.start = s /\ found.len = n
      BY <1>6, LkFields
    <2> QED  BY <1>5, <1>7, <2>1 DEF Fil!fcntl_zvfs_to_posix_flock, Lk
  <1>9. Fil!fcntl_zvfs_to_posix_flock(found) = [l EXCEPT !.type = Fil!Type.F_UNLCK]
    BY <1>4, <1>8, LkTyped
  <1>10. /\ ret'.cmd = "F_GETLK" /\ ret'.asked = l
         /\ ret'.lock = [l EXCEPT !.type = Fil!Type.F_UNLCK]
    BY <1>3, <1>9 DEF Fil!NoResult
  <1>11. Fil!Type' = Fil!Type  BY <1>3 DEF Fil!Type
  <1>12. FilShape' /\ FlagsHeld' /\ LocksHeld'  BY <1>1, <1>3, FilSame
  <1>13. Fil!FcntlReadsBack'
    BY <1>10, <1>11, <1>12 DEF Fil!FcntlReadsBack, Fil!LocksAsAsked, LocksHeld
  <1> QED  BY <1>12, <1>13 DEF FilInv

\* A lock that was there and one that is new.
NewLock(r, t) == [start |-> r.start, end |-> r.end, type |-> t, pid |-> 1]

\* What a call leaves: of the locks that were there only some that do not overlap,
\* and the new one if it succeeded; or all, if the type is none of the three.
LEMMA LocksAfter ==
  ASSUME FilShape, NEW z, NEW r, NEW done, done = Fil!record_lock_apply(z, r)
  PROVE  /\ \A e \in done.locks : e \in object.locks \/ (e = NewLock(r, z.type) /\ z.type \in {1, 2})
         /\ done.ok =>
              /\ z.type \in {1, 2, 3}
              /\ \A e \in done.locks : e = NewLock(r, z.type) \/ ~Fil!record_lock_regions_overlap(e, r)
              /\ z.type \in {1, 2} => NewLock(r, z.type) \in done.locks
              /\ z.type = 3 => done.locks \subseteq object.locks /\
                    \A e \in done.locks : ~Fil!record_lock_regions_overlap(e, r)
  <1> DEFINE kept == Fil!record_lock_remove_overlapping(r)
  <1>1. /\ \A e \in kept : e \in object.locks /\ ~Fil!record_lock_regions_overlap(e, r)
    BY DEF Fil!record_lock_remove_overlapping, FilShape, Fil!record_lock_pid
  <1>2. Fil!ZType.F_RDLCK = 1 /\ Fil!ZType.F_WRLCK = 2 /\ Fil!ZType.F_UNLCK = 3  BY TypeNames
  <1> HIDE DEF kept
  <1>3. CASE z.type = 3
    <2>1. done = [ok |-> TRUE, locks |-> kept]
      BY <1>2, <1>3 DEF Fil!record_lock_apply, kept
    <2>2. done.locks = kept  BY <2>1
    <2> QED  BY <1>1, <1>3, <2>2
  <1>4. CASE z.type \in {1, 2}
    <2>1. \/ done = [ok |-> FALSE, locks |-> kept]
          \/ done = [ok |-> TRUE, locks |-> kept \cup {NewLock(r, z.type)}]
      BY <1>2, <1>4 DEF Fil!record_lock_apply, kept, NewLock, Fil!record_lock_pid
    <2>2. CASE done = [ok |-> FALSE, locks |-> kept]
      <3>1. done.ok = FALSE /\ done.locks = kept  BY <2>2
      <3> QED  BY <1>1, <3>1
    <2>3. CASE done = [ok |-> TRUE, locks |-> kept \cup {NewLock(r, z.type)}]
      <3>1. done.locks = kept \cup {NewLock(r, z.type)}  BY <2>3
      <3> QED  BY <1>1, <1>4, <3>1
    <2> QED  BY <2>1, <2>2, <2>3
  <1>5. CASE z.type \notin {1, 2, 3}
    <2>1. done = [ok |-> FALSE, locks |-> object.locks]
      BY <1>2, <1>5 DEF Fil!record_lock_apply
    <2>2. done.ok = FALSE /\ done.locks = object.locks  BY <2>1
    <2> QED  BY <2>2
  <1> QED  BY <1>3, <1>4, <1>5

\* A call that fails adds no lock.
LEMMA RefusedAdds ==
  ASSUME NEW z, NEW r, NEW done, done = Fil!record_lock_apply(z, r), ~done.ok
  PROVE  \A e \in done.locks : e \in object.locks
  <1>1. Fil!record_lock_remove_overlapping(r) \subseteq object.locks
    BY DEF Fil!record_lock_remove_overlapping
  <1>2. \/ done = [ok |-> FALSE, locks |-> Fil!record_lock_remove_overlapping(r)]
        \/ done = [ok |-> FALSE, locks |-> object.locks]
    BY DEF Fil!record_lock_apply
  <1> QED  BY <1>1, <1>2

\* Two ranges that share a byte overlap.
LEMMA ByteInBoth ==
  ASSUME NEW e, e.start \in Int, e.end \in Int, NEW r, r.start \in Int, r.end \in Int,
         NEW b \in Fil!Within(r), Fil!Covers(e, b)
  PROVE  Fil!record_lock_regions_overlap(e, r)
  <1>1. b \in Int  BY FilesAssumption DEF Fil!Within, Fil!Bytes
  <1>2. r.start <= b /\ b < r.end /\ e.start <= b /\ b < e.end  BY DEF Fil!Within, Fil!Covers
  <1> QED  BY <1>1, <1>2 DEF Fil!record_lock_regions_overlap

LEMMA FilFcntlSetLock ==
  ASSUME FilInv, NEW f \in Fds, NEW name, NEW l \in Fil!Locks, NEW base \in Int,
         Fil!FcntlSetLock(f, name, l, base)
  PROVE  FilInv'
  <1> DEFINE z == Fil!fcntl_posix_to_zvfs_flock(l)
             r == Fil!record_lock_resolve_range(z, base)
             done == Fil!record_lock_apply(z, r)
             n == CHOOSE x \in Fil!Named(l.type) : TRUE
             tlock == [b \in Fil!Bytes |-> IF b \in Fil!Within(r) THEN n ELSE told.lock[b]]
  <1>1. FilShape /\ FlagsHeld /\ LocksHeld /\ flags \in {"same", "other"}  BY DEF FilInv, FilShape
  <1>2. /\ object' = [object EXCEPT !.locks = done.locks] /\ file' = file /\ flags' = flags
        /\ file[f].obj = "file"
        /\ IF done.ok /\ Fil!Named(l.type) # {}
           THEN /\ told' = [told EXCEPT !.lock = tlock]
                /\ ret' = [Fil!NoResult EXCEPT !.cmd = "F_SETLK", !.asked = r]
           ELSE ret' = Fil!NoResult /\ told' = told
    BY DEF Fil!FcntlSetLock
  <1>3. z.start \in Int /\ z.len \in Int /\ z.type = Fil!fcntl_posix_to_zvfs_lock_type(l.type)
    BY LockGoes, LkFields
  <1>4. r.start \in Int /\ r.end \in Int
    BY <1>3, FilesAssumption DEF Fil!record_lock_resolve_range
  <1> HIDE DEF z, r, done, n
  <1>5. /\ \A e \in done.locks : e \in object.locks \/ (e = NewLock(r, z.type) /\ z.type \in {1, 2})
        /\ done.ok =>
             /\ z.type \in {1, 2, 3}
             /\ \A e \in done.locks : e = NewLock(r, z.type) \/ ~Fil!record_lock_regions_overlap(e, r)
             /\ z.type \in {1, 2} => NewLock(r, z.type) \in done.locks
             /\ z.type = 3 => done.locks \subseteq object.locks /\
                    \A e \in done.locks : ~Fil!record_lock_regions_overlap(e, r)
    BY <1>1, LocksAfter DEF done
  <1>6. /\ object' = [fl |-> object.fl, locks |-> done.locks]
        /\ object'.fl = object.fl /\ object'.locks = done.locks
    BY <1>1, <1>2 DEF FilShape
  <1>7. /\ NewLock(r, z.type).pid = 1 /\ NewLock(r, z.type).start = r.start
        /\ NewLock(r, z.type).end = r.end /\ NewLock(r, z.type).type = z.type
    BY DEF NewLock
  <1>8. \A e \in done.locks : e.pid = 1 /\ e.start \in Int /\ e.end \in Int
    BY <1>1, <1>4, <1>5, <1>7 DEF FilShape
  <1>9. CASE done.ok /\ Fil!Named(l.type) # {}
    <2>1. n \in LockNames /\ z.type = Fil!ZType[n]
      <3>1. n \in Fil!Named(l.type)  BY <1>9 DEF n
      <3> QED  BY <1>1, <1>3, <3>1, TypesArrive
    <2>2. tlock \in [Fil!Bytes -> LockNames]  BY <1>1, <2>1 DEF FilShape
    <2>3. \A b \in Fil!Bytes : tlock[b] = IF b \in Fil!Within(r) THEN n ELSE told.lock[b]
      OBVIOUS
    <2>4. /\ told' = [told EXCEPT !.lock = tlock]
          /\ ret' = [Fil!NoResult EXCEPT !.cmd = "F_SETLK", !.asked = r]
      BY <1>2, <1>9
    <2> HIDE DEF tlock
    <2>5. /\ told' = [fl |-> told.fl, fd |-> told.fd, lock |-> tlock]
          /\ told'.fl = told.fl /\ told'.fd = told.fd /\ told'.lock = tlock
      BY <1>1, <2>4 DEF FilShape
    <2>6. FilShape'  BY <1>1, <1>2, <1>6, <1>8, <2>2, <2>5 DEF FilShape, Fil!Bytes
    <2>7. FlagsHeld'
      BY <1>1, <1>2, <1>6, <2>5 DEF FlagsHeld, Fil!Moved, Fil!Nonblock, Fil!ZNonblock
    <2>8. ASSUME NEW e \in done.locks, NEW b \in Fil!Bytes, Fil!Covers(e, b)
          PROVE  e.type = Fil!ZType[tlock[b]]
      <3>1. CASE e = NewLock(r, z.type)
        <4>1. b \in Fil!Within(r)  BY <1>7, <2>8, <3>1 DEF Fil!Within, Fil!Covers
        <4> QED  BY <1>7, <2>1, <2>3, <3>1, <4>1
      <3>2. CASE e # NewLock(r, z.type)
        <4>1. e \in object.locks /\ ~Fil!record_lock_regions_overlap(e, r)
          BY <1>5, <1>9, <3>2
        <4>2. b \notin Fil!Within(r)  BY <1>4, <1>8, <2>8, <4>1, ByteInBoth
        <4> QED  BY <1>1, <2>3, <2>8, <4>1, <4>2 DEF LocksHeld
      <3> QED  BY <3>1, <3>2
    <2>9. LocksHeld'
      BY <1>2, <1>6, <2>5, <2>8 DEF LocksHeld, Fil!Bytes, Fil!Covers, Fil!ZType
    <2>10. ASSUME NEW b \in Fil!Within(r)
           PROVE  (\E e \in done.locks : Fil!Covers(e, b)) <=> tlock[b] # "F_UNLCK"
      <3>1. tlock[b] = n  BY <2>3 DEF Fil!Within
      <3>2. CASE n = "F_UNLCK"
        <4>1. z.type = 3  BY <2>1, <3>2, TypeNames
        <4>2. \A e \in done.locks : ~Fil!record_lock_regions_overlap(e, r)  BY <1>5, <1>9, <4>1
        <4> QED  BY <1>4, <1>8, <3>1, <3>2, <4>2, ByteInBoth
      <3>3. CASE n # "F_UNLCK"
        <4>1. z.type \in {1, 2}  BY <2>1, <3>3, TypeNames DEF LockNames
        <4>2. NewLock(r, z.type) \in done.locks  BY <1>5, <1>9, <4>1
        <4>3. Fil!Covers(NewLock(r, z.type), b)  BY <1>7 DEF Fil!Within, Fil!Covers
        <4> QED  BY <3>1, <3>3, <4>2, <4>3
      <3> QED  BY <3>2, <3>3
    <2>11. ret'.cmd = "F_SETLK" /\ ret'.asked = r  BY <2>4 DEF Fil!NoResult
    <2>12. Fil!LocksAsAsked'
      <3>2. Fil!Within(ret.asked)' = Fil!Within(r)
        BY <2>11 DEF Fil!Within, Fil!Bytes
      <3>3. \A b \in Fil!Within(ret.asked)' :
              (\E e \in object'.locks : Fil!Covers(e, b)) <=> told'.lock[b] # "F_UNLCK"
        BY <1>6, <2>5, <2>10, <3>2
      <3> QED  BY <2>9, <3>3 DEF LocksHeld, Fil!LocksAsAsked
    <2>13. Fil!FcntlReadsBack'  BY <2>11, <2>12 DEF Fil!FcntlReadsBack
    <2> QED  BY <2>6, <2>7, <2>9, <2>13 DEF FilInv
  <1>10. CASE ~(done.ok /\ Fil!Named(l.type) # {})
    <2>1. told' = told /\ ret' = Fil!NoResult  BY <1>2, <1>10
    <2>2. \A e \in done.locks : e \in object.locks
      <3>1. CASE ~done.ok  BY <3>1, RefusedAdds DEF done
      <3>2. CASE done.ok /\ Fil!Named(l.type) = {}
        BY <1>1, <1>3, <1>5, <3>2, TypesArrive
      <3> QED  BY <1>10, <3>1, <3>2
    <2>3. FilShape'  BY <1>1, <1>2, <1>6, <1>8, <2>1 DEF FilShape, Fil!Bytes
    <2>4. FlagsHeld'
      BY <1>1, <1>2, <1>6, <2>1 DEF FlagsHeld, Fil!Moved, Fil!Nonblock, Fil!ZNonblock
    <2>5. LocksHeld'
      BY <1>1, <1>2, <1>6, <2>1, <2>2 DEF LocksHeld, Fil!Bytes, Fil!Covers, Fil!ZType
    <2>6. ret'.cmd \notin Answers  BY <2>1 DEF Fil!NoResult, Answers
    <2> QED  BY <2>3, <2>4, <2>5, <2>6, FilCalm
  <1> QED  BY <1>9, <1>10

\* Calls on directories and select, which return something else.
LEMMA FilOthers ==
  ASSUME FilInv, UNCHANGED <<flags, file, object, told>>, ret'.cmd \notin Answers
  PROVE  FilInv'
  BY FilSame, FilCalm DEF FilInv

LEMMA FilStep == FilInv /\ Fil!Next => FilInv'
  <1> SUFFICES ASSUME FilInv, Fil!Next PROVE FilInv'  OBVIOUS
  <1>1. ASSUME NEW f \in Fds, NEW g \in Fds,
               \/ Fil!open(f) \/ Fil!eventfd(f) \/ Fil!close(f) \/ Fil!dup(f, g) \/ Fil!dup2(f, g)
        PROVE  FilInv'
    BY <1>1, FilDescriptors
  <1>2. ASSUME NEW f \in Fds, NEW arg,
               Fil!FcntlSetFl(f, arg) \/ (arg \subseteq {0} /\ Fil!FcntlSetFd(f, arg))
        PROVE  FilInv'
    BY <1>2, FilFcntlSet
  <1>3. ASSUME NEW f \in Fds, Fil!FcntlGet(f, "F_GETFL") \/ Fil!FcntlGet(f, "F_GETFD")
        PROVE  FilInv'
    BY <1>3, FilFcntlGet
  <1>4. ASSUME NEW f \in Fds, NEW l \in Fil!Locks, NEW base \in {0, 1},
               \/ Fil!FcntlSetLock(f, "F_SETLK", l, base) \/ Fil!FcntlSetLock(f, "F_SETLKW", l, base)
               \/ Fil!FcntlGetLock(f, l, base)
        PROVE  FilInv'
    BY <1>4, FilFcntlSetLock, FilFcntlGetLock
  <1>5. CASE \E p \in DOMAIN Listing \cup {"none"} : Fil!opendir(p)
    BY <1>5, FilOthers DEF Fil!opendir, Fil!NoResult, Answers
  <1>6. ASSUME NEW s \in Streams, Fil!readdir(s) \/ Fil!closedir(s) PROVE FilInv'
    <2>1. CASE Fil!closedir(s)  BY <2>1, FilOthers DEF Fil!closedir, Fil!NoResult, Answers
    <2>2. CASE Fil!readdir(s)
      <3>1. ret'.cmd \in {"end", "entry"}  BY <2>2 DEF Fil!readdir, Fil!NoResult
      <3> QED  BY <2>2, <3>1, FilOthers DEF Fil!readdir, Answers
    <2> QED  BY <1>6, <2>1, <2>2
  <1>7. ASSUME NEW tv, Fil!select(tv) PROVE FilInv'
    <2>1. ret'.cmd \in {"select forever", "select"}  BY <1>7 DEF Fil!select, Fil!NoResult
    <2> QED  BY <1>7, <2>1, FilOthers DEF Fil!select, Answers
  <1> QED  BY <1>1, <1>2, <1>3, <1>4, <1>5, <1>6, <1>7 DEF Fil!Next

\* For any number of descriptors, bytes and locks and either numbering, fcntl returns
\* the flags that the program set, in its own numbers; every record lock is one that
\* the program asked for, last of all for each of its bytes; and the process is never
\* told of its own locks (fcntl.c, zvfs-fcntl-record-lock.patch).
THEOREM FcntlRoundTrips == PartsSpec => []FcntlReadsBack
  <1>1. PartsInit => FilInv  BY FilInitially
  <1>2. FilInv /\ [PartsNext]_partsVars => FilInv'
    <2> SUFFICES ASSUME FilInv, [PartsNext]_partsVars PROVE FilInv'  OBVIOUS
    <2>1. CASE part = "files" /\ Fil!Next  BY <2>1, FilStep
    <2>2. CASE UNCHANGED ofFil
      <3>1. UNCHANGED <<flags, file, object, told, ret>>  BY <2>2 DEF ofFil
      <3>2. FilShape' /\ FlagsHeld' /\ LocksHeld'  BY <3>1, FilSame DEF FilInv
      <3>3. Fil!FcntlReadsBack'
        BY <3>1 DEF FilInv, Fil!FcntlReadsBack, Fil!LocksAsAsked, Fil!Type, Fil!ZType, Fil!ZNonblock,
                    Fil!Within, Fil!Bytes, Fil!Covers
      <3> QED  BY <3>2, <3>3 DEF FilInv
    <2> QED  BY <2>1, <2>2 DEF PartsNext, partsVars
  <1>3. FilInv => FcntlReadsBack  BY DEF FilInv, FcntlReadsBack
  <1> QED  BY <1>1, <1>2, <1>3, PTL DEF PartsSpec

-----------------------------------------------------------------------------
(* gmtime_r and the calendar *)

\* A day lies in the era that time_civil_from_days gives it, before era 0 too, where
\* C rounds a quotient towards zero.
LEMMA EraIs ==
  ASSUME NEW z \in Int
  PROVE  \E era \in Int : /\ era = Con!Era(z)
                          /\ 146097 * era <= z /\ z <= 146097 * era + 146096
  <1>1. CASE z >= 0
    <2>1. z \div 146097 \in Int  BY SMT
    <2>2. PICK era \in Int : era = z \div 146097  BY <2>1
    <2>3. 146097 * era <= z /\ z <= 146097 * era + 146096  BY <1>1, <2>2, SMT
    <2> QED  BY <1>1, <2>2, <2>3 DEF Con!Era, Con!Quot
  <1>2. CASE z < 0
    <2>1. PICK q \in Int : q = (-(z - 146096)) \div 146097  BY SMT
    <2>2. 146097 * q <= 146096 - z /\ 146096 - z <= 146097 * q + 146096  BY <1>2, <2>1, SMT
    <2>3. Con!Era(z) = -q  BY <1>2, <2>1, SMT DEF Con!Era, Con!Quot
    <2>4. -q \in Int /\ 146097 * (-q) <= z /\ z <= 146097 * (-q) + 146096  BY <2>2, SMT
    <2> QED  BY <2>3, <2>4
  <1> QED  BY <1>1, <1>2

\* The year of the era and the day of the year, which begins on the first of March.
Yoe(doe) == (doe - doe \div 1460 + doe \div 36524 - doe \div 146096) \div 365
Doy(doe) == doe - (365 * Yoe(doe) + Yoe(doe) \div 4 - Yoe(doe) \div 100)

\* The day of the era on which year y begins, and whether the year ends with a
\* twenty-ninth of February
Starts(y) == 365 * y + y \div 4 - y \div 100
LongYear(y) == (y + 1) % 4 = 0 /\ ((y + 1) % 100 # 0 \/ y = 399)

\* Year y of an era, its days and the last of them; the weekday u after w; the year
\* v of era e after year y of era era
InEra(y) == 0 <= y /\ y <= 399
InYear(y, d) == d <= IF LongYear(y) THEN 365 ELSE 364
IsLast(y, d) == d = IF LongYear(y) THEN 365 ELSE 364
IsNextWday(w, u) == u = (w + 1) % 7
IsNext(era, y, e, v) == v + 400 * e = y + 400 * era + 1

\* The year and the day that are computed are a day of a year, the one that is asked
\* for: the corrections by 1460, 36524 and 146096 days take care of the leap days.
LEMMA YearOfEra ==
  ASSUME NEW doe \in Int, 0 <= doe, doe <= 146096
  PROVE  /\ Yoe(doe) \in Int /\ 0 <= Yoe(doe) /\ Yoe(doe) <= 399
         /\ Doy(doe) \in Int /\ 0 <= Doy(doe) /\ doe = Starts(Yoe(doe)) + Doy(doe)
         /\ InYear(Yoe(doe), Doy(doe))
  <1> USE DEF InYear, IsLast
  <1>1. PICK a \in Int, b \in Int, c \in Int :
          a = doe \div 1460 /\ b = doe \div 36524 /\ c = doe \div 146096
    BY SMT
  <1>2. PICK y \in Int : y = (doe - a + b - c) \div 365  BY SMT
  <1>3. PICK q \in Int, p \in Int : q = y \div 4 /\ p = y \div 100  BY SMT
  <1>4. PICK d \in Int : d = doe - (365 * y + q - p)  BY SMT
  <1>5. /\ 1460 * a <= doe /\ doe < 1460 * a + 1460
        /\ 36524 * b <= doe /\ doe < 36524 * b + 36524
        /\ 146096 * c <= doe /\ doe < 146096 * c + 146096
    BY <1>1, SMT
  <1>6. 365 * y <= doe - a + b - c /\ doe - a + b - c < 365 * y + 365  BY <1>2, SMT
  <1>7. 4 * q <= y /\ y < 4 * q + 4 /\ 100 * p <= y /\ y < 100 * p + 100  BY <1>3, SMT
  <1>8. 0 <= y /\ y <= 399 /\ 0 <= d /\ d <= 365
    BY <1>4, <1>5, <1>6, <1>7, SMTT(60)
  <1>9. d = 365 => y = 4 * q + 3 /\ (y # 100 * p + 99 \/ y = 399)
    BY <1>4, <1>5, <1>6, <1>7, SMTT(60)
  <1>10. LongYear(y) <=> y = 4 * q + 3 /\ (y # 100 * p + 99 \/ y = 399)
    BY <1>7, <1>8, SMT DEF LongYear
  <1>11. Yoe(doe) = y /\ Doy(doe) = d /\ Starts(y) = 365 * y + q - p
    BY <1>1, <1>2, <1>3, <1>4 DEF Yoe, Doy, Starts
  <1> QED  BY <1>4, <1>8, <1>9, <1>10, <1>11, SMT

\* A date of the era is one: the day of the year says which year it is.
LEMMA DateIsUnique ==
  ASSUME NEW y \in Int, NEW d \in Int, NEW x \in Int, NEW e \in Int,
         0 <= y, y <= 399, 0 <= x, x <= 399, 0 <= d, 0 <= e,
         InYear(y, d),
         InYear(x, e),
         Starts(y) + d = Starts(x) + e
  PROVE  y = x /\ d = e
  <1> USE DEF InYear, IsLast
  <1>1. PICK q \in Int, p \in Int : q = y \div 4 /\ p = y \div 100  BY SMT
  <1>2. PICK r \in Int, s \in Int : r = x \div 4 /\ s = x \div 100  BY SMT
  <1>3. /\ 4 * q <= y /\ y < 4 * q + 4 /\ 100 * p <= y /\ y < 100 * p + 100
        /\ 4 * r <= x /\ x < 4 * r + 4 /\ 100 * s <= x /\ x < 100 * s + 100
    BY <1>1, <1>2, SMT
  <1>4. /\ LongYear(y) <=> y = 4 * q + 3 /\ (y # 100 * p + 99 \/ y = 399)
        /\ LongYear(x) <=> x = 4 * r + 3 /\ (x # 100 * s + 99 \/ x = 399)
    BY <1>3, SMT DEF LongYear
  <1>5. 365 * y + q - p + d = 365 * x + r - s + e  BY <1>1, <1>2 DEF Starts
  <1>6. /\ d <= 365 /\ (d = 365 => y = 4 * q + 3 /\ (y # 100 * p + 99 \/ y = 399))
        /\ e <= 365 /\ (e = 365 => x = 4 * r + 3 /\ (x # 100 * s + 99 \/ x = 399))
    BY <1>4, SMT
  <1>7. y <= x
    <2> SUFFICES ASSUME x + 1 <= y PROVE FALSE  BY SMT
    <2> QED  BY <1>3, <1>5, <1>6, SMTT(60)
  <1>8. x <= y
    <2> SUFFICES ASSUME y + 1 <= x PROVE FALSE  BY SMT
    <2> QED  BY <1>3, <1>5, <1>6, SMTT(60)
  <1>9. y = x  BY <1>7, <1>8, SMT
  <1> QED  BY <1>1, <1>2, <1>5, <1>9, SMT

\* The day after day doe of an era: the next of the year, or the first of the next year.
LEMMA NextOfEra ==
  ASSUME NEW doe \in Int, 0 <= doe, doe < 146096,
         NEW y \in Int, NEW d \in Int, y = Yoe(doe), d = Doy(doe)
  PROVE  IF IsLast(y, d)
         THEN y < 399 /\ Yoe(doe + 1) = y + 1 /\ Doy(doe + 1) = 0
         ELSE Yoe(doe + 1) = y /\ Doy(doe + 1) = d + 1
  <1> USE DEF InYear, IsLast
  <1> DEFINE x == Yoe(doe + 1)
             e == Doy(doe + 1)
  <1>1. /\ 0 <= y /\ y <= 399 /\ 0 <= d /\ doe = Starts(y) + d
        /\ InYear(y, d)
    BY YearOfEra
  <1>2. doe + 1 \in Int /\ 0 <= doe + 1 /\ doe + 1 <= 146096  BY SMT
  <1>3. /\ x \in Int /\ 0 <= x /\ x <= 399 /\ e \in Int /\ 0 <= e /\ doe + 1 = Starts(x) + e
        /\ InYear(x, e)
    BY <1>2, YearOfEra
  <1> HIDE DEF x, e
  <1>4. CASE IsLast(y, d)
    <2>1. PICK q \in Int, p \in Int : q = y \div 4 /\ p = y \div 100  BY SMT
    <2>2. 4 * q <= y /\ y < 4 * q + 4 /\ 100 * p <= y /\ y < 100 * p + 100  BY <2>1, SMT
    <2>3. LongYear(y) <=> y = 4 * q + 3 /\ (y # 100 * p + 99 \/ y = 399)
      BY <2>2, SMT DEF LongYear
    <2>4. Starts(y) = 365 * y + q - p  BY <2>1 DEF Starts
    <2>5. y < 399
      BY <1>1, <1>4, <2>2, <2>3, <2>4, SMT
    <2>6. Starts(y + 1) = doe + 1
      <3>1. PICK r \in Int, s \in Int : r = (y + 1) \div 4 /\ s = (y + 1) \div 100  BY SMT
      <3>2. 4 * r <= y + 1 /\ y + 1 < 4 * r + 4 /\ 100 * s <= y + 1 /\ y + 1 < 100 * s + 100
        BY <3>1, SMT
      <3>3. Starts(y + 1) = 365 * (y + 1) + r - s  BY <3>1 DEF Starts
      <3>4. r = IF y = 4 * q + 3 THEN q + 1 ELSE q  BY <2>2, <3>2, SMT
      <3>5. s = IF y = 100 * p + 99 THEN p + 1 ELSE p  BY <2>2, <3>2, SMT
      <3>6. y = 100 * p + 99 => y = 4 * q + 3  BY <2>2, SMT
      <3>7. CASE LongYear(y)
        <4>1. d = 365 /\ r = q + 1 /\ s = p  BY <1>4, <2>3, <2>5, <3>4, <3>5, <3>7, SMT
        <4>2. doe = 365 * y + q - p + 365  BY <1>1, <2>4, <4>1, SMT
        <4> QED  BY <3>3, <4>1, <4>2, SMT
      <3>8. CASE ~LongYear(y)
        <4>1. d = 364 /\ r - s = q - p
          BY <1>4, <2>3, <2>5, <3>4, <3>5, <3>6, <3>8, SMT
        <4>2. doe = 365 * y + q - p + 364  BY <1>1, <2>4, <4>1, SMT
        <4> QED  BY <3>3, <4>1, <4>2, SMT
      <3> QED  BY <3>7, <3>8
    <2>7. y + 1 = x /\ 0 = e
      <3>1. /\ y + 1 \in Int /\ 0 <= y + 1 /\ y + 1 <= 399
            /\ InYear(y + 1, 0)
            /\ Starts(y + 1) + 0 = Starts(x) + e
        BY <1>1, <1>3, <2>5, <2>6, SMT
      <3> QED  BY <1>3, <3>1, DateIsUnique
    <2> QED  BY <1>4, <2>5, <2>7 DEF x, e
  <1>5. CASE ~IsLast(y, d)
    <2>0. Starts(y) \in Int /\ Starts(x) \in Int  BY <1>3, SMT DEF Starts
    <2>1. /\ d + 1 \in Int /\ 0 <= d + 1 /\ InYear(y, d + 1)
          /\ Starts(y) + (d + 1) = Starts(x) + e
      BY <1>1, <1>3, <1>5, <2>0, SMT
    <2>2. y = x /\ d + 1 = e  BY <1>1, <1>3, <2>1, DateIsUnique
    <2> QED  BY <1>5, <2>2 DEF x, e
  <1> QED  BY <1>4, <1>5

\* Eras begin with day 0 of year 0 and end with day 365 of year 399.
LEMMA EndsOfEra ==
  Yoe(0) = 0 /\ Doy(0) = 0 /\ Yoe(146096) = 399 /\ Doy(146096) = 365
  BY SMT DEF Yoe, Doy

-----------------------------------------------------------------------------
(* Months of a year that begins in March *)

\* Month and day of the month of day d of a year, and the days a month has
Month(d) == (5 * d + 2) \div 153
MDay(d) == d - (153 * Month(d) + 2) \div 5 + 1
LastOf(mp) == IF mp \in {1, 3, 6, 8} THEN 30 ELSE 31

\* A month is followed by the next one after its last day; February, the last, goes
\* on to the end of the year.
LEMMA Months ==
  ASSUME NEW d \in Int, 0 <= d, d <= 365
  PROVE  /\ Month(d) \in Int /\ 0 <= Month(d) /\ Month(d) <= 11 /\ MDay(d) \in Int
         /\ Month(d) < 10 <=> d < 306
         /\ Month(d) = 11 => MDay(d) = d - 336
         /\ d < 365 => IF Month(d) < 11 /\ MDay(d) = LastOf(Month(d))
                       THEN Month(d + 1) = Month(d) + 1 /\ MDay(d + 1) = 1
                       ELSE Month(d + 1) = Month(d) /\ MDay(d + 1) = MDay(d) + 1
         /\ d >= 337 => Month(d) = 11
  <1>1. PICK m \in Int, n \in Int : m = (5 * d + 2) \div 153 /\ n = (5 * (d + 1) + 2) \div 153
    BY SMT
  <1>2. PICK s \in Int, t \in Int : s = (153 * m + 2) \div 5 /\ t = (153 * n + 2) \div 5  BY SMT
  <1>3. /\ 153 * m <= 5 * d + 2 /\ 5 * d + 2 < 153 * m + 153
        /\ 153 * n <= 5 * (d + 1) + 2 /\ 5 * (d + 1) + 2 < 153 * n + 153
        /\ 5 * s <= 153 * m + 2 /\ 153 * m + 2 < 5 * s + 5
        /\ 5 * t <= 153 * n + 2 /\ 153 * n + 2 < 5 * t + 5
    BY <1>1, <1>2, SMT
  <1>4. 0 <= m /\ m <= 11  BY <1>3, SMT
  <1>5. (m < 10 <=> d < 306) /\ (m = 11 => d - s + 1 = d - 336) /\ (d >= 337 => m = 11)
    BY <1>3, <1>4, SMT
  <1>6. d < 365 => IF m < 11 /\ d - s + 1 = LastOf(m)
                   THEN n = m + 1 /\ d + 1 - t + 1 = 1
                   ELSE n = m /\ d + 1 - t + 1 = d - s + 1 + 1
    BY <1>3, <1>4, SMTT(60) DEF LastOf
  <1>7. Month(d) = m /\ MDay(d) = d - s + 1 /\ Month(d + 1) = n /\ MDay(d + 1) = d + 1 - t + 1
    BY <1>1, <1>2 DEF Month, MDay
  <1> QED  BY <1>4, <1>5, <1>6, <1>7, SMT

-----------------------------------------------------------------------------
(* From a day to the next *)

\* The weekday, the month of the calendar, and the leap years of an era, as
\* time_civil_from_days computes them
Wday(day) == IF day >= -4 THEN Con!Rem(day + 4, 7) ELSE Con!Rem(day + 5, 7) + 6
Moy(d) == IF Month(d) < 10 THEN Month(d) + 3 ELSE Month(d) - 9
Leap(y) == (y % 4 = 0 /\ y % 100 # 0) \/ y = 0

\* The date of day d of year y of an era
Civil(w, era, y, d) ==
    [tm_wday |-> w,
     tm_year |-> y + era * 400 + Con!Flag(Moy(d) <= 2) - 1900,
     tm_mon |-> Moy(d) - 1,
     tm_mday |-> MDay(d),
     tm_yday |-> IF d >= 306 THEN d - 306 ELSE d + 59 + Con!Flag(Leap(y))]

\* What time_civil_from_days returns, by era, year and day.
LEMMA CivilIs ==
  ASSUME NEW day \in Int, NEW era \in Int, era = Con!Era(day + 719468),
         NEW doe \in Int, doe = (day + 719468) - era * 146097
  PROVE  Con!time_civil_from_days(day) = Civil(Wday(day), era, Yoe(doe), Doy(doe))
  BY DEF Con!time_civil_from_days, Civil, Wday, Moy, Leap, Yoe, Doy, Month, MDay

\* The weekday is the remainder of the day that counts from a Sunday.
LEMMA WeekdayIs ==
  ASSUME NEW day \in Int
  PROVE  Wday(day) \in 0..6 /\ Wday(day + 1) = (Wday(day) + 1) % 7
  <1>1. ASSUME NEW k \in Int PROVE Wday(k) = (k + 4) % 7
    <2>1. CASE k >= -4
      BY <2>1, SMT DEF Wday, Con!Rem, Con!Quot
    <2>2. CASE k < -4
      BY <2>2, SMT DEF Wday, Con!Rem, Con!Quot
    <2> QED  BY <2>1, <2>2, SMT
  <1>2. Wday(day) = (day + 4) % 7  BY <1>1
  <1>3. day + 1 \in Int  BY SMT
  <1>4. Wday(day + 1) = (day + 1 + 4) % 7  BY <1>1, <1>3
  <1> QED  BY <1>2, <1>4, SMT

\* A leap year of the era is one of the calendar.
LEMMA LeapIs ==
  ASSUME NEW y \in Int, 0 <= y, y <= 399, NEW era \in Int
  PROVE  /\ Con!IsLeap(y + 400 * era) <=> Leap(y)
         /\ Con!IsLeap(y + 400 * era + 1) <=> LongYear(y)
  <1>1. /\ (y + 400 * era) % 4 = y % 4 /\ (y + 400 * era) % 100 = y % 100
        /\ (y + 400 * era) % 400 = y
    BY SMT
  <1>2. /\ (y + 400 * era + 1) % 4 = (y + 1) % 4 /\ (y + 400 * era + 1) % 100 = (y + 1) % 100
        /\ (y + 400 * era + 1) % 400 = IF y = 399 THEN 0 ELSE y + 1
    BY SMT
  <1>3. y = 0 => y % 4 = 0 /\ y % 100 = 0  BY SMT
  <1>4. y = 399 => (y + 1) % 4 = 0 /\ (y + 1) % 100 = 0  BY SMT
  <1>5. Con!IsLeap(y + 400 * era) <=> Leap(y)
    BY <1>1, <1>3, SMT DEF Con!IsLeap, Leap
  <1>6. Con!IsLeap(y + 400 * era + 1) <=> LongYear(y)
    BY <1>2, <1>4, SMT DEF Con!IsLeap, LongYear
  <1> QED  BY <1>5, <1>6

\* The fields of a date, by the month of the year that begins in March
LEMMA FieldsAre ==
  ASSUME NEW era \in Int, NEW y \in Int, 0 <= y, y <= 399,
         NEW d \in Int, 0 <= d, d <= 365, NEW w
  PROVE  LET c == Civil(w, era, y, d) IN
         /\ c.tm_wday = w /\ c.tm_mday = MDay(d)
         /\ c.tm_mon = IF d < 306 THEN Month(d) + 2 ELSE Month(d) - 10
         /\ c.tm_year = y + 400 * era - 1900 + IF d < 306 THEN 0 ELSE 1
         /\ c.tm_yday = IF d < 306 THEN d + 59 + Con!Flag(Leap(y)) ELSE d - 306
         /\ Con!DaysIn(c.tm_mon, c.tm_year + 1900) =
               IF Month(d) = 11 THEN 28 + Con!Flag(LongYear(y)) ELSE LastOf(Month(d))
  <1> DEFINE c == Civil(w, era, y, d)
  <1>1. PICK m \in Int : m = Month(d) /\ 0 <= m /\ m <= 11 /\ (m < 10 <=> d < 306)
    BY Months
  <1>2. Moy(d) = IF d < 306 THEN m + 3 ELSE m - 9  BY <1>1 DEF Moy
  <1>3. c.tm_mon = IF d < 306 THEN m + 2 ELSE m - 10  BY <1>1, <1>2, SMT DEF Civil
  <1>4. Con!Flag(Moy(d) <= 2) = IF d < 306 THEN 0 ELSE 1
    BY <1>1, <1>2, SMT DEF Con!Flag
  <1>5. c.tm_year = y + 400 * era - 1900 + IF d < 306 THEN 0 ELSE 1
    BY <1>4, SMT DEF Civil
  <1>6. c.tm_yday = IF d < 306 THEN d + 59 + Con!Flag(Leap(y)) ELSE d - 306
    BY SMT DEF Civil
  <1>7. c.tm_wday = w /\ c.tm_mday = MDay(d)  BY DEF Civil
  <1>8. Con!DaysIn(c.tm_mon, c.tm_year + 1900) =
           IF m = 11 THEN 28 + Con!Flag(LongYear(y)) ELSE LastOf(m)
    <2>1. CASE m = 11
      <3>1. c.tm_mon = 1 /\ c.tm_year + 1900 = y + 400 * era + 1
        BY <1>1, <1>3, <1>5, <2>1, SMT
      <3>2. Con!IsLeap(y + 400 * era + 1) <=> LongYear(y)  BY LeapIs
      <3>3. Con!Flag(Con!IsLeap(y + 400 * era + 1)) = Con!Flag(LongYear(y))
        BY <3>2 DEF Con!Flag
      <3> QED  BY <2>1, <3>1, <3>3 DEF Con!DaysIn
    <2>2. CASE m # 11
      <3>1. c.tm_mon # 1  BY <1>1, <1>3, <2>2, SMT
      <3>2. c.tm_mon \in {3, 5, 8, 10} <=> m \in {1, 3, 6, 8}  BY <1>1, <1>3, <2>2, SMT
      <3> QED  BY <2>2, <3>1, <3>2 DEF Con!DaysIn, LastOf
    <2> QED  BY <2>1, <2>2
  <1> QED  BY <1>1, <1>3, <1>5, <1>6, <1>7, <1>8

\* A date is made of five fields.
LEMMA DatesAreEqual ==
  ASSUME NEW w, NEW era, NEW y, NEW d, NEW x,
         LET c == Civil(w, era, y, d)
             t == Con!Tomorrow(x)
         IN  /\ c.tm_wday = t.tm_wday /\ c.tm_year = t.tm_year /\ c.tm_mon = t.tm_mon
             /\ c.tm_mday = t.tm_mday /\ c.tm_yday = t.tm_yday
  PROVE  Civil(w, era, y, d) = Con!Tomorrow(x)
  BY DEF Civil, Con!Tomorrow

\* What the next day is, by whether a month or a year ends
LEMMA TomorrowIs ==
  ASSUME NEW x
  PROVE  LET last == x.tm_mday = Con!DaysIn(x.tm_mon, x.tm_year + 1900)
             t == Con!Tomorrow(x)
         IN  /\ t.tm_wday = (x.tm_wday + 1) % 7
             /\ ~last => /\ t.tm_mday = x.tm_mday + 1 /\ t.tm_mon = x.tm_mon
                         /\ t.tm_year = x.tm_year /\ t.tm_yday = x.tm_yday + 1
             /\ last => t.tm_mday = 1
             /\ last /\ x.tm_mon # 11 => /\ t.tm_mon = x.tm_mon + 1
                                         /\ t.tm_year = x.tm_year /\ t.tm_yday = x.tm_yday + 1
             /\ last /\ x.tm_mon = 11 => /\ t.tm_mon = 0 /\ t.tm_year = x.tm_year + 1
                                         /\ t.tm_yday = 0
  BY DEF Con!Tomorrow

\* Within a year that begins in March a day is followed by the next one.
LEMMA NextWithinYear ==
  ASSUME NEW era \in Int, NEW y \in Int, InEra(y), NEW w \in Int, NEW u \in Int, IsNextWday(w, u),
         NEW d \in Int, 0 <= d, InYear(y, d), ~IsLast(y, d),
         NEW g \in Int, g = d + 1
  PROVE  Civil(u, era, y, g) = Con!Tomorrow(Civil(w, era, y, d))
  <1> USE DEF IsNextWday, InEra, InYear, IsLast
  <1> DEFINE x == Civil(w, era, y, d)
             c == Civil(u, era, y, d + 1)
             t == Con!Tomorrow(x)
             last == x.tm_mday = Con!DaysIn(x.tm_mon, x.tm_year + 1900)
  <1>1. d <= 365 /\ d < 365 /\ d + 1 \in Int /\ 0 <= d + 1 /\ d + 1 <= 365  BY SMT
  <1>2. PICK m \in Int, k \in Int, n \in Int, l \in Int, f \in Int :
          /\ m = Month(d) /\ k = MDay(d) /\ n = Month(d + 1) /\ l = MDay(d + 1)
          /\ f = Con!Flag(Leap(y))
    <2>1. Con!Flag(Leap(y)) \in Int  BY DEF Con!Flag
    <2>2. Month(d) \in Int /\ MDay(d) \in Int  BY <1>1, Months
    <2>3. Month(d + 1) \in Int /\ MDay(d + 1) \in Int  BY <1>1, Months
    <2> QED  BY <2>1, <2>2, <2>3
  <1>3. /\ 0 <= m /\ m <= 11 /\ (m < 10 <=> d < 306) /\ (m = 11 => k = d - 336)
        /\ IF m < 11 /\ k = LastOf(m) THEN n = m + 1 /\ l = 1 ELSE n = m /\ l = k + 1
    BY <1>1, <1>2, Months
  <1>4. n < 10 <=> d + 1 < 306  BY <1>1, <1>2, Months
  <1>5. /\ x.tm_wday = w /\ x.tm_mday = k
        /\ x.tm_mon = IF d < 306 THEN m + 2 ELSE m - 10
        /\ x.tm_year = y + 400 * era - 1900 + IF d < 306 THEN 0 ELSE 1
        /\ x.tm_yday = IF d < 306 THEN d + 59 + f ELSE d - 306
        /\ Con!DaysIn(x.tm_mon, x.tm_year + 1900) =
              IF m = 11 THEN 28 + Con!Flag(LongYear(y)) ELSE LastOf(m)
    BY <1>1, <1>2, FieldsAre
  <1>6. /\ c.tm_wday = u /\ c.tm_mday = l
        /\ c.tm_mon = IF d + 1 < 306 THEN n + 2 ELSE n - 10
        /\ c.tm_year = y + 400 * era - 1900 + IF d + 1 < 306 THEN 0 ELSE 1
        /\ c.tm_yday = IF d + 1 < 306 THEN d + 1 + 59 + f ELSE d + 1 - 306
    BY <1>1, <1>2, FieldsAre
  <1>7. /\ t.tm_wday = (x.tm_wday + 1) % 7
        /\ ~last => /\ t.tm_mday = x.tm_mday + 1 /\ t.tm_mon = x.tm_mon
                    /\ t.tm_year = x.tm_year /\ t.tm_yday = x.tm_yday + 1
        /\ last => t.tm_mday = 1
        /\ last /\ x.tm_mon # 11 => /\ t.tm_mon = x.tm_mon + 1
                                    /\ t.tm_year = x.tm_year /\ t.tm_yday = x.tm_yday + 1
        /\ last /\ x.tm_mon = 11 => /\ t.tm_mon = 0 /\ t.tm_year = x.tm_year + 1
                                    /\ t.tm_yday = 0
    BY TomorrowIs
  <1> HIDE DEF x, c, t
  <1>8. last <=> m < 11 /\ k = LastOf(m)
    <2>1. CASE m = 11
      <3>1. k # 28 + Con!Flag(LongYear(y))  BY <1>3, <2>1, SMT DEF Con!Flag
      <3> QED  BY <1>5, <2>1, <3>1, SMT
    <2>2. CASE m # 11
      BY <1>3, <1>5, <2>2, SMT
    <2> QED  BY <2>1, <2>2
  <1>9. last /\ x.tm_mon = 11 <=> d = 305
    <2>1. ASSUME last, x.tm_mon = 11 PROVE d = 305
      <3>1. m = 9  BY <1>3, <1>5, <2>1, SMT
      <3>2. n = 10  BY <1>3, <1>8, <2>1, <3>1, SMT
      <3> QED  BY <1>3, <1>4, <3>1, <3>2, SMT
    <2>2. ASSUME d = 305 PROVE last /\ x.tm_mon = 11
      <3>1. m < 10 /\ ~(n < 10)  BY <1>3, <1>4, <2>2, SMT
      <3>2. m < 11 /\ k = LastOf(m) /\ n = m + 1  BY <1>3, <3>1, SMT
      <3>3. m = 9  BY <3>1, <3>2, SMT
      <3> QED  BY <1>5, <1>8, <2>2, <3>2, <3>3, SMT
    <2> QED  BY <2>1, <2>2
  <1> HIDE DEF last
  <1>10. /\ c.tm_wday = t.tm_wday /\ c.tm_year = t.tm_year /\ c.tm_mon = t.tm_mon
         /\ c.tm_mday = t.tm_mday /\ c.tm_yday = t.tm_yday
    <2>1. CASE ~last
      <3>1. n = m /\ l = k + 1 /\ d # 305  BY <1>3, <1>8, <1>9, <2>1
      <3> QED  BY <1>5, <1>6, <1>7, <2>1, <3>1, SMT
    <2>2. CASE last /\ d = 305
      <3>1. n = m + 1 /\ l = 1 /\ x.tm_mon = 11  BY <1>3, <1>8, <1>9, <2>2
      <3>2. m + 2 = 11  BY <1>5, <2>2, <3>1, SMT
      <3> QED  BY <1>5, <1>6, <1>7, <2>2, <3>1, <3>2, SMT
    <2>3. CASE last /\ d # 305
      <3>1. n = m + 1 /\ l = 1 /\ x.tm_mon # 11  BY <1>3, <1>8, <1>9, <2>3
      <3> QED  BY <1>5, <1>6, <1>7, <2>3, <3>1, SMT
    <2> QED  BY <2>1, <2>2, <2>3
  <1> QED  BY <1>10, DatesAreEqual DEF c, t, x

\* The last of February is followed by the first of March of the next year that
\* begins in March, which may be the first of an era.
LEMMA NextMarch ==
  ASSUME NEW era \in Int, NEW y \in Int, InEra(y), NEW w \in Int, NEW u \in Int, IsNextWday(w, u),
         NEW d \in Int, IsLast(y, d),
         NEW e \in Int, NEW v \in Int, InEra(v), IsNext(era, y, e, v)
  PROVE  Civil(u, e, v, 0) = Con!Tomorrow(Civil(w, era, y, d))
  <1> USE DEF IsNextWday, InEra, IsNext, InYear, IsLast
  <1> DEFINE x == Civil(w, era, y, d)
             c == Civil(u, e, v, 0)
             t == Con!Tomorrow(x)
             last == x.tm_mday = Con!DaysIn(x.tm_mon, x.tm_year + 1900)
  <1>1. 0 <= d /\ d <= 365 /\ d >= 337 /\ d = 364 + Con!Flag(LongYear(y))
    BY SMT DEF Con!Flag
  <1>2. Month(d) = 11 /\ MDay(d) = d - 336  BY <1>1, Months
  <1>3. Month(0) = 0 /\ MDay(0) = 1  BY SMT DEF Month, MDay
  <1>4. /\ x.tm_wday = w /\ x.tm_mday = MDay(d)
        /\ x.tm_mon = IF d < 306 THEN Month(d) + 2 ELSE Month(d) - 10
        /\ x.tm_year = y + 400 * era - 1900 + IF d < 306 THEN 0 ELSE 1
        /\ x.tm_yday = IF d < 306 THEN d + 59 + Con!Flag(Leap(y)) ELSE d - 306
        /\ Con!DaysIn(x.tm_mon, x.tm_year + 1900) =
              IF Month(d) = 11 THEN 28 + Con!Flag(LongYear(y)) ELSE LastOf(Month(d))
    BY <1>1, FieldsAre
  <1>5. /\ c.tm_wday = u /\ c.tm_mday = MDay(0)
        /\ c.tm_mon = IF 0 < 306 THEN Month(0) + 2 ELSE Month(0) - 10
        /\ c.tm_year = v + 400 * e - 1900 + IF 0 < 306 THEN 0 ELSE 1
        /\ c.tm_yday = IF 0 < 306 THEN 0 + 59 + Con!Flag(Leap(v)) ELSE 0 - 306
    <2>1. 0 \in Int /\ 0 <= 0 /\ 0 <= 365  BY SMT
    <2> QED  BY <2>1, FieldsAre
  <1>6. Con!Flag(Leap(v)) = Con!Flag(LongYear(y))
    <2>1. Con!IsLeap(v + 400 * e) <=> Leap(v)  BY LeapIs
    <2>2. Con!IsLeap(y + 400 * era + 1) <=> LongYear(y)  BY LeapIs
    <2> QED  BY <2>1, <2>2 DEF Con!Flag
  <1>7. /\ t.tm_wday = (x.tm_wday + 1) % 7
        /\ last => t.tm_mday = 1
        /\ last /\ x.tm_mon # 11 => /\ t.tm_mon = x.tm_mon + 1
                                    /\ t.tm_year = x.tm_year /\ t.tm_yday = x.tm_yday + 1
    BY TomorrowIs
  <1> HIDE DEF x, c, t
  <1>8. x.tm_mon = 1 /\ x.tm_year = y + 400 * era - 1899 /\ x.tm_yday = d - 306 /\ x.tm_mday = d - 336
    BY <1>1, <1>2, <1>4, SMT
  <1>9. last
    <2>1. Con!DaysIn(x.tm_mon, x.tm_year + 1900) = 28 + Con!Flag(LongYear(y))
      BY <1>2, <1>4
    <2>2. d - 336 = 28 + Con!Flag(LongYear(y))  BY <1>1, SMT DEF Con!Flag
    <2> QED  BY <1>8, <2>1, <2>2
  <1> HIDE DEF last
  <1>10. t.tm_mday = 1 /\ t.tm_mon = 2 /\ t.tm_year = y + 400 * era - 1899 /\ t.tm_yday = d - 305
    BY <1>7, <1>8, <1>9, SMT
  <1>11. c.tm_mon = 2 /\ c.tm_mday = 1 /\ c.tm_year = v + 400 * e - 1900  BY <1>3, <1>5, SMT
  <1>12. c.tm_year = t.tm_year  BY <1>10, <1>11, SMT
  <1>13. c.tm_yday = t.tm_yday
    BY <1>1, <1>5, <1>6, <1>10, SMT DEF Con!Flag
  <1> QED  BY <1>4, <1>5, <1>7, <1>10, <1>11, <1>12, <1>13, DatesAreEqual DEF c, t, x

\* A day is followed by the next one of the calendar, in every era.
LEMMA NextDay ==
  ASSUME NEW day \in Int
  PROVE  Con!time_civil_from_days(day + 1) = Con!Tomorrow(Con!time_civil_from_days(day))
  <1>1. day + 719468 \in Int /\ day + 1 \in Int /\ day + 1 + 719468 \in Int  BY SMT
  <1>2. PICK era \in Int : /\ era = Con!Era(day + 719468)
                           /\ 146097 * era <= day + 719468
                           /\ day + 719468 <= 146097 * era + 146096
    BY <1>1, EraIs
  <1>3. PICK e \in Int : /\ e = Con!Era(day + 1 + 719468)
                         /\ 146097 * e <= day + 1 + 719468
                         /\ day + 1 + 719468 <= 146097 * e + 146096
    BY <1>1, EraIs
  <1>4. PICK doe \in Int, next \in Int :
          doe = (day + 719468) - era * 146097 /\ next = (day + 1 + 719468) - e * 146097
    BY SMT
  <1>5. 0 <= doe /\ doe <= 146096 /\ 0 <= next /\ next <= 146096  BY <1>2, <1>3, <1>4, SMT
  <1>6. /\ Con!time_civil_from_days(day) = Civil(Wday(day), era, Yoe(doe), Doy(doe))
        /\ Con!time_civil_from_days(day + 1) = Civil(Wday(day + 1), e, Yoe(next), Doy(next))
    BY <1>1, <1>2, <1>3, <1>4, CivilIs
  <1>7. PICK w \in Int, u \in Int : w = Wday(day) /\ u = Wday(day + 1) /\ IsNextWday(w, u)
    BY WeekdayIs, SMT DEF IsNextWday
  <1>8. PICK y \in Int, d \in Int :
          /\ y = Yoe(doe) /\ d = Doy(doe) /\ InEra(y) /\ 0 <= d
          /\ InYear(y, d)
    <2>1. Yoe(doe) \in Int /\ Doy(doe) \in Int /\ InYear(Yoe(doe), Doy(doe))
      BY <1>5, YearOfEra, SMT
    <2>2. InEra(Yoe(doe)) /\ 0 <= Doy(doe)
      BY <1>5, YearOfEra, SMT DEF InEra
    <2> QED  BY <2>1, <2>2, Zenon
  <1>9. CASE doe = 146096
    <2>1. e = era + 1 /\ next = 0  BY <1>2, <1>3, <1>4, <1>9, SMT
    <2>2. y = 399 /\ d = 365 /\ Yoe(next) = 0 /\ Doy(next) = 0
      BY <1>8, <1>9, <2>1, EndsOfEra
    <2>3. IsLast(y, d)  BY <1>7, <1>8, <2>2, SMT DEF InYear, IsLast
    <2>4. 0 \in Int /\ InEra(0) /\ IsNext(era, y, e, 0)
      BY <2>1, <2>2, SMT DEF InEra, IsNext
    <2>5. Civil(u, e, 0, 0) = Con!Tomorrow(Civil(w, era, y, d))
      BY <1>7, <1>8, <2>3, <2>4, NextMarch
    <2> QED  BY <1>6, <1>7, <1>8, <2>2, <2>5
  <1>10. CASE doe # 146096
    <2>1. e = era /\ next = doe + 1 /\ doe < 146096  BY <1>2, <1>3, <1>4, <1>5, <1>10, SMT
    <2>2. IF IsLast(y, d)
          THEN y < 399 /\ Yoe(doe + 1) = y + 1 /\ Doy(doe + 1) = 0
          ELSE Yoe(doe + 1) = y /\ Doy(doe + 1) = d + 1
      BY <1>5, <1>8, <2>1, NextOfEra, SMT
    <2>3. CASE IsLast(y, d)
      <3>1. PICK g \in Int : g = y + 1  BY SMT
      <3>2. InEra(g) /\ IsNext(era, y, era, g)
        BY <1>8, <2>2, <2>3, <3>1, SMT DEF InEra, IsNext
      <3>3. Civil(u, era, g, 0) = Con!Tomorrow(Civil(w, era, y, d))
        BY <1>7, <1>8, <2>3, <3>2, NextMarch
      <3> QED  BY <1>6, <1>7, <1>8, <2>1, <2>2, <2>3, <3>1, <3>3
    <2>4. CASE ~IsLast(y, d)
      <3>1. PICK g \in Int : g = d + 1  BY SMT
      <3>2. Civil(u, era, y, g) = Con!Tomorrow(Civil(w, era, y, d))
        BY <1>7, <1>8, <2>4, <3>1, NextWithinYear
      <3> QED  BY <1>6, <1>7, <1>8, <2>1, <2>2, <2>4, <3>1, <3>2
    <2> QED  BY <2>3, <2>4
  <1> QED  BY <1>9, <1>10

\* Day 0 is Thursday the first of January 1970.
LEMMA DayZero ==
  Con!time_civil_from_days(0) =
     [tm_wday |-> 4, tm_mday |-> 1, tm_mon |-> 0, tm_year |-> 70, tm_yday |-> 0]
  <1>1. PICK era \in Int : era = Con!Era(0 + 719468) /\ era = 4
    BY SMT DEF Con!Era, Con!Quot
  <1>2. PICK doe \in Int : doe = (0 + 719468) - era * 146097 /\ doe = 135080  BY <1>1, SMT
  <1>3. Yoe(doe) = 369 /\ Doy(doe) = 306  BY <1>2, SMT DEF Yoe, Doy
  <1>4. 0 \in Int  BY SMT
  <1>5. Con!time_civil_from_days(0) = Civil(Wday(0), era, Yoe(doe), Doy(doe))
    BY <1>1, <1>2, <1>4, CivilIs, SMT
  <1>6. Wday(0) = 4  BY SMT DEF Wday, Con!Rem, Con!Quot
  <1>7. Month(306) = 10 /\ MDay(306) = 1  BY SMT DEF Month, MDay
  <1>8. Moy(306) = 1 /\ Con!Flag(Moy(306) <= 2) = 1  BY <1>7, SMT DEF Moy, Con!Flag
  <1>9. Civil(4, 4, 369, 306) =
          [tm_wday |-> 4, tm_year |-> 369 + 4 * 400 + 1 - 1900, tm_mon |-> 1 - 1,
           tm_mday |-> 1, tm_yday |-> 306 - 306]
    BY <1>7, <1>8, SMT DEF Civil
  <1> QED  BY <1>1, <1>3, <1>5, <1>6, <1>9, SMT

\* Second sec falls in day d.
InDay(d, sec) == 86400 * d <= sec /\ sec <= 86400 * d + 86399

\* The day, hour, minute and second of a time make up the time.
LEMMA TimeOfDay ==
  ASSUME NEW sec \in Int, NEW d \in Int, InDay(d, sec)
  PROVE  LET tm == Con!gmtime_r(sec)
         IN  /\ tm.date = Con!time_civil_from_days(d)
             /\ tm.tm_hour \in 0..23 /\ tm.tm_min \in 0..59 /\ tm.tm_sec \in 0..59
             /\ sec = ((d * 24 + tm.tm_hour) * 60 + tm.tm_min) * 60 + tm.tm_sec
  <1> USE DEF InDay
  <1> DEFINE tm == Con!gmtime_r(sec)
  <1>2. Con!Quot(IF sec >= 0 THEN sec ELSE sec - 86399, 86400) = d
    <2>1. CASE sec >= 0
      BY <2>1, SMT DEF Con!Quot
    <2>2. CASE sec < 0
      BY <2>2, SMT DEF Con!Quot
    <2> QED  BY <2>1, <2>2, SMT
  <1>3. PICK r \in Int : r = sec - d * 86400 /\ 0 <= r /\ r <= 86399  BY SMT
  <1>4. tm = [date |-> Con!time_civil_from_days(d), tm_hour |-> r \div 3600,
              tm_min |-> (r % 3600) \div 60, tm_sec |-> r % 60]
    BY <1>2, <1>3, SMT DEF Con!gmtime_r
  <1>5. PICK h \in Int, m \in Int, s \in Int :
          h = r \div 3600 /\ m = (r % 3600) \div 60 /\ s = r % 60
    BY SMT
  <1>6. /\ 0 <= h /\ h <= 23 /\ 0 <= m /\ m <= 59 /\ 0 <= s /\ s <= 59
        /\ r = (h * 60 + m) * 60 + s
    BY <1>3, <1>5, SMT
  <1>7. sec = ((d * 24 + h) * 60 + m) * 60 + s  BY <1>3, <1>6, SMT
  <1>8. h \in 0..23 /\ m \in 0..59 /\ s \in 0..59  BY <1>6, SMT
  <1>9. /\ tm.date = Con!time_civil_from_days(d) /\ tm.tm_hour = h /\ tm.tm_min = m
        /\ tm.tm_sec = s
    BY <1>4, <1>5
  <1> HIDE DEF tm
  <1>10. /\ tm.tm_hour \in 0..23 /\ tm.tm_min \in 0..59 /\ tm.tm_sec \in 0..59
         /\ sec = ((d * 24 + tm.tm_hour) * 60 + tm.tm_min) * 60 + tm.tm_sec
    BY <1>7, <1>8, <1>9
  <1> QED  BY <1>9, <1>10 DEF tm

\* gmtime_r is the proleptic Gregorian calendar, for every day and every second
\* before and after 1970 (time_civil_from_days and gmtime_r, gmtime_r.c).
THEOREM CalendarCorrect == \A day, sec \in Int : Con!CalendarAgrees(day, sec)
  <1> SUFFICES ASSUME NEW day \in Int, NEW sec \in Int  PROVE Con!CalendarAgrees(day, sec)
    OBVIOUS
  <1>1. Con!time_civil_from_days(day + 1) = Con!Tomorrow(Con!time_civil_from_days(day))
    BY NextDay, SMT
  <1>2. PICK d \in Int : d = sec \div 86400 /\ InDay(d, sec)  BY SMT DEF InDay
  <1> DEFINE tm == Con!gmtime_r(sec)
  <1>3. /\ tm.date = Con!time_civil_from_days(d)
        /\ tm.tm_hour \in 0..23 /\ tm.tm_min \in 0..59 /\ tm.tm_sec \in 0..59
        /\ sec = ((d * 24 + tm.tm_hour) * 60 + tm.tm_min) * 60 + tm.tm_sec
    BY <1>2, TimeOfDay
  <1>4. \E e \in {sec \div 86400} :
          /\ tm.date = Con!time_civil_from_days(e)
          /\ sec = ((e * 24 + tm.tm_hour) * 60 + tm.tm_min) * 60 + tm.tm_sec
    BY <1>2, <1>3
  <1> QED  BY <1>1, <1>3, <1>4, DayZero DEF Con!CalendarAgrees

-----------------------------------------------------------------------------
(* Deadlines *)

\* A quotient and a remainder, for any divisor
LEMMA DivIs ==
  ASSUME NEW a \in Int, NEW b \in Nat, b > 0
  PROVE  /\ a \div b \in Int /\ a % b \in Int
         /\ a = b * (a \div b) + (a % b) /\ 0 <= a % b /\ a % b < b
  OBVIOUS

\* The larger and the smaller of two numbers.
LEMMA MaxIs ==
  ASSUME NEW a \in Int, NEW b \in Int
  PROVE  /\ Con!Max({a, b}) = IF a < b THEN b ELSE a
         /\ Con!Min({a, b}) = IF a < b THEN a ELSE b
  BY DEF Con!Max, Con!Min

\* Products with a positive factor keep the order.
LEMMA TimesKeepsOrder ==
  ASSUME NEW n \in Nat, n > 0, NEW a \in Int, NEW b \in Int, a < b
  PROVE  a * n + n <= b * n
  <1>1. PICK k \in Nat : b = a + 1 + k  BY SMT
  <1>2. k * n >= 0  BY SMT
  <1>3. b * n = a * n + n + k * n  BY <1>1, SMT
  <1>4. a * n \in Int /\ k * n \in Int /\ b * n \in Int  BY SMT
  <1> QED  BY <1>2, <1>3, <1>4, SMT

\* A number that an int64_t holds stays as it is.
LEMMA HeldStays ==
  ASSUME NEW x \in Int, Con!Held(x)
  PROVE  Con!Int64(x) = x
  <1>1. PICK L \in Nat : L = TimeLimit /\ L > 0  BY ConvertAssumption
  <1>2. PICK y \in Int, M \in Nat : y = x + L /\ M = 2 * L  BY <1>1
  <1>3. 0 <= y /\ y < M  BY <1>1, <1>2 DEF Con!Held
  <1>4. y % M = y  BY <1>2, <1>3
  <1> QED  BY <1>1, <1>2, <1>4 DEF Con!Int64

\* ... and so do the milliseconds of nanoseconds that it holds.
LEMMA MillisecondsHeld ==
  ASSUME NEW x \in Int, NEW n \in Nat, n > 0, NEW r \in Int, 0 <= r, r < n,
         NEW N \in Int, N = x * n + r, Con!Held(N)
  PROVE  Con!Held(x)
  <1>1. PICK L \in Nat : L = TimeLimit /\ L > 0  BY ConvertAssumption
  <1>2. -L <= N /\ N < L  BY <1>1 DEF Con!Held
  <1>3. x * n \in Int /\ L * n \in Int /\ (-L) * n = -(L * n) /\ L * n >= L  BY <1>1, SMT
  <1>4. x < L
    <2> SUFFICES ASSUME ~(x < L) PROVE FALSE  OBVIOUS
    <2>1. x = L \/ L < x  BY <1>1, SMT
    <2>2. L < x => L * n + n <= x * n  BY <1>1, TimesKeepsOrder
    <2>3. x = L => x * n = L * n  OBVIOUS
    <2> QED  BY <1>1, <1>2, <1>3, <2>1, <2>2, <2>3, SMT
  <1>5. -L <= x
    <2> SUFFICES ASSUME ~(-L <= x) PROVE FALSE  OBVIOUS
    <2>1. -L \in Int /\ x < -L  BY <1>1, SMT
    <2>2. x * n + n <= (-L) * n  BY <2>1, TimesKeepsOrder
    <2> QED  BY <1>1, <1>2, <1>3, <2>2, SMT
  <1> QED  BY <1>1, <1>4, <1>5 DEF Con!Held

\* timespec_to_timeoutms is the time that is left, in whole milliseconds, for any two
\* times whose nanoseconds, and their difference, an int64_t holds; it is 0 for a clock
\* that cannot be read; and tp_ge compares any two times.
THEOREM DeadlinesCorrect ==
  ASSUME NEW now, NEW abstime,
         now.sec \in Int, now.nsec \in Nat, now.nsec < Con!NsPerSec,
         abstime.sec \in Int, abstime.nsec \in Nat, abstime.nsec < Con!NsPerSec
  PROVE  Con!DeadlinesAgree(now, abstime)
  <1>1. PICK a \in Int, b \in Int, c \in Nat, d \in Nat, n \in Nat, f \in Nat :
          /\ a = abstime.sec /\ b = now.sec /\ c = abstime.nsec /\ d = now.nsec
          /\ n = NsPerMs /\ f = MsPerSec
    BY ConvertAssumption
  <1>2. n > 0 /\ f > 0  BY <1>1, ConvertAssumption
  <1>3. PICK S \in Nat : S = Con!NsPerSec /\ S = n * f  BY <1>1, SMT DEF Con!NsPerSec
  <1>4. S > 0  BY <1>2, <1>3, SMT
  <1>5. c < S /\ d < S  BY <1>1, <1>3
  <1>6. PICK left \in Int : /\ left = Con!Nanoseconds(abstime) - Con!Nanoseconds(now)
                            /\ left = (a * S + c) - (b * S + d)
    <2>1. (a * S + c) - (b * S + d) \in Int  BY SMT
    <2> QED  BY <1>1, <1>3, <2>1 DEF Con!Nanoseconds
  <1>12. PICK N \in Int, O \in Int : /\ N = Con!Nanoseconds(abstime) /\ N = a * S + c
                                     /\ O = Con!Nanoseconds(now) /\ O = b * S + d /\ left = N - O
    <2>1. a * S + c \in Int /\ b * S + d \in Int  BY SMT
    <2> QED  BY <1>1, <1>3, <1>6, <2>1 DEF Con!Nanoseconds
  <1> DEFINE AllHeld == Con!Held(N) /\ Con!Held(O) /\ Con!Held(left)
  <1>13. ASSUME AllHeld PROVE Con!tp_diff(abstime, now) = left
    <2>1. Con!ts_to_ns(abstime) = N /\ Con!ts_to_ns(now) = O
      BY <1>12, <1>13, HeldStays DEF Con!ts_to_ns, Con!Nanoseconds
    <2>2. Con!tp_diff(abstime, now) = Con!Int64(left)  BY <1>12, <2>1 DEF Con!tp_diff
    <2> QED  BY <1>13, <2>2, HeldStays
  <1> DEFINE exact == Con!Max({0, Con!Min({TimeoutMax, Con!Quot(left, n)})})
  <1>14. /\ AllHeld => Con!timespec_to_timeoutms("CLOCK_REALTIME", now, abstime) = exact
         /\ Con!timespec_to_timeoutms("CLOCK_PROCESS_CPUTIME_ID", now, abstime) = 0
    <2>1. /\ Con!sys_clock_from_clockid("CLOCK_REALTIME") # "EINVAL"
          /\ Con!sys_clock_from_clockid("CLOCK_PROCESS_CPUTIME_ID") = "EINVAL"
      BY DEF Con!sys_clock_from_clockid
    <2> QED  BY <1>1, <1>13, <2>1 DEF Con!timespec_to_timeoutms
  <1> HIDE DEF AllHeld
  <1>7. PICK ms \in Int : ms = exact /\ ms = Con!Max({0, Con!Min({TimeoutMax, Con!Quot(left, n)})})
    <2>1. Con!Quot(left, n) \in Int  BY <1>2, DivIs, SMT DEF Con!Quot
    <2>2. PICK q \in Int : q = Con!Quot(left, n)  BY <2>1
    <2>3. PICK m \in Int : m = Con!Min({TimeoutMax, q})
      <3>1. PICK T \in Int : T = TimeoutMax  BY ConvertAssumption
      <3>2. Con!Min({T, q}) = IF T < q THEN T ELSE q  BY MaxIs
      <3> QED  BY <3>1, <3>2
    <2>4. Con!Max({0, m}) \in Int  BY <2>3, MaxIs
    <2> QED  BY <2>2, <2>3, <2>4
  <1>8. /\ left <= 0 => ms = 0
        /\ left > 0 => ms * n <= left
        /\ left > 0 /\ ms < TimeoutMax => left < (ms + 1) * n
    <2>1. PICK T \in Int : T = TimeoutMax /\ T >= 0  BY ConvertAssumption
    <2>2. CASE left > 0
      <3>1. PICK q \in Int, r \in Int :
              q = left \div n /\ left = n * q + r /\ 0 <= r /\ r < n
        <4>1. left \div n \in Int /\ left % n \in Int  BY <1>2, DivIs
        <4> QED  BY <1>2, <4>1, DivIs
      <3>2. q >= 0  BY <1>2, <2>2, <3>1, SMT
      <3>3. Con!Quot(left, n) = q  BY <2>2, <3>1, SMT DEF Con!Quot
      <3>4. ms = IF T < q THEN T ELSE q
        <4>1. Con!Min({T, q}) = IF T < q THEN T ELSE q  BY MaxIs
        <4>2. PICK m \in Int : m = Con!Min({T, q})  BY <4>1
        <4>3. Con!Max({0, m}) = IF 0 < m THEN m ELSE 0  BY MaxIs
        <4>4. m >= 0  BY <2>1, <3>2, <4>1, <4>2, SMT
        <4> QED  BY <1>7, <2>1, <3>3, <4>1, <4>2, <4>3, <4>4, SMT
      <3>5. CASE T < q
        <4>1. T * n + n <= q * n  BY <1>2, <3>5, TimesKeepsOrder
        <4>2. q * n <= left  BY <3>1, SMT
        <4>3. T * n \in Int /\ q * n \in Int  BY SMT
        <4>4. T * n <= left  BY <4>1, <4>2, <4>3, SMT
        <4> QED  BY <2>1, <2>2, <3>4, <3>5, <4>4, SMT
      <3>6. CASE ~(T < q)
        <4>1. ms = q  BY <3>4, <3>6
        <4>2. q * n \in Int /\ (q + 1) * n = q * n + n /\ q * n = n * q  BY SMT
        <4> QED  BY <2>2, <3>1, <4>1, <4>2, SMT
      <3> QED  BY <3>5, <3>6
    <2>3. CASE left <= 0
      <3>1. PICK q \in Int : q = Con!Quot(left, n) /\ q <= 0
        <4>1. CASE left = 0
          <5>1. 0 \div n = 0  BY <1>2, SMT
          <5> QED  BY <4>1, <5>1, SMT DEF Con!Quot
        <4>2. CASE left < 0
          <5>1. PICK p \in Int, r \in Int :
                  p = (-left) \div n /\ -left = n * p + r /\ 0 <= r /\ r < n
            <6>1. -left \in Int  BY SMT
            <6>2. (-left) \div n \in Int /\ (-left) % n \in Int  BY <1>2, <6>1, DivIs
            <6> QED  BY <1>2, <6>1, <6>2, DivIs
          <5>2. p >= 0  BY <1>2, <4>2, <5>1, SMT
          <5>3. Con!Quot(left, n) = -p  BY <4>2, <5>1, SMT DEF Con!Quot
          <5>4. -p \in Int /\ -p <= 0  BY <5>2, SMT
          <5> QED  BY <5>3, <5>4
        <4> QED  BY <2>3, <4>1, <4>2, SMT
      <3>2. Con!Min({T, q}) = IF T < q THEN T ELSE q  BY MaxIs
      <3>3. PICK m \in Int : m = Con!Min({T, q}) /\ m <= 0  BY <3>1, <3>2, SMT
      <3>4. Con!Max({0, m}) = IF 0 < m THEN m ELSE 0  BY MaxIs
      <3>5. ms = 0  BY <1>7, <2>1, <3>1, <3>3, <3>4, SMT
      <3> QED  BY <2>3, <3>5, SMT
    <2> QED  BY <2>2, <2>3, SMT
  <1>9. Con!tp_ge(abstime, now) <=> left >= 0
    <2>1. Con!tp_ge(abstime, now) <=> a > b \/ (a = b /\ c >= d)  BY <1>1 DEF Con!tp_ge
    <2>2. a * S \in Int /\ b * S \in Int  BY SMT
    <2>3. CASE a > b
      <3>1. b * S + S <= a * S  BY <1>4, <2>3, TimesKeepsOrder, SMT
      <3> QED  BY <1>5, <1>6, <2>1, <2>2, <2>3, <3>1, SMT
    <2>4. CASE a < b
      <3>1. a * S + S <= b * S  BY <1>4, <2>4, TimesKeepsOrder, SMT
      <3> QED  BY <1>5, <1>6, <2>1, <2>2, <2>4, <3>1, SMT
    <2>5. CASE a = b
      BY <1>6, <2>1, <2>2, <2>5, SMT
    <2> QED  BY <2>3, <2>4, <2>5, SMT
  <1>10. ASSUME AllHeld, 0 <= left, left < S
         PROVE  Con!ts_to_ms(abstime) - Con!ts_to_ms(now) \in 0..MsPerSec
    <2>1. PICK p \in Int, r \in Int : p = c \div n /\ c = n * p + r /\ 0 <= r /\ r < n
      <3>1. c \in Int /\ c \div n \in Int /\ c % n \in Int  BY <1>2, DivIs
      <3> QED  BY <1>2, <3>1, DivIs
    <2>2. PICK q \in Int, s \in Int : q = d \div n /\ d = n * q + s /\ 0 <= s /\ s < n
      <3>1. d \in Int /\ d \div n \in Int /\ d % n \in Int  BY <1>2, DivIs
      <3> QED  BY <1>2, <3>1, DivIs
    <2>3. /\ Con!ts_to_ms(abstime) = Con!Int64(a * f + p)
          /\ Con!ts_to_ms(now) = Con!Int64(b * f + q)
      BY <1>1, <2>1, <2>2 DEF Con!ts_to_ms, Con!Quot
    <2>4. PICK x \in Int, y \in Int : x = a * f + p /\ y = b * f + q  BY SMT
    <2>5. /\ left = (x * n + r) - (y * n + s)
          /\ N = x * n + r /\ O = y * n + s
      <3>1. a * S = (a * f) * n /\ b * S = (b * f) * n  BY <1>3, SMT
      <3>2. x * n = (a * f) * n + n * p /\ y * n = (b * f) * n + n * q  BY <2>4, SMT
      <3>3. PICK A \in Int, B \in Int, P \in Int, Q \in Int :
              A = (a * f) * n /\ B = (b * f) * n /\ P = n * p /\ Q = n * q
        BY SMT
      <3>4. x * n = A + P /\ y * n = B + Q /\ a * S = A /\ b * S = B /\ c = P + r /\ d = Q + s
        BY <2>1, <2>2, <3>1, <3>2, <3>3
      <3>5. N = A + (P + r) /\ O = B + (Q + s)  BY <1>12, <3>4
      <3>6. N = (A + P) + r /\ O = (B + Q) + s  BY <3>5, SMT
      <3> QED  BY <1>12, <3>4, <3>6
    <2>6. x * n \in Int /\ y * n \in Int  BY SMT
    <2>7. y <= x
      <3> SUFFICES ASSUME x < y PROVE FALSE  BY SMT
      <3>1. x * n + n <= y * n  BY <1>2, TimesKeepsOrder
      <3> QED  BY <1>10, <2>1, <2>2, <2>5, <2>6, <3>1, SMT
    <2>8. x <= y + f
      <3> SUFFICES ASSUME y + f < x PROVE FALSE  BY SMT
      <3>1. y + f \in Int  BY SMT
      <3>2. (y + f) * n + n <= x * n  BY <1>2, <3>1, TimesKeepsOrder
      <3>3. (y + f) * n = y * n + S  BY <1>3, SMT
      <3> QED  BY <1>10, <2>1, <2>2, <2>5, <2>6, <3>2, <3>3, SMT
    <2>9. x - y \in 0..f  BY <2>7, <2>8, SMT
    <2>10. Con!Held(N) /\ Con!Held(O)  BY <1>10 DEF AllHeld
    <2>11. Con!Int64(x) = x /\ Con!Int64(y) = y
      <3>1. Con!Held(x)  BY <1>2, <1>12, <2>1, <2>5, <2>10, MillisecondsHeld
      <3>2. Con!Held(y)  BY <1>2, <1>12, <2>2, <2>5, <2>10, MillisecondsHeld
      <3> QED  BY <3>1, <3>2, HeldStays
    <2> QED  BY <1>1, <2>3, <2>4, <2>9, <2>11
  <1>11. AllHeld /\ Con!tp_diff_in_range_ns(abstime, now, 0, Con!NsPerSec) => 0 <= left /\ left < S
    BY <1>3, <1>13 DEF Con!tp_diff_in_range_ns
  <1>15. AllHeld <=> /\ Con!Held(Con!Nanoseconds(now)) /\ Con!Held(Con!Nanoseconds(abstime))
                     /\ Con!Held(Con!Nanoseconds(abstime) - Con!Nanoseconds(now))
    BY <1>6, <1>12 DEF AllHeld
  <1> HIDE DEF exact
  <1> QED  BY <1>1, <1>6, <1>7, <1>8, <1>9, <1>10, <1>11, <1>14, <1>15 DEF Con!DeadlinesAgree

-----------------------------------------------------------------------------
(* Handles and lists of interfaces *)

\* A handle finds the object it was made from, and no other, whatever the width of
\* a handle, the place of the storage and the objects that are live
\* (posix_get_pool_obj_unlocked, pool.c).
THEOREM HandlesCorrect ==
  \A storage, obj \in Nat, live \in SUBSET Nat : Obj!HandlesAgree(storage, live, obj)
  <1> SUFFICES ASSUME NEW storage \in Nat, NEW obj \in Nat, NEW live \in SUBSET Nat
               PROVE  Obj!HandlesAgree(storage, live, obj)
    OBVIOUS
  <1>1. PICK w \in Nat : w = Word /\ w > 0  BY ConvertAssumption
  <1>2. PICK h \in Int : h = obj % w /\ 0 <= h /\ h < w  BY <1>1, DivIs
  <1>3. PICK q \in Int : q = storage \div w  BY <1>1, DivIs
  <1>4. PICK j \in Int : j = q * w + h /\ j = Obj!Join(storage, Obj!posix_from_kernel_object(obj))
    <2>1. q * w + h \in Int  BY SMT
    <2> QED  BY <1>1, <1>2, <1>3, <2>1 DEF Obj!Join, Obj!posix_from_kernel_object
  <1>5. j \div w = q
    <2>1. PICK p \in Int, r \in Int : p = j \div w /\ j = w * p + r /\ 0 <= r /\ r < w
      <3>1. j \div w \in Int /\ j % w \in Int  BY <1>1, DivIs
      <3> QED  BY <1>1, <3>1, DivIs
    <2>2. p * w \in Int /\ q * w \in Int /\ p * w = w * p  BY SMT
    <2>3. p * w + r = q * w + h  BY <1>4, <2>1, <2>2, SMT
    <2>4. ~(p < q)
      <3> SUFFICES ASSUME p < q PROVE FALSE  OBVIOUS
      <3>1. p * w + w <= q * w  BY <1>1, TimesKeepsOrder
      <3> QED  BY <1>2, <2>1, <2>2, <2>3, <3>1, SMT
    <2>5. ~(q < p)
      <3> SUFFICES ASSUME q < p PROVE FALSE  OBVIOUS
      <3>1. q * w + w <= p * w  BY <1>1, TimesKeepsOrder
      <3> QED  BY <1>2, <2>1, <2>2, <2>3, <3>1, SMT
    <2> QED  BY <2>1, <2>4, <2>5, SMT
  <1>6. obj \div w = q => j = obj
    <2>1. obj = w * (obj \div w) + (obj % w)  BY <1>1, DivIs
    <2>2. w * q = q * w  BY SMT
    <2> QED  BY <1>2, <1>4, <2>1, <2>2
  <1>7. Obj!posix_get_pool_obj_unlocked(storage, live, Obj!posix_from_kernel_object(obj)) =
           IF j \in live THEN j ELSE 0
    BY <1>4 DEF Obj!posix_get_pool_obj_unlocked
  <1>8. Obj!posix_to_kernel_object(Obj!posix_from_kernel_object(obj), storage) = j
    BY <1>4 DEF Obj!posix_to_kernel_object
  <1> QED  BY <1>1, <1>3, <1>5, <1>6, <1>7, <1>8 DEF Obj!HandlesAgree

\* if_nameindex gives back every name it allocated when it runs out of memory, and
\* no more if that was at the last name, for any number of interfaces (net.c).
THEOREM InterfacesCorrect == \A n, bad \in Nat : Obj!InterfacesAgree(n, bad)
  <1> SUFFICES ASSUME NEW n \in Nat, NEW bad \in Nat  PROVE Obj!InterfacesAgree(n, bad)
    OBVIOUS
  <1> DEFINE array == [k \in 1..n |-> IF k < bad THEN "name" ELSE IF k = bad THEN "NULL" ELSE "garbage"]
             r == Obj!if_nameindex(n, bad)
  <1>1. /\ r.list = IF bad > n THEN array ELSE <<>>
        /\ r.freed = IF bad \in 1..n THEN {k \in 1..n : array[k] # "NULL"} ELSE {}
        /\ r.allocated = IF bad \in 1..n THEN {k \in 1..n : array[k] = "name"} ELSE {}
    BY DEF Obj!if_nameindex, Obj!if_freenameindex
  <1>2. \A k \in 1..n : array[k] = IF k < bad THEN "name" ELSE IF k = bad THEN "NULL" ELSE "garbage"
    OBVIOUS
  <1>3. bad > n => array = [k \in 1..n |-> "name"]  BY SMT
  <1> HIDE DEF array, r
  <1>4. r.allocated \subseteq r.freed  BY <1>1
  <1>5. bad >= n => r.freed = r.allocated
    <2>1. ASSUME bad >= n, NEW k \in 1..n, array[k] # "NULL"  PROVE array[k] = "name"
      BY <1>2, <2>1, SMT
    <2> QED  BY <1>1, <2>1
  <1>6. bad > n => r.list = [k \in 1..n |-> "name"]  BY <1>1, <1>3
  <1> QED  BY <1>4, <1>5, <1>6 DEF r, Obj!InterfacesAgree

-----------------------------------------------------------------------------
(* getopt *)

\* What is left between two calls: optind is where the last call left it, and it is
\* what the hidden optind_prev says, except before the first call.
OptRec == [optind : Nat, prev : Nat, next : Nat, optarg : Seq(STRING) \cup {NULL},
           optopt : STRING \cup {NULL, "0"}]
Settled(g) == g \in OptRec /\ g.optind >= 1 /\ g.prev = g.optind
OptInv ==
    /\ argv \in Argvs
    /\ how \in Opt!Functions
    /\ Settled(opt) \/ (opt \in OptRec /\ opt.optind = 0)

PosOf(g) == [arg |-> g.optind + 1, chr |-> IF g.next < 1 THEN 2 ELSE g.next + 1]

\* The resets on entry leave a state that is settled, at the same position.
LEMMA ResetSettles ==
  ASSUME NEW g, Settled(g) \/ (g \in OptRec /\ g.optind = 0)
  PROVE  /\ Settled(Opt!Reset(g))
         /\ g.optind = 0 => Opt!Reset(g).optind = 1 /\ Opt!Reset(g).next = 0
         /\ Settled(g) => Opt!Reset(g) = g
  <1>1. CASE Settled(g)
    BY <1>1 DEF Settled, OptRec, Opt!Reset
  <1>2. CASE g \in OptRec /\ g.optind = 0
    <2>1. [g EXCEPT !.optind = 1, !.prev = 1, !.next = 0] \in OptRec  BY <1>2 DEF OptRec
    <2> QED  BY <1>2, <2>1 DEF Settled, OptRec, Opt!Reset
  <1> QED  BY <1>1, <1>2

LEMMA PositionIs == Opt!Position = PosOf(Opt!Reset(opt))
  BY DEF Opt!Position, PosOf

LEMMA PositionNext == ASSUME Settled(opt') PROVE Opt!Position' = PosOf(opt')
  <1>1. Opt!Reset(opt') = opt'  BY ResetSettles
  <1> QED  BY <1>1 DEF Opt!Position, PosOf

-----------------------------------------------------------------------------
Answer(g, i) ==
  IF Opt!Chr(Opt!Arg(i), 0) # "-" \/ Len(Opt!Arg(i)) = 1 THEN [ret |-> "-1", g |-> g]
  ELSE IF Opt!Arg(i) = <<"-", "-">> THEN [ret |-> "-1", g |-> [g EXCEPT !.optind = i + 1]]
  ELSE IF how # "getopt" /\ Opt!getopt_match_longopt(g, i).ret # "go on"
  THEN Opt!getopt_match_longopt(g, i)
  ELSE Opt!ShortOption(g, i)

LEMMA OneCallIs ==
  ASSUME NEW g, g = Opt!Reset(opt)
  PROVE  Opt!zephyr_getopt(opt) =
           IF g.optind >= Len(argv) THEN [ret |-> "-1", g |-> g]
           ELSE [Answer(g, g.optind) EXCEPT !.g.prev = Answer(g, g.optind).g.optind]
  <1>1. CASE how = "getopt"
    BY <1>1 DEF Opt!zephyr_getopt, Answer, Opt!argc, Opt!GoOn
  <1>2. CASE how # "getopt"
    BY <1>2 DEF Opt!zephyr_getopt, Answer, Opt!argc, Opt!GoOn
  <1> QED  BY <1>1, <1>2

\* The argument that is read, and its characters
LEMMA HereIs ==
  ASSUME OptInv, NEW g, g = Opt!Reset(opt), NEW i, i = g.optind
  PROVE  /\ Opt!Position = Reads!At(i + 1, IF g.next < 1 THEN 2 ELSE g.next + 1)
         /\ Settled(g) /\ i \in Nat /\ i >= 1
         /\ Reads!Here = argv[i + 1] /\ Reads!Here = Opt!Arg(i)
         /\ argv \in Seq(Seq(STRING)) /\ Len(argv) \in Nat
         /\ i < Len(argv) => /\ argv[i + 1] \in Seq(STRING) /\ Len(argv[i + 1]) \in Nat
                             /\ \A j \in 1..Len(argv[i + 1]) : argv[i + 1][j] # "NUL"
  <1>1. Settled(g) /\ Opt!Position = PosOf(g)  BY ResetSettles, PositionIs DEF OptInv
  <1>2. i \in Nat /\ i >= 1  BY <1>1 DEF Settled, OptRec
  <1>3. argv \in Seq(Seq(STRING \ {"NUL"}))  BY GetoptAssumption DEF OptInv
  <1>4. argv \in Seq(Seq(STRING)) /\ Len(argv) \in Nat  BY <1>3
  <1>5. Opt!Position = Reads!At(i + 1, IF g.next < 1 THEN 2 ELSE g.next + 1)
    BY <1>1 DEF PosOf, Reads!At
  <1>6. Reads!Here = argv[i + 1] /\ Reads!Here = Opt!Arg(i)
    BY <1>5 DEF Reads!Here, Reads!At, Opt!Arg
  <1>7. ASSUME i < Len(argv)
        PROVE  /\ argv[i + 1] \in Seq(STRING) /\ Len(argv[i + 1]) \in Nat
               /\ \A j \in 1..Len(argv[i + 1]) : argv[i + 1][j] # "NUL"
    <2>1. argv[i + 1] \in Seq(STRING \ {"NUL"})  BY <1>2, <1>3, <1>7
    <2>2. PICK s : s = argv[i + 1]  OBVIOUS
    <2>3. s \in Seq(STRING) /\ Len(s) \in Nat /\ \A j \in 1..Len(s) : s[j] # "NUL"
      BY <2>1, <2>2
    <2> QED  BY <2>2, <2>3
  <1> QED  BY <1>1, <1>2, <1>4, <1>5, <1>6, <1>7

\* A character of a string, or its NUL
LEMMA ChrIs ==
  ASSUME NEW s \in Seq(STRING), \A j \in 1..Len(s) : s[j] # "NUL", NEW n \in Nat
  PROVE  /\ n < Len(s) => Opt!Chr(s, n) = s[n + 1]
         /\ Opt!Chr(s, n) = "NUL" <=> n >= Len(s)
  <1>1. CASE n < Len(s)
    <2>1. n + 1 \in 1..Len(s)  BY <1>1
    <2> QED  BY <1>1, <2>1 DEF Opt!Chr
  <1>2. CASE ~(n < Len(s))
    <2>1. Opt!Chr(s, n) = "NUL"  BY <1>2 DEF Opt!Chr
    <2>2. n >= Len(s)  BY <1>2
    <2> QED  BY <1>2, <2>1, <2>2
  <1> QED  BY <1>1, <1>2

\* A call with arguments left leaves what Answer gives, and moves to its position.
LEMMA StepIs ==
  ASSUME OptInv, Opt!Next, NEW g, g = Opt!Reset(opt), NEW i, i = g.optind, i < Len(argv),
         NEW a, a = Answer(g, i), a.g \in OptRec, a.g.optind >= 1,
         NEW r, a = [ret |-> r, g |-> a.g]
  PROVE  /\ result' = r
         /\ seen' = IF r \in {"-1", "?", ":", "undefined"} THEN seen
                    ELSE Append(seen, <<r, IF Reads!Takes(r) THEN a.g.optarg ELSE NULL>>)
         /\ Settled(opt') /\ Opt!Position' = PosOf(a.g)
         /\ result \notin {"-1", "?", ":", "undefined"} /\ UNCHANGED <<argv, how>>
  <1>1. ~(g.optind >= Len(argv))  BY HereIs
  <1>2. Opt!zephyr_getopt(opt) = [a EXCEPT !.g.prev = a.g.optind]
    BY <1>1, OneCallIs
  <1>3. PICK z : z = Opt!zephyr_getopt(opt)  OBVIOUS
  <1>4. z.ret = r /\ z.g = [a.g EXCEPT !.prev = a.g.optind]  BY <1>2, <1>3
  <1>5. Settled(z.g) /\ PosOf(z.g) = PosOf(a.g) /\ z.g.optarg = a.g.optarg
    BY <1>4 DEF Settled, OptRec, PosOf
  <1>6. \A c : Opt!Takes(c) <=> Reads!Takes(c)  BY DEF Opt!Takes, Reads!Takes
  <1>7. /\ result \notin {"-1", "?", ":", "undefined"} /\ UNCHANGED <<argv, how>>
        /\ opt' = z.g /\ result' = z.ret
        /\ seen' = IF z.ret \in {"-1", "?", ":", "undefined"} THEN seen
                   ELSE Append(seen, <<z.ret, IF Opt!Takes(z.ret) THEN z.g.optarg ELSE NULL>>)
    BY <1>3 DEF Opt!Next, Opt!Step, Opt!Ended
  <1>8. seen' = IF r \in {"-1", "?", ":", "undefined"} THEN seen
                ELSE Append(seen, <<r, IF Reads!Takes(r) THEN a.g.optarg ELSE NULL>>)
    BY <1>4, <1>5, <1>6, <1>7
  <1>9. Settled(opt') /\ Opt!Position' = PosOf(a.g)
    <2>1. Settled(opt') /\ PosOf(opt') = PosOf(a.g)  BY <1>5, <1>7
    <2> QED  BY <2>1, PositionNext
  <1> QED  BY <1>4, <1>7, <1>8, <1>9

\* ... and one without gives -1 and stays.
LEMMA StepAtEnd ==
  ASSUME OptInv, Opt!Next, NEW g, g = Opt!Reset(opt), g.optind >= Len(argv)
  PROVE  /\ result' = "-1" /\ seen' = seen /\ Settled(opt') /\ Opt!Position' = Opt!Position
         /\ result \notin {"-1", "?", ":", "undefined"} /\ UNCHANGED <<argv, how>>
  <1>1. Opt!zephyr_getopt(opt) = [ret |-> "-1", g |-> g]  BY OneCallIs
  <1>2. PICK z : z = Opt!zephyr_getopt(opt)  OBVIOUS
  <1>3. z.ret = "-1" /\ z.g = g  BY <1>1, <1>2
  <1>4. /\ result \notin {"-1", "?", ":", "undefined"} /\ UNCHANGED <<argv, how>>
        /\ opt' = z.g /\ result' = z.ret
        /\ seen' = IF z.ret \in {"-1", "?", ":", "undefined"} THEN seen
                   ELSE Append(seen, <<z.ret, IF Opt!Takes(z.ret) THEN z.g.optarg ELSE NULL>>)
    BY <1>2 DEF Opt!Next, Opt!Step, Opt!Ended
  <1>5. Settled(g)  BY ResetSettles DEF OptInv
  <1>6. Settled(opt') /\ PosOf(opt') = PosOf(g)  BY <1>3, <1>4, <1>5
  <1>7. Opt!Position' = Opt!Position  BY <1>6, PositionIs, PositionNext
  <1> QED  BY <1>3, <1>4, <1>6, <1>7

-----------------------------------------------------------------------------
(* Short options *)

\* The character that ShortOption reads
Index(g, s) == IF g.next < 1 \/ g.next >= Len(s) THEN 1 ELSE g.next

Base(g, n, c) == [g EXCEPT !.next = n, !.optopt = c]

-----------------------------------------------------------------------------
(* Long options *)

LEMMA LongOptIs ==
  ASSUME NEW k \in 1..Len(LongOpts)
  PROVE  /\ LongOpts[k].name \in Seq(STRING) /\ LongOpts[k].flag \in BOOLEAN
         /\ LongOpts[k].val \in STRING /\ Len(LongOpts[k].name) \in Nat
         /\ LongOpts[k].has_arg \in {"no_argument", "required_argument", "optional_argument"}
  <1> DEFINE R == [name : Seq(STRING), val : STRING, flag : BOOLEAN,
                   has_arg : {"no_argument", "required_argument", "optional_argument"}]
  <1>1. LongOpts \in Seq(R)  BY GetoptAssumption
  <1>2. LongOpts[k] \in R
    <2> HIDE DEF R
    <2> QED  BY <1>1
  <1> QED  BY <1>2

\* strncmp by the length of the name finds the options whose name the text begins with.
LEMMA MatchesAre ==
  ASSUME NEW t \in Seq(STRING)
  PROVE  Opt!LongMatches(t) = Reads!Matches(t)
  <1>1. ASSUME NEW k \in 1..Len(LongOpts)
        PROVE  Opt!IsPrefix(LongOpts[k].name, t) <=> Reads!StartsWith(t, LongOpts[k].name)
    <2>1. PICK n \in Seq(STRING) : n = LongOpts[k].name  BY LongOptIs
    <2>2. SubSeq(n, 1, Len(n)) = n  OBVIOUS
    <2> QED  BY <2>1, <2>2 DEF Opt!IsPrefix, Reads!StartsWith
  <1> QED  BY <1>1 DEF Opt!LongMatches, Reads!Matches

\* An argument with one dash is for the short options, if getopt_long_only does not
\* find a name.
LEMMA OneDash ==
  ASSUME NEW g, NEW i, NEW s, s = Opt!Arg(i), s \in Seq(STRING),
         \A j \in 1..Len(s) : s[j] # "NUL", Len(s) >= 2, s[2] # "-",
         how = "getopt_long_only" => Reads!Matches(SubSeq(s, 2, Len(s))) = {}
  PROVE  Opt!getopt_match_longopt(g, i).ret = "go on"
  <1>1. Opt!Chr(s, 1) = s[2]
    <2>1. 1 \in Nat /\ 1 < Len(s)  OBVIOUS
    <2> QED  BY <2>1, ChrIs
  <1>2. SubSeq(s, 2, Len(s)) \in Seq(STRING) /\ Opt!From(s, 1) = SubSeq(s, 2, Len(s))
    BY DEF Opt!From
  <1>3. how = "getopt_long_only" => Opt!LongMatches(Opt!From(s, 1)) = {}
    BY <1>2, MatchesAre
  <1>4. Opt!GoOn.ret = "go on"  BY DEF Opt!GoOn
  <1>5. Opt!getopt_match_longopt(g, i) = Opt!GoOn
    <2>1. CASE how # "getopt_long_only"
      BY <1>1, <2>1 DEF Opt!getopt_match_longopt
    <2>2. CASE how = "getopt_long_only"
      BY <1>1, <1>3, <2>2 DEF Opt!getopt_match_longopt
    <2> QED  BY <2>1, <2>2
  <1> QED  BY <1>4, <1>5

\* A name that no option has is left to the short options.
LEMMA NoName ==
  ASSUME NEW g, NEW i, NEW s, s = Opt!Arg(i), s \in Seq(STRING),
         \A j \in 1..Len(s) : s[j] # "NUL", Len(s) >= 2, s[2] = "-",
         Reads!Matches(SubSeq(s, 3, Len(s))) = {}, how # "getopt_null"
  PROVE  Opt!getopt_match_longopt(g, i).ret = "go on"
  <1>1. Opt!Chr(s, 1) = "-"
    <2>1. 1 \in Nat /\ 1 < Len(s)  OBVIOUS
    <2> QED  BY <2>1, ChrIs
  <1>2. SubSeq(s, 3, Len(s)) \in Seq(STRING) /\ Opt!From(s, 2) = SubSeq(s, 3, Len(s))
    BY DEF Opt!From
  <1>3. Opt!LongMatches(Opt!From(s, 2)) = {}  BY <1>2, MatchesAre
  <1>4. Opt!GoOn.ret = "go on"  BY DEF Opt!GoOn
  <1>5. Opt!getopt_match_longopt(g, i) = Opt!GoOn
    BY <1>1, <1>3 DEF Opt!getopt_match_longopt
  <1> QED  BY <1>4, <1>5

\* There is "=" behind the name of option o, and what follows that.
HasEq(t, o) == Len(t) > Len(o.name) /\ t[Len(o.name) + 1] = "="
BehindEq(t, o) == SubSeq(t, Len(o.name) + 2, Len(t))

\* What a long option gives
Given(g, o, next, v) ==
  [ret |-> Opt!Val(o), g |-> [g EXCEPT !.optind = next, !.optarg = v, !.optopt = Opt!Val(o)]]
Failed(g) == [ret |-> Opt!Complaint, g |-> g]

LEMMA OptionIs ==
  ASSUME NEW g, Settled(g), NEW i, NEW t \in Seq(STRING), NEW k \in 1..Len(LongOpts),
         NEW o, o = LongOpts[k],
         NEW a, a = Opt!LongOption(g, i, t, o)
  PROVE  /\ BehindEq(t, o) \in Seq(STRING)
         /\ ~Reads!Agrees(o) => a = Failed(g) \/ a = Failed([g EXCEPT !.optarg = BehindEq(t, o)])
         /\ Reads!Agrees(o) /\ o.has_arg = "no_argument" => a = Given(g, o, i + 1, g.optarg)
         /\ Reads!Agrees(o) /\ o.has_arg # "no_argument" /\ HasEq(t, o) => a = Given(g, o, i + 1, BehindEq(t, o))
         /\ Reads!Agrees(o) /\ o.has_arg = "optional_argument" /\ ~HasEq(t, o) => a = Given(g, o, i + 1, g.optarg)
         /\ Reads!Agrees(o) /\ o.has_arg = "required_argument" /\ ~HasEq(t, o) /\ i + 1 >= Len(argv) => a = Failed(g)
         /\ Reads!Agrees(o) /\ o.has_arg = "required_argument" /\ ~HasEq(t, o) /\ ~(i + 1 >= Len(argv)) =>
              a = Given(g, o, i + 2, Opt!Arg(i + 1))
  <1>a. HasEq(t, o) <=> (Len(t) > Len(o.name) /\ t[Len(o.name) + 1] = "=")  BY DEF HasEq
  <1>b. Reads!Agrees(o) <=> (o.val \in Alnum => (o.val \in Opt!argmask <=> o.has_arg # "no_argument"))
    BY DEF Reads!Agrees
  <1>c. BehindEq(t, o) = SubSeq(t, Len(o.name) + 2, Len(t))  BY DEF BehindEq
  <1>1. PICK n \in Nat : n = Len(o.name)  BY LongOptIs
  <1>2. o.has_arg \in {"no_argument", "required_argument", "optional_argument"}  BY LongOptIs
  <1>3. Opt!Chr(t, n) = "=" <=> HasEq(t, o)
    <2>1. CASE n < Len(t)
      <3>1. Opt!Chr(t, n) = t[n + 1]  BY <2>1 DEF Opt!Chr
      <3> QED  BY <1>a, <1>1, <2>1, <3>1
    <2>2. CASE ~(n < Len(t))
      <3>1. Opt!Chr(t, n) = "NUL"  BY <2>2 DEF Opt!Chr
      <3> QED  BY <1>a, <1>1, <2>2, <3>1
    <2> QED  BY <2>1, <2>2
  <1>4. BehindEq(t, o) \in Seq(STRING) /\ BehindEq(t, o) = Opt!From(t, n + 1)
    <2>1. n + 1 + 1 = n + 2  OBVIOUS
    <2>2. SubSeq(t, n + 2, Len(t)) \in Seq(STRING)  OBVIOUS
    <2> QED  BY <1>c, <1>1, <2>1, <2>2 DEF Opt!From
  <1>5. CASE o.has_arg = "no_argument"
    <2>1. a = IF o.val \in Alnum /\ o.val \in Opt!argmask THEN Failed(g) ELSE Given(g, o, i + 1, g.optarg)
      BY <1>5 DEF Opt!LongOption, Failed, Given
    <2> QED  BY <1>b, <1>4, <1>5, <2>1
  <1>6. CASE o.has_arg = "required_argument"
    <2>1. a = IF o.val \in Alnum /\ o.val \notin Opt!argmask THEN Failed(g)
              ELSE IF Opt!Chr(t, Len(o.name)) = "="
              THEN Given(g, o, i + 1, Opt!From(t, Len(o.name) + 1))
              ELSE IF i + 1 >= Len(argv) THEN Failed(g) ELSE Given(g, o, i + 2, Opt!Arg(i + 1))
      BY <1>6 DEF Opt!LongOption, Failed, Given, Opt!argc
    <2> QED  BY <1>b, <1>1, <1>3, <1>4, <1>6, <2>1
  <1>7. CASE o.has_arg = "optional_argument"
    <2> DEFINE w == IF Opt!Chr(t, Len(o.name)) = "=" THEN Opt!From(t, Len(o.name) + 1) ELSE g.optarg
    <2>1. a = IF o.val \in Alnum /\ o.val \notin Opt!argmask
              THEN [[ret |-> Opt!Complaint, g |-> g] EXCEPT !.g.optarg = w]
              ELSE Given(g, o, i + 1, w)
      BY <1>7 DEF Opt!LongOption, Given
    <2>2. w = IF HasEq(t, o) THEN BehindEq(t, o) ELSE g.optarg  BY <1>1, <1>3, <1>4
    <2> HIDE DEF w
    <2>3. [[ret |-> Opt!Complaint, g |-> g] EXCEPT !.g.optarg = w] = Failed([g EXCEPT !.optarg = w])
      BY DEF Failed
    <2>4. [g EXCEPT !.optarg = g.optarg] = g  BY DEF Settled, OptRec
    <2> QED  BY <1>b, <1>4, <1>7, <2>1, <2>2, <2>3, <2>4
  <1> QED  BY <1>2, <1>5, <1>6, <1>7

Least(S) == CHOOSE l \in S : \A m \in S : l <= m

LEMMA NameTaken ==
  ASSUME NEW g, NEW i, Opt!Chr(Opt!Arg(i), 1) = "-", how # "getopt_null",
         NEW t, t = Opt!From(Opt!Arg(i), 2), Opt!LongMatches(t) # {}
  PROVE  Opt!getopt_match_longopt(g, i) = Opt!LongOption(g, i, t, LongOpts[Least(Opt!LongMatches(t))])
  BY DEF Opt!getopt_match_longopt, Least

\* Of the names that an argument with two dashes begins with, the first is taken.
LEMMA SomeName ==
  ASSUME NEW g, NEW i, NEW s, s = Opt!Arg(i), s \in Seq(STRING),
         \A j \in 1..Len(s) : s[j] # "NUL", Len(s) >= 2,
         NEW t, t = SubSeq(s, 3, Len(s)), NEW k, Reads!Matches(t) = {k}, s[2] = "-",
         how # "getopt_null"
  PROVE  /\ t \in Seq(STRING) /\ k \in 1..Len(LongOpts)
         /\ Opt!getopt_match_longopt(g, i) = Opt!LongOption(g, i, t, LongOpts[k])
  <1>1. Opt!Chr(s, 1) = "-"
    <2>1. 1 \in Nat /\ 1 < Len(s)  OBVIOUS
    <2> QED  BY <2>1, ChrIs
  <1>2. t \in Seq(STRING) /\ Opt!From(s, 2) = t  BY DEF Opt!From
  <1>3. Opt!LongMatches(t) = {k}  BY <1>2, MatchesAre
  <1>4. k \in 1..Len(LongOpts)  BY DEF Reads!Matches
  <1>5. Least(Opt!LongMatches(t)) = k
    <2>1. \A l \in {k} : (\A m \in {k} : l <= m) <=> k <= k  OBVIOUS
    <2>2. k <= k  BY <1>4
    <2> QED  BY <1>3, <2>1, <2>2 DEF Least
  <1>6. Opt!LongMatches(t) # {}  BY <1>3
  <1>9. Opt!getopt_match_longopt(g, i) = Opt!LongOption(g, i, t, LongOpts[Least(Opt!LongMatches(t))])
    BY <1>1, <1>2, <1>6, NameTaken
  <1> QED  BY <1>2, <1>4, <1>5, <1>9

\* A set of natural numbers has a least one.
LEMMA HasLeast ==
  ASSUME NEW S \in SUBSET Nat, S # {}
  PROVE  \E x \in S : \A y \in S : x <= y
  <1> DEFINE R == OpToRel(<, Nat)
  <1>1. IsWellFoundedOn(R, Nat)  BY NatLessThanWellFounded
  <1>2. \A x, y \in Nat : <<x, y>> \in R <=> x < y  BY DEF OpToRel
  <1> HIDE DEF R
  <1>3. PICK x \in S : \A y \in S : ~(<<y, x>> \in R)  BY <1>1, WFMin
  <1>4. ASSUME NEW y \in S PROVE x <= y
    <2>1. x \in Nat /\ y \in Nat  OBVIOUS
    <2>2. ~(<<y, x>> \in R)  BY <1>3
    <2>3. ~(y < x)  BY <1>2, <2>1, <2>2
    <2> QED  BY <2>1, <2>3
  <1> QED  BY <1>4

\* Whatever the argument, getopt_match_longopt goes on, or it answers for some option,
\* or there is none to look at.
LEMMA AnyName ==
  ASSUME NEW g, NEW i, NEW s, s = Opt!Arg(i), s \in Seq(STRING)
  PROVE  \/ Opt!getopt_match_longopt(g, i) \in {Opt!GoOn, Opt!Undefined(g)}
         \/ \E k \in 1..Len(LongOpts), t \in Seq(STRING) :
               Opt!getopt_match_longopt(g, i) = Opt!LongOption(g, i, t, LongOpts[k])
  <1>1. SUFFICES ASSUME Opt!getopt_match_longopt(g, i) \notin {Opt!GoOn, Opt!Undefined(g)}
                 PROVE  \E k \in 1..Len(LongOpts), t \in Seq(STRING) :
                          Opt!getopt_match_longopt(g, i) = Opt!LongOption(g, i, t, LongOpts[k])
    OBVIOUS
  <1>2. PICK n \in {1, 2} : n = IF Opt!Chr(s, 1) = "-" THEN 2 ELSE 1  OBVIOUS
  <1>3. PICK t : t = Opt!From(s, n)  OBVIOUS
  <1>4. t \in Seq(STRING)  BY <1>2, <1>3 DEF Opt!From
  <1>5. /\ Opt!LongMatches(t) # {}
        /\ Opt!getopt_match_longopt(g, i) = Opt!LongOption(g, i, t, LongOpts[
             CHOOSE l \in Opt!LongMatches(t) : \A m \in Opt!LongMatches(t) : l <= m])
    BY <1>1, <1>2, <1>3 DEF Opt!getopt_match_longopt
  <1>6. PICK k : k = CHOOSE l \in Opt!LongMatches(t) : \A m \in Opt!LongMatches(t) : l <= m  OBVIOUS
  <1>7. k \in 1..Len(LongOpts)
    <2>1. Opt!LongMatches(t) \subseteq Nat  BY DEF Opt!LongMatches
    <2>2. \E l \in Opt!LongMatches(t) : \A m \in Opt!LongMatches(t) : l <= m
      BY <1>5, <2>1, HasLeast
    <2>3. k \in Opt!LongMatches(t)  BY <1>6, <2>2
    <2> QED  BY <2>3 DEF Opt!LongMatches
  <1> QED  BY <1>4, <1>5, <1>6, <1>7

-----------------------------------------------------------------------------
(* A call with an argument left *)

Calls(g, i, s) ==
  /\ OptInv /\ Opt!Next /\ g = Opt!Reset(opt) /\ i = g.optind
  /\ i < Len(argv) /\ s = argv[i + 1]

LEMMA CallFacts ==
  ASSUME NEW g, NEW i, NEW s, Calls(g, i, s)
  PROVE  /\ Settled(g) /\ i \in Nat /\ i >= 1 /\ Len(argv) \in Nat
         /\ s \in Seq(STRING) /\ Len(s) \in Nat /\ \A j \in 1..Len(s) : s[j] # "NUL"
         /\ Opt!Arg(i) = s /\ Reads!Here = s
         /\ Opt!Position = PosOf(g) /\ Opt!Position.arg = i + 1
         /\ Opt!Position.chr \in Nat /\ Opt!Position.chr >= 2
         /\ i + 1 < Len(argv) => Opt!Arg(i + 1) = argv[i + 2] /\ argv[i + 2] \in Seq(STRING)
         /\ Opt!Complaint \in {"?", ":"}
  <1>1. OptInv /\ g = Opt!Reset(opt) /\ i = g.optind /\ i < Len(argv) /\ s = argv[i + 1]
    BY DEF Calls
  <1>2. /\ Settled(g) /\ i \in Nat /\ i >= 1 /\ Len(argv) \in Nat /\ argv \in Seq(Seq(STRING))
        /\ s \in Seq(STRING) /\ Len(s) \in Nat /\ \A j \in 1..Len(s) : s[j] # "NUL"
        /\ Opt!Arg(i) = s /\ Reads!Here = s
    BY <1>1, HereIs
  <1>3. Opt!Position = PosOf(g)  BY <1>1, PositionIs
  <1>4. /\ Opt!Position.arg = i + 1 /\ Opt!Position.chr \in Nat /\ Opt!Position.chr >= 2
    BY <1>1, <1>2, <1>3 DEF PosOf, Settled, OptRec
  <1>5. i + 1 < Len(argv) => Opt!Arg(i + 1) = argv[i + 2] /\ argv[i + 2] \in Seq(STRING)
    <2>1. i + 1 + 1 = i + 2  BY <1>2
    <2> QED  BY <1>2, <2>1 DEF Opt!Arg
  <1>6. Opt!Complaint \in {"?", ":"}  BY DEF Opt!Complaint
  <1> QED  BY <1>2, <1>3, <1>4, <1>5, <1>6

\* What an option returns is not what a call that finds none does.
LEMMA ValIs ==
  ASSUME NEW k \in 1..Len(LongOpts)
  PROVE  /\ Opt!Val(LongOpts[k]) \in STRING \cup {"0"}
         /\ Opt!Val(LongOpts[k]) \notin {"-1", "?", ":", "go on", "undefined"}
         /\ Opt!Val(LongOpts[k]) = Reads!Value(LongOpts[k])
  <1>1. LongOpts[k].flag \in BOOLEAN /\ LongOpts[k].val \in STRING  BY LongOptIs
  <1>2. LongOpts[k].val \notin {"-1", "?", ":", "go on", "undefined"}  BY GetoptAssumption
  <1> QED  BY <1>1, <1>2 DEF Opt!Val, Reads!Value

LEMMA CharIs ==
  ASSUME NEW c \in Opt!optmask
  PROVE  c \in Alnum /\ c \notin {"-1", "?", ":", "-", "go on", "undefined"}
  BY GetoptAssumption DEF Opt!optmask

\* An answer of the right form that moves on from argument i.
Sound(a) == a.g \in OptRec /\ a.g.optind >= 1 /\ a = [ret |-> a.ret, g |-> a.g]

LEMMA GivenSound ==
  ASSUME NEW g \in OptRec, NEW k \in 1..Len(LongOpts), NEW next \in Nat, next >= 1,
         NEW v \in Seq(STRING) \cup {NULL}
  PROVE  /\ Sound(Given(g, LongOpts[k], next, v))
         /\ Given(g, LongOpts[k], next, v).ret = Opt!Val(LongOpts[k])
         /\ Given(g, LongOpts[k], next, v).g.optarg = v
         /\ PosOf(Given(g, LongOpts[k], next, v).g) = Reads!At(next + 1, PosOf(g).chr)
  <1>1. PICK w \in STRING \cup {"0"} : w = Opt!Val(LongOpts[k])  BY ValIs
  <1>2. PICK h : h = [g EXCEPT !.optind = next, !.optarg = v, !.optopt = w]  OBVIOUS
  <1>3. h \in OptRec /\ h.optind = next /\ h.optarg = v /\ h.next = g.next  BY <1>2 DEF OptRec
  <1>4. Given(g, LongOpts[k], next, v) = [ret |-> w, g |-> h]  BY <1>1, <1>2 DEF Given
  <1>5. PICK a : a = [ret |-> w, g |-> h]  OBVIOUS
  <1>6. a.ret = w /\ a.g = h  BY <1>5
  <1>7. Sound(a)  BY <1>3, <1>5, <1>6 DEF Sound
  <1>8. PosOf(h) = Reads!At(next + 1, PosOf(g).chr)  BY <1>3 DEF PosOf, Reads!At
  <1> QED  BY <1>1, <1>3, <1>4, <1>5, <1>6, <1>7, <1>8

LEMMA FailedSound ==
  ASSUME NEW g, Settled(g), NEW v \in Seq(STRING)
  PROVE  /\ Sound(Failed(g)) /\ Failed(g).ret = Opt!Complaint /\ PosOf(Failed(g).g) = PosOf(g)
         /\ Sound(Failed([g EXCEPT !.optarg = v]))
         /\ Failed([g EXCEPT !.optarg = v]).ret = Opt!Complaint
         /\ PosOf(Failed([g EXCEPT !.optarg = v]).g) = PosOf(g)
  <1>1. ASSUME NEW h, Settled(h)
        PROVE  Sound(Failed(h)) /\ Failed(h).ret = Opt!Complaint /\ Failed(h).g = h
    <2>1. PICK a : a = Failed(h)  OBVIOUS
    <2>2. a = [ret |-> Opt!Complaint, g |-> h]  BY <2>1 DEF Failed
    <2>3. a.ret = Opt!Complaint /\ a.g = h  BY <2>2
    <2> QED  BY <1>1, <2>1, <2>2, <2>3 DEF Sound, Settled
  <1>2. PICK h : h = [g EXCEPT !.optarg = v]  OBVIOUS
  <1>3. Settled(h) /\ PosOf(h) = PosOf(g)  BY <1>2 DEF Settled, OptRec, PosOf
  <1> QED  BY <1>1, <1>2, <1>3

\* Every answer is sound, whichever option it is for.
LEMMA LongSound ==
  ASSUME NEW g, NEW i, NEW s, Calls(g, i, s), NEW t \in Seq(STRING), NEW k \in 1..Len(LongOpts)
  PROVE  Sound(Opt!LongOption(g, i, t, LongOpts[k]))
  <1>1. PICK o : o = LongOpts[k]  OBVIOUS
  <1>5. PICK a : a = Opt!LongOption(g, i, t, o)  OBVIOUS
  <1>6. /\ Settled(g) /\ i \in Nat /\ Len(argv) \in Nat
        /\ i + 1 < Len(argv) => Opt!Arg(i + 1) \in Seq(STRING)
    BY CallFacts
  <1>8. /\ BehindEq(t, o) \in Seq(STRING)
        /\ ~Reads!Agrees(o) => a = Failed(g) \/ a = Failed([g EXCEPT !.optarg = BehindEq(t, o)])
        /\ Reads!Agrees(o) /\ o.has_arg = "no_argument" => a = Given(g, o, i + 1, g.optarg)
        /\ Reads!Agrees(o) /\ o.has_arg # "no_argument" /\ HasEq(t, o) => a = Given(g, o, i + 1, BehindEq(t, o))
        /\ Reads!Agrees(o) /\ o.has_arg = "optional_argument" /\ ~HasEq(t, o) => a = Given(g, o, i + 1, g.optarg)
        /\ Reads!Agrees(o) /\ o.has_arg = "required_argument" /\ ~HasEq(t, o) /\ i + 1 >= Len(argv) => a = Failed(g)
        /\ Reads!Agrees(o) /\ o.has_arg = "required_argument" /\ ~HasEq(t, o) /\ ~(i + 1 >= Len(argv)) =>
             a = Given(g, o, i + 2, Opt!Arg(i + 1))
    BY <1>1, <1>5, <1>6, OptionIs
  <1>9. o.has_arg \in {"no_argument", "required_argument", "optional_argument"}  BY <1>1, LongOptIs
  <1>10. g \in OptRec /\ g.optarg \in Seq(STRING) \cup {NULL}  BY <1>6 DEF Settled, OptRec
  <1>11. Sound(Failed(g)) /\ Sound(Failed([g EXCEPT !.optarg = BehindEq(t, o)]))  BY <1>6, <1>8, FailedSound
  <1>12. Sound(Given(g, o, i + 1, g.optarg)) /\ Sound(Given(g, o, i + 1, BehindEq(t, o)))
    <2>1. i + 1 \in Nat /\ i + 1 >= 1  BY <1>6
    <2> QED  BY <1>1, <1>8, <1>10, <2>1, GivenSound
  <1>13. i + 1 < Len(argv) => Sound(Given(g, o, i + 2, Opt!Arg(i + 1)))
    <2>1. i + 2 \in Nat /\ i + 2 >= 1  BY <1>6
    <2> QED  BY <1>1, <1>6, <1>10, <2>1, GivenSound
  <1>14. i + 1 < Len(argv) <=> ~(i + 1 >= Len(argv))  BY <1>6
  <1>15. Sound(a)  BY <1>8, <1>9, <1>11, <1>12, <1>13, <1>14
  <1> QED  BY <1>1, <1>5, <1>15

\* What ShortOption leaves, with optind and optarg
Left(g, s, next, v, m) ==
  [[g EXCEPT !.next = Index(g, s), !.optopt = s[Index(g, s) + 1]]
      EXCEPT !.optarg = v, !.optind = next, !.next = m]

After(m) == IF m < 1 THEN 2 ELSE m + 1
PosAt(next, m) == [arg |-> next + 1, chr |-> After(m)]

LEMMA LeftIs ==
  ASSUME NEW g \in OptRec, NEW s \in Seq(STRING), Len(s) >= 2, NEW next \in Nat, next >= 1,
         NEW v \in Seq(STRING) \cup {NULL}, NEW m \in Nat
  PROVE  /\ Left(g, s, next, v, m) \in OptRec /\ Left(g, s, next, v, m).optind = next
         /\ Left(g, s, next, v, m).optarg = v
         /\ PosOf(Left(g, s, next, v, m)) = PosAt(next, m)
  <1>1. PICK n : n = Index(g, s)  OBVIOUS
  <1>2. n \in Nat /\ n < Len(s)  BY <1>1 DEF Index, OptRec
  <1>3. PICK c : c = s[n + 1]  OBVIOUS
  <1>4. c \in STRING  BY <1>2, <1>3
  <1>5. PICK h : h = Left(g, s, next, v, m)  OBVIOUS
  <1>6. h = [[g EXCEPT !.next = n, !.optopt = c] EXCEPT !.optarg = v, !.optind = next, !.next = m]
    BY <1>1, <1>3, <1>5 DEF Left
  <1>7. h \in OptRec /\ h.optind = next /\ h.optarg = v /\ h.next = m
    BY <1>2, <1>4, <1>6 DEF OptRec
  <1>8. PosOf(h) = PosAt(next, m)  BY <1>7 DEF PosOf, PosAt, After
  <1> QED  BY <1>5, <1>7, <1>8

LEMMA LeftSound ==
  ASSUME NEW g \in OptRec, NEW s \in Seq(STRING), Len(s) >= 2, NEW next \in Nat, next >= 1,
         NEW v \in Seq(STRING) \cup {NULL}, NEW m \in Nat, NEW r
  PROVE  Sound([ret |-> r, g |-> Left(g, s, next, v, m)])
  <1>1. PICK h : h = Left(g, s, next, v, m)  OBVIOUS
  <1>2. h \in OptRec /\ h.optind = next
    <2>1. Left(g, s, next, v, m) \in OptRec /\ Left(g, s, next, v, m).optind = next  BY LeftIs
    <2> QED  BY <1>1, <2>1
  <1>3. PICK a : a = [ret |-> r, g |-> h]  OBVIOUS
  <1>4. a.ret = r /\ a.g = h  BY <1>3
  <1>5. Sound(a)  BY <1>2, <1>3, <1>4 DEF Sound
  <1> QED  BY <1>1, <1>3, <1>5

LEMMA ShortGives ==
  ASSUME NEW g, NEW i, NEW s, Calls(g, i, s), Len(s) >= 2, NEW n, n = Index(g, s),
         NEW c, c = s[n + 1], NEW a, a = Opt!ShortOption(g, i)
  PROVE  /\ n \in Nat /\ n >= 1 /\ n < Len(s) /\ c \in STRING
         /\ c \notin Opt!optmask => a = [ret |-> "?", g |-> Left(g, s, i, g.optarg, n)]
         /\ c \in Opt!argmask /\ n + 1 < Len(s) =>
               a = [ret |-> c, g |-> Left(g, s, i + 1, SubSeq(s, n + 2, Len(s)), n)]
         /\ c \in Opt!argmask /\ n + 1 = Len(s) /\ i + 1 < Len(argv) =>
               a = [ret |-> c, g |-> Left(g, s, i + 2, argv[i + 2], n)]
         /\ c \in Opt!argmask /\ n + 1 = Len(s) /\ ~(i + 1 < Len(argv)) =>
               a = [ret |-> Opt!Complaint, g |-> Left(g, s, i, g.optarg, n)]
         /\ c \in Opt!optmask \ Opt!argmask =>
               a = [ret |-> c, g |-> Left(g, s, IF n + 1 = Len(s) THEN i + 1 ELSE i, NULL,
                                         IF n + 1 = Len(s) THEN 0 ELSE n + 1)]
  <1>1. /\ Settled(g) /\ i = g.optind /\ s \in Seq(STRING) /\ s = Opt!Arg(i)
        /\ \A j \in 1..Len(s) : s[j] # "NUL"
        /\ i + 1 < Len(argv) => Opt!Arg(i + 1) = argv[i + 2]
    BY CallFacts DEF Calls
  <1>2. n \in Nat /\ n >= 1 /\ n < Len(s)  BY <1>1 DEF Index, Settled, OptRec
  <1>3. c \in STRING  BY <1>1, <1>2
  <1>4. c \in Opt!argmask => c \in Opt!optmask  BY DEF Opt!argmask
  <1>5. PICK h : h = Base(g, n, c)  OBVIOUS
  <1>6. /\ h \in [optind : Nat, prev : Nat, next : Nat, optarg : Seq(STRING) \cup {NULL},
                  optopt : STRING \cup {NULL, "0"}]
        /\ h.next = n /\ h.optarg = g.optarg
    BY <1>1, <1>2, <1>3, <1>5 DEF Settled, OptRec, Base
  <1>7. ASSUME NEW next, NEW v, NEW m
        PROVE  Left(g, s, next, v, m) = [h EXCEPT !.optarg = v, !.optind = next, !.next = m]
    BY <1>5 DEF Left, Base
  <1>8. ASSUME NEW next, NEW v
        PROVE  /\ [h EXCEPT !.optarg = v, !.optind = next] = Left(g, s, next, v, n)
               /\ [h EXCEPT !.optind = next] = Left(g, s, next, g.optarg, n)
    <2>1. /\ [h EXCEPT !.optarg = v, !.optind = next, !.next = n] = [h EXCEPT !.optarg = v, !.optind = next]
          /\ [h EXCEPT !.optarg = g.optarg, !.optind = next, !.next = n] = [h EXCEPT !.optind = next]
      BY <1>6
    <2>2. /\ Left(g, s, next, v, n) = [h EXCEPT !.optarg = v, !.optind = next, !.next = n]
          /\ Left(g, s, next, g.optarg, n) = [h EXCEPT !.optarg = g.optarg, !.optind = next, !.next = n]
      BY <1>7
    <2> QED  BY <2>1, <2>2
  <1>9. /\ [h EXCEPT !.optind = i] = Left(g, s, i, g.optarg, n)
        /\ [h EXCEPT !.optarg = SubSeq(s, n + 2, Len(s)), !.optind = i + 1] =
              Left(g, s, i + 1, SubSeq(s, n + 2, Len(s)), n)
        /\ [h EXCEPT !.optarg = Opt!Arg(i + 1), !.optind = i + 2] = Left(g, s, i + 2, Opt!Arg(i + 1), n)
        /\ [h EXCEPT !.optarg = NULL, !.optind = IF n + 1 = Len(s) THEN i + 1 ELSE i,
                     !.next = IF n + 1 = Len(s) THEN 0 ELSE n + 1] =
              Left(g, s, IF n + 1 = Len(s) THEN i + 1 ELSE i, NULL, IF n + 1 = Len(s) THEN 0 ELSE n + 1)
    <2>1. [h EXCEPT !.optind = i] = Left(g, s, i, g.optarg, n)  BY <1>8
    <2>2. [h EXCEPT !.optarg = SubSeq(s, n + 2, Len(s)), !.optind = i + 1] =
              Left(g, s, i + 1, SubSeq(s, n + 2, Len(s)), n)
      BY <1>8
    <2>3. [h EXCEPT !.optarg = Opt!Arg(i + 1), !.optind = i + 2] = Left(g, s, i + 2, Opt!Arg(i + 1), n)
      BY <1>8
    <2>4. PICK next, m : next = (IF n + 1 = Len(s) THEN i + 1 ELSE i) /\ m = IF n + 1 = Len(s) THEN 0 ELSE n + 1
      OBVIOUS
    <2>5. Left(g, s, next, NULL, m) = [h EXCEPT !.optarg = NULL, !.optind = next, !.next = m]  BY <1>7
    <2> QED  BY <2>1, <2>2, <2>3, <2>4, <2>5
  <1>11. Opt!Chr(s, n) = c  BY <1>1, <1>2, ChrIs
  <1>12. Opt!Chr(s, n + 1) = "NUL" <=> n + 1 = Len(s)
    <2>1. n + 1 \in Nat  BY <1>2
    <2>2. Opt!Chr(s, n + 1) = "NUL" <=> n + 1 >= Len(s)  BY <1>1, <2>1, ChrIs
    <2> QED  BY <1>1, <1>2, <2>2
  <1>13. Opt!From(s, n + 1) = SubSeq(s, n + 2, Len(s))
    <2>1. n + 1 + 1 = n + 2  BY <1>2
    <2> QED  BY <2>1 DEF Opt!From
  <1>14. n + 1 < Len(s) <=> ~(n + 1 = Len(s))  BY <1>1, <1>2
  <1>15. a = IF c \notin Opt!optmask THEN [ret |-> "?", g |-> [h EXCEPT !.optind = i]]
            ELSE IF c \in Opt!argmask THEN
              IF ~(n + 1 = Len(s))
              THEN [ret |-> c, g |-> [h EXCEPT !.optarg = SubSeq(s, n + 2, Len(s)), !.optind = i + 1]]
              ELSE IF i + 1 < Len(argv)
              THEN [ret |-> c, g |-> [h EXCEPT !.optarg = Opt!Arg(i + 1), !.optind = i + 2]]
              ELSE [ret |-> Opt!Complaint, g |-> [h EXCEPT !.optind = i]]
            ELSE [ret |-> c, g |-> [h EXCEPT !.optarg = NULL,
                                            !.optind = IF n + 1 = Len(s) THEN i + 1 ELSE i,
                                            !.next = IF n + 1 = Len(s) THEN 0 ELSE n + 1]]
    <2> DEFINE m == IF g.next < 1 \/ g.next >= Len(Opt!Arg(i)) THEN 1 ELSE g.next
    <2>1. m = n  BY <1>1 DEF Index
    <2> HIDE DEF m
    <2>2. Opt!ShortOption(g, i) =
            LET k == [g EXCEPT !.next = m, !.optopt = Opt!Chr(Opt!Arg(i), m)]
                last == Opt!Chr(Opt!Arg(i), m + 1) = "NUL"
                d == Opt!Chr(Opt!Arg(i), m)
            IN  IF d \notin Opt!optmask THEN [ret |-> "?", g |-> [k EXCEPT !.optind = i]]
                ELSE IF d \in Opt!argmask THEN
                  IF ~last
                  THEN [ret |-> d, g |-> [k EXCEPT !.optarg = Opt!From(Opt!Arg(i), m + 1), !.optind = i + 1]]
                  ELSE IF i + 1 < Len(argv)
                  THEN [ret |-> d, g |-> [k EXCEPT !.optarg = Opt!Arg(i + 1), !.optind = i + 2]]
                  ELSE [ret |-> Opt!Complaint, g |-> [k EXCEPT !.optind = i]]
                ELSE [ret |-> d, g |-> [k EXCEPT !.optarg = NULL, !.optind = IF last THEN i + 1 ELSE i,
                                                !.next = IF last THEN 0 ELSE m + 1]]
      BY DEF Opt!ShortOption, Opt!argc, Opt!NextChar, m
    <2>3. h = [g EXCEPT !.next = n, !.optopt = c]  BY <1>5 DEF Base
    <2> QED  BY <1>1, <1>11, <1>12, <1>13, <2>1, <2>2, <2>3
  <1>16. /\ c \notin Opt!optmask => a = [ret |-> "?", g |-> [h EXCEPT !.optind = i]]
         /\ c \in Opt!optmask /\ c \in Opt!argmask /\ n + 1 < Len(s) =>
               a = [ret |-> c, g |-> [h EXCEPT !.optarg = SubSeq(s, n + 2, Len(s)), !.optind = i + 1]]
         /\ c \in Opt!optmask /\ c \in Opt!argmask /\ n + 1 = Len(s) /\ i + 1 < Len(argv) =>
               a = [ret |-> c, g |-> [h EXCEPT !.optarg = Opt!Arg(i + 1), !.optind = i + 2]]
         /\ c \in Opt!optmask /\ c \in Opt!argmask /\ n + 1 = Len(s) /\ ~(i + 1 < Len(argv)) =>
               a = [ret |-> Opt!Complaint, g |-> [h EXCEPT !.optind = i]]
         /\ c \in Opt!optmask /\ c \notin Opt!argmask =>
               a = [ret |-> c, g |-> [h EXCEPT !.optarg = NULL,
                      !.optind = IF n + 1 = Len(s) THEN i + 1 ELSE i,
                      !.next = IF n + 1 = Len(s) THEN 0 ELSE n + 1]]
    BY <1>14, <1>15, Zenon
  <1> QED  BY <1>1, <1>2, <1>3, <1>4, <1>9, <1>16

-----------------------------------------------------------------------------
(* What a call answers *)

\* An argument that is no option; "--" is passed over.
NoOption(s) == Len(s) < 2 \/ s[1] # "-" \/ s = <<"-", "-">>

LEMMA StopAnswer ==
  ASSUME NEW g, NEW i, NEW s, Calls(g, i, s), NoOption(s)
  PROVE  /\ Answer(g, i).ret = "-1" /\ Sound(Answer(g, i))
         /\ PosOf(Answer(g, i).g) =
              IF s = <<"-", "-">> THEN [PosOf(g) EXCEPT !.arg = @ + 1] ELSE PosOf(g)
  <1>1. /\ Settled(g) /\ i = g.optind /\ i \in Nat /\ i >= 1 /\ s \in Seq(STRING) /\ s = Opt!Arg(i)
        /\ Len(s) \in Nat /\ \A j \in 1..Len(s) : s[j] # "NUL"
    BY CallFacts DEF Calls
  <1>2. Opt!Chr(s, 0) # "-" \/ Len(s) = 1 <=> Len(s) < 2 \/ s[1] # "-"
    <2>1. CASE Len(s) = 0
      <3>1. Opt!Chr(s, 0) = "NUL"  BY <2>1 DEF Opt!Chr
      <3> QED  BY <2>1, <3>1
    <2>2. CASE Len(s) > 0
      <3>1. Opt!Chr(s, 0) = s[1]  BY <1>1, <2>2 DEF Opt!Chr
      <3>2. PICK n \in Nat : n = Len(s)  BY <1>1
      <3>3. n = 1 <=> n < 2  BY <2>2, <3>2
      <3> QED  BY <3>1, <3>2, <3>3, Zenon
    <2> QED  BY <1>1, <2>1, <2>2
  <1>3. CASE Len(s) < 2 \/ s[1] # "-"
    <2>1. Answer(g, i) = [ret |-> "-1", g |-> g]  BY <1>1, <1>2, <1>3 DEF Answer
    <2>2. s # <<"-", "-">>  BY <1>3
    <2>3. PICK a : a = Answer(g, i)  OBVIOUS
    <2>4. a.ret = "-1" /\ a.g = g  BY <2>1, <2>3
    <2>5. Sound(a)  BY <1>1, <2>1, <2>3, <2>4 DEF Sound, Settled
    <2> QED  BY <2>2, <2>3, <2>4, <2>5
  <1>4. CASE ~(Len(s) < 2 \/ s[1] # "-")
    <2>1. s = <<"-", "-">>  BY <1>4 DEF NoOption
    <2>2. PICK h : h = [g EXCEPT !.optind = i + 1]  OBVIOUS
    <2>3. Answer(g, i) = [ret |-> "-1", g |-> h]
      <3>1. ~(Opt!Chr(Opt!Arg(i), 0) # "-" \/ Len(Opt!Arg(i)) = 1) /\ Opt!Arg(i) = <<"-", "-">>
        BY <1>1, <1>2, <1>4, <2>1
      <3> QED  BY <2>2, <3>1 DEF Answer
    <2>4. h \in OptRec /\ h.optind = i + 1 /\ h.optind >= 1 /\ h.next = g.next
      BY <1>1, <2>2 DEF Settled, OptRec
    <2>5. PosOf(h) = [PosOf(g) EXCEPT !.arg = @ + 1]  BY <1>1, <2>4 DEF PosOf
    <2>6. PICK a : a = Answer(g, i)  OBVIOUS
    <2>7. a.ret = "-1" /\ a.g = h  BY <2>3, <2>6
    <2>8. Sound(a)  BY <2>3, <2>4, <2>6, <2>7 DEF Sound
    <2> QED  BY <2>1, <2>5, <2>6, <2>7, <2>8
  <1> QED  BY <1>3, <1>4

\* An argument that is one
LEMMA OptionAnswer ==
  ASSUME NEW g, NEW i, NEW s, Calls(g, i, s), ~NoOption(s)
  PROVE  /\ Len(s) >= 2
         /\ Answer(g, i) = IF how # "getopt" /\ Opt!getopt_match_longopt(g, i).ret # "go on"
                           THEN Opt!getopt_match_longopt(g, i) ELSE Opt!ShortOption(g, i)
  <1>1. s \in Seq(STRING) /\ s = Opt!Arg(i) /\ Len(s) \in Nat  BY CallFacts
  <1>2. ~(Len(s) < 2) /\ s[1] = "-" /\ s # <<"-", "-">>  BY DEF NoOption
  <1>3. Len(s) >= 2  BY <1>1, <1>2
  <1>4. Opt!Chr(s, 0) = s[1] /\ Len(s) # 1
    <2>1. PICK n \in Nat : n = Len(s)  BY <1>1
    <2>2. 0 < n /\ 0 + 1 = 1 /\ n # 1  BY <1>3, <2>1
    <2> QED  BY <2>1, <2>2 DEF Opt!Chr
  <1> QED  BY <1>1, <1>2, <1>3, <1>4 DEF Answer

LEMMA ShortSound ==
  ASSUME NEW g, NEW i, NEW s, Calls(g, i, s), Len(s) >= 2
  PROVE  Sound(Opt!ShortOption(g, i))
  <1>1. PICK n : n = Index(g, s)  OBVIOUS
  <1>2. PICK c : c = s[n + 1]  OBVIOUS
  <1>3. PICK a : a = Opt!ShortOption(g, i)  OBVIOUS
  <1>4. /\ n \in Nat /\ n >= 1 /\ n < Len(s) /\ c \in STRING
        /\ c \notin Opt!optmask => a = [ret |-> "?", g |-> Left(g, s, i, g.optarg, n)]
        /\ c \in Opt!argmask /\ n + 1 < Len(s) =>
              a = [ret |-> c, g |-> Left(g, s, i + 1, SubSeq(s, n + 2, Len(s)), n)]
        /\ c \in Opt!argmask /\ n + 1 = Len(s) /\ i + 1 < Len(argv) =>
              a = [ret |-> c, g |-> Left(g, s, i + 2, argv[i + 2], n)]
        /\ c \in Opt!argmask /\ n + 1 = Len(s) /\ ~(i + 1 < Len(argv)) =>
              a = [ret |-> Opt!Complaint, g |-> Left(g, s, i, g.optarg, n)]
        /\ c \in Opt!optmask \ Opt!argmask =>
              a = [ret |-> c, g |-> Left(g, s, IF n + 1 = Len(s) THEN i + 1 ELSE i, NULL,
                                        IF n + 1 = Len(s) THEN 0 ELSE n + 1)]
    BY <1>1, <1>2, <1>3, ShortGives
  <1>5. /\ g \in OptRec /\ g.optarg \in Seq(STRING) \cup {NULL} /\ s \in Seq(STRING) /\ Len(s) \in Nat
        /\ i \in Nat /\ i >= 1 /\ i + 1 \in Nat /\ i + 1 >= 1 /\ i + 2 \in Nat /\ i + 2 >= 1
        /\ i + 1 < Len(argv) => argv[i + 2] \in Seq(STRING)
    BY CallFacts DEF Settled, OptRec
  <1>7. \A r : Sound([ret |-> r, g |-> Left(g, s, i, g.optarg, n)])  BY <1>4, <1>5, LeftSound
  <1>8. \A r : Sound([ret |-> r, g |-> Left(g, s, i + 1, SubSeq(s, n + 2, Len(s)), n)])
    <2>1. SubSeq(s, n + 2, Len(s)) \in Seq(STRING)  BY <1>4, <1>5
    <2> QED  BY <1>4, <1>5, <2>1, LeftSound
  <1>9. i + 1 < Len(argv) => \A r : Sound([ret |-> r, g |-> Left(g, s, i + 2, argv[i + 2], n)])
    BY <1>4, <1>5, LeftSound
  <1>10. \A r : Sound([ret |-> r, g |-> Left(g, s, IF n + 1 = Len(s) THEN i + 1 ELSE i, NULL,
                                            IF n + 1 = Len(s) THEN 0 ELSE n + 1)])
    <2>1. PICK next, m : next = (IF n + 1 = Len(s) THEN i + 1 ELSE i) /\ m = IF n + 1 = Len(s) THEN 0 ELSE n + 1
      OBVIOUS
    <2>2. next \in Nat /\ next >= 1 /\ m \in Nat  BY <1>4, <1>5, <2>1
    <2>3. \A r : Sound([ret |-> r, g |-> Left(g, s, next, NULL, m)])  BY <1>5, <2>2, LeftSound
    <2> QED  BY <2>1, <2>3
  <1>11. n + 1 < Len(s) \/ n + 1 = Len(s)  BY <1>4, <1>5
  <1>12. c \in Opt!argmask => c \in Opt!optmask  BY DEF Opt!argmask
  <1>13. Sound(a)  BY <1>4, <1>7, <1>8, <1>9, <1>10, <1>11, <1>12
  <1> QED  BY <1>3, <1>13

LEMMA AnswerSound ==
  ASSUME NEW g, NEW i, NEW s, Calls(g, i, s)
  PROVE  Sound(Answer(g, i))
  <1>1. CASE NoOption(s)  BY <1>1, StopAnswer
  <1>2. CASE ~NoOption(s)
    <2>1. s = Opt!Arg(i) /\ s \in Seq(STRING)  BY CallFacts
    <2>2. Len(s) >= 2 /\ Answer(g, i) = IF how # "getopt" /\ Opt!getopt_match_longopt(g, i).ret # "go on"
                                       THEN Opt!getopt_match_longopt(g, i) ELSE Opt!ShortOption(g, i)
      BY <1>2, OptionAnswer
    <2>3. Sound(Opt!ShortOption(g, i))  BY <2>2, ShortSound
    <2>4. CASE Opt!getopt_match_longopt(g, i) = Opt!GoOn
      <3>1. Opt!GoOn.ret = "go on"  BY DEF Opt!GoOn
      <3> QED  BY <2>2, <2>3, <2>4, <3>1
    <2>6. CASE Opt!getopt_match_longopt(g, i) = Opt!Undefined(g)
      <3>1. PICK a : a = Opt!Undefined(g)  OBVIOUS
      <3>2. a = [ret |-> "undefined", g |-> g]  BY <3>1 DEF Opt!Undefined
      <3>3. a.ret = "undefined" /\ a.g = g  BY <3>2
      <3>4. Settled(g)  BY CallFacts
      <3>5. Sound(a)  BY <3>2, <3>3, <3>4 DEF Sound, Settled
      <3> QED  BY <2>2, <2>3, <2>6, <3>1, <3>5
    <2>5. CASE \E k \in 1..Len(LongOpts), t \in Seq(STRING) :
                 Opt!getopt_match_longopt(g, i) = Opt!LongOption(g, i, t, LongOpts[k])
      <3>1. Sound(Opt!getopt_match_longopt(g, i))  BY <2>5, LongSound
      <3> QED  BY <2>2, <2>3, <3>1
    <2> QED  BY <2>1, <2>4, <2>5, <2>6, AnyName
  <1> QED  BY <1>1, <1>2

-----------------------------------------------------------------------------
(* Every call is a step of the reader *)

\* What a call does to the reader's state
LEMMA CallReads ==
  ASSUME NEW g, NEW i, NEW s, Calls(g, i, s), NEW a, a = Answer(g, i)
  PROVE  /\ result' = a.ret
         /\ a.ret \in {"-1", "?", ":", "undefined"} => seen' = seen
         /\ a.ret \notin {"-1", "?", ":", "undefined"} =>
              seen' = Append(seen, <<a.ret, IF Reads!Takes(a.ret) THEN a.g.optarg ELSE NULL>>)
         /\ Settled(opt') /\ Opt!Position' = PosOf(a.g)
         /\ result \notin {"-1", "?", ":", "undefined"} /\ UNCHANGED <<argv, how>>
  <1>1. a.g \in OptRec /\ a.g.optind >= 1 /\ a = [ret |-> a.ret, g |-> a.g]
    BY AnswerSound DEF Sound
  <1>2. OptInv /\ Opt!Next /\ g = Opt!Reset(opt) /\ i = g.optind /\ i < Len(argv)  BY DEF Calls
  <1>3. PICK r : r = a.ret  OBVIOUS
  <1>4. a = [ret |-> r, g |-> a.g]  BY <1>1, <1>3
  <1>5. /\ result' = r
        /\ seen' = IF r \in {"-1", "?", ":", "undefined"} THEN seen
                   ELSE Append(seen, <<r, IF Reads!Takes(r) THEN a.g.optarg ELSE NULL>>)
        /\ Settled(opt') /\ Opt!Position' = PosOf(a.g)
        /\ result \notin {"-1", "?", ":", "undefined"} /\ UNCHANGED <<argv, how>>
    BY <1>1, <1>2, <1>4, StepIs
  <1> QED  BY <1>3, <1>5

LEMMA EndIs ==
  ASSUME NEW g, NEW i, NEW s, Calls(g, i, s)
  PROVE  Reads!AtEnd <=> NoOption(s)
  <1>1. Reads!Here = s /\ Opt!Position.arg = i + 1 /\ i \in Nat /\ Len(argv) \in Nat  BY CallFacts
  <1>2. ~(Opt!Position.arg > Len(argv))  BY <1>1 DEF Calls
  <1> QED  BY <1>1, <1>2 DEF Reads!AtEnd, NoOption

LEMMA StopReads ==
  ASSUME NEW g, NEW i, NEW s, Calls(g, i, s), NoOption(s)
  PROVE  Reads!Stop
  <1>1. Reads!AtEnd  BY EndIs
  <1>2. PICK a : a = Answer(g, i)  OBVIOUS
  <1>3. /\ a.ret = "-1"
        /\ PosOf(a.g) = IF s = <<"-", "-">> THEN [PosOf(g) EXCEPT !.arg = @ + 1] ELSE PosOf(g)
    BY <1>2, StopAnswer
  <1>4. result' = a.ret /\ seen' = seen /\ Opt!Position' = PosOf(a.g)  BY <1>2, <1>3, CallReads
  <1>5. /\ Reads!Here = s /\ Opt!Position.arg = i + 1 /\ i \in Nat /\ Len(argv) \in Nat
        /\ Opt!Position = PosOf(g)
    BY CallFacts
  <1>6. Opt!Position.arg <= Len(argv)  BY <1>5 DEF Calls
  <1>7. Opt!Position' = IF Opt!Position.arg <= Len(argv) /\ Reads!Here = <<"-", "-">>
                        THEN [Opt!Position EXCEPT !.arg = @ + 1] ELSE Opt!Position
    BY <1>3, <1>4, <1>5, <1>6
  <1> QED  BY <1>1, <1>3, <1>4, <1>7 DEF Reads!Stop

\* The options that are read one character at a time
LEMMA ShortReads ==
  ASSUME NEW g, NEW i, NEW s, Calls(g, i, s), ~NoOption(s), ~Reads!InDoubt,
         Reads!IsLong => Reads!Matches(Reads!Text) = {}
  PROVE  Reads!Short
  <1>1. /\ Settled(g) /\ g \in OptRec /\ i \in Nat /\ i >= 1 /\ i = g.optind /\ Len(argv) \in Nat
        /\ s \in Seq(STRING) /\ Len(s) \in Nat /\ \A j \in 1..Len(s) : s[j] # "NUL"
        /\ Opt!Arg(i) = s /\ Reads!Here = s /\ i < Len(argv)
        /\ Opt!Position = PosOf(g) /\ Opt!Position.arg = i + 1
        /\ Opt!Position.chr \in Nat /\ Opt!Position.chr >= 2
        /\ i + 1 < Len(argv) => argv[i + 2] \in Seq(STRING)
        /\ Opt!Complaint \in {"?", ":"}
        /\ g.optarg \in Seq(STRING) \cup {NULL}
    BY CallFacts DEF Calls, Settled, OptRec
  <1>3. /\ Len(s) >= 2
        /\ Answer(g, i) = IF how # "getopt" /\ Opt!getopt_match_longopt(g, i).ret # "go on"
                          THEN Opt!getopt_match_longopt(g, i) ELSE Opt!ShortOption(g, i)
    BY OptionAnswer
  <1>4. Answer(g, i) = Opt!ShortOption(g, i)
    <2>1. CASE how = "getopt"  BY <1>3, <2>1
    <2>2. CASE how # "getopt"
      <3>1. CASE s[2] # "-"
        <4>1. how = "getopt_long_only" => Reads!Matches(SubSeq(s, 2, Len(s))) = {}
          BY <1>1, <3>1 DEF Reads!InDoubt, Reads!IsLong
        <4>2. Opt!getopt_match_longopt(g, i).ret = "go on"  BY <1>1, <1>3, <3>1, <4>1, OneDash
        <4> QED  BY <1>3, <4>2
      <3>2. CASE s[2] = "-"
        <4>1. how # "getopt_null"  BY <1>1, <3>2 DEF Reads!InDoubt
        <4>2. how \in {"getopt_long", "getopt_long_only"}
          BY <2>2, <4>1 DEF Calls, OptInv, Opt!Functions
        <4>3. Reads!Matches(SubSeq(s, 3, Len(s))) = {}
          BY <1>1, <3>2, <4>2 DEF Reads!IsLong, Reads!Text
        <4>4. Opt!getopt_match_longopt(g, i).ret = "go on"
          BY <1>1, <1>3, <3>2, <4>1, <4>3, NoName
        <4> QED  BY <1>3, <4>4
      <3> QED  BY <3>1, <3>2
    <2> QED  BY <2>1, <2>2
  <1>5. PICK n : n = Index(g, s)  OBVIOUS
  <1>6. n \in Nat /\ n >= 1 /\ Reads!Char = n + 1
    <2>1. g.next \in Nat  BY <1>1 DEF OptRec
    <2>2. Opt!Position.chr = IF g.next < 1 THEN 2 ELSE g.next + 1  BY <1>1 DEF PosOf
    <2>3. Reads!Char = IF Opt!Position.chr > Len(s) THEN 2 ELSE Opt!Position.chr
      BY <1>1 DEF Reads!Char, Reads!First
    <2>4. CASE g.next < 1 \/ g.next >= Len(s)
      <3>1. n = 1  BY <1>5, <2>4 DEF Index
      <3>2. Reads!Char = 2  BY <1>1, <2>1, <2>2, <2>3, <2>4
      <3> QED  BY <3>1, <3>2
    <2>5. CASE ~(g.next < 1 \/ g.next >= Len(s))
      <3>1. n = g.next  BY <1>5, <2>5 DEF Index
      <3> QED  BY <1>1, <2>1, <2>2, <2>3, <2>5, <3>1
    <2> QED  BY <2>4, <2>5
  <1>7. PICK c : c = s[n + 1]  OBVIOUS
  <1>8. PICK a : a = Answer(g, i)  OBVIOUS
  <1>9. /\ n < Len(s)
        /\ c \notin Opt!optmask => a = [ret |-> "?", g |-> Left(g, s, i, g.optarg, n)]
        /\ c \in Opt!argmask /\ n + 1 < Len(s) =>
              a = [ret |-> c, g |-> Left(g, s, i + 1, SubSeq(s, n + 2, Len(s)), n)]
        /\ c \in Opt!argmask /\ n + 1 = Len(s) /\ i + 1 < Len(argv) =>
              a = [ret |-> c, g |-> Left(g, s, i + 2, argv[i + 2], n)]
        /\ c \in Opt!argmask /\ n + 1 = Len(s) /\ ~(i + 1 < Len(argv)) =>
              a = [ret |-> Opt!Complaint, g |-> Left(g, s, i, g.optarg, n)]
        /\ c \in Opt!optmask \ Opt!argmask =>
              a = [ret |-> c, g |-> Left(g, s, IF n + 1 = Len(s) THEN i + 1 ELSE i, NULL,
                                        IF n + 1 = Len(s) THEN 0 ELSE n + 1)]
    <2>1. Len(s) >= 2 /\ a = Opt!ShortOption(g, i)  BY <1>3, <1>4, <1>8
    <2> QED  BY <1>5, <1>7, <2>1, ShortGives
  <1>10. /\ result' = a.ret
         /\ a.ret \in {"-1", "?", ":", "undefined"} => seen' = seen
         /\ a.ret \notin {"-1", "?", ":", "undefined"} =>
              seen' = Append(seen, <<a.ret, IF Reads!Takes(a.ret) THEN a.g.optarg ELSE NULL>>)
         /\ Opt!Position' = PosOf(a.g)
    BY <1>8, CallReads
  <1>11. c \in Opt!optmask => c \notin {"-1", "?", ":", "undefined"}  BY CharIs
  <1>12. Opt!argmask \subseteq Opt!optmask  BY DEF Opt!argmask
  <1>13. After(n) = Reads!Char  BY <1>6 DEF After
  <1>14. Reads!Here[Reads!Char] = c  BY <1>1, <1>6, <1>7
  <1>15. ASSUME NEW r, NEW next \in Nat, next >= 1, NEW v \in Seq(STRING) \cup {NULL}, NEW m \in Nat,
                a = [ret |-> r, g |-> Left(g, s, next, v, m)]
         PROVE  /\ a.ret = r /\ a.g.optarg = v
                /\ Opt!Position' = Reads!At(next + 1, After(m))
    <2>1. a.ret = r /\ a.g = Left(g, s, next, v, m)  BY <1>15
    <2>2. /\ Left(g, s, next, v, m).optarg = v
          /\ PosOf(Left(g, s, next, v, m)) = PosAt(next, m)
      <3>1. Len(s) >= 2  BY <1>3
      <3>2. g \in OptRec /\ s \in Seq(STRING)  BY <1>1
      <3>3. next \in Nat /\ next >= 1 /\ v \in Seq(STRING) \cup {NULL} /\ m \in Nat  BY <1>15
      <3> QED  BY <3>1, <3>2, <3>3, LeftIs
    <2>3. PosAt(next, m) = Reads!At(next + 1, After(m))  BY DEF PosAt, Reads!At
    <2> QED  BY <1>10, <2>1, <2>2, <2>3
  <1>16. CASE c \notin Opt!optmask
    <2>1. a.ret = "?" /\ Opt!Position' = Reads!At(i + 1, After(n))
      <3> DEFINE r == "?"
      <3>1. a = [ret |-> r, g |-> Left(g, s, i, g.optarg, n)]  BY <1>9, <1>16
      <3>2. i \in Nat /\ i >= 1 /\ g.optarg \in Seq(STRING) \cup {NULL} /\ n \in Nat  BY <1>1, <1>6
      <3> HIDE DEF r
      <3>3. a.ret = r /\ Opt!Position' = Reads!At(i + 1, After(n))  BY <1>15, <3>1, <3>2
      <3> QED  BY <3>3 DEF r
    <2>2. Opt!Position' = Reads!At(Opt!Position.arg, Reads!Char)  BY <1>1, <1>13, <2>1
    <2>3. Reads!Complains("?")  BY <1>10, <2>1 DEF Reads!Complains
    <2> QED  BY <1>14, <1>16, <2>2, <2>3 DEF Reads!Short
  <1>17. CASE c \in Opt!optmask \ Opt!argmask
    <2>1. PICK next, m : next = (IF n + 1 = Len(s) THEN i + 1 ELSE i) /\ m = IF n + 1 = Len(s) THEN 0 ELSE n + 1
      OBVIOUS
    <2>2. next \in Nat /\ next >= 1 /\ m \in Nat  BY <1>1, <1>6, <2>1
    <2>3. a = [ret |-> c, g |-> Left(g, s, next, NULL, m)]  BY <1>9, <1>17, <2>1
    <2>4. a.ret = c /\ a.g.optarg = NULL /\ Opt!Position' = Reads!At(next + 1, After(m))
      BY <1>15, <2>2, <2>3
    <2>5. Opt!Position' = IF Reads!Char = Len(Reads!Here) THEN Reads!At(Opt!Position.arg + 1, Reads!First)
                          ELSE Reads!At(Opt!Position.arg, Reads!Char + 1)
      <3>1. CASE n + 1 = Len(s)
        <4>1. next + 1 = i + 1 + 1 /\ m = 0  BY <1>1, <2>1, <3>1
        <4> QED  BY <1>1, <1>6, <2>4, <3>1, <4>1 DEF Reads!First, After
      <3>2. CASE n + 1 # Len(s)
        <4>1. next = i /\ m = n + 1 /\ ~(m < 1)  BY <1>6, <2>1, <3>2
        <4> QED  BY <1>1, <1>6, <2>4, <3>2, <4>1 DEF After
      <3> QED  BY <3>1, <3>2
    <2>6. result' = c /\ seen' = Append(seen, <<c, NULL>>)  BY <1>10, <1>11, <1>17, <2>4
    <2> QED  BY <1>14, <1>17, <2>5, <2>6 DEF Reads!Short
  <1>18. ASSUME NEW next \in Nat, next >= 1, NEW v \in Seq(STRING), c \in Opt!argmask,
                a = [ret |-> c, g |-> Left(g, s, next, v, n)]
         PROVE  Reads!Reports(c, v) /\ Opt!Position' = Reads!At(next + 1, Reads!Char)
    <2>1. /\ a.ret = c /\ a.g.optarg = v
          /\ Opt!Position' = Reads!At(next + 1, After(n))
      BY <1>6, <1>15, <1>18
    <2>2. Reads!Reports(c, v)  BY <1>10, <1>11, <1>12, <1>18, <2>1 DEF Reads!Reports
    <2> QED  BY <1>13, <2>1, <2>2
  <1>19. CASE c \in Opt!argmask /\ n + 1 < Len(s)
    <2>1. SubSeq(s, n + 2, Len(s)) \in Seq(STRING) /\ i + 1 \in Nat /\ i + 1 >= 1  BY <1>1, <1>6
    <2>2. /\ Reads!Reports(c, SubSeq(s, n + 2, Len(s)))
          /\ Opt!Position' = Reads!At(i + 1 + 1, Reads!Char)
      BY <1>9, <1>18, <1>19, <2>1
    <2>3. Opt!Position' = Reads!At(Opt!Position.arg + 1, Reads!Char)  BY <1>1, <2>2
    <2>4. Reads!Reports(c, SubSeq(Reads!Here, Reads!Char + 1, Len(Reads!Here)))
      <3>1. n + 1 + 1 = n + 2  BY <1>6
      <3> QED  BY <1>1, <1>6, <2>2, <3>1
    <2>5. Reads!Char # Len(Reads!Here)  BY <1>1, <1>6, <1>19
    <2> QED  BY <1>12, <1>14, <1>19, <2>3, <2>4, <2>5 DEF Reads!Short
  <1>20. CASE c \in Opt!argmask /\ n + 1 = Len(s) /\ i + 1 < Len(argv)
    <2>1. argv[i + 2] \in Seq(STRING) /\ i + 2 \in Nat /\ i + 2 >= 1  BY <1>1, <1>20
    <2>2. /\ Reads!Reports(c, argv[i + 2])
          /\ Opt!Position' = Reads!At(i + 2 + 1, Reads!Char)
      BY <1>9, <1>18, <1>20, <2>1
    <2>3. Opt!Position' = Reads!At(Opt!Position.arg + 2, Reads!Char)
      <3>1. i + 2 + 1 = i + 1 + 2  BY <1>1
      <3> QED  BY <1>1, <2>2, <3>1
    <2>4. Reads!Reports(c, argv[Opt!Position.arg + 1])
      <3>1. i + 1 + 1 = i + 2  BY <1>1
      <3> QED  BY <1>1, <2>2, <3>1
    <2>5. Reads!Char = Len(Reads!Here) /\ Opt!Position.arg < Len(argv)  BY <1>1, <1>6, <1>20
    <2> QED  BY <1>12, <1>14, <1>20, <2>3, <2>4, <2>5 DEF Reads!Short
  <1>21. CASE c \in Opt!argmask /\ n + 1 = Len(s) /\ ~(i + 1 < Len(argv))
    <2>1. a.ret = Opt!Complaint /\ Opt!Position' = Reads!At(i + 1, After(n))
      <3>1. a = [ret |-> Opt!Complaint, g |-> Left(g, s, i, g.optarg, n)]  BY <1>9, <1>21
      <3>2. i \in Nat /\ i >= 1 /\ g.optarg \in Seq(STRING) \cup {NULL} /\ n \in Nat  BY <1>1, <1>6
      <3> QED  BY <1>15, <3>1, <3>2
    <2>2. Opt!Position' = Reads!At(Opt!Position.arg, Reads!Char)  BY <1>1, <1>13, <2>1
    <2>3. Reads!Complains(Opt!Complaint)  BY <1>1, <1>10, <2>1 DEF Reads!Complains
    <2>4. Reads!Char = Len(Reads!Here) /\ Opt!Position.arg = Len(argv)  BY <1>1, <1>6, <1>21
    <2> QED  BY <1>12, <1>14, <1>21, <2>2, <2>3, <2>4 DEF Reads!Short
  <1>22. n + 1 < Len(s) \/ n + 1 = Len(s)  BY <1>1, <1>6, <1>9
  <1> QED  BY <1>12, <1>16, <1>17, <1>19, <1>20, <1>21, <1>22

\* An argument with two dashes that is one name
LEMMA NameReads ==
  ASSUME NEW g, NEW i, NEW s, Calls(g, i, s), ~NoOption(s), ~Reads!InDoubt, Reads!IsLong,
         Reads!Matches(Reads!Text) # {}
  PROVE  \E k \in Reads!Matches(Reads!Text) : Reads!Long(LongOpts[k])
  <1>1. /\ Settled(g) /\ g \in OptRec /\ i \in Nat /\ i >= 1 /\ i < Len(argv) /\ Len(argv) \in Nat
        /\ s \in Seq(STRING) /\ Len(s) \in Nat /\ \A j \in 1..Len(s) : s[j] # "NUL"
        /\ Opt!Arg(i) = s /\ Reads!Here = s
        /\ Opt!Position = PosOf(g) /\ Opt!Position.arg = i + 1
        /\ g.optarg \in Seq(STRING) \cup {NULL}
        /\ i + 1 < Len(argv) => Opt!Arg(i + 1) = argv[i + 2] /\ argv[i + 2] \in Seq(STRING)
        /\ Opt!Complaint \in {"?", ":"}
    BY CallFacts DEF Calls, Settled, OptRec
  <1>2. PICK t : t = Reads!Text  OBVIOUS
  <1>3. how \notin {"getopt", "getopt_null"} /\ s[2] = "-" /\ t = SubSeq(s, 3, Len(s))
    BY <1>1, <1>2 DEF Reads!IsLong, Reads!Text
  <1>4. PICK k : Reads!Matches(t) = {k} /\ Reads!Plain(LongOpts[k])
    BY <1>2 DEF Reads!InDoubt
  <1>5. /\ Len(s) >= 2
        /\ Answer(g, i) = IF how # "getopt" /\ Opt!getopt_match_longopt(g, i).ret # "go on"
                          THEN Opt!getopt_match_longopt(g, i) ELSE Opt!ShortOption(g, i)
    BY OptionAnswer
  <1>6. /\ t \in Seq(STRING) /\ k \in 1..Len(LongOpts)
        /\ Opt!getopt_match_longopt(g, i) = Opt!LongOption(g, i, t, LongOpts[k])
    <2>1. Len(s) >= 2 /\ s = Opt!Arg(i) /\ Reads!Matches(t) = {k}  BY <1>1, <1>4, <1>5
    <2>2. how # "getopt_null" /\ s[2] = "-" /\ t = SubSeq(s, 3, Len(s))  BY <1>3
    <2> QED  BY <1>1, <2>1, <2>2, SomeName
  <1>7. PICK o : o = LongOpts[k]  OBVIOUS
  <1>8. PICK b : b = Opt!LongOption(g, i, t, o)  OBVIOUS
  <1>9. /\ BehindEq(t, o) \in Seq(STRING)
        /\ ~Reads!Agrees(o) => b = Failed(g) \/ b = Failed([g EXCEPT !.optarg = BehindEq(t, o)])
        /\ Reads!Agrees(o) /\ o.has_arg = "no_argument" => b = Given(g, o, i + 1, g.optarg)
        /\ Reads!Agrees(o) /\ o.has_arg # "no_argument" /\ HasEq(t, o) => b = Given(g, o, i + 1, BehindEq(t, o))
        /\ Reads!Agrees(o) /\ o.has_arg = "optional_argument" /\ ~HasEq(t, o) => b = Given(g, o, i + 1, g.optarg)
        /\ Reads!Agrees(o) /\ o.has_arg = "required_argument" /\ ~HasEq(t, o) /\ i + 1 >= Len(argv) => b = Failed(g)
        /\ Reads!Agrees(o) /\ o.has_arg = "required_argument" /\ ~HasEq(t, o) /\ ~(i + 1 >= Len(argv)) =>
             b = Given(g, o, i + 2, Opt!Arg(i + 1))
    BY <1>1, <1>6, <1>7, <1>8, OptionIs
  <1>10. o.has_arg \in {"no_argument", "required_argument", "optional_argument"}  BY <1>6, <1>7, LongOptIs
  <1>11. /\ Reads!HasEquals(o) <=> HasEq(t, o)
         /\ Reads!Behind(o) = BehindEq(t, o)
    BY <1>2 DEF Reads!HasEquals, HasEq, Reads!Behind, BehindEq
  <1>12. /\ Opt!Val(o) = Reads!Value(o) /\ Opt!Val(o) \notin {"-1", "?", ":", "go on", "undefined"}
    BY <1>6, <1>7, ValIs
  <1>13. PosOf(g).chr = Opt!Position.chr  BY <1>1
  \* ... an option that is given
  <1>14. ASSUME NEW next \in Nat, next >= 1, NEW v \in Seq(STRING) \cup {NULL}, b = Given(g, o, next, v)
         PROVE  /\ result' = Reads!Value(o)
                /\ seen' = Append(seen, <<Reads!Value(o), IF Reads!Takes(Reads!Value(o)) THEN v ELSE NULL>>)
                /\ Opt!Position' = Reads!At(next + 1, Opt!Position.chr)
    <2>1. /\ b.ret = Opt!Val(o) /\ b.g.optarg = v
          /\ PosOf(b.g) = Reads!At(next + 1, PosOf(g).chr)
      <3>1. g \in OptRec /\ k \in 1..Len(LongOpts)  BY <1>1, <1>6
      <3>2. /\ Given(g, o, next, v).ret = Opt!Val(o) /\ Given(g, o, next, v).g.optarg = v
            /\ PosOf(Given(g, o, next, v).g) = Reads!At(next + 1, PosOf(g).chr)
        BY <1>7, <1>14, <3>1, GivenSound, Zenon
      <3> QED  BY <1>14, <3>2
    <2>2. b = Answer(g, i)  BY <1>3, <1>5, <1>6, <1>7, <1>8, <1>12, <2>1
    <2>3. /\ result' = b.ret
          /\ b.ret \notin {"-1", "?", ":", "undefined"} =>
               seen' = Append(seen, <<b.ret, IF Reads!Takes(b.ret) THEN b.g.optarg ELSE NULL>>)
          /\ Opt!Position' = PosOf(b.g)
      BY <2>2, CallReads
    <2> QED  BY <1>12, <1>13, <2>1, <2>3
  \* ... and one that is not
  <1>15. ASSUME NEW h, Settled(h), b = Failed(h), PosOf(h) = PosOf(g)
         PROVE  Reads!Complains(Opt!Complaint) /\ Opt!Position' = Opt!Position
    <2>1. b.ret = Opt!Complaint /\ b.g = h  BY <1>15 DEF Failed
    <2>2. b = Answer(g, i)
      <3>1. b.ret # "go on"  BY <1>1, <2>1
      <3> QED  BY <1>3, <1>5, <1>6, <1>7, <1>8, <3>1
    <2>3. /\ result' = b.ret /\ (b.ret \in {"-1", "?", ":", "undefined"} => seen' = seen)
          /\ Opt!Position' = PosOf(b.g)
      BY <2>2, CallReads
    <2> QED  BY <1>1, <1>15, <2>1, <2>3 DEF Reads!Complains
  <1>16. CASE ~Reads!Agrees(o)
    <2>1. PICK h : h = [g EXCEPT !.optarg = BehindEq(t, o)]  OBVIOUS
    <2>2. Settled(h) /\ PosOf(h) = PosOf(g)  BY <1>1, <1>9, <2>1 DEF Settled, OptRec, PosOf
    <2>3. Reads!Complains(Opt!Complaint) /\ Opt!Position' = Opt!Position
      BY <1>1, <1>9, <1>15, <1>16, <2>1, <2>2
    <2> QED  BY <1>2, <1>4, <1>7, <1>16, <2>3 DEF Reads!Long
  <1>17. i + 1 \in Nat /\ i + 1 >= 1 /\ i + 2 \in Nat /\ i + 2 >= 1 /\ i + 2 = i + 1 + 1 /\ i + 2 + 1 = i + 1 + 2
    BY <1>1
  <1>18. CASE Reads!Agrees(o) /\ HasEq(t, o)
    <2>1. o.has_arg # "no_argument"
      <3>1. t # o.name  BY <1>6, <1>7, <1>18, LongOptIs DEF HasEq
      <3> QED  BY <1>2, <1>4, <1>7, <3>1 DEF Reads!Plain
    <2>2. b = Given(g, o, i + 1, BehindEq(t, o))  BY <1>9, <1>18, <2>1
    <2>3. /\ result' = Reads!Value(o)
          /\ seen' = Append(seen, <<Reads!Value(o), IF Reads!Takes(Reads!Value(o)) THEN BehindEq(t, o) ELSE NULL>>)
          /\ Opt!Position' = Reads!At(i + 1 + 1, Opt!Position.chr)
      BY <1>9, <1>14, <1>17, <2>2
    <2>4. Reads!Reports(Reads!Value(o), Reads!Behind(o))  BY <1>11, <2>3 DEF Reads!Reports
    <2> QED  BY <1>1, <1>2, <1>4, <1>7, <1>11, <1>18, <2>3, <2>4 DEF Reads!Long
  <1>19. CASE Reads!Agrees(o) /\ ~HasEq(t, o) /\ o.has_arg # "required_argument"
    <2>1. b = Given(g, o, i + 1, g.optarg)  BY <1>9, <1>10, <1>19
    <2>2. ~Reads!Takes(Reads!Value(o))  BY <1>4, <1>7, <1>11, <1>19 DEF Reads!Plain
    <2>3. /\ result' = Reads!Value(o)
          /\ seen' = Append(seen, <<Reads!Value(o), IF Reads!Takes(Reads!Value(o)) THEN g.optarg ELSE NULL>>)
          /\ Opt!Position' = Reads!At(i + 1 + 1, Opt!Position.chr)
      BY <1>1, <1>14, <1>17, <2>1
    <2>4. Reads!Reports(Reads!Value(o), NULL)  BY <2>2, <2>3 DEF Reads!Reports
    <2> QED  BY <1>1, <1>2, <1>4, <1>7, <1>11, <1>19, <2>3, <2>4 DEF Reads!Long
  <1>20. CASE Reads!Agrees(o) /\ ~HasEq(t, o) /\ o.has_arg = "required_argument" /\ i + 1 < Len(argv)
    <2>1. b = Given(g, o, i + 2, argv[i + 2])
      <3>1. ~(i + 1 >= Len(argv))  BY <1>1, <1>20
      <3> QED  BY <1>1, <1>9, <1>20, <3>1
    <2>2. argv[i + 2] \in Seq(STRING) \cup {NULL}  BY <1>1, <1>20
    <2>3. /\ result' = Reads!Value(o)
          /\ seen' = Append(seen, <<Reads!Value(o), IF Reads!Takes(Reads!Value(o)) THEN argv[i + 2] ELSE NULL>>)
          /\ Opt!Position' = Reads!At(i + 2 + 1, Opt!Position.chr)
      BY <1>14, <1>17, <2>1, <2>2
    <2>4. Reads!Reports(Reads!Value(o), argv[Opt!Position.arg + 1])  BY <1>1, <1>17, <2>3 DEF Reads!Reports
    <2>5. Opt!Position' = Reads!At(Opt!Position.arg + 2, Opt!Position.chr) /\ Opt!Position.arg < Len(argv)
      BY <1>1, <1>17, <1>20, <2>3
    <2> QED  BY <1>2, <1>4, <1>7, <1>11, <1>20, <2>4, <2>5 DEF Reads!Long
  <1>21. CASE Reads!Agrees(o) /\ ~HasEq(t, o) /\ o.has_arg = "required_argument" /\ ~(i + 1 < Len(argv))
    <2>1. i + 1 >= Len(argv) /\ Opt!Position.arg = Len(argv)  BY <1>1, <1>21
    <2>2. Reads!Complains(Opt!Complaint) /\ Opt!Position' = Opt!Position
      BY <1>1, <1>9, <1>15, <1>21, <2>1
    <2> QED  BY <1>2, <1>4, <1>7, <1>11, <1>21, <2>1, <2>2 DEF Reads!Long
  <1> QED  BY <1>16, <1>18, <1>19, <1>20, <1>21

-----------------------------------------------------------------------------
\* Every call keeps what is known between two calls, and is a step of the reader.
LEMMA CallStep ==
  ASSUME OptInv, Opt!Next
  PROVE  OptInv' /\ Reads!Next
  <1>1. PICK g : g = Opt!Reset(opt)  OBVIOUS
  <1>2. PICK i : i = g.optind  OBVIOUS
  <1>3. CASE i < Len(argv)
    <2>1. PICK s : s = argv[i + 1]  OBVIOUS
    <2>2. Calls(g, i, s)  BY <1>1, <1>2, <1>3, <2>1 DEF Calls
    <2>3. /\ Settled(opt') /\ result \notin {"-1", "?", ":", "undefined"} /\ UNCHANGED <<argv, how>>
      BY <2>2, CallReads
    <2>4. OptInv'  BY <2>3 DEF OptInv
    <2>5. CASE NoOption(s)
      <3>1. Reads!Stop  BY <2>2, <2>5, StopReads
      <3> QED  BY <2>3, <2>4, <3>1 DEF Reads!Next
    <2>6. CASE ~NoOption(s)
      <3>1. ~Reads!AtEnd  BY <2>2, <2>6, EndIs
      <3>2. CASE Reads!InDoubt  BY <2>3, <2>4, <3>1, <3>2 DEF Reads!Next
      <3>3. CASE ~Reads!InDoubt /\ (Reads!IsLong => Reads!Matches(Reads!Text) = {})
        <4>1. Reads!Short  BY <2>2, <2>6, <3>3, ShortReads
        <4> QED  BY <2>3, <2>4, <3>1, <3>3, <4>1 DEF Reads!Next
      <3>5. CASE ~Reads!InDoubt /\ Reads!IsLong /\ Reads!Matches(Reads!Text) # {}
        <4>1. \E k \in Reads!Matches(Reads!Text) : Reads!Long(LongOpts[k])
          BY <2>2, <2>6, <3>5, NameReads
        <4> QED  BY <2>3, <2>4, <3>1, <3>5, <4>1 DEF Reads!Next
      <3> QED  BY <3>2, <3>3, <3>5
    <2> QED  BY <2>5, <2>6
  <1>4. CASE ~(i < Len(argv))
    <2>1. /\ Settled(g) /\ i \in Nat /\ Len(argv) \in Nat
          /\ Opt!Position = Reads!At(i + 1, IF g.next < 1 THEN 2 ELSE g.next + 1)
      BY <1>1, <1>2, HereIs
    <2>2. g.optind >= Len(argv)  BY <1>2, <1>4, <2>1
    <2>3. /\ result' = "-1" /\ seen' = seen /\ Settled(opt') /\ Opt!Position' = Opt!Position
          /\ result \notin {"-1", "?", ":", "undefined"} /\ UNCHANGED <<argv, how>>
      BY <1>1, <2>2, StepAtEnd
    <2>4. OptInv'  BY <2>3 DEF OptInv
    <2>5. Opt!Position.arg > Len(argv)
      <3>1. Opt!Position.arg = i + 1  BY <2>1 DEF Reads!At
      <3> QED  BY <1>4, <2>1, <3>1
    <2>6. Reads!AtEnd /\ ~(Opt!Position.arg <= Len(argv))
      <3>1. Opt!Position.arg = i + 1  BY <2>1 DEF Reads!At
      <3> QED  BY <2>1, <2>5, <3>1 DEF Reads!AtEnd
    <2>7. Reads!Stop  BY <2>3, <2>6 DEF Reads!Stop
    <2> QED  BY <2>3, <2>4, <2>7 DEF Reads!Next
  <1> QED  BY <1>3, <1>4

LEMMA OptInitially ==
  ASSUME Opt!Init
  PROVE  OptInv /\ Reads!Init
  <1>1. opt = [optind |-> 0, optarg |-> NULL, optopt |-> NULL, prev |-> 0, next |-> 0]  BY DEF Opt!Init
  <1>2. opt \in OptRec /\ opt.optind = 0  BY <1>1 DEF OptRec
  <1>3. OptInv  BY <1>2 DEF OptInv, Opt!Init
  <1>4. Opt!Reset(opt).optind = 1 /\ Opt!Reset(opt).next = 0  BY <1>2, ResetSettles
  <1>5. Opt!Position = Reads!At(2, Reads!First)
    <2>1. PICK g : g = Opt!Reset(opt)  OBVIOUS
    <2>2. g.optind + 1 = 2 /\ g.next < 1  BY <1>4, <2>1
    <2> QED  BY <2>1, <2>2 DEF Opt!Position, Reads!At, Reads!First
  <1> QED  BY <1>3, <1>5 DEF Reads!Init, Opt!Init

LEMMA OptInvariance == PartsSpec => []OptInv
  <1>1. ASSUME PartsInit PROVE OptInv  BY <1>1, OptInitially DEF PartsInit
  <1>2. ASSUME OptInv, [PartsNext]_partsVars PROVE OptInv'
    <2>1. CASE UNCHANGED ofOpt  BY <1>2, <2>1 DEF OptInv, ofOpt
    <2>2. CASE part = "getopt" /\ Opt!Next  BY <1>2, <2>2, CallStep
    <2> QED  BY <1>2, <2>1, <2>2 DEF PartsNext, partsVars
  <1> QED  BY <1>1, <1>2, PTL DEF PartsSpec

\* getopt, getopt_long and getopt_long_only, called until they return -1 or complain,
\* read the arguments as GetoptSpec says, for all arguments and options: each call the
\* option at the position that the last one left, with its argument.  Where an argument
\* is read from its middle, behind a group whose option takes one, that position is not
\* the first character; nothing is said where the long options leave an argument in doubt.
THEOREM GetoptReads == PartsSpec => GetoptReadsOn
  <1>1. ASSUME PartsInit PROVE part = "getopt" => Reads!Init
    BY <1>1, OptInitially DEF PartsInit
  <1>2. ASSUME OptInv, [PartsNext]_partsVars
        PROVE  [part = "getopt" => Reads!Next]_(Reads!readsVars)
    <2>1. CASE UNCHANGED ofOpt
      <3>1. UNCHANGED Opt!Position
        <4>1. opt' = opt  BY <2>1 DEF ofOpt
        <4> QED  BY <4>1 DEF Opt!Position
      <3> QED  BY <2>1, <3>1 DEF ofOpt, Reads!readsVars
    <2>2. CASE part = "getopt" /\ Opt!Next
      <3>1. Reads!Next  BY <1>2, <2>2, CallStep
      <3> QED  BY <3>1
    <2> QED  BY <1>2, <2>1, <2>2 DEF PartsNext, partsVars
  <1> QED  BY <1>1, <1>2, OptInvariance, PTL DEF PartsSpec, GetoptReadsOn
=============================================================================
