--------------------------- MODULE LibraryProofs ----------------------------
(***************************************************************************)
(* What holds of signals, shared memory objects, message traffic and the   *)
(* network databases, for any number of threads, objects, descriptors,     *)
(* messages and entries.                                                   *)
(***************************************************************************)
EXTENDS LibraryParts, FiniteSetTheorems, SequenceTheorems, WellFoundedInduction, TLAPS

-----------------------------------------------------------------------------
(* The two numberings of signals *)

\* The table that z_sig_set.c is built from: each signal of the kernel has a
\* number of its own in the C library.
LEMMA TableIsInjective ==
  /\ \A k \in Sig!KStd : Sig!Sig(k) \in 1..31
  /\ \A k, l \in Sig!KStd : Sig!Sig(k) = Sig!Sig(l) => k = l
  <1>1. \A k \in Sig!KStd : k \in 1..31 /\ k # 16 /\ k # 28 /\ k # 30  BY DEF Sig!KStd
  <1>2. CASE signo = "minimal"  BY <1>1, <1>2 DEF Sig!Sig
  <1>3. CASE signo # "minimal"
    <2>1. \A k \in Sig!KStd : Sig!Cygwin[k] \in 1..31  BY <1>1 DEF Sig!Cygwin
    <2>2. \A k, l \in Sig!KStd : Sig!Cygwin[k] = Sig!Cygwin[l] => k = l  BY <1>1 DEF Sig!Cygwin
    <2> QED  BY <1>3, <2>1, <2>2 DEF Sig!Sig
  <1> QED  BY <1>2, <1>3

\* z_sig_to_posix undoes z_sig_from_posix.
LEMMA FromPosixIs ==
  ASSUME NEW n, Sig!z_sig_from_posix(n) > 0
  PROVE  /\ n \in 1..(34 + RtMax)
         /\ Sig!z_sig_from_posix(n) \in 1..(34 + RtMax)
         /\ Sig!z_sig_to_posix(Sig!z_sig_from_posix(n)) = n
  <1>1. CASE n \in 34..(34 + RtMax)
    BY <1>1, SignalsAssumption DEF Sig!z_sig_from_posix, Sig!z_sig_to_posix, Sig!z_sig_map,
       Sig!SIGRTMIN, Sig!SIGRTMAX, Sig!K_SIG_RTMIN
  <1>2. CASE n \notin 34..(34 + RtMax)
    <2>1. n \in 0..33 /\ Sig!z_sig_from_posix(n) = Sig!z_posix_to_k_std(n)
      BY <1>2, SignalsAssumption DEF Sig!z_sig_from_posix, Sig!z_sig_map, Sig!SIGRTMIN,
         Sig!SIGRTMAX, Sig!K_SIG_RTMIN
    <2>2. CASE n \in Sig!Reserved
      BY <2>1, <2>2, SignalsAssumption DEF Sig!z_posix_to_k_std, Sig!z_sig_to_posix, Sig!z_sig_map,
         Sig!z_k_to_posix_std, Sig!Reserved, Sig!K_SIG_RTMIN
    <2>3. CASE n \notin Sig!Reserved
      <3>1. PICK k : k = Sig!z_sig_from_posix(n)  OBVIOUS
      <3>2. k \in Sig!KStd /\ Sig!Sig(k) = n
        BY <2>1, <2>3, <3>1 DEF Sig!z_posix_to_k_std
      <3>3. k \in 1..31 /\ k \notin Sig!Reserved  BY <3>2 DEF Sig!KStd, Sig!Reserved
      <3>4. n \in 1..31  BY <3>2, TableIsInjective
      <3>5. Sig!z_sig_to_posix(k) = n
        BY <3>2, <3>3, SignalsAssumption DEF Sig!z_sig_to_posix, Sig!z_sig_map, Sig!z_k_to_posix_std,
           Sig!K_SIG_RTMIN
      <3> QED  BY <3>1, <3>3, <3>4, <3>5, SignalsAssumption
    <2> QED  BY <2>2, <2>3
  <1> QED  BY <1>1, <1>2

\* ... and the other way round.
LEMMA ToPosixIs ==
  ASSUME NEW k, Sig!z_sig_to_posix(k) > 0
  PROVE  Sig!z_sig_from_posix(Sig!z_sig_to_posix(k)) = k
  <1>1. CASE k \in 34..(34 + RtMax)
    BY <1>1, SignalsAssumption DEF Sig!z_sig_from_posix, Sig!z_sig_to_posix, Sig!z_sig_map,
       Sig!SIGRTMIN, Sig!SIGRTMAX, Sig!K_SIG_RTMIN
  <1>2. CASE k \notin 34..(34 + RtMax)
    <2>1. k \in 0..33 /\ Sig!z_sig_to_posix(k) = Sig!z_k_to_posix_std(k)
      BY <1>2, SignalsAssumption DEF Sig!z_sig_to_posix, Sig!z_sig_map, Sig!SIGRTMIN,
         Sig!SIGRTMAX, Sig!K_SIG_RTMIN
    <2>2. CASE k \in Sig!Reserved
      BY <2>1, <2>2, SignalsAssumption DEF Sig!z_posix_to_k_std, Sig!z_sig_from_posix, Sig!z_sig_map,
         Sig!z_k_to_posix_std, Sig!Reserved, Sig!SIGRTMIN
    <2>3. CASE k \notin Sig!Reserved
      <3>1. PICK n : n = Sig!z_sig_to_posix(k)  OBVIOUS
      <3>2. k \in Sig!KStd /\ Sig!Sig(k) = n  BY <2>1, <2>3, <3>1 DEF Sig!z_k_to_posix_std
      <3>3. n \in 1..31 /\ n \notin Sig!Reserved  BY <3>2, TableIsInjective DEF Sig!Reserved
      <3>4. \A l \in Sig!KStd : Sig!Sig(l) = n => l = k  BY <3>2, TableIsInjective
      <3>5. {l \in Sig!KStd : Sig!Sig(l) = n} = {k}  BY <3>2, <3>4
      <3>6. Sig!z_posix_to_k_std(n) = k  BY <3>3, <3>5 DEF Sig!z_posix_to_k_std
      <3>7. Sig!z_sig_from_posix(n) = k
        BY <3>3, <3>6, SignalsAssumption DEF Sig!z_sig_from_posix, Sig!z_sig_map, Sig!SIGRTMIN
      <3> QED  BY <3>1, <3>7
    <2> QED  BY <2>2, <2>3
  <1> QED  BY <1>1, <1>2

\* Where the C library has the kernel's numbers, z_sig_set_from_posix copies the
\* bits: there a signal's number is the same on both sides.
LEMMA EqualNumbers ==
  ASSUME Sig!z_sig_set_equal
  PROVE  /\ \A n : Sig!z_sig_from_posix(n) > 0 => Sig!z_sig_from_posix(n) = n
         /\ \A k : Sig!z_sig_to_posix(k) > 0 => Sig!z_sig_to_posix(k) = k
  <1>1. ASSUME NEW k, Sig!z_sig_to_posix(k) > 0  PROVE Sig!z_sig_to_posix(k) = k
    <2>1. CASE k \in 34..(34 + RtMax)
      BY <2>1, SignalsAssumption DEF Sig!z_sig_to_posix, Sig!z_sig_map, Sig!SIGRTMIN, Sig!K_SIG_RTMIN
    <2>2. CASE k \notin 34..(34 + RtMax)
      <3>1. k \in 0..33 /\ Sig!z_sig_to_posix(k) = Sig!z_k_to_posix_std(k)
        BY <1>1, <2>2, SignalsAssumption DEF Sig!z_sig_to_posix, Sig!z_sig_map, Sig!SIGRTMIN,
           Sig!K_SIG_RTMIN
      <3> QED  BY <1>1, <3>1 DEF Sig!z_k_to_posix_std, Sig!z_sig_set_equal
    <2> QED  BY <2>1, <2>2
  <1>2. ASSUME NEW n, Sig!z_sig_from_posix(n) > 0  PROVE Sig!z_sig_from_posix(n) = n
    <2>1. n > 0 /\ Sig!z_sig_to_posix(Sig!z_sig_from_posix(n)) = n
      BY <1>2, FromPosixIs, SignalsAssumption
    <2> QED  BY <1>1, <2>1
  <1> QED  BY <1>1, <1>2

\* The kernel's set has a signal's counterpart exactly if the program's set has
\* the signal.
LEMMA SetFromPosix ==
  ASSUME NEW s, NEW n, Sig!z_sig_from_posix(n) > 0
  PROVE  Sig!z_sig_from_posix(n) \in Sig!z_sig_set_from_posix(s) <=> n \in s
  <1>1. CASE Sig!z_sig_set_equal  BY <1>1, EqualNumbers DEF Sig!z_sig_set_from_posix
  <1>2. CASE ~Sig!z_sig_set_equal
    <2>1. Sig!z_sig_set_from_posix(s) = {Sig!z_sig_from_posix(m) : m \in s} \cap Sig!Numbers
      BY <1>2 DEF Sig!z_sig_set_from_posix, Sig!sig_words_remap
    <2>2. Sig!z_sig_from_posix(n) \in Sig!Numbers
      BY FromPosixIs, SignalsAssumption DEF Sig!Numbers
    <2>3. ASSUME NEW m \in s, Sig!z_sig_from_posix(m) = Sig!z_sig_from_posix(n)  PROVE m = n
      BY <2>3, FromPosixIs
    <2> QED  BY <2>1, <2>2, <2>3
  <1> QED  BY <1>1, <1>2

\* ... and the program's set a signal exactly if the kernel's has its counterpart.
LEMMA SetToPosix ==
  ASSUME NEW p, NEW n, Sig!z_sig_from_posix(n) > 0
  PROVE  n \in Sig!z_sig_set_to_posix(p) <=> Sig!z_sig_from_posix(n) \in p
  <1>1. CASE Sig!z_sig_set_equal  BY <1>1, EqualNumbers DEF Sig!z_sig_set_to_posix
  <1>2. CASE ~Sig!z_sig_set_equal
    <2>1. Sig!z_sig_set_to_posix(p) = {Sig!z_sig_to_posix(k) : k \in p} \cap Sig!Numbers
      BY <1>2 DEF Sig!z_sig_set_to_posix, Sig!sig_words_remap
    <2>2. n \in Sig!Numbers /\ n > 0 /\ Sig!z_sig_to_posix(Sig!z_sig_from_posix(n)) = n
      BY FromPosixIs, SignalsAssumption DEF Sig!Numbers
    <2>3. ASSUME NEW k \in p, Sig!z_sig_to_posix(k) = n  PROVE k = Sig!z_sig_from_posix(n)
      BY <2>2, <2>3, ToPosixIs
    <2> QED  BY <2>1, <2>2, <2>3
  <1> QED  BY <1>1, <1>2

\* What a wait answers with is in the set that it was given.
LEMMA AnswerIsAskedFor ==
  ASSUME NEW s, NEW k \in Sig!z_sig_set_from_posix(s)
  PROVE  Sig!ksigno_to_posix(k) \in s
  <1>1. CASE Sig!z_sig_set_equal
    BY <1>1, EqualNumbers DEF Sig!z_sig_set_from_posix, Sig!ksigno_to_posix
  <1>2. CASE ~Sig!z_sig_set_equal
    <2>1. PICK m \in s : k = Sig!z_sig_from_posix(m) /\ k \in Sig!Numbers
      BY <1>2 DEF Sig!z_sig_set_from_posix, Sig!sig_words_remap
    <2>2. Sig!z_sig_to_posix(k) = m /\ m > 0
      BY <2>1, FromPosixIs, SignalsAssumption DEF Sig!Numbers
    <2> QED  BY <2>1, <2>2 DEF Sig!ksigno_to_posix
  <1> QED  BY <1>1, <1>2

\* A set of signals of the program becomes the kernel's and comes back, with the
\* counterparts of its members and no others; a full set holds every signal
\* (z_sig_set.c, sigaddset and the others of signal.c).
THEOREM SignalSetsCorrect == \A s \in SUBSET Sig!Numbers : Sig!SignalSetsTranslate(s)
  <1> SUFFICES ASSUME NEW s \in SUBSET Sig!Numbers  PROVE Sig!SignalSetsTranslate(s)
    OBVIOUS
  <1> DEFINE k == Sig!z_sig_set_from_posix(s)
  <1>1. ASSUME NEW n \in Sig!Shared  PROVE Sig!z_sig_from_posix(n) \in k <=> n \in s
    BY SetFromPosix DEF Sig!Shared, Sig!IsShared
  <1>2. ASSUME NEW n \in Sig!Shared  PROVE n \in Sig!z_sig_set_to_posix(k) <=> n \in s
    BY <1>1, SetToPosix DEF Sig!Shared, Sig!IsShared
  <1>3. ASSUME NEW n \in s
        PROVE  /\ Sig!sigismember(Sig!sigdelset(s, n), n) = (IF Sig!signo_valid(n) THEN 0 ELSE -1)
               /\ Sig!sigismember(Sig!sigfillset, n) = (IF Sig!signo_valid(n) THEN 1 ELSE -1)
    BY SignalsAssumption DEF Sig!sigismember, Sig!sigdelset, Sig!sigfillset, Sig!signo_valid,
       Sig!signo_fits, Sig!Numbers, Sig!SIGRTMIN, Sig!SIGRTMAX
  <1> HIDE DEF k
  <1>4. Sig!z_sig_set_to_posix(k) \cap Sig!Shared = s \cap Sig!Shared  BY <1>2
  <1> QED  BY <1>1, <1>3, <1>4 DEF k, Sig!SignalSetsTranslate

-----------------------------------------------------------------------------
(* Signals *)

Flags == SUBSET {"SA_RESETHAND", "SA_SIGINFO"}
Actions == [handler : {"SIG_DFL", "SIG_IGN", "handler"}, flags : Flags, mask : SUBSET Int]
KActions == [handler : {"none", "K_SIG_DFL", "K_SIG_IGN", "z_sig_shim"}, data : {"NULL", "handler"},
             flags : Flags, mask : SUBSET Int]
Kernels == [user : BOOLEAN, mask : SUBSET Int, pending : SUBSET Sig!Numbers, delivered : Nat,
            act : [Sig!Numbers -> KActions]]
SigCalls == [pc : {"idle", "pause", "sampled", "suspend", "dead"}, start : Nat,
             saved : SUBSET Int, ran : BOOLEAN, cancel : BOOLEAN]
Seen == [asked : [Sigs -> Actions], stray : BOOLEAN]

\* A signal that both number, and that an action may mask.
MayMask(n) == Sig!z_sig_from_posix(n) > 0 /\ Sig!z_sig_from_posix(n) \notin Sig!UNMASKABLE_MASK

\* The kernel's action k is what sigaction makes of the program's action a.
Means(k, a) ==
    LET d == Sig!posix_sig_disposition_get(k) IN
    /\ d.handler = a.handler /\ d.flags = a.flags
    /\ \A n : MayMask(n) => (n \in d.mask <=> n \in a.mask)

\* The action a is the default in all that the kernel can tell.
IsDefault(a) == a.handler = "SIG_DFL" /\ a.flags = {} /\ \A n : MayMask(n) => n \notin a.mask

\* The entry x of the kernel's table, or that there is none, stands for the action a.
Stands(x, a) == IF x = Sig!NoEntry THEN IsDefault(a) ELSE Means(x, a)

\* A call that waits knows how many handlers had run when it was entered.
WaitKnows == sigCall.pc \in {"pause", "sampled", "suspend"} =>
    /\ sigCall.start <= ks.delivered
    /\ sigCall.ran \/ sigCall.cancel <=> ks.delivered # sigCall.start

ActionsMean == \A n \in Sigs : Sig!z_sig_from_posix(n) > 0 =>
    Stands(ks.act[Sig!z_sig_from_posix(n)], sigSeen.asked[n])

\* The inductive invariant of signals.
SigInv ==
    /\ ks \in Kernels /\ sigCall \in SigCalls /\ sigSeen \in Seen
    /\ WaitKnows
    /\ ActionsMean
    /\ ~sigSeen.stray

LEMMA SetsAreNumbers == \A s \in SUBSET Int : Sig!z_sig_set_from_posix(s) \in SUBSET Int
  BY DEF Sig!z_sig_set_from_posix, Sig!sig_words_remap, Sig!Numbers

\* sigaction and a query of the action are inverse.
LEMMA ActionReadsBack ==
  ASSUME NEW a \in Actions
  PROVE  /\ Sig!ToKernel(a) \in KActions /\ Sig!ToKernel(a).handler # "none"
         /\ Means(Sig!ToKernel(a), a)
  <1>1. /\ a.handler \in {"SIG_DFL", "SIG_IGN", "handler"} /\ a.flags \in Flags
        /\ a.mask \in SUBSET Int
    BY DEF Actions
  <1>2. PICK m : m = Sig!z_sig_set_from_posix(a.mask)  OBVIOUS
  <1>3. PICK k : k = Sig!ToKernel(a)  OBVIOUS
  <1>4. k \in KActions /\ k.mask = m /\ k.flags = a.flags /\ k.handler # "none"
    BY <1>1, <1>2, <1>3, SetsAreNumbers DEF Sig!ToKernel, KActions
  <1>5. Sig!posix_sig_disposition_get(k).handler = a.handler
    BY <1>1, <1>3 DEF Sig!ToKernel, Sig!posix_sig_disposition_get
  <1>6. /\ Sig!posix_sig_disposition_get(k).flags = a.flags
        /\ Sig!posix_sig_disposition_get(k).mask = Sig!z_sig_set_to_posix(m)
    BY <1>4 DEF Sig!posix_sig_disposition_get
  <1>7. \A n : MayMask(n) => (n \in Sig!z_sig_set_to_posix(m) <=> n \in a.mask)
    BY <1>2, SetFromPosix, SetToPosix DEF MayMask
  <1> QED  BY <1>3, <1>4, <1>5, <1>6, <1>7 DEF Means

\* What Means says of the entry's fields.
LEMMA MeansFields ==
  ASSUME NEW x \in KActions, NEW a
  PROVE  Means(x, a) <=>
           /\ a.handler = CASE x.handler = "z_sig_shim" -> x.data [] x.handler = "K_SIG_IGN" -> "SIG_IGN"
                            [] OTHER -> "SIG_DFL"
           /\ x.flags = a.flags
           /\ \A n : MayMask(n) => (Sig!z_sig_from_posix(n) \in x.mask <=> n \in a.mask)
  <1>1. PICK d : d = Sig!posix_sig_disposition_get(x)  OBVIOUS
  <1>2. PICK h : h = CASE x.handler = "z_sig_shim" -> x.data [] x.handler = "K_SIG_IGN" -> "SIG_IGN"
                       [] OTHER -> "SIG_DFL"
    OBVIOUS
  <1>3. d.handler = h /\ d.flags = x.flags /\ d.mask = Sig!z_sig_set_to_posix(x.mask)
    BY <1>1, <1>2 DEF Sig!posix_sig_disposition_get
  <1>4. \A n : MayMask(n) => (n \in d.mask <=> Sig!z_sig_from_posix(n) \in x.mask)
    BY <1>3, SetToPosix DEF MayMask
  <1>5. Means(x, a) <=> /\ d.handler = a.handler /\ d.flags = a.flags
                        /\ \A n : MayMask(n) => (n \in d.mask <=> n \in a.mask)
    BY <1>1 DEF Means
  <1> HIDE DEF Means
  <1> QED  BY <1>2, <1>3, <1>4, <1>5

\* The entry that z_sig_action makes of the program's action stands for it.
LEMMA EntryStands ==
  ASSUME NEW a \in Actions
  PROVE  Sig!Entry(Sig!ToKernel(a)) \in KActions /\ Stands(Sig!Entry(Sig!ToKernel(a)), a)
  <1>1. PICK x \in KActions : x = Sig!ToKernel(a) /\ x.handler # "none" /\ Means(x, a)
    BY ActionReadsBack
  <1>2. /\ a.handler = CASE x.handler = "z_sig_shim" -> x.data [] x.handler = "K_SIG_IGN" -> "SIG_IGN"
                         [] OTHER -> "SIG_DFL"
        /\ x.flags = a.flags
        /\ \A n : MayMask(n) => (Sig!z_sig_from_posix(n) \in x.mask <=> n \in a.mask)
    BY <1>1, MeansFields
  <1>3. CASE x.handler = "K_SIG_DFL" /\ x.flags = {} /\ x.mask = {}
    <2>1. Sig!Entry(x) = Sig!NoEntry  BY <1>3 DEF Sig!Entry
    <2>2. Sig!NoEntry \in KActions  BY DEF Sig!NoEntry, KActions, Flags
    <2>3. IsDefault(a)  BY <1>2, <1>3 DEF IsDefault
    <2> QED  BY <1>1, <2>1, <2>2, <2>3 DEF Stands
  <1>4. CASE ~(x.handler = "K_SIG_DFL" /\ x.flags = {} /\ x.mask = {})
    <2>1. PICK y : y = Sig!Entry(x)  OBVIOUS
    <2>2. y = [x EXCEPT !.mask = x.mask \ Sig!UNMASKABLE_MASK]  BY <1>4, <2>1 DEF Sig!Entry
    <2>3. /\ y \in KActions /\ y.handler = x.handler /\ y.data = x.data /\ y.flags = x.flags
          /\ y.mask = x.mask \ Sig!UNMASKABLE_MASK
      BY <2>2 DEF KActions
    <2>4. \A n : MayMask(n) => (Sig!z_sig_from_posix(n) \in y.mask <=> n \in a.mask)
      BY <1>2, <2>3 DEF MayMask
    <2>5. Means(y, a)  BY <1>2, <2>3, <2>4, MeansFields
    <2>6. y # Sig!NoEntry  BY <1>1, <2>3 DEF Sig!NoEntry
    <2> QED  BY <1>1, <2>1, <2>3, <2>5, <2>6 DEF Stands
  <1> QED  BY <1>3, <1>4

\* ... and so does what SA_RESETHAND leaves of both.
LEMMA ResetStands ==
  ASSUME NEW x \in KActions, NEW a \in Actions, x.handler = "z_sig_shim", Stands(x, a)
  PROVE  /\ Sig!KReset(x) \in KActions /\ Sig!AskedReset(a) \in Actions
         /\ Stands(Sig!KReset(x), Sig!AskedReset(a))
  <1>1. PICK y : y = Sig!KReset(x)  OBVIOUS
  <1>2. PICK b : b = Sig!AskedReset(a)  OBVIOUS
  <1>3. x.flags \ {"SA_SIGINFO"} \in Flags /\ a.flags \ {"SA_SIGINFO"} \in Flags
    BY DEF KActions, Actions, Flags
  <1>4. /\ y \in KActions /\ y.handler = "K_SIG_DFL" /\ y.flags = x.flags \ {"SA_SIGINFO"}
        /\ y.mask = x.mask
    BY <1>1, <1>3 DEF Sig!KReset, KActions
  <1>5. /\ b \in Actions /\ b.handler = "SIG_DFL" /\ b.flags = a.flags \ {"SA_SIGINFO"}
        /\ b.mask = a.mask
    BY <1>2, <1>3 DEF Sig!AskedReset, Actions
  <1>6. x # Sig!NoEntry /\ y # Sig!NoEntry  BY <1>4 DEF Sig!NoEntry
  <1>7. x.flags = a.flags
        /\ \A n : MayMask(n) => (Sig!z_sig_from_posix(n) \in x.mask <=> n \in a.mask)
    BY <1>6, MeansFields DEF Stands
  <1>8. Means(y, b)  BY <1>4, <1>5, <1>7, MeansFields
  <1> QED  BY <1>1, <1>2, <1>4, <1>5, <1>6, <1>8 DEF Stands

LEMMA DefaultIs == /\ Sig!Default \in Actions /\ Sig!NoEntry \in KActions
                   /\ Stands(Sig!NoEntry, Sig!Default)
  <1>1. Sig!Default \in Actions /\ Sig!NoEntry \in KActions
    BY DEF Sig!Default, Sig!NoEntry, Actions, KActions, Flags
  <1>2. IsDefault(Sig!Default)  BY DEF IsDefault, Sig!Default
  <1> QED  BY <1>1, <1>2 DEF Stands

\* The C library does not change.
LEMMA NumbersStay ==
  ASSUME signo' = signo
  PROVE  /\ \A n : Sig!z_sig_from_posix(n)' = Sig!z_sig_from_posix(n)
         /\ \A k, a : Stands(k, a)' <=> Stands(k, a)
  <1>1. \A k : Sig!Sig(k)' = Sig!Sig(k)  BY DEF Sig!Sig
  <1>2. \A n : Sig!z_posix_to_k_std(n)' = Sig!z_posix_to_k_std(n)
    <2> SUFFICES ASSUME NEW n PROVE Sig!z_posix_to_k_std(n)' = Sig!z_posix_to_k_std(n)  OBVIOUS
    <2>1. PICK S : S = {k \in Sig!KStd : Sig!Sig(k) = n}  OBVIOUS
    <2>2. S = {k \in Sig!KStd : Sig!Sig(k) = n}'  BY <1>1, <2>1
    <2>3. Sig!z_posix_to_k_std(n) = IF n \in Sig!Reserved THEN n
                                    ELSE IF S = {} THEN 0 ELSE CHOOSE k \in S : TRUE
      BY <2>1 DEF Sig!z_posix_to_k_std
    <2>4. Sig!z_posix_to_k_std(n)' = IF n \in Sig!Reserved THEN n
                                     ELSE IF S = {} THEN 0 ELSE CHOOSE k \in S : TRUE
      BY <2>2 DEF Sig!z_posix_to_k_std
    <2> QED  BY <2>3, <2>4
  <1>3. \A k : Sig!z_k_to_posix_std(k)' = Sig!z_k_to_posix_std(k)  BY <1>1 DEF Sig!z_k_to_posix_std
  <1>4. \A n : Sig!z_sig_from_posix(n)' = Sig!z_sig_from_posix(n)
    BY <1>2 DEF Sig!z_sig_from_posix, Sig!z_sig_map
  <1>5. \A k : Sig!z_sig_to_posix(k)' = Sig!z_sig_to_posix(k)
    BY <1>3 DEF Sig!z_sig_to_posix, Sig!z_sig_map
  <1>6. Sig!z_sig_set_equal' <=> Sig!z_sig_set_equal  BY <1>1 DEF Sig!z_sig_set_equal
  <1>7. \A s : Sig!z_sig_set_to_posix(s)' = Sig!z_sig_set_to_posix(s)
    BY <1>5, <1>6 DEF Sig!z_sig_set_to_posix, Sig!sig_words_remap
  <1>8. \A k : Sig!posix_sig_disposition_get(k)' = Sig!posix_sig_disposition_get(k)
    BY <1>7 DEF Sig!posix_sig_disposition_get
  <1>9. \A n : MayMask(n)' <=> MayMask(n)  BY <1>4 DEF MayMask
  <1>10. \A k, a : Means(k, a)' <=> Means(k, a)  BY <1>8, <1>9 DEF Means
  <1>11. \A a : IsDefault(a)' <=> IsDefault(a)  BY <1>9 DEF IsDefault
  <1> QED  BY <1>4, <1>10, <1>11 DEF Stands

\* A step that changes no action keeps the actions' meaning.
LEMMA ActionsStay ==
  ASSUME ActionsMean, signo' = signo, ks'.act = ks.act, sigSeen'.asked = sigSeen.asked
  PROVE  ActionsMean'
  BY NumbersStay DEF ActionsMean

LEMMA SigInitInv == Sig!Init => SigInv
  <1> SUFFICES ASSUME Sig!Init PROVE SigInv  OBVIOUS
  <1>1. PICK d \in KActions : d = Sig!NoEntry  BY DefaultIs
  <1>2. PICK a \in Actions : a = Sig!Default  BY DefaultIs
  <1>3. PICK user \in BOOLEAN, m \in SUBSET Int :
          ks = [user |-> user, mask |-> m, pending |-> {}, delivered |-> 0,
                act |-> [k \in Sig!Numbers |-> d]]
    <2>1. Sig!Numbers \in SUBSET Int  BY DEF Sig!Numbers
    <2> QED  BY <1>1, <2>1 DEF Sig!Init
  <1>4. sigSeen = [asked |-> [n \in Sigs |-> a], stray |-> FALSE]  BY <1>2 DEF Sig!Init
  <1>5. ks \in Kernels  BY <1>3 DEF Kernels
  <1>6. sigSeen \in Seen /\ ~sigSeen.stray  BY <1>4 DEF Seen
  <1>7. sigCall \in SigCalls /\ sigCall.pc = "idle"  BY DEF Sig!Init, SigCalls
  <1>8. ActionsMean
    <2> SUFFICES ASSUME NEW n \in Sigs, Sig!z_sig_from_posix(n) > 0
                 PROVE  Stands(ks.act[Sig!z_sig_from_posix(n)], sigSeen.asked[n])
      BY DEF ActionsMean
    <2>1. Sig!z_sig_from_posix(n) \in Sig!Numbers  BY FromPosixIs, SignalsAssumption DEF Sig!Numbers
    <2>2. ks.act[Sig!z_sig_from_posix(n)] = d /\ sigSeen.asked[n] = a  BY <1>3, <1>4, <2>1
    <2> QED  BY <1>1, <1>2, <2>2, DefaultIs
  <1> QED  BY <1>5, <1>6, <1>7, <1>8 DEF SigInv, WaitKnows

\* What a changed set of pending or blocked signals leaves of the kernel's record.
LEMMA PendingSet ==
  ASSUME NEW k \in Kernels, NEW p \in SUBSET Sig!Numbers
  PROVE  LET r == [k EXCEPT !.pending = p] IN
         r \in Kernels /\ r.delivered = k.delivered /\ r.act = k.act
  BY DEF Kernels

LEMMA MaskSet ==
  ASSUME NEW k \in Kernels, NEW m \in SUBSET Int
  PROVE  LET r == [k EXCEPT !.mask = m] IN
         r \in Kernels /\ r.delivered = k.delivered /\ r.act = k.act
  BY DEF Kernels

LEMMA SetsOfProgram == \A s \in Sig!Sets : s \in SUBSET Int
  <1>1. Sigs \subseteq Int  BY SignalsAssumption
  <1> QED  BY <1>1 DEF Sig!Sets

LEMMA MaskedIs ==
  ASSUME NEW op \in {"block", "unblock", "set"}, NEW old \in SUBSET Int, NEW s \in SUBSET Int
  PROVE  Sig!Masked(op, old, s) \in SUBSET Int
  BY DEF Sig!Masked

LEMMA SendInv ==
  ASSUME SigInv, NEW k \in 0..(34 + RtMax), Sig!Queue(k), UNCHANGED <<signo, sigCall, sigSeen>>
  PROVE  SigInv'
  <1>1. PICK r \in Kernels : r = ks  BY DEF SigInv
  <1>2. r.pending \cup ({k} \ {0}) \in SUBSET Sig!Numbers
    BY SignalsAssumption DEF Kernels, Sig!Numbers
  <1>3. ks' \in Kernels /\ ks'.delivered = ks.delivered /\ ks'.act = ks.act
    BY <1>1, <1>2, PendingSet DEF Sig!Queue
  <1>4. ActionsMean'  BY <1>3, ActionsStay DEF SigInv
  <1> QED  BY <1>3, <1>4 DEF SigInv, WaitKnows

LEMMA SendStep ==
  ASSUME SigInv, NEW n \in Sigs, Sig!kill(n) \/ Sig!pthread_kill(n) \/ Sig!sigqueue(n)
  PROVE  SigInv'
  <1>1. PICK k : k = Sig!z_sig_from_posix(n)  OBVIOUS
  <1>2. Sig!Queue(k) /\ UNCHANGED <<signo, sigCall, sigSeen>>
    BY <1>1 DEF Sig!kill, Sig!pthread_kill, Sig!sigqueue
  <1>3. k > 0 \/ k = 0
    <2>1. CASE Sig!sigqueue(n)
      <3>1. n \in 0..SetBits /\ k >= 0  BY <1>1, <2>1 DEF Sig!sigqueue
      <3>2. Sig!z_posix_to_k_std(n) \in Int
        BY <3>1, SignalsAssumption DEF Sig!z_posix_to_k_std, Sig!KStd
      <3>3. k \in Int
        BY <1>1, <3>1, <3>2, SignalsAssumption DEF Sig!z_sig_from_posix, Sig!z_sig_map, Sig!SIGRTMIN,
           Sig!SIGRTMAX, Sig!K_SIG_RTMIN
      <3> QED  BY <3>1, <3>3
    <2> QED  BY <1>1, <2>1 DEF Sig!kill, Sig!pthread_kill
  <1>4. k \in 0..(34 + RtMax)  BY <1>1, <1>3, FromPosixIs, SignalsAssumption
  <1> QED  BY <1>2, <1>4, SendInv

LEMMA SigmaskInv ==
  ASSUME SigInv, NEW op \in {"block", "unblock", "set"}, NEW s \in Sig!Sets,
         Sig!pthread_sigmask(op, s)
  PROVE  SigInv'
  <1>1. PICK r \in Kernels : r = ks  BY DEF SigInv
  <1>2. Sig!Masked(op, r.mask, Sig!z_sig_set_from_posix(s)) \in SUBSET Int
    BY SetsOfProgram, SetsAreNumbers, MaskedIs DEF Kernels
  <1>3. ks' \in Kernels /\ ks'.delivered = ks.delivered /\ ks'.act = ks.act
    BY <1>1, <1>2, MaskSet DEF Sig!pthread_sigmask
  <1>4. UNCHANGED <<signo, sigCall, sigSeen>>  BY DEF Sig!pthread_sigmask
  <1>5. ActionsMean'  BY <1>3, <1>4, ActionsStay DEF SigInv
  <1> QED  BY <1>3, <1>4, <1>5 DEF SigInv, WaitKnows

LEMMA SigWaitInv ==
  ASSUME SigInv, NEW s \in Sig!Sets, Sig!SigWait(s)
  PROVE  SigInv'
  <1>1. PICK k \in Sig!z_sig_set_from_posix(s) \cap ks.pending :
          /\ ks' = [ks EXCEPT !.pending = @ \ {k}]
          /\ sigSeen' = [sigSeen EXCEPT !.stray = @ \/ Sig!ksigno_to_posix(k) \notin s]
          /\ UNCHANGED <<signo, sigCall>>
    BY DEF Sig!SigWait
  <1>2. PICK r \in Kernels : r = ks  BY DEF SigInv
  <1>3. r.pending \ {k} \in SUBSET Sig!Numbers  BY DEF Kernels
  <1>4. ks' \in Kernels /\ ks'.delivered = ks.delivered /\ ks'.act = ks.act
    BY <1>1, <1>2, <1>3, PendingSet
  <1>5. Sig!ksigno_to_posix(k) \in s  BY AnswerIsAskedFor
  <1>6. PICK q \in Seen : q = sigSeen /\ ~q.stray  BY DEF SigInv
  <1>7. sigSeen' = [q EXCEPT !.stray = FALSE]  BY <1>1, <1>5, <1>6
  <1>8. sigSeen' \in Seen /\ ~sigSeen'.stray /\ sigSeen'.asked = sigSeen.asked
    BY <1>6, <1>7 DEF Seen
  <1>9. ActionsMean'  BY <1>1, <1>4, <1>8, ActionsStay DEF SigInv
  <1> QED  BY <1>1, <1>4, <1>8, <1>9 DEF SigInv, WaitKnows

LEMMA ActionSet ==
  ASSUME NEW k \in Kernels, NEW f \in Sig!Numbers, NEW x \in KActions
  PROVE  LET r == [k EXCEPT !.act[f] = x] IN
         r \in Kernels /\ r.delivered = k.delivered /\ r.act = [k.act EXCEPT ![f] = x]
  BY DEF Kernels

LEMMA AskedSet ==
  ASSUME NEW q \in Seen, NEW n \in Sigs, NEW a \in Actions, ~q.stray
  PROVE  LET r == [q EXCEPT !.asked[n] = a] IN
         r \in Seen /\ ~r.stray /\ r.asked = [q.asked EXCEPT ![n] = a]
  BY DEF Seen

LEMMA ProgramActionsAre == Sig!ProgramActions \subseteq Actions
  <1>1. Sigs \in SUBSET Int  BY SignalsAssumption
  <1>2. PICK a \in Actions : a = Sig!Default  BY DefaultIs
  <1>3. [a EXCEPT !.handler = "SIG_IGN"] \in Actions  BY DEF Actions
  <1>4. [a EXCEPT !.handler = "handler", !.mask = Sigs] \in Actions  BY <1>1 DEF Actions
  <1>5. [a EXCEPT !.handler = "handler", !.flags = {"SA_RESETHAND", "SA_SIGINFO"}] \in Actions
    BY DEF Actions, Flags
  <1> QED  BY <1>2, <1>3, <1>4, <1>5 DEF Sig!ProgramActions

LEMMA SigactionInv ==
  ASSUME SigInv, NEW n \in Sigs, NEW a \in Sig!ProgramActions, Sig!sigaction(n, a)
  PROVE  SigInv'
  <1>1. PICK f : f = Sig!z_sig_from_posix(n)  OBVIOUS
  <1>2. /\ f > 0 /\ UNCHANGED <<signo, sigCall>>
        /\ ks' = [ks EXCEPT !.act[f] = Sig!Entry(Sig!ToKernel(a))]
        /\ sigSeen' = [sigSeen EXCEPT !.asked[n] = a]
    BY <1>1 DEF Sig!sigaction
  <1>3. f \in Sig!Numbers  BY <1>1, <1>2, FromPosixIs, SignalsAssumption DEF Sig!Numbers
  <1>4. a \in Actions  BY ProgramActionsAre
  <1>5. PICK x \in KActions : x = Sig!Entry(Sig!ToKernel(a)) /\ Stands(x, a)  BY <1>4, EntryStands
  <1>6. PICK k \in Kernels : k = ks  BY DEF SigInv
  <1>7. PICK q \in Seen : q = sigSeen /\ ~q.stray  BY DEF SigInv
  <1>8. ks' \in Kernels /\ ks'.delivered = ks.delivered /\ ks'.act = [k.act EXCEPT ![f] = x]
    BY <1>2, <1>3, <1>5, <1>6, ActionSet
  <1>9. sigSeen' \in Seen /\ ~sigSeen'.stray /\ sigSeen'.asked = [q.asked EXCEPT ![n] = a]
    BY <1>2, <1>4, <1>7, AskedSet
  <1>10. ActionsMean'
    <2> SUFFICES ASSUME NEW m \in Sigs, Sig!z_sig_from_posix(m) > 0
                 PROVE  Stands(ks'.act[Sig!z_sig_from_posix(m)], sigSeen'.asked[m])
      BY <1>2, NumbersStay DEF ActionsMean
    <2>1. k.act \in [Sig!Numbers -> KActions] /\ q.asked \in [Sigs -> Actions]  BY DEF Kernels, Seen
    <2>2. PICK g : g = Sig!z_sig_from_posix(m)  OBVIOUS
    <2>3. g \in Sig!Numbers  BY <2>2, FromPosixIs, SignalsAssumption DEF Sig!Numbers
    <2>4. CASE m = n
      <3>1. ks'.act[f] = x /\ sigSeen'.asked[n] = a  BY <1>3, <1>8, <1>9, <2>1
      <3> QED  BY <1>1, <1>5, <2>4, <3>1
    <2>5. CASE m # n
      <3>1. g # f  BY <1>1, <1>2, <2>2, <2>5, FromPosixIs
      <3>2. ks'.act[g] = k.act[g] /\ sigSeen'.asked[m] = q.asked[m]
        BY <1>8, <1>9, <2>1, <2>3, <2>5, <3>1
      <3> QED  BY <1>6, <1>7, <2>2, <3>2 DEF SigInv, ActionsMean
    <2> QED  BY <2>4, <2>5
  <1> QED  BY <1>2, <1>8, <1>9, <1>10 DEF SigInv, WaitKnows

\* z_sig_shim runs the program's handler, and the action may become the default.
Handles(k, resets) ==
    /\ signo' = signo
    /\ ks' = [ks EXCEPT !.pending = @ \ {k}, !.delivered = @ + 1,
                        !.act[k] = IF resets THEN Sig!KReset(@) ELSE @]
    /\ sigCall' = [sigCall EXCEPT !.ran = TRUE]
    /\ sigSeen' = [sigSeen EXCEPT !.asked = [n \in Sigs |->
            IF resets /\ Sig!z_sig_from_posix(n) = k THEN Sig!AskedReset(@[n]) ELSE @[n]]]

\* What is left of the kernel's record when a signal was handled.
LEMMA HandledSet ==
  ASSUME NEW r \in Kernels, NEW k \in Sig!Numbers, NEW x \in KActions
  PROVE  LET u == [r EXCEPT !.pending = @ \ {k}, !.delivered = @ + 1, !.act[k] = x] IN
         u \in Kernels /\ u.delivered = r.delivered + 1 /\ u.act = [r.act EXCEPT ![k] = x]
  <1>1. PICK p \in SUBSET Sig!Numbers : p = r.pending \ {k}  BY DEF Kernels
  <1>2. PICK i \in Nat : i = r.delivered + 1  BY DEF Kernels
  <1>3. PICK z \in [Sig!Numbers -> KActions] : z = [r.act EXCEPT ![k] = x]  BY DEF Kernels
  <1>4. PICK u : u = [r EXCEPT !.pending = p]  OBVIOUS
  <1>5. PICK v : v = [u EXCEPT !.delivered = i]  OBVIOUS
  <1>6. PICK w : w = [v EXCEPT !.act = z]  OBVIOUS
  <1>7. u \in Kernels  BY <1>4 DEF Kernels
  <1>8. v \in Kernels /\ v.delivered = i  BY <1>5, <1>7 DEF Kernels
  <1>9. w \in Kernels /\ w.delivered = i /\ w.act = z  BY <1>6, <1>8 DEF Kernels
  <1>10. w = [r EXCEPT !.pending = @ \ {k}, !.delivered = @ + 1, !.act[k] = x]
    BY <1>1, <1>2, <1>3, <1>4, <1>5, <1>6 DEF Kernels
  <1> QED  BY <1>2, <1>3, <1>9, <1>10

LEMMA HandlerRunsInv ==
  ASSUME SigInv, NEW k \in ks.pending, NEW resets \in BOOLEAN, ks.act[k].handler = "z_sig_shim",
         Handles(k, resets)
  PROVE  SigInv'
  <1>1. PICK r \in Kernels : r = ks  BY DEF SigInv
  <1>2. PICK q \in Seen : q = sigSeen /\ ~q.stray  BY DEF SigInv
  <1>3. PICK c \in SigCalls : c = sigCall  BY DEF SigInv
  <1>4. /\ k \in Sig!Numbers /\ r.act \in [Sig!Numbers -> KActions] /\ r.delivered \in Nat
        /\ r.act[k] \in KActions /\ r.act[k].handler = "z_sig_shim"
    BY <1>1 DEF Kernels
  <1>5. q.asked \in [Sigs -> Actions]  BY DEF Seen
  <1>6. \A m \in Sigs : Sig!z_sig_from_posix(m) > 0 =>
           Stands(r.act[Sig!z_sig_from_posix(m)], q.asked[m])
    BY <1>1, <1>2 DEF SigInv, ActionsMean
  <1>7. PICK x : x = IF resets THEN Sig!KReset(r.act[k]) ELSE r.act[k]  OBVIOUS
  <1>8. x \in KActions
    <2>1. Sig!KReset(r.act[k]) \in KActions
      <3>1. PICK y \in KActions : y = r.act[k]  BY <1>4
      <3>2. y.flags \ {"SA_SIGINFO"} \in Flags  BY DEF KActions, Flags
      <3> QED  BY <3>1, <3>2 DEF Sig!KReset, KActions
    <2> QED  BY <1>4, <1>7, <2>1
  <1>9. ks' = [r EXCEPT !.pending = @ \ {k}, !.delivered = @ + 1, !.act[k] = x]
    BY <1>1, <1>4, <1>7 DEF Handles, Kernels
  <1>10. /\ ks' \in Kernels /\ ks'.delivered = r.delivered + 1
         /\ ks'.act = [r.act EXCEPT ![k] = x]
    BY <1>4, <1>8, <1>9, HandledSet
  <1>11. PICK b : b = [n \in Sigs |-> IF resets /\ Sig!z_sig_from_posix(n) = k
                                      THEN Sig!AskedReset(q.asked[n]) ELSE q.asked[n]]
    OBVIOUS
  <1>12. \A a \in Actions : Sig!AskedReset(a) \in Actions
    <2> SUFFICES ASSUME NEW a \in Actions PROVE Sig!AskedReset(a) \in Actions  OBVIOUS
    <2>1. a.flags \ {"SA_SIGINFO"} \in Flags  BY DEF Actions, Flags
    <2> QED  BY <2>1 DEF Sig!AskedReset, Actions
  <1>13. b \in [Sigs -> Actions]  BY <1>5, <1>11, <1>12
  <1>14. sigSeen' = [q EXCEPT !.asked = b]  BY <1>2, <1>11 DEF Handles
  <1>15. sigSeen' \in Seen /\ ~sigSeen'.stray /\ sigSeen'.asked = b  BY <1>2, <1>13, <1>14 DEF Seen
  <1>16. sigCall' \in SigCalls /\ sigCall'.ran /\ sigCall'.pc = c.pc /\ sigCall'.start = c.start
    BY <1>3 DEF SigCalls, Handles
  <1>17. WaitKnows'
    <2>1. c.start \in Nat  BY DEF SigCalls
    <2> QED  BY <1>1, <1>3, <1>4, <1>10, <1>16, <2>1 DEF SigInv, WaitKnows
  <1>18. ActionsMean'
    <2> SUFFICES ASSUME NEW m \in Sigs, Sig!z_sig_from_posix(m) > 0
                 PROVE  Stands(ks'.act[Sig!z_sig_from_posix(m)], sigSeen'.asked[m])
      BY NumbersStay DEF ActionsMean, Handles
    <2>1. PICK g : g = Sig!z_sig_from_posix(m)  OBVIOUS
    <2>2. g \in Sig!Numbers  BY <2>1, FromPosixIs, SignalsAssumption DEF Sig!Numbers
    <2>3. Stands(r.act[g], q.asked[m])  BY <1>6, <2>1
    <2>4. CASE resets /\ g = k
      <3>1. ks'.act[g] = Sig!KReset(r.act[k]) /\ sigSeen'.asked[m] = Sig!AskedReset(q.asked[m])
        BY <1>4, <1>7, <1>10, <1>11, <1>15, <2>1, <2>4
      <3>2. q.asked[m] \in Actions  BY <1>5
      <3> QED  BY <1>4, <2>1, <2>3, <2>4, <3>1, <3>2, ResetStands
    <2>5. CASE ~(resets /\ g = k)
      <3>1. ks'.act[g] = r.act[g] /\ sigSeen'.asked[m] = q.asked[m]
        BY <1>4, <1>7, <1>10, <1>11, <1>15, <2>1, <2>2, <2>5
      <3> QED  BY <2>1, <2>3, <3>1
    <2> QED  BY <2>4, <2>5
  <1> QED  BY <1>10, <1>15, <1>16, <1>17, <1>18 DEF SigInv

\* The signal of cancellation is counted, and nothing else happens.
LEMMA CancelCountedInv ==
  ASSUME SigInv, NEW k \in ks.pending,
         ks' = [ks EXCEPT !.pending = @ \ {k}, !.delivered = @ + 1],
         sigCall' = [sigCall EXCEPT !.cancel = TRUE], UNCHANGED <<signo, sigSeen>>
  PROVE  SigInv'
  <1>1. PICK r \in Kernels : r = ks  BY DEF SigInv
  <1>2. PICK c \in SigCalls : c = sigCall  BY DEF SigInv
  <1>3. PICK p \in SUBSET Sig!Numbers : p = r.pending \ {k}  BY DEF Kernels
  <1>4. PICK i \in Nat : i = r.delivered + 1 /\ r.delivered \in Nat  BY DEF Kernels
  <1>5. PICK u : u = [r EXCEPT !.pending = p]  OBVIOUS
  <1>6. u \in Kernels /\ u.act = r.act /\ ks' = [u EXCEPT !.delivered = i]
    BY <1>1, <1>3, <1>4, <1>5 DEF Kernels
  <1>7. ks' \in Kernels /\ ks'.delivered = i /\ ks'.act = ks.act  BY <1>1, <1>6 DEF Kernels
  <1>8. sigCall' \in SigCalls /\ sigCall'.cancel /\ sigCall'.pc = c.pc /\ sigCall'.start = c.start
    BY <1>2 DEF SigCalls
  <1>9. c.start \in Nat  BY DEF SigCalls
  <1>10. WaitKnows'  BY <1>1, <1>2, <1>4, <1>7, <1>8, <1>9 DEF SigInv, WaitKnows
  <1>11. ActionsMean'  BY <1>7, ActionsStay DEF SigInv
  <1> QED  BY <1>7, <1>8, <1>10, <1>11 DEF SigInv

LEMMA DeliverInv ==
  ASSUME SigInv, NEW k \in ks.pending, Sig!Deliver(k)
  PROVE  SigInv'
  <1>1. PICK r \in Kernels : r = ks  BY DEF SigInv
  <1>2. r.pending \ {k} \in SUBSET Sig!Numbers  BY <1>1 DEF Kernels
  <1>3. CASE ks' = [ks EXCEPT !.pending = @ \ {k}] /\ sigSeen' = sigSeen
             /\ (sigCall' = sigCall \/ sigCall' = [sigCall EXCEPT !.pc = "dead"])
    <2>1. ks' \in Kernels /\ ks'.delivered = ks.delivered /\ ks'.act = ks.act
      BY <1>1, <1>2, <1>3, PendingSet
    <2>2. PICK c \in SigCalls : c = sigCall  BY DEF SigInv
    <2>3. /\ [c EXCEPT !.pc = "dead"] \in SigCalls
          /\ [c EXCEPT !.pc = "dead"].pc = "dead"
      BY DEF SigCalls
    <2>4. sigCall' \in SigCalls /\ (sigCall' = sigCall \/ sigCall'.pc = "dead")  BY <1>3, <2>2, <2>3
    <2>5. signo' = signo  BY DEF Sig!Deliver
    <2>6. ActionsMean'  BY <1>3, <2>1, <2>5, ActionsStay DEF SigInv
    <2> QED  BY <1>3, <2>1, <2>4, <2>6 DEF SigInv, WaitKnows
  <1>4. PICK a : a = Sig!Action(k)  OBVIOUS
  <1>5. PICK handler : handler = IF a.handler = "K_SIG_DFL" THEN Sig!z_sig_resolve(k) ELSE a.handler
    OBVIOUS
  <1>6. PICK resets \in BOOLEAN : resets <=> "SA_RESETHAND" \in a.flags  OBVIOUS
  <1>7. CASE handler = "z_sig_shim" /\ Handles(k, resets)
    <2>1. Sig!z_sig_resolve(k) # "z_sig_shim"  BY DEF Sig!z_sig_resolve
    <2>2. a.handler = "z_sig_shim"  BY <1>5, <1>7, <2>1
    <2>3. ks.act[k].handler = "z_sig_shim"
      BY <1>4, <2>2 DEF Sig!Action, Sig!NoEntry
    <2> QED  BY <1>7, <2>3, HandlerRunsInv
  <1>8. CASE /\ ks' = [ks EXCEPT !.pending = @ \ {k}, !.delivered = @ + 1]
             /\ sigCall' = [sigCall EXCEPT !.cancel = TRUE] /\ UNCHANGED <<signo, sigSeen>>
    BY <1>8, CancelCountedInv
  <1> QED  BY <1>3, <1>4, <1>5, <1>6, <1>7, <1>8, Zenon DEF Sig!Deliver, Handles

LEMMA EnterWaitInv ==
  ASSUME SigInv, NEW pc \in {"pause", "sampled"}, NEW saved \in SUBSET Int,
         sigCall' = [pc |-> pc, start |-> ks.delivered, saved |-> saved, ran |-> FALSE,
                     cancel |-> FALSE],
         UNCHANGED <<signo, ks, sigSeen>>
  PROVE  SigInv'
  <1>1. ks.delivered \in Nat  BY DEF SigInv, Kernels
  <1>2. sigCall' \in SigCalls /\ ~sigCall'.ran /\ ~sigCall'.cancel /\ sigCall'.start = ks.delivered
    BY <1>1 DEF SigCalls
  <1>3. ActionsMean'  BY ActionsStay DEF SigInv
  <1> QED  BY <1>1, <1>2, <1>3 DEF SigInv, WaitKnows

LEMMA SuspendMaskInv ==
  ASSUME SigInv, Sig!SuspendMask
  PROVE  SigInv'
  <1>1. PICK r \in Kernels : r = ks  BY DEF SigInv
  <1>2. PICK c \in SigCalls : c = sigCall  BY DEF SigInv
  <1>3. c.pc = "sampled" /\ c.saved \in SUBSET Int /\ r.mask \in SUBSET Int
    BY <1>1, <1>2 DEF Sig!SuspendMask, SigCalls, Kernels
  <1>4. PICK m \in SUBSET Int : m = Sig!Masked("set", r.mask, c.saved)  BY <1>3, MaskedIs
  <1>5. ks' = [r EXCEPT !.mask = m]  BY <1>1, <1>2, <1>4 DEF Sig!SuspendMask
  <1>6. ks' \in Kernels /\ ks'.delivered = ks.delivered /\ ks'.act = ks.act
    BY <1>1, <1>5, MaskSet
  <1>7. sigCall' = [c EXCEPT !.pc = "suspend", !.saved = r.mask]
    BY <1>1, <1>2 DEF Sig!SuspendMask
  <1>8. /\ sigCall' \in SigCalls /\ sigCall'.pc = "suspend" /\ sigCall'.start = c.start
        /\ sigCall'.ran = c.ran /\ sigCall'.cancel = c.cancel
    BY <1>3, <1>7 DEF SigCalls
  <1>9. signo' = signo /\ sigSeen' = sigSeen  BY DEF Sig!SuspendMask
  <1>10. ActionsMean'  BY <1>6, <1>9, ActionsStay DEF SigInv
  <1> QED  BY <1>2, <1>3, <1>6, <1>8, <1>9, <1>10 DEF SigInv, WaitKnows

LEMMA WaitDeliveredInv ==
  ASSUME SigInv, Sig!WaitDelivered
  PROVE  SigInv'
  <1>1. PICK r \in Kernels : r = ks  BY DEF SigInv
  <1>2. PICK c \in SigCalls : c = sigCall  BY DEF SigInv
  <1>3. PICK m \in SUBSET Int : m = IF c.pc = "suspend" THEN c.saved ELSE r.mask
    BY DEF SigCalls, Kernels
  <1>4. ks' = [r EXCEPT !.mask = m]  BY <1>1, <1>2, <1>3 DEF Sig!WaitDelivered
  <1>5. ks' \in Kernels /\ ks'.delivered = ks.delivered /\ ks'.act = ks.act
    BY <1>1, <1>4, MaskSet
  <1>6. sigCall' = [c EXCEPT !.pc = "idle", !.start = 0, !.saved = {}, !.ran = FALSE,
                                !.cancel = FALSE]
    BY <1>2 DEF Sig!WaitDelivered
  <1>7. sigCall' \in SigCalls /\ sigCall'.pc = "idle"  BY <1>6 DEF SigCalls
  <1>8. signo' = signo /\ sigSeen' = sigSeen  BY DEF Sig!WaitDelivered
  <1>9. ActionsMean'  BY <1>5, <1>8, ActionsStay DEF SigInv
  <1> QED  BY <1>5, <1>7, <1>8, <1>9 DEF SigInv, WaitKnows

LEMMA SigUnchanged == ASSUME SigInv, UNCHANGED ofSig PROVE SigInv'
  <1>1. signo' = signo /\ ks' = ks /\ sigCall' = sigCall /\ sigSeen' = sigSeen  BY DEF ofSig
  <1>2. ActionsMean'  BY <1>1, ActionsStay DEF SigInv
  <1> QED  BY <1>1, <1>2 DEF SigInv, WaitKnows

LEMMA SigNextInv == ASSUME SigInv, Sig!Next PROVE SigInv'
  <1>1. ASSUME NEW n \in Sigs, NEW a \in Sig!ProgramActions,
               Sig!sigaction(n, a) \/ Sig!SigactionFails(n, a)
        PROVE  SigInv'
    <2>1. CASE UNCHANGED ofSig  BY <2>1, SigUnchanged
    <2>2. CASE Sig!sigaction(n, a)  BY <2>2, SigactionInv
    <2> QED  BY <1>1, <2>1, <2>2 DEF Sig!SigactionFails, Sig!signalVars, ofSig
  <1>2. ASSUME NEW op \in {"block", "unblock", "set"}, NEW s \in Sig!Sets,
               Sig!pthread_sigmask(op, s) \/ Sig!sigprocmask(op, s)
        PROVE  SigInv'
    BY <1>2, SigmaskInv DEF Sig!sigprocmask
  <1>3. ASSUME NEW n \in Sigs, Sig!kill(n) \/ Sig!pthread_kill(n) \/ Sig!sigqueue(n) PROVE SigInv'
    BY <1>3, SendStep
  <1>4. ASSUME NEW k \in ks.pending, Sig!Deliver(k) PROVE SigInv'  BY <1>4, DeliverInv
  <1>5. ASSUME NEW s \in Sig!Sets, Sig!sigwait(s) \/ Sig!sigwaitinfo(s) \/ Sig!sigtimedwait(s)
        PROVE  SigInv'
    <2>1. CASE UNCHANGED ofSig  BY <2>1, SigUnchanged
    <2>2. CASE Sig!SigWait(s)  BY <2>2, SigWaitInv
    <2> QED
      BY <1>5, <2>1, <2>2 DEF Sig!sigwait, Sig!sigwaitinfo, Sig!sigtimedwait, Sig!signalVars, ofSig
  <1>6. ASSUME NEW s \in Sig!Sets, Sig!SuspendSample(s) PROVE SigInv'
    <2>1. Sig!z_sig_set_from_posix(s) \in SUBSET Int  BY SetsOfProgram, SetsAreNumbers
    <2> QED  BY <1>6, <2>1, EnterWaitInv DEF Sig!SuspendSample
  <1>7. ASSUME Sig!pause PROVE SigInv'
    <2>1. ks.mask \in SUBSET Int  BY DEF SigInv, Kernels
    <2> QED  BY <1>7, <2>1, EnterWaitInv DEF Sig!pause
  <1> QED
    BY <1>1, <1>2, <1>3, <1>4, <1>5, <1>6, <1>7, SuspendMaskInv, WaitDeliveredInv DEF Sig!Next

LEMMA SigInvariance == PartsSpec => []SigInv
  <1>1. PartsInit => SigInv  BY SigInitInv DEF PartsInit
  <1>2. SigInv /\ [PartsNext]_partsVars => SigInv'
    <2> SUFFICES ASSUME SigInv, [PartsNext]_partsVars PROVE SigInv'  OBVIOUS
    <2>1. CASE Sig!Next  BY <2>1, SigNextInv
    <2>2. CASE UNCHANGED ofSig  BY <2>2, SigUnchanged
    <2> QED  BY <2>1, <2>2 DEF PartsNext, partsVars
  <1> QED  BY <1>1, <1>2, PTL DEF PartsSpec

\* pause and sigsuspend return if a handler has run since they were entered, also
\* between the sample and the change of the mask, or if the signal of cancellation
\* was delivered, and for no other reason, for any signals and masks.
THEOREM NoSignalIsMissed == PartsSpec => []SuspendMissesNothing
  <1>1. SigInv => SuspendMissesNothing
    BY DEF SigInv, WaitKnows, SuspendMissesNothing, Sig!SuspendMissesNothing
  <1> QED  BY <1>1, SigInvariance, PTL

\* Whatever numbers the C library gives signals, for any number of real-time
\* signals and any width of a set: an action is read back as the last sigaction that
\* did not fail set it, or as SA_RESETHAND left it, but the default may read as
\* SIG_IGN where it is to ignore and KILL and STOP are not in its mask; sigpending
\* has the signals that are pending; and a wait answers with a signal of its set.
THEOREM SignalsTranslate == PartsSpec => []SignalsKeepTheirMeaning
  <1>1. SigInv => SignalsKeepTheirMeaning
    <2> SUFFICES ASSUME SigInv PROVE Sig!SignalsKeepTheirMeaning
      BY DEF SignalsKeepTheirMeaning
    <2>1. ASSUME NEW n \in Sigs, Sig!IsShared(n)
          PROVE  LET k == Sig!z_sig_from_posix(n)
                     a == Sig!posix_sig_disposition_get(Sig!Action(k))
                     asked == sigSeen.asked[n]
                 IN  /\ a.handler # asked.handler =>
                           /\ asked.handler = "SIG_DFL" /\ a.handler = "SIG_IGN"
                           /\ Sig!z_sig_resolve(k) = "K_SIG_IGN"
                     /\ a.flags = asked.flags
                     /\ a.mask # asked.mask =>
                           a.mask \cap Sig!Maskable = asked.mask \cap Sig!Maskable
      <3>1. PICK k : k = Sig!z_sig_from_posix(n)  OBVIOUS
      <3>2. PICK asked : asked = sigSeen.asked[n]  OBVIOUS
      <3>3. PICK a : a = Sig!posix_sig_disposition_get(Sig!Action(k))  OBVIOUS
      <3>4. Stands(ks.act[k], asked)  BY <2>1, <3>1, <3>2 DEF SigInv, ActionsMean, Sig!IsShared
      <3>5. \A m \in Sig!Maskable : MayMask(m)  BY DEF Sig!Maskable, Sig!Shared, Sig!IsShared, MayMask
      <3>6. CASE ks.act[k] # Sig!NoEntry
        <4>1. Sig!Action(k) = ks.act[k]  BY <3>6 DEF Sig!Action
        <4>2. Means(Sig!Action(k), asked)  BY <3>4, <3>6, <4>1 DEF Stands
        <4>3. /\ a.handler = asked.handler /\ a.flags = asked.flags
              /\ \A m : MayMask(m) => (m \in a.mask <=> m \in asked.mask)
          BY <3>3, <4>2 DEF Means
        <4>4. a.mask \cap Sig!Maskable = asked.mask \cap Sig!Maskable  BY <3>5, <4>3
        <4> QED  BY <3>1, <3>2, <3>3, <4>3, <4>4
      <3>7. CASE ks.act[k] = Sig!NoEntry
        <4>1. IsDefault(asked)  BY <3>4, <3>7 DEF Stands
        <4>2. PICK x : x = Sig!Action(k)  OBVIOUS
        <4>3. /\ x.handler = IF Sig!z_sig_resolve(k) = "K_SIG_IGN" THEN "K_SIG_IGN" ELSE "K_SIG_DFL"
              /\ x.flags = {} /\ x.mask = {}
          BY <3>7, <4>2 DEF Sig!Action, Sig!NoEntry
        <4>4. /\ a.handler = IF Sig!z_sig_resolve(k) = "K_SIG_IGN" THEN "SIG_IGN" ELSE "SIG_DFL"
              /\ a.flags = {} /\ a.mask = Sig!z_sig_set_to_posix({})
          BY <3>3, <4>2, <4>3 DEF Sig!posix_sig_disposition_get
        <4>5. \A m : MayMask(m) => m \notin a.mask  BY <4>4, SetToPosix DEF MayMask
        <4>6. a.mask \cap Sig!Maskable = asked.mask \cap Sig!Maskable
          BY <3>5, <4>1, <4>5 DEF IsDefault
        <4> QED  BY <3>1, <3>2, <3>3, <4>1, <4>4, <4>6 DEF IsDefault
      <3> QED  BY <3>6, <3>7
    <2>2. ASSUME NEW n \in Sigs, Sig!IsShared(n)
          PROVE  n \in Sig!sigpending <=> Sig!z_sig_from_posix(n) \in ks.pending
      BY <2>2, SetToPosix DEF Sig!sigpending, Sig!IsShared
    <2>3. ~sigSeen.stray  BY DEF SigInv
    <2> QED  BY <2>1, <2>2, <2>3 DEF Sig!SignalsKeepTheirMeaning
  <1> QED  BY <1>1, SigInvariance, PTL

-----------------------------------------------------------------------------
(* Shared memory objects *)

ObjRec == [listed : BOOLEAN, hash : Names \cup {NULL}, size : 0..IntMax,
           mem : Regions \cup {NULL}, unlinked : BOOLEAN]
FdRec == [state : {"free", "reserved", "open"}, obj : ShmObjs \cup {NULL}, off : 0..IntMax]
OpenRec == [fd : Fds \cup {NULL}, obj : ShmObjs \cup {NULL}, hash : Names \cup {NULL}]

ShmTypes ==
    /\ shm \in [ShmObjs -> ObjRec] /\ fdt \in [Fds -> FdRec]
    /\ shmCall \in [Callers -> OpenRec] /\ pages \subseteq Regions

IsOpen(f, o) == fdt[f].state = "open" /\ fdt[f].obj = o

\* A descriptor that is open is of an object that is in the list.
OpenAreListed == \A f \in Fds : fdt[f].state = "open" =>
    fdt[f].obj \in ShmObjs /\ shm[fdt[f].obj].listed

\* An object that is not in the list has neither memory nor a name to lose; one
\* that is unlinked is in the list for a descriptor.
ObjectsNeeded == \A o \in ShmObjs :
    /\ ~shm[o].listed => shm[o].size = 0 /\ ~shm[o].unlinked
    /\ shm[o].unlinked => \E f \in Fds : IsOpen(f, o)

NamesFindOne ==
    /\ \A o \in ShmObjs : shm[o].listed => shm[o].hash \in Names
    /\ \A o, p \in ShmObjs : shm[o].listed /\ shm[p].listed /\ shm[o].hash = shm[p].hash => o = p

\* Every page is of one object that has a size, and the other way round.
MemoryOwned ==
    /\ \A o \in ShmObjs : shm[o].size > 0 => shm[o].mem \in pages
    /\ \A r \in pages : \E o \in ShmObjs : shm[o].mem = r /\ shm[o].size > 0
    /\ \A o, p \in ShmObjs : shm[o].size > 0 /\ shm[p].size > 0 /\ shm[o].mem = shm[p].mem => o = p

\* Between looking for the name and finishing, what shm_open found stays true: at
\* most one call is there, its descriptor is reserved, the object that it found is
\* listed and not unlinked, and a name that it did not find is still free.
OpensAgree ==
    /\ \A c, d \in Callers : shmCall[c].fd # NULL /\ shmCall[d].fd # NULL => c = d
    /\ \A c \in Callers : shmCall[c].fd # NULL =>
        /\ fdt[shmCall[c].fd].state = "reserved"
        /\ shmCall[c].obj # NULL => shm[shmCall[c].obj].listed
        /\ shmCall[c].obj = NULL =>
             /\ shmCall[c].hash \in Names
             /\ \A o \in ShmObjs : shm[o].listed => shm[o].hash # shmCall[c].hash

\* The inductive invariant of shared memory objects.
ShmInv == ShmTypes /\ OpenAreListed /\ ObjectsNeeded /\ NamesFindOne /\ MemoryOwned /\ OpensAgree

LEMMA FreeAre == Shm!FreeObj \in ObjRec /\ Shm!FreeFd \in FdRec /\ Shm!NoOpen \in OpenRec
  BY ShmAssumption DEF Shm!FreeObj, Shm!FreeFd, Shm!NoOpen, ObjRec, FdRec, OpenRec

LEMMA SameCardinality == \A S : Shm!Cardinality(S) = Cardinality(S)
  BY DEF Shm!Cardinality, Cardinality

\* zvfs_fd_obj_refcount is 0 if no descriptor of the object is open, and 1 if there
\* is one of them only.
LEMMA RefCountIs ==
  ASSUME NEW o
  PROVE  /\ Shm!RefCount(o) = 0 => \A f \in Fds : ~IsOpen(f, o)
         /\ Shm!RefCount(o) > 0 <=> \E f \in Fds : IsOpen(f, o)
         /\ Shm!RefCount(o) # 0 => \E f \in Fds : IsOpen(f, o)
         /\ \A f \in Fds : IsOpen(f, o) /\ Shm!RefCount(o) # 1 => \E g \in Fds \ {f} : IsOpen(g, o)
         /\ \A f, g \in Fds : IsOpen(f, o) /\ IsOpen(g, o) /\ Shm!RefCount(o) = 1 => f = g
  <1>1. PICK S : S = {f \in Fds : IsOpen(f, o)}  OBVIOUS
  <1>2. Shm!RefCount(o) = Shm!Cardinality(S)  BY <1>1 DEF Shm!RefCount, IsOpen
  <1>3. IsFiniteSet(S)  BY <1>1, ShmAssumption, FS_Subset
  <1>4. Cardinality(S) \in Nat /\ (Cardinality(S) = 0 <=> S = {})
    BY <1>3, FS_CardinalityType, FS_EmptySet
  <1>5. Cardinality(S) = 1 <=> \E f : S = {f}  BY <1>3, FS_Singleton
  <1>6. Shm!RefCount(o) = Cardinality(S)  BY <1>2, SameCardinality
  <1>7. Shm!RefCount(o) = 0 => \A f \in Fds : ~IsOpen(f, o)  BY <1>1, <1>4, <1>6
  <1>8. (Shm!RefCount(o) > 0 <=> S # {}) /\ (Shm!RefCount(o) # 0 => S # {})  BY <1>4, <1>6
  <1>9. ASSUME NEW f \in Fds, IsOpen(f, o), Shm!RefCount(o) # 1
        PROVE  \E g \in Fds \ {f} : IsOpen(g, o)
    <2>1. f \in S /\ S # {f}  BY <1>1, <1>5, <1>6, <1>9
    <2> QED  BY <1>1, <2>1
  <1>10. ASSUME NEW f \in Fds, NEW g \in Fds, IsOpen(f, o), IsOpen(g, o), Shm!RefCount(o) = 1
         PROVE  f = g
    <2>1. PICK x : S = {x}  BY <1>5, <1>6, <1>10
    <2>2. f \in S /\ g \in S  BY <1>1, <1>10
    <2> QED  BY <2>1, <2>2
  <1> QED  BY <1>1, <1>7, <1>8, <1>9, <1>10

LEMMA ShmInitInv == Shm!Init => ShmInv
  <1> SUFFICES ASSUME Shm!Init PROVE ShmInv  OBVIOUS
  <1>1. ShmTypes  BY FreeAre DEF Shm!Init, ShmTypes
  <1>2. /\ \A o \in ShmObjs : ~shm[o].listed /\ shm[o].size = 0 /\ ~shm[o].unlinked
        /\ \A f \in Fds : fdt[f].state = "free"
        /\ \A c \in Callers : shmCall[c].fd = NULL
        /\ pages = {}
    BY DEF Shm!Init, Shm!FreeObj, Shm!FreeFd, Shm!NoOpen
  <1> QED
    BY <1>1, <1>2 DEF ShmInv, OpenAreListed, ObjectsNeeded, NamesFindOne, MemoryOwned, OpensAgree

\* With calls that do not overlap, a call that starts finds none under way.
LEMMA AloneIs ==
  ASSUME Kept, NEW c \in Callers, Shm!Idle(c)  PROVE \A d \in Callers : shmCall[d].fd = NULL
  BY DEF Shm!Idle, Shm!Alone

LEMMA FoundIs ==
  ASSUME NEW h
  PROVE  LET o == Shm!shm_obj_find(h) IN
         /\ o # NULL => o \in ShmObjs /\ shm[o].listed /\ shm[o].hash = h
         /\ o = NULL => \A p \in ShmObjs : shm[p].listed => shm[p].hash # h
  BY ShmAssumption DEF Shm!shm_obj_find

LEMMA OpenFindInv ==
  ASSUME Kept, ShmInv, NEW c \in Callers, NEW h \in Names, NEW creat, NEW excl,
         Shm!OpenFind(c, h, creat, excl)
  PROVE  ShmInv'
  <1>1. PICK f \in Fds :
          /\ Shm!Idle(c) /\ fdt[f].state = "free"
          /\ shmCall' = [shmCall EXCEPT ![c] = [fd |-> f, obj |-> Shm!shm_obj_find(h), hash |-> h]]
          /\ fdt' = [fdt EXCEPT ![f].state = "reserved"]
          /\ UNCHANGED <<shm, pages, maps>>
    BY DEF Shm!OpenFind
  <1>2. PICK o : o = Shm!shm_obj_find(h)  OBVIOUS
  <1>3. /\ o # NULL => o \in ShmObjs /\ shm[o].listed
        /\ o = NULL => \A p \in ShmObjs : shm[p].listed => shm[p].hash # h
    BY <1>2, FoundIs
  <1>4. PICK call0 \in OpenRec : call0 = [fd |-> f, obj |-> o, hash |-> h]
    BY <1>3 DEF OpenRec
  <1>5. shmCall' = [shmCall EXCEPT ![c] = call0]  BY <1>1, <1>2, <1>4
  <1>6. shmCall' \in [Callers -> OpenRec] /\ shmCall'[c] = call0
    BY <1>5 DEF ShmInv, ShmTypes
  <1>7. \A d \in Callers : d # c => shmCall'[d].fd = NULL
    BY <1>1, <1>5, AloneIs DEF ShmInv, ShmTypes
  <1>8. call0.fd = f /\ call0.obj = o /\ call0.hash = h /\ f # NULL
    BY <1>4, ShmAssumption
  <1>9. /\ fdt' \in [Fds -> FdRec] /\ fdt'[f].state = "reserved"
        /\ \A g \in Fds : g # f => fdt'[g] = fdt[g]
    BY <1>1 DEF ShmInv, ShmTypes, FdRec
  <1>10. \A g \in Fds : fdt'[g].state = "open" => fdt'[g] = fdt[g]  BY <1>9
  <1>11. \A g \in Fds : \A p : IsOpen(g, p) <=> IsOpen(g, p)'  BY <1>1, <1>9 DEF IsOpen
  <1>12. ShmTypes' /\ NamesFindOne' /\ MemoryOwned'
    BY <1>1, <1>6, <1>9 DEF ShmInv, ShmTypes, NamesFindOne, MemoryOwned
  <1>13. OpenAreListed'  BY <1>1, <1>10 DEF ShmInv, OpenAreListed
  <1>14. ObjectsNeeded'  BY <1>1, <1>11 DEF ShmInv, ObjectsNeeded
  <1>15. OpensAgree'
    BY <1>1, <1>3, <1>6, <1>7, <1>8, <1>9 DEF OpensAgree
  <1> QED  BY <1>12, <1>13, <1>14, <1>15 DEF ShmInv

LEMMA OpenFinishInv ==
  ASSUME Kept, ShmInv, NEW c \in Callers, Shm!OpenFinish(c)
  PROVE  ShmInv'
  <1>1. PICK f : f = shmCall[c].fd  OBVIOUS
  <1>2. /\ f \in Fds /\ fdt[f].state = "reserved" /\ shmCall[c] \in OpenRec
        /\ \A d \in Callers : d # c => shmCall[d].fd = NULL
    BY <1>1 DEF Shm!OpenFinish, ShmInv, ShmTypes, OpensAgree, OpenRec
  <1>3. PICK o \in IF shmCall[c].obj # NULL THEN {shmCall[c].obj} ELSE {x \in ShmObjs : ~shm[x].listed} :
          /\ shm' = IF shmCall[c].obj # NULL THEN shm
                    ELSE [shm EXCEPT ![o] = [Shm!FreeObj EXCEPT !.listed = TRUE, !.hash = shmCall[c].hash]]
          /\ fdt' = [fdt EXCEPT ![f] = [state |-> "open", obj |-> o, off |-> 0]]
    BY <1>1 DEF Shm!OpenFinish
  <1>4. shmCall' = [shmCall EXCEPT ![c] = Shm!NoOpen] /\ pages' = pages
    BY DEF Shm!OpenFinish
  <1>5. o \in ShmObjs  BY <1>2, <1>3 DEF OpenRec
  <1>6. PICK d \in FdRec : d = [state |-> "open", obj |-> o, off |-> 0]
    <2>1. 0 \in 0..IntMax  BY ShmAssumption
    <2> QED  BY <1>5, <2>1 DEF FdRec
  <1>7. fdt' = [fdt EXCEPT ![f] = d] /\ d.state = "open" /\ d.obj = o  BY <1>3, <1>6
  <1>8. fdt' \in [Fds -> FdRec] /\ fdt'[f] = d /\ \A g \in Fds : g # f => fdt'[g] = fdt[g]
    BY <1>2, <1>7 DEF ShmInv, ShmTypes
  <1>9. /\ shmCall' \in [Callers -> OpenRec]
        /\ \A x \in Callers : shmCall'[x].fd = NULL
    BY <1>2, <1>4, FreeAre DEF ShmInv, ShmTypes, Shm!NoOpen
  <1>10. OpensAgree'  BY <1>9 DEF OpensAgree
  <1>11. \A g \in Fds : \A p : IsOpen(g, p) => IsOpen(g, p)'  BY <1>2, <1>8 DEF IsOpen
  <1>12. CASE shmCall[c].obj # NULL
    <2>1. shm' = shm /\ shm[o].listed
      BY <1>1, <1>2, <1>3, <1>12, ShmAssumption DEF ShmInv, OpensAgree
    <2>2. ShmTypes' /\ NamesFindOne' /\ MemoryOwned'
      BY <1>4, <1>8, <1>9, <2>1 DEF ShmInv, ShmTypes, NamesFindOne, MemoryOwned
    <2>3. OpenAreListed'
      BY <1>5, <1>7, <1>8, <2>1 DEF ShmInv, OpenAreListed
    <2>4. ObjectsNeeded'  BY <1>11, <2>1 DEF ShmInv, ObjectsNeeded
    <2> QED  BY <1>10, <2>2, <2>3, <2>4 DEF ShmInv
  <1>13. CASE shmCall[c].obj = NULL
    <2>1. PICK h : h = shmCall[c].hash  OBVIOUS
    <2>2. h \in Names /\ \A p \in ShmObjs : shm[p].listed => shm[p].hash # h
      BY <1>1, <1>2, <1>13, <2>1, ShmAssumption DEF ShmInv, OpensAgree
    <2>3. PICK n \in ObjRec : n = [Shm!FreeObj EXCEPT !.listed = TRUE, !.hash = h]
      BY <2>2, FreeAre DEF ObjRec
    <2>4. n.listed /\ n.hash = h /\ n.size = 0 /\ ~n.unlinked
      BY <2>3 DEF Shm!FreeObj
    <2>5. shm' = [shm EXCEPT ![o] = n] /\ ~shm[o].listed  BY <1>3, <1>13, <2>1, <2>3
    <2>6. shm' \in [ShmObjs -> ObjRec] /\ shm'[o] = n /\ \A p \in ShmObjs : p # o => shm'[p] = shm[p]
      BY <1>5, <2>5 DEF ShmInv, ShmTypes
    <2>7. shm[o].size = 0  BY <1>5, <2>5 DEF ShmInv, ObjectsNeeded
    <2>8. ShmTypes'  BY <1>4, <1>8, <1>9, <2>6 DEF ShmInv, ShmTypes
    <2>9. NamesFindOne'  BY <2>2, <2>4, <2>6 DEF ShmInv, NamesFindOne
    <2>10. MemoryOwned'
      BY <1>4, <1>5, <2>4, <2>6, <2>7 DEF ShmInv, MemoryOwned
    <2>11. OpenAreListed'
      BY <1>5, <1>7, <1>8, <2>4, <2>6 DEF ShmInv, OpenAreListed
    <2>12. ObjectsNeeded'  BY <1>11, <2>4, <2>6 DEF ShmInv, ObjectsNeeded
    <2> QED  BY <1>10, <2>8, <2>9, <2>10, <2>11, <2>12 DEF ShmInv
  <1> QED  BY <1>12, <1>13

\* Nothing to remember of a call to shm_open.
LEMMA NoneOpening ==
  ASSUME Kept, NEW c \in Callers, Shm!Idle(c), shmCall' = shmCall  PROVE OpensAgree'
  BY AloneIs DEF OpensAgree

LEMMA RemoveInv ==
  ASSUME Kept, ShmInv, NEW o \in ShmObjs, Shm!shm_obj_remove(o), OpensAgree', shmCall' = shmCall,
         fdt' \in [Fds -> FdRec],
         \A f \in Fds : fdt'[f].state = "open" => fdt'[f] = fdt[f] /\ fdt[f].obj # o,
         \A f \in Fds, p \in ShmObjs : p # o /\ IsOpen(f, p) => IsOpen(f, p)'
  PROVE  ShmInv'
  <1>1. PICK n \in ObjRec : n = Shm!FreeObj  BY FreeAre
  <1>2. ~n.listed /\ n.size = 0 /\ ~n.unlinked  BY <1>1 DEF Shm!FreeObj
  <1>3. /\ shm' = [shm EXCEPT ![o] = n]
        /\ pages' = pages \ (IF shm[o].size > 0 THEN {shm[o].mem} ELSE {})
    BY <1>1 DEF Shm!shm_obj_remove
  <1>4. shm' \in [ShmObjs -> ObjRec] /\ shm'[o] = n /\ \A p \in ShmObjs : p # o => shm'[p] = shm[p]
    BY <1>3 DEF ShmInv, ShmTypes
  <1>5. ShmTypes'  BY <1>3, <1>4 DEF ShmInv, ShmTypes
  <1>6. NamesFindOne'  BY <1>2, <1>4 DEF ShmInv, NamesFindOne
  <1>7. MemoryOwned'
    <2>1. ASSUME NEW p \in ShmObjs, shm'[p].size > 0  PROVE shm'[p].mem \in pages'
      <3>1. p # o /\ shm[p].size > 0 /\ shm'[p] = shm[p]  BY <1>2, <1>4, <2>1
      <3>2. shm[p].mem \in pages /\ ~(shm[o].size > 0 /\ shm[o].mem = shm[p].mem)
        BY <3>1 DEF ShmInv, MemoryOwned
      <3> QED  BY <1>3, <3>1, <3>2
    <2>2. ASSUME NEW r \in pages'  PROVE \E p \in ShmObjs : shm'[p].mem = r /\ shm'[p].size > 0
      <3>1. r \in pages /\ ~(shm[o].size > 0 /\ shm[o].mem = r)  BY <1>3, <2>2
      <3>2. PICK p \in ShmObjs : shm[p].mem = r /\ shm[p].size > 0
        BY <3>1 DEF ShmInv, MemoryOwned
      <3> QED  BY <1>4, <3>1, <3>2
    <2>3. \A p, q \in ShmObjs : shm'[p].size > 0 /\ shm'[q].size > 0 /\ shm'[p].mem = shm'[q].mem
            => p = q
      BY <1>2, <1>4 DEF ShmInv, MemoryOwned
    <2> QED  BY <2>1, <2>2, <2>3 DEF MemoryOwned
  <1>8. OpenAreListed'  BY <1>4 DEF ShmInv, OpenAreListed
  <1>9. ObjectsNeeded'  BY <1>2, <1>4 DEF ShmInv, ObjectsNeeded
  <1> QED  BY <1>5, <1>6, <1>7, <1>8, <1>9 DEF ShmInv

LEMMA UnlinkInv ==
  ASSUME Kept, ShmInv, NEW c \in Callers, NEW h \in Names, Shm!shm_unlink(c, h)
  PROVE  ShmInv'
  <1>1. PICK o : o = Shm!shm_obj_find(h)  OBVIOUS
  <1>2. o \in ShmObjs /\ shm[o].listed  BY <1>1, FoundIs DEF Shm!shm_unlink
  <1>3. Shm!Idle(c) /\ fdt' = fdt /\ shmCall' = shmCall  BY DEF Shm!shm_unlink
  <1>4. OpensAgree'  BY <1>3, NoneOpening
  <1>5. \A f, p : IsOpen(f, p)' <=> IsOpen(f, p)  BY <1>3 DEF IsOpen
  <1>6. CASE Shm!RefCount(o) = 0
    <2>1. Shm!shm_obj_remove(o)  BY <1>1, <1>6 DEF Shm!shm_unlink
    <2>2. \A f \in Fds : fdt[f].state = "open" => fdt[f].obj # o  BY <1>6, RefCountIs DEF IsOpen
    <2>3. fdt' \in [Fds -> FdRec]  BY <1>3 DEF ShmInv, ShmTypes
    <2> QED  BY <1>2, <1>3, <1>4, <1>5, <2>1, <2>2, <2>3, RemoveInv
  <1>7. CASE Shm!RefCount(o) # 0
    <2>1. shm' = [shm EXCEPT ![o].unlinked = TRUE] /\ pages' = pages
      BY <1>1, <1>7 DEF Shm!shm_unlink
    <2>2. PICK n \in ObjRec : n = [shm[o] EXCEPT !.unlinked = TRUE]
      BY <1>2 DEF ShmInv, ShmTypes, ObjRec
    <2>3. n.listed /\ n.hash = shm[o].hash /\ n.size = shm[o].size /\ n.mem = shm[o].mem
      BY <1>2, <2>2 DEF ShmInv, ShmTypes, ObjRec
    <2>4. shm' = [shm EXCEPT ![o] = n]  BY <2>1, <2>2
    <2>5. shm' \in [ShmObjs -> ObjRec] /\ shm'[o] = n /\ \A p \in ShmObjs : p # o => shm'[p] = shm[p]
      BY <1>2, <2>4 DEF ShmInv, ShmTypes
    <2>6. \E f \in Fds : IsOpen(f, o)  BY <1>7, RefCountIs
    <2>7. ShmTypes'  BY <1>3, <2>1, <2>5 DEF ShmInv, ShmTypes
    <2>8. NamesFindOne'  BY <1>2, <2>3, <2>5 DEF ShmInv, NamesFindOne
    <2>9. \A p \in ShmObjs : shm'[p].size = shm[p].size /\ shm'[p].mem = shm[p].mem
      BY <2>3, <2>5
    <2>10. MemoryOwned'  BY <2>1, <2>9 DEF ShmInv, MemoryOwned
    <2>11. OpenAreListed'  BY <1>3, <2>3, <2>5 DEF ShmInv, OpenAreListed
    <2>12. ObjectsNeeded'  BY <1>5, <2>3, <2>5, <2>6 DEF ShmInv, ObjectsNeeded
    <2> QED  BY <1>4, <2>7, <2>8, <2>10, <2>11, <2>12 DEF ShmInv
  <1> QED  BY <1>6, <1>7

LEMMA CloseInv ==
  ASSUME Kept, ShmInv, NEW c \in Callers, NEW f \in Fds, Shm!shm_close(c, f)
  PROVE  ShmInv'
  <1>1. PICK o : o = fdt[f].obj  OBVIOUS
  <1>2. Shm!Idle(c) /\ fdt[f].state = "open" /\ shmCall' = shmCall
    BY DEF Shm!shm_close, Shm!On
  <1>3. o \in ShmObjs /\ shm[o].listed /\ IsOpen(f, o)
    BY <1>1, <1>2 DEF ShmInv, OpenAreListed, IsOpen
  <1>4. OpensAgree'  BY <1>2, NoneOpening
  <1>5. PICK d \in FdRec : d = Shm!FreeFd  BY FreeAre
  <1>6. fdt' = [fdt EXCEPT ![f] = d] /\ d.state = "free"
    BY <1>5 DEF Shm!shm_close, Shm!FreeFd
  <1>7. fdt' \in [Fds -> FdRec] /\ fdt'[f] = d /\ \A g \in Fds : g # f => fdt'[g] = fdt[g]
    BY <1>6 DEF ShmInv, ShmTypes
  <1>8. \A g \in Fds : \A p : g # f /\ IsOpen(g, p) => IsOpen(g, p)'  BY <1>7 DEF IsOpen
  <1>9. CASE Shm!RefCount(o) = 1 /\ shm[o].unlinked
    <2>1. Shm!shm_obj_remove(o)  BY <1>1, <1>9 DEF Shm!shm_close
    <2>2. \A g \in Fds : IsOpen(g, o) => g = f  BY <1>3, <1>9, RefCountIs
    <2>3. \A g \in Fds : fdt'[g].state = "open" => fdt'[g] = fdt[g] /\ fdt[g].obj # o
      BY <1>6, <1>7, <2>2 DEF IsOpen
    <2>4. \A g \in Fds, p \in ShmObjs : p # o /\ IsOpen(g, p) => IsOpen(g, p)'
      BY <1>1, <1>8 DEF IsOpen
    <2> QED  BY <1>2, <1>3, <1>4, <1>7, <2>1, <2>3, <2>4, RemoveInv
  <1>10. CASE ~(Shm!RefCount(o) = 1 /\ shm[o].unlinked)
    <2>1. shm' = shm /\ pages' = pages  BY <1>1, <1>10 DEF Shm!shm_close
    <2>2. shm[o].unlinked => \E g \in Fds \ {f} : IsOpen(g, o)  BY <1>3, <1>10, RefCountIs
    <2>3. ShmTypes' /\ NamesFindOne' /\ MemoryOwned'
      BY <1>2, <1>7, <2>1 DEF ShmInv, ShmTypes, NamesFindOne, MemoryOwned
    <2>4. OpenAreListed'  BY <1>6, <1>7, <2>1 DEF ShmInv, OpenAreListed
    <2>5. ASSUME NEW p \in ShmObjs, shm[p].unlinked  PROVE \E g \in Fds : IsOpen(g, p)'
      <3>1. CASE p = o  BY <1>8, <2>2, <2>5, <3>1
      <3>2. CASE p # o
        <4>1. PICK g \in Fds : IsOpen(g, p)  BY <2>5 DEF ShmInv, ObjectsNeeded
        <4>2. g # f  BY <1>1, <3>2, <4>1 DEF IsOpen
        <4> QED  BY <1>8, <4>1, <4>2
      <3> QED  BY <3>1, <3>2
    <2>6. ObjectsNeeded'  BY <2>1, <2>5 DEF ShmInv, ObjectsNeeded
    <2> QED  BY <1>4, <2>3, <2>4, <2>6 DEF ShmInv
  <1> QED  BY <1>9, <1>10

LEMMA DupInv ==
  ASSUME Kept, ShmInv, NEW c \in Callers, NEW f \in Fds, Shm!Dup(c, f)
  PROVE  ShmInv'
  <1>1. PICK g \in Fds : /\ Shm!Idle(c) /\ fdt[f].state = "open" /\ fdt[g].state = "free"
                         /\ fdt' = [fdt EXCEPT ![g] = fdt[f]]
                         /\ UNCHANGED <<shm, pages, maps, shmCall>>
    BY DEF Shm!Dup, Shm!On
  <1>2. OpensAgree'  BY <1>1, NoneOpening
  <1>3. PICK d \in FdRec : d = fdt[f]  BY DEF ShmInv, ShmTypes
  <1>4. fdt' \in [Fds -> FdRec] /\ fdt'[g] = d /\ \A x \in Fds : x # g => fdt'[x] = fdt[x]
    BY <1>1, <1>3 DEF ShmInv, ShmTypes
  <1>5. \A x \in Fds : \A p : IsOpen(x, p) => IsOpen(x, p)'  BY <1>1, <1>4 DEF IsOpen
  <1>6. ShmTypes' /\ NamesFindOne' /\ MemoryOwned'
    BY <1>1, <1>4 DEF ShmInv, ShmTypes, NamesFindOne, MemoryOwned
  <1>7. OpenAreListed'  BY <1>1, <1>3, <1>4 DEF ShmInv, OpenAreListed
  <1>8. ObjectsNeeded'  BY <1>1, <1>5 DEF ShmInv, ObjectsNeeded
  <1> QED  BY <1>2, <1>6, <1>7, <1>8 DEF ShmInv

LEMMA FtruncateInv ==
  ASSUME Kept, ShmInv, NEW c \in Callers, NEW f \in Fds, NEW length \in 1..2,
         Shm!shm_ftruncate(c, f, length)
  PROVE  ShmInv'
  <1>1. PICK o : o = fdt[f].obj  OBVIOUS
  <1>2. PICK r \in Regions \ pages :
          /\ Shm!Idle(c) /\ fdt[f].state = "open" /\ shm[o].size = 0
          /\ pages' = pages \cup {r}
          /\ shm' = [shm EXCEPT ![o].mem = r, ![o].size = length]
          /\ UNCHANGED <<fdt, maps, shmCall>>
    BY <1>1 DEF Shm!shm_ftruncate, Shm!On
  <1>3. o \in ShmObjs /\ shm[o].listed /\ shm[o] \in ObjRec
    BY <1>1, <1>2 DEF ShmInv, ShmTypes, OpenAreListed
  <1>4. OpensAgree'  BY <1>2, NoneOpening
  <1>5. PICK m \in ObjRec : m = [shm[o] EXCEPT !.mem = r]  BY <1>3 DEF ObjRec
  <1>6. /\ m.mem = r /\ m.listed /\ m.hash = shm[o].hash /\ m.unlinked = shm[o].unlinked
    BY <1>3, <1>5 DEF ObjRec
  <1>7. PICK n \in ObjRec : n = [m EXCEPT !.size = length]
    <2>1. length \in 0..IntMax  BY ShmAssumption
    <2> QED  BY <2>1 DEF ObjRec
  <1>8. /\ n.mem = r /\ n.size = length /\ n.listed /\ n.hash = shm[o].hash
        /\ n.unlinked = shm[o].unlinked
    BY <1>6, <1>7 DEF ObjRec
  <1>9. shm' = [shm EXCEPT ![o] = n]
    <2>1. PICK s1 : s1 = [shm EXCEPT ![o].mem = r]  OBVIOUS
    <2>2. s1 = [shm EXCEPT ![o] = m]  BY <1>5, <2>1
    <2>3. s1[o] = m  BY <1>3, <2>2 DEF ShmInv, ShmTypes
    <2>4. shm' = [s1 EXCEPT ![o].size = length]  BY <1>2, <2>1
    <2>5. shm' = [s1 EXCEPT ![o] = n]  BY <1>7, <2>3, <2>4
    <2> QED  BY <1>3, <2>2, <2>5 DEF ShmInv, ShmTypes
  <1>10. shm' \in [ShmObjs -> ObjRec] /\ shm'[o] = n /\ \A p \in ShmObjs : p # o => shm'[p] = shm[p]
    BY <1>3, <1>9 DEF ShmInv, ShmTypes
  <1>11. \A x, p : IsOpen(x, p)' <=> IsOpen(x, p)  BY <1>2 DEF IsOpen
  <1>12. ShmTypes'  BY <1>2, <1>10 DEF ShmInv, ShmTypes
  <1>13. NamesFindOne'  BY <1>3, <1>8, <1>10 DEF ShmInv, NamesFindOne
  <1>14. OpenAreListed'  BY <1>2, <1>8, <1>10 DEF ShmInv, OpenAreListed
  <1>15. ObjectsNeeded'  BY <1>3, <1>8, <1>10, <1>11 DEF ShmInv, ObjectsNeeded
  <1>16. MemoryOwned'
    <2>1. \A p \in ShmObjs : p # o /\ shm'[p].size > 0 => shm'[p].mem \in pages /\ shm'[p].mem # r
      BY <1>2, <1>10 DEF ShmInv, MemoryOwned
    <2>2. ASSUME NEW s \in pages'  PROVE \E p \in ShmObjs : shm'[p].mem = s /\ shm'[p].size > 0
      <3>1. CASE s = r  BY <1>3, <1>8, <1>10, <3>1
      <3>2. CASE s # r
        <4>1. s \in pages  BY <1>2, <2>2, <3>2
        <4>2. PICK p \in ShmObjs : shm[p].mem = s /\ shm[p].size > 0
          BY <4>1 DEF ShmInv, MemoryOwned
        <4> QED  BY <1>2, <1>10, <4>2
      <3> QED  BY <3>1, <3>2
    <2>3. \A p \in ShmObjs : shm'[p].size > 0 => shm'[p].mem \in pages'
      BY <1>2, <1>8, <1>10, <2>1
    <2>4. \A p, q \in ShmObjs : shm'[p].size > 0 /\ shm'[q].size > 0 /\ shm'[p].mem = shm'[q].mem
            => p = q
      BY <1>8, <1>10, <2>1 DEF ShmInv, MemoryOwned
    <2> QED  BY <2>2, <2>3, <2>4 DEF MemoryOwned
  <1> QED  BY <1>4, <1>12, <1>13, <1>14, <1>15, <1>16 DEF ShmInv

\* A step that moves the offset of the descriptors of an object.
LEMMA OffsetInv ==
  ASSUME Kept, ShmInv, NEW c \in Callers, NEW f \in Fds, NEW at \in 0..IntMax, Shm!On(c, f),
         Shm!zvfs_fd_offset_set(f, at), UNCHANGED <<shm, pages, shmCall>>
  PROVE  ShmInv'
  <1> DEFINE Moved(g) == [fdt[g] EXCEPT !.off = at]
  <1>1. OpensAgree'  BY NoneOpening DEF Shm!On
  <1>2. ASSUME NEW g \in Fds
        PROVE  Moved(g) \in FdRec /\ Moved(g).state = fdt[g].state /\ Moved(g).obj = fdt[g].obj
    <2>1. fdt[g] \in FdRec  BY DEF ShmInv, ShmTypes
    <2> QED  BY <2>1 DEF FdRec
  <1>3. PICK moves \in [Fds -> BOOLEAN] :
          fdt' = [g \in Fds |-> IF moves[g] THEN Moved(g) ELSE fdt[g]]
    <2>1. PICK m : m = [g \in Fds |-> fdt[g].state = "open" /\ fdt[g].obj = fdt[f].obj]  OBVIOUS
    <2>2. m \in [Fds -> BOOLEAN]  BY <2>1
    <2>3. fdt' = [g \in Fds |-> IF m[g] THEN Moved(g) ELSE fdt[g]]
      BY <2>1 DEF Shm!zvfs_fd_offset_set
    <2> QED  BY <2>2, <2>3
  <1> HIDE DEF Moved
  <1>4. \A g \in Fds : fdt'[g] = Moved(g) \/ fdt'[g] = fdt[g]  BY <1>3
  <1>5. \A g \in Fds : fdt'[g] \in FdRec  BY <1>2, <1>4 DEF ShmInv, ShmTypes
  <1>6. fdt' \in [Fds -> FdRec]  BY <1>3, <1>5
  <1>7. \A g \in Fds : fdt'[g].state = fdt[g].state /\ fdt'[g].obj = fdt[g].obj
    BY <1>2, <1>4
  <1>8. \A g \in Fds : \A p : IsOpen(g, p)' <=> IsOpen(g, p)  BY <1>7 DEF IsOpen
  <1>9. ShmTypes' /\ NamesFindOne' /\ MemoryOwned'
    BY <1>6 DEF ShmInv, ShmTypes, NamesFindOne, MemoryOwned
  <1>10. OpenAreListed'  BY <1>7 DEF ShmInv, OpenAreListed
  <1>11. ObjectsNeeded'  BY <1>8 DEF ShmInv, ObjectsNeeded
  <1> QED  BY <1>1, <1>9, <1>10, <1>11 DEF ShmInv

\* Where a descriptor that is open may stand: its offset, and the object's size, fit.
LEMMA OpenFits ==
  ASSUME ShmInv, NEW f \in Fds, fdt[f].state = "open"
  PROVE  fdt[f].off \in 0..IntMax /\ shm[fdt[f].obj].size \in 0..IntMax
  BY DEF ShmInv, ShmTypes, OpenAreListed, FdRec, ObjRec

LEMMA LseekInv ==
  ASSUME Kept, ShmInv, NEW c \in Callers, NEW f \in Fds, NEW n \in {-1, 1, IntMax},
         NEW w \in {"SEEK_SET", "SEEK_CUR", "SEEK_END"}, Shm!shm_lseek(c, f, n, w)
  PROVE  ShmInv'
  <1>1. PICK at : at = Shm!Seek(fdt[f].obj, fdt[f].off, n, w)  OBVIOUS
  <1>2. /\ Shm!On(c, f) /\ at >= 0 /\ Shm!zvfs_fd_offset_set(f, at)
        /\ UNCHANGED <<shm, pages, shmCall>>
    BY <1>1 DEF Shm!shm_lseek
  <1>3. PICK a : a = CASE w = "SEEK_SET" -> 0 [] w = "SEEK_CUR" -> fdt[f].off
                       [] w = "SEEK_END" -> shm[fdt[f].obj].size
    OBVIOUS
  <1>4. a \in 0..IntMax  BY <1>2, <1>3, OpenFits, ShmAssumption DEF Shm!On
  <1>5. at = IF IntMax - a < Shm!Unsigned(n) \/ n + a < 0 THEN -1 ELSE n + a
    BY <1>1, <1>3 DEF Shm!Seek
  <1>6. at \in 0..IntMax  BY <1>2, <1>4, <1>5, ShmAssumption DEF Shm!Unsigned
  <1> QED  BY <1>2, <1>6, OffsetInv

LEMMA RwInv ==
  ASSUME Kept, ShmInv, NEW c \in Callers, NEW f \in Fds, NEW n \in 1..2, Shm!shm_rw(c, f, n)
  PROVE  ShmInv'
  <1>1. PICK at : at = fdt[f].off + Shm!Copied(f, n)  OBVIOUS
  <1>2. Shm!On(c, f) /\ Shm!zvfs_fd_offset_set(f, at) /\ UNCHANGED <<shm, pages, shmCall>>
    BY <1>1 DEF Shm!shm_rw
  <1>3. fdt[f].off \in 0..IntMax /\ shm[fdt[f].obj].size \in 0..IntMax
    BY <1>2, OpenFits DEF Shm!On
  <1>4. at \in 0..IntMax  BY <1>1, <1>3, ShmAssumption DEF Shm!Copied
  <1> QED  BY <1>2, <1>4, OffsetInv

LEMMA MapInv ==
  ASSUME Kept, ShmInv, NEW c \in Callers,
         \/ \E f \in Fds, n \in 1..2 : Shm!mmap(c, f, n)
         \/ \E r \in Regions : Shm!munmap(c, r)
  PROVE  ShmInv'
  <1>1. UNCHANGED <<shm, fdt, shmCall>>  BY DEF Shm!mmap, Shm!munmap
  <1>2. OpenAreListed' /\ ObjectsNeeded' /\ NamesFindOne' /\ OpensAgree'
    BY <1>1 DEF ShmInv, OpenAreListed, ObjectsNeeded, NamesFindOne, OpensAgree, IsOpen
  <1>3. CASE pages' = pages  BY <1>1, <1>2, <1>3 DEF ShmInv, ShmTypes, MemoryOwned
  <1>4. ASSUME NEW r \in Regions, Shm!munmap(c, r)  PROVE ShmInv'
    <2>1. pages' = pages \ {r} /\ \A o \in ShmObjs : shm[o].mem # r  BY <1>4 DEF Shm!munmap
    <2> QED  BY <1>1, <1>2, <2>1 DEF ShmInv, ShmTypes, MemoryOwned
  <1> QED  BY <1>3, <1>4 DEF Shm!mmap

LEMMA ShmNextInv == Kept /\ ShmInv /\ Shm!Next => ShmInv'
  <1> SUFFICES ASSUME Kept, ShmInv, Shm!Next PROVE ShmInv'  OBVIOUS
  <1> PICK c \in Callers :
        \/ \E h \in Names, creat, excl \in BOOLEAN : Shm!OpenFind(c, h, creat, excl)
        \/ Shm!OpenFinish(c)
        \/ \E h \in Names : Shm!shm_unlink(c, h)
        \/ \E f \in Fds : Shm!shm_close(c, f) \/ Shm!Dup(c, f)
        \/ \E f \in Fds, n \in 1..2 : Shm!shm_ftruncate(c, f, n) \/ Shm!shm_rw(c, f, n) \/ Shm!mmap(c, f, n)
        \/ \E f \in Fds, n \in {-1, 1, IntMax}, w \in {"SEEK_SET", "SEEK_CUR", "SEEK_END"} :
              Shm!shm_lseek(c, f, n, w)
        \/ \E r \in Regions : Shm!munmap(c, r)
    BY DEF Shm!Next
  <1> QED
    BY OpenFindInv, OpenFinishInv, UnlinkInv, CloseInv, DupInv, FtruncateInv, RwInv, LseekInv, MapInv

LEMMA ShmInvariance == PartsSpec => [](Kept => ShmInv)
  <1>1. PartsInit => (Kept => ShmInv)  BY ShmInitInv DEF PartsInit
  <1>2. (Kept => ShmInv) /\ [PartsNext]_partsVars => (Kept => ShmInv)'
    <2> SUFFICES ASSUME Kept, ShmInv, [PartsNext]_partsVars PROVE ShmInv'  OBVIOUS
    <2>1. CASE Shm!Next  BY <2>1, ShmNextInv
    <2>2. CASE UNCHANGED ofShm
      BY <2>2 DEF ofShm, ShmInv, ShmTypes, OpenAreListed, ObjectsNeeded, NamesFindOne, MemoryOwned,
         OpensAgree, IsOpen
    <2> QED  BY <2>1, <2>2 DEF PartsNext, partsVars
  <1> QED  BY <1>1, <1>2, PTL DEF PartsSpec

\* For any number of threads, objects, names, descriptors and regions: if calls do
\* not overlap and an object is sized once and not unmapped by its users, every
\* open descriptor is of a listed object and stands within INTPTR_MAX, a name finds
\* one object, an unlinked object stays for a descriptor only, and the memory that
\* is mapped is exactly that of the objects (shm_open, shm_unlink, shm_close,
\* shm_ftruncate, shm_lseek, shm_rw, mmap and munmap).
THEOREM SharedMemoryIsSound == PartsSpec => []KeptShmIsSound
  <1>1. (Kept => ShmInv) => KeptShmIsSound
    <2> SUFFICES ASSUME Kept, ShmInv PROVE Shm!KeptShmIsSound
      BY DEF KeptShmIsSound, Shm!KeptShmIsSound
    <2>1. ASSUME NEW f \in Fds, fdt[f].state = "open"
          PROVE  shm[fdt[f].obj].listed /\ fdt[f].off \in 0..IntMax
      BY <2>1, OpenFits DEF ShmInv, OpenAreListed
    <2>2. ASSUME NEW o \in ShmObjs, shm[o].listed
          PROVE  /\ shm[o].unlinked => Shm!RefCount(o) > 0
                 /\ shm[o].size > 0 => shm[o].mem \in pages
                 /\ Shm!shm_obj_find(shm[o].hash) = o /\ shm[o].hash # NULL
      <3>1. shm[o].unlinked => Shm!RefCount(o) > 0  BY RefCountIs DEF ShmInv, ObjectsNeeded
      <3>2. shm[o].size > 0 => shm[o].mem \in pages  BY DEF ShmInv, MemoryOwned
      <3>3. shm[o].hash # NULL  BY <2>2, ShmAssumption DEF ShmInv, NamesFindOne
      <3>4. PICK h : h = shm[o].hash  OBVIOUS
      <3>5. Shm!shm_obj_find(h) # NULL  BY <2>2, <3>4, FoundIs
      <3>6. /\ Shm!shm_obj_find(h) \in ShmObjs /\ shm[Shm!shm_obj_find(h)].listed
            /\ shm[Shm!shm_obj_find(h)].hash = h
        BY <3>5, FoundIs
      <3>7. Shm!shm_obj_find(h) = o  BY <2>2, <3>4, <3>6 DEF ShmInv, NamesFindOne
      <3> QED  BY <3>1, <3>2, <3>3, <3>4, <3>7
    <2>3. ASSUME NEW r \in pages
          PROVE  Shm!Cardinality({o \in ShmObjs : shm[o].mem = r /\ shm[o].size > 0}) = 1
      <3>1. PICK o \in ShmObjs : shm[o].mem = r /\ shm[o].size > 0  BY DEF ShmInv, MemoryOwned
      <3>2. {p \in ShmObjs : shm[p].mem = r /\ shm[p].size > 0} = {o}
        BY <3>1 DEF ShmInv, MemoryOwned
      <3> QED  BY <3>2, SameCardinality, FS_Singleton
    <2> QED  BY <2>1, <2>2, <2>3 DEF Shm!KeptShmIsSound
  <1> QED  BY <1>1, ShmInvariance, PTL

-----------------------------------------------------------------------------
(* Message traffic *)

Sending == {"put", "put_wait"}
Sent == {"sample", "notify", "call"}
Asleep == {"put_wait", "get_wait"}
Places == Sending \cup Sent \cup {"idle", "get", "get_wait", "store", "clear"}
Words == {"timed", "nowait", "zero", "none", "thread"}
MqCall == [pc : Places, how : Words, sample : Nat, msg : Nat, due : Words]
Message == [by : Threads, res : {"none", "sent", "create", "failed"}]
NoteCounts == [call : Nat, clear : Nat]

MqTypes ==
    /\ call \in [Threads -> MqCall] /\ hist \in Seq(Message)
    /\ buf \in Seq(Nat) /\ received \in Seq(Nat) /\ waitq \in Seq(Threads)
    /\ notes \in NoteCounts /\ not \in Words

Waiting == {t \in Threads : call[t].pc \in Asleep}

\* q is a queue of the threads of S, each of them once.
Queued(q, S) ==
    /\ \A i, j \in 1..Len(q) : q[i] = q[j] => i = j
    /\ \A t \in Threads : t \in S <=> \E i \in 1..Len(q) : q[i] = t

\* Who sleeps is in the kernel's queue, for a message if there is none and for
\* room if there is none.
SleepersQueued ==
    /\ Queued(waitq, Waiting)
    /\ Len(buf) <= MaxMsg
    /\ \A t \in Threads : /\ call[t].pc = "get_wait" => buf = <<>>
                          /\ call[t].pc = "put_wait" => Len(buf) = MaxMsg

InTaken(m) == \E i \in 1..Len(Mq!Taken) : Mq!Taken[i] = m

\* Each message that left its sender did so once.
TakenOnce ==
    /\ \A i \in 1..Len(Mq!Taken) : Mq!Taken[i] \in 1..Len(hist)
    /\ \A i, j \in 1..Len(Mq!Taken) : Mq!Taken[i] = Mq!Taken[j] => i = j

ResultsTrue == \A m \in 1..Len(hist) :
    /\ hist[m].res \in {"sent", "create"} => InTaken(m)
    /\ hist[m].res = "failed" => ~InTaken(m)

\* A call that sends has a message of its own, the last of its thread, which is
\* not taken before k_msgq_put took it, and has no result yet.
CallsOwn == \A t \in Threads : call[t].pc \in Sending \cup Sent =>
    /\ call[t].msg \in 1..Len(hist)
    /\ hist[call[t].msg].by = t /\ hist[call[t].msg].res = "none"
    /\ \A m \in 1..Len(hist) : hist[m].by = t => m <= call[t].msg
    /\ call[t].pc \in Sent <=> InTaken(call[t].msg)

InOrder == \A i, j \in 1..Len(Mq!Taken) :
    i < j /\ hist[Mq!Taken[i]].by = hist[Mq!Taken[j]].by => Mq!Taken[i] < Mq!Taken[j]

Messages == TakenOnce /\ ResultsTrue /\ CallsOwn /\ InOrder

\* With calls that do not overlap, one thread at most is awake in a call, or one
\* notification is under way; what it is to call is registered; and a call that put
\* a message in an empty queue sees that the number of messages has changed.
SerialKnows == habit = "serial" =>
    /\ \A t, u \in Mq!Busy : t = u
    /\ Mq!Busy # {} => notes.call = 0 /\ notes.clear = 0
    /\ notes.call + notes.clear <= 1
    /\ notes.call > 0 => not # "zero"
    /\ \A t \in Threads :
        /\ call[t].pc = "call" => not # "zero"
        /\ call[t].pc = "put" => call[t].sample = Len(buf)
        /\ call[t].pc = "sample" /\ call[t].due # "zero" => call[t].sample # Len(buf)
    /\ ~missed /\ fault = "no"

NothingDue == \A t \in Threads : call[t].pc \in Sending => call[t].due = "zero"

\* The inductive invariant of message traffic.
MqInv == MqTypes /\ SleepersQueued /\ Messages /\ NothingDue /\ SerialKnows

(* Queues *)

\* What is left of a queue when its i-th member goes.
LEMMA QueuedWithout ==
  ASSUME NEW q \in Seq(Threads), NEW S, Queued(q, S), NEW i \in 1..Len(q),
         NEW r \in Seq(Threads), Len(r) = Len(q) - 1,
         \A j \in 1..(Len(q) - 1) : r[j] = IF j < i THEN q[j] ELSE q[j + 1]
  PROVE  q[i] \in S /\ Queued(r, S \ {q[i]})
  <1>1. PICK n \in Nat : n = Len(q)  OBVIOUS
  <1>2. ASSUME NEW a \in 1..(n - 1), NEW b \in 1..(n - 1), r[a] = r[b] PROVE a = b
    <2>1. PICK c \in 1..n, d \in 1..n : /\ c = IF a < i THEN a ELSE a + 1
                                        /\ d = IF b < i THEN b ELSE b + 1
      BY <1>1
    <2>2. q[c] = q[d]  BY <1>1, <1>2, <2>1
    <2>3. c = d  BY <1>1, <2>2 DEF Queued
    <2> QED  BY <1>1, <2>1, <2>3
  <1>3. ASSUME NEW u \in Threads
        PROVE  u \in S \ {q[i]} <=> \E j \in 1..(n - 1) : r[j] = u
    <2>1. ASSUME u \in S, u # q[i] PROVE \E j \in 1..(n - 1) : r[j] = u
      <3>1. PICK c \in 1..n : q[c] = u /\ c # i  BY <1>1, <2>1 DEF Queued
      <3>2. CASE c < i  BY <1>1, <3>1, <3>2
      <3>3. CASE ~(c < i)
        <4>1. c - 1 \in 1..(n - 1) /\ ~(c - 1 < i) /\ (c - 1) + 1 = c  BY <1>1, <3>1, <3>3
        <4> QED  BY <1>1, <3>1, <4>1
      <3> QED  BY <3>2, <3>3
    <2>2. ASSUME NEW j \in 1..(n - 1), r[j] = u PROVE u \in S /\ u # q[i]
      <3>1. PICK c \in 1..n : c = (IF j < i THEN j ELSE j + 1) /\ c # i  BY <1>1
      <3>2. q[c] = u  BY <1>1, <2>2, <3>1
      <3> QED  BY <1>1, <3>1, <3>2 DEF Queued
    <2> QED  BY <2>1, <2>2
  <1>4. q[i] \in S  BY DEF Queued
  <1> QED  BY <1>1, <1>2, <1>3, <1>4 DEF Queued

LEMMA QueuedHead ==
  ASSUME NEW q \in Seq(Threads), NEW S, Queued(q, S), q # <<>>
  PROVE  /\ Head(q) \in Threads /\ Head(q) \in S
         /\ Tail(q) \in Seq(Threads) /\ Queued(Tail(q), S \ {Head(q)})
  <1>1. PICK n \in Nat : n = Len(q) /\ n > 0  BY EmptySeq
  <1>2. Head(q) = q[1] /\ q[1] \in Threads  BY <1>1
  <1>3. /\ Tail(q) \in Seq(Threads) /\ Len(Tail(q)) = n - 1
        /\ \A j \in 1..(n - 1) : Tail(q)[j] = q[j + 1]
    BY <1>1, HeadTailProperties
  <1>4. \A j \in 1..(n - 1) : Tail(q)[j] = IF j < 1 THEN q[j] ELSE q[j + 1]  BY <1>1, <1>3
  <1>5. 1 \in 1..Len(q)  BY <1>1
  <1> QED  BY <1>1, <1>2, <1>3, <1>4, <1>5, QueuedWithout

LEMMA QueuedRemove ==
  ASSUME NEW q \in Seq(Threads), NEW S, Queued(q, S), NEW i \in 1..Len(q)
  PROVE  Mq!RemoveAt(q, i) \in Seq(Threads) /\ Queued(Mq!RemoveAt(q, i), S \ {q[i]})
  <1>1. PICK n \in Nat : n = Len(q) /\ i \in 1..n  OBVIOUS
  <1>2. PICK a : a = SubSeq(q, 1, i - 1)  OBVIOUS
  <1>3. PICK b : b = SubSeq(q, i + 1, n)  OBVIOUS
  <1>4. a \in Seq(Threads) /\ Len(a) = i - 1 /\ \A j \in 1..(i - 1) : a[j] = q[j]
    BY <1>1, <1>2
  <1>5. b \in Seq(Threads) /\ Len(b) = n - i /\ \A j \in 1..(n - i) : b[j] = q[i + j]
    <2>1. /\ b \in Seq(Threads) /\ Len(b) = IF i + 1 <= n THEN n - (i + 1) + 1 ELSE 0
          /\ \A j \in 1..(n - (i + 1) + 1) : b[j] = q[i + 1 + j - 1]
      BY <1>1, <1>3, SubSeqProperties
    <2>2. n - (i + 1) + 1 = n - i /\ \A j \in 1..(n - i) : i + 1 + j - 1 = i + j  BY <1>1
    <2>3. Len(b) = n - i  BY <1>1, <2>1
    <2> QED  BY <2>1, <2>2, <2>3
  <1>6. /\ a \o b \in Seq(Threads) /\ Len(a \o b) = Len(a) + Len(b)
        /\ \A j \in 1..(Len(a) + Len(b)) : (a \o b)[j] = IF j <= Len(a) THEN a[j] ELSE b[j - Len(a)]
    BY <1>4, <1>5, ConcatProperties
  <1>7. ASSUME NEW j \in 1..(n - 1) PROVE (a \o b)[j] = IF j < i THEN q[j] ELSE q[j + 1]
    <2>1. CASE j < i
      <3>1. j <= Len(a) /\ j \in 1..(i - 1) /\ j \in 1..(Len(a) + Len(b))
        BY <1>1, <1>4, <1>5, <2>1
      <3> QED  BY <1>4, <1>6, <2>1, <3>1
    <2>2. CASE ~(j < i)
      <3>1. ~(j <= Len(a)) /\ j - Len(a) \in 1..(n - i) /\ i + (j - Len(a)) = j + 1
        BY <1>1, <1>4, <2>2
      <3>2. j \in 1..(Len(a) + Len(b))  BY <1>1, <1>4, <1>5
      <3>3. b[j - Len(a)] = q[j + 1]  BY <1>5, <3>1
      <3> QED  BY <1>6, <2>2, <3>1, <3>2, <3>3
    <2> QED  BY <2>1, <2>2
  <1>8. Mq!RemoveAt(q, i) = a \o b  BY <1>1, <1>2, <1>3 DEF Mq!RemoveAt
  <1>9. Len(a \o b) = Len(q) - 1  BY <1>1, <1>4, <1>5, <1>6
  <1> QED  BY <1>1, <1>6, <1>7, <1>8, <1>9, QueuedWithout

LEMMA QueuedAppend ==
  ASSUME NEW q \in Seq(Threads), NEW S, Queued(q, S), NEW t \in Threads \ S
  PROVE  Append(q, t) \in Seq(Threads) /\ Queued(Append(q, t), S \cup {t})
  <1>1. PICK n \in Nat : n = Len(q)  OBVIOUS
  <1>2. PICK r : r = Append(q, t)  OBVIOUS
  <1>3. r \in Seq(Threads) /\ Len(r) = n + 1 /\ r[n + 1] = t /\ \A i \in 1..n : r[i] = q[i]
    BY <1>1, <1>2, AppendProperties
  <1>4. ASSUME NEW i \in 1..(n + 1), NEW j \in 1..(n + 1), r[i] = r[j] PROVE i = j
    BY <1>1, <1>3, <1>4 DEF Queued
  <1>5. ASSUME NEW u \in Threads
        PROVE  u \in S \cup {t} <=> \E i \in 1..(n + 1) : r[i] = u
    <2>1. CASE u = t  BY <1>1, <1>3, <2>1
    <2>2. CASE u # t  BY <1>1, <1>3, <2>2 DEF Queued
    <2> QED  BY <2>1, <2>2
  <1> QED  BY <1>2, <1>3, <1>4, <1>5 DEF Queued

(* What has left the senders *)

LEMMA ConcatAppend ==
  ASSUME NEW s \in Seq(Nat), NEW t \in Seq(Nat), NEW e \in Nat
  PROVE  s \o Append(t, e) = Append(s \o t, e)
  <1>1. s \o t \in Seq(Nat) /\ <<e>> \in Seq(Nat)  BY ConcatProperties
  <1> QED  BY <1>1, AppendIsConcat, ConcatAssociative

LEMMA ConcatHead ==
  ASSUME NEW s \in Seq(Nat), NEW t \in Seq(Nat), t # <<>>
  PROVE  Append(s, Head(t)) \o Tail(t) = s \o t
  <1>1. PICK e : e = Head(t)  OBVIOUS
  <1>2. PICK r : r = Tail(t)  OBVIOUS
  <1>3. PICK n \in Nat : n = Len(t) /\ n > 0  BY EmptySeq
  <1>4. /\ e \in Nat /\ e = t[1] /\ r \in Seq(Nat) /\ Len(r) = n - 1
        /\ \A i \in 1..(n - 1) : r[i] = t[i + 1]
    BY <1>1, <1>2, <1>3, HeadTailProperties
  <1>5. PICK m \in Nat : m = Len(s)  OBVIOUS
  <1>6. PICK a : a = Append(s, e)  OBVIOUS
  <1>7. a \in Seq(Nat) /\ Len(a) = m + 1 /\ a[m + 1] = e /\ \A i \in 1..m : a[i] = s[i]
    BY <1>4, <1>5, <1>6, AppendProperties
  <1>8. /\ a \o r \in Seq(Nat) /\ Len(a \o r) = m + n
        /\ \A i \in 1..(m + n) : (a \o r)[i] = IF i <= m + 1 THEN a[i] ELSE r[i - (m + 1)]
    <2>1. /\ a \o r \in Seq(Nat) /\ Len(a \o r) = Len(a) + Len(r)
          /\ \A i \in 1..(Len(a) + Len(r)) : (a \o r)[i] = IF i <= Len(a) THEN a[i] ELSE r[i - Len(a)]
      BY <1>4, <1>7, ConcatProperties
    <2>2. Len(a) + Len(r) = m + n  BY <1>3, <1>4, <1>5, <1>7
    <2> QED  BY <1>7, <2>1, <2>2
  <1>9. /\ s \o t \in Seq(Nat) /\ Len(s \o t) = m + n
        /\ \A i \in 1..(m + n) : (s \o t)[i] = IF i <= m THEN s[i] ELSE t[i - m]
    BY <1>3, <1>5, ConcatProperties
  <1>10. ASSUME NEW i \in 1..(m + n)  PROVE (a \o r)[i] = (s \o t)[i]
    <2>1. CASE i <= m  BY <1>3, <1>5, <1>7, <1>8, <1>9, <2>1
    <2>2. CASE i = m + 1
      <3>1. (a \o r)[i] = e /\ (s \o t)[i] = t[i - m] /\ i - m = 1
        BY <1>3, <1>5, <1>7, <1>8, <1>9, <2>2
      <3> QED  BY <1>4, <3>1
    <2>3. CASE i > m + 1
      <3>1. i - (m + 1) \in 1..(n - 1) /\ (i - (m + 1)) + 1 = i - m  BY <1>3, <1>5, <2>3
      <3>2. r[i - (m + 1)] = t[i - m]  BY <1>4, <3>1
      <3>3. ~(i <= m + 1) /\ ~(i <= m)  BY <1>3, <1>5, <2>3
      <3>4. (a \o r)[i] = r[i - (m + 1)] /\ (s \o t)[i] = t[i - m]  BY <1>8, <1>9, <3>3
      <3> QED  BY <3>2, <3>4
    <2>4. i <= m \/ i = m + 1 \/ i > m + 1  BY <1>3, <1>5
    <2> QED  BY <2>1, <2>2, <2>3, <2>4
  <1>11. a \o r = s \o t  BY <1>8, <1>9, <1>10, SeqEqual
  <1> QED  BY <1>1, <1>2, <1>6, <1>11

LEMMA TakenIs == MqTypes => Mq!Taken \in Seq(Nat) /\ Len(Mq!Taken) \in Nat
  BY ConcatProperties, LenProperties DEF MqTypes, Mq!Taken

\* A message more has left a sender.
LEMMA TakenGrows ==
  ASSUME MqTypes, NEW m \in Nat, Mq!Taken' = Append(Mq!Taken, m)
  PROVE  /\ Len(Mq!Taken') = Len(Mq!Taken) + 1
         /\ \A i \in 1..Len(Mq!Taken) : Mq!Taken'[i] = Mq!Taken[i]
         /\ Mq!Taken'[Len(Mq!Taken) + 1] = m
         /\ \A x : InTaken(x)' <=> InTaken(x) \/ x = m
  <1>1. PICK T \in Seq(Nat) : T = Mq!Taken  BY TakenIs
  <1>2. PICK U : U = Append(T, m)  OBVIOUS
  <1>3. Len(U) = Len(T) + 1 /\ U[Len(T) + 1] = m /\ \A i \in 1..Len(T) : U[i] = T[i] /\ Len(T) \in Nat
    BY <1>2, AppendProperties, LenProperties
  <1>4. Mq!Taken' = U  BY <1>1, <1>2
  <1>5. ASSUME NEW x
        PROVE  (\E i \in 1..Len(U) : U[i] = x) <=> (\E i \in 1..Len(T) : T[i] = x) \/ x = m
    BY <1>3
  <1> QED  BY <1>1, <1>3, <1>4, <1>5 DEF InTaken

\* A step that sends no message and ends no call that does.
LEMMA QuietMessages ==
  ASSUME Messages, hist' = hist, Mq!Taken' = Mq!Taken,
         \A t \in Threads : call'[t].pc \in Sending =>
           call[t].pc \in Sending /\ call'[t].msg = call[t].msg,
         \A t \in Threads : call'[t].pc \in Sent =>
           call[t].pc \in Sent /\ call'[t].msg = call[t].msg
  PROVE  Messages'
  <1>1. \A m : InTaken(m)' <=> InTaken(m)  BY DEF InTaken
  <1>2. TakenOnce' /\ InOrder'  BY DEF Messages, TakenOnce, InOrder
  <1>3. ResultsTrue'  BY <1>1 DEF Messages, ResultsTrue
  <1>4. CallsOwn'
    <2> SUFFICES ASSUME NEW t \in Threads, call'[t].pc \in Sending \cup Sent
                 PROVE  /\ call'[t].msg \in 1..Len(hist)
                        /\ hist[call'[t].msg].by = t /\ hist[call'[t].msg].res = "none"
                        /\ \A m \in 1..Len(hist) : hist[m].by = t => m <= call'[t].msg
                        /\ call'[t].pc \in Sent <=> InTaken(call'[t].msg)
      BY <1>1 DEF CallsOwn
    <2>1. Sending \cap Sent = {}  BY DEF Sending, Sent
    <2>2. /\ call[t].pc \in Sending \cup Sent /\ call'[t].msg = call[t].msg
          /\ call'[t].pc \in Sent <=> call[t].pc \in Sent
      BY <2>1
    <2> QED  BY <2>2 DEF Messages, CallsOwn
  <1> QED  BY <1>2, <1>3, <1>4 DEF Messages

\* The call of t has its result: a message that was not taken failed, and one that
\* was did not.
LEMMA EndsMessages ==
  ASSUME MqTypes, Messages, NEW t \in Threads, NEW res \in {"sent", "create", "failed"},
         call[t].pc \in Sending \cup Sent, res = "failed" <=> call[t].pc \in Sending,
         hist' = [hist EXCEPT ![call[t].msg].res = res], Mq!Taken' = Mq!Taken,
         call' = [call EXCEPT ![t] = Mq!Idle]
  PROVE  hist' \in Seq(Message) /\ Messages'
  <1>1. PICK m : m = call[t].msg  OBVIOUS
  <1>2. /\ m \in 1..Len(hist) /\ hist[m].by = t /\ hist[m].res = "none"
        /\ call[t].pc \in Sent <=> InTaken(m)
    BY <1>1 DEF Messages, CallsOwn
  <1>3. PICK h \in Seq(Message) : h = hist  BY DEF MqTypes
  <1>4. h[m] \in Message  BY <1>2, <1>3, ElementOfSeq
  <1>5. PICK e \in Message : e = [h[m] EXCEPT !.res = res]  BY <1>4 DEF Message
  <1>6. e.by = t /\ e.res = res  BY <1>2, <1>3, <1>4, <1>5 DEF Message
  <1>7. hist' = [h EXCEPT ![m] = e]  BY <1>1, <1>3, <1>5
  <1>8. PICK g : g = [h EXCEPT ![m] = e]  OBVIOUS
  <1>9. /\ g \in Seq(Message) /\ Len(g) = Len(h)
        /\ \A i \in 1..Len(h) : g[i] = IF i = m THEN e ELSE h[i]
    BY <1>2, <1>3, <1>8, ExceptSeq
  <1>10. /\ hist' \in Seq(Message) /\ Len(hist') = Len(hist)
         /\ \A i \in 1..Len(hist) : i # m => hist'[i] = hist[i]
         /\ \A i \in 1..Len(hist) : hist'[i].by = hist[i].by
         /\ hist'[m].res = res
    BY <1>2, <1>3, <1>6, <1>7, <1>8, <1>9
  <1>11. \A x : InTaken(x)' <=> InTaken(x)  BY DEF InTaken
  <1>12. TakenOnce'  BY <1>10 DEF Messages, TakenOnce
  <1>13. InOrder'  BY <1>10 DEF Messages, TakenOnce, InOrder
  <1>14. ResultsTrue'
    <2>1. Sending \cap Sent = {}  BY DEF Sending, Sent
    <2>2. InTaken(m) <=> res # "failed"  BY <1>2, <2>1
    <2> QED  BY <1>10, <1>11, <2>2 DEF Messages, ResultsTrue
  <1>15. CallsOwn'
    <2>1. \A u \in Threads : u # t => call'[u] = call[u]  BY DEF MqTypes
    <2>2. call'[t].pc = "idle"  BY DEF MqTypes, Mq!Idle
    <2>3. call'[t].pc \notin Sending \cup Sent  BY <2>2 DEF Sending, Sent
    <2>4. ASSUME NEW u \in Threads, u # t, call[u].pc \in Sending \cup Sent
          PROVE  /\ call[u].msg \in 1..Len(hist')
                 /\ hist'[call[u].msg].by = u /\ hist'[call[u].msg].res = "none"
                 /\ \A x \in 1..Len(hist') : hist'[x].by = u => x <= call[u].msg
                 /\ call[u].pc \in Sent <=> InTaken(call[u].msg)
      <3>1. call[u].msg # m  BY <1>2, <2>4 DEF Messages, CallsOwn
      <3> QED  BY <1>10, <2>4, <3>1 DEF Messages, CallsOwn
    <2> QED  BY <1>11, <2>1, <2>3, <2>4 DEF CallsOwn
  <1> QED  BY <1>10, <1>12, <1>13, <1>14, <1>15 DEF Messages

\* k_msgq_put takes the message of t.
LEMMA TakesMessage ==
  ASSUME MqTypes, Messages, NEW t \in Threads, call[t].pc \in Sending, hist' = hist,
         Mq!Taken' = Append(Mq!Taken, call[t].msg),
         call'[t].pc \in Sent => call'[t].msg = call[t].msg, call'[t].pc \notin Sending,
         \A u \in Threads \ {t} : call'[u].pc \in Sending =>
           call[u].pc \in Sending /\ call'[u].msg = call[u].msg,
         \A u \in Threads \ {t} : call'[u].pc \in Sent =>
           call[u].pc \in Sent /\ call'[u].msg = call[u].msg
  PROVE  Messages'
  <1>1. PICK m : m = call[t].msg  OBVIOUS
  <1>2. /\ m \in 1..Len(hist) /\ hist[m].by = t /\ hist[m].res = "none" /\ ~InTaken(m)
        /\ \A x \in 1..Len(hist) : hist[x].by = t => x <= m
    <2>1. call[t].pc \notin Sent  BY DEF Sending, Sent
    <2> QED  BY <1>1, <2>1 DEF Messages, CallsOwn
  <1>3. PICK n \in Nat : n = Len(Mq!Taken)  BY TakenIs
  <1>4. m \in Nat /\ Len(hist) \in Nat  BY <1>2, LenProperties DEF MqTypes
  <1>5. /\ Len(Mq!Taken') = n + 1
        /\ \A i \in 1..n : Mq!Taken'[i] = Mq!Taken[i]
        /\ Mq!Taken'[n + 1] = m
        /\ \A x : InTaken(x)' <=> InTaken(x) \/ x = m
    BY <1>1, <1>3, <1>4, TakenGrows
  <1>6. \A i \in 1..(n + 1) : i # n + 1 => i \in 1..n  BY <1>3
  <1>7. \A i \in 1..n : Mq!Taken[i] # m /\ Mq!Taken[i] \in 1..Len(hist)
    BY <1>2, <1>3 DEF InTaken, Messages, TakenOnce
  <1>8. TakenOnce'
    <2>1. \A i \in 1..(n + 1) : Mq!Taken'[i] \in 1..Len(hist)  BY <1>2, <1>5, <1>6, <1>7
    <2>2. \A i, j \in 1..n : Mq!Taken[i] = Mq!Taken[j] => i = j
      BY <1>3 DEF Messages, TakenOnce
    <2>3. \A i, j \in 1..(n + 1) : Mq!Taken'[i] = Mq!Taken'[j] => i = j
      BY <1>5, <1>6, <1>7, <2>2
    <2> QED  BY <1>5, <2>1, <2>3 DEF TakenOnce
  <1>9. InOrder'
    <2> SUFFICES ASSUME NEW i \in 1..(n + 1), NEW j \in 1..(n + 1), i < j,
                        hist[Mq!Taken'[i]].by = hist[Mq!Taken'[j]].by
                 PROVE  Mq!Taken'[i] < Mq!Taken'[j]
      BY <1>5 DEF InOrder
    <2>1. i \in 1..n  BY <1>3
    <2>2. CASE j \in 1..n  BY <1>3, <1>5, <2>1, <2>2 DEF Messages, InOrder
    <2>3. CASE j = n + 1
      <3>1. /\ Mq!Taken'[j] = m /\ Mq!Taken'[i] = Mq!Taken[i] /\ Mq!Taken[i] \in 1..Len(hist)
            /\ Mq!Taken[i] # m
        BY <1>5, <1>7, <2>1, <2>3
      <3>2. hist[Mq!Taken[i]].by = t  BY <1>2, <3>1
      <3>3. Mq!Taken[i] <= m  BY <1>2, <3>1, <3>2
      <3> QED  BY <1>4, <3>1, <3>3
    <2> QED  BY <1>6, <2>2, <2>3
  <1>10. ResultsTrue'  BY <1>2, <1>5 DEF Messages, ResultsTrue
  <1>11. CallsOwn'
    <2> SUFFICES ASSUME NEW u \in Threads, call'[u].pc \in Sending \cup Sent
                 PROVE  /\ call'[u].msg \in 1..Len(hist)
                        /\ hist[call'[u].msg].by = u /\ hist[call'[u].msg].res = "none"
                        /\ \A x \in 1..Len(hist) : hist[x].by = u => x <= call'[u].msg
                        /\ call'[u].pc \in Sent <=> InTaken(call'[u].msg) \/ call'[u].msg = m
      BY <1>5 DEF CallsOwn
    <2>1. CASE u = t  BY <1>1, <1>2, <2>1
    <2>2. CASE u # t
      <3>1. Sending \cap Sent = {}  BY DEF Sending, Sent
      <3>2. /\ call[u].pc \in Sending \cup Sent /\ call'[u].msg = call[u].msg
            /\ call'[u].pc \in Sent <=> call[u].pc \in Sent
        BY <2>2, <3>1
      <3>3. call[u].msg # m  BY <1>2, <2>2, <3>2 DEF Messages, CallsOwn
      <3> QED  BY <3>2, <3>3 DEF Messages, CallsOwn
    <2> QED  BY <2>1, <2>2
  <1> QED  BY <1>8, <1>9, <1>10, <1>11 DEF Messages

(* Steps *)

LEMMA IdleIs == Mq!Idle \in MqCall /\ Mq!Idle.pc = "idle"
  BY DEF Mq!Idle, MqCall, Places, Words

\* What the step of a thread leaves of the calls.
LEMMA CallIs ==
  ASSUME MqTypes, NEW t \in Threads, NEW k \in MqCall, call' = [call EXCEPT ![t] = k]
  PROVE  /\ call' \in [Threads -> MqCall] /\ call'[t] = k
         /\ \A u \in Threads : u # t => call'[u] = call[u]
  BY DEF MqTypes

\* A step that puts nobody to sleep and wakes nobody.
LEMMA QuietSleepers ==
  ASSUME SleepersQueued, waitq' = waitq, buf' = buf,
         \A t \in Threads : call[t].pc \in Asleep \/ call'[t].pc \in Asleep => call'[t].pc = call[t].pc
  PROVE  SleepersQueued'
  <1>1. Waiting' = Waiting  BY DEF Waiting
  <1>2. Queued(waitq, Waiting)'  BY <1>1 DEF SleepersQueued, Queued
  <1>3. \A t \in Threads : /\ call'[t].pc = "get_wait" => call[t].pc = "get_wait"
                           /\ call'[t].pc = "put_wait" => call[t].pc = "put_wait"
    BY DEF Asleep
  <1> QED  BY <1>2, <1>3 DEF SleepersQueued

\* With calls that do not overlap, the thread that moves is the only one awake.
LEMMA SerialAlone ==
  ASSUME MqInv, NEW t \in Threads, habit = "serial", Mq!Calls(t) \/ call[t].pc \notin Asleep \cup {"idle"}
  PROVE  /\ \A u \in Threads : u # t => call[u].pc \in Asleep \cup {"idle"}
         /\ notes.call = 0 /\ notes.clear = 0 /\ ~missed /\ fault = "no"
  <1>1. \A u \in Threads : u \in Mq!Busy <=> call[u].pc \notin Asleep \cup {"idle"}
    BY DEF Mq!Busy, Asleep
  <1>2. notes.call \in Nat /\ notes.clear \in Nat  BY DEF MqInv, MqTypes, NoteCounts
  <1>3. CASE Mq!Calls(t)  BY <1>1, <1>2, <1>3 DEF Mq!Calls, MqInv, SerialKnows
  <1>4. CASE call[t].pc \notin Asleep \cup {"idle"}
    <2>1. t \in Mq!Busy  BY <1>1, <1>4
    <2> QED  BY <1>1, <2>1 DEF MqInv, SerialKnows
  <1> QED  BY <1>3, <1>4

LEMMA SerialOne ==
  ASSUME NEW t \in Threads,
         habit' = "serial" =>
           /\ \A u \in Threads : u # t => call'[u].pc \in Asleep \cup {"idle"}
           /\ call'[t].pc \notin Asleep \cup {"idle"} => notes'.call = 0 /\ notes'.clear = 0
           /\ notes'.call + notes'.clear <= 1
           /\ notes'.call > 0 => not' # "zero"
           /\ call'[t].pc = "call" => not' # "zero"
           /\ call'[t].pc = "put" => call'[t].sample = Len(buf')
           /\ call'[t].pc = "sample" /\ call'[t].due # "zero" => call'[t].sample # Len(buf')
           /\ ~missed' /\ fault' = "no"
  PROVE  SerialKnows'
  <1> SUFFICES ASSUME habit' = "serial" PROVE SerialKnows'  BY DEF SerialKnows
  <1>1. \A u \in Threads : u \in Mq!Busy' <=> call'[u].pc \notin Asleep \cup {"idle"}
    BY DEF Mq!Busy, Asleep
  <1>2. Mq!Busy' \subseteq {t} /\ (t \in Mq!Busy' <=> call'[t].pc \notin Asleep \cup {"idle"})
    BY <1>1 DEF Mq!Busy
  <1>3. \A u \in Threads : u # t =>
          call'[u].pc # "call" /\ call'[u].pc # "put" /\ call'[u].pc # "sample"
    BY DEF Asleep
  <1> QED  BY <1>2, <1>3 DEF SerialKnows

\* A step within a call, or that starts or ends one, and sends no message.
LEMMA QuietStep ==
  ASSUME MqInv, NEW t \in Threads, NEW k \in MqCall, call' = [call EXCEPT ![t] = k],
         UNCHANGED <<buf, waitq, received, hist>>, notes' \in NoteCounts, not' \in Words,
         call[t].pc \notin Asleep, k.pc \notin Asleep, k.pc \notin Sending,
         k.pc \in Sent => call[t].pc \in Sent /\ k.msg = call[t].msg,
         SerialKnows'
  PROVE  MqInv'
  <1>1. /\ call' \in [Threads -> MqCall] /\ call'[t] = k
        /\ \A u \in Threads : u # t => call'[u] = call[u]
    BY CallIs DEF MqInv
  <1>2. MqTypes'  BY <1>1 DEF MqInv, MqTypes
  <1>3. SleepersQueued'  BY <1>1, QuietSleepers DEF MqInv
  <1>4. Mq!Taken' = Mq!Taken  BY DEF Mq!Taken
  <1>5. Messages'  BY <1>1, <1>4, QuietMessages DEF MqInv
  <1>6. NothingDue'  BY <1>1 DEF MqInv, NothingDue
  <1> QED  BY <1>2, <1>3, <1>5, <1>6 DEF MqInv

\* The call that sends t's message ends, t being awake.
LEMMA EndsStep ==
  ASSUME MqInv, NEW t \in Threads, NEW res \in {"sent", "create", "failed"}, NEW fired,
         Mq!Ends(t, res, fired), UNCHANGED <<buf, waitq, received, not, habit>>,
         notes' \in NoteCounts,
         call[t].pc \in Sending \cup Sent, call[t].pc # "put_wait",
         res = "failed" <=> call[t].pc \in Sending,
         SerialKnows'
  PROVE  MqInv'
  <1>1. call' = [call EXCEPT ![t] = Mq!Idle] /\ hist' = [hist EXCEPT ![call[t].msg].res = res]
    BY DEF Mq!Ends, Mq!Return
  <1>2. PICK k \in MqCall : k = Mq!Idle /\ k.pc = "idle"  BY IdleIs
  <1>3. /\ call' \in [Threads -> MqCall] /\ call'[t] = k
        /\ \A u \in Threads : u # t => call'[u] = call[u]
    BY <1>1, <1>2, CallIs DEF MqInv
  <1>4. Mq!Taken' = Mq!Taken  BY DEF Mq!Taken
  <1>5. hist' \in Seq(Message) /\ Messages'  BY <1>1, <1>4, EndsMessages DEF MqInv
  <1>6. MqTypes'  BY <1>3, <1>5 DEF MqInv, MqTypes
  <1>7. call[t].pc \notin Asleep /\ k.pc \notin Asleep /\ k.pc \notin Sending
    BY <1>2 DEF Asleep, Sending, Sent
  <1>8. SleepersQueued'  BY <1>3, <1>7, QuietSleepers DEF MqInv
  <1>9. NothingDue'  BY <1>3, <1>7 DEF MqInv, NothingDue
  <1> QED  BY <1>5, <1>6, <1>8, <1>9 DEF MqInv

\* What EXCEPT makes of one call.
LEMMA PcSet ==
  ASSUME NEW c \in MqCall, NEW l \in Places
  PROVE  LET r == [c EXCEPT !.pc = l] IN
         r \in MqCall /\ r.pc = l /\ r.sample = c.sample /\ r.msg = c.msg /\ r.due = c.due /\ r.how = c.how
  BY DEF MqCall

LEMMA HowSet ==
  ASSUME NEW c \in MqCall, NEW w \in Words
  PROVE  LET r == [c EXCEPT !.how = w] IN
         r \in MqCall /\ r.pc = c.pc /\ r.sample = c.sample /\ r.msg = c.msg /\ r.due = c.due /\ r.how = w
  BY DEF MqCall

LEMMA DueSet ==
  ASSUME NEW c \in MqCall, NEW w \in Words
  PROVE  LET r == [c EXCEPT !.due = w] IN
         r \in MqCall /\ r.pc = c.pc /\ r.sample = c.sample /\ r.msg = c.msg /\ r.due = w
  BY DEF MqCall

LEMMA SampleSet ==
  ASSUME NEW c \in MqCall, NEW n \in Nat
  PROVE  LET r == [c EXCEPT !.sample = n] IN
         r \in MqCall /\ r.pc = c.pc /\ r.sample = n /\ r.msg = c.msg /\ r.due = c.due
  BY DEF MqCall

\* ... and of the calls of all threads.
WithCall(f, t, k) == [f EXCEPT ![t] = k]
WithPc(f, t, l) == [f EXCEPT ![t].pc = l]
WithPcHow(f, t, l, w) == [f EXCEPT ![t].pc = l, ![t].how = w]
WithPcHowDue(f, t, l, w, d) == [f EXCEPT ![t].pc = l, ![t].how = w, ![t].due = d]
WithPcSample(f, t, l, n) == [f EXCEPT ![t].pc = l, ![t].sample = n]

LEMMA CallPc ==
  ASSUME NEW f \in [Threads -> MqCall], NEW t \in Threads, NEW l \in Places
  PROVE  \E k \in MqCall :
           /\ WithPc(f, t, l) = WithCall(f, t, k)
           /\ k.pc = l /\ k.how = f[t].how /\ k.sample = f[t].sample /\ k.msg = f[t].msg
           /\ k.due = f[t].due
  <1>1. f[t] \in MqCall  OBVIOUS
  <1>2. PICK k : k = [f[t] EXCEPT !.pc = l]  OBVIOUS
  <1>3. k \in MqCall /\ k.pc = l /\ k.how = f[t].how /\ k.sample = f[t].sample /\ k.msg = f[t].msg
          /\ k.due = f[t].due
    BY <1>1, <1>2, PcSet
  <1>4. WithPc(f, t, l) = WithCall(f, t, k)  BY <1>2 DEF WithPc, WithCall
  <1> QED  BY <1>3, <1>4

LEMMA CallPcHow ==
  ASSUME NEW f \in [Threads -> MqCall], NEW t \in Threads, NEW l \in Places, NEW w \in Words
  PROVE  \E k \in MqCall :
           /\ WithPcHow(f, t, l, w) = WithCall(f, t, k)
           /\ k.pc = l /\ k.how = w /\ k.sample = f[t].sample /\ k.msg = f[t].msg /\ k.due = f[t].due
  <1>1. PICK j \in MqCall :
           /\ WithPc(f, t, l) = WithCall(f, t, j)
           /\ j.pc = l /\ j.sample = f[t].sample /\ j.msg = f[t].msg /\ j.due = f[t].due
    BY CallPc
  <1>2. PICK g : g = [f EXCEPT ![t] = j]  OBVIOUS
  <1>3. PICK k : k = [j EXCEPT !.how = w]  OBVIOUS
  <1>4. k \in MqCall /\ k.pc = l /\ k.how = w /\ k.sample = f[t].sample /\ k.msg = f[t].msg
          /\ k.due = f[t].due
    BY <1>1, <1>3, HowSet
  <1>5. g[t] = j  BY <1>2
  <1>6. [g EXCEPT ![t].how = w] = [g EXCEPT ![t] = k]  BY <1>3, <1>5
  <1>7. [g EXCEPT ![t] = k] = [f EXCEPT ![t] = k]  BY <1>2
  <1>8. g = [f EXCEPT ![t].pc = l]  BY <1>1, <1>2 DEF WithPc, WithCall
  <1>9. [f EXCEPT ![t].pc = l, ![t].how = w] = [g EXCEPT ![t].how = w]  BY <1>8
  <1>10. WithPcHow(f, t, l, w) = WithCall(f, t, k)
    BY <1>6, <1>7, <1>9 DEF WithPcHow, WithCall
  <1> QED  BY <1>4, <1>10

LEMMA CallPcHowDue ==
  ASSUME NEW f \in [Threads -> MqCall], NEW t \in Threads, NEW l \in Places, NEW w \in Words,
         NEW d \in Words
  PROVE  \E k \in MqCall :
           /\ WithPcHowDue(f, t, l, w, d) = WithCall(f, t, k)
           /\ k.pc = l /\ k.sample = f[t].sample /\ k.msg = f[t].msg /\ k.due = d
  <1>1. PICK j \in MqCall :
           /\ WithPcHow(f, t, l, w) = WithCall(f, t, j)
           /\ j.pc = l /\ j.sample = f[t].sample /\ j.msg = f[t].msg
    BY CallPcHow
  <1>2. PICK g : g = [f EXCEPT ![t] = j]  OBVIOUS
  <1>3. PICK k : k = [j EXCEPT !.due = d]  OBVIOUS
  <1>4. k \in MqCall /\ k.pc = l /\ k.sample = f[t].sample /\ k.msg = f[t].msg /\ k.due = d
    BY <1>1, <1>3, DueSet
  <1>5. g[t] = j  BY <1>2
  <1>6. [g EXCEPT ![t].due = d] = [g EXCEPT ![t] = k]  BY <1>3, <1>5
  <1>7. [g EXCEPT ![t] = k] = [f EXCEPT ![t] = k]  BY <1>2
  <1>8. g = [f EXCEPT ![t].pc = l, ![t].how = w]  BY <1>1, <1>2 DEF WithPcHow, WithCall
  <1>9. [f EXCEPT ![t].pc = l, ![t].how = w, ![t].due = d] = [g EXCEPT ![t].due = d]  BY <1>8
  <1>10. WithPcHowDue(f, t, l, w, d) = WithCall(f, t, k)
    BY <1>6, <1>7, <1>9 DEF WithPcHowDue, WithCall
  <1> QED  BY <1>4, <1>10

LEMMA CallPcSample ==
  ASSUME NEW f \in [Threads -> MqCall], NEW t \in Threads, NEW l \in Places, NEW n \in Nat
  PROVE  \E k \in MqCall :
           /\ WithPcSample(f, t, l, n) = WithCall(f, t, k)
           /\ k.pc = l /\ k.msg = f[t].msg
  <1>1. PICK j \in MqCall :
           WithPc(f, t, l) = WithCall(f, t, j) /\ j.pc = l /\ j.msg = f[t].msg
    BY CallPc
  <1>2. PICK g : g = [f EXCEPT ![t] = j]  OBVIOUS
  <1>3. PICK k : k = [j EXCEPT !.sample = n]  OBVIOUS
  <1>4. k \in MqCall /\ k.pc = l /\ k.msg = f[t].msg  BY <1>1, <1>3, SampleSet
  <1>5. g[t] = j  BY <1>2
  <1>6. [g EXCEPT ![t].sample = n] = [g EXCEPT ![t] = k]  BY <1>3, <1>5
  <1>7. [g EXCEPT ![t] = k] = [f EXCEPT ![t] = k]  BY <1>2
  <1>8. g = [f EXCEPT ![t].pc = l]  BY <1>1, <1>2 DEF WithPc, WithCall
  <1>9. [f EXCEPT ![t].pc = l, ![t].sample = n] = [g EXCEPT ![t].sample = n]  BY <1>8
  <1>10. WithPcSample(f, t, l, n) = WithCall(f, t, k)
    BY <1>6, <1>7, <1>9 DEF WithPcSample, WithCall
  <1> QED  BY <1>4, <1>10

LEMMA MqInitInv == Mq!Init => MqInv
  <1> SUFFICES ASSUME Mq!Init PROVE MqInv  OBVIOUS
  <1>1. call \in [Threads -> MqCall] /\ \A t \in Threads : call[t].pc = "idle"
    BY IdleIs DEF Mq!Init
  <1>2. buf = <<>> /\ received = <<>> /\ waitq = <<>> /\ hist = <<>>  BY DEF Mq!Init
  <1>3. notes = [call |-> 0, clear |-> 0] /\ not = "zero" /\ ~missed /\ fault = "no"
    BY DEF Mq!Init
  <1>4. MqTypes  BY <1>1, <1>2, <1>3 DEF MqTypes, NoteCounts, Words
  <1>5. Mq!Taken = <<>>  BY <1>2 DEF Mq!Taken
  <1>6. Waiting = {}  BY <1>1 DEF Waiting, Asleep
  <1>7. SleepersQueued  BY <1>1, <1>2, <1>6, MqAssumption DEF SleepersQueued, Queued
  <1>8. Messages
    BY <1>1, <1>2, <1>5 DEF Messages, TakenOnce, ResultsTrue, CallsOwn, InOrder, Sending, Sent
  <1>9. NothingDue  BY <1>1 DEF NothingDue, Sending
  <1>10. Mq!Busy = {}  BY <1>1 DEF Mq!Busy
  <1>11. SerialKnows  BY <1>1, <1>3, <1>10 DEF SerialKnows
  <1> QED  BY <1>4, <1>7, <1>8, <1>9, <1>11 DEF MqInv

LEMMA SendCallInv ==
  ASSUME MqInv, NEW t \in Threads, NEW m \in Mq!Timeouts, Mq!SendCall(t, m)
  PROVE  MqInv'
  <1>1. PICK n \in Nat : n = Len(hist) /\ n + 1 \in Nat  BY LenProperties DEF MqInv, MqTypes
  <1>2. PICK w \in Words : w = Mq!Effective(m)  BY DEF Mq!Effective, Mq!Timeouts, Words
  <1>3. Len(buf) \in Nat  BY LenProperties DEF MqInv, MqTypes
  <1>4. PICK k \in MqCall :
          k = [pc |-> "put", how |-> w, sample |-> Len(buf), msg |-> n + 1, due |-> "zero"]
    BY <1>1, <1>3 DEF MqCall, Places, Sending, Words
  <1>5. k.pc = "put" /\ k.sample = Len(buf) /\ k.msg = n + 1 /\ k.due = "zero"  BY <1>4
  <1>6. PICK e \in Message : e = [by |-> t, res |-> "none"]  BY DEF Message
  <1>7. e.by = t /\ e.res = "none"  BY <1>6
  <1>8. /\ call' = [call EXCEPT ![t] = k] /\ hist' = Append(hist, e)
        /\ UNCHANGED <<buf, waitq, received, not, notes, missed, fault, habit>>
        /\ Mq!Calls(t) /\ call[t].pc = "idle"
    BY <1>1, <1>2, <1>4, <1>6 DEF Mq!SendCall, Mq!kernel, Mq!Calls
  <1>9. /\ call' \in [Threads -> MqCall] /\ call'[t] = k
        /\ \A u \in Threads : u # t => call'[u] = call[u]
    BY <1>8, CallIs DEF MqInv
  <1>10. /\ hist' \in Seq(Message) /\ Len(hist') = n + 1 /\ hist'[n + 1] = e
         /\ \A i \in 1..n : hist'[i] = hist[i]
    BY <1>1, <1>8, AppendProperties DEF MqInv, MqTypes
  <1>11. Mq!Taken' = Mq!Taken /\ \A x : InTaken(x)' <=> InTaken(x)
    BY <1>8 DEF Mq!Taken, InTaken
  <1>12. MqTypes'  BY <1>8, <1>9, <1>10 DEF MqInv, MqTypes
  <1>13. SleepersQueued'
    <2>1. \A u \in Threads : call[u].pc \in Asleep \/ call'[u].pc \in Asleep => call'[u].pc = call[u].pc
      BY <1>5, <1>8, <1>9 DEF Asleep
    <2> QED  BY <1>8, <2>1, QuietSleepers DEF MqInv
  <1>14. \A i \in 1..(n + 1) : i # n + 1 => i \in 1..n  BY <1>1
  <1>15. \A i \in 1..Len(Mq!Taken) : Mq!Taken[i] \in 1..n /\ Mq!Taken[i] \in 1..(n + 1)
    BY <1>1 DEF MqInv, Messages, TakenOnce
  <1>16. TakenOnce'  BY <1>10, <1>11, <1>15 DEF MqInv, Messages, TakenOnce
  <1>17. InOrder'
    <2>1. \A i \in 1..Len(Mq!Taken) : hist'[Mq!Taken[i]] = hist[Mq!Taken[i]]  BY <1>10, <1>15
    <2> QED  BY <1>11, <2>1 DEF MqInv, Messages, InOrder
  <1>18. ~InTaken(n + 1)  BY <1>1, <1>15 DEF InTaken
  <1>19. ResultsTrue'
    BY <1>1, <1>7, <1>10, <1>11, <1>14 DEF MqInv, Messages, ResultsTrue
  <1>20. CallsOwn'
    <2> SUFFICES ASSUME NEW u \in Threads, call'[u].pc \in Sending \cup Sent
                 PROVE  /\ call'[u].msg \in 1..(n + 1)
                        /\ hist'[call'[u].msg].by = u /\ hist'[call'[u].msg].res = "none"
                        /\ \A x \in 1..(n + 1) : hist'[x].by = u => x <= call'[u].msg
                        /\ call'[u].pc \in Sent <=> InTaken(call'[u].msg)
      BY <1>10, <1>11 DEF CallsOwn
    <2>1. CASE u = t
      <3>1. call'[u].pc \notin Sent  BY <1>5, <1>9, <2>1 DEF Sent
      <3> QED  BY <1>1, <1>5, <1>7, <1>9, <1>10, <1>18, <2>1, <3>1
    <2>2. CASE u # t
      <3>1. call'[u] = call[u]  BY <1>9, <2>2
      <3>2. call[u].msg \in 1..n /\ hist[call[u].msg].by = u /\ hist[call[u].msg].res = "none"
        BY <1>1, <3>1 DEF MqInv, Messages, CallsOwn
      <3>3. \A x \in 1..n : hist[x].by = u => x <= call[u].msg
        BY <1>1, <3>1 DEF MqInv, Messages, CallsOwn
      <3>4. call[u].pc \in Sent <=> InTaken(call[u].msg)
        BY <3>1 DEF MqInv, Messages, CallsOwn
      <3>5. call[u].msg \in 1..(n + 1)  BY <1>1, <3>2
      <3>6. \A x \in 1..(n + 1) : hist'[x].by = u => x <= call[u].msg
        BY <1>7, <1>10, <1>14, <2>2, <3>3
      <3> QED  BY <1>10, <3>1, <3>2, <3>4, <3>5, <3>6
    <2> QED  BY <2>1, <2>2
  <1>21. NothingDue'  BY <1>5, <1>9 DEF MqInv, NothingDue
  <1>22. SerialKnows'
    <2>1. habit = "serial" =>
            /\ \A u \in Threads : u # t => call[u].pc \in Asleep \cup {"idle"}
            /\ notes.call = 0 /\ notes.clear = 0 /\ ~missed /\ fault = "no"
      BY <1>8, SerialAlone
    <2> QED  BY <1>5, <1>8, <1>9, <2>1, SerialOne
  <1> QED  BY <1>12, <1>13, <1>16, <1>17, <1>19, <1>20, <1>21, <1>22 DEF MqInv, Messages

\* How a thread is woken or goes on, and nothing is sent.
LEMMA WalkInv ==
  ASSUME MqInv, NEW t \in Threads,
         \/ \E m \in Mq!Timeouts : Mq!ReceiveCall(t, m)
         \/ \E e \in Mq!Events : Mq!RegisterTest(t, e)
         \/ Mq!UnregisterTest(t)
  PROVE  MqInv'
  <1>1. /\ Mq!Calls(t) /\ call[t].pc = "idle"
        /\ UNCHANGED <<buf, waitq, received, not, notes, hist, missed, fault, habit>>
    BY DEF Mq!ReceiveCall, Mq!RegisterTest, Mq!UnregisterTest, Mq!Calls, Mq!kernel
  <1>2. call \in [Threads -> MqCall] /\ not \in Words /\ notes \in NoteCounts  BY DEF MqInv, MqTypes
  <1>3. PICK k \in MqCall : call' = WithCall(call, t, k) /\ k.pc \in {"get", "store", "clear"}
    <2>1. CASE \E m \in Mq!Timeouts : Mq!ReceiveCall(t, m)
      <3>1. PICK m \in Mq!Timeouts : Mq!ReceiveCall(t, m)  BY <2>1
      <3>2. PICK w \in Words : w = Mq!Effective(m)  BY DEF Mq!Effective, Mq!Timeouts, Words
      <3>3. call' = WithPcHow(call, t, "get", w)  BY <3>1, <3>2 DEF Mq!ReceiveCall, WithPcHow
      <3>4. "get" \in Places  BY DEF Places
      <3> QED  BY <1>2, <3>2, <3>3, <3>4, CallPcHow
    <2>2. CASE \E e \in Mq!Events : Mq!RegisterTest(t, e)
      <3>1. PICK e \in Mq!Events : Mq!RegisterTest(t, e)  BY <2>2
      <3>2. call' = WithPcHow(call, t, "store", e)  BY <3>1 DEF Mq!RegisterTest, WithPcHow
      <3>3. "store" \in Places /\ e \in Words  BY DEF Places, Words, Mq!Events
      <3> QED  BY <1>2, <3>2, <3>3, CallPcHow
    <2>3. CASE Mq!UnregisterTest(t)
      <3>1. call' = WithPc(call, t, "clear")  BY <2>3 DEF Mq!UnregisterTest, Mq!Goto, WithPc
      <3>2. "clear" \in Places  BY DEF Places
      <3> QED  BY <1>2, <3>1, <3>2, CallPc
    <2> QED  BY <2>1, <2>2, <2>3
  <1>4. call' = [call EXCEPT ![t] = k]  BY <1>3 DEF WithCall
  <1>5. call[t].pc \notin Asleep /\ k.pc \notin Asleep \cup {"idle"} /\ k.pc \notin Sending \cup Sent
    BY <1>1, <1>3 DEF Asleep, Sending, Sent
  <1>6. call'[t] = k /\ \A u \in Threads : u # t => call'[u] = call[u]  BY <1>4, CallIs DEF MqInv
  <1>7. habit = "serial" =>
          /\ \A u \in Threads : u # t => call[u].pc \in Asleep \cup {"idle"}
          /\ notes.call = 0 /\ notes.clear = 0 /\ ~missed /\ fault = "no"
    BY <1>1, SerialAlone
  <1>8. SerialKnows'  BY <1>1, <1>3, <1>6, <1>7, SerialOne
  <1> QED  BY <1>1, <1>2, <1>4, <1>5, <1>8, QuietStep

LEMMA StoreInv ==
  ASSUME MqInv, NEW t \in Threads, Mq!RegisterStore(t) \/ Mq!UnregisterClear(t)
  PROVE  MqInv'
  <1>1. /\ call[t].pc \in {"store", "clear"}
        /\ UNCHANGED <<buf, waitq, received, notes, hist, missed, fault, habit>>
        /\ call' = [call EXCEPT ![t] = Mq!Idle] /\ not' \in {call[t].how, "zero"}
    BY DEF Mq!RegisterStore, Mq!UnregisterClear, Mq!At, Mq!Return, Mq!kernel
  <1>2. call[t] \in MqCall /\ notes \in NoteCounts  BY DEF MqInv, MqTypes
  <1>3. not' \in Words  BY <1>1, <1>2 DEF MqCall, Words
  <1>4. PICK k \in MqCall : k = Mq!Idle /\ k.pc = "idle"  BY IdleIs
  <1>5. call' = [call EXCEPT ![t] = k]  BY <1>1, <1>4
  <1>6. /\ call[t].pc \notin Asleep \cup {"idle"} /\ k.pc \notin Asleep
        /\ k.pc \notin Sending \cup Sent
    BY <1>1, <1>4 DEF Asleep, Sending, Sent
  <1>7. call'[t] = k /\ \A u \in Threads : u # t => call'[u] = call[u]  BY <1>5, CallIs DEF MqInv
  <1>8. habit = "serial" =>
          /\ \A u \in Threads : u # t => call[u].pc \in Asleep \cup {"idle"}
          /\ notes.call = 0 /\ notes.clear = 0 /\ ~missed /\ fault = "no"
    BY <1>6, SerialAlone
  <1>9. SerialKnows'  BY <1>1, <1>4, <1>7, <1>8, SerialOne
  <1> QED  BY <1>1, <1>2, <1>3, <1>5, <1>6, <1>9, QuietStep

\* A step that leaves everything but the counts of notifications, what is
\* registered and the flags.
LEMMA StillStep ==
  ASSUME MqInv, UNCHANGED <<buf, waitq, received, hist, call>>, notes' \in NoteCounts,
         not' \in Words, SerialKnows'
  PROVE  MqInv'
  <1>1. MqTypes' /\ NothingDue'  BY DEF MqInv, MqTypes, NothingDue
  <1>2. SleepersQueued'  BY QuietSleepers DEF MqInv
  <1>3. Mq!Taken' = Mq!Taken  BY DEF Mq!Taken
  <1>4. Messages'  BY <1>3, QuietMessages DEF MqInv
  <1> QED  BY <1>1, <1>2, <1>4 DEF MqInv

LEMMA SetattrInv ==
  ASSUME MqInv, NEW t \in Threads, Mq!Setattr(t)
  PROVE  MqInv'
  <1>1. UNCHANGED <<buf, waitq, received, not, notes, call, hist, missed, fault, habit>>
    BY DEF Mq!Setattr, Mq!kernel
  <1>2. SerialKnows'  BY <1>1 DEF MqInv, SerialKnows, Mq!Busy
  <1>3. notes' \in NoteCounts /\ not' \in Words  BY <1>1 DEF MqInv, MqTypes
  <1> QED  BY <1>1, <1>2, <1>3, StillStep

LEMMA NoteInv ==
  ASSUME MqInv, Mq!NoteCall \/ Mq!NoteClear
  PROVE  MqInv'
  <1>1. UNCHANGED <<buf, waitq, received, call, hist, missed, habit>>
    BY DEF Mq!NoteCall, Mq!NoteClear, Mq!kernel
  <1>2. notes \in NoteCounts /\ notes.call \in Nat /\ notes.clear \in Nat
    BY DEF MqInv, MqTypes, NoteCounts
  <1>3. Mq!Busy' = Mq!Busy  BY <1>1 DEF Mq!Busy
  <1>4. habit = "serial" => Mq!Busy = {}
    BY <1>2 DEF MqInv, SerialKnows, Mq!NoteCall, Mq!NoteClear
  <1>5. habit = "serial" => \A t \in Threads : call[t].pc # "call" /\ call[t].pc # "put"
                                               /\ call[t].pc # "sample"
    BY <1>4 DEF Mq!Busy
  <1>6. CASE Mq!NoteCall /\ not = "zero"
    <2>1. notes' = notes /\ not' = not /\ habit # "serial"
      BY <1>2, <1>6 DEF Mq!NoteCall, MqInv, SerialKnows
    <2>2. SerialKnows'  BY <1>1, <2>1 DEF SerialKnows
    <2> QED  BY <1>1, <1>2, <2>1, <2>2, StillStep DEF MqInv, MqTypes
  <1>7. CASE Mq!NoteCall /\ not # "zero"
    <2>1. PICK c \in NoteCounts : c = [call |-> notes.call - 1, clear |-> notes.clear + 1]
      BY <1>2, <1>7 DEF Mq!NoteCall, NoteCounts
    <2>2. notes' = c /\ not' = not /\ fault' = fault /\ notes.call > 0
      BY <1>7, <2>1 DEF Mq!NoteCall
    <2>3. c.call = notes.call - 1 /\ c.clear = notes.clear + 1  BY <2>1
    <2>4. SerialKnows'
      BY <1>1, <1>2, <1>3, <1>4, <1>5, <1>7, <2>2, <2>3 DEF MqInv, SerialKnows
    <2> QED  BY <1>1, <2>2, <2>4, StillStep DEF MqInv, MqTypes
  <1>8. CASE Mq!NoteClear
    <2>1. notes' = [notes EXCEPT !.clear = @ - 1] /\ not' = "zero" /\ fault' = fault /\ notes.clear > 0
      BY <1>8 DEF Mq!NoteClear
    <2>2. notes' \in NoteCounts /\ notes'.call = notes.call /\ notes'.clear = notes.clear - 1
      BY <1>2, <2>1 DEF NoteCounts
    <2>3. not' \in Words  BY <2>1 DEF Words
    <2>4. SerialKnows'
      BY <1>1, <1>2, <1>3, <1>4, <1>5, <2>1, <2>2 DEF MqInv, SerialKnows
    <2> QED  BY <1>1, <2>2, <2>3, <2>4, StillStep
  <1> QED  BY <1>6, <1>7, <1>8

\* The end of a call of a thread that is awake: with calls that do not overlap
\* nothing is missed if nothing was due, or is registered any more, or it notified.
LEMMA SerialEnds ==
  ASSUME MqInv, NEW t \in Threads, NEW res, NEW fired, Mq!Ends(t, res, fired),
         call[t].pc \notin Asleep \cup {"idle"}, UNCHANGED <<not, fault, habit>>,
         habit = "serial" => call[t].due = "zero" \/ not = "zero" \/ fired,
         \/ notes' = notes
         \/ not # "zero" /\ notes' = [notes EXCEPT !.call = @ + 1]
  PROVE  SerialKnows'
  <1>1. PICK k \in MqCall : k = Mq!Idle /\ k.pc = "idle"  BY IdleIs
  <1>2. call' = [call EXCEPT ![t] = k]  BY <1>1 DEF Mq!Ends, Mq!Return
  <1>3. call'[t] = k /\ \A u \in Threads : u # t => call'[u] = call[u]  BY <1>2, CallIs DEF MqInv
  <1>4. habit = "serial" =>
          /\ \A u \in Threads : u # t => call[u].pc \in Asleep \cup {"idle"}
          /\ notes.call = 0 /\ notes.clear = 0 /\ ~missed /\ fault = "no"
    BY SerialAlone
  <1>5. missed' = (missed \/ (call[t].due # "zero" /\ not = call[t].due /\ ~fired))
    BY DEF Mq!Ends
  <1>6. habit = "serial" => ~missed'  BY <1>4, <1>5
  <1>7. notes \in NoteCounts  BY DEF MqInv, MqTypes
  <1>8. habit = "serial" => /\ notes'.call + notes'.clear <= 1
                            /\ notes'.call > 0 => not' # "zero"
    <2>1. CASE notes' = notes  BY <1>4, <2>1
    <2>2. CASE not # "zero" /\ notes' = [notes EXCEPT !.call = @ + 1]
      <3>1. notes'.call = notes.call + 1 /\ notes'.clear = notes.clear
        BY <1>7, <2>2 DEF NoteCounts
      <3> QED  BY <1>4, <2>2, <3>1
    <2> QED  BY <2>1, <2>2
  <1> QED  BY <1>1, <1>3, <1>4, <1>6, <1>8, SerialOne

LEMMA SampleAgainInv ==
  ASSUME MqInv, NEW t \in Threads, Mq!SampleAgain(t)
  PROVE  MqInv'
  <1>1. /\ call[t].pc = "sample"
        /\ UNCHANGED <<buf, waitq, received, not, notes, fault, habit>>
    BY DEF Mq!SampleAgain, Mq!At, Mq!kernel
  <1>2. call \in [Threads -> MqCall] /\ not \in Words /\ notes \in NoteCounts  BY DEF MqInv, MqTypes
  <1>3. call[t].pc \notin Asleep \cup {"idle"} /\ call[t].pc \in Sent /\ call[t].pc \notin Sending
    BY <1>1 DEF Asleep, Sent, Sending
  <1>4. CASE Len(buf) # call[t].sample
    <2>1. hist' = hist /\ missed' = missed /\ call' = WithPcSample(call, t, "notify", 0)
      BY <1>4 DEF Mq!SampleAgain, WithPcSample
    <2>2. "notify" \in Places  BY DEF Places, Sent
    <2>3. PICK k \in MqCall : call' = WithCall(call, t, k) /\ k.pc = "notify" /\ k.msg = call[t].msg
      BY <1>2, <2>1, <2>2, CallPcSample
    <2>4. call' = [call EXCEPT ![t] = k]  BY <2>3 DEF WithCall
    <2>5. k.pc \notin Asleep /\ k.pc \notin Sending  BY <2>3 DEF Asleep, Sending
    <2>6. call'[t] = k /\ \A u \in Threads : u # t => call'[u] = call[u]  BY <2>4, CallIs DEF MqInv
    <2>7. habit = "serial" =>
            /\ \A u \in Threads : u # t => call[u].pc \in Asleep \cup {"idle"}
            /\ notes.call = 0 /\ notes.clear = 0 /\ ~missed /\ fault = "no"
      BY <1>3, SerialAlone
    <2>8. SerialKnows'  BY <1>1, <2>1, <2>3, <2>6, <2>7, SerialOne
    <2> QED  BY <1>1, <1>2, <1>3, <2>1, <2>3, <2>4, <2>5, <2>8, QuietStep
  <1>5. CASE ~(Len(buf) # call[t].sample)
    <2>1. Mq!Ends(t, "sent", FALSE)  BY <1>5 DEF Mq!SampleAgain
    <2>2. habit = "serial" => call[t].due = "zero"  BY <1>1, <1>5 DEF MqInv, SerialKnows
    <2>3. SerialKnows'  BY <1>1, <1>3, <2>1, <2>2, SerialEnds
    <2> QED  BY <1>1, <1>2, <1>3, <2>1, <2>3, EndsStep
  <1> QED  BY <1>4, <1>5

LEMMA NotifyInv ==
  ASSUME MqInv, NEW t \in Threads, Mq!NotifyKind(t) \/ Mq!NotifyNoThread(t)
  PROVE  MqInv'
  <1>1. /\ call[t].pc = "notify"
        /\ UNCHANGED <<buf, waitq, received, not, fault, habit>>
    BY DEF Mq!NotifyKind, Mq!NotifyNoThread, Mq!At, Mq!kernel
  <1>2. call \in [Threads -> MqCall] /\ not \in Words /\ notes \in NoteCounts  BY DEF MqInv, MqTypes
  <1>3. call[t].pc \notin Asleep \cup {"idle"} /\ call[t].pc \in Sent /\ call[t].pc \notin Sending
    BY <1>1 DEF Asleep, Sent, Sending
  <1>4. CASE not = "none" /\ Mq!Goto(t, "call") /\ UNCHANGED <<notes, hist, missed>>
    <2>1. call' = WithPc(call, t, "call")  BY <1>4 DEF Mq!Goto, WithPc
    <2>2. "call" \in Places  BY DEF Places, Sent
    <2>3. PICK k \in MqCall : call' = WithCall(call, t, k) /\ k.pc = "call" /\ k.msg = call[t].msg
      BY <1>2, <2>1, <2>2, CallPc
    <2>4. call' = [call EXCEPT ![t] = k]  BY <2>3 DEF WithCall
    <2>5. k.pc \notin Asleep /\ k.pc \notin Sending  BY <2>3 DEF Asleep, Sending
    <2>6. call'[t] = k /\ \A u \in Threads : u # t => call'[u] = call[u]  BY <2>4, CallIs DEF MqInv
    <2>7. habit = "serial" =>
            /\ \A u \in Threads : u # t => call[u].pc \in Asleep \cup {"idle"}
            /\ notes.call = 0 /\ notes.clear = 0 /\ ~missed /\ fault = "no"
      BY <1>3, SerialAlone
    <2>8. SerialKnows'  BY <1>1, <1>4, <2>3, <2>6, <2>7, SerialOne
    <2> QED  BY <1>1, <1>2, <1>3, <1>4, <2>3, <2>4, <2>5, <2>8, QuietStep
  <1>5. CASE /\ not = "thread" /\ notes' = [notes EXCEPT !.call = @ + 1] /\ Mq!Ends(t, "sent", TRUE)
    <2>1. notes' \in NoteCounts  BY <1>2, <1>5 DEF NoteCounts
    <2>2. SerialKnows'  BY <1>1, <1>3, <1>5, SerialEnds
    <2> QED  BY <1>1, <1>3, <1>5, <2>1, <2>2, EndsStep
  <1>6. CASE not = "zero" /\ Mq!Ends(t, "sent", FALSE) /\ notes' = notes
    <2>1. SerialKnows'  BY <1>1, <1>3, <1>6, SerialEnds
    <2> QED  BY <1>1, <1>2, <1>3, <1>6, <2>1, EndsStep
  <1>7. CASE Mq!NotifyNoThread(t)
    <2>1. Mq!Ends(t, "create", TRUE) /\ notes' = notes  BY <1>7 DEF Mq!NotifyNoThread
    <2>2. SerialKnows'  BY <1>1, <1>3, <2>1, SerialEnds
    <2> QED  BY <1>1, <1>2, <1>3, <2>1, <2>2, EndsStep
  <1> QED  BY <1>4, <1>5, <1>6, <1>7 DEF Mq!NotifyKind

LEMMA NotifyCallInv ==
  ASSUME MqInv, NEW t \in Threads, Mq!NotifyCall(t)
  PROVE  MqInv'
  <1>1. /\ call[t].pc = "call"
        /\ UNCHANGED <<buf, waitq, received, not, notes, habit>>
    BY DEF Mq!NotifyCall, Mq!At, Mq!kernel
  <1>2. not \in Words /\ notes \in NoteCounts  BY DEF MqInv, MqTypes
  <1>3. call[t].pc \notin Asleep \cup {"idle"} /\ call[t].pc \in Sent /\ call[t].pc \notin Sending
    BY <1>1 DEF Asleep, Sent, Sending
  <1>4. CASE not = "zero"
    <2>1. call' = call /\ hist' = hist /\ habit # "serial"
      BY <1>1, <1>4 DEF Mq!NotifyCall, MqInv, SerialKnows
    <2>2. SerialKnows'  BY <1>1, <2>1 DEF SerialKnows
    <2> QED  BY <1>1, <1>2, <2>1, <2>2, StillStep
  <1>5. CASE not # "zero"
    <2>1. Mq!Ends(t, "sent", TRUE) /\ fault' = fault  BY <1>5 DEF Mq!NotifyCall
    <2>2. SerialKnows'  BY <1>1, <1>3, <2>1, SerialEnds
    <2> QED  BY <1>1, <1>2, <1>3, <2>1, <2>2, EndsStep
  <1> QED  BY <1>4, <1>5

\* A thread goes to sleep, waiting as its place l says.
LEMMA SleepsInv ==
  ASSUME MqInv, NEW t \in Threads, NEW l \in Asleep, Mq!Goto(t, l), waitq' = Append(waitq, t),
         call[t].pc \notin Asleep \cup {"idle"},
         UNCHANGED <<buf, received, not, notes, hist, missed, fault, habit>>,
         l = "get_wait" => buf = <<>>, l = "put_wait" => call[t].pc \in Sending /\ Len(buf) = MaxMsg
  PROVE  MqInv'
  <1>1. call \in [Threads -> MqCall] /\ waitq \in Seq(Threads)  BY DEF MqInv, MqTypes
  <1>2. call' = WithPc(call, t, l) /\ l \in Places
    BY DEF Mq!Goto, WithPc, Asleep, Places, Sending
  <1>3. PICK k \in MqCall : /\ call' = WithCall(call, t, k)
                            /\ k.pc = l /\ k.msg = call[t].msg /\ k.due = call[t].due
    BY <1>1, <1>2, CallPc
  <1>4. call' = [call EXCEPT ![t] = k]  BY <1>3 DEF WithCall
  <1>5. /\ call' \in [Threads -> MqCall] /\ call'[t] = k
        /\ \A u \in Threads : u # t => call'[u] = call[u]
    BY <1>4, CallIs DEF MqInv
  <1>6. Waiting' = Waiting \cup {t} /\ t \notin Waiting  BY <1>3, <1>5 DEF Waiting
  <1>7. waitq' \in Seq(Threads) /\ Queued(waitq', Waiting')
    BY <1>1, <1>6, QueuedAppend DEF MqInv, SleepersQueued
  <1>8. MqTypes'  BY <1>5, <1>7 DEF MqInv, MqTypes
  <1>9. Queued(waitq, Waiting)'  BY <1>7 DEF Queued
  <1>10. SleepersQueued'  BY <1>3, <1>5, <1>9 DEF MqInv, SleepersQueued
  <1>11. Mq!Taken' = Mq!Taken  BY DEF Mq!Taken
  <1>12. (k.pc \in Sending => call[t].pc \in Sending) /\ k.pc \notin Sent
    BY <1>3 DEF Asleep, Sending, Sent
  <1>13. Messages'  BY <1>3, <1>5, <1>11, <1>12, QuietMessages DEF MqInv
  <1>14. NothingDue'  BY <1>3, <1>5, <1>12 DEF MqInv, NothingDue
  <1>15. habit = "serial" =>
           /\ \A u \in Threads : u # t => call[u].pc \in Asleep \cup {"idle"}
           /\ notes.call = 0 /\ notes.clear = 0 /\ ~missed /\ fault = "no"
    BY SerialAlone
  <1>16. k.pc \in Asleep /\ k.pc # "call" /\ k.pc # "put" /\ k.pc # "sample"
    BY <1>3 DEF Asleep
  <1>17. SerialKnows'  BY <1>5, <1>15, <1>16, SerialOne
  <1> QED  BY <1>8, <1>10, <1>13, <1>14, <1>17 DEF MqInv

LEMMA PutFullInv ==
  ASSUME MqInv, NEW t \in Threads, Mq!PutFull(t)
  PROVE  MqInv'
  <1>1. /\ call[t].pc = "put" /\ Len(buf) = MaxMsg
        /\ UNCHANGED <<buf, received, not, notes, fault, habit>>
    BY DEF Mq!PutFull, Mq!At
  <1>2. not \in Words /\ notes \in NoteCounts  BY DEF MqInv, MqTypes
  <1>3. call[t].pc \notin Asleep \cup {"idle"} /\ call[t].pc \in Sending
    BY <1>1 DEF Asleep, Sending
  <1>4. CASE call[t].how = "nowait"
    <2>1. Mq!Ends(t, "failed", FALSE) /\ waitq' = waitq  BY <1>4 DEF Mq!PutFull
    <2>2. call[t].due = "zero"  BY <1>3 DEF MqInv, NothingDue
    <2>3. SerialKnows'  BY <1>1, <1>3, <2>1, <2>2, SerialEnds
    <2> QED  BY <1>1, <1>2, <1>3, <2>1, <2>3, EndsStep
  <1>5. CASE call[t].how # "nowait"
    <2>1. /\ Mq!Goto(t, "put_wait") /\ waitq' = Append(waitq, t) /\ hist' = hist
          /\ missed' = missed
      BY <1>5 DEF Mq!PutFull
    <2>2. "put_wait" \in Asleep  BY DEF Asleep
    <2> QED  BY <1>1, <1>3, <2>1, <2>2, SleepsInv
  <1> QED  BY <1>4, <1>5

LEMMA GetEmptyInv ==
  ASSUME MqInv, NEW t \in Threads, Mq!GetEmpty(t)
  PROVE  MqInv'
  <1>1. /\ call[t].pc = "get" /\ buf = <<>>
        /\ UNCHANGED <<buf, received, not, notes, hist, missed, fault, habit>>
    BY DEF Mq!GetEmpty, Mq!At
  <1>2. not \in Words /\ notes \in NoteCounts  BY DEF MqInv, MqTypes
  <1>3. call[t].pc \notin Asleep \cup {"idle"}  BY <1>1 DEF Asleep
  <1>4. CASE call[t].how = "nowait"
    <2>1. call' = [call EXCEPT ![t] = Mq!Idle] /\ waitq' = waitq
      BY <1>4 DEF Mq!GetEmpty, Mq!Return
    <2>2. PICK k \in MqCall : k = Mq!Idle /\ k.pc = "idle"  BY IdleIs
    <2>3. call' = [call EXCEPT ![t] = k]  BY <2>1, <2>2
    <2>4. k.pc \notin Asleep /\ k.pc \notin Sending \cup Sent  BY <2>2 DEF Asleep, Sending, Sent
    <2>5. call'[t] = k /\ \A u \in Threads : u # t => call'[u] = call[u]  BY <2>3, CallIs DEF MqInv
    <2>6. habit = "serial" =>
            /\ \A u \in Threads : u # t => call[u].pc \in Asleep \cup {"idle"}
            /\ notes.call = 0 /\ notes.clear = 0 /\ ~missed /\ fault = "no"
      BY <1>3, SerialAlone
    <2>7. SerialKnows'  BY <1>1, <2>2, <2>5, <2>6, SerialOne
    <2> QED  BY <1>1, <1>2, <1>3, <2>1, <2>3, <2>4, <2>7, QuietStep
  <1>5. CASE call[t].how # "nowait"
    <2>1. Mq!Goto(t, "get_wait") /\ waitq' = Append(waitq, t)  BY <1>5 DEF Mq!GetEmpty
    <2>2. "get_wait" \in Asleep  BY DEF Asleep
    <2> QED  BY <1>1, <1>3, <2>1, <2>2, SleepsInv
  <1> QED  BY <1>4, <1>5

LEMMA ExpiresInv ==
  ASSUME MqInv, NEW t \in Threads, Mq!PutExpires(t) \/ Mq!GetExpires(t)
  PROVE  MqInv'
  <1>1. /\ call[t].pc \in Asleep
        /\ UNCHANGED <<buf, received, not, notes, fault, habit>>
        /\ call' = [call EXCEPT ![t] = Mq!Idle]
    BY DEF Mq!PutExpires, Mq!GetExpires, Mq!At, Mq!Ends, Mq!Return, Asleep
  <1>2. PICK i \in DOMAIN waitq : waitq[i] = t /\ waitq' = Mq!RemoveAt(waitq, i)
    BY DEF Mq!PutExpires, Mq!GetExpires
  <1>3. waitq \in Seq(Threads) /\ i \in 1..Len(waitq)  BY LenProperties DEF MqInv, MqTypes
  <1>4. PICK k \in MqCall : k = Mq!Idle /\ k.pc = "idle"  BY IdleIs
  <1>5. call' = [call EXCEPT ![t] = k]  BY <1>1, <1>4
  <1>6. /\ call' \in [Threads -> MqCall] /\ call'[t] = k
        /\ \A u \in Threads : u # t => call'[u] = call[u]
    BY <1>5, CallIs DEF MqInv
  <1>7. k.pc \notin Asleep /\ k.pc \notin Sending \cup Sent  BY <1>4 DEF Asleep, Sending, Sent
  <1>8. Waiting' = Waiting \ {t}  BY <1>6, <1>7 DEF Waiting
  <1>9. waitq' \in Seq(Threads) /\ Queued(waitq', Waiting')
    BY <1>2, <1>3, <1>8, QueuedRemove DEF MqInv, SleepersQueued
  <1>10. Queued(waitq, Waiting)'  BY <1>9 DEF Queued
  <1>11. \A u \in Threads : call'[u].pc \in Asleep => call'[u] = call[u]  BY <1>6, <1>7
  <1>12. SleepersQueued'  BY <1>1, <1>10, <1>11 DEF MqInv, SleepersQueued, Asleep
  <1>13. Mq!Taken' = Mq!Taken  BY <1>1 DEF Mq!Taken
  <1>14. hist' \in Seq(Message) /\ Messages' /\ (missed' <=> missed)
    <2>1. CASE Mq!PutExpires(t)
      <3>1. call[t].pc \in Sending /\ Mq!Ends(t, "failed", FALSE)
        BY <2>1 DEF Mq!PutExpires, Mq!At, Sending
      <3>2. hist' = [hist EXCEPT ![call[t].msg].res = "failed"]  BY <3>1 DEF Mq!Ends
      <3>3. missed' = (missed \/ (call[t].due # "zero" /\ not = call[t].due /\ ~FALSE))
        BY <3>1 DEF Mq!Ends
      <3>4. call[t].due = "zero"  BY <3>1 DEF MqInv, NothingDue
      <3>5. hist' \in Seq(Message) /\ Messages'
        BY <1>1, <1>13, <3>1, <3>2, EndsMessages DEF MqInv
      <3> QED  BY <3>3, <3>4, <3>5
    <2>2. CASE Mq!GetExpires(t)
      <3>1. hist' = hist /\ missed' = missed  BY <2>2 DEF Mq!GetExpires
      <3>2. Messages'  BY <1>6, <1>7, <1>13, <3>1, QuietMessages DEF MqInv
      <3> QED  BY <3>1, <3>2 DEF MqInv, MqTypes
    <2> QED  BY <2>1, <2>2
  <1>15. MqTypes'  BY <1>1, <1>6, <1>9, <1>14 DEF MqInv, MqTypes
  <1>16. NothingDue'  BY <1>6, <1>7 DEF MqInv, NothingDue
  <1>17. SerialKnows'
    <2>1. Mq!Busy' = Mq!Busy  BY <1>1, <1>4, <1>6 DEF Mq!Busy, Asleep
    <2>2. \A u \in Threads : call'[u].pc \in {"call", "put", "sample"} => call'[u] = call[u]
      BY <1>4, <1>6
    <2> QED  BY <1>1, <1>14, <2>1, <2>2 DEF MqInv, SerialKnows
  <1> QED  BY <1>12, <1>14, <1>15, <1>16, <1>17 DEF MqInv

LEMMA PutRoomInv ==
  ASSUME MqInv, NEW t \in Threads, Mq!PutRoom(t)
  PROVE  MqInv'
  <1>1. /\ call[t].pc = "put" /\ Mq!Receivers = {} /\ Len(buf) < MaxMsg
        /\ buf' = Append(buf, call[t].msg)
        /\ UNCHANGED <<waitq, received, not, notes, hist, missed, fault, habit>>
    BY DEF Mq!PutRoom, Mq!At
  <1>2. call \in [Threads -> MqCall] /\ not \in Words /\ notes \in NoteCounts /\ call[t] \in MqCall
    BY DEF MqInv, MqTypes
  <1>3. call[t].pc \notin Asleep \cup {"idle"} /\ call[t].pc \in Sending
    BY <1>1 DEF Asleep, Sending
  <1>4. PICK m \in Nat : m = call[t].msg  BY <1>2 DEF MqCall
  <1>5. PICK d \in Words : d = IF buf = <<>> THEN not ELSE "zero"  BY <1>2 DEF Words
  <1>6. call' = WithPcHowDue(call, t, "sample", "nowait", d)
    BY <1>5 DEF Mq!PutRoom, WithPcHowDue
  <1>7. "sample" \in Places /\ "nowait" \in Words  BY DEF Places, Sent, Words
  <1>8. PICK k \in MqCall : /\ call' = WithCall(call, t, k) /\ k.pc = "sample"
                            /\ k.sample = call[t].sample /\ k.msg = call[t].msg
    BY <1>2, <1>6, <1>7, CallPcHowDue
  <1>9. call' = [call EXCEPT ![t] = k]  BY <1>8 DEF WithCall
  <1>10. /\ call' \in [Threads -> MqCall] /\ call'[t] = k
         /\ \A u \in Threads : u # t => call'[u] = call[u]
    BY <1>9, CallIs DEF MqInv
  <1>11. PICK n \in Nat : n = Len(buf)  BY LenProperties DEF MqInv, MqTypes
  <1>12. buf' \in Seq(Nat) /\ Len(buf') = n + 1  BY <1>1, <1>4, <1>11, AppendProperties DEF MqInv, MqTypes
  <1>13. MqTypes'  BY <1>1, <1>10, <1>12 DEF MqInv, MqTypes
  <1>14. k.pc \notin Asleep /\ k.pc \notin Sending  BY <1>8 DEF Asleep, Sending
  <1>15. SleepersQueued'
    <2>1. Waiting' = Waiting  BY <1>3, <1>10, <1>14 DEF Waiting
    <2>2. Queued(waitq, Waiting)'  BY <1>1, <2>1 DEF MqInv, SleepersQueued, Queued
    <2>3. \A u \in Threads : call[u].pc # "get_wait"  BY <1>1 DEF Mq!Receivers
    <2>4. \A u \in Threads : call[u].pc # "put_wait"
      BY <1>1, <1>11, MqAssumption DEF MqInv, SleepersQueued
    <2>5. \A u \in Threads : call'[u].pc # "get_wait" /\ call'[u].pc # "put_wait"
      BY <1>8, <1>10, <2>3, <2>4
    <2>6. Len(buf') <= MaxMsg  BY <1>1, <1>11, <1>12, MqAssumption
    <2> QED  BY <2>2, <2>5, <2>6 DEF SleepersQueued
  <1>16. Mq!Taken' = Append(Mq!Taken, m)
    <2>1. Mq!Taken' = received \o Append(buf, m)  BY <1>1, <1>4 DEF Mq!Taken
    <2> QED  BY <2>1, ConcatAppend DEF Mq!Taken, MqInv, MqTypes
  <1>17. Messages'
    BY <1>1, <1>3, <1>4, <1>8, <1>10, <1>14, <1>16, TakesMessage DEF MqInv
  <1>18. NothingDue'  BY <1>10, <1>14 DEF MqInv, NothingDue
  <1>19. SerialKnows'
    <2>1. habit = "serial" =>
            /\ \A u \in Threads : u # t => call[u].pc \in Asleep \cup {"idle"}
            /\ notes.call = 0 /\ notes.clear = 0 /\ ~missed /\ fault = "no"
      BY <1>3, SerialAlone
    <2>2. habit = "serial" => k.sample = n  BY <1>1, <1>8, <1>11 DEF MqInv, SerialKnows
    <2>3. habit = "serial" => k.sample # Len(buf')  BY <1>11, <1>12, <2>2
    <2> QED  BY <1>1, <1>8, <1>10, <2>1, <2>3, SerialOne
  <1> QED  BY <1>13, <1>15, <1>17, <1>18, <1>19 DEF MqInv

\* The queue that somebody waits in is not empty, and the first of it is one of
\* those who wait.
LEMMA FirstWaits ==
  ASSUME MqInv, NEW u \in Waiting
  PROVE  /\ Head(waitq) \in Waiting /\ Tail(waitq) \in Seq(Threads)
         /\ Queued(Tail(waitq), Waiting \ {Head(waitq)})
  <1>1. waitq \in Seq(Threads) /\ Queued(waitq, Waiting) /\ u \in Threads
    BY DEF MqInv, MqTypes, SleepersQueued, Waiting
  <1>2. waitq # <<>>
    <2>1. PICK i \in 1..Len(waitq) : waitq[i] = u  BY <1>1 DEF Queued
    <2> QED  BY <1>1, <2>1
  <1> QED  BY <1>1, <1>2, QueuedHead

LEMMA PutHandOverInv ==
  ASSUME MqInv, NEW t \in Threads, Mq!PutHandOver(t)
  PROVE  MqInv'
  <1>1. PICK r : r = Head(waitq)  OBVIOUS
  <1>2. /\ call[t].pc = "put" /\ Mq!Receivers # {}
        /\ received' = Append(received, call[t].msg) /\ waitq' = Tail(waitq)
        /\ call' = [call EXCEPT ![t].pc = "sample", ![t].how = "nowait", ![r] = Mq!Idle]
        /\ UNCHANGED <<buf, not, notes, hist, missed, fault, habit>>
    BY <1>1 DEF Mq!PutHandOver, Mq!At
  <1>3. PICK u \in Waiting : call[u].pc = "get_wait"
    BY <1>2 DEF Mq!Receivers, Waiting, Asleep
  <1>4. /\ r \in Waiting /\ r \in Threads /\ waitq' \in Seq(Threads)
        /\ Queued(waitq', Waiting \ {r})
    BY <1>1, <1>2, FirstWaits DEF Waiting
  <1>5. buf = <<>> /\ Len(buf) = 0  BY <1>3 DEF MqInv, SleepersQueued, Waiting
  <1>6. call \in [Threads -> MqCall] /\ call[t] \in MqCall  BY DEF MqInv, MqTypes
  <1>7. call[t].pc \notin Asleep \cup {"idle"} /\ call[t].pc \in Sending
    BY <1>2 DEF Asleep, Sending
  <1>8. r # t  BY <1>4, <1>7 DEF Waiting
  <1>9. "sample" \in Places /\ "nowait" \in Words  BY DEF Places, Sent, Words
  <1>10. PICK k \in MqCall :
           /\ WithPcHow(call, t, "sample", "nowait") = WithCall(call, t, k)
           /\ k.pc = "sample" /\ k.sample = call[t].sample /\ k.msg = call[t].msg /\ k.due = call[t].due
    BY <1>6, <1>9, CallPcHow
  <1>11. PICK c : c = [call EXCEPT ![t] = k]  OBVIOUS
  <1>12. c = [call EXCEPT ![t].pc = "sample", ![t].how = "nowait"]
    BY <1>10, <1>11 DEF WithPcHow, WithCall
  <1>13. PICK j \in MqCall : j = Mq!Idle /\ j.pc = "idle"  BY IdleIs
  <1>14. call' = [c EXCEPT ![r] = j]  BY <1>2, <1>12, <1>13
  <1>15. c \in [Threads -> MqCall] /\ c[t] = k /\ \A x \in Threads : x # t => c[x] = call[x]
    BY <1>6, <1>11
  <1>16. /\ call' \in [Threads -> MqCall] /\ call'[t] = k /\ call'[r] = j
         /\ \A x \in Threads : x # t /\ x # r => call'[x] = call[x]
    BY <1>4, <1>8, <1>14, <1>15
  <1>17. PICK m \in Nat : m = call[t].msg  BY <1>6 DEF MqCall
  <1>18. received' \in Seq(Nat)  BY <1>2, <1>17, AppendProperties DEF MqInv, MqTypes
  <1>19. MqTypes'  BY <1>2, <1>4, <1>16, <1>18 DEF MqInv, MqTypes
  <1>20. /\ k.pc \notin Asleep /\ k.pc \notin Sending
         /\ j.pc \notin Asleep /\ j.pc \notin Sending \cup Sent
    BY <1>10, <1>13 DEF Asleep, Sending, Sent
  <1>21. SleepersQueued'
    <2>1. Waiting' = Waiting \ {r}  BY <1>7, <1>16, <1>20 DEF Waiting
    <2>2. Queued(waitq, Waiting)'  BY <1>4, <2>1 DEF Queued
    <2>3. \A x \in Threads : call'[x].pc \in Asleep => call'[x] = call[x]  BY <1>16, <1>20
    <2> QED  BY <1>2, <2>2, <2>3 DEF MqInv, SleepersQueued, Asleep
  <1>22. Mq!Taken' = Append(Mq!Taken, m)
    <2>1. received \in Seq(Nat)  BY DEF MqInv, MqTypes
    <2>2. Mq!Taken = received  BY <1>5, <2>1, ConcatEmptySeq DEF Mq!Taken
    <2>3. Mq!Taken' = received' \o <<>>  BY <1>2, <1>5 DEF Mq!Taken
    <2>4. Mq!Taken' = received'  BY <1>18, <2>3, ConcatEmptySeq
    <2> QED  BY <1>2, <1>17, <2>2, <2>4
  <1>23. Messages'
    BY <1>2, <1>7, <1>10, <1>16, <1>17, <1>20, <1>22, TakesMessage DEF MqInv
  <1>24. NothingDue'  BY <1>16, <1>20 DEF MqInv, NothingDue
  <1>25. SerialKnows'
    <2>1. habit = "serial" =>
            /\ \A x \in Threads : x # t => call[x].pc \in Asleep \cup {"idle"}
            /\ notes.call = 0 /\ notes.clear = 0 /\ ~missed /\ fault = "no"
      BY <1>7, SerialAlone
    <2>2. k.due = "zero"  BY <1>7, <1>10 DEF MqInv, NothingDue
    <2>3. habit = "serial" => \A x \in Threads : x # t => call'[x].pc \in Asleep \cup {"idle"}
      BY <1>13, <1>16, <2>1
    <2> QED  BY <1>2, <1>10, <1>16, <2>1, <2>2, <2>3, SerialOne
  <1> QED  BY <1>19, <1>21, <1>23, <1>24, <1>25 DEF MqInv

LEMMA GetInv ==
  ASSUME MqInv, NEW t \in Threads, Mq!Get(t)
  PROVE  MqInv'
  <1>1. /\ call[t].pc = "get" /\ buf # <<>>
        /\ received' = Append(received, Head(buf))
        /\ UNCHANGED <<not, notes, hist, missed, fault, habit>>
    BY DEF Mq!Get, Mq!At
  <1>2. /\ call \in [Threads -> MqCall] /\ received \in Seq(Nat) /\ buf \in Seq(Nat)
        /\ not \in Words /\ notes \in NoteCounts
    BY DEF MqInv, MqTypes
  <1>3. call[t].pc \notin Asleep \cup {"idle"} /\ call[t].pc \notin Sending \cup Sent
    BY <1>1 DEF Asleep, Sending, Sent
  <1>4. PICK n \in Nat : n = Len(buf) /\ n > 0  BY <1>1, <1>2, EmptySeq
  <1>5. Head(buf) \in Nat /\ Tail(buf) \in Seq(Nat) /\ Len(Tail(buf)) = n - 1
    BY <1>1, <1>2, <1>4, HeadTailProperties
  <1>6. received' \in Seq(Nat)  BY <1>1, <1>2, <1>5, AppendProperties
  <1>7. received' \o Tail(buf) = Mq!Taken  BY <1>1, <1>2, ConcatHead DEF Mq!Taken
  <1>8. \A u \in Threads : call[u].pc # "get_wait"  BY <1>1 DEF MqInv, SleepersQueued
  <1>9. PICK j \in MqCall : j = Mq!Idle /\ j.pc = "idle"  BY IdleIs
  <1>10. j.pc \notin Asleep /\ j.pc \notin Sending \cup Sent  BY <1>9 DEF Asleep, Sending, Sent
  <1>11. habit = "serial" =>
          /\ \A x \in Threads : x # t => call[x].pc \in Asleep \cup {"idle"}
          /\ notes.call = 0 /\ notes.clear = 0 /\ ~missed /\ fault = "no"
    BY <1>3, SerialAlone
  <1>12. CASE Mq!Senders = {}
    <2>1. buf' = Tail(buf) /\ call' = [call EXCEPT ![t] = j] /\ waitq' = waitq
      BY <1>9, <1>12 DEF Mq!Get, Mq!Return
    <2>2. /\ call' \in [Threads -> MqCall] /\ call'[t] = j
          /\ \A u \in Threads : u # t => call'[u] = call[u]
      BY <2>1, CallIs DEF MqInv
    <2>3. MqTypes'  BY <1>1, <1>5, <1>6, <2>1, <2>2 DEF MqInv, MqTypes
    <2>4. SleepersQueued'
      <3>1. Waiting' = Waiting  BY <1>3, <1>10, <2>2 DEF Waiting
      <3>2. Queued(waitq, Waiting)'  BY <2>1, <3>1 DEF MqInv, SleepersQueued, Queued
      <3>3. \A u \in Threads : call[u].pc # "put_wait"  BY <1>12 DEF Mq!Senders
      <3>4. \A u \in Threads : call'[u].pc # "get_wait" /\ call'[u].pc # "put_wait"
        BY <1>8, <1>9, <2>2, <3>3
      <3>5. Len(buf') <= MaxMsg
        BY <1>4, <1>5, <2>1, MqAssumption DEF MqInv, SleepersQueued
      <3> QED  BY <3>2, <3>4, <3>5 DEF SleepersQueued
    <2>5. Mq!Taken' = Mq!Taken  BY <1>7, <2>1 DEF Mq!Taken
    <2>6. Messages'  BY <1>1, <1>10, <2>2, <2>5, QuietMessages DEF MqInv
    <2>7. NothingDue'  BY <1>10, <2>2 DEF MqInv, NothingDue
    <2>8. SerialKnows'  BY <1>1, <1>9, <1>11, <2>2, SerialOne
    <2> QED  BY <2>3, <2>4, <2>6, <2>7, <2>8 DEF MqInv
  <1>13. CASE Mq!Senders # {}
    <2>1. PICK u \in Waiting : call[u].pc = "put_wait"
      BY <1>13 DEF Mq!Senders, Waiting, Asleep
    <2>2. PICK h : h = Head(waitq)  OBVIOUS
    <2>3. /\ h \in Waiting /\ h \in Threads /\ Tail(waitq) \in Seq(Threads)
          /\ Queued(Tail(waitq), Waiting \ {h})
      BY <2>2, FirstWaits DEF Waiting
    <2>4. call[h].pc = "put_wait" /\ call[h].pc \in Sending /\ h # t
      BY <1>3, <1>8, <2>3 DEF Waiting, Asleep, Sending
    <2>5. call[h] \in MqCall  BY <1>2, <2>3
    <2>6. PICK m \in Nat : m = call[h].msg  BY <2>5 DEF MqCall
    <2>7. /\ buf' = Append(Tail(buf), m) /\ waitq' = Tail(waitq)
          /\ call' = [call EXCEPT ![t] = Mq!Idle, ![h].pc = "sample", ![h].how = "nowait"]
      BY <1>13, <2>2, <2>6 DEF Mq!Get
    <2>8. PICK c : c = [call EXCEPT ![t] = j]  OBVIOUS
    <2>9. c \in [Threads -> MqCall] /\ c[t] = j /\ \A x \in Threads : x # t => c[x] = call[x]
      BY <1>2, <2>8
    <2>10. "sample" \in Places /\ "nowait" \in Words  BY DEF Places, Sent, Words
    <2>11. PICK k \in MqCall :
             /\ WithPcHow(c, h, "sample", "nowait") = WithCall(c, h, k)
             /\ k.pc = "sample" /\ k.msg = c[h].msg /\ k.due = c[h].due
      BY <2>3, <2>9, <2>10, CallPcHow
    <2>12. call' = [c EXCEPT ![h].pc = "sample", ![h].how = "nowait"]  BY <1>9, <2>7, <2>8
    <2>13. call' = [c EXCEPT ![h] = k]  BY <2>11, <2>12 DEF WithPcHow, WithCall
    <2>14. /\ call' \in [Threads -> MqCall] /\ call'[h] = k /\ call'[t] = j
           /\ \A x \in Threads : x # t /\ x # h => call'[x] = call[x]
      BY <2>3, <2>4, <2>9, <2>13
    <2>15. k.msg = m /\ k.due = "zero"
      BY <2>3, <2>4, <2>6, <2>9, <2>11 DEF MqInv, NothingDue
    <2>16. buf' \in Seq(Nat) /\ Len(buf') = n
      BY <1>4, <1>5, <2>6, <2>7, AppendProperties
    <2>17. MqTypes'  BY <1>1, <1>6, <2>3, <2>7, <2>14, <2>16 DEF MqInv, MqTypes
    <2>18. k.pc \notin Asleep /\ k.pc \notin Sending  BY <2>11 DEF Asleep, Sending
    <2>19. SleepersQueued'
      <3>1. Waiting' = Waiting \ {h}  BY <1>3, <1>10, <2>14, <2>18 DEF Waiting
      <3>2. Queued(waitq, Waiting)'  BY <2>3, <2>7, <3>1 DEF Queued
      <3>3. \A x \in Threads : call'[x].pc \in Asleep => call'[x] = call[x]
        BY <1>10, <2>14, <2>18
      <3>4. Len(buf') = Len(buf)  BY <1>4, <2>16
      <3> QED  BY <1>8, <3>2, <3>3, <3>4 DEF MqInv, SleepersQueued, Asleep
    <2>20. Mq!Taken' = Append(Mq!Taken, m)
      <3>1. Mq!Taken' = received' \o Append(Tail(buf), m)  BY <2>7 DEF Mq!Taken
      <3>2. received' \o Append(Tail(buf), m) = Append(received' \o Tail(buf), m)
        <4>1. PICK s \in Seq(Nat) : s = received'  BY <1>6
        <4> QED  BY <1>5, <4>1, ConcatAppend
      <3> QED  BY <1>7, <3>1, <3>2
    <2>21. Messages'
      BY <1>1, <1>10, <2>3, <2>4, <2>6, <2>14, <2>15, <2>18, <2>20, TakesMessage DEF MqInv
    <2>22. NothingDue'  BY <1>10, <2>14, <2>18 DEF MqInv, NothingDue
    <2>23. SerialKnows'
      <3>1. habit = "serial" => \A x \in Threads : x # h => call'[x].pc \in Asleep \cup {"idle"}
        BY <1>9, <1>11, <2>14
      <3> QED  BY <1>1, <1>11, <2>3, <2>11, <2>14, <2>15, <3>1, SerialOne
    <2> QED  BY <2>17, <2>19, <2>21, <2>22, <2>23 DEF MqInv
  <1> QED  BY <1>12, <1>13

LEMMA MqStill == MqInv /\ UNCHANGED ofMq => MqInv'
  <1> SUFFICES ASSUME MqInv, UNCHANGED ofMq PROVE MqInv'  OBVIOUS
  <1>1. UNCHANGED <<buf, waitq, received, hist, call, notes, not, habit, missed, fault>>
    BY DEF ofMq
  <1>2. SerialKnows'  BY <1>1 DEF MqInv, SerialKnows, Mq!Busy
  <1>3. notes' \in NoteCounts /\ not' \in Words  BY <1>1 DEF MqInv, MqTypes
  <1> QED  BY <1>1, <1>2, <1>3, StillStep

LEMMA MqNextInv == MqInv /\ Mq!Next => MqInv'
  <1> SUFFICES ASSUME MqInv, Mq!Next PROVE MqInv'  OBVIOUS
  <1>1. CASE Mq!Crashed
    <2>1. UNCHANGED ofMq  BY <1>1 DEF Mq!Crashed, Mq!vars, Mq!kernel, ofMq
    <2> QED  BY <2>1, MqStill
  <1>2. CASE Mq!NoteCall \/ Mq!NoteClear  BY <1>2, NoteInv
  <1>3. ASSUME NEW t \in Threads, Mq!Thread(t)  PROVE MqInv'
    BY <1>3, SendCallInv, WalkInv, StoreInv, SetattrInv, PutHandOverInv, PutRoomInv, PutFullInv,
       ExpiresInv, SampleAgainInv, NotifyInv, NotifyCallInv, GetInv, GetEmptyInv
       DEF Mq!Thread
  <1> QED  BY <1>1, <1>2, <1>3 DEF Mq!Next

LEMMA MqInvariance == PartsSpec => []MqInv
  <1>1. PartsInit => MqInv  BY MqInitInv DEF PartsInit
  <1>2. MqInv /\ [PartsNext]_partsVars => MqInv'
    <2> SUFFICES ASSUME MqInv, [PartsNext]_partsVars PROVE MqInv'  OBVIOUS
    <2>1. CASE Mq!Next  BY <2>1, MqNextInv
    <2>2. CASE UNCHANGED ofMq  BY <2>2, MqStill
    <2> QED  BY <2>1, <2>2 DEF PartsNext, partsVars
  <1> QED  BY <1>1, <1>2, PTL DEF PartsSpec

\* For any number of threads, messages and sends, and any size of the queue: a
\* message whose mq_send returned 0 is in the queue or was received, once, and one
\* whose call failed with EAGAIN or ETIMEDOUT is and was in neither, however a
\* timeout races with the receiver that makes room (send_message, mqueue.c).
THEOREM SendersAreTold == PartsSpec => []SendsTellTheTruth
  <1>1. MqInv => SendsTellTheTruth
    <2> SUFFICES ASSUME MqInv PROVE Mq!SendsTellTheTruth  BY DEF SendsTellTheTruth
    <2>1. DOMAIN Mq!Taken = 1..Len(Mq!Taken)  BY TakenIs, LenProperties DEF MqInv
    <2>2. DOMAIN hist = 1..Len(hist)  BY LenProperties DEF MqInv, MqTypes
    <2>3. Mq!IsInjective(Mq!Taken)  BY <2>1 DEF Mq!IsInjective, MqInv, Messages, TakenOnce
    <2>4. \A m : m \in Mq!Range(Mq!Taken) <=> InTaken(m)  BY <2>1 DEF Mq!Range, InTaken
    <2> QED
      BY <2>2, <2>3, <2>4 DEF Mq!SendsTellTheTruth, MqInv, Messages, ResultsTrue
  <1> QED  BY <1>1, MqInvariance, PTL

\* For any number of threads, messages and sends, and any size of the queue, the
\* messages of one thread are received in the order it sent them, also those that
\* had to wait for room or were handed over (send_message and receive_message).
THEOREM SendersKeepTheirOrder == PartsSpec => []SenderOrderKept
  <1>1. MqInv => SenderOrderKept
    <2> SUFFICES ASSUME MqInv PROVE Mq!SenderOrderKept  BY DEF SenderOrderKept
    <2>1. DOMAIN Mq!Taken = 1..Len(Mq!Taken)  BY TakenIs, LenProperties DEF MqInv
    <2> QED  BY <2>1 DEF Mq!SenderOrderKept, MqInv, Messages, InOrder
  <1> QED  BY <1>1, MqInvariance, PTL

\* If no client's call overlaps another or a notification, then for any number of
\* threads and messages every arrival on an empty queue is notified and no function
\* that was unregistered is called (send_message, mq_notify, mq_notify_thread).
THEOREM SerialArrivalsAreNotified == PartsSpec => []SerialArrivalNotifies
  <1>1. MqInv => SerialArrivalNotifies
    BY DEF MqInv, SerialKnows, SerialArrivalNotifies, Mq!SerialArrivalNotifies
  <1> QED  BY <1>1, MqInvariance, PTL

-----------------------------------------------------------------------------
(* The network databases *)

\* A set of natural numbers has a least one, which Min is.
LEMMA LeastNumber ==
  ASSUME NEW S \in SUBSET Nat, S # {}
  PROVE  Net!Min(S) \in S /\ \A y \in S : Net!Min(S) <= y
  <1> DEFINE R == OpToRel(<, Nat)
  <1>1. IsWellFoundedOn(R, Nat)  BY NatLessThanWellFounded
  <1>2. \A x, y \in Nat : <<x, y>> \in R <=> x < y  BY DEF OpToRel
  <1> HIDE DEF R
  <1>3. PICK x \in S : \A y \in S : ~(<<y, x>> \in R)  BY <1>1, WFMin
  <1>4. ASSUME NEW y \in S PROVE x <= y
    <2>1. x \in Nat /\ y \in Nat  OBVIOUS
    <2>2. ~(<<y, x>> \in R)  BY <1>3
    <2>3. ~(y < x)  BY <1>2, <2>1, <2>2
    <2> QED  BY <2>1, <2>3
  <1> QED  BY <1>4 DEF Net!Min

\* The three fields of the state.
St(fp, keep, pos) == [fp |-> fp, stayopen |-> keep, pos |-> pos]

LEMMA StFields ==
  ASSUME NEW fp, NEW keep, NEW pos
  PROVE  /\ St(fp, keep, pos).fp = fp /\ St(fp, keep, pos).stayopen = keep
         /\ St(fp, keep, pos).pos = pos
  BY DEF St

\* Every stream belongs to one database and is somewhere in its file.
NetOk(s) ==
    /\ s = St(s.fp, s.stayopen, s.pos)
    /\ s.fp \in [Net!DBs -> Streams \cup {NULL}]
    /\ s.stayopen \in [Net!DBs -> BOOLEAN]
    /\ s.pos \in [Streams -> Nat]
    /\ \A f \in Streams : s.pos[f] > 0 <=> \E d \in Net!DBs : s.fp[d] = f
    /\ \A d, e \in Net!DBs : d # e => s.fp[d] = NULL \/ s.fp[d] # s.fp[e]
    /\ \A d \in Net!DBs : s.fp[d] # NULL =>
         d \in DOMAIN Parsed /\ s.pos[s.fp[d]] \in 1..(Len(Parsed[d]) + 1)

\* t comes from s by a call on db: another database's stream is where it was, or closed.
Follows(s, t, db) == \A d \in Net!DBs \ {db} :
    t.fp[d] # NULL => t.fp[d] = s.fp[d] /\ t.pos[t.fp[d]] = s.pos[s.fp[d]]

LEMMA NetRelease ==
  ASSUME NEW s, NetOk(s), NEW db \in Net!DBs, NEW t, t = Net!netdb_release(s, db)
  PROVE  NetOk(t) /\ Follows(s, t, db) /\ t.fp[db] = NULL
  <1>1. CASE s.fp[db] = NULL  BY <1>1 DEF Net!netdb_release, Follows
  <1>2. CASE s.fp[db] # NULL
    <2> DEFINE g == s.fp[db]
               fp == [s.fp EXCEPT ![db] = NULL]
               pos == [s.pos EXCEPT ![g] = 0]
    <2>1. t = [s EXCEPT !.pos[s.fp[db]] = 0, !.fp[db] = NULL]  BY <1>2 DEF Net!netdb_release
    <2>2. t = St(fp, s.stayopen, pos)
      BY <2>1 DEF NetOk, St
    <2>3. t.fp = fp /\ t.stayopen = s.stayopen /\ t.pos = pos  BY <2>2, StFields
    <2>4. g \in Streams  BY <1>2 DEF NetOk
    <2>5. NetOk(t)
      <3>1. t = St(t.fp, t.stayopen, t.pos)  BY <2>2, <2>3
      <3>2. /\ t.fp \in [Net!DBs -> Streams \cup {NULL}]
            /\ t.stayopen \in [Net!DBs -> BOOLEAN]
            /\ t.pos \in [Streams -> Nat]
        BY <2>3, <2>4 DEF NetOk
      <3>3. /\ \A f \in Streams : t.pos[f] = IF f = g THEN 0 ELSE s.pos[f]
            /\ \A d \in Net!DBs : t.fp[d] = IF d = db THEN NULL ELSE s.fp[d]
        BY <2>3 DEF NetOk
      <3>4. \A d \in Net!DBs : s.fp[d] = g => d = db  BY <1>2 DEF NetOk
      <3> HIDE DEF g
      <3>5. \A f \in Streams : t.pos[f] > 0 <=> \E d \in Net!DBs : t.fp[d] = f
        BY <3>2, <3>3, <3>4, NetdbAssumption DEF NetOk, g
      <3>6. \A d, e \in Net!DBs : d # e => t.fp[d] = NULL \/ t.fp[d] # t.fp[e]
        BY <3>3 DEF NetOk
      <3>7. \A d \in Net!DBs : t.fp[d] # NULL =>
              d \in DOMAIN Parsed /\ t.pos[t.fp[d]] \in 1..(Len(Parsed[d]) + 1)
        BY <3>3, <3>4, NetdbAssumption DEF NetOk
      <3> QED  BY <3>1, <3>2, <3>5, <3>6, <3>7 DEF NetOk
    <2>6. Follows(s, t, db)  BY <1>2, <2>3, <2>4 DEF Follows, NetOk
    <2>7. t.fp[db] = NULL  BY <2>3 DEF NetOk
    <2> QED  BY <2>5, <2>6, <2>7
  <1> QED  BY <1>1, <1>2

LEMMA NetReleaseOthers ==
  ASSUME NEW s, NetOk(s), NEW db \in Net!DBs, NEW t, t = Net!netdb_release_others(s, db)
  PROVE  NetOk(t) /\ Follows(s, t, db) /\ t.fp[db] = s.fp[db]
  <1> DEFINE idle == {d \in Net!DBs \ {db} : s.fp[d] # NULL /\ ~s.stayopen[d]}
             pos == [f \in Streams |-> IF \E d \in idle : s.fp[d] = f THEN 0 ELSE s.pos[f]]
             fp == [d \in Net!DBs |-> IF d \in idle THEN NULL ELSE s.fp[d]]
  <1>1. t = [s EXCEPT !.pos = pos, !.fp = fp]  BY DEF Net!netdb_release_others
  <1>2. idle \subseteq Net!DBs \ {db} /\ \A d \in idle : s.fp[d] \in Streams  BY DEF NetOk
  <1>3. /\ pos \in [Streams -> Nat] /\ fp \in [Net!DBs -> Streams \cup {NULL}]
        /\ \A f \in Streams : pos[f] = IF \E d \in idle : s.fp[d] = f THEN 0 ELSE s.pos[f]
        /\ \A d \in Net!DBs : fp[d] = IF d \in idle THEN NULL ELSE s.fp[d]
    BY DEF NetOk
  <1> HIDE DEF idle, pos, fp
  <1>4. t = St(fp, s.stayopen, pos)  BY <1>1 DEF NetOk, St
  <1>5. t.fp = fp /\ t.stayopen = s.stayopen /\ t.pos = pos  BY <1>4, StFields
  <1>6. ASSUME NEW d \in Net!DBs, fp[d] # NULL
        PROVE  fp[d] = s.fp[d] /\ fp[d] \in Streams /\ pos[fp[d]] = s.pos[s.fp[d]]
    <2>1. d \notin idle /\ fp[d] = s.fp[d] /\ fp[d] \in Streams  BY <1>3, <1>6
    <2>2. \A e \in idle : s.fp[e] # s.fp[d]  BY <1>2, <1>6, <2>1 DEF NetOk
    <2> QED  BY <1>3, <2>1, <2>2
  <1>7. NetOk(t)
    <2>1. t = St(t.fp, t.stayopen, t.pos)  BY <1>4, <1>5
    <2>2. /\ t.fp \in [Net!DBs -> Streams \cup {NULL}]
          /\ t.stayopen \in [Net!DBs -> BOOLEAN]
          /\ t.pos \in [Streams -> Nat]
      BY <1>3, <1>5 DEF NetOk
    <2>3. ASSUME NEW f \in Streams PROVE pos[f] > 0 <=> \E d \in Net!DBs : fp[d] = f
      <3>1. CASE \E d \in idle : s.fp[d] = f
        <4>1. pos[f] = 0  BY <1>3, <3>1
        <4>2. ASSUME NEW d \in Net!DBs, fp[d] = f PROVE FALSE
          <5>1. f # NULL  BY NetdbAssumption
          <5>2. d \notin idle /\ s.fp[d] = f  BY <1>3, <4>2, <5>1
          <5> QED  BY <1>2, <3>1, <5>1, <5>2 DEF NetOk
        <4> QED  BY <4>1, <4>2
      <3>2. CASE ~\E d \in idle : s.fp[d] = f
        <4>1. pos[f] = s.pos[f]  BY <1>3, <3>2
        <4>2. (\E d \in Net!DBs : fp[d] = f) <=> (\E d \in Net!DBs : s.fp[d] = f)
          BY <1>3, <3>2, NetdbAssumption
        <4> QED  BY <4>1, <4>2 DEF NetOk
      <3> QED  BY <3>1, <3>2
    <2>4. \A d, e \in Net!DBs : d # e => fp[d] = NULL \/ fp[d] # fp[e]
      BY <1>3 DEF NetOk
    <2>5. \A d \in Net!DBs : fp[d] # NULL =>
            d \in DOMAIN Parsed /\ pos[fp[d]] \in 1..(Len(Parsed[d]) + 1)
      BY <1>6 DEF NetOk
    <2> QED  BY <1>5, <2>1, <2>2, <2>3, <2>4, <2>5 DEF NetOk
  <1>8. Follows(s, t, db)  BY <1>5, <1>6 DEF Follows
  <1>9. t.fp[db] = s.fp[db]  BY <1>2, <1>3, <1>5
  <1> QED  BY <1>7, <1>8, <1>9

MoveTo(s, db, p) == [s EXCEPT !.pos[s.fp[db]] = p]

\* A stream that is moved within its file.
LEMMA NetMove ==
  ASSUME NEW s, NetOk(s), NEW db \in Net!DBs, s.fp[db] # NULL,
         NEW p \in 1..(Len(Parsed[db]) + 1), NEW t, t = MoveTo(s, db, p)
  PROVE  /\ NetOk(t) /\ Follows(s, t, db) /\ t.fp = s.fp /\ t.stayopen = s.stayopen
         /\ t.pos[t.fp[db]] = p
  <1> DEFINE g == s.fp[db]
             pos == [s.pos EXCEPT ![g] = p]
  <1>1. g \in Streams /\ db \in DOMAIN Parsed /\ Len(Parsed[db]) \in Nat
    BY NetdbAssumption DEF NetOk
  <1>2. t = St(s.fp, s.stayopen, pos)  BY DEF NetOk, St, MoveTo
  <1>3. t.fp = s.fp /\ t.stayopen = s.stayopen /\ t.pos = pos  BY <1>2, StFields
  <1>4. p \in Nat /\ p > 0  BY <1>1
  <1>5. pos \in [Streams -> Nat] /\ \A f \in Streams : pos[f] = IF f = g THEN p ELSE s.pos[f]
    BY <1>1, <1>4 DEF NetOk
  <1> HIDE DEF pos
  <1>6. \A f \in Streams : pos[f] > 0 <=> \E d \in Net!DBs : s.fp[d] = f
    BY <1>4, <1>5 DEF NetOk
  <1>7. \A d \in Net!DBs \ {db} : s.fp[d] # NULL => s.fp[d] \in Streams /\ pos[s.fp[d]] = s.pos[s.fp[d]]
    BY <1>5 DEF NetOk
  <1>8. \A d \in Net!DBs : s.fp[d] # NULL =>
            d \in DOMAIN Parsed /\ pos[s.fp[d]] \in 1..(Len(Parsed[d]) + 1)
    BY <1>1, <1>5, <1>7 DEF NetOk
  <1>9. t = St(t.fp, t.stayopen, t.pos)  BY <1>2, <1>3
  <1> QED  BY <1>1, <1>3, <1>5, <1>6, <1>7, <1>8, <1>9 DEF NetOk, Follows

LEMMA NetOpen ==
  ASSUME NEW s, NetOk(s), NEW db \in Net!DBs, NEW t, t = Net!netdb_open(s, db)
  PROVE  /\ NetOk(t) /\ Follows(s, t, db)
         /\ s.fp[db] # NULL => t = s
         /\ s.fp[db] = NULL /\ t.fp[db] # NULL => t.pos[t.fp[db]] = 1
  <1> DEFINE o == Net!netdb_release_others(s, db)
             free == {f \in Streams : o.pos[f] = 0}
             g == CHOOSE f \in free : TRUE
  <1>1. NetOk(o) /\ Follows(s, o, db) /\ o.fp[db] = s.fp[db]  BY NetReleaseOthers
  <1>2. CASE s.fp[db] # NULL  BY <1>2 DEF Net!netdb_open, Follows
  <1>3. CASE s.fp[db] = NULL /\ (db \notin DOMAIN Parsed \/ free = {})
    <2>1. t = o  BY <1>3 DEF Net!netdb_open
    <2> QED  BY <1>1, <1>3, <2>1
  <1>4. CASE s.fp[db] = NULL /\ db \in DOMAIN Parsed /\ free # {}
    <2> DEFINE fp == [o.fp EXCEPT ![db] = g]
               pos == [o.pos EXCEPT ![g] = 1]
    <2>1. t = [o EXCEPT !.fp[db] = g, !.pos[g] = 1]  BY <1>4 DEF Net!netdb_open
    <2>2. g \in Streams /\ o.pos[g] = 0 /\ g # NULL /\ o.fp[db] = NULL /\ Len(Parsed[db]) \in Nat
      BY <1>1, <1>4, NetdbAssumption
    <2>3. \A d \in Net!DBs : o.fp[d] # g  BY <1>1, <2>2 DEF NetOk
    <2> HIDE DEF g, o
    <2>4. t = St(fp, o.stayopen, pos)  BY <1>1, <2>1 DEF NetOk, St
    <2>5. t.fp = fp /\ t.stayopen = o.stayopen /\ t.pos = pos  BY <2>4, StFields
    <2>6. /\ fp \in [Net!DBs -> Streams \cup {NULL}] /\ pos \in [Streams -> Nat]
          /\ \A f \in Streams : pos[f] = IF f = g THEN 1 ELSE o.pos[f]
          /\ \A d \in Net!DBs : fp[d] = IF d = db THEN g ELSE o.fp[d]
      BY <1>1, <2>2 DEF NetOk
    <2> HIDE DEF fp, pos
    <2>7. t = St(t.fp, t.stayopen, t.pos)  BY <2>4, <2>5
    <2>8. \A f \in Streams : pos[f] > 0 <=> \E d \in Net!DBs : fp[d] = f
      <3> SUFFICES ASSUME NEW f \in Streams PROVE pos[f] > 0 <=> \E d \in Net!DBs : fp[d] = f
        OBVIOUS
      <3>1. CASE f = g  BY <2>6, <3>1
      <3>2. CASE f # g
        <4>1. pos[f] = o.pos[f]  BY <2>6, <3>2
        <4>2. o.pos[f] > 0 <=> \E d \in Net!DBs : o.fp[d] = f  BY <1>1 DEF NetOk
        <4>3. f # NULL  BY NetdbAssumption
        <4> QED  BY <2>2, <2>6, <3>2, <4>1, <4>2, <4>3
      <3> QED  BY <3>1, <3>2
    <2>9. \A d, e \in Net!DBs : d # e => fp[d] = NULL \/ fp[d] # fp[e]
      BY <1>1, <2>3, <2>6 DEF NetOk
    <2>10. \A d \in Net!DBs \ {db} : fp[d] # NULL =>
             fp[d] = o.fp[d] /\ fp[d] \in Streams /\ pos[fp[d]] = o.pos[o.fp[d]]
      BY <1>1, <2>3, <2>6 DEF NetOk
    <2>11. fp[db] = g /\ pos[fp[db]] = 1  BY <2>2, <2>6
    <2>12. \A d \in Net!DBs : fp[d] # NULL =>
             d \in DOMAIN Parsed /\ pos[fp[d]] \in 1..(Len(Parsed[d]) + 1)
      <3> SUFFICES ASSUME NEW d \in Net!DBs, fp[d] # NULL
                   PROVE  d \in DOMAIN Parsed /\ pos[fp[d]] \in 1..(Len(Parsed[d]) + 1)
        OBVIOUS
      <3>1. CASE d = db  BY <1>4, <2>2, <2>11, <3>1
      <3>2. CASE d # db  BY <1>1, <2>10, <3>2 DEF NetOk
      <3> QED  BY <3>1, <3>2
    <2>13. o.stayopen \in [Net!DBs -> BOOLEAN]  BY <1>1 DEF NetOk
    <2>14. NetOk(t)  BY <2>5, <2>6, <2>7, <2>8, <2>9, <2>12, <2>13 DEF NetOk
    <2>15. Follows(s, t, db)  BY <1>1, <2>5, <2>10 DEF Follows
    <2> QED  BY <1>4, <2>5, <2>11, <2>14, <2>15
  <1> QED  BY <1>2, <1>3, <1>4

LEMMA FollowsOn ==
  ASSUME NEW s, NEW t, NEW u, NEW db, Follows(s, t, db), Follows(t, u, db)
  PROVE  Follows(s, u, db)
  BY DEF Follows

LEMMA NetRewind ==
  ASSUME NEW s, NetOk(s), NEW db \in Net!DBs, NEW t, t = Net!netdb_rewind(s, db)
  PROVE  /\ NetOk(t) /\ Follows(s, t, db)
         /\ t.fp[db] # NULL => t.pos[t.fp[db]] = 1
  <1> DEFINE o == Net!netdb_open(s, db)
  <1>1. NetOk(o) /\ Follows(s, o, db)  BY NetOpen
  <1> HIDE DEF o
  <1>2. CASE o.fp[db] = NULL
    <2>1. t = o  BY <1>2 DEF Net!netdb_rewind, o
    <2> QED  BY <1>1, <1>2, <2>1
  <1>3. CASE o.fp[db] # NULL
    <2>1. t = MoveTo(o, db, 1)  BY <1>3 DEF Net!netdb_rewind, o, MoveTo
    <2>2. 1 \in 1..(Len(Parsed[db]) + 1)  BY <1>1, <1>3, NetdbAssumption DEF NetOk
    <2>3. NetOk(t) /\ Follows(o, t, db) /\ t.pos[t.fp[db]] = 1
      BY <1>1, <1>3, <2>1, <2>2, NetMove
    <2> QED  BY <1>1, <2>3, FollowsOn
  <1> QED  BY <1>2, <1>3

\* The closing at the end of a call leaves the stream where it is, or closes it.
LEMMA NetClose ==
  ASSUME NEW s, NetOk(s), NEW db \in Net!DBs, NEW t, t = Net!netdb_close(s, db)
  PROVE  /\ NetOk(t) /\ Follows(s, t, db)
         /\ t.fp[db] # NULL => t = s
  <1>1. CASE s.stayopen[db]  BY <1>1 DEF Net!netdb_close, Follows
  <1>2. CASE ~s.stayopen[db]
    <2>1. t = Net!netdb_release(s, db)  BY <1>2 DEF Net!netdb_close
    <2> QED  BY <2>1, NetRelease
  <1> QED  BY <1>1, <1>2

Stay(s, db, x) == [s EXCEPT !.stayopen[db] = x]
StayOf(s, db, x) == [s.stayopen EXCEPT ![db] = x]

LEMMA StayIs ==
  ASSUME NEW s, s = St(s.fp, s.stayopen, s.pos), NEW db, NEW x
  PROVE  Stay(s, db, x) = St(s.fp, StayOf(s, db, x), s.pos)
  BY DEF Stay, StayOf, St

LEMMA NetStayopen ==
  ASSUME NEW s, NetOk(s), NEW db, NEW keep \in [Net!DBs -> BOOLEAN],
         NEW t, t = St(s.fp, keep, s.pos)
  PROVE  NetOk(t) /\ Follows(s, t, db) /\ t.fp = s.fp /\ t.pos = s.pos
  <1>1. t.fp = s.fp /\ t.stayopen = keep /\ t.pos = s.pos  BY StFields
  <1>2. t = St(t.fp, t.stayopen, t.pos)  BY <1>1
  <1> QED  BY <1>1, <1>2 DEF NetOk, Follows

-----------------------------------------------------------------------------

\* The entries before a line.
Before(db, p) == {j \in 1..(p - 1) : Parsed[db][j].ok}

\* After n calls of get...ent the stream is behind the n-th entry, or at the end.
Behind(db, p, n) ==
    \/ Cardinality(Before(db, p)) = n
    \/ p = Len(Parsed[db]) + 1 /\ Cardinality(Before(db, p)) < n

LEMMA BeforeFinite ==
  ASSUME NEW db \in DOMAIN Parsed, NEW p \in 1..(Len(Parsed[db]) + 1)
  PROVE  /\ IsFiniteSet(Before(db, p)) /\ Cardinality(Before(db, p)) \in Nat
         /\ Cardinality(Before(db, p)) <= Len(Parsed[db])
  <1>1. Len(Parsed[db]) \in Nat  BY NetdbAssumption
  <1>2. IsFiniteSet(1..Len(Parsed[db])) /\ Cardinality(1..Len(Parsed[db])) = Len(Parsed[db])
    <2>1. PICK n \in Nat : n = Len(Parsed[db])  BY <1>1
    <2>2. IsFiniteSet(1..n) /\ Cardinality(1..n) = n  BY FS_Interval
    <2> QED  BY <2>1, <2>2
  <1>3. Before(db, p) \subseteq 1..Len(Parsed[db])  BY <1>1 DEF Before
  <1>4. /\ IsFiniteSet(Before(db, p))
        /\ Cardinality(Before(db, p)) <= Cardinality(1..Len(Parsed[db]))
    BY <1>2, <1>3, FS_Subset
  <1> QED  BY <1>2, <1>4, FS_CardinalityType

LEMMA NetCardinality == \A S : Net!Cardinality(S) = Cardinality(S)
  BY DEF Net!Cardinality, Cardinality, Net!IsFiniteSet, IsFiniteSet

\* The lines up to the i-th that hold entries.
LEMMA UpTo ==
  ASSUME NEW db \in DOMAIN Parsed, NEW i \in Net!Entries(db)
  PROVE  {j \in Net!Entries(db) : j <= i} = Before(db, i + 1) /\ i \in 1..Len(Parsed[db])
  <1>1. Len(Parsed[db]) \in Nat /\ i \in 1..Len(Parsed[db])  BY NetdbAssumption DEF Net!Entries
  <1> QED  BY <1>1 DEF Net!Entries, Before

\* The next call of get...ent after w of them.
LEMMA NextEntry ==
  ASSUME NEW db \in DOMAIN Parsed, NEW from \in 1..(Len(Parsed[db]) + 1),
         NEW w \in 0..(Len(Parsed[db]) + 1), Behind(db, from, w),
         NEW n, n = IF w = Len(Parsed[db]) + 1 THEN w ELSE w + 1,
         NEW hits, hits = {i \in from..Len(Parsed[db]) : Parsed[db][i].ok}
  PROVE  /\ n \in 0..(Len(Parsed[db]) + 1)
         /\ hits # {} => /\ Net!Min(hits) \in Net!Nth(db, n)
                         /\ Net!Min(hits) + 1 \in 1..(Len(Parsed[db]) + 1)
                         /\ Behind(db, Net!Min(hits) + 1, n)
         /\ hits = {} => Net!Nth(db, n) = {} /\ Behind(db, Len(Parsed[db]) + 1, n)
  <1> DEFINE len == Len(Parsed[db])
  <1>1. len \in Nat /\ n \in 0..(len + 1)  BY NetdbAssumption
  <1> HIDE DEF len
  <1>2. /\ IsFiniteSet(Before(db, from)) /\ Cardinality(Before(db, from)) \in Nat
        /\ Cardinality(Before(db, from)) <= len
    BY BeforeFinite DEF len
  <1>3. len + 1 \in 1..(len + 1)  BY <1>1
  <1>4. /\ IsFiniteSet(Before(db, len + 1)) /\ Cardinality(Before(db, len + 1)) \in Nat
        /\ Cardinality(Before(db, len + 1)) <= len
    BY <1>3, BeforeFinite DEF len
  <1>5. CASE hits # {}
    <2> DEFINE i == Net!Min(hits)
    <2>1. hits \in SUBSET Nat  BY <1>1 DEF len
    <2>2. i \in hits /\ \A j \in hits : i <= j  BY <1>5, <2>1, LeastNumber
    <2> HIDE DEF i
    <2>3. i \in from..len /\ Parsed[db][i].ok  BY <2>2 DEF len
    <2>4. Before(db, i + 1) = Before(db, from) \cup {i} /\ i \notin Before(db, from)
      BY <1>1, <2>2, <2>3 DEF Before, len
    <2>5. Cardinality(Before(db, i + 1)) = Cardinality(Before(db, from)) + 1
      BY <1>2, <2>4, FS_AddElement
    <2>6. from # len + 1  BY <1>1, <2>3 DEF len
    <2>7. Cardinality(Before(db, from)) = w  BY <2>6 DEF Behind, len
    <2>8. n = w + 1  BY <1>1, <1>2, <2>7 DEF len
    <2>9. i \in Net!Entries(db)  BY <1>1, <2>3 DEF Net!Entries, len
    <2>10. Net!Cardinality({j \in Net!Entries(db) : j <= i}) = n
      BY <2>5, <2>7, <2>8, <2>9, UpTo, NetCardinality
    <2>11. i \in Net!Nth(db, n)  BY <2>9, <2>10 DEF Net!Nth
    <2>12. Behind(db, i + 1, n)  BY <2>5, <2>7, <2>8 DEF Behind
    <2>13. i + 1 \in 1..(len + 1)  BY <1>1, <2>3 DEF len
    <2> QED  BY <1>1, <1>5, <2>11, <2>12, <2>13 DEF i, len
  <1>6. CASE hits = {}
    <2>1. Before(db, len + 1) = Before(db, from)
      <3>1. ASSUME NEW j \in 1..len, Parsed[db][j].ok PROVE j < from
        BY <1>1, <1>6, <3>1 DEF len
      <3> QED  BY <1>1, <3>1 DEF Before, len
    <2>2. Cardinality(Before(db, len + 1)) <= w /\ (n = w => Cardinality(Before(db, len + 1)) < n)
      BY <1>1, <1>2, <1>4, <2>1 DEF Behind, len
    <2>3. Cardinality(Before(db, len + 1)) < n  BY <1>1, <1>4, <2>2 DEF len
    <2>4. ASSUME NEW i \in Net!Nth(db, n) PROVE FALSE
      <3>1. i \in Net!Entries(db) /\ Net!Cardinality({j \in Net!Entries(db) : j <= i}) = n
        BY DEF Net!Nth
      <3>2. Cardinality(Before(db, i + 1)) = n /\ i \in 1..len
        BY <3>1, UpTo, NetCardinality DEF len
      <3>3. Before(db, i + 1) \subseteq Before(db, len + 1)  BY <1>1, <3>2 DEF Before
      <3>4. Cardinality(Before(db, i + 1)) <= Cardinality(Before(db, len + 1))
        BY <1>4, <3>3, FS_Subset
      <3> QED  BY <1>1, <1>4, <2>3, <3>2, <3>4
    <2>5. Behind(db, len + 1, n)  BY <2>3 DEF Behind, len
    <2> QED  BY <1>1, <1>6, <2>4, <2>5 DEF len
  <1> QED  BY <1>5, <1>6

-----------------------------------------------------------------------------

\* What walked says of a stream at p.
Walks(db, p, n) == n = -1 \/ (n \in 0..(Len(Parsed[db]) + 1) /\ Behind(db, p, n))

NetInv ==
    /\ NetOk(netdb)
    /\ walked = [d \in Net!DBs |-> walked[d]]
    /\ \A d \in Net!DBs :
         /\ netdb.fp[d] = NULL => walked[d] = 0
         /\ netdb.fp[d] # NULL => Walks(d, netdb.pos[netdb.fp[d]], walked[d])
    /\ Net!NetdbAnswers

LEMMA NetBecomes ==
  ASSUME NetInv, NEW db \in Net!DBs, NEW t, NetOk(t), Follows(netdb, t, db), NEW n,
         t.fp[db] # NULL => Walks(db, t.pos[t.fp[db]], n),
         Net!Becomes(t, db, n), Net!NetdbAnswers'
  PROVE  NetInv'
  <1>1. /\ netdb' = t
        /\ walked' = [d \in Net!DBs |-> IF t.fp[d] = NULL THEN 0 ELSE IF d = db THEN n ELSE walked[d]]
    BY DEF Net!Becomes
  <1>2. ASSUME NEW d \in Net!DBs
        PROVE  /\ t.fp[d] = NULL => walked'[d] = 0
               /\ t.fp[d] # NULL => Walks(d, t.pos[t.fp[d]], walked'[d])
    <2>1. CASE d = db  BY <1>1, <2>1
    <2>2. CASE d # db
      <3>1. t.fp[d] # NULL => t.fp[d] = netdb.fp[d] /\ t.pos[t.fp[d]] = netdb.pos[netdb.fp[d]]
        BY <2>2 DEF Follows
      <3> QED  BY <1>1, <2>2, <3>1 DEF NetInv
    <2> QED  BY <2>1, <2>2
  <1>3. walked' = [d \in Net!DBs |-> walked'[d]]  BY <1>1
  <1> QED  BY <1>1, <1>2, <1>3 DEF NetInv

LEMMA NetSilent ==
  ASSUME answer' = Net!NoAnswer PROVE Net!NetdbAnswers'
  BY DEF Net!NoAnswer, Net!NetdbAnswers

LEMMA NetInitially == PartsInit => NetInv
  <1> SUFFICES ASSUME PartsInit PROVE NetInv  OBVIOUS
  <1>1. Net!Init  BY DEF PartsInit
  <1> DEFINE fp == [d \in Net!DBs |-> NULL]
             keep == [d \in Net!DBs |-> FALSE]
             pos == [f \in Streams |-> 0]
  <1>2. netdb = St(fp, keep, pos)  BY <1>1 DEF Net!Init, St
  <1>3. netdb.fp = fp /\ netdb.stayopen = keep /\ netdb.pos = pos  BY <1>2 DEF St
  <1>4. NetOk(netdb)
    <2>1. netdb = St(netdb.fp, netdb.stayopen, netdb.pos)  BY <1>2, <1>3
    <2>2. keep \in [Net!DBs -> BOOLEAN]  OBVIOUS
    <2> QED  BY <1>3, <2>1, <2>2, NetdbAssumption DEF NetOk
  <1>5. Net!NetdbAnswers  BY <1>1 DEF Net!Init, Net!NoAnswer, Net!NetdbAnswers
  <1> QED  BY <1>1, <1>3, <1>4, <1>5 DEF Net!Init, NetInv

\* get...ent
LEMMA NetGetent ==
  ASSUME NetInv, NEW db \in Net!DBs, Net!getent(db) PROVE NetInv'
  <1> DEFINE s == Net!netdb_open(netdb, db)
             r == Net!Seek(s, db, LAMBDA e : TRUE)
             len == Len(Parsed[db])
             w == walked[db]
             n == IF w \in {-1, len + 1} THEN w ELSE w + 1
  <1>1. NetOk(netdb) /\ NetOk(s) /\ Follows(netdb, s, db)  BY NetOpen DEF NetInv
  <1>2. CASE s.fp[db] = NULL /\ Net!Becomes(s, db, 0) /\ answer' = Net!NoAnswer
    <2> HIDE DEF s
    <2> QED  BY <1>1, <1>2, NetBecomes, NetSilent
  <1>3. CASE /\ s.fp[db] # NULL
             /\ Net!Becomes(Net!netdb_close(r.st, db), db, n)
             /\ answer' = [Net!NoAnswer EXCEPT !.db = db, !.call = "next", !.n = n, !.entry = r.entry]
    <2> DEFINE from == s.pos[s.fp[db]]
               hits == {i \in from..len : Parsed[db][i].ok}
               q == IF hits = {} THEN len + 1 ELSE Net!Min(hits) + 1
    <2>1. db \in DOMAIN Parsed /\ from \in 1..(len + 1) /\ len \in Nat
      BY <1>1, <1>3, NetdbAssumption DEF NetOk
    <2>2. Walks(db, from, w)
      <3>1. CASE netdb.fp[db] # NULL
        <4>1. s = netdb  BY <1>1, <3>1, NetOpen
        <4> QED  BY <3>1, <4>1 DEF NetInv
      <3>2. CASE netdb.fp[db] = NULL
        <4>1. from = 1 /\ w = 0  BY <1>1, <1>3, <3>2, NetOpen DEF NetInv
        <4>2. Before(db, 1) = {}  BY DEF Before
        <4>3. Behind(db, 1, 0)  BY <4>2, FS_EmptySet DEF Behind
        <4> HIDE DEF len
        <4> QED  BY <2>1, <4>1, <4>3 DEF Walks, len
      <3> QED  BY <3>1, <3>2
    <2>3. /\ r.st = MoveTo(s, db, q)
          /\ r.entry = IF hits = {} THEN Net!NoEntry ELSE Parsed[db][Net!Min(hits)]
      BY DEF Net!Seek, MoveTo
    <2> HIDE DEF s, r, hits, from, w
    <2>4. q \in 1..(len + 1) /\ Walks(db, q, n)
      <3>1. CASE w = -1
        <4>1. hits # {} => Net!Min(hits) \in hits
          <5>1. hits \in SUBSET Nat  BY <2>1 DEF hits
          <5> QED  BY <5>1, LeastNumber
        <4>2. q \in 1..(len + 1)  BY <2>1, <4>1 DEF hits
        <4> QED  BY <3>1, <4>2 DEF Walks
      <3>2. CASE w # -1
        <4>1. w \in 0..(len + 1) /\ Behind(db, from, w)  BY <2>2, <3>2 DEF Walks
        <4>2. n = IF w = len + 1 THEN w ELSE w + 1  BY <3>2
        <4> HIDE DEF n
        <4>3. /\ n \in 0..(len + 1)
              /\ hits # {} => Net!Min(hits) + 1 \in 1..(len + 1) /\ Behind(db, Net!Min(hits) + 1, n)
              /\ hits = {} => Behind(db, len + 1, n)
          BY <2>1, <4>1, <4>2, NextEntry DEF hits
        <4> QED  BY <2>1, <4>3 DEF Walks
      <3> QED  BY <3>1, <3>2
    <2>5. Net!NetdbAnswers'
      <3>1. answer'.call = "next" /\ answer'.db = db /\ answer'.n = n /\ answer'.entry = r.entry
        BY <1>3 DEF Net!NoAnswer
      <3>2. ASSUME n > 0
            PROVE  \/ \E i \in Net!Nth(db, n) : r.entry = Parsed[db][i]
                   \/ Net!Nth(db, n) = {} /\ r.entry = Net!NoEntry
        <4>1. w # -1  BY <3>2
        <4>2. w \in 0..(len + 1) /\ Behind(db, from, w)  BY <2>2, <4>1 DEF Walks
        <4>3. n = IF w = len + 1 THEN w ELSE w + 1  BY <4>1
        <4> HIDE DEF n
        <4>4. /\ hits # {} => Net!Min(hits) \in Net!Nth(db, n)
              /\ hits = {} => Net!Nth(db, n) = {}
          BY <2>1, <4>2, <4>3, NextEntry DEF hits
        <4> QED  BY <2>3, <4>4
      <3> HIDE DEF n
      <3> QED  BY <3>1, <3>2 DEF Net!NetdbAnswers
    <2> HIDE DEF n, q
    <2>6. /\ NetOk(r.st) /\ Follows(s, r.st, db) /\ r.st.pos[r.st.fp[db]] = q
      BY <1>1, <1>3, <2>3, <2>4, NetMove
    <2> DEFINE t == Net!netdb_close(r.st, db)
    <2>7. NetOk(t) /\ Follows(r.st, t, db) /\ (t.fp[db] # NULL => t = r.st)  BY <2>6, NetClose
    <2>8. Follows(netdb, t, db)  BY <1>1, <2>6, <2>7, FollowsOn
    <2>9. t.fp[db] # NULL => Walks(db, t.pos[t.fp[db]], n)  BY <2>4, <2>6, <2>7
    <2>10. Net!Becomes(t, db, n)  BY <1>3
    <2> HIDE DEF t
    <2> QED  BY <2>5, <2>7, <2>8, <2>9, <2>10, NetBecomes
  <1> QED  BY <1>2, <1>3 DEF Net!getent

\* get...by...
LEMMA NetGetby ==
  ASSUME NetInv, NEW db \in Net!DBs, NEW key, Net!getby(db, key) PROVE NetInv'
  <1> DEFINE s == Net!netdb_rewind(netdb, db)
             r == Net!Seek(s, db, LAMBDA e : Net!Matches(key, e))
             len == Len(Parsed[db])
             Or(e) == IF ~e.ok /\ db = "networks" THEN Net!lookup_network_fallback(key) ELSE e
             Found(e) == answer' = [Net!NoAnswer EXCEPT !.db = db, !.key = key,
                 !.call = IF s.fp[db] = NULL THEN "none" ELSE "search", !.entry = Or(e)]
  <1>1. /\ NetOk(netdb) /\ NetOk(s) /\ Follows(netdb, s, db)
        /\ s.fp[db] # NULL => s.pos[s.fp[db]] = 1
    BY NetRewind DEF NetInv
  <1>2. CASE s.fp[db] = NULL /\ Net!Becomes(s, db, 0) /\ Found(Net!NoEntry)
    <2>1. answer'.call = "none"  BY <1>2 DEF Net!NoAnswer
    <2>2. Net!NetdbAnswers'  BY <2>1 DEF Net!NetdbAnswers
    <2> HIDE DEF s
    <2> QED  BY <1>1, <1>2, <2>2, NetBecomes
  <1>3. CASE s.fp[db] # NULL /\ Net!Becomes(Net!netdb_close(r.st, db), db, -1) /\ Found(r.entry)
    <2> DEFINE hits == {i \in 1..len : Parsed[db][i].ok /\ Net!Matches(key, Parsed[db][i])}
               q == IF hits = {} THEN len + 1 ELSE Net!Min(hits) + 1
    <2>1. db \in DOMAIN Parsed /\ len \in Nat /\ s.pos[s.fp[db]] = 1
      BY <1>1, <1>3, NetdbAssumption DEF NetOk
    <2>2. /\ r.st = MoveTo(s, db, q)
          /\ r.entry = IF hits = {} THEN Net!NoEntry ELSE Parsed[db][Net!Min(hits)]
      BY <2>1 DEF Net!Seek, MoveTo
    <2>3. hits \in SUBSET Nat  BY <2>1
    <2>4. hits # {} => Net!Min(hits) \in hits /\ \A j \in hits : Net!Min(hits) <= j
      BY <2>3, LeastNumber
    <2>5. {i \in Net!Entries(db) : Net!Matches(key, Parsed[db][i])} = hits  BY DEF Net!Entries
    <2>6. hits # {} => Parsed[db][Net!Min(hits)].ok  BY <2>4
    <2>7. q \in 1..(len + 1)  BY <2>1, <2>4
    <2>8. Net!NetdbAnswers'
      <3>1. /\ answer'.call = "search" /\ answer'.db = db /\ answer'.key = key
            /\ answer'.entry = Or(r.entry)
        BY <1>3 DEF Net!NoAnswer
      <3> HIDE DEF hits, r, s, q
      <3>2. CASE hits # {}
        <4>1. answer'.entry = Parsed[db][Net!Min(hits)]  BY <2>2, <2>6, <3>1, <3>2
        <4>2. \E i \in hits : answer'.entry = Parsed[db][i] /\ \A j \in hits : i <= j
          BY <2>4, <3>2, <4>1
        <4> QED  BY <2>5, <3>1, <4>2 DEF Net!NetdbAnswers
      <3>3. CASE hits = {}
        <4>1. answer'.entry = IF db = "networks" THEN Net!lookup_network_fallback(key) ELSE Net!NoEntry
          BY <2>2, <3>1, <3>3 DEF Net!NoEntry
        <4> QED  BY <2>5, <3>1, <3>3, <4>1 DEF Net!NetdbAnswers
      <3> QED  BY <3>2, <3>3
    <2> HIDE DEF s, r, hits, q
    <2>9. NetOk(r.st) /\ Follows(s, r.st, db)  BY <1>1, <1>3, <2>2, <2>7, NetMove
    <2> DEFINE t == Net!netdb_close(r.st, db)
    <2>10. NetOk(t) /\ Follows(r.st, t, db)  BY <2>9, NetClose
    <2>11. Follows(netdb, t, db)  BY <1>1, <2>9, <2>10, FollowsOn
    <2>12. t.fp[db] # NULL => Walks(db, t.pos[t.fp[db]], -1)  BY DEF Walks
    <2>13. Net!Becomes(t, db, -1)  BY <1>3
    <2> HIDE DEF t
    <2> QED  BY <2>8, <2>10, <2>11, <2>12, <2>13, NetBecomes
  <1> QED  BY <1>2, <1>3 DEF Net!getby

\* A file at its first line.
LEMMA AtStart ==
  ASSUME NEW db \in DOMAIN Parsed PROVE Walks(db, 1, 0)
  <1>1. Before(db, 1) = {}  BY DEF Before
  <1>2. Behind(db, 1, 0)  BY <1>1, FS_EmptySet DEF Behind
  <1>3. Len(Parsed[db]) \in Nat  BY NetdbAssumption
  <1> QED  BY <1>2, <1>3 DEF Walks

LEMMA NetSetent ==
  ASSUME NetInv, NEW db \in Net!DBs, NEW b \in BOOLEAN, Net!setent(db, b) PROVE NetInv'
  <1> DEFINE k == StayOf(netdb, db, b)
             s == Stay(netdb, db, b)
             t == Net!netdb_rewind(s, db)
  <1>1. NetOk(netdb) /\ k \in [Net!DBs -> BOOLEAN]  BY DEF NetInv, NetOk, StayOf
  <1>2. s = St(netdb.fp, k, netdb.pos)  BY <1>1, StayIs DEF NetOk
  <1>3. Net!Becomes(t, db, 0) /\ answer' = Net!NoAnswer  BY DEF Net!setent, Stay
  <1> HIDE DEF k, s
  <1>4. NetOk(s) /\ Follows(netdb, s, db)  BY <1>1, <1>2, NetStayopen
  <1>5. NetOk(t) /\ Follows(s, t, db) /\ (t.fp[db] # NULL => t.pos[t.fp[db]] = 1)
    BY <1>4, NetRewind
  <1> HIDE DEF t
  <1>6. t.fp[db] # NULL => Walks(db, t.pos[t.fp[db]], 0)  BY <1>5, AtStart DEF NetOk
  <1>7. Follows(netdb, t, db)  BY <1>4, <1>5, FollowsOn
  <1> QED  BY <1>3, <1>5, <1>6, <1>7, NetBecomes, NetSilent

LEMMA NetEndent ==
  ASSUME NetInv, NEW db \in Net!DBs, Net!endent(db) PROVE NetInv'
  <1> DEFINE s == Net!netdb_release(netdb, db)
             k == StayOf(s, db, FALSE)
             t == Stay(s, db, FALSE)
  <1>1. NetOk(s) /\ Follows(netdb, s, db) /\ s.fp[db] = NULL  BY NetRelease DEF NetInv
  <1>2. Net!Becomes(t, db, 0) /\ answer' = Net!NoAnswer  BY DEF Net!endent, Stay
  <1> HIDE DEF s
  <1>3. k \in [Net!DBs -> BOOLEAN] /\ t = St(s.fp, k, s.pos)
    <2>1. k \in [Net!DBs -> BOOLEAN]  BY <1>1 DEF NetOk, StayOf
    <2>2. t = St(s.fp, k, s.pos)  BY <1>1, StayIs DEF NetOk
    <2> QED  BY <2>1, <2>2
  <1> HIDE DEF k, t
  <1>4. NetOk(t) /\ Follows(s, t, db) /\ t.fp = s.fp  BY <1>1, <1>3, NetStayopen
  <1>5. Follows(netdb, t, db)  BY <1>1, <1>4, FollowsOn
  <1> QED  BY <1>1, <1>2, <1>4, <1>5, NetBecomes, NetSilent

LEMMA NetStep == NetInv /\ Net!Next => NetInv'
  <1> SUFFICES ASSUME NetInv, Net!Next PROVE NetInv'  OBVIOUS
  <1>1. CASE Net!gethostent \/ Net!getnetent \/ Net!getprotoent \/ Net!getservent
    BY <1>1, NetGetent DEF Net!gethostent, Net!getnetent, Net!getprotoent, Net!getservent, Net!DBs
  <1>2. CASE \E key \in Keys : Net!scan_networks(key) \/ Net!scan_protocols(key) \/ Net!scan_services(key)
    BY <1>2, NetGetby DEF Net!scan_networks, Net!scan_protocols, Net!scan_services, Net!DBs
  <1>3. ASSUME NEW b \in BOOLEAN,
               Net!sethostent(b) \/ Net!setnetent(b) \/ Net!setprotoent(b) \/ Net!setservent(b)
        PROVE  NetInv'
    BY <1>3, NetSetent DEF Net!sethostent, Net!setnetent, Net!setprotoent, Net!setservent, Net!DBs
  <1>4. CASE Net!endhostent \/ Net!endnetent \/ Net!endprotoent \/ Net!endservent
    BY <1>4, NetEndent DEF Net!endhostent, Net!endnetent, Net!endprotoent, Net!endservent, Net!DBs
  <1> QED  BY <1>1, <1>2, <1>3, <1>4 DEF Net!Next

\* For any files, streams and keys, streams are neither lost nor shared, a search finds
\* the first entry that matches, and the n-th get...ent in a row the n-th entry,
\* however the calls on the four databases follow one another (netdb_ent.c).
THEOREM DatabasesAnswer == PartsSpec => []NetdbIsSound
  <1>1. PartsInit => NetInv  BY NetInitially
  <1>2. NetInv /\ [PartsNext]_partsVars => NetInv'
    <2> SUFFICES ASSUME NetInv, [PartsNext]_partsVars PROVE NetInv'  OBVIOUS
    <2>1. CASE part = "netdb" /\ Net!Next  BY <2>1, NetStep
    <2>2. CASE UNCHANGED ofNet
      <3>1. netdb' = netdb /\ answer' = answer /\ walked' = walked  BY <2>2 DEF ofNet
      <3>2. Net!NetdbAnswers'  BY <3>1 DEF NetInv, Net!NetdbAnswers
      <3> QED  BY <3>1, <3>2 DEF NetInv
    <2> QED  BY <2>1, <2>2 DEF PartsNext, partsVars
  <1>3. NetInv => NetdbIsSound
    <2> SUFFICES ASSUME NetInv PROVE NetdbIsSound  OBVIOUS
    <2>1. Net!NetdbStreamsAreOwned  BY DEF NetInv, NetOk, Net!NetdbStreamsAreOwned
    <2> QED  BY <2>1 DEF NetInv, NetdbIsSound, Net!NetdbIsSound
  <1> QED  BY <1>1, <1>2, <1>3, PTL DEF PartsSpec
=============================================================================
