------------------------------- MODULE Signals ------------------------------
(***************************************************************************)
(* lib/posix/options: signals/signal.c, realtime_signals/rtsig.c,          *)
(* shared/z_sig_set.c and pthread_sigmask and pthread_kill of pthread.c:   *)
(* POSIX signal numbers and sets over the kernel's, which may number       *)
(* signals differently, and a thread's mask, actions and waits.            *)
(***************************************************************************)
EXTENDS Integers, FiniteSets

CONSTANTS
    RtMax,      \* CONFIG_POSIX_RTSIG_MAX, and K_SIG_NUM_RT: the kernel's sets go up to SIGRTMAX
    SetBits,    \* the bits of a sigset_t, and of a struct k_sig_set
    Sigs,       \* the POSIX signals the program uses
    MaxHandled  \* bound: how many signals are handled

VARIABLES
    libc,       \* which C library numbers the signals
    ks,         \* the kernel's record of the thread: mask, pending, actions, delivered
    sigCall,    \* pause or sigsuspend: step, count sampled, mask saved
    sigSeen     \* ghost: the actions asked for; has a wait answered amiss

signalVars == <<libc, ks, sigCall, sigSeen>>

SIGRTMIN == 34
SIGRTMAX == SIGRTMIN + RtMax
K_SIG_RTMIN == 34
Reserved == {32, 33}        \* CONFIG_THREAD_CANCEL_SIGNAL_NUMBER and the next
Numbers == 1..SetBits

-----------------------------------------------------------------------------
(* Numbers and sets *)

\* The kernel numbers signals as Linux does, without 16, 28 and 30; so does
\* minimal libc.  Picolibc and newlib number ten signals as Cygwin does.
KStd == (1..31) \ {16, 28, 30}
Cygwin == [k \in KStd |->
    CASE k = 7 -> 10 [] k = 10 -> 30 [] k = 12 -> 31 [] k = 17 -> 20 [] k = 18 -> 19
      [] k = 19 -> 17 [] k = 20 -> 18 [] k = 23 -> 16 [] k = 29 -> 23 [] k = 31 -> 12
      [] OTHER -> k]
Sig(k) == IF libc = "minimal" THEN k ELSE Cygwin[k]

\* The tables; 0 where a number has no counterpart.
z_posix_to_k_std(n) ==
    LET same == {k \in KStd : Sig(k) = n} IN
    IF n \in Reserved THEN n ELSE IF same = {} THEN 0 ELSE CHOOSE k \in same : TRUE
z_k_to_posix_std(k) == IF k \in Reserved THEN k ELSE IF k \in KStd THEN Sig(k) ELSE 0

\* std is the entry that the table has for n.
z_sig_map(n, std, lo, hi, base) ==
    IF n \in lo..hi THEN n - lo + base ELSE IF n \in 0..33 THEN std ELSE -1

z_sig_from_posix(n) == z_sig_map(n, z_posix_to_k_std(n), SIGRTMIN, SIGRTMAX, K_SIG_RTMIN)

\* (mutant) real-time signals are counted from the number after K_SIG_RTMIN
z_sig_to_posix_short(k) ==
    z_sig_map(k, z_k_to_posix_std(k), K_SIG_RTMIN + 1, K_SIG_RTMIN + RtMax, SIGRTMIN)

z_sig_to_posix(k) ==
    z_sig_map(k, z_k_to_posix_std(k), K_SIG_RTMIN, K_SIG_RTMIN + RtMax, SIGRTMIN)

\* to[n] is what the member n of a set becomes; without a counterpart it is dropped.
sig_words_remap(to) == {to[n] : n \in DOMAIN to} \cap Numbers

\* The sets are the same bits when all the numbers agree.
z_sig_set_equal == \A k \in KStd : Sig(k) = k
z_sig_set_from_posix(s) == IF z_sig_set_equal THEN s
                           ELSE sig_words_remap([n \in s |-> z_sig_from_posix(n)])
z_sig_set_to_posix(s) == IF z_sig_set_equal THEN s
                         ELSE sig_words_remap([k \in s |-> z_sig_to_posix(k)])

ksigno_to_posix(k) == IF z_sig_to_posix(k) > 0 THEN z_sig_to_posix(k) ELSE k

signo_valid(n) ==
    n > 0 /\ n \notin Reserved /\ n <= (IF n < SIGRTMIN THEN 31 ELSE SIGRTMAX)
signo_fits(n) == n \in Numbers

\* sigaddset, sigdelset, sigismember; what they return on EINVAL is -1.
sigfillset == Numbers \ (32..(SIGRTMIN - 1))
sigaddset(s, n) == IF signo_valid(n) /\ signo_fits(n) THEN s \cup {n} ELSE s
sigdelset(s, n) == IF signo_valid(n) /\ signo_fits(n) THEN s \ {n} ELSE s
sigismember(s, n) ==
    IF signo_valid(n) /\ signo_fits(n) THEN (IF n \in s THEN 1 ELSE 0) ELSE -1

-----------------------------------------------------------------------------
(* Actions: sigaction keeps the program's handler behind z_sig_shim; the       *)
(* kernel has an entry for each signal whose action is not the default's.      *)

SIGKILL == 9
SIGSTOP == 19
SIGCONT == 18
UNMASKABLE_MASK == {SIGKILL, SIGSTOP}
CANCEL == 32

Default == [handler |-> "SIG_DFL", flags |-> {}, mask |-> {}]
NoEntry == [handler |-> "none", data |-> "NULL", flags |-> {}, mask |-> {}]

\* What the kernel does by default: it ends the thread, or nothing.  The last of the
\* real-time signals is not among those that end it.
Terminating == {1, 2, 3, 4, 5, 6, 7, 8, SIGKILL, 10, 11, 12, 13, 14, 15, 24, 25, 26, 27, 31}
z_sig_resolve(k) ==
    CASE k \in Terminating -> "z_sig_handler_term"
      [] k = CANCEL -> "z_sig_handler_cancel"
      [] k >= K_SIG_RTMIN /\ k < K_SIG_RTMIN + RtMax -> "z_sig_handler_term"
      [] OTHER -> "K_SIG_IGN"

\* A query: without an entry, a signal that is ignored by default reads as ignored.
Action(k) ==
    IF ks.act[k] # NoEntry THEN ks.act[k]
    ELSE [NoEntry EXCEPT !.handler = IF z_sig_resolve(k) = "K_SIG_IGN" THEN "K_SIG_IGN" ELSE "K_SIG_DFL"]

\* The entry that an action makes; the plain default has none.
Entry(a) ==
    IF a.handler = "K_SIG_DFL" /\ a.flags = {} /\ a.mask = {} THEN NoEntry
    ELSE [a EXCEPT !.mask = @ \ UNMASKABLE_MASK]

MayInstall(k, a) ==
    k \notin {SIGKILL, SIGSTOP} /\ (a.handler = "K_SIG_IGN" => k # SIGCONT)

ToKernel(a) ==
    [handler |-> CASE a.handler = "SIG_DFL" -> "K_SIG_DFL" [] a.handler = "SIG_IGN" -> "K_SIG_IGN"
                   [] OTHER -> "z_sig_shim",
     data |-> IF a.handler \in {"SIG_DFL", "SIG_IGN"} THEN "NULL" ELSE a.handler,
     flags |-> a.flags, mask |-> z_sig_set_from_posix(a.mask)]

posix_sig_disposition_get(k) ==
    [handler |-> CASE k.handler = "z_sig_shim" -> k.data [] k.handler = "K_SIG_IGN" -> "SIG_IGN"
                   [] OTHER -> "SIG_DFL",
     flags |-> k.flags, mask |-> z_sig_set_to_posix(k.mask)]

\* A thread of the kernel starts with every signal masked, one of user mode with none.
Init ==
    /\ libc \in {"minimal", "cygwin"}
    /\ \E user \in BOOLEAN :
          ks = [user |-> user, mask |-> IF user THEN {} ELSE Numbers, pending |-> {},
                delivered |-> 0, act |-> [k \in Numbers |-> NoEntry]]
    /\ sigCall = [pc |-> "idle", start |-> 0, saved |-> {}, ran |-> FALSE, cancel |-> FALSE]
    /\ sigSeen = [asked |-> [n \in Sigs |-> Default], stray |-> FALSE]

Running == sigCall.pc = "idle"

\* EINVAL for a number that is not valid or has no counterpart in the kernel.
sigaction(n, a) ==
    LET k == z_sig_from_posix(n) IN
    /\ Running
    /\ signo_valid(n) /\ k > 0
    /\ MayInstall(k, ToKernel(a))
    /\ ks' = [ks EXCEPT !.act[k] = Entry(ToKernel(a))]
    /\ sigSeen' = [sigSeen EXCEPT !.asked[n] = a]
    /\ UNCHANGED <<libc, sigCall>>

\* EINVAL, or ENOMEM: all threads share the table of entries, and it may be full.
SigactionFails(n, a) ==
    LET k == z_sig_from_posix(n) IN
    /\ Running
    /\ signo_valid(n) /\ k > 0
    /\ MayInstall(k, ToKernel(a)) => ks.act[k] = NoEntry /\ Entry(ToKernel(a)) # NoEntry
    /\ UNCHANGED signalVars

\* k_sig_mask; a thread of the kernel may mask any signal, and any thread that of
\* cancellation.
Masked(how, old, s) ==
    (CASE how = "block" -> old \cup s [] how = "unblock" -> old \ s [] how = "set" -> s)
    \ (IF ks.user THEN UNMASKABLE_MASK ELSE {})

pthread_sigmask(how, s) ==
    /\ Running
    /\ ks' = [ks EXCEPT !.mask = Masked(how, @, z_sig_set_from_posix(s))]
    /\ UNCHANGED <<libc, sigCall, sigSeen>>

sigprocmask(how, s) == pthread_sigmask(how, s)

-----------------------------------------------------------------------------
(* Sending.  k_sig_queue of the signal 0 only looks for the thread. *)

Queue(k) == ks' = [ks EXCEPT !.pending = @ \cup ({k} \ {0})]

kill(n) ==
    /\ signo_valid(n) /\ z_sig_from_posix(n) > 0
    /\ Queue(z_sig_from_posix(n))
    /\ UNCHANGED <<libc, sigCall, sigSeen>>

\* also a reserved number
pthread_kill(n) ==
    /\ z_sig_from_posix(n) > 0
    /\ Queue(z_sig_from_posix(n))
    /\ UNCHANGED <<libc, sigCall, sigSeen>>

\* also a number without a counterpart, for which nothing is sent
sigqueue(n) ==
    /\ n \in 0..SetBits
    /\ z_sig_from_posix(n) >= 0
    /\ Queue(z_sig_from_posix(n))
    /\ UNCHANGED <<libc, sigCall, sigSeen>>

\* SA_RESETHAND: the handler becomes the default, the mask and the other flags stay.
KReset(a) == [a EXCEPT !.handler = "K_SIG_DFL", !.flags = @ \ {"SA_SIGINFO"}]
AskedReset(a) == [a EXCEPT !.handler = "SIG_DFL", !.flags = @ \ {"SA_SIGINFO"}]

\* A signal that is not blocked is delivered, at any step of the thread: it is
\* discarded, or ends the thread, or the kernel's handler of the signal of
\* cancellation finds no cancellation pending, or z_sig_shim calls the program's
\* handler.  All but the discarded are counted.  A handler is one step: what it masks
\* is unmasked when it returns.  An entry with the default handler, of a signal that
\* is ignored by default, calls K_SIG_IGN, which is no function: the thread faults.
Deliver(k) ==
    LET a == Action(k)
        handler == IF a.handler = "K_SIG_DFL" THEN z_sig_resolve(k) ELSE a.handler
        resets == "SA_RESETHAND" \in a.flags
    IN
    /\ k \in ks.pending \ ks.mask
    /\ sigCall.pc # "dead"
    /\ \/ /\ a.handler = "K_SIG_IGN"
          /\ ks' = [ks EXCEPT !.pending = @ \ {k}]
          /\ UNCHANGED <<sigCall, sigSeen>>
       \/ /\ a.handler = "K_SIG_DFL" /\ handler # "z_sig_handler_cancel"
          /\ ks' = [ks EXCEPT !.pending = @ \ {k}]
          /\ sigCall' = [sigCall EXCEPT !.pc = "dead"]
          /\ UNCHANGED sigSeen
       \/ /\ handler = "z_sig_handler_cancel" /\ ks.delivered < MaxHandled
          /\ ks' = [ks EXCEPT !.pending = @ \ {k}, !.delivered = @ + 1]
          /\ sigCall' = [sigCall EXCEPT !.cancel = TRUE]
          /\ UNCHANGED sigSeen
       \/ /\ handler = "z_sig_shim" /\ ks.delivered < MaxHandled
          /\ ks' = [ks EXCEPT !.pending = @ \ {k}, !.delivered = @ + 1,
                      !.act[k] = IF resets THEN KReset(@) ELSE @]
          /\ sigCall' = [sigCall EXCEPT !.ran = TRUE]
          /\ sigSeen' = [sigSeen EXCEPT !.asked = [n \in Sigs |->
               IF resets /\ z_sig_from_posix(n) = k THEN AskedReset(@[n]) ELSE @[n]]]
    /\ UNCHANGED libc

-----------------------------------------------------------------------------
(* Waiting *)

\* Polled until a signal of the set is pending.
SigWait(s) == \E k \in z_sig_set_from_posix(s) \cap ks.pending :
    /\ Running
    /\ ks' = [ks EXCEPT !.pending = @ \ {k}]
    /\ sigSeen' = [sigSeen EXCEPT !.stray = @ \/ ksigno_to_posix(k) \notin s]
    /\ UNCHANGED <<libc, sigCall>>

sigwait(s) == SigWait(s)
sigwaitinfo(s) == SigWait(s)
\* ... which may give up, and nothing changes
sigtimedwait(s) == SigWait(s) \/ (Running /\ UNCHANGED signalVars)

sigpending == z_sig_set_to_posix(ks.pending)

pause ==
    /\ Running
    /\ sigCall' = [pc |-> "pause", start |-> ks.delivered, saved |-> ks.mask, ran |-> FALSE,
                   cancel |-> FALSE]
    /\ UNCHANGED <<libc, ks, sigSeen>>

\* sigsuspend samples the count of signals handled, ...
SuspendSample(s) ==
    /\ Running
    /\ sigCall' = [pc |-> "sampled", start |-> ks.delivered,
                   saved |-> z_sig_set_from_posix(s), ran |-> FALSE, cancel |-> FALSE]
    /\ UNCHANGED <<libc, ks, sigSeen>>

\* (mutant) the count is sampled after the mask is set
SuspendMaskLate ==
    /\ sigCall.pc = "sampled"
    /\ ks' = [ks EXCEPT !.mask = Masked("set", @, sigCall.saved)]
    /\ sigCall' = [sigCall EXCEPT !.pc = "suspend", !.saved = ks.mask, !.start = ks.delivered]
    /\ UNCHANGED <<libc, sigSeen>>

\* ... sets the mask, ...
SuspendMask ==
    /\ sigCall.pc = "sampled"
    /\ ks' = [ks EXCEPT !.mask = Masked("set", @, sigCall.saved)]
    /\ sigCall' = [sigCall EXCEPT !.pc = "suspend", !.saved = ks.mask]
    /\ UNCHANGED <<libc, sigSeen>>

\* ... and sleeps for as long as the count is what it was (posix_sig_wait_delivered);
\* then it restores the mask.
WaitDelivered ==
    /\ sigCall.pc \in {"pause", "suspend"}
    /\ ks.delivered # sigCall.start
    /\ ks' = [ks EXCEPT !.mask = IF sigCall.pc = "suspend" THEN sigCall.saved ELSE @]
    /\ sigCall' = [sigCall EXCEPT !.pc = "idle", !.start = 0, !.saved = {}, !.ran = FALSE,
                            !.cancel = FALSE]
    /\ UNCHANGED <<libc, sigSeen>>

-----------------------------------------------------------------------------
Sets == {{}, Sigs}
ProgramActions ==
    {Default, [Default EXCEPT !.handler = "SIG_IGN"],
     [Default EXCEPT !.handler = "handler", !.mask = Sigs],
     [Default EXCEPT !.handler = "handler", !.flags = {"SA_RESETHAND", "SA_SIGINFO"}]}

Next ==
    \/ \E n \in Sigs, a \in ProgramActions : sigaction(n, a) \/ SigactionFails(n, a)
    \/ \E how \in {"block", "unblock", "set"}, s \in Sets : pthread_sigmask(how, s) \/ sigprocmask(how, s)
    \/ \E n \in Sigs : kill(n) \/ pthread_kill(n) \/ sigqueue(n)
    \/ \E k \in ks.pending : Deliver(k)
    \/ \E s \in Sets : sigwait(s) \/ sigwaitinfo(s) \/ sigtimedwait(s) \/ SuspendSample(s)
    \/ pause \/ SuspendMask \/ WaitDelivered

Spec == Init /\ [][Next]_signalVars

-----------------------------------------------------------------------------
(* Properties *)

\* A handler that runs after pause or sigsuspend was entered, even before the new
\* mask is set, ends the call (sigsuspend, l.331, "sample early"); nothing else
\* does, except the signal of cancellation, which pthread_kill sends like any other
\* and the kernel counts although no handler of the program runs.
SuspendMissesNothing ==
    sigCall.pc \in {"pause", "sampled", "suspend"} =>
        (sigCall.ran \/ sigCall.cancel <=> ks.delivered # sigCall.start)

\* The signals that exist in both namespaces.
IsShared(n) == signo_valid(n) /\ z_sig_from_posix(n) > 0
Shared == {n \in Numbers : IsShared(n)}

\* A set of POSIX signals that becomes the kernel's (l.212 of z_sig_set.c) and
\* comes back is the same set; it holds the counterparts of its members and no
\* others, so that no signal turns into an unrelated one; and a full set holds
\* every signal there is.
SignalSetsTranslate(s) ==
    LET k == z_sig_set_from_posix(s) IN
    /\ z_sig_set_to_posix(k) \cap Shared = s \cap Shared
    /\ \A n \in Shared : z_sig_from_posix(n) \in k <=> n \in s
    /\ \A n \in s : sigismember(sigdelset(s, n), n) = (IF signo_valid(n) THEN 0 ELSE -1)
    /\ \A n \in s : sigismember(sigfillset, n) = (IF signo_valid(n) THEN 1 ELSE -1)

\* ... and that the kernel lets an action mask.
Maskable == {n \in Shared : z_sig_from_posix(n) \notin UNMASKABLE_MASK}

\* Signals keep their meaning across the two numberings: a query returns the
\* action that the last successful sigaction asked for (posix_sig_disposition_get,
\* l.185), where the default may read SIG_IGN if that is what it means, or what
\* SA_RESETHAND left of it; sigpending has the signals that are pending; and a wait
\* answers with a signal of the set it was given.
SignalsKeepTheirMeaning ==
    /\ \A n \in Sigs : IsShared(n) =>
          LET k == z_sig_from_posix(n)
              a == posix_sig_disposition_get(Action(k))
              asked == sigSeen.asked[n]
          IN  /\ a.handler # asked.handler =>
                    /\ asked.handler = "SIG_DFL" /\ a.handler = "SIG_IGN"
                    /\ z_sig_resolve(k) = "K_SIG_IGN"
              /\ a.flags = asked.flags
              /\ a.mask # asked.mask => a.mask \cap Maskable = asked.mask \cap Maskable
    /\ \A n \in Sigs : IsShared(n) => (n \in sigpending <=> z_sig_from_posix(n) \in ks.pending)
    /\ ~sigSeen.stray
=============================================================================
