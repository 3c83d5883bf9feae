-------------------------------- MODULE Timer -------------------------------
(***************************************************************************)
(* lib/posix/options/timers/timer.c: per-process timers.  A timer object   *)
(* is shared, without a lock, by the callers, the kernel timer's expiry    *)
(* (interrupt context) and, for SIGEV_THREAD, a notification thread of its *)
(* own.  Times are abstract: an armed timer may expire at any moment.      *)
(* The program makes one call at a time.                                   *)
(***************************************************************************)
EXTENDS Integers, FiniteSets

CONSTANTS
    TimerObjs,  \* posix_timer_slab
    Workers,    \* the pool of threads, whose handles are used again
    NULL,
    MaxOverrun  \* bound: the expirations counted for timer_getoverrun

VARIABLES
    timer,      \* the timer objects
    worker,     \* the notification threads: step, timer, cancellation pending
    tcall,      \* where the caller is: the call and the timer
    due,        \* ghost: notifications each timer owes
    bystander,  \* ghost: a thread of another timer has been cancelled
    manner      \* "calm": a call overlaps no expiry or notification, and a timer is
                \* created when the threads of deleted ones are gone; "racing"

timerVars == <<timer, worker, tcall, due, bystander, manner>>

Kinds == {"none", "signal", "thread"}   \* SIGEV_*

Unallocated == [kind |-> "free", active |-> FALSE, reload |-> FALSE,
                armed |-> "off", expiries |-> 0, sem |-> 0, thread |-> NULL]
NoWorker == [pc |-> "free", tm |-> NULL, cancelled |-> FALSE]
NoCall == [pc |-> "idle", tm |-> NULL, how |-> "off"]

Init ==
    /\ timer = [o \in TimerObjs |-> Unallocated]
    /\ worker = [w \in Workers |-> NoWorker]
    /\ tcall = NoCall
    /\ due = [o \in TimerObjs |-> 0]
    /\ bystander = FALSE
    /\ manner \in {"calm", "racing"}

Parked(o) == timer[o].kind = "thread" =>
    timer[o].sem = 0 /\ timer[o].thread # NULL /\ worker[timer[o].thread].pc = "wait"

\* The thread w is the one of the timer that it was started for.
Owns(w) == timer[worker[w].tm].kind = "thread" /\ timer[worker[w].tm].thread = w

\* The program may begin a call on the timer o.
Begins(o) ==
    /\ tcall.pc = "idle"
    /\ timer[o].kind # "free"
    /\ manner = "calm" => Parked(o)

-----------------------------------------------------------------------------
(* The program's calls *)

\* timer_create: EINVAL for another clock or kind; ENOMEM without a slab; the
\* slab is given back when no thread can be created.
Create(kind) == \E o \in TimerObjs :
    /\ tcall.pc = "idle"
    /\ timer[o].kind = "free"
    /\ manner = "calm" => \A w \in Workers : worker[w].pc # "free" => Owns(w)
    \* bound: a racing program has one timer at a time
    /\ manner = "racing" => \A p \in TimerObjs : timer[p].kind = "free"
    /\ IF kind = "thread"
         THEN \E w \in Workers :
                /\ worker[w].pc = "free"
                /\ worker' = [worker EXCEPT ![w] = [NoWorker EXCEPT !.pc = "start", !.tm = o]]
                /\ timer' = [timer EXCEPT ![o] = [Unallocated EXCEPT !.kind = kind, !.thread = w]]
         ELSE /\ timer' = [timer EXCEPT ![o] = [Unallocated EXCEPT !.kind = kind]]
              /\ UNCHANGED worker
    /\ due' = [due EXCEPT ![o] = 0]
    /\ UNCHANGED <<tcall, bystander, manner>>

\* The kernel timer is stopped if the status word says that it runs.
Stopped(r) == [r EXCEPT !.active = FALSE, !.armed = IF r.active THEN "off" ELSE r.armed]

\* timer_settime of zero stops the timer; reload and interval stay.
Disarm(o) ==
    /\ Begins(o)
    /\ timer' = [timer EXCEPT ![o] = Stopped(@)]
    /\ UNCHANGED <<worker, tcall, due, bystander, manner>>

\* timer_settime stores the period first ...
SetReload(o, how) ==
    /\ Begins(o)
    /\ timer' = [timer EXCEPT ![o].reload = (how = "periodic")]
    /\ tcall' = [pc |-> "arm", tm |-> o, how |-> how]
    /\ UNCHANGED <<worker, due, bystander, manner>>

Started(r, how) == [r EXCEPT !.active = TRUE, !.armed = how, !.expiries = 0]

\* ... and starts the kernel timer, also one that was running.
Arm ==
    /\ tcall.pc = "arm"
    /\ timer' = [timer EXCEPT ![tcall.tm] = Started(@, tcall.how)]
    /\ tcall' = NoCall
    /\ UNCHANGED <<worker, due, bystander, manner>>

\* timer_getoverrun collects what k_timer_status_get counts.
GetOverrun(o) ==
    /\ Begins(o)
    /\ timer' = [timer EXCEPT ![o].expiries = 0]
    /\ UNCHANGED <<worker, tcall, due, bystander, manner>>

\* timer_gettime: is the timer armed, as far as timer->status knows?
SaysArmed(o) == timer[o].active

\* A thread in k_sem_take gets what is given without looking at the semaphore again;
\* otherwise the count, whose limit is 1, is set.
Waiting(o) == {w \in Workers : worker[w].pc = "wait" /\ worker[w].tm = o}

k_sem_give(o, r) ==
    \/ /\ Waiting(o) = {}
       /\ timer' = [timer EXCEPT ![o] = [r EXCEPT !.sem = 1]]
       /\ UNCHANGED worker
    \/ \E w \in Waiting(o) :
         /\ timer' = [timer EXCEPT ![o] = r]
         /\ worker' = [worker EXCEPT ![w].pc = "woken"]

\* timer_delete: stop; wake the thread; cancel it; give the object back.
DeleteStop(o) ==
    /\ Begins(o)
    /\ timer' = [timer EXCEPT ![o] = Stopped(@)]
    /\ tcall' = [NoCall EXCEPT !.pc = IF timer[o].kind = "thread" THEN "wake" ELSE "release",
                               !.tm = o]
    /\ UNCHANGED <<worker, due, bystander, manner>>

\* (mutant) the thread is not woken before the object goes
DeleteWakeNobody ==
    /\ tcall.pc = "wake"
    /\ tcall' = [tcall EXCEPT !.pc = "cancel"]
    /\ UNCHANGED <<timer, worker, due, bystander, manner>>

DeleteWake ==
    /\ tcall.pc = "wake"
    /\ k_sem_give(tcall.tm, timer[tcall.tm])
    /\ tcall' = [tcall EXCEPT !.pc = "cancel"]
    /\ UNCHANGED <<due, bystander, manner>>

\* pthread_cancel of the handle in the timer, whoever has it by now.  The signal of
\* cancellation is queued, if there is room; a thread that has not enabled it yet
\* finds the request when it does.
DeleteCancel(room) ==
    /\ tcall.pc = "cancel"
    /\ LET w == timer[tcall.tm].thread IN
        /\ worker' = IF worker[w].pc = "free" THEN worker
                     ELSE [worker EXCEPT ![w].cancelled = @ \/ room \/ worker[w].pc = "start"]
        /\ bystander' = (bystander \/ worker[w].tm \notin {NULL, tcall.tm})
    /\ tcall' = [tcall EXCEPT !.pc = "release"]
    /\ UNCHANGED <<timer, due, manner>>

\* The memory of the object stays as it is, where a thread may still look at it.
DeleteRelease ==
    /\ tcall.pc = "release"
    /\ timer' = [timer EXCEPT ![tcall.tm] =
         [Unallocated EXCEPT !.armed = timer[tcall.tm].armed, !.sem = timer[tcall.tm].sem]]
    /\ tcall' = NoCall
    /\ UNCHANGED <<worker, due, bystander, manner>>

-----------------------------------------------------------------------------
(* The kernel timer expires *)

CanExpire(o) ==
    /\ timer[o].armed # "off"
    /\ manner = "calm" => tcall.tm # o

Expired(r) == [r EXCEPT !.expiries = IF @ < MaxOverrun THEN @ + 1 ELSE @,
                        !.armed = IF @ = "periodic" THEN @ ELSE "off"]

\* A timer without a period is not active once it has expired.
Settled(r) == [r EXCEPT !.active = r.active /\ r.reload]

\* no expiry function
ExpireNone(o) ==
    /\ CanExpire(o) /\ timer[o].kind = "none"
    /\ timer' = [timer EXCEPT ![o] = Expired(@)]
    /\ UNCHANGED <<worker, tcall, due, bystander, manner>>

\* zephyr_timer_wrapper runs the notification function itself.
ExpireSignal(o) ==
    /\ CanExpire(o) /\ timer[o].kind = "signal"
    /\ timer' = [timer EXCEPT ![o] = Settled(Expired(@))]
    /\ UNCHANGED <<worker, tcall, due, bystander, manner>>

\* zephyr_timer_interrupt gives the thread's semaphore.
ExpireThread(o) ==
    /\ CanExpire(o) /\ timer[o].kind = "thread"
    /\ k_sem_give(o, Expired(timer[o]))
    /\ due' = [due EXCEPT ![o] = 1]
    /\ UNCHANGED <<tcall, bystander, manner>>

-----------------------------------------------------------------------------
(* zephyr_thread_wrapper *)

Step(w, from, to) ==
    /\ worker[w].pc = from
    /\ worker' = [worker EXCEPT ![w] = IF to = "free" THEN NoWorker ELSE [@ EXCEPT !.pc = to]]

\* pthread_setcancelstate and _setcanceltype act on a pending cancellation.
ThreadStart(w) ==
    /\ Step(w, "start", IF worker[w].cancelled THEN "free" ELSE "top")
    /\ UNCHANGED <<timer, tcall, due, bystander, manner>>

\* (mutant) the thread marks every timer as not active
ThreadTopAlways(w) ==
    /\ Step(w, "top", "take")
    /\ timer' = [timer EXCEPT ![worker[w].tm].active = FALSE]
    /\ UNCHANGED <<tcall, due, bystander, manner>>

ThreadTop(w) ==
    /\ Step(w, "top", "take")
    /\ timer' = [timer EXCEPT ![worker[w].tm] = Settled(@)]
    /\ UNCHANGED <<tcall, due, bystander, manner>>

ThreadTake(w) ==
    /\ Step(w, "take", IF timer[worker[w].tm].sem = 1 THEN "woken" ELSE "wait")
    /\ timer' = [timer EXCEPT ![worker[w].tm].sem = 0]
    /\ UNCHANGED <<tcall, due, bystander, manner>>

\* The thread ends when the timer is not active; it looks at the memory of the
\* object that it was started with, which timer_delete may have given back.
ThreadCheck(w) ==
    /\ worker[w].pc = "woken"
    /\ Step(w, "woken", IF timer[worker[w].tm].active THEN "call" ELSE "free")
    /\ UNCHANGED <<timer, tcall, due, bystander, manner>>

\* The signal of cancellation reaches the thread when it returns from a system call,
\* k_sem_take or one that the notification function makes.
ThreadCancelled(w) ==
    /\ worker[w].pc \in {"woken", "call"} /\ worker[w].cancelled
    /\ worker' = [worker EXCEPT ![w] = NoWorker]
    /\ UNCHANGED <<timer, tcall, due, bystander, manner>>

ThreadCall(w) ==
    /\ Step(w, "call", "top")
    /\ due' = [due EXCEPT ![worker[w].tm] = 0]
    /\ UNCHANGED <<timer, tcall, bystander, manner>>

-----------------------------------------------------------------------------
Program ==
    \/ \E kind \in Kinds : Create(kind)
    \/ \E o \in TimerObjs : Disarm(o) \/ GetOverrun(o) \/ DeleteStop(o)
    \/ \E o \in TimerObjs, how \in {"once", "periodic"} : SetReload(o, how)
    \/ Arm \/ DeleteWake \/ DeleteRelease
    \/ \E room \in BOOLEAN : DeleteCancel(room)

Expiry(o) == ExpireNone(o) \/ ExpireSignal(o) \/ ExpireThread(o)

Notifier(w) ==
    \/ ThreadStart(w) \/ ThreadTop(w) \/ ThreadTake(w) \/ ThreadCheck(w) \/ ThreadCall(w)
    \/ ThreadCancelled(w)

Next ==
    \/ Program
    \/ \E o \in TimerObjs : Expiry(o)
    \/ \E w \in Workers : Notifier(w)

Spec == Init /\ [][Next]_timerVars

-----------------------------------------------------------------------------
(* Properties *)

\* The status word is written by callers, by the expiry and by the thread
\* (l.46, 82, 265, 292): all the same a timer that is running says so, and a
\* SIGEV_THREAD timer that runs or that has expired has a thread that will
\* notify, if no call is made while the timer expires or its thread is busy.
CalmTimersNotify == manner = "calm" => \A o \in TimerObjs :
    /\ timer[o].armed # "off" /\ timer[o].kind # "none" => SaysArmed(o)
    /\ timer[o].kind = "thread" /\ (timer[o].armed # "off" \/ due[o] = 1) =>
          /\ timer[o].thread # NULL
          /\ LET w == worker[timer[o].thread] IN
              /\ w.tm = o
              /\ w.pc = "woken" => timer[o].active
              /\ due[o] = 1 => w.pc \in {"woken", "call"} \/ timer[o].sem = 1

\* timer_delete frees the object (l.343) while the thread that it woke and cancelled
\* is still on its way out, and cancels by a handle that may have been given to
\* another thread since (l.340).  Under the same condition, and if no timer is created
\* meanwhile, a notification thread has its timer, or has been woken and finds, in an
\* object that nobody else has got, that it must end; no thread of another timer is
\* cancelled, and no object is freed that the kernel still runs (l.332).
CalmThreadsKeepTheirTimer == manner = "calm" =>
    /\ ~bystander
    /\ \A o \in TimerObjs : timer[o].kind = "free" => timer[o].armed = "off"
    /\ \A w \in Workers : worker[w].pc # "free" /\ ~Owns(w) =>
          /\ worker[w].pc = "woken"
          /\ timer[worker[w].tm].kind = "free" /\ ~timer[worker[w].tm].active
=============================================================================
