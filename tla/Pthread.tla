------------------------------- MODULE Pthread ------------------------------
(***************************************************************************)
(* lib/posix/options: threads_base/pthread.c and pthread_attr_*.c,         *)
(* threads_ext, thread_priority_scheduling, non_portable, and the          *)
(* priorities of shared/pthread_priority.c: a thread attribute object, and *)
(* the life of the threads created from it.  Threads end by themselves or  *)
(* by cancellation, as zephyr/patches/zephyr/k-thread-cancel.patch has it; *)
(* the kernel keeps the result until they are joined.                      *)
(***************************************************************************)
EXTENDS Integers, FiniteSets

CONSTANTS
    Slots,      \* the kernel's pool of threads, whose handles are used again
    NumCoop,    \* CONFIG_NUM_COOP_PRIORITIES
    NumPreempt, \* CONFIG_NUM_PREEMPT_PRIORITIES
    StackMin,   \* PTHREAD_STACK_MIN
    StackSize,  \* CONFIG_SYS_THREAD_STACK_SIZE
    NumCpus     \* CONFIG_MP_MAX_NUM_CPUS

VARIABLES
    attr,       \* the pthread_attr_t
    pth,        \* the threads
    level,      \* pthread_concurrency
    order       \* "policy first": the program sets a policy before a priority,
                \* and one that has priorities

pthreadVars == <<attr, pth, level, order>>

Policies == {"SCHED_FIFO", "SCHED_RR", "SCHED_OTHER"}

-----------------------------------------------------------------------------
(* Priorities: Zephyr's are negative for cooperative threads, and smaller is *)
(* more urgent.                                                              *)

posix_sched_priority_min(policy) == IF policy \in Policies THEN 0 ELSE -1

posix_sched_priority_max(policy) ==
    CASE policy = "SCHED_FIFO" /\ NumCoop > 0 -> NumCoop - 1
      [] policy \in {"SCHED_RR", "SCHED_OTHER"} /\ NumPreempt > 0 -> NumPreempt - 1
      [] OTHER -> -1

is_posix_policy_prio_valid(prio, policy) ==
    prio \in posix_sched_priority_min(policy)..posix_sched_priority_max(policy)

Clamp(z) == IF z < -NumCoop THEN -NumCoop ELSE IF z > NumPreempt - 1 THEN NumPreempt - 1 ELSE z

zephyr_to_posix_priority(z) ==
    LET c == Clamp(z) IN
    IF c < 0 THEN [prio |-> -(c + 1), policy |-> "SCHED_FIFO"]
             ELSE [prio |-> NumPreempt - c - 1, policy |-> "SCHED_RR"]

\* (mutant) the most urgent priority is counted from the other end
posix_to_zephyr_priority_shifted(prio, policy) ==
    IF policy = "SCHED_FIFO" THEN -(prio + 1) ELSE NumPreempt - prio

posix_to_zephyr_priority(prio, policy) ==
    IF policy = "SCHED_FIFO" THEN -(prio + 1) ELSE NumPreempt - prio - 1

\* of K_LOWEST_APPLICATION_THREAD_PRIO
posix_thread_attr_default_priority ==
    IF NumPreempt > 0 THEN posix_to_zephyr_priority(NumPreempt - 1, "SCHED_RR")
                      ELSE posix_to_zephyr_priority(-1, "SCHED_FIFO")

-----------------------------------------------------------------------------
(* The attribute object: what it becomes.  EINVAL leaves it alone. *)

posix_thread_attr_init ==
    [initialized |-> TRUE, stack |-> FALSE, stacksize |-> 0, guardsize |-> 0,
     priority |-> posix_thread_attr_default_priority,
     policy |-> IF NumPreempt > 0 THEN "SCHED_RR" ELSE "SCHED_FIFO",
     detached |-> FALSE, inherit |-> TRUE]

posix_thread_attr_is_valid(a) ==
    a.initialized /\ (a.stack => a.stacksize >= StackMin) /\ a.policy \in Policies

If(a, ok, b) == IF posix_thread_attr_is_valid(a) /\ ok THEN b ELSE a

pthread_attr_setschedparam(a, p) ==
    If(a, is_posix_policy_prio_valid(p, a.policy), [a EXCEPT !.priority = p])
pthread_attr_setschedpolicy(a, p) == If(a, p \in Policies, [a EXCEPT !.policy = p])
pthread_attr_setinheritsched(a, b) == If(a, TRUE, [a EXCEPT !.inherit = b])
pthread_attr_setdetachstate(a, b) == If(a, TRUE, [a EXCEPT !.detached = b])
pthread_attr_setstack(a, n) ==
    If(a, n >= StackMin, [a EXCEPT !.stack = TRUE, !.stacksize = n])
pthread_attr_setstacksize(a, n) ==
    If(a, n >= StackMin /\ ~a.stack, [a EXCEPT !.stacksize = n])
pthread_attr_setguardsize(a, n) == If(a, TRUE, [a EXCEPT !.guardsize = n])
\* PTHREAD_SCOPE_PROCESS is ENOTSUP, and the other scope is the default.
pthread_attr_setscope(a) == a
pthread_attr_destroy(a) == If(a, TRUE, [a EXCEPT !.initialized = FALSE, !.stack = FALSE,
    !.stacksize = 0, !.guardsize = 0, !.priority = 0, !.detached = FALSE, !.inherit = FALSE])

pthread_attr_getstack(a) == [stack |-> a.stack, size |-> IF a.stack THEN a.stacksize ELSE 0]
pthread_attr_getstacksize(a) ==
    IF ~a.stack /\ a.stacksize = 0 THEN (IF StackSize > StackMin THEN StackSize ELSE StackMin)
    ELSE a.stacksize

-----------------------------------------------------------------------------
(* Threads *)

\* cancellation: a request is pending; it is enabled, that is, the signal of
\* cancellation is not masked; its type; the signal is in the queue; ghosts: the
\* signal was not queued when it was due, and a request came after the thread's end.
NoThread == [state |-> "free", detached |-> FALSE, zprio |-> 0, pending |-> FALSE,
             enabled |-> FALSE, async |-> FALSE, queued |-> FALSE, lost |-> FALSE, late |-> FALSE,
             result |-> "none", ended |-> "none", asked |-> "none", prio |-> 0]

Init ==
    /\ attr = [posix_thread_attr_init EXCEPT !.initialized = FALSE]
    /\ pth = [t \in Slots |-> NoThread]
    /\ level = 0
    /\ order \in {"policy first", "free"}

\* The policies the program may set: in good order, while the priority is the
\* default one, and those that have priorities in this configuration (l.76 of
\* posix_internal.h accepts the others too).
Choices == {p \in Policies : order = "policy first" =>
              attr.priority = 0 /\ is_posix_policy_prio_valid(0, p)}

\* Bound: only pthread_create reads the object, and so it changes, here, only
\* while no thread is alive; nothing reads the level, which is set aside meanwhile.
Attributes ==
    /\ level = 0
    /\ \A t \in Slots : pth[t].state = "free"
    /\ attr' \in {posix_thread_attr_init, pthread_attr_setscope(attr), pthread_attr_destroy(attr)}
         \cup {pthread_attr_setschedparam(attr, p) : p \in 0..NumPreempt}
         \cup {pthread_attr_setschedpolicy(attr, p) : p \in Choices}
         \cup {pthread_attr_setinheritsched(attr, b) : b \in BOOLEAN}
         \cup {pthread_attr_setdetachstate(attr, b) : b \in BOOLEAN}
         \cup {pthread_attr_setstack(attr, n) : n \in {StackMin - 1, StackMin}}
         \cup {pthread_attr_setstacksize(attr, n) : n \in {StackMin - 1, StackMin}}
         \cup {pthread_attr_setguardsize(attr, 1)}
    /\ UNCHANGED <<pth, level, order>>

\* A thread that runs, and the priority that was asked for it.  A thread of the
\* kernel masks all signals when it starts, one of user mode none.
Started(user, detached, zprio, asked, prio) == [NoThread EXCEPT !.state = "run",
    !.enabled = user, !.detached = detached, !.zprio = zprio, !.asked = asked, !.prio = prio]

\* pthread_create with an attribute object (EINVAL if it is not valid) or with
\* the default one: the priority is the creator's, 0, or the attribute's.
pthread_create(a) == \E t \in Slots, user \in BOOLEAN :
    /\ posix_thread_attr_is_valid(a)
    /\ pth[t].state = "free"
    /\ pth' = [pth EXCEPT ![t] =
         IF a.inherit THEN Started(user, a.detached, 0, "none", 0)
         ELSE Started(user, a.detached, posix_to_zephyr_priority(a.priority, a.policy),
                      a.policy, a.priority)]
    /\ UNCHANGED <<attr, level, order>>

Runs(t) == pth[t].state = "run"

\* A request acts on the thread: it is pending no longer, and the thread runs its
\* clean-up routines.  The result was set when the request was made.
Cancelled(thread) == [thread EXCEPT !.state = "ending", !.pending = FALSE, !.queued = FALSE,
                                    !.ended = "PTHREAD_CANCELED"]

\* A deferred request acts where the thread enters a system call that is a point of
\* cancellation (z_syscall_cancel_check).
Cancellable(thread) == thread.pending /\ thread.enabled /\ ~thread.async

\* The start routine returns, or pthread_exit: k_thread_exit cancels the thread
\* with cancellation disabled, replaces the result, and enables it again.
Exited(thread) ==
    IF Cancellable(thread) THEN Cancelled(thread)
    ELSE [Cancelled(thread) EXCEPT !.enabled = TRUE, !.result = "value", !.ended = "value"]

pthread_exit(t) ==
    /\ Runs(t)
    /\ pth' = [pth EXCEPT ![t] = Exited(@)]
    /\ UNCHANGED <<attr, level, order>>

\* The clean-up is over: detached threads are recycled.
ThreadAborts(t) ==
    /\ pth[t].state = "ending"
    /\ pth' = [pth EXCEPT ![t] = IF @.detached THEN NoThread ELSE [@ EXCEPT !.state = "done"]]
    /\ UNCHANGED <<attr, level, order>>

\* k_sig_queue of the signal of cancellation, when there is room or not.
Signalled(thread, room) ==
    [thread EXCEPT !.queued = @ \/ room, !.lost = ~(thread.queued \/ room)]

\* pthread_cancel: ESRCH unless the thread is alive; the first request sets the
\* result, also of a thread that is ending already.  EAGAIN if the signal cannot be
\* queued; no later call will try again.
Requested(thread) ==
    [thread EXCEPT !.pending = TRUE, !.result = "PTHREAD_CANCELED",
                   !.late = @ \/ thread.state = "ending"]

pthread_cancel(t, room) ==
    /\ pth[t].state \in {"run", "ending"}
    /\ pth' = [pth EXCEPT ![t] =
         IF @.pending THEN @
         ELSE IF @.async /\ @.enabled THEN Signalled(Requested(@), room)
         ELSE Requested(@)]
    /\ UNCHANGED <<attr, level, order>>

\* The queued signal reaches the thread, when it returns from a system call.
CancelSignal(t) ==
    /\ Runs(t) /\ pth[t].queued /\ pth[t].enabled
    /\ pth' = [pth EXCEPT ![t] = Cancelled(@)]
    /\ UNCHANGED <<attr, level, order>>

\* (mutant) a pending request is not looked at
pthread_setcancelstate_only(t, enabled, room) ==
    /\ Runs(t)
    /\ pth' = [pth EXCEPT ![t].enabled = enabled]
    /\ UNCHANGED <<attr, level, order>>

\* A point of cancellation itself.  Enabling acts on a pending request at once, or
\* queues the signal.
pthread_setcancelstate(t, enabled, room) ==
    /\ Runs(t)
    /\ pth' = [pth EXCEPT ![t] =
         IF Cancellable(@) \/ (enabled /\ @.pending /\ ~@.async) THEN Cancelled(@)
         ELSE IF enabled /\ @.pending THEN Signalled([@ EXCEPT !.enabled = TRUE], room)
         ELSE [@ EXCEPT !.enabled = enabled]]
    /\ UNCHANGED <<attr, level, order>>

\* So is this: a deferred request acts first.
pthread_setcanceltype(t, async, room) ==
    /\ Runs(t)
    /\ pth' = [pth EXCEPT ![t] =
         IF Cancellable(@) THEN Cancelled(@)
         ELSE IF async /\ @.pending /\ @.enabled THEN Signalled([@ EXCEPT !.async = TRUE], room)
         ELSE [@ EXCEPT !.async = async]]
    /\ UNCHANGED <<attr, level, order>>

\* pthread_testcancel, and every other point of cancellation.
pthread_testcancel(t) ==
    /\ Runs(t) /\ Cancellable(pth[t])
    /\ pth' = [pth EXCEPT ![t] = Cancelled(@)]
    /\ UNCHANGED <<attr, level, order>>

\* pthread_sigmask is no point of cancellation: a mask without the signal, such as
\* SIG_SETMASK with any set that the program can build, enables cancellation, and
\* nothing looks for a request; one that it returned earlier may disable it.
Unmasked(thread, enabled) ==
    [thread EXCEPT !.enabled = enabled,
                   !.lost = @ \/ (enabled /\ thread.pending /\ ~thread.queued)]

CancelMasked(t, enabled) ==
    /\ Runs(t)
    /\ pth' = [pth EXCEPT ![t] = Unmasked(@, enabled)]
    /\ UNCHANGED <<attr, level, order>>

\* pthread_join, pthread_tryjoin_np and pthread_timedjoin_np collect the result;
\* EINVAL for a detached thread, EBUSY or ETIMEDOUT for one that runs.
pthread_join(t) ==
    /\ pth[t].state = "done"
    /\ pth' = [pth EXCEPT ![t] = NoThread]
    /\ UNCHANGED <<attr, level, order>>

\* EINVAL for a detached thread; one that is done is recycled.
pthread_detach(t) ==
    /\ pth[t].state # "free" /\ ~pth[t].detached
    /\ pth' = [pth EXCEPT ![t] = IF @.state = "done" THEN NoThread ELSE [@ EXCEPT !.detached = TRUE]]
    /\ UNCHANGED <<attr, level, order>>

Scheduled(thread, prio, policy) ==
    [thread EXCEPT !.zprio = posix_to_zephyr_priority(prio, policy),
                   !.asked = policy, !.prio = prio]

\* EINVAL unless the priority is valid for the policy
pthread_setschedparam(t, prio, policy) ==
    /\ Runs(t)
    /\ policy \in Policies /\ is_posix_policy_prio_valid(prio, policy)
    /\ pth' = [pth EXCEPT ![t] = Scheduled(@, prio, policy)]
    /\ UNCHANGED <<attr, level, order>>

pthread_getschedparam(t) == zephyr_to_posix_priority(pth[t].zprio)

pthread_setschedprio(t, prio) == pthread_setschedparam(t, prio, pthread_getschedparam(t).policy)

\* EINVAL below 0, EAGAIN above the number of processors
pthread_setconcurrency(n) ==
    /\ n \in 0..NumCpus
    /\ attr = posix_thread_attr_init   \* bound: nothing else reads the level
    /\ level' = n
    /\ UNCHANGED <<attr, pth, order>>

Next ==
    \/ Attributes
    \/ pthread_create(attr) \/ pthread_create(posix_thread_attr_init)
    \/ \E n \in -1..(NumCpus + 1) : pthread_setconcurrency(n)
    \/ \E t \in Slots :
         \/ pthread_exit(t) \/ ThreadAborts(t) \/ CancelSignal(t) \/ pthread_testcancel(t)
         \/ pthread_join(t) \/ pthread_detach(t)
         \/ \E b \in BOOLEAN : pthread_cancel(t, b) \/ CancelMasked(t, b)
         \/ \E b, room \in BOOLEAN :
              pthread_setcancelstate(t, b, room) \/ pthread_setcanceltype(t, b, room)
         \/ \E p \in 0..NumPreempt, policy \in Policies : pthread_setschedparam(t, p, policy)
         \/ \E p \in 0..NumPreempt : pthread_setschedprio(t, p)

Spec == Init /\ [][Next]_pthreadVars

-----------------------------------------------------------------------------
(* Properties *)

\* An attribute object is one that pthread_create accepts, with a stack that
\* suffices, until it is destroyed; and pthread_getschedparam answers with the
\* priority and the policy that the object, pthread_setschedparam or
\* pthread_setschedprio asked for (SCHED_OTHER is SCHED_RR), if the program sets
\* the object's policy, one that has priorities, before its priority:
\* pthread_attr_setschedpolicy does not look at the priority, and
\* posix_to_zephyr_priority (l.48) converts whatever it is given.
PrioritiesReadBack ==
    /\ attr.initialized =>
          /\ posix_thread_attr_is_valid(attr)
          /\ pthread_attr_getstacksize(attr) >= StackMin
          /\ pthread_attr_getstack(attr).size \in {0, pthread_attr_getstacksize(attr)}
    /\ \A t \in Slots : order = "policy first" /\ Runs(t) /\ pth[t].asked # "none" =>
          LET got == pthread_getschedparam(t) IN
          /\ got.prio = pth[t].prio
          /\ got.policy = (IF pth[t].asked = "SCHED_OTHER" THEN "SCHED_RR" ELSE pth[t].asked)
          /\ is_posix_policy_prio_valid(got.prio, got.policy)

\* A cancellation that is requested, enabled and asynchronous, in whatever order the
\* three came about, has its signal in the thread's queue, unless the queue was full
\* or pthread_sigmask enabled it (k_thread_cancel and k_thread_cancel_qstate, l.438
\* and l.471 of k-thread-cancel.patch); and a thread that waits to be joined is one
\* that can be, and gives the join what it ended with, although pthread_cancel sets
\* the result when it is called, unless it was called while the thread was ending.
ThreadsEndAsAsked == \A t \in Slots :
    /\ Runs(t) /\ pth[t].pending /\ pth[t].enabled /\ pth[t].async => pth[t].queued \/ pth[t].lost
    /\ pth[t].state = "done" =>
          ~pth[t].detached /\ (pth[t].result # pth[t].ended => pth[t].late)
=============================================================================
