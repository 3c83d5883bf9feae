------------------------------ MODULE StaticSync ----------------------------
(***************************************************************************)
(* lib/posix/options/threads_base/mutex.c and cond.c: one mutex and one    *)
(* condition variable, in memory of the program's own.  Each holds a       *)
(* handle to a kernel object, or the static initialiser, which the first   *)
(* call that finds it replaces by a new object: the test, the allocation   *)
(* and the store are three steps.  The kernel's own calls are atomic.      *)
(***************************************************************************)
EXTENDS Integers, Sequences, SequencesExt, FiniteSets

CONSTANTS
    Threads,
    MObjs, CObjs,   \* the pools of kernel mutexes and condition variables
    NULL,           \* PTHREAD_MUTEX_INITIALIZER, PTHREAD_COND_INITIALIZER, no owner
    MaxCount        \* bound: how often a recursive mutex is locked

ASSUME SyncAssumption == NULL \notin Threads \cup MObjs \cup CObjs

VARIABLES
    mu, cv,     \* what the pthread_mutex_t and the pthread_cond_t hold
    kmu,        \* the kernel mutexes: type ("free": in the pool), owner, waiters
    kcv,        \* the kernel condition variables in use, and their waiters
    call,       \* where each thread is: the call, its step, its locals
    holds,      \* how many locks each thread has been granted and not given up
    habit       \* "warm": the first call on an initialiser is made alone

vars == <<mu, cv, kmu, kcv, call, holds, habit>>

Types == {"normal", "recursive", "errorcheck"}
Timeouts == {"forever", "timed", "nowait"}

FreeMutex == [type |-> "free", owner |-> NULL, count |-> 0, waitq |-> <<>>]
NewMutex(type) == [FreeMutex EXCEPT !.type = type]
FreeCond == [used |-> FALSE, waitq |-> <<>>]
Idle == [pc |-> "idle", op |-> "none", how |-> "forever", obj |-> NULL]

Init ==
    /\ mu = NULL /\ cv = NULL
    /\ kmu = [o \in MObjs |-> FreeMutex]
    /\ kcv = [o \in CObjs |-> FreeCond]
    /\ call = [t \in Threads |-> Idle]
    /\ holds = [t \in Threads |-> 0]
    /\ habit \in {"warm", "free"}

Quiet == \A t \in Threads : call[t].pc = "idle"

\* t calls a function that looks at a handle.
Calls(t, handle) ==
    /\ call[t].pc = "idle"
    /\ habit = "warm" /\ handle = NULL => Quiet

At(t, l) == call[t].pc = l
Goto(t, l, o) == call' = [call EXCEPT ![t].pc = l, ![t].obj = o]
Return(t) == call' = [call EXCEPT ![t] = Idle]

-----------------------------------------------------------------------------
(* pthread_mutex_init, pthread_mutex_destroy *)

\* pthread_mutex_init by the program, of a mutex that is not in use: the type
\* comes from the attribute object, if there is one.
MutexInit(t, type) == \E o \in MObjs :
    /\ Calls(t, mu) /\ Quiet /\ mu = NULL
    /\ kmu[o].type = "free"
    /\ kmu' = [kmu EXCEPT ![o] = NewMutex(type)]
    /\ mu' = o
    /\ UNCHANGED <<cv, kcv, call, holds, habit>>

\* sys_mutex_destroy refuses a locked mutex; the program that destroys a mutex
\* nobody uses assigns the initialiser before it uses it again.
MutexDestroy(t) ==
    /\ Quiet /\ mu # NULL
    /\ kmu[mu].count = 0
    /\ kmu' = [kmu EXCEPT ![mu] = FreeMutex]
    /\ mu' = NULL
    /\ UNCHANGED <<cv, kcv, call, holds, habit>>

CondDestroy(t) ==
    /\ Quiet /\ cv # NULL
    /\ kcv' = [kcv EXCEPT ![cv] = FreeCond]
    /\ cv' = NULL
    /\ UNCHANGED <<mu, kmu, call, holds, habit>>

-----------------------------------------------------------------------------
(* pthread_mutex_lock, _timedlock, _trylock *)

LockTest(t, m) ==
    /\ Calls(t, mu)
    /\ call' = [call EXCEPT ![t] =
         [pc |-> IF mu = NULL THEN "m_alloc" ELSE "k_lock", op |-> "lock", how |-> m, obj |-> NULL]]
    /\ UNCHANGED <<mu, cv, kmu, kcv, holds, habit>>

\* sys_mutex_alloc, of the normal type: there is no attribute object.
LockAlloc(t) ==
    /\ At(t, "m_alloc")
    /\ \/ \E o \in MObjs :
            /\ kmu[o].type = "free"
            /\ kmu' = [kmu EXCEPT ![o] = NewMutex("normal")]
            /\ Goto(t, "m_store", o)
       \/ /\ \A o \in MObjs : kmu[o].type # "free"
          /\ Return(t)
          /\ UNCHANGED kmu
    /\ UNCHANGED <<mu, cv, kcv, holds, habit>>

LockStore(t) ==
    /\ At(t, "m_store")
    /\ mu' = call[t].obj
    /\ Goto(t, "k_lock", NULL)
    /\ UNCHANGED <<cv, kmu, kcv, holds, habit>>

\* Thread t may have the mutex k at once.
Grantable(t, k) ==
    k.count = 0 \/ (k.owner = t /\ k.type = "recursive" /\ k.count < MaxCount)

Taken(t, k) == [k EXCEPT !.owner = t, !.count = @ + 1]

\* (mutant) the mutex is granted while another thread has it
LockKernelAnyway(t) ==
    /\ At(t, "k_lock")
    /\ kmu' = [kmu EXCEPT ![mu].owner = t, ![mu].count = 1]
    /\ holds' = [holds EXCEPT ![t] = 1]
    /\ Return(t)
    /\ UNCHANGED <<mu, cv, kcv, habit>>

\* k_mutex_lock of the object that *m holds by now: granted; EDEADLK, or
\* ETIMEDOUT for -EBUSY; or the thread waits.
LockKernel(t) ==
    /\ At(t, "k_lock")
    /\ IF Grantable(t, kmu[mu])
         THEN /\ kmu' = [kmu EXCEPT ![mu] = Taken(t, @)]
              /\ holds' = [holds EXCEPT ![t] = @ + 1]
              /\ Return(t)
         ELSE IF call[t].how = "nowait" \/ (kmu[mu].owner = t /\ kmu[mu].type # "normal")
         THEN Return(t) /\ UNCHANGED <<kmu, holds>>
         ELSE /\ kmu' = [kmu EXCEPT ![mu].waitq = Append(@, t)]
              /\ Goto(t, "lock_wait", mu)
              /\ UNCHANGED holds
    /\ UNCHANGED <<mu, cv, kcv, habit>>

\* ETIMEDOUT for -EAGAIN
LockExpires(t) ==
    /\ At(t, "lock_wait") /\ call[t].how = "timed"
    /\ \E i \in DOMAIN kmu[call[t].obj].waitq :
         /\ kmu[call[t].obj].waitq[i] = t
         /\ kmu' = [kmu EXCEPT ![call[t].obj].waitq = RemoveAt(@, i)]
    /\ Return(t)
    /\ UNCHANGED <<mu, cv, kcv, holds, habit>>

\* k_mutex_unlock by the owner: what becomes of the mutex k, and who gets it.
Released(k) ==
    IF k.count > 1 THEN [k EXCEPT !.count = @ - 1]
    ELSE IF k.waitq = <<>> THEN [k EXCEPT !.owner = NULL, !.count = 0]
    ELSE [k EXCEPT !.owner = Head(k.waitq), !.waitq = Tail(k.waitq)]

Heir(k) == IF k.count = 1 /\ k.waitq # <<>> THEN {Head(k.waitq)} ELSE {}

\* pthread_mutex_unlock: EPERM unless the caller is the owner of the object that
\* *mu holds.
Unlock(t) ==
    /\ Calls(t, mu) /\ mu # NULL
    /\ kmu[mu].owner = t
    /\ kmu' = [kmu EXCEPT ![mu] = Released(@)]
    /\ holds' = [u \in Threads |-> holds[u] + (IF u \in Heir(kmu[mu]) THEN 1 ELSE 0)
                                            - (IF u = t THEN 1 ELSE 0)]
    /\ call' = [u \in Threads |-> IF u \in Heir(kmu[mu]) THEN Idle ELSE call[u]]
    /\ UNCHANGED <<mu, cv, kcv, habit>>

-----------------------------------------------------------------------------
(* pthread_cond_wait, _timedwait, _clockwait, _signal, _broadcast.  A waiter *)
(* has the mutex, locked once; its handle is no initialiser then.            *)

CondTest(t, op, m) ==
    /\ Calls(t, cv)
    /\ op = "wait" => mu # NULL /\ holds[t] = 1 /\ kmu[mu].owner = t
    /\ op # "wait" => m = "forever"
    /\ m # "nowait"
    /\ call' = [call EXCEPT ![t] =
         [pc |-> IF cv = NULL THEN "c_alloc" ELSE "k_cond", op |-> op, how |-> m, obj |-> NULL]]
    /\ UNCHANGED <<mu, cv, kmu, kcv, holds, habit>>

CondAlloc(t) ==
    /\ At(t, "c_alloc")
    /\ \/ \E o \in CObjs :
            /\ ~kcv[o].used
            /\ kcv' = [kcv EXCEPT ![o].used = TRUE]
            /\ Goto(t, "c_store", o)
       \/ /\ \A o \in CObjs : kcv[o].used
          /\ Return(t)
          /\ UNCHANGED kcv
    /\ UNCHANGED <<mu, cv, kmu, holds, habit>>

\* (mutant) the object is used and not stored
CondStoreLost(t) ==
    /\ At(t, "c_store")
    /\ cv' = IF call[t].op = "wait" THEN call[t].obj ELSE NULL
    /\ IF call[t].op = "wait" THEN Goto(t, "k_cond", NULL) ELSE Return(t)
    /\ UNCHANGED <<mu, kmu, kcv, holds, habit>>

CondStore(t) ==
    /\ At(t, "c_store")
    /\ cv' = call[t].obj
    /\ Goto(t, "k_cond", NULL)
    /\ UNCHANGED <<mu, kmu, kcv, holds, habit>>

\* (mutant) the waiter is put on the queue after the mutex has been released
CondWaitLate(t) ==
    /\ At(t, "k_cond") /\ call[t].op = "wait"
    /\ kmu' = [kmu EXCEPT ![mu] = Released(@)]
    /\ holds' = [u \in Threads |-> holds[u] + (IF u \in Heir(kmu[mu]) THEN 1 ELSE 0)
                                            - (IF u = t THEN 1 ELSE 0)]
    /\ call' = [u \in Threads |->
         IF u = t THEN [call[t] EXCEPT !.pc = "cond_wait", !.obj = mu]
         ELSE IF u \in Heir(kmu[mu]) THEN Idle ELSE call[u]]
    /\ UNCHANGED <<mu, cv, kcv, habit>>

\* k_condvar_wait: the mutex is released and the thread waits, in one step.
CondWait(t) ==
    /\ At(t, "k_cond") /\ call[t].op = "wait"
    /\ kcv' = [kcv EXCEPT ![cv].waitq = Append(@, t)]
    /\ kmu' = [kmu EXCEPT ![mu] = Released(@)]
    /\ holds' = [u \in Threads |-> holds[u] + (IF u \in Heir(kmu[mu]) THEN 1 ELSE 0)
                                            - (IF u = t THEN 1 ELSE 0)]
    /\ call' = [u \in Threads |->
         IF u = t THEN [call[t] EXCEPT !.pc = "cond_wait", !.obj = mu]
         ELSE IF u \in Heir(kmu[mu]) THEN Idle ELSE call[u]]
    /\ UNCHANGED <<mu, cv, habit>>

\* A waiter that leaves locks the mutex again, for as long as it takes; also
\* when its time is up.
Wakes(us) ==
    [u \in Threads |-> IF u \in us THEN [call[u] EXCEPT !.pc = "relock", !.how = "forever"]
                                   ELSE call[u]]

CondExpires(t) ==
    /\ At(t, "cond_wait") /\ call[t].how = "timed"
    /\ \E o \in CObjs : \E i \in DOMAIN kcv[o].waitq :
         /\ kcv[o].waitq[i] = t
         /\ kcv' = [kcv EXCEPT ![o].waitq = RemoveAt(@, i)]
    /\ call' = Wakes({t})
    /\ UNCHANGED <<mu, cv, kmu, holds, habit>>

\* k_condvar_signal wakes the first waiter, k_condvar_broadcast all.
CondWake(t) ==
    /\ At(t, "k_cond") /\ call[t].op \in {"signal", "broadcast"}
    /\ LET q == kcv[cv].waitq
           n == IF call[t].op = "signal" /\ q # <<>> THEN 1 ELSE Len(q) IN
        /\ kcv' = [kcv EXCEPT ![cv].waitq = SubSeq(q, n + 1, Len(q))]
        /\ call' = [Wakes({q[i] : i \in 1..n}) EXCEPT ![t] = Idle]
    /\ UNCHANGED <<mu, cv, kmu, holds, habit>>

Relock(t) ==
    /\ At(t, "relock")
    /\ LET o == call[t].obj IN
       IF kmu[o].count = 0
         THEN /\ kmu' = [kmu EXCEPT ![o] = Taken(t, @)]
              /\ holds' = [holds EXCEPT ![t] = @ + 1]
              /\ Return(t)
         ELSE /\ kmu' = [kmu EXCEPT ![o].waitq = Append(@, t)]
              /\ Goto(t, "lock_wait", o)
              /\ UNCHANGED holds
    /\ UNCHANGED <<mu, cv, kcv, habit>>

-----------------------------------------------------------------------------
Thread(t) ==
    \/ \E type \in Types : MutexInit(t, type)
    \/ MutexDestroy(t) \/ CondDestroy(t)
    \/ \E m \in Timeouts : LockTest(t, m)
    \/ LockAlloc(t) \/ LockStore(t) \/ LockKernel(t) \/ LockExpires(t) \/ Unlock(t)
    \/ \E op \in {"wait", "signal", "broadcast"}, m \in Timeouts : CondTest(t, op, m)
    \/ CondAlloc(t) \/ CondStore(t) \/ CondWait(t) \/ CondExpires(t) \/ CondWake(t)
    \/ Relock(t)

Next == \E t \in Threads : Thread(t)
Spec == Init /\ [][Next]_vars

-----------------------------------------------------------------------------
(* Properties *)

\* One thread at a time has the mutex, whatever mix of lock, trylock, timed
\* lock, wait, timeout and signal brought it there, if no two threads meet at
\* the static initialiser (pthread_mutex_lock_common, l.82).
WarmMutualExclusion == habit = "warm" =>
    \A t, u \in Threads : holds[t] > 0 /\ holds[u] > 0 => t = u

\* No wakeup is lost: a thread asleep in pthread_cond_wait is in the queue of
\* the object that the next pthread_cond_signal will use, and one that waits for
\* the mutex is in the queue of the object its owner will unlock.
WarmSleepersAreReachable == habit = "warm" => \A t \in Threads :
    /\ At(t, "cond_wait") => cv # NULL /\ t \in Range(kcv[cv].waitq)
    /\ At(t, "lock_wait") => /\ mu = call[t].obj /\ t \in Range(kmu[mu].waitq)
                             /\ kmu[mu].owner # NULL

\* Every kernel object in use belongs to the mutex, to the condition variable
\* or to a call that is about to store it: repeated initialisation and
\* destruction do not use up the pools.
WarmPoolsDoNotLeak == habit = "warm" =>
    /\ \A o \in MObjs : kmu[o].type # "free" =>
            mu = o \/ \E t \in Threads : At(t, "m_store") /\ call[t].obj = o
    /\ \A o \in CObjs : kcv[o].used =>
            cv = o \/ \E t \in Threads : At(t, "c_store") /\ call[t].obj = o
=============================================================================
