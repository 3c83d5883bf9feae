------------------------------ MODULE Semaphore -----------------------------
(***************************************************************************)
(* lib/posix/options/semaphores/semaphore.c: unnamed semaphores, and named *)
(* ones, which live in a list under nsem_mutex and are freed by reference  *)
(* count.  sem_open, sem_close and sem_unlink hold nsem_mutex from the     *)
(* lookup to the end, so each is one step; a thread that waits in sem_wait *)
(* waits across any number of them.                                        *)
(*                                                                         *)
(* Calls that fail (EINVAL, ENAMETOOLONG, EEXIST, ENOENT, EAGAIN, EBUSY,   *)
(* and ENOSPC, whose path frees what it had allocated) change nothing and  *)
(* are not steps.                                                          *)
(***************************************************************************)
EXTENDS Integers, FiniteSets

CONSTANTS
    Threads,
    Handles,    \* the clients' sem_t pointers, shared by all threads
    Objs,       \* memory for struct nsem_obj
    Names,
    Unnamed,    \* the clients' sem_t objects
    NULL,
    ValueMax    \* CONFIG_POSIX_SEM_VALUE_MAX

ASSUME HandlesAssumption == IsFiniteSet(Handles)
ASSUME NullAssumption    == NULL \notin Objs \cup Names \cup Unnamed \cup Handles
ASSUME SemsAssumption    == Objs \cap Unnamed = {} /\ Handles \cap Unnamed = {}
ASSUME ValueAssumption   == ValueMax \in Nat \ {0}

VARIABLES
    nsem_list,  \* the objects in the list
    name,       \* nsem->name
    ref_count,  \* nsem->ref_count
    h,          \* what each handle points to
    count,      \* k_sem count, named and unnamed
    ready,      \* the unnamed semaphores between sem_init and sem_destroy
    waitq,      \* what each thread waits on: a handle, an unnamed semaphore or NULL
    timed       \* the threads whose wait has a timeout

Sems == Objs \cup Unnamed
named == <<nsem_list, name, ref_count, h>>
vars == <<named, count, ready, waitq, timed>>

\* The semaphore behind what a client names: a handle or an unnamed semaphore.
Target(x) == IF x \in Handles THEN h[x] ELSE x

\* A client uses a handle it has opened and not closed, and a semaphore it has
\* initialised and not destroyed.
Usable(x) == IF x \in Handles THEN h[x] # NULL ELSE x \in ready

Waiting(t) == waitq[t] # NULL
Waiters(s) == {t \in Threads : Waiting(t) /\ Target(waitq[t]) = s}

Init ==
    /\ nsem_list = {}
    /\ name = [o \in Objs |-> NULL]
    /\ ref_count = [o \in Objs |-> 0]
    /\ h = [d \in Handles |-> NULL]
    /\ count = [s \in Sems |-> 0]
    /\ ready = {}
    /\ waitq = [t \in Threads |-> NULL]
    /\ timed = {}

-----------------------------------------------------------------------------
(* Named semaphores *)

\* nsem_find: an object of the list that still has the name.
Finds(n, o) == o \in nsem_list /\ name[o] = n

\* (mutant) the name's own reference is forgotten
UnrefEager(o) ==
    /\ ref_count' = [ref_count EXCEPT ![o] = @ - 1]
    /\ nsem_list' = IF ref_count[o] <= 2 THEN nsem_list \ {o} ELSE nsem_list

\* nsem_unref: at zero the object leaves the list and is freed.
Unref(o) ==
    /\ ref_count' = [ref_count EXCEPT ![o] = @ - 1]
    /\ nsem_list' = IF ref_count[o] = 1 THEN nsem_list \ {o} ELSE nsem_list

\* sem_open of a name in the list, unless O_CREAT and O_EXCL are both set.
\* (Without O_CREAT the code still reads a value argument the caller need not
\* have passed and may refuse it with EINVAL.)
OpenExisting(d, n) == \E o \in Objs :
    /\ h[d] = NULL
    /\ Finds(n, o)
    /\ ref_count' = [ref_count EXCEPT ![o] = @ + 1]
    /\ h' = [h EXCEPT ![d] = o]
    /\ UNCHANGED <<nsem_list, name, count, ready, waitq, timed>>

\* (mutant) a new object starts with the opener's reference alone
OpenCreateUnlinkedRef(d, n, v) == \E o \in Objs \ nsem_list :
    /\ h[d] = NULL
    /\ \A p \in Objs : ~Finds(n, p)
    /\ name' = [name EXCEPT ![o] = n]
    /\ ref_count' = [ref_count EXCEPT ![o] = 1]
    /\ count' = [count EXCEPT ![o] = v]
    /\ nsem_list' = nsem_list \cup {o}
    /\ h' = [h EXCEPT ![d] = o]
    /\ UNCHANGED <<ready, waitq, timed>>

\* (mutant) the list is not searched before a semaphore is created
OpenCreateUnsearched(d, n, v) == \E o \in Objs \ nsem_list :
    /\ h[d] = NULL
    /\ name' = [name EXCEPT ![o] = n]
    /\ ref_count' = [ref_count EXCEPT ![o] = 2]
    /\ count' = [count EXCEPT ![o] = v]
    /\ nsem_list' = nsem_list \cup {o}
    /\ h' = [h EXCEPT ![d] = o]
    /\ UNCHANGED <<ready, waitq, timed>>

\* sem_open with O_CREAT of a name not in the list.  One reference is the
\* opener's, one the linked name's.
OpenCreate(d, n, v) == \E o \in Objs \ nsem_list :
    /\ h[d] = NULL
    /\ \A p \in Objs : ~Finds(n, p)
    /\ name' = [name EXCEPT ![o] = n]
    /\ ref_count' = [ref_count EXCEPT ![o] = 2]
    /\ count' = [count EXCEPT ![o] = v]
    /\ nsem_list' = nsem_list \cup {o}
    /\ h' = [h EXCEPT ![d] = o]
    /\ UNCHANGED <<ready, waitq, timed>>

\* sem_unlink
Unlink(n) == \E o \in Objs :
    /\ Finds(n, o)
    /\ name' = [name EXCEPT ![o] = NULL]
    /\ Unref(o)
    /\ UNCHANGED <<h, count, ready, waitq, timed>>

\* sem_close.  No thread is waiting through the handle that is closed.
Close(d) ==
    /\ h[d] # NULL
    /\ \A t \in Threads : waitq[t] # d
    /\ Unref(h[d])
    /\ h' = [h EXCEPT ![d] = NULL]
    /\ UNCHANGED <<name, count, ready, waitq, timed>>

-----------------------------------------------------------------------------
(* Unnamed semaphores *)

\* sem_init, of a value that is not above the maximum
SemInit(s, v) ==
    /\ s \notin ready
    /\ count' = [count EXCEPT ![s] = v]
    /\ ready' = ready \cup {s}
    /\ UNCHANGED <<named, waitq, timed>>

\* (mutant) sem_destroy does not look at the wait queue
SemDestroyUnchecked(s) ==
    /\ s \in ready
    /\ count' = [count EXCEPT ![s] = 0]
    /\ ready' = ready \ {s}
    /\ UNCHANGED <<named, waitq, timed>>

\* sem_destroy; EBUSY when a thread waits.  The look at the wait queue and the
\* reset are one step because clients start no call on a semaphore that is
\* being destroyed.
SemDestroy(s) ==
    /\ s \in ready
    /\ Waiters(s) = {}
    /\ count' = [count EXCEPT ![s] = 0]
    /\ ready' = ready \ {s}
    /\ UNCHANGED <<named, waitq, timed>>

-----------------------------------------------------------------------------
(* Operations on either kind *)

\* sem_wait, sem_timedwait and sem_trywait of a positive semaphore
Take(t, x) ==
    /\ ~Waiting(t) /\ Usable(x)
    /\ count[Target(x)] > 0
    /\ count' = [count EXCEPT ![Target(x)] = @ - 1]
    /\ UNCHANGED <<named, ready, waitq, timed>>

\* sem_wait and sem_timedwait of a zero semaphore
Block(t, x) ==
    /\ ~Waiting(t) /\ Usable(x)
    /\ count[Target(x)] = 0
    /\ waitq' = [waitq EXCEPT ![t] = x]
    /\ timed' \in {timed, timed \cup {t}}
    /\ UNCHANGED <<named, count, ready>>

Wake(t) ==
    /\ waitq' = [waitq EXCEPT ![t] = NULL]
    /\ timed' = timed \ {t}

\* sem_timedwait returns ETIMEDOUT
Timeout(t) ==
    /\ t \in timed
    /\ Wake(t)
    /\ UNCHANGED <<named, count, ready>>

\* sem_post: k_sem_give hands the unit to a waiter (the first of the highest
\* priority) or adds one, up to the limit.
Post(x) ==
    /\ Usable(x)
    /\ LET s == Target(x) IN
         \/ /\ \E t \in Waiters(s) : Wake(t)
            /\ UNCHANGED count
         \/ /\ Waiters(s) = {}
            /\ count' = [count EXCEPT ![s] = IF @ < ValueMax THEN @ + 1 ELSE @]
            /\ UNCHANGED <<waitq, timed>>
    /\ UNCHANGED <<named, ready>>

-----------------------------------------------------------------------------
NamedStep ==
    \/ \E d \in Handles, n \in Names :
         OpenExisting(d, n) \/ \E v \in 0..ValueMax : OpenCreate(d, n, v)
    \/ \E n \in Names : Unlink(n)
    \/ \E d \in Handles : Close(d)

UnnamedStep == \E s \in Unnamed :
    SemDestroy(s) \/ \E v \in 0..ValueMax : SemInit(s, v)

UseStep ==
    \/ \E t \in Threads, x \in Handles \cup Unnamed : Take(t, x) \/ Block(t, x)
    \/ \E t \in Threads : Timeout(t)
    \/ \E x \in Handles \cup Unnamed : Post(x)

Next == NamedStep \/ UnnamedStep \/ UseStep
Spec == Init /\ [][Next]_vars

-----------------------------------------------------------------------------
(* Properties *)

\* Every variable has its type.
TypeOK ==
    /\ nsem_list \subseteq Objs
    /\ name \in [Objs -> Names \cup {NULL}]
    /\ ref_count \in [Objs -> Int]
    /\ h \in [Handles -> Objs \cup {NULL}]
    /\ count \in [Sems -> 0..ValueMax]
    /\ ready \subseteq Unnamed
    /\ waitq \in [Threads -> Handles \cup Unnamed \cup {NULL}]
    /\ timed \subseteq Threads

OpenHandles(o) == {d \in Handles : h[d] = o}

\* "1 for this open instance, +1 for the linked name" (semaphore.c): a listed
\* object's reference count is the number of its open handles, plus one while
\* it is linked.
RefCountExact == \A o \in nsem_list :
    ref_count[o] = Cardinality(OpenHandles(o)) + (IF name[o] # NULL THEN 1 ELSE 0)

\* An object is in the list as long as a handle or its name refers to it, and
\* no longer: nothing dangles after a close and an unlink in any order, nothing
\* leaks, and nsem_unref's assertions hold.
ListedIffReferenced == \A o \in Objs :
    o \in nsem_list <=> OpenHandles(o) # {} \/ name[o] # NULL

\* A name refers to one object at a time, also while unlinked objects of that
\* name are still open.
NamesAreUnique == \A o, p \in nsem_list :
    name[o] # NULL /\ name[o] = name[p] => o = p

\* A thread waits only for a semaphore that exists, and only while it is zero.
WaitersBlockedOnLiveZero == \A t \in Threads :
    Waiting(t) => /\ Usable(waitq[t])
                  /\ Target(waitq[t]) \in nsem_list \cup ready
                  /\ count[Target(waitq[t])] = 0
=============================================================================
