------------------------------- MODULE Mqueue -------------------------------
(***************************************************************************)
(* lib/posix/options/message_passing/mqueue.c: the names, the lifetime and *)
(* the reference counts of message queues; the messages are left out.      *)
(* mq_sem protects the list for the time of a lookup, an append or a       *)
(* removal only; the reference count and the name decide when a queue is   *)
(* freed, and are read and written outside it.  A step is what one thread  *)
(* does between two such accesses.                                         *)
(*                                                                         *)
(* Calls that fail with EINVAL, ENAMETOOLONG, EEXIST, ENOENT or EBADF, and *)
(* an ENOSPC for want of memory, whose path frees what it had allocated,   *)
(* leave everything as it was.                                             *)
(***************************************************************************)
EXTENDS Integers, FiniteSets

CONSTANTS
    Threads,
    Objs,       \* memory for struct mqueue_object
    Descs,      \* memory for struct mqueue_desc
    Names,
    NULL

ASSUME DescsAssumption == IsFiniteSet(Descs)
ASSUME NullAssumption  == NULL \notin Objs \cup Names

VARIABLES
    heap,       \* the objects allocated
    mq_list,    \* the objects in the list
    name,       \* mqueue_object.name
    ref_count,  \* mqueue_object.ref_count
    desc,       \* mqueue_desc.mqueue of the descriptors that clients have open
    lost,       \* descriptors allocated that no client has
    pc,         \* where each thread is in its call
    ptr,        \* msg_queue, the object a call under way works on
    want,       \* the name an mq_open under way looked for
    fault,      \* "memory" once an object has been freed that is going to be used
    habit       \* "serial": the clients make these calls one at a time

object == <<heap, mq_list, name, ref_count>>
local == <<pc, ptr, want>>
vars == <<object, desc, lost, local, fault, habit>>

Labels == {"idle", "open_new", "open_old", "close_name",
           "rm_cas", "rm_list", "rm_free"}

Init ==
    /\ heap = {} /\ mq_list = {}
    /\ name = [o \in Objs |-> NULL]
    /\ ref_count = [o \in Objs |-> 0]
    /\ desc = [d \in Descs |-> NULL]
    /\ lost = {}
    /\ pc = [t \in Threads |-> "idle"]
    /\ ptr = [t \in Threads |-> NULL]
    /\ want = [t \in Threads |-> NULL]
    /\ fault = "none"
    /\ habit \in {"serial", "free"}

Idle(t) == pc[t] = "idle"

\* A client starts a call.
Calls(t) ==
    /\ fault = "none"
    /\ Idle(t)
    /\ habit = "serial" => \A u \in Threads : Idle(u)

At(t, l) == fault = "none" /\ pc[t] = l

Goto(t, l, o) ==
    /\ pc' = [pc EXCEPT ![t] = l]
    /\ ptr' = [ptr EXCEPT ![t] = o]

Return(t) ==
    /\ Goto(t, "idle", NULL)
    /\ want' = [want EXCEPT ![t] = NULL]

\* find_in_list
Finds(n, o) == o \in mq_list /\ name[o] = n

FreeDescs == {d \in Descs : desc[d] = NULL /\ d \notin lost}

-----------------------------------------------------------------------------
(* mq_open *)

\* The lookup finds the name, and O_CREAT and O_EXCL are not both set.
OpenFound(t, n) == \E o \in Objs :
    /\ Calls(t)
    /\ Finds(n, o)
    /\ Goto(t, "open_old", o)
    /\ want' = [want EXCEPT ![t] = n]
    /\ UNCHANGED <<object, desc, lost, fault, habit>>

\* (mutant) O_CREAT makes a queue without a lookup
OpenMissingUnsearched(t, n) ==
    /\ Calls(t)
    /\ Goto(t, "open_new", NULL)
    /\ want' = [want EXCEPT ![t] = n]
    /\ UNCHANGED <<object, desc, lost, fault, habit>>

\* The lookup does not find it, and O_CREAT is set.
OpenMissing(t, n) ==
    /\ Calls(t)
    /\ \A o \in Objs : ~Finds(n, o)
    /\ Goto(t, "open_new", NULL)
    /\ want' = [want EXCEPT ![t] = n]
    /\ UNCHANGED <<object, desc, lost, fault, habit>>

\* (mutant) the new descriptor is not counted
OpenOldUncounted(t) == \E d \in FreeDescs :
    /\ At(t, "open_old")
    /\ desc' = [desc EXCEPT ![d] = ptr[t]]
    /\ Return(t)
    /\ UNCHANGED <<object, lost, fault, habit>>

\* An existing queue: the object that was found, a step or more ago.
OpenOld(t) == \E d \in FreeDescs :
    /\ At(t, "open_old")
    /\ ref_count' = [ref_count EXCEPT ![ptr[t]] = @ + 1]
    /\ desc' = [desc EXCEPT ![d] = ptr[t]]
    /\ Return(t)
    /\ UNCHANGED <<heap, mq_list, name, lost, fault, habit>>

\* A new queue.  Nothing of it is shared before it is in the list.
OpenNew(t) == \E d \in FreeDescs, o \in Objs \ heap :
    /\ At(t, "open_new")
    /\ heap' = heap \cup {o}
    /\ name' = [name EXCEPT ![o] = want[t]]
    /\ ref_count' = [ref_count EXCEPT ![o] = 1]
    /\ mq_list' = mq_list \cup {o}
    /\ desc' = [desc EXCEPT ![d] = o]
    /\ Return(t)
    /\ UNCHANGED <<lost, fault, habit>>

\* More messages or larger ones than configured: goto free_mq_desc, which does
\* not free the descriptor.
OpenTooBig(t) == \E d \in FreeDescs :
    /\ At(t, "open_new")
    /\ lost' = lost \cup {d}
    /\ Return(t)
    /\ UNCHANGED <<object, desc, fault, habit>>

\* ENOSPC for want of memory
OpenNoMemory(t) ==
    /\ At(t, "open_new") \/ At(t, "open_old")
    /\ Return(t)
    /\ UNCHANGED <<object, desc, lost, fault, habit>>

-----------------------------------------------------------------------------
(* mq_close and mq_unlink, and the remove_mq both call *)

\* mq_close.  The client gives the descriptor up when it calls.
CloseDec(t, d) ==
    /\ Calls(t)
    /\ desc[d] # NULL
    /\ ref_count' = [ref_count EXCEPT ![desc[d]] = @ - 1]
    /\ Goto(t, "close_name", desc[d])
    /\ desc' = [desc EXCEPT ![d] = NULL]
    /\ UNCHANGED <<heap, mq_list, name, lost, want, fault, habit>>

\* (mutant) only mq_unlink removes a queue
CloseNeverRemoves(t) ==
    /\ At(t, "close_name")
    /\ Return(t)
    /\ UNCHANGED <<object, desc, lost, fault, habit>>

\* "remove mq if marked for unlink"
CloseName(t) ==
    /\ At(t, "close_name")
    /\ IF name[ptr[t]] = NULL
         THEN Goto(t, "rm_cas", ptr[t]) /\ UNCHANGED want
         ELSE Return(t)
    /\ UNCHANGED <<object, desc, lost, fault, habit>>

\* mq_unlink: the name goes under mq_sem.
UnlinkName(t, n) == \E o \in Objs :
    /\ Calls(t)
    /\ Finds(n, o)
    /\ name' = [name EXCEPT ![o] = NULL]
    /\ Goto(t, "rm_cas", o)
    /\ UNCHANGED <<heap, mq_list, ref_count, desc, lost, want, fault, habit>>

\* (mutant) a queue is removed although descriptors are open
RemoveAnyway(t) ==
    /\ At(t, "rm_cas")
    /\ Goto(t, "rm_list", ptr[t])
    /\ UNCHANGED <<object, desc, lost, want, fault, habit>>

\* remove_mq: atomic_cas(&msg_queue->ref_count, 0, 0)
RemoveCas(t) ==
    /\ At(t, "rm_cas")
    /\ IF ref_count[ptr[t]] = 0
         THEN Goto(t, "rm_list", ptr[t]) /\ UNCHANGED want
         ELSE Return(t)
    /\ UNCHANGED <<object, desc, lost, fault, habit>>

RemoveList(t) ==
    /\ At(t, "rm_list")
    /\ mq_list' = mq_list \ {ptr[t]}
    /\ Goto(t, "rm_free", ptr[t])
    /\ UNCHANGED <<heap, name, ref_count, desc, lost, want, fault, habit>>

\* A descriptor, or another thread's call, still refers to o and will use it.
Referenced(t, o) ==
    \/ \E d \in Descs : desc[d] = o
    \/ \E u \in Threads \ {t} : ptr[u] = o

\* The buffer and the object are freed.
RemoveFree(t) ==
    /\ At(t, "rm_free")
    /\ heap' = heap \ {ptr[t]}
    /\ fault' = IF Referenced(t, ptr[t]) THEN "memory" ELSE fault
    /\ Return(t)
    /\ UNCHANGED <<mq_list, name, ref_count, desc, lost, habit>>

\* Nothing is said of a program once it holds a pointer to freed memory.
Crashed == fault # "none" /\ UNCHANGED vars

-----------------------------------------------------------------------------
Thread(t) ==
    \/ \E n \in Names : OpenFound(t, n) \/ OpenMissing(t, n) \/ UnlinkName(t, n)
    \/ OpenOld(t) \/ OpenNew(t) \/ OpenTooBig(t) \/ OpenNoMemory(t)
    \/ \E d \in Descs : CloseDec(t, d)
    \/ CloseName(t) \/ RemoveCas(t) \/ RemoveList(t) \/ RemoveFree(t)

Next == Crashed \/ \E t \in Threads : Thread(t)
Spec == Init /\ [][Next]_vars

-----------------------------------------------------------------------------
(* Properties *)

\* Every variable has its type; a reference count is never negative.
TypeOK ==
    /\ heap \subseteq Objs /\ mq_list \subseteq Objs
    /\ name \in [Objs -> Names \cup {NULL}]
    /\ ref_count \in [Objs -> Nat]
    /\ desc \in [Descs -> Objs \cup {NULL}]
    /\ lost \subseteq Descs
    /\ pc \in [Threads -> Labels]
    /\ ptr \in [Threads -> Objs \cup {NULL}]
    /\ want \in [Threads -> Names \cup {NULL}]
    /\ fault \in {"none", "memory"} /\ habit \in {"serial", "free"}

Open(o) == {d \in Descs : desc[d] = o}

\* However calls overlap, a queue's reference count is the number of its open
\* descriptors, across mq_open, mq_close and mq_unlink in any order.
RefCountExact == fault = "none" =>
    \A o \in heap : ref_count[o] = Cardinality(Open(o))

\* When calls do not overlap, no freed queue is used, freed again, listed, or
\* behind an open descriptor: mq_unlink of an open queue waits for the last
\* mq_close.
SerialNothingDangles ==
    habit = "serial" =>
        /\ fault = "none"
        /\ mq_list \subseteq heap
        /\ \A d \in Descs : desc[d] \in heap \cup {NULL}

\* A name finds one queue at most: mq_open of a name that exists opens the
\* queue of that name, or fails if O_CREAT and O_EXCL are set.
NamesAreUnique == \A o, p \in mq_list :
    name[o] # NULL /\ name[o] = name[p] => o = p

\* NamesAreUnique, when calls do not overlap.
SerialNamesAreUnique == habit = "serial" => NamesAreUnique

\* t is on its way to free o, or to find that it must not.
Removing(t, o) ==
    ptr[t] = o /\ pc[t] \in {"close_name", "rm_cas", "rm_list", "rm_free"}

\* However calls overlap, a queue that has neither a name nor an open
\* descriptor is being removed by some thread: the last mq_close and the
\* mq_unlink cannot both leave it to the other.
NothingLeaks == fault = "none" =>
    \A o \in heap : \/ name[o] # NULL
                    \/ Open(o) # {}
                    \/ \E t \in Threads : Removing(t, o)
=============================================================================
