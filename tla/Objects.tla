------------------------------- MODULE Objects ------------------------------
(***************************************************************************)
(* lib/posix: the attribute objects of mutexes, condition variables,       *)
(* reader-writer locks and barriers; the handles by which a program names  *)
(* an object of a pool; and the list of network interfaces, an allocation  *)
(* of several parts.  Each is a function of a sequence of calls or of an   *)
(* input, next to what it should give.                                     *)
(***************************************************************************)
EXTENDS Integers, Sequences, SequencesExt, FiniteSetsExt

CONSTANT Word           \* 2^32: a handle holds the low half of an address

-----------------------------------------------------------------------------
(* Attribute objects: [initialized, value], where value is the type of a     *)
(* mutex, the clock of a condition variable, or the process-shared attribute *)
(* of a lock or a barrier.  A call is [op, arg]; every object begins as      *)
(* memory that nobody initialised, with whatever bits are in it.             *)

Supported == [mutex |-> {"NORMAL", "RECURSIVE", "ERRORCHECK"},   \* DEFAULT is NORMAL
              cond |-> {"REALTIME", "MONOTONIC"},
              rwlock |-> {"PRIVATE", "SHARED"},
              barrier |-> {"PRIVATE", "SHARED"}]
Default == [mutex |-> "NORMAL", cond |-> "REALTIME", rwlock |-> "PRIVATE", barrier |-> "PRIVATE"]
Zeroed == [mutex |-> "NORMAL", cond |-> "unknown", rwlock |-> "PRIVATE"]

\* What an object can hold before its first call.
Garbage(kind) == [initialized : BOOLEAN, value : Supported[kind] \cup {"unknown"}]

OK == 0
EINVAL == 22

\* What a call does to the object a: the new object, and what is returned.
Refuse(a, err) == [a |-> a, ret |-> err, got |-> "none"]
Give(a, got) == [a |-> a, ret |-> OK, got |-> got]

pthread_mutexattr_init(a) == Give([initialized |-> TRUE, value |-> Default.mutex], "none")
pthread_mutexattr_destroy(a) ==
    IF ~a.initialized THEN Refuse(a, EINVAL)
    ELSE Give([initialized |-> FALSE, value |-> Zeroed.mutex], "none")
pthread_mutexattr_settype(a, v) ==
    IF ~a.initialized \/ v \notin Supported.mutex THEN Refuse(a, EINVAL)
    ELSE Give([a EXCEPT !.value = v], "none")
pthread_mutexattr_gettype(a) ==
    IF ~a.initialized THEN Refuse(a, EINVAL) ELSE Give(a, a.value)

\* A second initialisation is refused; so is a first one, where the memory happens
\* to say that it was initialised.
pthread_condattr_init(a) ==
    IF a.initialized THEN Refuse(a, EINVAL)
    ELSE Give([initialized |-> TRUE, value |-> Default.cond], "none")
pthread_condattr_destroy(a) ==
    IF ~a.initialized THEN Refuse(a, EINVAL)
    ELSE Give([initialized |-> FALSE, value |-> Zeroed.cond], "none")
pthread_condattr_setclock(a, v) ==
    IF v \notin Supported.cond THEN Refuse(a, -EINVAL)
    ELSE IF ~a.initialized THEN Refuse(a, EINVAL) ELSE Give([a EXCEPT !.value = v], "none")
pthread_condattr_getclock(a) ==
    IF ~a.initialized THEN Refuse(a, EINVAL) ELSE Give(a, a.value)

pthread_rwlockattr_init(a) == Give([initialized |-> TRUE, value |-> Default.rwlock], "none")
pthread_rwlockattr_destroy(a) ==
    IF ~a.initialized THEN Refuse(a, EINVAL)
    ELSE Give([initialized |-> FALSE, value |-> Zeroed.rwlock], "none")
pthread_rwlockattr_setpshared(a, v) ==
    IF ~a.initialized \/ v \notin Supported.rwlock THEN Refuse(a, EINVAL)
    ELSE Give([a EXCEPT !.value = v], "none")
pthread_rwlockattr_getpshared(a) ==
    IF ~a.initialized THEN Refuse(a, EINVAL) ELSE Give(a, a.value)

\* There is no mark of initialisation: destroy changes nothing.
pthread_barrierattr_init(a) == Give([a EXCEPT !.value = Default.barrier], "none")
pthread_barrierattr_destroy(a) == Give(a, "none")
pthread_barrierattr_setpshared(a, v) ==
    IF v \notin Supported.barrier THEN Refuse(a, -EINVAL) ELSE Give([a EXCEPT !.value = v], "none")
pthread_barrierattr_getpshared(a) == Give(a, a.value)

Apply(kind, a, c) ==
    CASE kind = "mutex" /\ c.op = "init" -> pthread_mutexattr_init(a)
      [] kind = "mutex" /\ c.op = "destroy" -> pthread_mutexattr_destroy(a)
      [] kind = "mutex" /\ c.op = "set" -> pthread_mutexattr_settype(a, c.arg)
      [] kind = "mutex" /\ c.op = "get" -> pthread_mutexattr_gettype(a)
      [] kind = "cond" /\ c.op = "init" -> pthread_condattr_init(a)
      [] kind = "cond" /\ c.op = "destroy" -> pthread_condattr_destroy(a)
      [] kind = "cond" /\ c.op = "set" -> pthread_condattr_setclock(a, c.arg)
      [] kind = "cond" /\ c.op = "get" -> pthread_condattr_getclock(a)
      [] kind = "rwlock" /\ c.op = "init" -> pthread_rwlockattr_init(a)
      [] kind = "rwlock" /\ c.op = "destroy" -> pthread_rwlockattr_destroy(a)
      [] kind = "rwlock" /\ c.op = "set" -> pthread_rwlockattr_setpshared(a, c.arg)
      [] kind = "rwlock" /\ c.op = "get" -> pthread_rwlockattr_getpshared(a)
      [] kind = "barrier" /\ c.op = "init" -> pthread_barrierattr_init(a)
      [] kind = "barrier" /\ c.op = "destroy" -> pthread_barrierattr_destroy(a)
      [] kind = "barrier" /\ c.op = "set" -> pthread_barrierattr_setpshared(a, c.arg)
      [] kind = "barrier" /\ c.op = "get" -> pthread_barrierattr_getpshared(a)

\* What the last of the calls returns, and what is left of the object.
Replay(kind, a, calls) ==
    FoldLeft(LAMBDA r, c : Apply(kind, r.a, c), Refuse(a, OK), calls)

-----------------------------------------------------------------------------
(* Handles.  An address is a number; a handle is what is left of it in 32    *)
(* bits.  The upper half comes from a reference address: the pool's storage. *)

Join(ref, handle) == (ref \div Word) * Word + handle
posix_from_kernel_object(addr) == addr % Word
posix_to_kernel_object(handle, ref) == Join(ref, handle)

\* live: the addresses for which sys_elastipool_check answers 0; 0 is NULL.
posix_get_pool_obj_unlocked(storage, live, handle) ==
    IF Join(storage, handle) \in live THEN Join(storage, handle) ELSE 0

-----------------------------------------------------------------------------
(* if_nameindex, of n interfaces, where the allocation numbered bad fails (0: *)
(* the array; none if it is larger than n).  What an entry holds: "name",     *)
(* "NULL", or "garbage" where nothing was written.                            *)

if_freenameindex(array) == {k \in DOMAIN array : array[k] # "NULL"}

if_nameindex(n, bad) ==
    LET array == [k \in 1..n |-> IF k < bad THEN "name" ELSE IF k = bad THEN "NULL" ELSE "garbage"] IN
    [list |-> IF bad > n THEN array ELSE <<>>,
     freed |-> IF bad \in 1..n THEN if_freenameindex(array) ELSE {},
     allocated |-> IF bad \in 1..n THEN {k \in 1..n : array[k] = "name"} ELSE {}]

-----------------------------------------------------------------------------
(* What they should give *)

\* Whatever the memory held, once an init or a destroy was accepted an attribute
\* object of a mutex, a condition variable or a lock answers only between init and
\* destroy, and then with the value of the last set that was accepted since init,
\* or with the default.  Before that nothing is promised.  A barrier's answers
\* always, with the last value that init or set gave it.  A call that is refused
\* changes nothing.
AttributesAgree(kind, raw, calls) ==
    LET result(k) == Replay(kind, raw, SubSeq(calls, 1, k))
        marks(ops) == {k \in 1..Len(calls) : calls[k].op \in ops /\ result(k).ret = OK}
        known(k) == kind = "barrier" \/ \E i \in marks({"init", "destroy"}) : i < k
        alive(k) == \/ kind = "barrier"
                    \/ \E i \in marks({"init"}) : i < k /\ \A d \in marks({"destroy"}) : d < i \/ d > k
        given(k) == {i \in marks({"init", "set"}) : i < k}
        want(k) == IF calls[Max(given(k))].op = "init" THEN Default[kind] ELSE calls[Max(given(k))].arg
    IN  \A k \in 1..Len(calls) : LET r == result(k) IN
           /\ r.ret # OK => r.a = result(k - 1).a
           /\ calls[k].op = "get" /\ known(k) =>
                 (r.ret = OK <=> alive(k)) /\ (r.ret = OK /\ given(k) # {} => r.got = want(k))
           /\ calls[k].op = "set" /\ known(k) =>
                 (r.ret = OK <=> alive(k) /\ calls[k].arg \in Supported[kind])

\* A handle finds the object it was made from, and no other, while the object is
\* live and lies in the same half of memory as the pool's storage.
HandlesAgree(storage, live, obj) ==
    LET found == posix_get_pool_obj_unlocked(storage, live, posix_from_kernel_object(obj))
        near(a) == a \div Word = storage \div Word
    IN  /\ near(obj) => found = IF obj \in live THEN obj ELSE 0
        /\ found # 0 => found \in live /\ near(found)
        /\ near(obj) => posix_to_kernel_object(posix_from_kernel_object(obj), storage) = obj

\* A list of interfaces that runs out of memory at its last name gives back every
\* name it allocated and nothing else.  (At an earlier name it also frees the
\* entries that it has not written yet.)
InterfacesAgree(n, bad) ==
    /\ if_nameindex(n, bad).allocated \subseteq if_nameindex(n, bad).freed
    /\ bad >= n => if_nameindex(n, bad).freed = if_nameindex(n, bad).allocated
    /\ bad > n => if_nameindex(n, bad).list = [k \in 1..n |-> "name"]
=============================================================================
