------------------------------- MODULE RwLock -------------------------------
(***************************************************************************)
(* One pthread_rwlock_t of lib/posix/options/rw_locks/rwlock.c, used by a  *)
(* set of threads.  A step is one semaphore operation: the four semaphore  *)
(* calls of a lock operation are not protected by any outer lock, and      *)
(* other threads run between them.                                         *)
(*                                                                         *)
(* A counting sys_sem is a number: take waits for it to be positive (or    *)
(* times out), give adds one up to its limit.                              *)
(***************************************************************************)
EXTENDS Integers, FiniteSets

CONSTANTS
    Threads,    \* the threads that use the lock
    NoThread,   \* wr_owner == NULL
    Limit,      \* CONCURRENT_READER_LIMIT
    MaxReads    \* bound: read locks one thread holds at a time

ASSUME ThreadsAssumption == NoThread \notin Threads
ASSUME LimitAssumption   == Limit \in Nat \ {0}
ASSUME ReadsAssumption   == MaxReads \in Nat \ {0}

VARIABLES
    handle,         \* the pthread_rwlock_t: the static initializer, or a pool handle
    slot,           \* the pool object behind the handle: "free" or "used"
    rd_sem, wr_sem, reader_active, wr_owner,    \* struct posix_rwlock
    pc,             \* where each thread is in its call ("idle": in the client)
    mode,           \* the timeout of the call under way
    reads           \* read locks held: rdlock returned 0, unlock not called yet

object == <<rd_sem, wr_sem, reader_active, wr_owner>>
vars == <<handle, slot, object, pc, mode, reads>>

\* The timeout of an acquire: SYS_FOREVER_MS, or a number of milliseconds that
\* pass sooner or later: those left of an abstime (the failure is reported as
\* ETIMEDOUT) or the 0 of the try functions (EBUSY).
Modes == {"forever", "bounded"}

\* read_lock_acquire, write_lock_acquire and unlock, one label per semaphore call
RdPC == {"rd_wr", "rd_active", "rd_rd", "rd_give"}
WrPC == {"wr_wr", "wr_active", "wr_undo"}
UnPC == {"un_active", "un_wr", "un_rd", "un_count", "un_last"}

Idle(t) == pc[t] = "idle"
GoTo(t, l) == pc' = [pc EXCEPT ![t] = l]
Return(t) == GoTo(t, "idle") /\ mode' = [mode EXCEPT ![t] = "forever"]

Give(sem, limit) == IF sem < limit THEN sem + 1 ELSE sem
TakeNoWait(sem)  == IF sem > 0 THEN sem - 1 ELSE sem

\* posix_get_pool_obj finds an object: the handle is not the initializer's and
\* its object is allocated.
Live  == slot = "used"
Found == handle = "object" /\ Live

Init ==
    /\ handle = "initializer" /\ slot = "free"
    /\ rd_sem = 0 /\ wr_sem = 0 /\ reader_active = 0 /\ wr_owner = NoThread
    /\ pc    = [t \in Threads |-> "idle"]
    /\ mode  = [t \in Threads |-> "forever"]
    /\ reads = [t \in Threads |-> 0]

-----------------------------------------------------------------------------
(* Clients.  POSIX leaves a lock that is initialised twice, destroyed while *)
(* in use or unlocked by a thread that does not hold it undefined, so the   *)
(* clients do none of these.  A blocking call is made by a thread that      *)
(* holds nothing: it would otherwise wait for itself.                       *)

Writing(t) == wr_owner = t /\ Idle(t)
Reading(t) == reads[t] > 0
HoldsNothing(t) == reads[t] = 0 /\ wr_owner # t
Unused == \A t \in Threads : Idle(t) /\ reads[t] = 0
-----------------------------------------------------------------------------
(* pthread_rwlock_init and pthread_rwlock_destroy *)

\* The rest of the pool belongs to other locks and may be exhausted.
\* ENOMEM: *rwlock has been overwritten already.
InitFails ==
    /\ Unused /\ ~Live
    /\ handle' = "initializer"
    /\ UNCHANGED <<slot, object, pc, mode, reads>>

InitLock ==
    /\ Unused /\ ~Live
    /\ handle' = "object" /\ slot' = "used"
    /\ rd_sem' = Limit /\ wr_sem' = 1 /\ reader_active' = 1
    /\ wr_owner' = NoThread
    /\ UNCHANGED <<pc, mode, reads>>

\* Otherwise EINVAL or EBUSY, and nothing changes.  *rwlock keeps the handle.
Destroy ==
    /\ Unused /\ Found /\ wr_owner = NoThread
    /\ slot' = "free"
    /\ UNCHANGED <<handle, object, pc, mode, reads>>

-----------------------------------------------------------------------------
(* read_lock_acquire *)

\* pthread_rwlock_rdlock, _timedrdlock and _tryrdlock once the lock is found.
\* (An invalid abstime, or a handle without an object, is EINVAL and changes
\* nothing.)
CallRead(t) ==
    /\ Idle(t) /\ Found
    /\ reads[t] < MaxReads
    /\ \E m \in Modes :
         /\ m = "forever" => HoldsNothing(t)
         /\ mode' = [mode EXCEPT ![t] = m]
    /\ GoTo(t, "rd_wr")
    /\ UNCHANGED <<handle, slot, object, reads>>

ReadTakeWr(t) ==
    /\ pc[t] = "rd_wr" /\ wr_sem > 0
    /\ wr_sem' = wr_sem - 1
    /\ GoTo(t, "rd_active")
    /\ UNCHANGED <<handle, slot, rd_sem, reader_active, wr_owner, mode, reads>>

ReadBusy(t) ==
    /\ pc[t] = "rd_wr" /\ wr_sem = 0 /\ mode[t] # "forever"
    /\ Return(t)
    /\ UNCHANGED <<handle, slot, object, reads>>

\* (mutant) the reader does not take reader_active
ReadLeaveActive(t) ==
    /\ pc[t] = "rd_active"
    /\ GoTo(t, "rd_rd")
    /\ UNCHANGED <<handle, slot, object, mode, reads>>

\* The result is ignored: the take fails for all readers but the first.
ReadTakeActive(t) ==
    /\ pc[t] = "rd_active"
    /\ reader_active' = TakeNoWait(reader_active)
    /\ GoTo(t, "rd_rd")
    /\ UNCHANGED <<handle, slot, rd_sem, wr_sem, wr_owner, mode, reads>>

ReadTakeRd(t) ==
    /\ pc[t] = "rd_rd"
    /\ rd_sem' = TakeNoWait(rd_sem)
    /\ GoTo(t, "rd_give")
    /\ UNCHANGED <<handle, slot, wr_sem, reader_active, wr_owner, mode, reads>>

ReadGiveWr(t) ==
    /\ pc[t] = "rd_give"
    /\ wr_sem' = Give(wr_sem, 1)
    /\ reads' = [reads EXCEPT ![t] = @ + 1]
    /\ Return(t)
    /\ UNCHANGED <<handle, slot, rd_sem, reader_active, wr_owner>>

-----------------------------------------------------------------------------
(* write_lock_acquire *)

CallWrite(t) ==
    /\ Idle(t) /\ Found
    /\ \E m \in Modes :
         /\ m = "forever" => HoldsNothing(t)
         /\ mode' = [mode EXCEPT ![t] = m]
    /\ GoTo(t, "wr_wr")
    /\ UNCHANGED <<handle, slot, object, reads>>

WriteTakeWr(t) ==
    /\ pc[t] = "wr_wr" /\ wr_sem > 0
    /\ wr_sem' = wr_sem - 1
    /\ GoTo(t, "wr_active")
    /\ UNCHANGED <<handle, slot, rd_sem, reader_active, wr_owner, mode, reads>>

WriteBusy(t) ==
    /\ pc[t] = "wr_wr" /\ wr_sem = 0 /\ mode[t] # "forever"
    /\ Return(t)
    /\ UNCHANGED <<handle, slot, object, reads>>

\* Only t compares wr_owner with t, so the assignment is part of this step.
WriteTakeActive(t) ==
    /\ pc[t] = "wr_active" /\ reader_active > 0
    /\ reader_active' = reader_active - 1
    /\ wr_owner' = t
    /\ Return(t)
    /\ UNCHANGED <<handle, slot, rd_sem, wr_sem, reads>>

\* (mutant) the time spent on wr_sem is used up and wr_sem is kept
WriteGiveUpKeepingWr(t) ==
    /\ pc[t] = "wr_active" /\ reader_active = 0 /\ mode[t] # "forever"
    /\ Return(t)
    /\ UNCHANGED <<handle, slot, object, reads>>

\* The remaining time passes (at once for a try) while readers are active.
WriteGiveUp(t) ==
    /\ pc[t] = "wr_active" /\ reader_active = 0 /\ mode[t] # "forever"
    /\ GoTo(t, "wr_undo")
    /\ UNCHANGED <<handle, slot, object, mode, reads>>

WriteUndo(t) ==
    /\ pc[t] = "wr_undo"
    /\ wr_sem' = Give(wr_sem, 1)
    /\ Return(t)
    /\ UNCHANGED <<handle, slot, rd_sem, reader_active, wr_owner, reads>>

-----------------------------------------------------------------------------
(* pthread_rwlock_unlock *)

UnlockWrite(t) ==
    /\ Writing(t) /\ Found
    /\ wr_owner' = NoThread
    /\ GoTo(t, "un_active")
    /\ UNCHANGED <<handle, slot, rd_sem, wr_sem, reader_active, mode, reads>>

UnlockGiveActive(t) ==
    /\ pc[t] = "un_active"
    /\ reader_active' = Give(reader_active, 1)
    /\ GoTo(t, "un_wr")
    /\ UNCHANGED <<handle, slot, rd_sem, wr_sem, wr_owner, mode, reads>>

\* (mutant) the writer's unlock forgets wr_sem
UnlockKeepWr(t) ==
    /\ pc[t] = "un_wr"
    /\ Return(t)
    /\ UNCHANGED <<handle, slot, object, reads>>

UnlockGiveWr(t) ==
    /\ pc[t] = "un_wr"
    /\ wr_sem' = Give(wr_sem, 1)
    /\ Return(t)
    /\ UNCHANGED <<handle, slot, rd_sem, reader_active, wr_owner, reads>>

\* Any caller that is not the owner is taken for a reader.
UnlockRead(t) ==
    /\ Idle(t) /\ Reading(t) /\ wr_owner # t /\ Found
    /\ reads' = [reads EXCEPT ![t] = @ - 1]
    /\ GoTo(t, "un_rd")
    /\ UNCHANGED <<handle, slot, object, mode>>

\* (mutant) the permit is given back only by the last reader
UnlockGiveRdIfAlone(t) ==
    /\ pc[t] = "un_rd"
    /\ rd_sem' = IF rd_sem = Limit - 1 THEN Limit ELSE rd_sem
    /\ GoTo(t, "un_count")
    /\ UNCHANGED <<handle, slot, wr_sem, reader_active, wr_owner, mode, reads>>

UnlockGiveRd(t) ==
    /\ pc[t] = "un_rd"
    /\ rd_sem' = Give(rd_sem, Limit)
    /\ GoTo(t, "un_count")
    /\ UNCHANGED <<handle, slot, wr_sem, reader_active, wr_owner, mode, reads>>

\* (mutant) the last reader is taken to see one permit missing
UnlockCountOffByOne(t) ==
    /\ pc[t] = "un_count"
    /\ IF rd_sem = Limit - 1
         THEN GoTo(t, "un_last")
         ELSE GoTo(t, "idle")
    /\ UNCHANGED <<handle, slot, object, mode, reads>>

UnlockCount(t) ==
    /\ pc[t] = "un_count"
    /\ IF rd_sem = Limit
         THEN GoTo(t, "un_last")
         ELSE GoTo(t, "idle")
    /\ UNCHANGED <<handle, slot, object, mode, reads>>

UnlockLast(t) ==
    /\ pc[t] = "un_last"
    /\ reader_active' = Give(reader_active, 1)
    /\ Return(t)
    /\ UNCHANGED <<handle, slot, rd_sem, wr_sem, wr_owner, reads>>

-----------------------------------------------------------------------------
Acquire(t) ==
    \/ ReadTakeWr(t) \/ ReadBusy(t) \/ ReadTakeActive(t) \/ ReadTakeRd(t) \/ ReadGiveWr(t)
    \/ WriteTakeWr(t) \/ WriteBusy(t) \/ WriteTakeActive(t) \/ WriteGiveUp(t) \/ WriteUndo(t)

Release(t) ==
    \/ UnlockGiveActive(t) \/ UnlockGiveWr(t)
    \/ UnlockGiveRd(t) \/ UnlockCount(t) \/ UnlockLast(t)

Thread(t) ==
    \/ CallRead(t) \/ CallWrite(t) \/ UnlockWrite(t) \/ UnlockRead(t)
    \/ Acquire(t) \/ Release(t)

Next == InitFails \/ InitLock \/ Destroy \/ \E t \in Threads : Thread(t)

Spec == Init /\ [][Next]_vars

(***************************************************************************)
(* A runnable thread runs (WF).  The wait queue of wr_sem is served in     *)
(* order, so a waiter is not passed over for ever by threads of its own    *)
(* priority (SF).  Clients sooner or later release what they hold (SF: a   *)
(* holder may make try calls in between).                                  *)
(***************************************************************************)
Fairness == \A t \in Threads :
    /\ WF_vars(Acquire(t) \/ Release(t))
    /\ SF_vars(ReadTakeWr(t) \/ WriteTakeWr(t))
    /\ SF_vars(UnlockWrite(t) \/ UnlockRead(t))

FairSpec == Spec /\ Fairness

-----------------------------------------------------------------------------
(* Properties *)

\* Every variable has its type.
TypeOK ==
    /\ handle \in {"initializer", "object"} /\ slot \in {"free", "used"}
    /\ rd_sem \in 0..Limit /\ wr_sem \in 0..1 /\ reader_active \in 0..1
    /\ wr_owner \in Threads \cup {NoThread}
    /\ pc \in [Threads -> {"idle"} \cup RdPC \cup WrPC \cup UnPC]
    /\ mode \in [Threads -> Modes]
    /\ reads \in [Threads -> Nat]

\* t took wr_sem and has not given it back.
HasWr(t) ==
    \/ pc[t] \in {"rd_active", "rd_rd", "rd_give", "wr_active", "wr_undo", "un_active", "un_wr"}
    \/ wr_owner = t

\* wr_sem is a token: it is missing exactly while one thread has it, so there
\* is never a second writer, nor a reader half-way into the lock beside one.
WrSemIsToken ==
    /\ \A t, u \in Threads : HasWr(t) /\ HasWr(u) => t = u
    /\ Live => (wr_sem = 0 <=> \E t \in Threads : HasWr(t))

\* t is going to give reader_active, or took it to become a reader or writer.
OwesActive(t) ==
    \/ wr_owner = t
    \/ pc[t] \in {"rd_rd", "un_active", "un_count", "un_last"}

\* A missing reader_active that no reader's permit accounts for is always owed
\* by some thread: the writers waiting for it are never forgotten.
ActiveIsOwed ==
    Live /\ reader_active = 0 /\ rd_sem = Limit => \E t \in Threads : OwesActive(t)

\* t's read permits: one for each read lock it holds, and the one it has taken
\* for a lock not yet granted or has yet to give back.
HasRd(t) == reads[t] + IF pc[t] \in {"rd_give", "un_rd"} THEN 1 ELSE 0
Permits  == UNION {{t} \X (1..HasRd(t)) : t \in Threads}

\* Read permits are neither lost nor made: each is in rd_sem, held by a client,
\* or in the hands of a thread inside rdlock or unlock.
ReadPermitsConserved == Live => rd_sem + Cardinality(Permits) = Limit

\* No read lock is granted while a thread owns the lock for writing.
NoReadGrantUnderWriter ==
    [][\A t \in Threads : reads'[t] > reads[t] => wr_owner = NoThread]_vars

\* "Last read lock, unlock writer" (rwlock.c): a writer has the lock only when
\* no read lock is held.
WriterExcludesReaders ==
    \A t, u \in Threads : Writing(t) => ~Reading(u)

\* No reader is between its take of reader_active and its take of a permit while
\* another, which found all permits back, is about to give reader_active.
NoOvertaking == \A t, u \in Threads : ~(pc[t] = "un_last" /\ pc[u] = "rd_rd")

\* That is the only way to lose exclusion: where no reader overtakes the last
\* unlock, a writer has the lock only when no read lock is held.
ExcludesUnlessOvertaken == []NoOvertaking => []WriterExcludesReaders

\* Every call returns, when the clients release what they hold: no wakeup is
\* lost between the semaphores and no order of calls deadlocks.
EveryCallReturns == \A t \in Threads : ~Idle(t) ~> Idle(t)
=============================================================================
