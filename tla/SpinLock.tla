------------------------------ MODULE SpinLock ------------------------------
(***************************************************************************)
(* lib/posix/options/spin_locks/spinlock.c: spin locks are words of a pool. *)
(* A handle is looked up under posix_spin_lock and the word is changed      *)
(* after that lock is released.                                             *)
(***************************************************************************)
EXTENDS Integers, FiniteSets

CONSTANTS
    Threads,
    SpinObjs,   \* the words of posix_spin_pool
    SpinVars,   \* the program's variables of type pthread_spinlock_t
    NULL

VARIABLES
    spinPool,   \* the words allocated
    spinWord,   \* what each word holds
    spinVar,    \* the handle in each variable
    spinCall,   \* where each thread is: the call, and the word it looked up
    spinHeld    \* the pairs <<thread, word>> of locks granted and not released

spinVars == <<spinPool, spinWord, spinVar, spinCall, spinHeld>>

SpinIdle == [pc |-> "idle", obj |-> NULL]

Init ==
    /\ spinPool = {}
    /\ spinWord \in [SpinObjs -> {0}]
    /\ spinVar = [v \in SpinVars |-> NULL]
    /\ spinCall = [t \in Threads |-> SpinIdle]
    /\ spinHeld = {}

At(t, l) == spinCall[t].pc = l
Return(t) == spinCall' = [spinCall EXCEPT ![t] = SpinIdle]

\* pthread_spin_init: ENOMEM when the pool is used up.
SpinInit(t, v) == \E o \in SpinObjs \ spinPool :
    /\ At(t, "idle")
    /\ spinPool' = spinPool \cup {o}
    /\ spinWord' = [spinWord EXCEPT ![o] = 0]
    /\ spinVar' = [spinVar EXCEPT ![v] = o]
    /\ UNCHANGED <<spinCall, spinHeld>>

\* The program destroys a lock that nobody holds or is calling on.
Unused(o) == \A t \in Threads : spinCall[t].obj # o /\ <<t, o>> \notin spinHeld

\* pthread_spin_destroy; the handle stays in the variable.
SpinDestroy(t, v) ==
    /\ At(t, "idle")
    /\ spinVar[v] \in spinPool
    /\ Unused(spinVar[v])
    /\ spinPool' = spinPool \ {spinVar[v]}
    /\ UNCHANGED <<spinWord, spinVar, spinCall, spinHeld>>

\* posix_get_pool_obj_unlocked under posix_spin_lock, for a lock, a trylock or
\* an unlock: EINVAL for a handle that is not in the pool.  Only a holder unlocks, and
\* it does not spin on its own lock.
SpinLookup(t, v, op) ==
    /\ At(t, "idle")
    /\ spinVar[v] \in spinPool
    /\ op # "try" => (op = "unlock" <=> <<t, spinVar[v]>> \in spinHeld)
    /\ spinCall' = [spinCall EXCEPT ![t] = [pc |-> op, obj |-> spinVar[v]]]
    /\ UNCHANGED <<spinPool, spinWord, spinVar, spinHeld>>

\* (mutant) the word is set whatever it was
SpinCasBlind(t) ==
    /\ spinCall[t].pc \in {"lock", "try"}
    /\ spinWord' = [spinWord EXCEPT ![spinCall[t].obj] = 1]
    /\ spinHeld' = spinHeld \cup {<<t, spinCall[t].obj>>}
    /\ Return(t)
    /\ UNCHANGED <<spinPool, spinVar>>

\* atomic_cas(l, 0, 1): granted, EBUSY for a trylock; a lock spins.
SpinCas(t) ==
    /\ spinCall[t].pc \in {"lock", "try"}
    /\ IF spinWord[spinCall[t].obj] = 0
         THEN /\ spinWord' = [spinWord EXCEPT ![spinCall[t].obj] = 1]
              /\ spinHeld' = spinHeld \cup {<<t, spinCall[t].obj>>}
         ELSE At(t, "try") /\ UNCHANGED <<spinWord, spinHeld>>
    /\ Return(t)
    /\ UNCHANGED <<spinPool, spinVar>>

\* atomic_cas(l, 1, 0); what it found is not looked at.
SpinRelease(t) ==
    /\ At(t, "unlock")
    /\ spinWord' = [spinWord EXCEPT ![spinCall[t].obj] = 0]
    /\ spinHeld' = spinHeld \ {<<t, spinCall[t].obj>>}
    /\ Return(t)
    /\ UNCHANGED <<spinPool, spinVar>>

Next == \E t \in Threads :
    \/ \E v \in SpinVars : SpinInit(t, v) \/ SpinDestroy(t, v)
    \/ \E v \in SpinVars, op \in {"lock", "try", "unlock"} : SpinLookup(t, v, op)
    \/ SpinCas(t) \/ SpinRelease(t)

Spec == Init /\ [][Next]_spinVars

-----------------------------------------------------------------------------
\* Between the lookup and the compare-and-swap the word belongs to no lock
\* (pthread_spin_lock_common, l.80-95): all the same one thread at a time has a
\* lock, through whichever variables, its word is allocated and says so, and no
\* call touches a word that was given back, if locks are destroyed unused.
SpinExclusion ==
    /\ \A t \in Threads, o \in SpinObjs : <<t, o>> \in spinHeld =>
          /\ o \in spinPool /\ spinWord[o] = 1
          /\ \A u \in Threads : <<u, o>> \in spinHeld => u = t
    /\ \A t \in Threads : ~At(t, "idle") => spinCall[t].obj \in spinPool
=============================================================================
