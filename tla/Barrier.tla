------------------------------ MODULE Barrier -------------------------------
(***************************************************************************)
(* lib/posix/options/barriers/barrier.c.  pthread_barrier_wait holds the   *)
(* barrier's mutex except inside k_condvar_wait, so the code between two   *)
(* waits is one step.  A waiter woken by k_condvar_signal competes for the *)
(* mutex with threads that call pthread_barrier_wait again.                *)
(***************************************************************************)
EXTENDS Integers, FiniteSets

CONSTANTS
    Threads,
    Max,        \* bar->max, the count of pthread_barrier_init
    Rounds      \* bound: calls one thread makes

ASSUME ThreadsAssumption == IsFiniteSet(Threads)
ASSUME MaxAssumption     == Max \in Nat \ {0}
ASSUME RoundsAssumption  == Rounds \in Nat \ {0}

VARIABLES
    bar,        \* the pool object behind the handle: "none" or "live"
    count,      \* bar->count
    pc,         \* "idle", pending on the condition variable ("cond"), or
                \* woken and on the way to the mutex ("relock")
    calls,      \* calls each thread has made
    patient,    \* the clients' habit: see MayCall
    serials,    \* history: how many calls were the serial one
    cohort      \* history: serials when the thread's last call arrived

client == <<calls, patient>>
vars == <<bar, count, pc, client, serials, cohort>>

Inside == {t \in Threads : pc[t] # "idle"}

Init ==
    /\ bar = "none" /\ count = 0
    /\ pc = [t \in Threads |-> "idle"]
    /\ calls = [t \in Threads |-> 0]
    /\ patient \in {"yes", "no"}
    /\ serials = 0
    /\ cohort = [t \in Threads |-> 0]

\* Patient clients call again only when the whole cohort before has returned;
\* the others call again at once.
MayCall(t) ==
    /\ bar = "live" /\ pc[t] = "idle" /\ calls[t] < Rounds
    /\ patient = "yes" => \A u \in Inside : cohort[u] = serials

-----------------------------------------------------------------------------
\* pthread_barrier_init; the mutex and the condition variable of every object
\* of the pool are initialised at boot.
BarrierInit ==
    /\ bar = "none"
    /\ bar' = "live" /\ count' = 0
    /\ UNCHANGED <<pc, client, serials, cohort>>

\* pthread_barrier_destroy looks neither at the count nor at the waiters: it is
\* the client that destroys a barrier only when no call is under way.
BarrierDestroy ==
    /\ bar = "live" /\ Inside = {}
    /\ bar' = "none"
    /\ UNCHANGED <<count, pc, client, serials, cohort>>

-----------------------------------------------------------------------------
(* pthread_barrier_wait *)

\* (mutant) no signal at all
SignalNobody(p) == pc' = p

\* k_condvar_signal in the state p: one waiter, if any, is made ready.
Signal(p) ==
    \/ \E t \in Threads : p[t] = "cond" /\ pc' = [p EXCEPT ![t] = "relock"]
    \/ (\A t \in Threads : p[t] # "cond") /\ pc' = p

\* A call that is not the last of its cohort: wait until count is 0.
ArriveAndWait(t) ==
    /\ MayCall(t)
    /\ count + 1 # Max
    /\ count' = count + 1
    /\ pc' = [pc EXCEPT ![t] = "cond"]
    /\ calls' = [calls EXCEPT ![t] = @ + 1]
    /\ cohort' = [cohort EXCEPT ![t] = serials]
    /\ UNCHANGED <<bar, patient, serials>>

\* (mutant) the last call of a cohort does not reset the count
ArriveLastNoReset(t) ==
    /\ MayCall(t)
    /\ count + 1 = Max
    /\ count' = count + 1
    /\ Signal(pc)
    /\ calls' = [calls EXCEPT ![t] = @ + 1]
    /\ cohort' = [cohort EXCEPT ![t] = serials]
    /\ serials' = serials + 1
    /\ UNCHANGED <<bar, patient>>

\* The last one resets the count, signals and returns.
ArriveLast(t) ==
    /\ MayCall(t)
    /\ count + 1 = Max
    /\ count' = 0
    /\ Signal(pc)
    /\ calls' = [calls EXCEPT ![t] = @ + 1]
    /\ cohort' = [cohort EXCEPT ![t] = serials]
    /\ serials' = serials + 1
    /\ UNCHANGED <<bar, patient>>

\* A woken waiter has the mutex back and finds the count at 0: it returns and
\* wakes the next.
Return(t) ==
    /\ pc[t] = "relock" /\ count = 0
    /\ Signal([pc EXCEPT ![t] = "idle"])
    /\ UNCHANGED <<bar, count, client, serials, cohort>>

\* (mutant) the waiter does not look at the count again
ReturnUnchecked(t) ==
    /\ pc[t] = "relock" /\ count # 0
    /\ Signal([pc EXCEPT ![t] = "idle"])
    /\ UNCHANGED <<bar, count, client, serials, cohort>>

\* It finds the next cohort gathering and waits on.
WaitOn(t) ==
    /\ pc[t] = "relock" /\ count # 0
    /\ pc' = [pc EXCEPT ![t] = "cond"]
    /\ UNCHANGED <<bar, count, client, serials, cohort>>

Woken(t) == Return(t) \/ WaitOn(t)
Next ==
    \/ BarrierInit \/ BarrierDestroy
    \/ \E t \in Threads : ArriveAndWait(t) \/ ArriveLast(t) \/ Woken(t)
Spec == Init /\ [][Next]_vars

\* A woken thread gets the mutex sooner or later; clients need not call.
FairSpec == Spec /\ \A t \in Threads : WF_vars(Woken(t))

-----------------------------------------------------------------------------
(* Properties *)

\* Every variable has its type.
TypeOK ==
    /\ bar \in {"none", "live"}
    /\ count \in 0..(Max - 1)
    /\ pc \in [Threads -> {"idle", "cond", "relock"}]
    /\ calls \in [Threads -> Nat]
    /\ patient \in {"yes", "no"}
    /\ serials \in Nat
    /\ cohort \in [Threads -> Nat]

Gathering == {t \in Inside : cohort[t] = serials}

\* bar->count is the number of threads of the gathering cohort that wait,
\* however many of earlier cohorts have not yet left.
CountIsGathering == count = Cardinality(Gathering)

\* The call's cohort is complete: Max threads have called.
Due(t) == t \in Inside /\ cohort[t] < serials

\* Nobody passes early: a call returns only when Max threads of its cohort have
\* called, as the abstract barrier says.
Abs == INSTANCE BarrierSpec WITH complete <- serials, present <- count, inside <- Inside
ImplementsBarrier == Abs!Spec

\* Clients that let a cohort drain before they call again are all released.
PatientClientsReturn == \A t \in Threads : patient = "yes" /\ Due(t) ~> t \notin Inside

\* "Blocks until count threads have called this function on the same barrier"
\* (pthread.h): when they have, every one of them returns.
DueCallsReturn == \A t \in Threads : Due(t) ~> ~Due(t)
=============================================================================
