---------------------------- MODULE BarrierSpec -----------------------------
(***************************************************************************)
(* What pthread_barrier_wait promises (include/zephyr/posix/pthread.h): it *)
(* blocks until Max threads have called it.  The callers are numbered off  *)
(* in cohorts of Max; the last of a cohort is the serial thread.           *)
(***************************************************************************)
EXTENDS Integers

CONSTANTS Threads, Max

VARIABLES
    complete,   \* the number of complete cohorts
    present,    \* the callers of the cohort that is still gathering
    inside,     \* the threads whose call has not returned
    cohort      \* the cohort of each thread's last call, counted from 0

vars == <<complete, present, inside, cohort>>

Init ==
    /\ complete = 0 /\ present = 0 /\ inside = {}
    /\ cohort = [t \in Threads |-> 0]

Gather(t) ==
    /\ t \notin inside /\ present + 1 < Max
    /\ present' = present + 1
    /\ inside' = inside \cup {t}
    /\ cohort' = [cohort EXCEPT ![t] = complete]
    /\ UNCHANGED complete

\* PTHREAD_BARRIER_SERIAL_THREAD
Serial(t) ==
    /\ t \notin inside /\ present + 1 = Max
    /\ present' = 0
    /\ complete' = complete + 1
    /\ cohort' = [cohort EXCEPT ![t] = complete]
    /\ UNCHANGED inside

\* A call returns only when its cohort is complete.
Leave(t) ==
    /\ t \in inside /\ cohort[t] < complete
    /\ inside' = inside \ {t}
    /\ UNCHANGED <<complete, present, cohort>>

Next == \E t \in Threads : Gather(t) \/ Serial(t) \/ Leave(t)
Spec == Init /\ [][Next]_vars
=============================================================================
