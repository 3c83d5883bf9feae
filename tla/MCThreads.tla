------------------------------ MODULE MCThreads -----------------------------
(***************************************************************************)
(* Mutexes and condition variables, spin locks, timers, and threads with   *)
(* their attributes: four parts that share no state, checked in one run.   *)
(* The first state says which of them moves.                               *)
(***************************************************************************)
EXTENDS StaticSync, TLC

CONSTANTS SpinObjs, SpinVars, Workers, TimerObjs, MaxOverrun,
          Slots, NumCoop, NumPreempt, StackMin, StackSize, NumCpus

VARIABLES part, spinPool, spinWord, spinVar, spinCall, spinHeld,
          timer, worker, tcall, due, bystander, manner,
          attr, pth, level, order

\* Zephyr has at least one priority; the other constants are sizes.  A null
\* handle is no object's.
ASSUME ThreadsAssumption ==
    /\ NumCoop \in Nat /\ NumPreempt \in Nat
    /\ StackMin \in Nat /\ StackSize \in Nat
    /\ NumCoop + NumPreempt > 0
    /\ NULL \notin Workers \cup TimerObjs

Spin == INSTANCE SpinLock
Tmr == INSTANCE Timer
Pth == INSTANCE Pthread

ofSpin == <<spinPool, spinWord, spinVar, spinCall, spinHeld>>
ofTimer == <<timer, worker, tcall, due, bystander, manner>>
ofPthread == <<attr, pth, level, order>>
AllVars == <<vars, ofSpin, ofTimer, ofPthread, part>>

MCInit ==
    /\ part \in {"sync", "spin", "timer", "threads"}
    /\ Init /\ (part # "sync" => habit = "warm")
    /\ Spin!Init
    /\ Tmr!Init /\ (part # "timer" => manner = "calm")
    /\ Pth!Init /\ (part # "threads" => order = "free")

MCNext ==
    \/ part = "sync" /\ Next /\ UNCHANGED <<part, ofSpin, ofTimer, ofPthread>>
    \/ part = "spin" /\ Spin!Next /\ UNCHANGED <<part, vars, ofTimer, ofPthread>>
    \/ part = "timer" /\ Tmr!Next /\ UNCHANGED <<part, vars, ofSpin, ofPthread>>
    \/ part = "threads" /\ Pth!Next /\ UNCHANGED <<part, vars, ofSpin, ofTimer>>

MCSpec == MCInit /\ [][MCNext]_AllVars

\* The parts share model values, which keeps the group of permutations small:
\* MObjs and SpinObjs are one set, CObjs and Workers another.
Symmetry == Permutations(Threads) \cup Permutations(MObjs) \cup Permutations(CObjs)
    \cup Permutations(TimerObjs)

SpinExclusion == Spin!SpinExclusion
CalmTimersNotify == Tmr!CalmTimersNotify
CalmThreadsKeepTheirTimer == Tmr!CalmThreadsKeepTheirTimer
PrioritiesReadBack == Pth!PrioritiesReadBack
ThreadsEndAsAsked == Pth!ThreadsEndAsAsked
=============================================================================
