--------------------------- MODULE BarrierProofs ----------------------------
(***************************************************************************)
(* For any number of threads and any barrier count, barrier.c lets nobody  *)
(* pass early: it implements BarrierSpec.  (That everybody who is due gets *)
(* out is another matter: see DueCallsReturn in Barrier.)                  *)
(***************************************************************************)
EXTENDS Barrier, FiniteSetTheorems, TLAPS

\* No call is ahead of the gathering cohort.
CohortsPassed == \A t \in Threads : cohort[t] <= serials

\* Nobody is inside a barrier that does not exist.
DeadIsEmpty == bar = "none" => Inside = {}

\* A waiter leaves when it sees count = 0; that this means "not of the
\* gathering cohort" is CountIsGathering.
IInv == TypeOK /\ CountIsGathering /\ CohortsPassed /\ DeadIsEmpty

USE MaxAssumption, RoundsAssumption

LEMMA GatheringFinite ==
  IsFiniteSet(Gathering) /\ Cardinality(Gathering) \in Nat
  <1>1. Gathering \in SUBSET Threads  BY DEF Gathering, Inside
  <1> QED  BY <1>1, ThreadsAssumption, FS_Subset, FS_CardinalityType

\* A signal only moves a waiter towards the mutex.
LEMMA SignalKeeps ==
  ASSUME NEW p \in [Threads -> {"idle", "cond", "relock"}], Signal(p)
  PROVE  /\ pc' \in [Threads -> {"idle", "cond", "relock"}]
         /\ \A t \in Threads : pc'[t] = "idle" <=> p[t] = "idle"
  BY DEF Signal

LEMMA InitIInv == Init => IInv
  <1> SUFFICES ASSUME Init PROVE IInv  OBVIOUS
  <1>1. Gathering = {}  BY DEF Init, Gathering, Inside
  <1>2. CountIsGathering  BY <1>1, FS_EmptySet DEF Init, CountIsGathering
  <1> QED  BY <1>2 DEF Init, IInv, TypeOK, CohortsPassed, DeadIsEmpty, Inside

LEMMA ArriveAndWaitStep ==
  ASSUME IInv, NEW t \in Threads, ArriveAndWait(t)
  PROVE  IInv' /\ Abs!Gather(t)
  <1> USE DEF IInv, ArriveAndWait, MayCall, TypeOK
  <1>1. Inside' = Inside \cup {t} /\ t \notin Inside  BY DEF Inside
  <1>2. Gathering' = Gathering \cup {t} /\ t \notin Gathering  BY <1>1 DEF Gathering, Inside
  <1>3. Cardinality(Gathering \cup {t}) = Cardinality(Gathering) + 1
    BY <1>2, GatheringFinite, FS_AddElement
  <1>4. CountIsGathering'  BY <1>2, <1>3 DEF CountIsGathering
  <1>5. TypeOK' /\ CohortsPassed' /\ DeadIsEmpty'  BY DEF CohortsPassed, DeadIsEmpty
  <1>6. Abs!Gather(t)  BY <1>1 DEF Abs!Gather
  <1> QED  BY <1>4, <1>5, <1>6

LEMMA ArriveLastStep ==
  ASSUME IInv, NEW t \in Threads, ArriveLast(t)
  PROVE  IInv' /\ Abs!Serial(t)
  <1> USE DEF IInv, ArriveLast, MayCall, TypeOK
  <1>1. pc' \in [Threads -> {"idle", "cond", "relock"}] /\ Inside' = Inside
    BY SignalKeeps DEF Inside
  <1>2. Gathering' = {}  BY <1>1 DEF Gathering, CohortsPassed, Inside
  <1>3. CountIsGathering'  BY <1>2, FS_EmptySet DEF CountIsGathering
  <1>4. TypeOK'
    <2>1. count' \in 0..(Max - 1)  OBVIOUS
    <2>2. cohort' \in [Threads -> Nat] /\ serials' \in Nat  OBVIOUS
    <2>3. calls' \in [Threads -> Nat] /\ bar' = bar /\ patient' = patient  OBVIOUS
    <2> QED  BY <1>1, <2>1, <2>2, <2>3
  <1>6. CohortsPassed' /\ DeadIsEmpty'  BY <1>1 DEF CohortsPassed, DeadIsEmpty
  <1>5. Abs!Serial(t)  BY <1>1 DEF Abs!Serial, Inside
  <1> QED  BY <1>3, <1>4, <1>5, <1>6

\* The heart of the matter: a count of 0 means that nobody inside belongs to
\* the gathering cohort, so the thread that leaves is due.
LEMMA ReturnStep ==
  ASSUME IInv, NEW t \in Threads, Return(t)
  PROVE  IInv' /\ Abs!Leave(t)
  <1> USE DEF IInv, Return, client
  <1> DEFINE p == [pc EXCEPT ![t] = "idle"]
  <1>1. p \in [Threads -> {"idle", "cond", "relock"}]  BY DEF TypeOK
  <1>2. pc' \in [Threads -> {"idle", "cond", "relock"}] /\ Inside' = Inside \ {t}
    BY <1>1, SignalKeeps DEF Inside, TypeOK
  <1>3. Gathering = {}  BY GatheringFinite, FS_EmptySet DEF CountIsGathering
  <1>4. Gathering' = {}  BY <1>2, <1>3 DEF Gathering
  <1>5. CountIsGathering'  BY <1>4, FS_EmptySet DEF CountIsGathering
  <1>6. TypeOK' /\ CohortsPassed' /\ DeadIsEmpty'
    BY <1>2 DEF CohortsPassed, TypeOK, DeadIsEmpty
  <1>7. t \in Inside /\ cohort[t] < serials
    BY <1>3 DEF Gathering, Inside, CohortsPassed, TypeOK
  <1>8. Abs!Leave(t)  BY <1>2, <1>7 DEF Abs!Leave
  <1> QED  BY <1>5, <1>6, <1>8

LEMMA QuietStep ==
  ASSUME IInv, BarrierInit \/ BarrierDestroy \/ (\E t \in Threads : WaitOn(t)) \/ UNCHANGED vars
  PROVE  IInv' /\ UNCHANGED Abs!vars
  <1> USE DEF IInv, client
  <1>1. Inside' = Inside /\ UNCHANGED <<serials, cohort>>
    BY DEF BarrierInit, BarrierDestroy, WaitOn, vars, TypeOK, Inside
  <1>2. Gathering' = Gathering  BY <1>1 DEF Gathering
  <1>3. bar = "none" => count = 0
    BY FS_EmptySet DEF DeadIsEmpty, CountIsGathering, Gathering
  <1>4. count' = count  BY <1>3 DEF BarrierInit, BarrierDestroy, WaitOn, vars
  <1>5. TypeOK' /\ CohortsPassed'
    BY <1>1, <1>4 DEF BarrierInit, BarrierDestroy, WaitOn, vars, TypeOK, CohortsPassed
  <1>6. DeadIsEmpty'
    BY <1>1 DEF BarrierInit, BarrierDestroy, WaitOn, vars, DeadIsEmpty
  <1> QED  BY <1>1, <1>2, <1>4, <1>5, <1>6 DEF CountIsGathering, Abs!vars

LEMMA StepIInv ==
  ASSUME IInv, [Next]_vars
  PROVE  IInv' /\ [Abs!Next]_(Abs!vars)
  BY ArriveAndWaitStep, ArriveLastStep, ReturnStep, QuietStep DEF Next, Woken, Abs!Next

\* The inductive invariant holds in every state of the barrier.
THEOREM Invariance == Spec => []IInv
  <1> QED  BY InitIInv, StepIInv, PTL DEF Spec

\* The count of the barrier is exact, however calls of successive rounds mix.
THEOREM CountCorrect == Spec => []CountIsGathering
  <1>1. IInv => CountIsGathering  BY DEF IInv
  <1> QED  BY <1>1, Invariance, PTL

\* barrier.c implements the abstract barrier: no call returns before Max
\* threads of its cohort have called, whatever the clients do.
THEOREM Refinement == Spec => ImplementsBarrier
  <1>1. Init => Abs!Init  BY DEF Init, Abs!Init, Inside
  <1> QED  BY <1>1, StepIInv, Invariance, PTL DEF Spec, ImplementsBarrier, Abs!Spec
=============================================================================
