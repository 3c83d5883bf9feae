---------------------------- MODULE RwLockProofs ----------------------------
(***************************************************************************)
(* What rwlock.c guarantees for any number of threads and any reader       *)
(* limit.  (That a writer excludes the readers is not among it: see        *)
(* WriterExcludesReaders in RwLock.)                                       *)
(***************************************************************************)
EXTENDS RwLock, FiniteSetTheorems, TLAPS

\* No thread is inside a call or owns the lock while there is no object.
DeadIsUnused ==
    ~Live => wr_owner = NoThread /\ \A t \in Threads : Idle(t)

\* The owner is in the client, or waits for wr_sem in a call that cannot succeed.
OwnerIsOutside ==
    \A t \in Threads : wr_owner = t => pc[t] \in {"idle", "rd_wr", "wr_wr"}

\* The inductive invariant: wr_sem is a token because its taker finds it there,
\* and the owner keeps it from UnlockWrite to UnlockGiveWr.
IInv == TypeOK /\ WrSemIsToken /\ ActiveIsOwed /\ DeadIsUnused /\ OwnerIsOutside

USE ThreadsAssumption, LimitAssumption, ReadsAssumption

LEMMA InitIInv == Init => IInv
  <1> SUFFICES ASSUME Init PROVE IInv  OBVIOUS
  <1> USE DEF Init, Idle, Live
  <1>1. TypeOK  BY DEF TypeOK, Modes
  <1>2. \A t \in Threads : ~HasWr(t)  BY DEF HasWr
  <1>3. WrSemIsToken  BY <1>2 DEF WrSemIsToken
  <1>4. ActiveIsOwed /\ DeadIsUnused /\ OwnerIsOutside
    BY DEF ActiveIsOwed, DeadIsUnused, OwnerIsOutside
  <1> QED  BY <1>1, <1>3, <1>4 DEF IInv

\* One thread's step keeps the variables' types.
LEMMA ThreadType ==
  ASSUME NEW t \in Threads, TypeOK, Thread(t)
  PROVE  TypeOK'
  <1> USE DEF TypeOK, GoTo, Return, Give, TakeNoWait, object, RdPC, WrPC, UnPC, Modes, Idle
  <1>1. CASE CallRead(t)  BY <1>1 DEF CallRead
  <1>2. CASE CallWrite(t)  BY <1>2 DEF CallWrite
  <1>3. CASE UnlockWrite(t)  BY <1>3 DEF UnlockWrite, Writing
  <1>4. CASE UnlockRead(t)  BY <1>4 DEF UnlockRead, Reading
  <1>5. CASE ReadTakeWr(t)  BY <1>5 DEF ReadTakeWr
  <1>6. CASE ReadBusy(t)  BY <1>6 DEF ReadBusy
  <1>7. CASE ReadTakeActive(t)  BY <1>7 DEF ReadTakeActive
  <1>8. CASE ReadTakeRd(t)  BY <1>8 DEF ReadTakeRd
  <1>9. CASE ReadGiveWr(t)  BY <1>9 DEF ReadGiveWr
  <1>10. CASE WriteTakeWr(t)  BY <1>10 DEF WriteTakeWr
  <1>11. CASE WriteBusy(t)  BY <1>11 DEF WriteBusy
  <1>12. CASE WriteTakeActive(t)  BY <1>12 DEF WriteTakeActive
  <1>13. CASE WriteGiveUp(t)  BY <1>13 DEF WriteGiveUp
  <1>14. CASE WriteUndo(t)  BY <1>14 DEF WriteUndo
  <1>15. CASE UnlockGiveActive(t)  BY <1>15 DEF UnlockGiveActive
  <1>16. CASE UnlockGiveWr(t)  BY <1>16 DEF UnlockGiveWr
  <1>17. CASE UnlockGiveRd(t)  BY <1>17 DEF UnlockGiveRd
  <1>18. CASE UnlockCount(t)  BY <1>18 DEF UnlockCount
  <1>19. CASE UnlockLast(t)  BY <1>19 DEF UnlockLast
  <1> QED
    BY <1>1, <1>2, <1>3, <1>4, <1>5, <1>6, <1>7, <1>8, <1>9, <1>10, <1>11, <1>12, <1>13,
       <1>14, <1>15, <1>16, <1>17, <1>18, <1>19 DEF Thread, Acquire, Release

\* One thread's step moves only that thread: the others keep their place.
LEMMA ThreadMoves ==
  ASSUME NEW t \in Threads, IInv, Thread(t)
  PROVE  /\ UNCHANGED slot /\ Live
         /\ \A u \in Threads \ {t} : pc'[u] = pc[u]
         /\ wr_owner' = wr_owner \/ (wr_owner = t /\ wr_owner' = NoThread)
              \/ (wr_owner = NoThread /\ wr_owner' = t)
  <1> USE DEF IInv, TypeOK, DeadIsUnused, Idle, GoTo, Return, object, Live, Found
  <1>1. CASE CallRead(t)  BY <1>1 DEF CallRead
  <1>2. CASE CallWrite(t)  BY <1>2 DEF CallWrite
  <1>3. CASE UnlockWrite(t)  BY <1>3 DEF UnlockWrite, Writing
  <1>4. CASE UnlockRead(t)  BY <1>4 DEF UnlockRead, Reading
  <1>5. CASE ReadTakeWr(t)  BY <1>5 DEF ReadTakeWr
  <1>6. CASE ReadBusy(t)  BY <1>6 DEF ReadBusy
  <1>7. CASE ReadTakeActive(t)  BY <1>7 DEF ReadTakeActive
  <1>8. CASE ReadTakeRd(t)  BY <1>8 DEF ReadTakeRd
  <1>9. CASE ReadGiveWr(t)  BY <1>9 DEF ReadGiveWr
  <1>10. CASE WriteTakeWr(t)  BY <1>10 DEF WriteTakeWr
  <1>11. CASE WriteBusy(t)  BY <1>11 DEF WriteBusy
  <1>12. CASE WriteTakeActive(t)
    BY <1>12 DEF WriteTakeActive, WrSemIsToken, HasWr, OwnerIsOutside
  <1>13. CASE WriteGiveUp(t)  BY <1>13 DEF WriteGiveUp
  <1>14. CASE WriteUndo(t)  BY <1>14 DEF WriteUndo
  <1>15. CASE UnlockGiveActive(t)  BY <1>15 DEF UnlockGiveActive
  <1>16. CASE UnlockGiveWr(t)  BY <1>16 DEF UnlockGiveWr
  <1>17. CASE UnlockGiveRd(t)  BY <1>17 DEF UnlockGiveRd
  <1>18. CASE UnlockCount(t)  BY <1>18 DEF UnlockCount
  <1>19. CASE UnlockLast(t)  BY <1>19 DEF UnlockLast
  <1> QED
    BY <1>1, <1>2, <1>3, <1>4, <1>5, <1>6, <1>7, <1>8, <1>9, <1>10, <1>11, <1>12, <1>13,
       <1>14, <1>15, <1>16, <1>17, <1>18, <1>19 DEF Thread, Acquire, Release

\* wr_sem stays a token.
LEMMA ThreadToken ==
  ASSUME NEW t \in Threads, IInv, Thread(t)
  PROVE  WrSemIsToken' /\ OwnerIsOutside'
  <1> USE DEF IInv, TypeOK, WrSemIsToken, OwnerIsOutside, HasWr, GoTo, Return, Give, object,
              Live, Idle
  <1>1. CASE CallRead(t)  BY <1>1 DEF CallRead
  <1>2. CASE CallWrite(t)  BY <1>2 DEF CallWrite
  <1>3. CASE UnlockWrite(t)  BY <1>3 DEF UnlockWrite, Writing
  <1>4. CASE UnlockRead(t)  BY <1>4 DEF UnlockRead, Reading
  <1>5. CASE ReadTakeWr(t)  BY <1>5 DEF ReadTakeWr, DeadIsUnused
  <1>6. CASE ReadBusy(t)  BY <1>6 DEF ReadBusy
  <1>7. CASE ReadTakeActive(t)  BY <1>7 DEF ReadTakeActive
  <1>8. CASE ReadTakeRd(t)  BY <1>8 DEF ReadTakeRd
  <1>9. CASE ReadGiveWr(t)  BY <1>9 DEF ReadGiveWr
  <1>10. CASE WriteTakeWr(t)  BY <1>10 DEF WriteTakeWr, DeadIsUnused
  <1>11. CASE WriteBusy(t)  BY <1>11 DEF WriteBusy
  <1>12. CASE WriteTakeActive(t)  BY <1>12 DEF WriteTakeActive
  <1>13. CASE WriteGiveUp(t)  BY <1>13 DEF WriteGiveUp
  <1>14. CASE WriteUndo(t)  BY <1>14 DEF WriteUndo
  <1>15. CASE UnlockGiveActive(t)  BY <1>15 DEF UnlockGiveActive
  <1>16. CASE UnlockGiveWr(t)  BY <1>16 DEF UnlockGiveWr
  <1>17. CASE UnlockGiveRd(t)  BY <1>17 DEF UnlockGiveRd
  <1>18. CASE UnlockCount(t)  BY <1>18 DEF UnlockCount
  <1>19. CASE UnlockLast(t)  BY <1>19 DEF UnlockLast
  <1> QED
    BY <1>1, <1>2, <1>3, <1>4, <1>5, <1>6, <1>7, <1>8, <1>9, <1>10, <1>11, <1>12, <1>13,
       <1>14, <1>15, <1>16, <1>17, <1>18, <1>19 DEF Thread, Acquire, Release

\* A missing reader_active stays owed.
LEMMA ThreadOwed ==
  ASSUME NEW t \in Threads, IInv, Thread(t)
  PROVE  ActiveIsOwed'
  <1> USE DEF IInv, TypeOK, ActiveIsOwed, OwnerIsOutside, OwesActive, GoTo, Return, Give,
              TakeNoWait, object, Live, Idle
  <1>1. CASE CallRead(t)  BY <1>1 DEF CallRead
  <1>2. CASE CallWrite(t)  BY <1>2 DEF CallWrite
  <1>3. CASE UnlockWrite(t)  BY <1>3 DEF UnlockWrite, Writing
  <1>4. CASE UnlockRead(t)  BY <1>4 DEF UnlockRead, Reading
  <1>5. CASE ReadTakeWr(t)  BY <1>5 DEF ReadTakeWr
  <1>6. CASE ReadBusy(t)  BY <1>6 DEF ReadBusy
  <1>7. CASE ReadTakeActive(t)  BY <1>7 DEF ReadTakeActive
  <1>8. CASE ReadTakeRd(t)  BY <1>8 DEF ReadTakeRd
  <1>9. CASE ReadGiveWr(t)  BY <1>9 DEF ReadGiveWr
  <1>10. CASE WriteTakeWr(t)  BY <1>10 DEF WriteTakeWr
  <1>11. CASE WriteBusy(t)  BY <1>11 DEF WriteBusy
  <1>12. CASE WriteTakeActive(t)  BY <1>12 DEF WriteTakeActive
  <1>13. CASE WriteGiveUp(t)  BY <1>13 DEF WriteGiveUp
  <1>14. CASE WriteUndo(t)  BY <1>14 DEF WriteUndo
  <1>15. CASE UnlockGiveActive(t)  BY <1>15 DEF UnlockGiveActive
  <1>16. CASE UnlockGiveWr(t)  BY <1>16 DEF UnlockGiveWr
  <1>17. CASE UnlockGiveRd(t)  BY <1>17 DEF UnlockGiveRd
  <1>18. CASE UnlockCount(t)  BY <1>18 DEF UnlockCount
  <1>19. CASE UnlockLast(t)  BY <1>19 DEF UnlockLast
  <1> QED
    BY <1>1, <1>2, <1>3, <1>4, <1>5, <1>6, <1>7, <1>8, <1>9, <1>10, <1>11, <1>12, <1>13,
       <1>14, <1>15, <1>16, <1>17, <1>18, <1>19 DEF Thread, Acquire, Release

LEMMA StepIInv == IInv /\ [Next]_vars => IInv'
  <1> SUFFICES ASSUME IInv, [Next]_vars PROVE IInv'  OBVIOUS
  <1>1. CASE UNCHANGED vars
    BY <1>1 DEF vars, object, IInv, TypeOK, WrSemIsToken, ActiveIsOwed, DeadIsUnused,
                OwnerIsOutside, HasWr, OwesActive, Idle, Live
  <1>2. CASE InitFails \/ Destroy
    BY <1>2 DEF InitFails, Destroy, Unused, object, IInv, TypeOK, WrSemIsToken, ActiveIsOwed,
                DeadIsUnused, OwnerIsOutside, HasWr, OwesActive, Idle, Live, Found
  <1>3. CASE InitLock
    BY <1>3 DEF InitLock, Unused, IInv, TypeOK, WrSemIsToken, ActiveIsOwed, DeadIsUnused,
                OwnerIsOutside, HasWr, OwesActive, Idle, Live
  <1>4. ASSUME NEW t \in Threads, Thread(t) PROVE IInv'
    <2>1. DeadIsUnused'  BY <1>4, ThreadMoves DEF DeadIsUnused, Live
    <2> QED  BY <1>4, <2>1, ThreadType, ThreadToken, ThreadOwed DEF IInv
  <1> QED  BY <1>1, <1>2, <1>3, <1>4 DEF Next

\* The inductive invariant holds in every state of the lock.
THEOREM Invariance == Spec => []IInv
  <1> QED  BY InitIInv, StepIInv, PTL DEF Spec

\* Every variable keeps its type: no semaphore exceeds its limit.
THEOREM TypeCorrect == Spec => []TypeOK
  <1>1. IInv => TypeOK  BY DEF IInv
  <1> QED  BY <1>1, Invariance, PTL

\* wr_sem is a token, whatever the number of threads: two threads are never
\* between a take of wr_sem and its give, so no two writers own the lock.
THEOREM TokenCorrect == Spec => []WrSemIsToken
  <1>1. IInv => WrSemIsToken  BY DEF IInv
  <1> QED  BY <1>1, Invariance, PTL

\* reader_active is never lost: when it is missing and every read permit is
\* back, some thread is still going to give it or is taking the lock.
THEOREM OwedCorrect == Spec => []ActiveIsOwed
  <1>1. IInv => ActiveIsOwed  BY DEF IInv
  <1> QED  BY <1>1, Invariance, PTL

\* No read lock is granted while a writer owns the lock.
THEOREM ReadGrantCorrect == Spec => NoReadGrantUnderWriter
  <1>1. ASSUME IInv, [Next]_vars
        PROVE  [\A t \in Threads : reads'[t] > reads[t] => wr_owner = NoThread]_vars
    <2> SUFFICES ASSUME NEW u \in Threads, reads'[u] > reads[u], Next
                 PROVE  wr_owner = NoThread
      BY <1>1
    <2> USE DEF IInv, TypeOK
    <2>1. PICK t \in Threads : Thread(t)
      BY <1>1 DEF Next, InitFails, InitLock, Destroy
    <2>2. ReadGiveWr(t)
      BY <1>1, <2>1 DEF Thread, Acquire, Release, CallRead, CallWrite, UnlockWrite, UnlockRead,
         ReadTakeWr, ReadBusy, ReadTakeActive, ReadTakeRd, WriteTakeWr, WriteBusy,
         WriteTakeActive, WriteGiveUp, WriteUndo, UnlockGiveActive, UnlockGiveWr, UnlockGiveRd,
         UnlockCount, UnlockLast
    <2> QED  BY <1>1, <2>2 DEF ReadGiveWr, WrSemIsToken, HasWr, OwnerIsOutside
  <1> QED  BY <1>1, Invariance, PTL DEF Spec, NoReadGrantUnderWriter

-----------------------------------------------------------------------------
(* Read permits.  The take of rd_sem ignores a failure, so permits are      *)
(* conserved only where it never fails: the threads fit the limit.          *)

\* rwlock.c has one permit for each thread there can be, and a spare one.
Room == IsFiniteSet(Threads) /\ Cardinality(Threads) * MaxReads <= Limit

\* A thread's read locks are bounded, also on the way in and out.
ReadsBounded == \A t \in Threads :
    /\ reads[t] <= MaxReads
    /\ pc[t] \in RdPC \cup {"un_rd"} => reads[t] < MaxReads

NoPermits == ~Live => \A t \in Threads : reads[t] = 0

\* What is inductive, beside IInv.
PInv == ReadsBounded /\ NoPermits /\ ReadPermitsConserved

LEMMA PermitsAre ==
  ASSUME TypeOK
  PROVE  /\ \A t \in Threads : HasRd(t) \in Nat
         /\ \A p : p \in Permits <=> \E t \in Threads : \E k \in 1..HasRd(t) : p = <<t, k>>
  BY DEF TypeOK, Permits, HasRd

\* The same in the next state.
LEMMA PermitsAreNext ==
  ASSUME TypeOK'
  PROVE  /\ \A t \in Threads : HasRd(t)' \in Nat
         /\ \A p : p \in Permits' <=> \E t \in Threads : \E k \in 1..HasRd(t)' : p = <<t, k>>
  BY DEF TypeOK, Permits, HasRd

\* A thread that has room for another permit leaves one in rd_sem.
LEMMA PermitsFit ==
  ASSUME TypeOK, ReadsBounded, Room
  PROVE  /\ IsFiniteSet(Permits) /\ Cardinality(Permits) \in Nat
         /\ \A t \in Threads : HasRd(t) < MaxReads => Cardinality(Permits) < Limit
  <1> DEFINE All == Threads \X (1..MaxReads)
  <1>1. IsFiniteSet(1..MaxReads) /\ Cardinality(1..MaxReads) = MaxReads  BY FS_Interval
  <1>2. IsFiniteSet(All) /\ Cardinality(All) = Cardinality(Threads) * MaxReads
    BY <1>1, FS_Product DEF Room
  <1>3. \A t \in Threads : HasRd(t) \in Nat /\ HasRd(t) <= MaxReads
    BY DEF TypeOK, ReadsBounded, HasRd, RdPC
  <1>4. Permits \subseteq All  BY <1>3, PermitsAre
  <1>5. IsFiniteSet(Permits) /\ Cardinality(Permits) <= Cardinality(All)
        /\ (Cardinality(All) = Cardinality(Permits) => All = Permits)
    BY <1>2, <1>4, FS_Subset
  <1>6. Cardinality(Permits) \in Nat /\ Cardinality(All) \in Nat
    BY <1>2, <1>5, FS_CardinalityType
  <1>7. ASSUME NEW t \in Threads, HasRd(t) < MaxReads PROVE Cardinality(Permits) < Limit
    <2>1. <<t, MaxReads>> \in All  OBVIOUS
    <2>2. <<t, MaxReads>> \notin Permits  BY <1>3, <1>7, PermitsAre
    <2>3. Cardinality(Permits) # Cardinality(All)  BY <1>5, <2>1, <2>2
    <2>4. Cardinality(All) <= Limit  BY <1>2 DEF Room
    <2> HIDE DEF All
    <2> QED  BY <1>5, <1>6, <2>3, <2>4
  <1> QED  BY <1>5, <1>6, <1>7

\* One thread's permits become one more, and nobody else's change.
LEMMA OneMore ==
  ASSUME TypeOK, TypeOK', IsFiniteSet(Permits), NEW t \in Threads,
         HasRd(t)' = HasRd(t) + 1, \A u \in Threads \ {t} : HasRd(u)' = HasRd(u)
  PROVE  Cardinality(Permits') = Cardinality(Permits) + 1
  <1>1. \A u \in Threads : HasRd(u) \in Nat  BY PermitsAre
  <1>2. \A p : p \in Permits' <=> \E u \in Threads : \E k \in 1..HasRd(u)' : p = <<u, k>>
    BY PermitsAreNext
  <1> DEFINE x == <<t, HasRd(t) + 1>>
  <1>3. x \notin Permits  BY <1>1, PermitsAre
  <1>4. ASSUME NEW p PROVE p \in Permits' <=> p \in Permits \cup {x}
    BY <1>1, <1>2, PermitsAre
  <1>5. Permits' = Permits \cup {x}  BY <1>4
  <1> QED  BY <1>3, <1>5, FS_AddElement
\* A thread's step takes one permit or gives one, or moves none.
Takes(t) == rd_sem' = TakeNoWait(rd_sem) /\ HasRd(t) < MaxReads /\ HasRd(t)' = HasRd(t) + 1
Gives(t) == rd_sem' = Give(rd_sem, Limit) /\ HasRd(t) = HasRd(t)' + 1
Keeps(t) == rd_sem' = rd_sem /\ HasRd(t)' = HasRd(t)

LEMMA ThreadPermits ==
  ASSUME NEW t \in Threads, TypeOK, ReadsBounded, Thread(t)
  PROVE  /\ Takes(t) \/ Gives(t) \/ Keeps(t)
         /\ \A u \in Threads \ {t} : HasRd(u)' = HasRd(u)
         /\ ReadsBounded'
  <1> USE DEF TypeOK, ReadsBounded, Takes, Gives, Keeps, HasRd, GoTo, Return, object, RdPC, Idle
  <1>1. CASE CallRead(t)  BY <1>1 DEF CallRead
  <1>2. CASE CallWrite(t)  BY <1>2 DEF CallWrite
  <1>3. CASE UnlockWrite(t)  BY <1>3 DEF UnlockWrite, Writing
  <1>4. CASE UnlockRead(t)  BY <1>4 DEF UnlockRead, Reading
  <1>5. CASE ReadTakeWr(t)  BY <1>5 DEF ReadTakeWr
  <1>6. CASE ReadBusy(t)  BY <1>6 DEF ReadBusy
  <1>7. CASE ReadTakeActive(t)  BY <1>7 DEF ReadTakeActive
  <1>8. CASE ReadTakeRd(t)  BY <1>8 DEF ReadTakeRd
  <1>9. CASE ReadGiveWr(t)  BY <1>9 DEF ReadGiveWr
  <1>10. CASE WriteTakeWr(t)  BY <1>10 DEF WriteTakeWr
  <1>11. CASE WriteBusy(t)  BY <1>11 DEF WriteBusy
  <1>12. CASE WriteTakeActive(t)  BY <1>12 DEF WriteTakeActive
  <1>13. CASE WriteGiveUp(t)  BY <1>13 DEF WriteGiveUp
  <1>14. CASE WriteUndo(t)  BY <1>14 DEF WriteUndo
  <1>15. CASE UnlockGiveActive(t)  BY <1>15 DEF UnlockGiveActive
  <1>16. CASE UnlockGiveWr(t)  BY <1>16 DEF UnlockGiveWr
  <1>17. CASE UnlockGiveRd(t)  BY <1>17 DEF UnlockGiveRd
  <1>18. CASE UnlockCount(t)  BY <1>18 DEF UnlockCount
  <1>19. CASE UnlockLast(t)  BY <1>19 DEF UnlockLast
  <1> QED
    BY <1>1, <1>2, <1>3, <1>4, <1>5, <1>6, <1>7, <1>8, <1>9, <1>10, <1>11, <1>12, <1>13,
       <1>14, <1>15, <1>16, <1>17, <1>18, <1>19 DEF Thread, Acquire, Release

\* One thread's permits become one fewer.
LEMMA OneFewer ==
  ASSUME TypeOK, TypeOK', IsFiniteSet(Permits), NEW t \in Threads,
         HasRd(t) = HasRd(t)' + 1, \A u \in Threads \ {t} : HasRd(u)' = HasRd(u)
  PROVE  Cardinality(Permits') = Cardinality(Permits) - 1 /\ Permits # {}
  <1>1. \A u \in Threads : HasRd(u) \in Nat /\ HasRd(u)' \in Nat  BY PermitsAre, PermitsAreNext
  <1>2. \A p : p \in Permits' <=> \E u \in Threads : \E k \in 1..HasRd(u)' : p = <<u, k>>
    BY PermitsAreNext
  <1> DEFINE x == <<t, HasRd(t)>>
  <1>3. x \in Permits  BY <1>1, PermitsAre
  <1>4. ASSUME NEW p PROVE p \in Permits' <=> p \in Permits \ {x}
    BY <1>1, <1>2, PermitsAre
  <1>5. Permits' = Permits \ {x}  BY <1>4
  <1> QED  BY <1>3, <1>5, FS_RemoveElement

LEMMA StepPInv ==
  ASSUME Room, IInv, IInv', PInv, [Next]_vars
  PROVE  PInv'
  <1>1. TypeOK /\ TypeOK'  BY DEF IInv
  <1>2. /\ IsFiniteSet(Permits) /\ Cardinality(Permits) \in Nat
        /\ \A t \in Threads : HasRd(t) < MaxReads => Cardinality(Permits) < Limit
    BY <1>1, PermitsFit DEF PInv
  <1>3. CASE InitFails \/ Destroy \/ UNCHANGED vars
    BY <1>3 DEF InitFails, Destroy, vars, object, PInv, ReadsBounded, NoPermits, Live, Unused,
                ReadPermitsConserved, Permits, HasRd, Idle
  <1>4. CASE InitLock
    <2>1. \A t \in Threads : HasRd(t)' = 0
      BY <1>1, <1>4 DEF InitLock, Unused, Idle, HasRd
    <2>2. Permits' = {}  BY <1>1, <2>1, PermitsAreNext
    <2>3. ReadPermitsConserved'  BY <1>4, <2>2, FS_EmptySet DEF InitLock, ReadPermitsConserved
    <2> QED  BY <1>4, <2>3 DEF InitLock, PInv, ReadsBounded, NoPermits, Live
  <1>5. ASSUME NEW t \in Threads, Thread(t) PROVE PInv'
    <2>1. Live /\ Live'  BY <1>5, ThreadMoves DEF Live
    <2>2. rd_sem + Cardinality(Permits) = Limit  BY <2>1 DEF PInv, ReadPermitsConserved
    <2>3. /\ Takes(t) \/ Gives(t) \/ Keeps(t)
          /\ \A u \in Threads \ {t} : HasRd(u)' = HasRd(u)
          /\ ReadsBounded'
      BY <1>1, <1>5, ThreadPermits DEF PInv
    <2>4. rd_sem \in Nat  BY <1>1 DEF TypeOK
    <2>5. rd_sem' + Cardinality(Permits') = Limit
      <3>1. CASE Takes(t)
        <4>1. Cardinality(Permits') = Cardinality(Permits) + 1
          BY <1>1, <1>2, <2>3, <3>1, OneMore DEF Takes
        <4>2. rd_sem > 0  BY <1>2, <2>2, <2>4, <3>1 DEF Takes
        <4> QED  BY <1>2, <2>2, <2>4, <3>1, <4>1, <4>2 DEF Takes, TakeNoWait
      <3>2. CASE Gives(t)
        <4>1. Cardinality(Permits') = Cardinality(Permits) - 1 /\ Permits # {}
          BY <1>1, <1>2, <2>3, <3>2, OneFewer DEF Gives
        <4>2. Cardinality(Permits) # 0  BY <1>2, <4>1, FS_EmptySet
        <4> QED  BY <1>2, <2>2, <2>4, <3>2, <4>1, <4>2 DEF Gives, Give
      <3>3. CASE Keeps(t)
        <4>1. \A u \in Threads : HasRd(u)' = HasRd(u)  BY <2>3, <3>3 DEF Keeps
        <4>2. \A p : p \in Permits' <=> p \in Permits
          BY <1>1, <4>1, PermitsAre, PermitsAreNext
        <4>3. Permits' = Permits  BY <4>2
        <4> QED  BY <2>2, <3>3, <4>3 DEF Keeps
      <3> QED  BY <2>3, <3>1, <3>2, <3>3
    <2> QED  BY <2>1, <2>3, <2>5 DEF PInv, NoPermits, ReadPermitsConserved
  <1> QED  BY <1>3, <1>4, <1>5 DEF Next

\* Read permits are conserved by every interleaving of rdlock and unlock, for any
\* number of threads whose read locks together stay within the limit.
THEOREM PermitsConserved ==
  ASSUME Room
  PROVE  Spec => []ReadPermitsConserved
  <1>1. Init => PInv
    BY DEF Init, PInv, ReadsBounded, NoPermits, ReadPermitsConserved, Live, RdPC
  <1>2. IInv /\ IInv' /\ PInv /\ [Next]_vars => PInv'  BY StepPInv
  <1>3. PInv => ReadPermitsConserved  BY DEF PInv
  <1> QED  BY <1>1, <1>2, <1>3, Invariance, PTL DEF Spec

-----------------------------------------------------------------------------
(* Exclusion.  It holds until a reader takes reader_active, in vain, between *)
(* the moment another finds all permits back and the moment it gives         *)
(* reader_active; the proof shows that there is no other way to lose it.     *)

\* t has a permit or is about to take one.
Inside(t) == HasRd(t) > 0 \/ pc[t] = "rd_rd"

\* Readers inside have reader_active, and nobody is about to give it back.
ReadersHoldActive == \A t, u \in Threads :
    Inside(u) => /\ reader_active = 0 /\ wr_owner = NoThread
                 /\ pc[t] \notin {"un_active", "un_last"}

\* The thread that finds all permits back leaves nobody with one.
LEMMA AllBack ==
  ASSUME TypeOK, Live, ReadPermitsConserved, ReadsBounded, Room, rd_sem = Limit
  PROVE  \A t \in Threads : HasRd(t) = 0
  <1>1. IsFiniteSet(Permits) /\ Cardinality(Permits) \in Nat  BY PermitsFit
  <1>2. Cardinality(Permits) = 0  BY <1>1 DEF ReadPermitsConserved
  <1>3. Permits = {}  BY <1>1, <1>2, FS_EmptySet
  <1>4. ASSUME NEW t \in Threads, HasRd(t) # 0 PROVE FALSE
    <2>1. 1 \in 1..HasRd(t)  BY <1>4, PermitsAre
    <2> QED  BY <1>3, <2>1, PermitsAre
  <1> QED  BY <1>4

LEMMA ThreadHoldsActive ==
  ASSUME NEW t \in Threads, IInv, Live, PInv, Room, ReadersHoldActive, NoOvertaking', Thread(t)
  PROVE  ReadersHoldActive'
  <1>0. rd_sem = Limit => \A u \in Threads : HasRd(u) = 0  BY AllBack DEF IInv, PInv
  <1> USE DEF IInv, TypeOK, ReadersHoldActive, NoOvertaking, Inside, HasRd, WrSemIsToken, HasWr,
              OwnerIsOutside, GoTo, Return, Give, TakeNoWait, object, Live, Idle
  <1>1. CASE CallRead(t)  BY <1>1 DEF CallRead
  <1>2. CASE CallWrite(t)  BY <1>2 DEF CallWrite
  <1>3. CASE UnlockWrite(t)  BY <1>3 DEF UnlockWrite, Writing
  <1>4. CASE UnlockRead(t)  BY <1>4 DEF UnlockRead, Reading
  <1>5. CASE ReadTakeWr(t)  BY <1>5 DEF ReadTakeWr
  <1>6. CASE ReadBusy(t)  BY <1>6 DEF ReadBusy
  <1>7. CASE ReadTakeActive(t)  BY <1>7 DEF ReadTakeActive
  <1>8. CASE ReadTakeRd(t)  BY <1>8 DEF ReadTakeRd
  <1>9. CASE ReadGiveWr(t)  BY <1>9 DEF ReadGiveWr
  <1>10. CASE WriteTakeWr(t)  BY <1>10 DEF WriteTakeWr
  <1>11. CASE WriteBusy(t)  BY <1>11 DEF WriteBusy
  <1>12. CASE WriteTakeActive(t)  BY <1>12 DEF WriteTakeActive
  <1>13. CASE WriteGiveUp(t)  BY <1>13 DEF WriteGiveUp
  <1>14. CASE WriteUndo(t)  BY <1>14 DEF WriteUndo
  <1>15. CASE UnlockGiveActive(t)  BY <1>15 DEF UnlockGiveActive
  <1>16. CASE UnlockGiveWr(t)  BY <1>16 DEF UnlockGiveWr
  <1>17. CASE UnlockGiveRd(t)  BY <1>17 DEF UnlockGiveRd
  <1>18. CASE UnlockCount(t)  BY <1>0, <1>18 DEF UnlockCount
  <1>19. CASE UnlockLast(t)  BY <1>19 DEF UnlockLast
  <1> QED
    BY <1>1, <1>2, <1>3, <1>4, <1>5, <1>6, <1>7, <1>8, <1>9, <1>10, <1>11, <1>12, <1>13,
       <1>14, <1>15, <1>16, <1>17, <1>18, <1>19 DEF Thread, Acquire, Release

LEMMA StepHoldsActive ==
  ASSUME Room, IInv, PInv, ReadersHoldActive, NoOvertaking', [Next]_vars
  PROVE  ReadersHoldActive'
  <1>1. CASE InitFails \/ Destroy \/ InitLock
    BY <1>1 DEF InitFails, Destroy, InitLock, Unused, object, ReadersHoldActive, Inside, HasRd, Idle
  <1>2. CASE UNCHANGED vars
    BY <1>2 DEF vars, object, ReadersHoldActive, Inside, HasRd
  <1>3. ASSUME NEW t \in Threads, Thread(t) PROVE ReadersHoldActive'
    BY <1>3, ThreadMoves, ThreadHoldsActive
  <1> QED  BY <1>1, <1>2, <1>3 DEF Next

\* A writer excludes the readers of any number of threads, within the limit, until
\* a reader comes between the two halves of the last unlock.
THEOREM ExclusionUnlessOvertaken ==
  ASSUME Room
  PROVE  Spec => ExcludesUnlessOvertaken
  <1>1. Init => PInv /\ ReadersHoldActive
    BY DEF Init, PInv, ReadsBounded, NoPermits, ReadPermitsConserved, Live, RdPC,
           ReadersHoldActive, Inside, HasRd
  <1>2. IInv /\ IInv' /\ PInv /\ [Next]_vars => PInv'  BY StepPInv
  <1>3. IInv /\ PInv /\ ReadersHoldActive /\ NoOvertaking' /\ [Next]_vars => ReadersHoldActive'
    BY StepHoldsActive
  <1>4. ASSUME IInv, ReadersHoldActive PROVE WriterExcludesReaders
    BY <1>4 DEF IInv, TypeOK, ReadersHoldActive, Inside, HasRd, WriterExcludesReaders, Writing,
                Reading
  <1> QED
    BY <1>1, <1>2, <1>3, <1>4, Invariance, PTL DEF Spec, ExcludesUnlessOvertaken
=============================================================================
