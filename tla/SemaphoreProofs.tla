-------------------------- MODULE SemaphoreProofs ---------------------------
(***************************************************************************)
(* The reference counts of semaphore.c are exact for any number of         *)
(* handles, names and objects.                                             *)
(***************************************************************************)
EXTENDS Semaphore, FiniteSetTheorems, TLAPS

\* The invariants of Semaphore are inductive together: the count says when to
\* free only because it is exact, and it stays exact only because whatever a
\* handle points to is still listed.
IInv ==
    TypeOK /\ RefCountExact /\ ListedIffReferenced /\ NamesAreUnique /\ WaitersBlockedOnLiveZero

USE NullAssumption, SemsAssumption, ValueAssumption

LEMMA HandlesFinite ==
  \A o : IsFiniteSet(OpenHandles(o)) /\ Cardinality(OpenHandles(o)) \in Nat
  <1> TAKE o
  <1>1. OpenHandles(o) \in SUBSET Handles  BY DEF OpenHandles
  <1> QED  BY <1>1, HandlesAssumption, FS_Subset, FS_CardinalityType

\* What opening and closing a handle does to the set of an object's handles.
LEMMA OpenOne ==
  ASSUME TypeOK, NEW d \in Handles, NEW o \in Objs, h[d] = NULL, h' = [h EXCEPT ![d] = o]
  PROVE  /\ OpenHandles(o)' = OpenHandles(o) \cup {d} /\ d \notin OpenHandles(o)
         /\ Cardinality(OpenHandles(o)') = Cardinality(OpenHandles(o)) + 1
         /\ \A p \in Objs \ {o} : OpenHandles(p)' = OpenHandles(p)
  <1>1. OpenHandles(o)' = OpenHandles(o) \cup {d} /\ d \notin OpenHandles(o)
    BY DEF OpenHandles, TypeOK
  <1>2. \A p \in Objs \ {o} : OpenHandles(p)' = OpenHandles(p)
    BY DEF OpenHandles, TypeOK
  <1> QED  BY <1>1, <1>2, HandlesFinite, FS_AddElement

LEMMA CloseOne ==
  ASSUME TypeOK, NEW d \in Handles, NEW o \in Objs, h[d] = o, h' = [h EXCEPT ![d] = NULL]
  PROVE  /\ OpenHandles(o)' = OpenHandles(o) \ {d} /\ d \in OpenHandles(o)
         /\ Cardinality(OpenHandles(o)') = Cardinality(OpenHandles(o)) - 1
         /\ Cardinality(OpenHandles(o)') \in Nat
         /\ OpenHandles(o)' = {} <=> Cardinality(OpenHandles(o)') = 0
         /\ \A p \in Objs \ {o} : OpenHandles(p)' = OpenHandles(p)
  <1>1. OpenHandles(o)' = OpenHandles(o) \ {d} /\ d \in OpenHandles(o)
    BY DEF OpenHandles, TypeOK
  <1>2. \A p \in Objs \ {o} : OpenHandles(p)' = OpenHandles(p)
    BY DEF OpenHandles, TypeOK
  <1>3. Cardinality(OpenHandles(o) \ {d}) = Cardinality(OpenHandles(o)) - 1
    BY <1>1, HandlesFinite, FS_RemoveElement
  <1>4. IsFiniteSet(OpenHandles(o) \ {d})  BY HandlesFinite, FS_RemoveElement
  <1>5. Cardinality(OpenHandles(o) \ {d}) \in Nat  BY <1>4, FS_CardinalityType
  <1>6. Cardinality(OpenHandles(o) \ {d}) = 0 <=> OpenHandles(o) \ {d} = {}
    BY <1>4, FS_EmptySet
  <1> QED  BY <1>1, <1>2, <1>3, <1>5, <1>6

LEMMA InitIInv == Init => IInv
  <1> SUFFICES ASSUME Init PROVE IInv  OBVIOUS
  <1> USE DEF Init
  <1>1. TypeOK  BY DEF TypeOK, Sems
  <1>2. \A o \in Objs : OpenHandles(o) = {}  BY DEF OpenHandles
  <1>3. RefCountExact /\ NamesAreUnique  BY DEF RefCountExact, NamesAreUnique
  <1>4. ListedIffReferenced  BY <1>2 DEF ListedIffReferenced
  <1>5. WaitersBlockedOnLiveZero  BY DEF WaitersBlockedOnLiveZero, Waiting
  <1> QED  BY <1>1, <1>3, <1>4, <1>5 DEF IInv

LEMMA OpenExistingStep ==
  ASSUME IInv, NEW d \in Handles, NEW n \in Names, OpenExisting(d, n)
  PROVE  IInv'
  <1>1. PICK o \in Objs :
          /\ h[d] = NULL /\ Finds(n, o)
          /\ ref_count' = [ref_count EXCEPT ![o] = @ + 1]
          /\ h' = [h EXCEPT ![d] = o]
          /\ UNCHANGED <<nsem_list, name, count, ready, waitq, timed>>
    BY DEF OpenExisting
  <1> USE <1>1 DEF IInv
  <1>2. TypeOK'  BY DEF TypeOK
  <1>3. RefCountExact'
    <2> SUFFICES ASSUME NEW p \in nsem_list
                 PROVE  ref_count'[p] = Cardinality(OpenHandles(p)')
                                          + (IF name[p] # NULL THEN 1 ELSE 0)
      BY DEF RefCountExact
    <2> USE DEF TypeOK, Finds, RefCountExact
    <2>1. CASE p = o  BY <2>1, OpenOne, HandlesFinite
    <2>2. CASE p # o  BY <2>2, OpenOne
    <2> QED  BY <2>1, <2>2
  <1>4. ListedIffReferenced'  BY OpenOne DEF ListedIffReferenced, Finds
  <1>5. NamesAreUnique'  BY DEF NamesAreUnique
  <1>6. WaitersBlockedOnLiveZero'
    BY DEF WaitersBlockedOnLiveZero, Waiting, Usable, Target, TypeOK
  <1> QED  BY <1>2, <1>3, <1>4, <1>5, <1>6

LEMMA OpenCreateStep ==
  ASSUME IInv, NEW d \in Handles, NEW n \in Names, NEW v \in 0..ValueMax, OpenCreate(d, n, v)
  PROVE  IInv'
  <1>1. PICK o \in Objs \ nsem_list :
          /\ h[d] = NULL /\ (\A p \in Objs : ~Finds(n, p))
          /\ name' = [name EXCEPT ![o] = n]
          /\ ref_count' = [ref_count EXCEPT ![o] = 2]
          /\ count' = [count EXCEPT ![o] = v]
          /\ nsem_list' = nsem_list \cup {o}
          /\ h' = [h EXCEPT ![d] = o]
          /\ UNCHANGED <<ready, waitq, timed>>
    BY DEF OpenCreate
  <1> USE <1>1 DEF IInv
  <1>2. TypeOK'  BY DEF TypeOK, Sems
  <1>3. OpenHandles(o) = {} /\ Cardinality(OpenHandles(o)) = 0
    BY FS_EmptySet DEF ListedIffReferenced
  <1>4. RefCountExact'
    <2> SUFFICES ASSUME NEW p \in nsem_list \cup {o}
                 PROVE  ref_count'[p] = Cardinality(OpenHandles(p)')
                                          + (IF name'[p] # NULL THEN 1 ELSE 0)
      BY DEF RefCountExact
    <2>1. CASE p = o
      <3>1. Cardinality(OpenHandles(o)') = Cardinality(OpenHandles(o)) + 1  BY OpenOne
      <3>3. Cardinality(OpenHandles(o)) = 0  BY <1>3
      <3>2. ref_count'[o] = 2 /\ name'[o] = n  BY DEF TypeOK
      <3> QED  BY <2>1, <3>1, <3>2, <3>3
    <2>2. CASE p # o
      <3>1. Cardinality(OpenHandles(p)') = Cardinality(OpenHandles(p))
        BY <2>2, OpenOne DEF TypeOK
      <3>2. p \in nsem_list /\ ref_count'[p] = ref_count[p] /\ name'[p] = name[p]
        BY <2>2 DEF TypeOK
      <3> QED  BY <3>1, <3>2 DEF RefCountExact
    <2> QED  BY <2>1, <2>2
  <1>5. ListedIffReferenced'  BY OpenOne DEF ListedIffReferenced, TypeOK
  <1>6. NamesAreUnique'  BY DEF NamesAreUnique, TypeOK, Finds
  <1>7. WaitersBlockedOnLiveZero'
    BY <1>3 DEF WaitersBlockedOnLiveZero, Waiting, Usable, Target, TypeOK, Sems, OpenHandles
  <1> QED  BY <1>2, <1>4, <1>5, <1>6, <1>7

LEMMA UnlinkStep ==
  ASSUME IInv, NEW n \in Names, Unlink(n)
  PROVE  IInv'
  <1>1. PICK o \in Objs :
          /\ Finds(n, o)
          /\ name' = [name EXCEPT ![o] = NULL]
          /\ Unref(o)
          /\ UNCHANGED <<h, count, ready, waitq, timed>>
    BY DEF Unlink
  <1> USE <1>1 DEF IInv
  <1>2. TypeOK'  BY DEF TypeOK, Unref
  <1>3. \A p : OpenHandles(p)' = OpenHandles(p)  BY DEF OpenHandles
  <1>4. o \in nsem_list /\ ref_count[o] = Cardinality(OpenHandles(o)) + 1
    BY DEF RefCountExact, Finds
  <1>5. ref_count[o] = 1 <=> OpenHandles(o) = {}
    BY <1>4, HandlesFinite, FS_EmptySet
  <1>6. RefCountExact'
    BY <1>3, <1>4, HandlesFinite DEF RefCountExact, TypeOK, Unref
  <1>7. ListedIffReferenced'
    BY <1>3, <1>4, <1>5 DEF ListedIffReferenced, TypeOK, Unref
  <1>8. NamesAreUnique'  BY DEF NamesAreUnique, TypeOK, Unref
  <1>9. WaitersBlockedOnLiveZero'
    BY <1>5 DEF WaitersBlockedOnLiveZero, Waiting, Usable, Target, TypeOK, Unref, OpenHandles
  <1> QED  BY <1>2, <1>6, <1>7, <1>8, <1>9

LEMMA CloseStep ==
  ASSUME IInv, NEW d \in Handles, Close(d)
  PROVE  IInv'
  <1> USE DEF IInv, Close
  <1>1. PICK o \in Objs : h[d] = o  BY DEF TypeOK
  <1>2. TypeOK'  BY <1>1 DEF TypeOK, Unref
  <1>3. /\ OpenHandles(o)' = OpenHandles(o) \ {d} /\ d \in OpenHandles(o)
        /\ Cardinality(OpenHandles(o)') = Cardinality(OpenHandles(o)) - 1
        /\ Cardinality(OpenHandles(o)') \in Nat
        /\ OpenHandles(o)' = {} <=> Cardinality(OpenHandles(o)') = 0
        /\ \A p \in Objs \ {o} : OpenHandles(p)' = OpenHandles(p)
    BY <1>1, CloseOne
  <1>4. o \in nsem_list  BY <1>1, <1>3 DEF ListedIffReferenced
  <1>5. ref_count[o] = Cardinality(OpenHandles(o)) + (IF name[o] # NULL THEN 1 ELSE 0)
    BY <1>4 DEF RefCountExact
  <1>6. ref_count[o] = 1 <=> OpenHandles(o)' = {} /\ name[o] = NULL
    BY <1>3, <1>5, HandlesFinite
  <1>7. RefCountExact'
    <2> SUFFICES ASSUME NEW p \in nsem_list
                 PROVE  ref_count'[p] = Cardinality(OpenHandles(p)')
                                          + (IF name[p] # NULL THEN 1 ELSE 0)
      BY DEF RefCountExact, Unref
    <2>1. CASE p = o
      <3>1. ref_count'[o] = ref_count[o] - 1  BY <1>1 DEF TypeOK, Unref
      <3>2. Cardinality(OpenHandles(o)') = Cardinality(OpenHandles(o)) - 1  BY <1>3
      <3>3. Cardinality(OpenHandles(o)) \in Nat  BY HandlesFinite
      <3> QED  BY <1>5, <2>1, <3>1, <3>2, <3>3
    <2>2. CASE p # o
      <3>1. Cardinality(OpenHandles(p)') = Cardinality(OpenHandles(p))
        BY <1>3, <2>2 DEF TypeOK
      <3>2. ref_count'[p] = ref_count[p]  BY <1>1, <2>2 DEF TypeOK, Unref
      <3> QED  BY <3>1, <3>2 DEF RefCountExact
    <2> QED  BY <2>1, <2>2
  <1>8. ListedIffReferenced'
    BY <1>1, <1>3, <1>4, <1>6 DEF ListedIffReferenced, TypeOK, Unref
  <1>9. NamesAreUnique'  BY DEF NamesAreUnique, TypeOK, Unref
  <1>10. WaitersBlockedOnLiveZero'
    BY <1>1, <1>3, <1>6
    DEF WaitersBlockedOnLiveZero, Waiting, Usable, Target, TypeOK, Unref, OpenHandles
  <1> QED  BY <1>2, <1>7, <1>8, <1>9, <1>10

\* The steps that use a semaphore leave the list, the names and the handles alone.
LEMMA UseStepKeeps ==
  ASSUME IInv, UnnamedStep \/ UseStep
  PROVE  IInv'
  <1> USE DEF IInv
  <1>1. UNCHANGED named
    BY DEF UnnamedStep, UseStep, SemInit, SemDestroy, Take, Block, Timeout, Post
  <1>2. RefCountExact' /\ ListedIffReferenced' /\ NamesAreUnique'
    BY <1>1 DEF named, RefCountExact, ListedIffReferenced, NamesAreUnique, OpenHandles
  <1>3. ASSUME NEW s \in Unnamed, NEW v \in 0..ValueMax, SemInit(s, v)
        PROVE  TypeOK' /\ WaitersBlockedOnLiveZero'
    BY <1>1, <1>3 DEF SemInit, named, TypeOK, Sems, WaitersBlockedOnLiveZero, Waiting, Usable,
       Target
  <1>4. ASSUME NEW s \in Unnamed, SemDestroy(s)
        PROVE  TypeOK' /\ WaitersBlockedOnLiveZero'
    BY <1>1, <1>4 DEF SemDestroy, named, TypeOK, Sems, WaitersBlockedOnLiveZero, Waiting,
       Waiters, Usable, Target
  <1>5. ASSUME NEW t \in Threads, NEW x \in Handles \cup Unnamed, Take(t, x)
        PROVE  TypeOK' /\ WaitersBlockedOnLiveZero'
    <2>1. Target(x) \in Sems /\ Target(x) # NULL
      BY <1>5 DEF Take, TypeOK, Usable, Target, Sems
    <2>2. TypeOK'  BY <1>1, <1>5, <2>1 DEF Take, TypeOK, named
    <2>3. WaitersBlockedOnLiveZero'
      BY <1>1, <1>5, <2>1 DEF Take, named, WaitersBlockedOnLiveZero, Waiting, Usable, Target,
         TypeOK
    <2> QED  BY <2>2, <2>3
  <1>6. ASSUME NEW t \in Threads, NEW x \in Handles \cup Unnamed, Block(t, x)
        PROVE  TypeOK' /\ WaitersBlockedOnLiveZero'
    <2>1. TypeOK'  BY <1>1, <1>6 DEF Block, TypeOK, named
    <2>2. Target(x) \in nsem_list \cup ready
      BY <1>6 DEF Block, Usable, Target, TypeOK, ListedIffReferenced, OpenHandles
    <2>3. WaitersBlockedOnLiveZero'
      BY <1>1, <1>6, <2>2 DEF Block, named, WaitersBlockedOnLiveZero, Waiting, Usable, Target,
         TypeOK
    <2> QED  BY <2>1, <2>3
  <1>7. ASSUME NEW t \in Threads, Timeout(t)
        PROVE  TypeOK' /\ WaitersBlockedOnLiveZero'
    BY <1>1, <1>7 DEF Timeout, Wake, named, TypeOK, WaitersBlockedOnLiveZero, Waiting, Usable,
       Target
  <1>8. ASSUME NEW x \in Handles \cup Unnamed, Post(x)
        PROVE  TypeOK' /\ WaitersBlockedOnLiveZero'
    <2>1. Target(x) \in Sems  BY <1>8 DEF Post, TypeOK, Usable, Target, Sems
    <2>2. CASE /\ \E t \in Waiters(Target(x)) : Wake(t)
               /\ UNCHANGED <<named, ready, count>>
      BY <2>2 DEF Wake, Waiters, named, TypeOK, WaitersBlockedOnLiveZero, Waiting, Usable,
         Target
    <2>3. CASE /\ Waiters(Target(x)) = {}
               /\ count' = [count EXCEPT ![Target(x)] = IF @ < ValueMax THEN @ + 1 ELSE @]
               /\ UNCHANGED <<named, ready, waitq, timed>>
      <3>1. TypeOK'  BY <2>1, <2>3 DEF named, TypeOK
      <3>2. \A t \in Threads : Waiting(t) => Target(waitq[t]) # Target(x)
        BY <2>3 DEF Waiters
      <3>3. WaitersBlockedOnLiveZero'
        BY <2>1, <2>3, <3>2 DEF named, WaitersBlockedOnLiveZero, Waiting, Usable, Target,
           TypeOK
      <3> QED  BY <3>1, <3>3
    <2> QED  BY <1>8, <2>2, <2>3 DEF Post
  <1> QED
    BY <1>2, <1>3, <1>4, <1>5, <1>6, <1>7, <1>8 DEF UnnamedStep, UseStep

LEMMA StepIInv == IInv /\ [Next]_vars => IInv'
  <1> SUFFICES ASSUME IInv, [Next]_vars PROVE IInv'  OBVIOUS
  <1>1. CASE UNCHANGED vars
    BY <1>1 DEF vars, named, IInv, TypeOK, RefCountExact, ListedIffReferenced, NamesAreUnique,
       WaitersBlockedOnLiveZero, OpenHandles, Waiting, Usable, Target
  <1>2. CASE NamedStep
    BY <1>2, OpenExistingStep, OpenCreateStep, UnlinkStep, CloseStep DEF NamedStep
  <1>3. CASE UnnamedStep \/ UseStep  BY <1>3, UseStepKeeps
  <1> QED  BY <1>1, <1>2, <1>3 DEF Next

\* The inductive invariant holds in every state of the semaphores.
THEOREM Invariance == Spec => []IInv
  <1> QED  BY InitIInv, StepIInv, PTL DEF Spec

\* A named semaphore's reference count is always the number of its open handles
\* plus one for its linked name.
THEOREM RefCountCorrect == Spec => []RefCountExact
  <1>1. IInv => RefCountExact  BY DEF IInv
  <1> QED  BY <1>1, Invariance, PTL

\* sem_close and sem_unlink, in any order and number, free an object exactly
\* when nothing refers to it any more.
THEOREM FreeCorrect == Spec => []ListedIffReferenced
  <1>1. IInv => ListedIffReferenced  BY DEF IInv
  <1> QED  BY <1>1, Invariance, PTL

\* nsem_find never has two objects to choose from.
THEOREM NamesCorrect == Spec => []NamesAreUnique
  <1>1. IInv => NamesAreUnique  BY DEF IInv
  <1> QED  BY <1>1, Invariance, PTL

\* No thread is left waiting on a freed or destroyed semaphore, or on one that
\* has a unit to give.
THEOREM WaitersCorrect == Spec => []WaitersBlockedOnLiveZero
  <1>1. IInv => WaitersBlockedOnLiveZero  BY DEF IInv
  <1> QED  BY <1>1, Invariance, PTL
=============================================================================
