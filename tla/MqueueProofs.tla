---------------------------- MODULE MqueueProofs ----------------------------
(***************************************************************************)
(* The lifetime of the queues of mqueue.c, for any number of threads,      *)
(* queues, descriptors and names.                                          *)
(***************************************************************************)
EXTENDS Mqueue, FiniteSetTheorems, TLAPS

\* Until a queue is freed that something refers to, what the list, the
\* descriptors and the calls under way refer to is allocated, and a queue that is
\* about to be freed has left the list for good.
PointersLive ==
    /\ mq_list \subseteq heap
    /\ \A d \in Descs : desc[d] \in heap \cup {NULL}
    /\ \A t \in Threads :
         /\ pc[t] \in {"idle", "open_new"} => ptr[t] = NULL
         /\ pc[t] \notin {"idle", "open_new"} => ptr[t] \in heap
         /\ pc[t] = "rm_free" => ptr[t] \notin mq_list

\* What one call at a time adds: the count that remove_mq found to be 0 is still
\* 0 when it frees, and the name that mq_open did not find is still missing when
\* it appends.
OneCall ==
    /\ fault = "none"
    /\ \A t, u \in Threads : t = u \/ Idle(t) \/ Idle(u)
    /\ \A t \in Threads :
         /\ pc[t] \in {"rm_list", "rm_free"} => Open(ptr[t]) = {}
         /\ pc[t] = "open_new" => \A o \in mq_list : name[o] = NULL \/ name[o] # want[t]
    /\ NamesAreUnique

\* The inductive invariant.  RefCountExact needs PointersLive, since a queue
\* allocated anew must have no old descriptors; NothingLeaks needs RefCountExact,
\* since remove_mq gives up only because a descriptor is open.
IInv ==
    /\ TypeOK
    /\ fault = "none" => PointersLive
    /\ RefCountExact
    /\ NothingLeaks
    /\ habit = "serial" => OneCall

USE NullAssumption

-----------------------------------------------------------------------------
LEMMA OpenFinite ==
  \A o : IsFiniteSet(Open(o)) /\ Cardinality(Open(o)) \in Nat
  <1> TAKE o
  <1>1. Open(o) \in SUBSET Descs  BY DEF Open
  <1> QED  BY <1>1, DescsAssumption, FS_Subset, FS_CardinalityType

\* A count of 0 is the absence of open descriptors.
LEMMA ZeroIsNone ==
  \A o : Cardinality(Open(o)) = 0 <=> Open(o) = {}
  BY OpenFinite, FS_EmptySet

\* What a new descriptor, and one that is given up, do to the sets of descriptors.
LEMMA OpenOne ==
  ASSUME TypeOK, NEW d \in Descs, NEW o \in Objs, desc[d] = NULL, desc' = [desc EXCEPT ![d] = o]
  PROVE  /\ Open(o)' = Open(o) \cup {d}
         /\ Cardinality(Open(o)') = Cardinality(Open(o)) + 1
         /\ \A p \in Objs \ {o} : Open(p)' = Open(p)
  <1>1. Open(o)' = Open(o) \cup {d} /\ d \notin Open(o)  BY DEF Open, TypeOK
  <1>2. \A p \in Objs \ {o} : Open(p)' = Open(p)  BY DEF Open, TypeOK
  <1> QED  BY <1>1, <1>2, OpenFinite, FS_AddElement

LEMMA CloseOne ==
  ASSUME TypeOK, NEW d \in Descs, NEW o \in Objs, desc[d] = o, desc' = [desc EXCEPT ![d] = NULL]
  PROVE  /\ Open(o)' = Open(o) \ {d}
         /\ Cardinality(Open(o)') = Cardinality(Open(o)) - 1
         /\ Cardinality(Open(o)') \in Nat
         /\ \A p \in Objs \ {o} : Open(p)' = Open(p)
  <1>1. Open(o)' = Open(o) \ {d} /\ d \in Open(o)  BY DEF Open, TypeOK
  <1>2. \A p \in Objs \ {o} : Open(p)' = Open(p)  BY DEF Open, TypeOK
  <1>3. Cardinality(Open(o) \ {d}) = Cardinality(Open(o)) - 1
    BY <1>1, OpenFinite, FS_RemoveElement
  <1>4. IsFiniteSet(Open(o) \ {d})  BY OpenFinite, FS_RemoveElement
  <1>5. Cardinality(Open(o) \ {d}) \in Nat  BY <1>4, FS_CardinalityType
  <1> QED  BY <1>1, <1>2, <1>3, <1>5

\* Returning from a call, or moving on in it, concerns the thread's own locals.
LEMMA GotoLocal ==
  ASSUME TypeOK, NEW t \in Threads, NEW l \in Labels, NEW o \in Objs \cup {NULL}, Goto(t, l, o)
  PROVE  /\ pc' \in [Threads -> Labels] /\ ptr' \in [Threads -> Objs \cup {NULL}]
         /\ pc'[t] = l /\ ptr'[t] = o
         /\ \A u \in Threads \ {t} : pc'[u] = pc[u] /\ ptr'[u] = ptr[u]
  BY DEF Goto, TypeOK

LEMMA ReturnLocal ==
  ASSUME TypeOK, NEW t \in Threads, Return(t)
  PROVE  /\ pc' \in [Threads -> Labels] /\ ptr' \in [Threads -> Objs \cup {NULL}]
         /\ want' \in [Threads -> Names \cup {NULL}]
         /\ pc'[t] = "idle" /\ ptr'[t] = NULL
         /\ \A u \in Threads \ {t} : pc'[u] = pc[u] /\ ptr'[u] = ptr[u] /\ want'[u] = want[u]
  BY DEF Return, Goto, TypeOK, Labels

LEMMA InitIInv == Init => IInv
  <1> SUFFICES ASSUME Init PROVE IInv  OBVIOUS
  <1> USE DEF Init
  <1>1. TypeOK  BY DEF TypeOK, Labels
  <1>2. PointersLive /\ OneCall  BY DEF PointersLive, OneCall, Idle, NamesAreUnique
  <1>3. RefCountExact /\ NothingLeaks  BY DEF RefCountExact, NothingLeaks
  <1> QED  BY <1>1, <1>2, <1>3 DEF IInv

-----------------------------------------------------------------------------
(* One lemma per action. *)

\* mq_open up to the lookup, for both of its outcomes.
LEMMA LookupStep ==
  ASSUME IInv, NEW t \in Threads, NEW n \in Names, OpenFound(t, n) \/ OpenMissing(t, n)
  PROVE  IInv'
  <1>1. PICK l \in {"open_old", "open_new"}, o \in Objs \cup {NULL} :
          /\ Calls(t) /\ Goto(t, l, o)
          /\ l = "open_old" => o \in mq_list
          /\ l = "open_new" => o = NULL /\ \A p \in Objs : ~Finds(n, p)
          /\ want' = [want EXCEPT ![t] = n]
          /\ UNCHANGED <<object, desc, lost, fault, habit>>
    BY DEF OpenFound, OpenMissing, Finds
  <1> USE <1>1 DEF IInv, object, Calls
  <1>2. /\ pc' \in [Threads -> Labels] /\ ptr' \in [Threads -> Objs \cup {NULL}]
        /\ pc'[t] = l /\ ptr'[t] = o
        /\ \A u \in Threads \ {t} : pc'[u] = pc[u] /\ ptr'[u] = ptr[u]
    BY GotoLocal DEF Labels
  <1>3. TypeOK'  BY <1>2 DEF TypeOK
  <1>4. PointersLive'  BY <1>2 DEF PointersLive
  <1>5. RefCountExact'  BY DEF RefCountExact, Open
  <1>6. NothingLeaks'  BY <1>2 DEF NothingLeaks, Removing, Open, Idle
  <1>7. habit' = "serial" => OneCall'
    BY <1>2 DEF OneCall, Idle, NamesAreUnique, Open, TypeOK, Finds
  <1> QED  BY <1>3, <1>4, <1>5, <1>6, <1>7

LEMMA OpenOldStep ==
  ASSUME IInv, NEW t \in Threads, OpenOld(t)
  PROVE  IInv'
  <1>1. PICK d \in FreeDescs :
          /\ At(t, "open_old")
          /\ ref_count' = [ref_count EXCEPT ![ptr[t]] = @ + 1]
          /\ desc' = [desc EXCEPT ![d] = ptr[t]]
          /\ Return(t)
          /\ UNCHANGED <<heap, mq_list, name, lost, fault, habit>>
    BY DEF OpenOld
  <1> USE <1>1 DEF IInv, At
  <1>2. PICK o \in Objs : o = ptr[t] /\ o \in heap /\ d \in Descs /\ desc[d] = NULL
    BY DEF PointersLive, FreeDescs, TypeOK
  <1>3. /\ Open(o)' = Open(o) \cup {d}
        /\ Cardinality(Open(o)') = Cardinality(Open(o)) + 1
        /\ \A p \in Objs \ {o} : Open(p)' = Open(p)
    BY <1>2, OpenOne
  <1>4. TypeOK'  BY <1>2, ReturnLocal DEF TypeOK
  <1>5. PointersLive'  BY <1>2, ReturnLocal DEF PointersLive, TypeOK
  <1>6. RefCountExact'
    <2> SUFFICES ASSUME NEW p \in heap PROVE ref_count'[p] = Cardinality(Open(p)')
      BY DEF RefCountExact
    <2>1. CASE p = o
      <3>1. ref_count[o] = Cardinality(Open(o))  BY <1>2 DEF RefCountExact
      <3>2. ref_count'[o] = ref_count[o] + 1  BY <1>2 DEF TypeOK
      <3> QED  BY <1>3, <2>1, <3>1, <3>2
    <2>2. CASE p # o
      BY <1>2, <1>3, <2>2 DEF RefCountExact, TypeOK
    <2> QED  BY <2>1, <2>2
  <1>7. NothingLeaks'
    BY <1>2, <1>3, ReturnLocal DEF NothingLeaks, Removing, TypeOK
  <1>8. habit' = "serial" => OneCall'
    BY ReturnLocal DEF OneCall, Idle, NamesAreUnique, TypeOK
  <1> QED  BY <1>4, <1>5, <1>6, <1>7, <1>8

LEMMA OpenNewStep ==
  ASSUME IInv, NEW t \in Threads, OpenNew(t)
  PROVE  IInv'
  <1>1. PICK d \in FreeDescs, o \in Objs \ heap :
          /\ At(t, "open_new")
          /\ heap' = heap \cup {o}
          /\ name' = [name EXCEPT ![o] = want[t]]
          /\ ref_count' = [ref_count EXCEPT ![o] = 1]
          /\ mq_list' = mq_list \cup {o}
          /\ desc' = [desc EXCEPT ![d] = o]
          /\ Return(t)
          /\ UNCHANGED <<lost, fault, habit>>
    BY DEF OpenNew
  <1> USE <1>1 DEF IInv, At
  <1>2. d \in Descs /\ desc[d] = NULL  BY DEF FreeDescs
  <1>3. /\ Open(o)' = Open(o) \cup {d}
        /\ Cardinality(Open(o)') = Cardinality(Open(o)) + 1
        /\ \A p \in Objs \ {o} : Open(p)' = Open(p)
    BY <1>2, OpenOne
  <1>4. Cardinality(Open(o)) = 0
    <2>1. Open(o) = {}  BY DEF Open, PointersLive, TypeOK
    <2> QED  BY <2>1, ZeroIsNone
  <1>5. TypeOK'  BY <1>2, ReturnLocal DEF TypeOK
  <1>6. PointersLive'  BY <1>2, ReturnLocal DEF PointersLive, TypeOK
  <1>7. RefCountExact'
    <2> SUFFICES ASSUME NEW p \in heap \cup {o} PROVE ref_count'[p] = Cardinality(Open(p)')
      BY DEF RefCountExact
    <2>1. CASE p = o
      <3>1. ref_count'[o] = 1  BY DEF TypeOK
      <3> QED  BY <1>3, <1>4, <2>1, <3>1
    <2>2. CASE p # o
      BY <1>3, <2>2 DEF RefCountExact, TypeOK
    <2> QED  BY <2>1, <2>2
  <1>8. NothingLeaks'
    BY <1>2, <1>3, ReturnLocal DEF NothingLeaks, Removing, TypeOK
  <1>9. habit' = "serial" => OneCall'
    BY <1>2, ReturnLocal DEF OneCall, Idle, NamesAreUnique, TypeOK, PointersLive
  <1> QED  BY <1>5, <1>6, <1>7, <1>8, <1>9

\* The two ways in which mq_open fails after the lookup.
LEMMA OpenFailsStep ==
  ASSUME IInv, NEW t \in Threads, OpenTooBig(t) \/ OpenNoMemory(t)
  PROVE  IInv'
  <1> USE DEF IInv, At, object
  <1>1. /\ fault = "none" /\ pc[t] \in {"open_old", "open_new"} /\ Return(t)
        /\ UNCHANGED <<object, desc, fault, habit>>
        /\ lost' \subseteq lost \cup FreeDescs
    BY DEF OpenTooBig, OpenNoMemory
  <1> USE <1>1
  <1>2. TypeOK'  BY ReturnLocal DEF TypeOK, FreeDescs
  <1>3. PointersLive'  BY ReturnLocal DEF PointersLive
  <1>4. RefCountExact'  BY DEF RefCountExact, Open
  <1>5. NothingLeaks'  BY ReturnLocal DEF NothingLeaks, Removing, Open
  <1>6. habit' = "serial" => OneCall'
    BY ReturnLocal DEF OneCall, Idle, NamesAreUnique, Open
  <1> QED  BY <1>2, <1>3, <1>4, <1>5, <1>6

LEMMA CloseDecStep ==
  ASSUME IInv, NEW t \in Threads, NEW d \in Descs, CloseDec(t, d)
  PROVE  IInv'
  <1> USE DEF IInv, CloseDec, Calls
  <1>1. PICK o \in Objs : o = desc[d] /\ o \in heap  BY DEF PointersLive, TypeOK
  <1>2. /\ Open(o)' = Open(o) \ {d}
        /\ Cardinality(Open(o)') = Cardinality(Open(o)) - 1
        /\ Cardinality(Open(o)') \in Nat
        /\ \A p \in Objs \ {o} : Open(p)' = Open(p)
    BY <1>1, CloseOne
  <1>3. ref_count[o] = Cardinality(Open(o))  BY <1>1 DEF RefCountExact
  <1>4. /\ pc' \in [Threads -> Labels] /\ ptr' \in [Threads -> Objs \cup {NULL}]
        /\ pc'[t] = "close_name" /\ ptr'[t] = o
        /\ \A u \in Threads \ {t} : pc'[u] = pc[u] /\ ptr'[u] = ptr[u]
    BY <1>1, GotoLocal DEF Labels
  <1>5. TypeOK'
    <2>1. ref_count' \in [Objs -> Nat]  BY <1>1, <1>2, <1>3 DEF TypeOK
    <2> QED  BY <1>1, <1>4, <2>1 DEF TypeOK
  <1>6. PointersLive'  BY <1>1, <1>4 DEF PointersLive, TypeOK
  <1>7. RefCountExact'
    <2> SUFFICES ASSUME NEW p \in heap PROVE ref_count'[p] = Cardinality(Open(p)')
      BY DEF RefCountExact
    <2>1. CASE p = o
      <3>1. ref_count'[o] = ref_count[o] - 1  BY <1>1 DEF TypeOK
      <3> QED  BY <1>2, <1>3, <2>1, <3>1
    <2>2. CASE p # o
      BY <1>1, <1>2, <2>2 DEF RefCountExact, TypeOK
    <2> QED  BY <2>1, <2>2
  <1>8. NothingLeaks'
    BY <1>1, <1>2, <1>4 DEF NothingLeaks, Removing, TypeOK, Idle
  <1>9. habit' = "serial" => OneCall'
    BY <1>4 DEF OneCall, Idle, NamesAreUnique
  <1> QED  BY <1>5, <1>6, <1>7, <1>8, <1>9

LEMMA CloseNameStep ==
  ASSUME IInv, NEW t \in Threads, CloseName(t)
  PROVE  IInv'
  <1> USE DEF IInv, CloseName, At, object
  <1>1. ptr[t] \in heap  BY DEF PointersLive
  <1>2. CASE name[ptr[t]] = NULL
    <2>1. Goto(t, "rm_cas", ptr[t]) /\ UNCHANGED want  BY <1>2
    <2>2. /\ pc' \in [Threads -> Labels] /\ ptr' \in [Threads -> Objs \cup {NULL}]
          /\ pc'[t] = "rm_cas" /\ ptr'[t] = ptr[t]
          /\ \A u \in Threads \ {t} : pc'[u] = pc[u] /\ ptr'[u] = ptr[u]
      BY <1>1, <2>1, GotoLocal DEF Labels, TypeOK
    <2>3. TypeOK'  BY <2>1, <2>2 DEF TypeOK
    <2>4. PointersLive'  BY <1>1, <2>2 DEF PointersLive
    <2>5. RefCountExact'  BY DEF RefCountExact, Open
    <2>6. NothingLeaks'  BY <2>2 DEF NothingLeaks, Removing, Open
    <2>7. habit' = "serial" => OneCall'
      BY <2>1, <2>2 DEF OneCall, Idle, NamesAreUnique, Open
    <2> QED  BY <2>3, <2>4, <2>5, <2>6, <2>7
  <1>3. CASE name[ptr[t]] # NULL
    <2>1. Return(t)  BY <1>3
    <2>2. TypeOK'  BY <2>1, ReturnLocal DEF TypeOK
    <2>3. PointersLive'  BY <2>1, ReturnLocal DEF PointersLive
    <2>4. RefCountExact'  BY DEF RefCountExact, Open
    <2>5. NothingLeaks'  BY <1>3, <2>1, ReturnLocal DEF NothingLeaks, Removing, Open
    <2>6. habit' = "serial" => OneCall'
      BY <2>1, ReturnLocal DEF OneCall, Idle, NamesAreUnique, Open
    <2> QED  BY <2>2, <2>3, <2>4, <2>5, <2>6
  <1> QED  BY <1>2, <1>3

LEMMA UnlinkNameStep ==
  ASSUME IInv, NEW t \in Threads, NEW n \in Names, UnlinkName(t, n)
  PROVE  IInv'
  <1>1. PICK o \in Objs :
          /\ Calls(t) /\ Finds(n, o)
          /\ name' = [name EXCEPT ![o] = NULL]
          /\ Goto(t, "rm_cas", o)
          /\ UNCHANGED <<heap, mq_list, ref_count, desc, lost, want, fault, habit>>
    BY DEF UnlinkName
  <1> USE <1>1 DEF IInv, Calls, Finds
  <1>2. /\ pc' \in [Threads -> Labels] /\ ptr' \in [Threads -> Objs \cup {NULL}]
        /\ pc'[t] = "rm_cas" /\ ptr'[t] = o
        /\ \A u \in Threads \ {t} : pc'[u] = pc[u] /\ ptr'[u] = ptr[u]
    BY GotoLocal DEF Labels
  <1>3. TypeOK'  BY <1>2 DEF TypeOK
  <1>4. PointersLive'  BY <1>2 DEF PointersLive
  <1>5. RefCountExact'  BY DEF RefCountExact, Open
  <1>6. NothingLeaks'  BY <1>2 DEF NothingLeaks, Removing, Open, TypeOK, Idle
  <1>7. habit' = "serial" => OneCall'
    BY <1>2 DEF OneCall, Idle, NamesAreUnique, Open, TypeOK
  <1> QED  BY <1>3, <1>4, <1>5, <1>6, <1>7

LEMMA RemoveCasStep ==
  ASSUME IInv, NEW t \in Threads, RemoveCas(t)
  PROVE  IInv'
  <1> USE DEF IInv, RemoveCas, At, object
  <1>1. ptr[t] \in heap /\ ref_count[ptr[t]] = Cardinality(Open(ptr[t]))
    BY DEF PointersLive, RefCountExact
  <1>2. CASE ref_count[ptr[t]] = 0
    <2>1. Goto(t, "rm_list", ptr[t]) /\ UNCHANGED want  BY <1>2
    <2>2. /\ pc' \in [Threads -> Labels] /\ ptr' \in [Threads -> Objs \cup {NULL}]
          /\ pc'[t] = "rm_list" /\ ptr'[t] = ptr[t]
          /\ \A u \in Threads \ {t} : pc'[u] = pc[u] /\ ptr'[u] = ptr[u]
      BY <1>1, <2>1, GotoLocal DEF Labels, TypeOK
    <2>3. Open(ptr[t]) = {}  BY <1>1, <1>2, ZeroIsNone
    <2>4. TypeOK'  BY <2>1, <2>2 DEF TypeOK
    <2>5. PointersLive'  BY <1>1, <2>2 DEF PointersLive
    <2>6. RefCountExact'  BY DEF RefCountExact, Open
    <2>7. NothingLeaks'  BY <2>2 DEF NothingLeaks, Removing, Open
    <2>8. habit' = "serial" => OneCall'
      BY <2>1, <2>2, <2>3 DEF OneCall, Idle, NamesAreUnique, Open
    <2> QED  BY <2>4, <2>5, <2>6, <2>7, <2>8
  <1>3. CASE ref_count[ptr[t]] # 0
    <2>1. Return(t)  BY <1>3
    <2>2. Open(ptr[t]) # {}  BY <1>1, <1>3, ZeroIsNone
    <2>3. TypeOK'  BY <2>1, ReturnLocal DEF TypeOK
    <2>4. PointersLive'  BY <2>1, ReturnLocal DEF PointersLive
    <2>5. RefCountExact'  BY DEF RefCountExact, Open
    <2>6. NothingLeaks'  BY <2>1, <2>2, ReturnLocal DEF NothingLeaks, Removing, Open
    <2>7. habit' = "serial" => OneCall'
      BY <2>1, ReturnLocal DEF OneCall, Idle, NamesAreUnique, Open
    <2> QED  BY <2>3, <2>4, <2>5, <2>6, <2>7
  <1> QED  BY <1>2, <1>3

LEMMA RemoveListStep ==
  ASSUME IInv, NEW t \in Threads, RemoveList(t)
  PROVE  IInv'
  <1> USE DEF IInv, RemoveList, At
  <1>1. ptr[t] \in heap  BY DEF PointersLive
  <1>2. /\ pc' \in [Threads -> Labels] /\ ptr' \in [Threads -> Objs \cup {NULL}]
        /\ pc'[t] = "rm_free" /\ ptr'[t] = ptr[t]
        /\ \A u \in Threads \ {t} : pc'[u] = pc[u] /\ ptr'[u] = ptr[u]
    BY <1>1, GotoLocal DEF Labels, TypeOK
  <1>3. TypeOK'  BY <1>2 DEF TypeOK
  <1>4. PointersLive'  BY <1>1, <1>2 DEF PointersLive
  <1>5. RefCountExact'  BY DEF RefCountExact, Open
  <1>6. NothingLeaks'  BY <1>2 DEF NothingLeaks, Removing, Open
  <1>7. habit' = "serial" => OneCall'
    BY <1>2 DEF OneCall, Idle, NamesAreUnique, Open
  <1> QED  BY <1>3, <1>4, <1>5, <1>6, <1>7

\* What is freed is out of the list; if anything else still refers to it, that
\* is the fault.  One call at a time leaves no one to refer to it.
LEMMA RemoveFreeStep ==
  ASSUME IInv, NEW t \in Threads, RemoveFree(t)
  PROVE  IInv'
  <1> USE DEF IInv, RemoveFree, At
  <1>1. ptr[t] \in heap  BY DEF PointersLive
  <1>2. TypeOK'  BY ReturnLocal DEF TypeOK
  <1>3. fault' = "none" => PointersLive'
    <2> SUFFICES ASSUME fault' = "none" PROVE PointersLive'  OBVIOUS
    <2>1. ~Referenced(t, ptr[t])  OBVIOUS
    <2> QED  BY <1>1, <2>1, ReturnLocal DEF PointersLive, Referenced
  <1>4. RefCountExact'  BY DEF RefCountExact, Open
  <1>5. NothingLeaks'  BY ReturnLocal DEF NothingLeaks, Removing, Open
  <1>6. habit' = "serial" => OneCall'
    <2> SUFFICES ASSUME habit = "serial" PROVE OneCall'  OBVIOUS
    <2>1. ~Referenced(t, ptr[t])
      BY <1>1 DEF Referenced, OneCall, Open, PointersLive, Idle, TypeOK
    <2> QED  BY <2>1, ReturnLocal DEF OneCall, Idle, NamesAreUnique, Open
  <1> QED  BY <1>2, <1>3, <1>4, <1>5, <1>6

LEMMA Stutter == IInv /\ UNCHANGED vars => IInv'
  BY DEF IInv, vars, object, local, TypeOK, PointersLive, RefCountExact, NothingLeaks, OneCall,
     Removing, Open, Idle, NamesAreUnique

\* Every step of every call, and every stuttering step, keeps the invariant.
THEOREM Inductive == IInv /\ [Next]_vars => IInv'
  <1> SUFFICES ASSUME IInv, [Next]_vars PROVE IInv'  OBVIOUS
  <1>1. CASE Crashed \/ UNCHANGED vars  BY <1>1, Stutter DEF Crashed
  <1>2. ASSUME NEW t \in Threads, Thread(t) PROVE IInv'
    BY <1>2, LookupStep, UnlinkNameStep, OpenOldStep, OpenNewStep, OpenFailsStep, CloseDecStep,
       CloseNameStep, RemoveCasStep, RemoveListStep, RemoveFreeStep
    DEF Thread
  <1> QED  BY <1>1, <1>2 DEF Next

-----------------------------------------------------------------------------
LEMMA Invariance == Spec => []IInv
  BY InitIInv, Inductive, PTL DEF Spec

\* Every variable has its type: in particular no mq_close takes a reference
\* count below 0.
THEOREM TypeCorrect == Spec => []TypeOK
  BY Invariance, PTL DEF IInv

\* However mq_open, mq_close and mq_unlink overlap, and for as long as no freed
\* queue is referred to, the count of a queue is the number of its descriptors.
THEOREM CountsAreExact == Spec => []RefCountExact
  BY Invariance, PTL DEF IInv

\* However calls overlap, a queue without name and descriptors is being removed:
\* the last mq_close and the mq_unlink cannot both leave it to the other.
THEOREM UnusedQueuesAreRemoved == Spec => []NothingLeaks
  BY Invariance, PTL DEF IInv

\* Clients that call one at a time never meet a freed queue.
THEOREM SerialClientsAreSafe == Spec => []SerialNothingDangles
  <1>1. IInv => SerialNothingDangles
    BY DEF IInv, OneCall, PointersLive, SerialNothingDangles
  <1> QED  BY <1>1, Invariance, PTL

\* For clients that call one at a time a name denotes one queue at most.
THEOREM SerialNamesDenote == Spec => []SerialNamesAreUnique
  <1>1. IInv => SerialNamesAreUnique  BY DEF IInv, OneCall, SerialNamesAreUnique
  <1> QED  BY <1>1, Invariance, PTL
=============================================================================
