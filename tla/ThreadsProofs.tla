---------------------------- MODULE ThreadsProofs ----------------------------
(***************************************************************************)
(* Spin locks, threads and timers, and mutexes and condition variables:    *)
(* what the run of MCThreads checks of them holds for any number of        *)
(* threads, locks, timers, priorities and objects.                         *)
(***************************************************************************)
EXTENDS MCThreads, SequenceTheorems, TLAPS

-----------------------------------------------------------------------------
(* Spin locks *)

SpinCalls == [pc : {"idle", "lock", "try", "unlock"}, obj : SpinObjs \cup {NULL}]

\* A call works on a word of the pool; an unlock is made by the holder; a word
\* that is held says so, and has one holder.
SpinInv ==
    /\ spinPool \subseteq SpinObjs
    /\ spinWord \in [SpinObjs -> {0, 1}]
    /\ spinVar \in [SpinVars -> SpinObjs \cup {NULL}]
    /\ spinCall \in [Threads -> SpinCalls]
    /\ spinHeld \subseteq Threads \X SpinObjs
    /\ \A t \in Threads : spinCall[t].pc # "idle" => spinCall[t].obj \in spinPool
    /\ \A t \in Threads : spinCall[t].pc = "unlock" => <<t, spinCall[t].obj>> \in spinHeld
    /\ \A t \in Threads, o \in SpinObjs : <<t, o>> \in spinHeld =>
          o \in spinPool /\ spinWord[o] = 1
    /\ \A t, u \in Threads, o \in SpinObjs :
          <<t, o>> \in spinHeld /\ <<u, o>> \in spinHeld => t = u

LEMMA SpinInitInv == Spin!Init => SpinInv
  BY DEF Spin!Init, Spin!SpinIdle, SpinInv, SpinCalls

LEMMA SpinNextInv == ASSUME SpinInv, Spin!Next PROVE SpinInv'
  <1> PICK t \in Threads :
        \/ \E v \in SpinVars : Spin!SpinInit(t, v) \/ Spin!SpinDestroy(t, v)
        \/ \E v \in SpinVars, op \in {"lock", "try", "unlock"} : Spin!SpinLookup(t, v, op)
        \/ Spin!SpinCas(t) \/ Spin!SpinRelease(t)
    BY DEF Spin!Next
  <1>1. ASSUME NEW v \in SpinVars, Spin!SpinInit(t, v) PROVE SpinInv'
    BY <1>1 DEF Spin!SpinInit, SpinInv
  <1>2. ASSUME NEW v \in SpinVars, Spin!SpinDestroy(t, v) PROVE SpinInv'
    BY <1>2 DEF Spin!SpinDestroy, Spin!Unused, SpinInv
  <1>3. ASSUME NEW v \in SpinVars, NEW op \in {"lock", "try", "unlock"}, Spin!SpinLookup(t, v, op)
        PROVE  SpinInv'
    BY <1>3 DEF Spin!SpinLookup, SpinInv, SpinCalls
  <1>4. CASE Spin!SpinCas(t)
    BY <1>4 DEF Spin!SpinCas, Spin!At, Spin!Return, Spin!SpinIdle, SpinInv, SpinCalls
  <1>5. CASE Spin!SpinRelease(t)
    BY <1>5 DEF Spin!SpinRelease, Spin!At, Spin!Return, Spin!SpinIdle, SpinInv, SpinCalls
  <1> QED  BY <1>1, <1>2, <1>3, <1>4, <1>5

LEMMA SpinInvariance == MCSpec => []SpinInv
  <1>1. MCInit => SpinInv  BY SpinInitInv DEF MCInit
  <1>2. SpinInv /\ [MCNext]_AllVars => SpinInv'
    <2>1. ASSUME SpinInv, UNCHANGED ofSpin PROVE SpinInv'
      BY <2>1 DEF ofSpin, SpinInv
    <2> QED  BY <2>1, SpinNextInv DEF MCNext, AllVars
  <1> QED  BY <1>1, <1>2, PTL DEF MCSpec

\* pthread_spin_lock and pthread_spin_trylock grant a lock to one thread at a
\* time, and no call touches a word that has gone back to the pool, for any
\* number of threads, locks and variables.
THEOREM SpinLocksExclude == MCSpec => []SpinExclusion
  <1>1. SpinInv => SpinExclusion
    BY DEF SpinInv, SpinExclusion, Spin!SpinExclusion, Spin!At
  <1> QED  BY <1>1, SpinInvariance, PTL

-----------------------------------------------------------------------------
(* Threads and their attributes *)

Attrs == [initialized : BOOLEAN, stack : BOOLEAN, stacksize : Int, guardsize : Int,
          priority : Int, policy : Pth!Policies, detached : BOOLEAN, inherit : BOOLEAN]

\* A stack of the program's own suffices, and a size that was set.
StackSuffices(a) ==
    /\ a.stack => a.stacksize >= StackMin
    /\ a.stacksize = 0 \/ a.stacksize >= StackMin

PriorityFits(a) == Pth!is_posix_policy_prio_valid(a.priority, a.policy)

Results == {"none", "value", "PTHREAD_CANCELED"}
Asked == {"none", "SCHED_FIFO", "SCHED_RR", "SCHED_OTHER"}
PThreads == [state : {"free", "run", "ending", "done"}, detached : BOOLEAN, zprio : Int,
             pending : BOOLEAN, enabled : BOOLEAN, async : BOOLEAN, queued : BOOLEAN,
             lost : BOOLEAN, late : BOOLEAN, result : Results, ended : Results,
             asked : Asked, prio : Int]

\* What is true of a thread: a request that waits has left its result, and the
\* signal of cancellation is there only for such a request.
EndsAsAsked(r) ==
    /\ r.state = "run" /\ r.pending /\ r.enabled /\ r.async => r.queued \/ r.lost
    /\ r.state = "run" /\ r.pending => r.result = "PTHREAD_CANCELED"
    /\ r.state = "run" /\ r.queued => r.pending
    /\ r.state \in {"ending", "done"} /\ r.result # r.ended => r.late
    /\ r.state = "done" => ~r.detached

\* One record is the other as far as priorities go.
SamePriority(r, k) == r.asked = k.asked /\ r.prio = k.prio /\ r.zprio = k.zprio

\* The kernel has the priority that was asked for.
KeepsPriority(r) ==
    r.state = "run" /\ r.asked # "none" =>
      /\ Pth!is_posix_policy_prio_valid(r.prio, r.asked)
      /\ r.zprio = Pth!posix_to_zephyr_priority(r.prio, r.asked)

PthreadInv ==
    /\ attr \in Attrs /\ StackSuffices(attr)
    /\ order = "policy first" => PriorityFits(attr)
    /\ pth \in [Slots -> PThreads]
    /\ \A t \in Slots : EndsAsAsked(pth[t])
    /\ order = "policy first" => \A t \in Slots : KeepsPriority(pth[t])

\* The priorities that a policy has, and their conversion there and back.
LEMMA ValidPriorities ==
  ASSUME NEW p, NEW policy \in Pth!Policies
  PROVE  Pth!is_posix_policy_prio_valid(p, policy) <=>
           p \in Nat /\ p < (IF policy = "SCHED_FIFO" THEN NumCoop ELSE NumPreempt)
  BY ThreadsAssumption DEF Pth!is_posix_policy_prio_valid, Pth!posix_sched_priority_min,
     Pth!posix_sched_priority_max, Pth!Policies

LEMMA ConversionIs ==
  ASSUME NEW p \in Int, NEW policy PROVE Pth!posix_to_zephyr_priority(p, policy) \in Int
  BY ThreadsAssumption DEF Pth!posix_to_zephyr_priority

\* zephyr_to_posix_priority undoes posix_to_zephyr_priority.
LEMMA PrioritiesConvert ==
  ASSUME NEW p, NEW policy \in Pth!Policies, Pth!is_posix_policy_prio_valid(p, policy)
  PROVE  LET got == Pth!zephyr_to_posix_priority(Pth!posix_to_zephyr_priority(p, policy)) IN
         /\ got.prio = p
         /\ got.policy = (IF policy = "SCHED_OTHER" THEN "SCHED_RR" ELSE policy)
         /\ Pth!is_posix_policy_prio_valid(got.prio, got.policy)
  BY ValidPriorities, ThreadsAssumption DEF Pth!zephyr_to_posix_priority, Pth!Clamp,
     Pth!posix_to_zephyr_priority, Pth!Policies

LEMMA DefaultPriorityFits ==
  LET a == Pth!posix_thread_attr_init IN
  a \in Attrs /\ a.initialized /\ a.inherit /\ ~a.detached /\ StackSuffices(a) /\ PriorityFits(a)
  BY ValidPriorities, ThreadsAssumption DEF Pth!posix_thread_attr_init, Attrs, StackSuffices,
     PriorityFits, Pth!posix_thread_attr_default_priority, Pth!posix_to_zephyr_priority,
     Pth!Policies

LEMMA NoThreadIs == Pth!NoThread \in PThreads /\ EndsAsAsked(Pth!NoThread) /\ KeepsPriority(Pth!NoThread)
  BY DEF Pth!NoThread, PThreads, EndsAsAsked, KeepsPriority, Results, Asked

LEMMA PthreadInitInv == Pth!Init => PthreadInv
  <1> SUFFICES ASSUME Pth!Init PROVE PthreadInv
    OBVIOUS
  <1> DEFINE a == Pth!posix_thread_attr_init
  <1>1. attr = [a EXCEPT !.initialized = FALSE]  BY DEF Pth!Init
  <1>2. a \in Attrs /\ StackSuffices(a) /\ PriorityFits(a)  BY DefaultPriorityFits
  <1> HIDE DEF a
  <1>3. attr \in Attrs  BY <1>1, <1>2 DEF Attrs
  <1>4. StackSuffices(attr) /\ PriorityFits(attr)
    BY <1>1, <1>2 DEF Attrs, StackSuffices, PriorityFits
  <1> QED  BY <1>3, <1>4, NoThreadIs DEF Pth!Init, PthreadInv

\* What a call makes of one thread.
LEMMA ThreadChanges ==
  ASSUME PthreadInv, NEW t \in Slots, NEW r \in PThreads, EndsAsAsked(r),
         order = "policy first" => KeepsPriority(r),
         pth' = [pth EXCEPT ![t] = r], UNCHANGED <<attr, order>>
  PROVE  PthreadInv'
  <1>1. pth' \in [Slots -> PThreads] /\ \A u \in Slots : pth'[u] = IF u = t THEN r ELSE pth[u]
    BY DEF PthreadInv
  <1>2. \A u \in Slots : EndsAsAsked(pth'[u])  BY <1>1 DEF PthreadInv
  <1>3. order = "policy first" => \A u \in Slots : KeepsPriority(pth'[u])
    BY <1>1 DEF PthreadInv
  <1> QED  BY <1>1, <1>2, <1>3 DEF PthreadInv

\* What the functions on an attribute object make of it.
LEMMA PrioritySet ==
  ASSUME NEW a \in Attrs, NEW p \in Int
  PROVE  LET b == [a EXCEPT !.priority = p] IN
         /\ b \in Attrs /\ b.priority = p
         /\ b.stack = a.stack /\ b.stacksize = a.stacksize /\ b.policy = a.policy
  BY DEF Attrs

LEMMA PolicySet ==
  ASSUME NEW a \in Attrs, NEW p \in Pth!Policies
  PROVE  LET b == [a EXCEPT !.policy = p] IN
         /\ b \in Attrs /\ b.policy = p
         /\ b.stack = a.stack /\ b.stacksize = a.stacksize /\ b.priority = a.priority
  BY DEF Attrs

LEMMA StackSet ==
  ASSUME NEW a \in Attrs, NEW n \in Int
  PROVE  /\ LET b == [a EXCEPT !.stack = TRUE, !.stacksize = n] IN
            /\ b \in Attrs /\ b.stack = TRUE /\ b.stacksize = n
            /\ b.priority = a.priority /\ b.policy = a.policy
         /\ LET b == [a EXCEPT !.stacksize = n] IN
            /\ b \in Attrs /\ b.stack = a.stack /\ b.stacksize = n
            /\ b.priority = a.priority /\ b.policy = a.policy
  BY DEF Attrs

LEMMA FlagSet ==
  ASSUME NEW a \in Attrs, NEW v \in BOOLEAN
  PROVE  /\ LET b == [a EXCEPT !.inherit = v] IN
            /\ b \in Attrs /\ b.stack = a.stack /\ b.stacksize = a.stacksize
            /\ b.priority = a.priority /\ b.policy = a.policy
         /\ LET b == [a EXCEPT !.detached = v] IN
            /\ b \in Attrs /\ b.stack = a.stack /\ b.stacksize = a.stacksize
            /\ b.priority = a.priority /\ b.policy = a.policy
  BY DEF Attrs

LEMMA GuardSet ==
  ASSUME NEW a \in Attrs, NEW n \in Int
  PROVE  LET b == [a EXCEPT !.guardsize = n] IN
         /\ b \in Attrs /\ b.stack = a.stack /\ b.stacksize = a.stacksize
         /\ b.priority = a.priority /\ b.policy = a.policy
  BY DEF Attrs

LEMMA Destroyed ==
  ASSUME NEW a \in Attrs
  PROVE  LET b == [a EXCEPT !.initialized = FALSE, !.stack = FALSE, !.stacksize = 0, !.guardsize = 0,
                            !.priority = 0, !.detached = FALSE, !.inherit = FALSE] IN
         /\ b \in Attrs /\ b.stack = FALSE /\ b.stacksize = 0
         /\ b.priority = 0 /\ b.policy = a.policy
  <1> DEFINE i == [a EXCEPT !.initialized = FALSE]
             k == [i EXCEPT !.stack = FALSE]
             c == [k EXCEPT !.stacksize = 0]
             d == [c EXCEPT !.guardsize = 0, !.priority = 0]
             e == [d EXCEPT !.detached = FALSE, !.inherit = FALSE]
  <1>0. i \in Attrs /\ i.policy = a.policy
    BY DEF Attrs
  <1> HIDE DEF i
  <1>k. k \in Attrs /\ k.policy = a.policy /\ k.stack = FALSE
    BY <1>0 DEF Attrs
  <1> HIDE DEF k
  <1>1. c \in Attrs /\ c.stack = FALSE /\ c.stacksize = 0 /\ c.policy = a.policy
    BY <1>k DEF Attrs
  <1> HIDE DEF c
  <1>2. d \in Attrs /\ d.stack = FALSE /\ d.stacksize = 0 /\ d.policy = a.policy /\ d.priority = 0
    BY <1>1 DEF Attrs
  <1> HIDE DEF d
  <1>3. e \in Attrs /\ e.stack = FALSE /\ e.stacksize = 0 /\ e.policy = a.policy /\ e.priority = 0
    BY <1>2 DEF Attrs
  <1> QED  BY <1>3 DEF i, k, c, d

\* The functions on an attribute object keep it sound; in good order they keep
\* its priority one of its policy's.
LEMMA AttributesInv == ASSUME PthreadInv, Pth!Attributes PROVE PthreadInv'
  <1> DEFINE Good(b) == b \in Attrs /\ StackSuffices(b)
                        /\ (order = "policy first" => PriorityFits(b))
  <1> SUFFICES Good(attr')
    BY DEF Pth!Attributes, PthreadInv
  <1>a. PICK a \in Attrs : a = attr  BY DEF PthreadInv
  <1>b. StackSuffices(a) /\ (order = "policy first" => PriorityFits(a))
    BY <1>a DEF PthreadInv
  <1>c. a.policy \in Pth!Policies  BY DEF Attrs
  <1>d. StackMin \in Int  BY ThreadsAssumption
  <1>1. Good(Pth!posix_thread_attr_init)  BY DefaultPriorityFits
  <1>2. Good(Pth!pthread_attr_setscope(a))  BY <1>b DEF Pth!pthread_attr_setscope
  <1>3. Good(Pth!pthread_attr_destroy(a))
    <2>1. order = "policy first" => Pth!is_posix_policy_prio_valid(0, a.policy)
      <3>1. PICK n \in Nat : n = IF a.policy = "SCHED_FIFO" THEN NumCoop ELSE NumPreempt
        BY ThreadsAssumption
      <3>2. order = "policy first" => a.priority \in Nat /\ a.priority < n
        BY <1>b, <1>c, <3>1, ValidPriorities DEF PriorityFits
      <3>3. \A m \in Nat : m < n => 0 < n  OBVIOUS
      <3> QED  BY <1>c, <3>1, <3>2, <3>3, ValidPriorities
    <2> QED  BY <1>b, <2>1, Destroyed DEF Pth!pthread_attr_destroy, Pth!If, StackSuffices, PriorityFits
  <1>4. ASSUME NEW p \in 0..NumPreempt PROVE Good(Pth!pthread_attr_setschedparam(a, p))
    <2>1. p \in Int  OBVIOUS
    <2> QED  BY <1>b, <2>1, PrioritySet DEF Pth!pthread_attr_setschedparam, Pth!If, StackSuffices, PriorityFits
  <1>5. ASSUME NEW p \in Pth!Choices PROVE Good(Pth!pthread_attr_setschedpolicy(a, p))
    <2>1. p \in Pth!Policies
          /\ (order = "policy first" => a.priority = 0 /\ Pth!is_posix_policy_prio_valid(0, p))
      BY <1>a DEF Pth!Choices
    <2> QED  BY <1>b, <2>1, PolicySet DEF Pth!pthread_attr_setschedpolicy, Pth!If, StackSuffices, PriorityFits
  <1>6. ASSUME NEW v \in BOOLEAN
        PROVE  Good(Pth!pthread_attr_setinheritsched(a, v)) /\ Good(Pth!pthread_attr_setdetachstate(a, v))
    BY <1>b, FlagSet DEF Pth!pthread_attr_setinheritsched, Pth!pthread_attr_setdetachstate, Pth!If,
       StackSuffices, PriorityFits
  <1>7. ASSUME NEW n \in {StackMin - 1, StackMin}
        PROVE  Good(Pth!pthread_attr_setstack(a, n)) /\ Good(Pth!pthread_attr_setstacksize(a, n))
    <2>1. n \in Int  BY <1>d
    <2> QED  BY <1>b, <2>1, StackSet DEF Pth!pthread_attr_setstack, Pth!pthread_attr_setstacksize, Pth!If,
               StackSuffices, PriorityFits
  <1>8. Good(Pth!pthread_attr_setguardsize(a, 1))
    <2>1. 1 \in Int  OBVIOUS
    <2> QED  BY <1>b, <2>1, GuardSet DEF Pth!pthread_attr_setguardsize, Pth!If, StackSuffices, PriorityFits
  <1> HIDE DEF Good
  <1> QED  BY <1>a, <1>1, <1>2, <1>3, <1>4, <1>5, <1>6, <1>7, <1>8 DEF Pth!Attributes

LEMMA NewThread ==
  ASSUME NEW u \in BOOLEAN, NEW d \in BOOLEAN, NEW z \in Int, NEW q \in Asked, NEW p \in Int
  PROVE  LET r == Pth!Started(u, d, z, q, p) IN
         /\ r \in PThreads
         /\ r.state = "run" /\ ~r.pending /\ ~r.queued
         /\ r.zprio = z /\ r.asked = q /\ r.prio = p
  BY DEF PThreads, Pth!Started, Pth!NoThread, Results, Asked

\* A new thread has the creator's priority, or the object's.
LEMMA CreateInv ==
  ASSUME NEW a \in Attrs
  PROVE  PthreadInv /\ (order = "policy first" => PriorityFits(a)) /\ Pth!pthread_create(a)
           => PthreadInv'
  <1>1. a.priority \in Int /\ a.policy \in Pth!Policies /\ a.detached \in BOOLEAN
    BY DEF Attrs
  <1>2. Pth!posix_to_zephyr_priority(a.priority, a.policy) \in Int /\ a.policy \in Asked
    BY <1>1, ConversionIs DEF Pth!Policies, Asked
  <1>3. 0 \in Int /\ "none" \in Asked  BY DEF Asked
  <1> DEFINE new(r) == r \in PThreads /\ EndsAsAsked(r) /\ (PriorityFits(a) => KeepsPriority(r))
             inherits(u) == Pth!Started(u, a.detached, 0, "none", 0)
             chosen(u) == Pth!Started(u, a.detached, Pth!posix_to_zephyr_priority(a.priority, a.policy),
                                      a.policy, a.priority)
  <1>4. ASSUME NEW u \in BOOLEAN PROVE new(inherits(u))
    <2> DEFINE r == inherits(u)
    <2> r \in PThreads /\ r.state = "run" /\ ~r.pending /\ ~r.queued /\ r.asked = "none"
      BY <1>1, <1>3, NewThread
    <2> HIDE DEF r
    <2>1. EndsAsAsked(r) /\ KeepsPriority(r)  BY DEF EndsAsAsked, KeepsPriority
    <2> QED  BY <2>1 DEF r
  <1>5. ASSUME NEW u \in BOOLEAN PROVE new(chosen(u))
    <2> DEFINE r == chosen(u)
    <2> /\ r \in PThreads /\ r.state = "run" /\ ~r.pending /\ ~r.queued /\ r.asked = a.policy
        /\ r.zprio = Pth!posix_to_zephyr_priority(a.priority, a.policy) /\ r.prio = a.priority
      BY <1>1, <1>2, NewThread
    <2> HIDE DEF r
    <2>1. EndsAsAsked(r) /\ (PriorityFits(a) => KeepsPriority(r))
      BY DEF EndsAsAsked, KeepsPriority, PriorityFits
    <2> QED  BY <2>1 DEF r
  <1>6. Pth!pthread_create(a) => \E t \in Slots, u \in BOOLEAN :
          /\ pth' = [pth EXCEPT ![t] = IF a.inherit THEN inherits(u) ELSE chosen(u)]
          /\ UNCHANGED <<attr, order>>
    BY Zenon DEF Pth!pthread_create
  <1> HIDE DEF inherits, chosen
  <1> SUFFICES ASSUME PthreadInv, order = "policy first" => PriorityFits(a), Pth!pthread_create(a)
               PROVE  PthreadInv'
    OBVIOUS
  <1>7. PICK t \in Slots, u \in BOOLEAN :
          /\ pth' = [pth EXCEPT ![t] = IF a.inherit THEN inherits(u) ELSE chosen(u)]
          /\ UNCHANGED <<attr, order>>
    BY <1>6
  <1>8. CASE a.inherit  BY <1>4, <1>7, <1>8, ThreadChanges
  <1>9. CASE ~a.inherit  BY <1>5, <1>7, <1>9, ThreadChanges
  <1> QED  BY <1>8, <1>9

\* What a thread that is changed, signalled or cancelled, or that ends, becomes.
LEMMA CancelledIs ==
  ASSUME NEW k \in PThreads
  PROVE  LET r == Pth!Cancelled(k) IN
         /\ r \in PThreads /\ r.state = "ending" /\ r.result = k.result
         /\ r.ended = "PTHREAD_CANCELED"
  BY DEF PThreads, Pth!Cancelled, Results

LEMMA ExitedIs ==
  ASSUME NEW k \in PThreads
  PROVE  LET r == [Pth!Cancelled(k) EXCEPT !.enabled = TRUE, !.result = "value", !.ended = "value"] IN
         /\ r \in PThreads /\ r.state = "ending" /\ r.result = "value" /\ r.ended = "value"
  <1> DEFINE c == Pth!Cancelled(k)
  <1>1. c \in PThreads /\ c.state = "ending"  BY CancelledIs
  <1> HIDE DEF c
  <1> QED  BY <1>1 DEF PThreads, Results, c

LEMMA RequestedIs ==
  ASSUME NEW k \in PThreads
  PROVE  LET r == Pth!Requested(k) IN
         /\ r \in PThreads /\ r.state = k.state /\ r.result = "PTHREAD_CANCELED"
         /\ r.ended = k.ended /\ r.detached = k.detached /\ r.queued = k.queued
         /\ r.pending /\ r.enabled = k.enabled /\ r.async = k.async
         /\ (r.late <=> k.late \/ k.state = "ending")
         /\ SamePriority(r, k)
  BY DEF PThreads, Pth!Requested, Results, SamePriority

LEMMA SignalledIs ==
  ASSUME NEW k \in PThreads, NEW room \in BOOLEAN
  PROVE  LET r == Pth!Signalled(k, room) IN
         /\ r \in PThreads /\ r.state = k.state /\ r.result = k.result
         /\ r.ended = k.ended /\ r.detached = k.detached /\ r.late = k.late
         /\ r.pending = k.pending /\ r.enabled = k.enabled /\ r.async = k.async
         /\ r.queued \/ r.lost
         /\ SamePriority(r, k)
  BY DEF PThreads, Pth!Signalled, SamePriority

LEMMA EnabledSet ==
  ASSUME NEW k \in PThreads, NEW b \in BOOLEAN
  PROVE  LET r == [k EXCEPT !.enabled = b] IN
         /\ r \in PThreads /\ r.state = k.state /\ r.result = k.result
         /\ r.pending = k.pending /\ r.enabled = b /\ r.async = k.async
         /\ r.queued = k.queued /\ r.lost = k.lost
         /\ SamePriority(r, k)
  BY DEF PThreads, SamePriority

LEMMA AsyncSet ==
  ASSUME NEW k \in PThreads, NEW b \in BOOLEAN
  PROVE  LET r == [k EXCEPT !.async = b] IN
         /\ r \in PThreads /\ r.state = k.state /\ r.result = k.result
         /\ r.pending = k.pending /\ r.enabled = k.enabled /\ r.async = b
         /\ r.queued = k.queued /\ r.lost = k.lost
         /\ SamePriority(r, k)
  BY DEF PThreads, SamePriority

LEMMA UnmaskedIs ==
  ASSUME NEW k \in PThreads, NEW b \in BOOLEAN
  PROVE  LET r == Pth!Unmasked(k, b) IN
         /\ r \in PThreads /\ r.state = k.state /\ r.result = k.result
         /\ r.pending = k.pending /\ r.enabled = b /\ r.async = k.async /\ r.queued = k.queued
         /\ (r.lost <=> k.lost \/ (b /\ k.pending /\ ~k.queued))
         /\ SamePriority(r, k)
  BY DEF PThreads, Pth!Unmasked, SamePriority

LEMMA DoneIs ==
  ASSUME NEW k \in PThreads
  PROVE  LET r == [k EXCEPT !.state = "done"] IN
         /\ r \in PThreads /\ r.state = "done" /\ r.result = k.result /\ r.ended = k.ended
         /\ r.detached = k.detached /\ r.late = k.late
  BY DEF PThreads

LEMMA DetachedIs ==
  ASSUME NEW k \in PThreads
  PROVE  LET r == [k EXCEPT !.detached = TRUE] IN
         /\ r \in PThreads /\ r.state = k.state /\ r.result = k.result /\ r.ended = k.ended
         /\ r.pending = k.pending /\ r.enabled = k.enabled /\ r.async = k.async
         /\ r.queued = k.queued /\ r.lost = k.lost /\ r.late = k.late
         /\ SamePriority(r, k)
  BY DEF PThreads, SamePriority

LEMMA Rescheduled ==
  ASSUME NEW k \in PThreads, NEW q \in Asked, NEW p \in Int
  PROVE  LET r == Pth!Scheduled(k, p, q) IN
         /\ r \in PThreads /\ r.state = k.state /\ r.result = k.result
         /\ r.pending = k.pending /\ r.enabled = k.enabled /\ r.async = k.async
         /\ r.queued = k.queued /\ r.lost = k.lost
         /\ r.asked = q /\ r.prio = p /\ r.zprio = Pth!posix_to_zephyr_priority(p, q)
  <1>1. PICK z \in Int : z = Pth!posix_to_zephyr_priority(p, q)  BY ConversionIs
  <1>2. Pth!Scheduled(k, p, q) = [k EXCEPT !.zprio = z, !.asked = q, !.prio = p]
    BY <1>1 DEF Pth!Scheduled
  <1>3. LET r == [k EXCEPT !.zprio = z, !.asked = q, !.prio = p] IN
        /\ r \in PThreads /\ r.state = k.state /\ r.result = k.result
        /\ r.pending = k.pending /\ r.enabled = k.enabled /\ r.async = k.async
        /\ r.queued = k.queued /\ r.lost = k.lost
        /\ r.asked = q /\ r.prio = p /\ r.zprio = z
    BY DEF PThreads
  <1> QED  BY <1>1, <1>2, <1>3

\* What a call makes of one thread, whose priority it leaves alone.
LEMMA ThreadKeeps ==
  ASSUME PthreadInv, NEW t \in Slots, NEW r \in PThreads, EndsAsAsked(r),
         r.state = "run" => pth[t].state = "run" /\ SamePriority(r, pth[t]),
         pth' = [pth EXCEPT ![t] = r], UNCHANGED <<attr, order>>
  PROVE  PthreadInv'
  <1>1. order = "policy first" => KeepsPriority(pth[t])  BY DEF PthreadInv
  <1>2. KeepsPriority(pth[t]) => KeepsPriority(r)  BY DEF KeepsPriority, SamePriority
  <1> QED  BY <1>1, <1>2, ThreadChanges

LEMMA ThreadIs ==
  ASSUME PthreadInv, NEW t \in Slots
  PROVE  pth[t] \in PThreads /\ EndsAsAsked(pth[t])
  BY DEF PthreadInv

\* A request that waited takes effect: the result was left when it was made.
LEMMA CancelledInv ==
  ASSUME PthreadInv, NEW t \in Slots, pth[t].state = "run", pth[t].pending,
         pth' = [pth EXCEPT ![t] = Pth!Cancelled(pth[t])], UNCHANGED <<attr, order>>
  PROVE  PthreadInv'
  <1> DEFINE r == Pth!Cancelled(pth[t])
  <1>1. pth[t] \in PThreads /\ pth[t].result = "PTHREAD_CANCELED"  BY ThreadIs DEF EndsAsAsked
  <1>2. /\ r \in PThreads /\ r.state = "ending" /\ r.result = "PTHREAD_CANCELED"
        /\ r.ended = "PTHREAD_CANCELED"
    BY <1>1, CancelledIs
  <1> HIDE DEF r
  <1>3. EndsAsAsked(r)  BY <1>2 DEF EndsAsAsked
  <1> QED  BY <1>2, <1>3, ThreadKeeps DEF r

LEMMA ExitInv == ASSUME PthreadInv, NEW t \in Slots, Pth!pthread_exit(t) PROVE PthreadInv'
  <1>1. PICK k \in PThreads : k = pth[t]  BY ThreadIs
  <1>2. k.state = "run" /\ UNCHANGED <<attr, order>>  BY <1>1 DEF Pth!pthread_exit, Pth!Runs
  <1>3. CASE Pth!Cancellable(k)
    <2>1. pth' = [pth EXCEPT ![t] = Pth!Cancelled(k)]  BY <1>1, <1>3 DEF Pth!pthread_exit, Pth!Exited
    <2>2. k.pending  BY <1>3 DEF Pth!Cancellable
    <2> QED  BY <1>1, <1>2, <2>1, <2>2, CancelledInv
  <1>4. CASE ~Pth!Cancellable(k)
    <2> DEFINE r == [Pth!Cancelled(k) EXCEPT !.enabled = TRUE, !.result = "value", !.ended = "value"]
    <2>1. pth' = [pth EXCEPT ![t] = r]  BY <1>1, <1>4 DEF Pth!pthread_exit, Pth!Exited
    <2>2. r \in PThreads /\ r.state = "ending" /\ r.result = "value" /\ r.ended = "value"
      BY ExitedIs
    <2> HIDE DEF r
    <2>3. EndsAsAsked(r)  BY <2>2 DEF EndsAsAsked
    <2> QED  BY <1>2, <2>1, <2>2, <2>3, ThreadKeeps
  <1> QED  BY <1>3, <1>4

LEMMA AbortInv == ASSUME PthreadInv, NEW t \in Slots, Pth!ThreadAborts(t) PROVE PthreadInv'
  <1>1. PICK k \in PThreads : k = pth[t] /\ EndsAsAsked(k)  BY ThreadIs
  <1>2. k.state = "ending" /\ UNCHANGED <<attr, order>>  BY <1>1 DEF Pth!ThreadAborts
  <1> DEFINE r == [k EXCEPT !.state = "done"]
  <1>3. pth' = [pth EXCEPT ![t] = IF k.detached THEN Pth!NoThread ELSE r]
    BY <1>1 DEF Pth!ThreadAborts
  <1>4. /\ r \in PThreads /\ r.state = "done" /\ r.result = k.result /\ r.ended = k.ended
        /\ r.detached = k.detached /\ r.late = k.late
    BY DoneIs
  <1> HIDE DEF r
  <1>5. CASE k.detached  BY <1>2, <1>3, <1>5, NoThreadIs, ThreadChanges
  <1>6. CASE ~k.detached
    <2>1. EndsAsAsked(r)  BY <1>1, <1>2, <1>4, <1>6 DEF EndsAsAsked
    <2>2. pth' = [pth EXCEPT ![t] = r]  BY <1>3, <1>6
    <2> QED  BY <1>2, <1>4, <2>1, <2>2, ThreadKeeps
  <1> QED  BY <1>5, <1>6

LEMMA TestcancelInv == ASSUME PthreadInv, NEW t \in Slots, Pth!pthread_testcancel(t) PROVE PthreadInv'
  BY CancelledInv DEF Pth!pthread_testcancel, Pth!Cancellable, Pth!Runs

LEMMA CancelSignalInv == ASSUME PthreadInv, NEW t \in Slots, Pth!CancelSignal(t) PROVE PthreadInv'
  <1>1. pth[t].pending  BY ThreadIs DEF Pth!CancelSignal, Pth!Runs, EndsAsAsked
  <1> QED  BY <1>1, CancelledInv DEF Pth!CancelSignal, Pth!Runs

\* A thread that has its signal queued for a request keeps its promises.
LEMMA SignalledInv ==
  ASSUME PthreadInv, NEW t \in Slots, NEW k \in PThreads, NEW room \in BOOLEAN,
         k.pending, k.result = "PTHREAD_CANCELED", k.state = pth[t].state,
         k.state \in {"run", "ending"}, k.state = "ending" => k.late, SamePriority(k, pth[t]),
         pth' = [pth EXCEPT ![t] = Pth!Signalled(k, room)], UNCHANGED <<attr, order>>
  PROVE  PthreadInv'
  <1> DEFINE r == Pth!Signalled(k, room)
  <1>1. /\ r \in PThreads /\ r.state = k.state /\ r.result = k.result
        /\ r.late = k.late /\ r.pending = k.pending
        /\ r.queued \/ r.lost
        /\ SamePriority(r, k)
    BY SignalledIs
  <1> HIDE DEF r
  <1>2. EndsAsAsked(r)  BY <1>1 DEF EndsAsAsked
  <1>3. SamePriority(r, pth[t])  BY <1>1 DEF SamePriority
  <1> QED  BY <1>1, <1>2, <1>3, ThreadKeeps DEF r

LEMMA SetcancelstateInv ==
  ASSUME PthreadInv, NEW t \in Slots, NEW b \in BOOLEAN, NEW room \in BOOLEAN,
         Pth!pthread_setcancelstate(t, b, room)
  PROVE  PthreadInv'
  <1>1. PICK k \in PThreads : k = pth[t] /\ EndsAsAsked(k)  BY ThreadIs
  <1>2. k.state = "run" /\ UNCHANGED <<attr, order>>
    BY <1>1 DEF Pth!pthread_setcancelstate, Pth!Runs
  <1> DEFINE acts == Pth!Cancellable(k) \/ (b /\ k.pending /\ ~k.async)
             r == [k EXCEPT !.enabled = b]
  <1>3. pth' = [pth EXCEPT ![t] =
          IF acts THEN Pth!Cancelled(k)
          ELSE IF b /\ k.pending THEN Pth!Signalled([k EXCEPT !.enabled = TRUE], room) ELSE r]
    BY <1>1 DEF Pth!pthread_setcancelstate
  <1>4. /\ r \in PThreads /\ r.state = k.state /\ r.result = k.result
        /\ r.pending = k.pending /\ r.enabled = b /\ r.queued = k.queued
        /\ SamePriority(r, k)
    BY EnabledSet
  <1>5. CASE acts
    <2>1. pth' = [pth EXCEPT ![t] = Pth!Cancelled(k)]  BY <1>3, <1>5
    <2>2. k.pending  BY <1>5 DEF Pth!Cancellable
    <2> QED  BY <1>1, <1>2, <2>1, <2>2, CancelledInv
  <1>6. CASE ~acts /\ b /\ k.pending
    <2>1. pth' = [pth EXCEPT ![t] = Pth!Signalled(r, room)]  BY <1>3, <1>6
    <2>2. r.result = "PTHREAD_CANCELED"  BY <1>1, <1>2, <1>4, <1>6 DEF EndsAsAsked
    <2> HIDE DEF r, acts
    <2> QED  BY <1>1, <1>2, <1>4, <1>6, <2>1, <2>2, SignalledInv
  <1>7. CASE ~acts /\ ~(b /\ k.pending)
    <2>1. pth' = [pth EXCEPT ![t] = r]  BY <1>3, <1>7
    <2> HIDE DEF r, acts
    <2>2. EndsAsAsked(r)  BY <1>1, <1>2, <1>4, <1>7 DEF EndsAsAsked
    <2> QED  BY <1>1, <1>2, <1>4, <2>1, <2>2, ThreadKeeps
  <1> QED  BY <1>5, <1>6, <1>7

LEMMA SetcanceltypeInv ==
  ASSUME PthreadInv, NEW t \in Slots, NEW b \in BOOLEAN, NEW room \in BOOLEAN,
         Pth!pthread_setcanceltype(t, b, room)
  PROVE  PthreadInv'
  <1>1. PICK k \in PThreads : k = pth[t] /\ EndsAsAsked(k)  BY ThreadIs
  <1>2. k.state = "run" /\ UNCHANGED <<attr, order>>
    BY <1>1 DEF Pth!pthread_setcanceltype, Pth!Runs
  <1> DEFINE r == [k EXCEPT !.async = b]
  <1>3. pth' = [pth EXCEPT ![t] =
          IF Pth!Cancellable(k) THEN Pth!Cancelled(k)
          ELSE IF b /\ k.pending /\ k.enabled
            THEN Pth!Signalled([k EXCEPT !.async = TRUE], room) ELSE r]
    BY <1>1 DEF Pth!pthread_setcanceltype
  <1>4. /\ r \in PThreads /\ r.state = k.state /\ r.result = k.result
        /\ r.pending = k.pending /\ r.enabled = k.enabled /\ r.async = b /\ r.queued = k.queued
        /\ SamePriority(r, k)
    BY AsyncSet
  <1>5. CASE Pth!Cancellable(k)
    <2>1. pth' = [pth EXCEPT ![t] = Pth!Cancelled(k)]  BY <1>3, <1>5
    <2>2. k.pending  BY <1>5 DEF Pth!Cancellable
    <2> QED  BY <1>1, <1>2, <2>1, <2>2, CancelledInv
  <1>6. CASE ~Pth!Cancellable(k) /\ b /\ k.pending /\ k.enabled
    <2>1. pth' = [pth EXCEPT ![t] = Pth!Signalled(r, room)]  BY <1>3, <1>6
    <2>2. r.result = "PTHREAD_CANCELED"  BY <1>1, <1>2, <1>4, <1>6 DEF EndsAsAsked
    <2> HIDE DEF r
    <2> QED  BY <1>1, <1>2, <1>4, <1>6, <2>1, <2>2, SignalledInv
  <1>7. CASE ~Pth!Cancellable(k) /\ ~(b /\ k.pending /\ k.enabled)
    <2>1. pth' = [pth EXCEPT ![t] = r]  BY <1>3, <1>7
    <2> HIDE DEF r
    <2>2. EndsAsAsked(r)  BY <1>1, <1>2, <1>4, <1>7 DEF EndsAsAsked
    <2> QED  BY <1>1, <1>2, <1>4, <2>1, <2>2, ThreadKeeps
  <1> QED  BY <1>5, <1>6, <1>7

LEMMA CancelMaskedInv ==
  ASSUME PthreadInv, NEW t \in Slots, NEW b \in BOOLEAN, Pth!CancelMasked(t, b)
  PROVE  PthreadInv'
  <1>1. PICK k \in PThreads : k = pth[t] /\ EndsAsAsked(k)  BY ThreadIs
  <1>2. k.state = "run" /\ UNCHANGED <<attr, order>>  BY <1>1 DEF Pth!CancelMasked, Pth!Runs
  <1> DEFINE r == Pth!Unmasked(k, b)
  <1>3. pth' = [pth EXCEPT ![t] = r]  BY <1>1 DEF Pth!CancelMasked
  <1>4. /\ r \in PThreads /\ r.state = k.state /\ r.result = k.result
        /\ r.pending = k.pending /\ r.enabled = b /\ r.queued = k.queued
        /\ (r.lost <=> k.lost \/ (b /\ k.pending /\ ~k.queued))
        /\ SamePriority(r, k)
    BY UnmaskedIs
  <1> HIDE DEF r
  <1>5. EndsAsAsked(r)  BY <1>1, <1>2, <1>4 DEF EndsAsAsked
  <1> QED  BY <1>1, <1>2, <1>3, <1>4, <1>5, ThreadKeeps

LEMMA CancelInv ==
  ASSUME PthreadInv, NEW t \in Slots, NEW room \in BOOLEAN, Pth!pthread_cancel(t, room)
  PROVE  PthreadInv'
  <1>1. PICK k \in PThreads : k = pth[t] /\ EndsAsAsked(k)  BY ThreadIs
  <1>2. k.state \in {"run", "ending"} /\ UNCHANGED <<attr, order>>
    BY <1>1 DEF Pth!pthread_cancel
  <1> DEFINE r == Pth!Requested(k)
  <1>3. pth' = [pth EXCEPT ![t] =
          IF k.pending THEN k
          ELSE IF k.async /\ k.enabled THEN Pth!Signalled(r, room) ELSE r]
    BY <1>1 DEF Pth!pthread_cancel
  <1>4. /\ r \in PThreads /\ r.state = k.state /\ r.result = "PTHREAD_CANCELED"
        /\ r.pending /\ r.enabled = k.enabled /\ r.async = k.async
        /\ (r.late <=> k.late \/ k.state = "ending")
        /\ SamePriority(r, k)
    BY RequestedIs
  <1> HIDE DEF r
  <1>5. CASE k.pending
    <2>1. pth' = [pth EXCEPT ![t] = k]  BY <1>3, <1>5
    <2> QED  BY <1>1, <1>2, <2>1, ThreadKeeps DEF SamePriority
  <1>6. CASE ~k.pending /\ k.async /\ k.enabled
    <2>1. pth' = [pth EXCEPT ![t] = Pth!Signalled(r, room)]  BY <1>3, <1>6
    <2> QED  BY <1>1, <1>2, <1>4, <2>1, SignalledInv
  <1>7. CASE ~k.pending /\ ~(k.async /\ k.enabled)
    <2>1. pth' = [pth EXCEPT ![t] = r]  BY <1>3, <1>7
    <2>2. EndsAsAsked(r)  BY <1>1, <1>2, <1>4, <1>7 DEF EndsAsAsked
    <2> QED  BY <1>1, <1>2, <1>4, <2>1, <2>2, ThreadKeeps
  <1> QED  BY <1>5, <1>6, <1>7

LEMMA JoinInv == ASSUME PthreadInv, NEW t \in Slots, Pth!pthread_join(t) PROVE PthreadInv'
  BY NoThreadIs, ThreadChanges DEF Pth!pthread_join

LEMMA DetachInv == ASSUME PthreadInv, NEW t \in Slots, Pth!pthread_detach(t) PROVE PthreadInv'
  <1>1. PICK k \in PThreads : k = pth[t] /\ EndsAsAsked(k)  BY ThreadIs
  <1>2. CASE k.state = "done"
    BY <1>1, <1>2, NoThreadIs, ThreadChanges DEF Pth!pthread_detach
  <1>3. CASE k.state # "done"
    <2> DEFINE r == [k EXCEPT !.detached = TRUE]
    <2>1. pth' = [pth EXCEPT ![t] = r] /\ UNCHANGED <<attr, order>>
      BY <1>1, <1>3 DEF Pth!pthread_detach
    <2>2. /\ r \in PThreads /\ r.state = k.state /\ r.result = k.result /\ r.ended = k.ended
          /\ r.pending = k.pending /\ r.enabled = k.enabled /\ r.async = k.async
          /\ r.queued = k.queued /\ r.lost = k.lost /\ r.late = k.late
          /\ SamePriority(r, k)
      BY DetachedIs
    <2> HIDE DEF r
    <2>3. EndsAsAsked(r)  BY <1>1, <1>3, <2>2 DEF EndsAsAsked
    <2> QED  BY <1>1, <2>1, <2>2, <2>3, ThreadKeeps
  <1> QED  BY <1>2, <1>3

\* pthread_setschedprio is pthread_setschedparam with the policy that is read.
LEMMA SetschedInv ==
  ASSUME PthreadInv, NEW t \in Slots, NEW p \in Int, NEW policy, Pth!pthread_setschedparam(t, p, policy)
  PROVE  PthreadInv'
  <1>1. PICK k \in PThreads : k = pth[t]  BY DEF PthreadInv
  <1>2. policy \in Asked  BY DEF Pth!pthread_setschedparam, Pth!Policies, Asked
  <1> DEFINE r == Pth!Scheduled(k, p, policy)
  <1>3. /\ pth' = [pth EXCEPT ![t] = r] /\ UNCHANGED <<attr, order>> /\ k.state = "run"
        /\ Pth!is_posix_policy_prio_valid(p, policy)
    BY <1>1 DEF Pth!pthread_setschedparam, Pth!Runs
  <1>4. /\ r \in PThreads /\ r.state = k.state /\ r.result = k.result
        /\ r.pending = k.pending /\ r.enabled = k.enabled /\ r.async = k.async
        /\ r.queued = k.queued /\ r.lost = k.lost
        /\ r.asked = policy /\ r.prio = p /\ r.zprio = Pth!posix_to_zephyr_priority(p, policy)
    BY <1>2, Rescheduled
  <1> HIDE DEF r
  <1>5. EndsAsAsked(k)
    BY <1>1 DEF PthreadInv
  <1>6. EndsAsAsked(r)  BY <1>3, <1>4, <1>5 DEF EndsAsAsked
  <1>7. KeepsPriority(r)  BY <1>3, <1>4 DEF KeepsPriority
  <1> QED  BY <1>3, <1>4, <1>6, <1>7, ThreadChanges

LEMMA PthreadNextInv == ASSUME PthreadInv, Pth!Next PROVE PthreadInv'
  <1>1. CASE Pth!Attributes  BY <1>1, AttributesInv
  <1>2. CASE Pth!pthread_create(attr)
    <2>1. PICK a \in Attrs : a = attr  BY DEF PthreadInv
    <2>2. Pth!pthread_create(a)  BY <1>2, <2>1
    <2> QED  BY <2>1, <2>2, CreateInv DEF PthreadInv
  <1>3. CASE Pth!pthread_create(Pth!posix_thread_attr_init)
    BY <1>3, CreateInv, DefaultPriorityFits
  <1>4. ASSUME NEW n, Pth!pthread_setconcurrency(n) PROVE PthreadInv'
    BY <1>4 DEF Pth!pthread_setconcurrency, PthreadInv
  <1>5. ASSUME NEW t \in Slots, NEW p \in 0..NumPreempt, NEW policy, Pth!pthread_setschedparam(t, p, policy)
        PROVE  PthreadInv'
    <2>1. p \in Int  BY <1>5
    <2> QED  BY <1>5, <2>1, SetschedInv
  <1>6. ASSUME NEW t \in Slots, NEW p \in 0..NumPreempt, Pth!pthread_setschedprio(t, p)
        PROVE  PthreadInv'
    BY <1>5, <1>6 DEF Pth!pthread_setschedprio
  <1>7. ASSUME NEW t \in Slots,
               \/ Pth!pthread_exit(t) \/ Pth!ThreadAborts(t) \/ Pth!CancelSignal(t)
               \/ Pth!pthread_testcancel(t) \/ Pth!pthread_join(t) \/ Pth!pthread_detach(t)
        PROVE  PthreadInv'
    BY <1>7, ExitInv, AbortInv, CancelSignalInv, TestcancelInv, JoinInv, DetachInv
  <1>8. ASSUME NEW t \in Slots, NEW b \in BOOLEAN, Pth!pthread_cancel(t, b) \/ Pth!CancelMasked(t, b)
        PROVE  PthreadInv'
    BY <1>8, CancelInv, CancelMaskedInv
  <1>9. ASSUME NEW t \in Slots, NEW b \in BOOLEAN, NEW room \in BOOLEAN,
               Pth!pthread_setcancelstate(t, b, room) \/ Pth!pthread_setcanceltype(t, b, room)
        PROVE  PthreadInv'
    BY <1>9, SetcancelstateInv, SetcanceltypeInv
  <1> QED  BY <1>1, <1>2, <1>3, <1>4, <1>5, <1>6, <1>7, <1>8, <1>9 DEF Pth!Next

LEMMA PthreadInvariance == MCSpec => []PthreadInv
  <1>1. MCInit => PthreadInv  BY PthreadInitInv DEF MCInit
  <1>2. PthreadInv /\ [MCNext]_AllVars => PthreadInv'
    <2>1. ASSUME PthreadInv, UNCHANGED ofPthread PROVE PthreadInv'
      BY <2>1 DEF ofPthread, PthreadInv
    <2> QED  BY <2>1, PthreadNextInv DEF MCNext, AllVars
  <1> QED  BY <1>1, <1>2, PTL DEF MCSpec

\* However cancellation is requested, enabled and made asynchronous, and whatever
\* priorities are set meanwhile: what k_thread_cancel, k_thread_cancel_qstate and
\* k_thread_cancel_qtype leave to the signal of cancellation is in the thread's
\* queue, unless the queue was full or a signal mask enabled it; and a thread that
\* has ended gives its true result, unless it was cancelled while it was ending, for
\* any number of threads.
THEOREM CancellationsTakeEffect == MCSpec => []ThreadsEndAsAsked
  <1>1. PthreadInv => ThreadsEndAsAsked
    BY DEF PthreadInv, EndsAsAsked, ThreadsEndAsAsked, Pth!ThreadsEndAsAsked, Pth!Runs
  <1> QED  BY <1>1, PthreadInvariance, PTL

\* posix_to_zephyr_priority and zephyr_to_posix_priority are inverse on the
\* priorities that a policy has, and the attribute functions keep an object that
\* pthread_create accepts: what was asked for is read back, for any number of
\* cooperative and preemptive priorities and any stack sizes.
THEOREM PrioritiesAreKept == MCSpec => []PrioritiesReadBack
  <1>1. PthreadInv => PrioritiesReadBack
    <2> SUFFICES ASSUME PthreadInv PROVE Pth!PrioritiesReadBack
      BY DEF PrioritiesReadBack
    <2>1. PICK a \in Attrs : a = attr /\ StackSuffices(a)  BY DEF PthreadInv
    <2>2. a.stacksize \in Int /\ a.policy \in Pth!Policies  BY DEF Attrs
    <2>3. a.initialized =>
            /\ Pth!posix_thread_attr_is_valid(a)
            /\ Pth!pthread_attr_getstacksize(a) >= StackMin
            /\ Pth!pthread_attr_getstack(a).size \in {0, Pth!pthread_attr_getstacksize(a)}
      BY <2>1, <2>2, ThreadsAssumption DEF StackSuffices, Pth!posix_thread_attr_is_valid,
         Pth!pthread_attr_getstacksize, Pth!pthread_attr_getstack
    <2>4. ASSUME NEW t \in Slots, order = "policy first", Pth!Runs(t), pth[t].asked # "none"
          PROVE  LET got == Pth!pthread_getschedparam(t) IN
                 /\ got.prio = pth[t].prio
                 /\ got.policy = (IF pth[t].asked = "SCHED_OTHER" THEN "SCHED_RR" ELSE pth[t].asked)
                 /\ Pth!is_posix_policy_prio_valid(got.prio, got.policy)
      <3>1. PICK k \in PThreads : k = pth[t]  BY DEF PthreadInv
      <3>2. k.asked \in Asked  BY DEF PThreads
      <3>3. k.asked \in Pth!Policies  BY <2>4, <3>1, <3>2 DEF Asked, Pth!Policies
      <3>4. /\ Pth!is_posix_policy_prio_valid(k.prio, k.asked)
            /\ k.zprio = Pth!posix_to_zephyr_priority(k.prio, k.asked)
        BY <2>4, <3>1 DEF PthreadInv, KeepsPriority, Pth!Runs
      <3>5. Pth!pthread_getschedparam(t)
              = Pth!zephyr_to_posix_priority(Pth!posix_to_zephyr_priority(k.prio, k.asked))
        BY <3>1, <3>4 DEF Pth!pthread_getschedparam
      <3> QED  BY <3>1, <3>3, <3>4, <3>5, PrioritiesConvert
    <2> QED  BY <2>1, <2>3, <2>4 DEF Pth!PrioritiesReadBack
  <1> QED  BY <1>1, PthreadInvariance, PTL

-----------------------------------------------------------------------------
(* Timers *)

Armings == {"off", "once", "periodic"}
Timers == [kind : Tmr!Kinds \cup {"free"}, active : BOOLEAN, reload : BOOLEAN, armed : Armings,
           expiries : Int, sem : {0, 1}, thread : Workers \cup {NULL}]
Notifiers == [pc : {"free", "start", "top", "take", "wait", "woken", "call"},
              tm : TimerObjs \cup {NULL}, cancelled : BOOLEAN]
TimerCalls == [pc : {"idle", "arm", "wake", "cancel", "release"},
               tm : TimerObjs \cup {NULL}, how : Armings]

TimerTypes ==
    /\ timer \in [TimerObjs -> Timers]
    /\ worker \in [Workers -> Notifiers]
    /\ tcall \in TimerCalls
    /\ due \in [TimerObjs -> {0, 1}]

\* The call that is being made: the timer of a timer_delete has been stopped, and
\* its thread, if it has one, waits until it is woken.
CallKnows ==
    IF tcall.pc = "idle" THEN tcall.tm = NULL
    ELSE /\ tcall.tm \in TimerObjs
         /\ LET o == tcall.tm IN
            /\ timer[o].kind # "free"
            /\ tcall.pc = "arm" => tcall.how # "off" /\ timer[o].reload = (tcall.how = "periodic")
            /\ tcall.pc # "arm" => timer[o].armed = "off" /\ ~timer[o].active
            /\ tcall.pc # "arm" /\ timer[o].kind = "thread" => due[o] = 0
            /\ tcall.pc \in {"wake", "cancel"} => timer[o].kind = "thread"
            /\ tcall.pc \in {"arm", "wake"} => Tmr!Parked(o)
            /\ tcall.pc \in {"cancel", "release"} /\ timer[o].kind = "thread" =>
                  /\ worker[timer[o].thread].pc \in {"woken", "free"}
                  /\ worker[timer[o].thread].tm \in {NULL, o}

Deletes(o) == tcall.tm = o /\ tcall.pc \in {"cancel", "release"}

\* A thread belongs to the timer that names it, or has been woken to end; only one
\* that ends has been cancelled.
ThreadsBelong == \A w \in Workers :
    IF worker[w].pc = "free" THEN worker[w].tm = NULL
    ELSE /\ worker[w].tm \in TimerObjs
         /\ LET o == worker[w].tm IN
            /\ worker[w].cancelled => worker[w].pc = "woken" /\ (timer[o].kind = "free" \/ Deletes(o))
            /\ \/ timer[o].kind = "thread" /\ timer[o].thread = w
               \/ timer[o].kind = "free" /\ worker[w].pc = "woken"

\* What each timer's status word, kernel timer and semaphore say of each other.
TimerSays(o) ==
    /\ timer[o].kind = "free" => timer[o].armed = "off" /\ ~timer[o].active
    /\ timer[o].armed # "off" => timer[o].active
    /\ timer[o].armed = "periodic" /\ tcall.tm # o => timer[o].reload

\* What its thread may rely on: the status word is set whenever it is going to
\* be looked at, and a notification that is owed is in the semaphore or on its way.
ThreadMay(o) == timer[o].kind = "thread" =>
    /\ timer[o].thread \in Workers
    /\ ~Deletes(o) =>
       LET w == worker[timer[o].thread] IN
       /\ w.pc # "free" /\ w.tm = o
       /\ w.pc = "start" => timer[o].armed = "off" /\ timer[o].sem = 0 /\ due[o] = 0
       /\ timer[o].armed = "once" => w.pc = "wait"
       /\ timer[o].sem = 1 => timer[o].active /\ timer[o].reload /\ w.pc # "wait"
       /\ w.pc \in {"woken", "call"} => timer[o].active
       /\ due[o] = 1 => w.pc \in {"woken", "call"} \/ timer[o].sem = 1

TimerSound ==
    /\ TimerTypes
    /\ ~bystander
    /\ CallKnows
    /\ ThreadsBelong
    /\ \A o \in TimerObjs : TimerSays(o) /\ ThreadMay(o)

TimerInv == manner = "calm" => TimerSound

LEMMA StoppedIs ==
  ASSUME NEW k \in Timers
  PROVE  LET r == Tmr!Stopped(k) IN
         /\ r \in Timers /\ ~r.active
         /\ (k.armed # "off" => k.active) => r.armed = "off"
         /\ r.kind = k.kind /\ r.reload = k.reload /\ r.sem = k.sem /\ r.thread = k.thread
  BY DEF Timers, Tmr!Stopped, Armings

LEMMA CountedIs ==
  ASSUME NEW k \in Timers
  PROVE  LET r == [k EXCEPT !.expiries = 0] IN
         /\ r \in Timers /\ r.active = k.active /\ r.armed = k.armed
         /\ r.kind = k.kind /\ r.reload = k.reload /\ r.sem = k.sem /\ r.thread = k.thread
  BY DEF Timers

LEMMA StartedIs ==
  ASSUME NEW k \in Timers, NEW how \in Armings
  PROVE  LET r == Tmr!Started(k, how) IN
         /\ r \in Timers /\ r.active /\ r.armed = how
         /\ r.kind = k.kind /\ r.reload = k.reload /\ r.sem = k.sem /\ r.thread = k.thread
  <1> DEFINE c == [k EXCEPT !.active = TRUE]
  <1>1. /\ c \in Timers /\ c.active
        /\ c.kind = k.kind /\ c.reload = k.reload /\ c.sem = k.sem /\ c.thread = k.thread
    BY DEF Timers
  <1> HIDE DEF c
  <1> DEFINE d == [c EXCEPT !.armed = how]
  <1>2. /\ d \in Timers /\ d.active = c.active /\ d.armed = how
        /\ d.kind = c.kind /\ d.reload = c.reload /\ d.sem = c.sem /\ d.thread = c.thread
    BY <1>1 DEF Timers
  <1> HIDE DEF d
  <1> DEFINE r == [d EXCEPT !.expiries = 0]
  <1>3. /\ r \in Timers /\ r.active = d.active /\ r.armed = d.armed
        /\ r.kind = d.kind /\ r.reload = d.reload /\ r.sem = d.sem /\ r.thread = d.thread
    BY <1>2, CountedIs
  <1>4. r = Tmr!Started(k, how)  BY DEF c, d, Tmr!Started
  <1> HIDE DEF r
  <1> QED  BY <1>1, <1>2, <1>3, <1>4

LEMMA ExpiredIs ==
  ASSUME NEW k \in Timers
  PROVE  LET r == Tmr!Expired(k) IN
         /\ r \in Timers /\ r.active = k.active
         /\ r.armed = (IF k.armed = "periodic" THEN "periodic" ELSE "off")
         /\ r.kind = k.kind /\ r.reload = k.reload /\ r.sem = k.sem /\ r.thread = k.thread
  <1>1. k.expiries \in Int /\ k.armed \in Armings  BY DEF Timers
  <1>2. PICK n \in Int : n = IF k.expiries < MaxOverrun THEN k.expiries + 1 ELSE k.expiries
    BY <1>1
  <1>3. PICK a \in Armings : a = IF k.armed = "periodic" THEN "periodic" ELSE "off"
    BY DEF Armings
  <1>4. Tmr!Expired(k) = [k EXCEPT !.expiries = n, !.armed = a]
    BY <1>2, <1>3 DEF Tmr!Expired, Timers
  <1>5. LET r == [k EXCEPT !.expiries = n, !.armed = a] IN
        /\ r \in Timers /\ r.active = k.active /\ r.armed = a
        /\ r.kind = k.kind /\ r.reload = k.reload /\ r.sem = k.sem /\ r.thread = k.thread
    BY DEF Timers
  <1> QED  BY <1>3, <1>4, <1>5

LEMMA SettledIs ==
  ASSUME NEW k \in Timers
  PROVE  LET r == Tmr!Settled(k) IN
         /\ r \in Timers /\ (r.active <=> k.active /\ k.reload) /\ r.armed = k.armed
         /\ r.kind = k.kind /\ r.reload = k.reload /\ r.sem = k.sem /\ r.thread = k.thread
  BY DEF Timers, Tmr!Settled

LEMMA SemIs ==
  ASSUME NEW k \in Timers, NEW n \in {0, 1}
  PROVE  LET r == [k EXCEPT !.sem = n] IN
         /\ r \in Timers /\ r.active = k.active /\ r.armed = k.armed
         /\ r.kind = k.kind /\ r.reload = k.reload /\ r.sem = n /\ r.thread = k.thread
  BY DEF Timers

LEMMA ReloadIs ==
  ASSUME NEW k \in Timers, NEW b \in BOOLEAN
  PROVE  LET r == [k EXCEPT !.reload = b] IN
         /\ r \in Timers /\ r.active = k.active /\ r.armed = k.armed
         /\ r.kind = k.kind /\ r.reload = b /\ r.sem = k.sem /\ r.thread = k.thread
  BY DEF Timers

LEMMA UnallocatedIs ==
  LET u == Tmr!Unallocated IN
  u \in Timers /\ u.kind = "free" /\ ~u.active /\ ~u.reload /\ u.armed = "off" /\ u.sem = 0
  BY DEF Timers, Tmr!Unallocated, Armings

LEMMA NewTimerIs ==
  ASSUME NEW kind \in Tmr!Kinds
  PROVE  LET r == [Tmr!Unallocated EXCEPT !.kind = kind] IN
         /\ r \in Timers /\ ~r.active /\ r.armed = "off"
         /\ r.kind = kind /\ r.sem = 0
  BY UnallocatedIs DEF Timers

LEMMA NewThreadTimerIs ==
  ASSUME NEW w \in Workers
  PROVE  LET r == [Tmr!Unallocated EXCEPT !.kind = "thread", !.thread = w] IN
         /\ r \in Timers /\ ~r.active /\ r.armed = "off"
         /\ r.kind = "thread" /\ r.sem = 0 /\ r.thread = w
  <1>1. "thread" \in Tmr!Kinds  BY DEF Tmr!Kinds
  <1> QED  BY <1>1, UnallocatedIs DEF Timers

LEMMA WorkerIs ==
  ASSUME NEW k \in Notifiers, NEW pc \in {"start", "top", "take", "wait", "woken", "call"}
  PROVE  LET r == [k EXCEPT !.pc = pc] IN
         r \in Notifiers /\ r.pc = pc /\ r.tm = k.tm /\ r.cancelled = k.cancelled
  BY DEF Notifiers

LEMMA NewWorkerIs ==
  ASSUME NEW o \in TimerObjs
  PROVE  LET r == [Tmr!NoWorker EXCEPT !.pc = "start", !.tm = o] IN
         r \in Notifiers /\ r.pc = "start" /\ r.tm = o /\ ~r.cancelled
  BY DEF Notifiers, Tmr!NoWorker

LEMMA NoWorkerIs == /\ Tmr!NoWorker \in Notifiers /\ Tmr!NoWorker.pc = "free"
                    /\ Tmr!NoWorker.tm = NULL
  BY DEF Notifiers, Tmr!NoWorker

LEMMA TimerInitInv == Tmr!Init => TimerInv
  BY ThreadsAssumption DEF Tmr!Init, Tmr!Unallocated, Tmr!NoWorker, Tmr!NoCall, TimerInv, TimerSound,
     TimerTypes, Timers, Notifiers, TimerCalls, Armings, CallKnows, ThreadsBelong, TimerSays, ThreadMay

\* One timer changes.
LEMMA TimerChanges ==
  ASSUME TimerTypes, NEW o \in TimerObjs, NEW r \in Timers, timer' = [timer EXCEPT ![o] = r]
  PROVE  /\ timer' \in [TimerObjs -> Timers] /\ timer'[o] = r
         /\ \A p \in TimerObjs : p # o => timer'[p] = timer[p]
  BY DEF TimerTypes

\* An expiry without a thread leaves the thread, the semaphore and the debt alone.
LEMMA ExpireInv ==
  ASSUME TimerSound, manner = "calm", NEW o \in TimerObjs, Tmr!ExpireNone(o) \/ Tmr!ExpireSignal(o)
  PROVE  TimerSound'
  <1>1. PICK k \in Timers : k = timer[o]  BY DEF TimerSound, TimerTypes
  <1>2. /\ tcall.tm # o /\ k.armed # "off" /\ k.kind \in {"none", "signal"}
        /\ UNCHANGED <<worker, tcall, due, bystander>>
    BY <1>1 DEF Tmr!ExpireNone, Tmr!ExpireSignal, Tmr!CanExpire
  <1>3. TimerSays(o)  BY DEF TimerSound
  <1>4. PICK r \in Timers :
          /\ timer' = [timer EXCEPT ![o] = r] /\ r.kind = k.kind
          /\ r.armed # "off" => r.active
          /\ r.armed = "periodic" => r.reload
    <2> DEFINE e == Tmr!Expired(k)
    <2>1. /\ e \in Timers /\ e.active = k.active
          /\ e.armed = (IF k.armed = "periodic" THEN "periodic" ELSE "off")
          /\ e.kind = k.kind /\ e.reload = k.reload
      BY ExpiredIs
    <2>2. CASE Tmr!ExpireNone(o)
      <3>1. timer' = [timer EXCEPT ![o] = e]  BY <1>1, <2>2 DEF Tmr!ExpireNone
      <3> HIDE DEF e
      <3> QED  BY <1>1, <1>2, <1>3, <2>1, <3>1 DEF TimerSays
    <2>3. CASE Tmr!ExpireSignal(o)
      <3> DEFINE f == Tmr!Settled(e)
      <3>1. timer' = [timer EXCEPT ![o] = f]  BY <1>1, <2>3 DEF Tmr!ExpireSignal
      <3> HIDE DEF e
      <3>2. f \in Timers /\ (f.active <=> e.active /\ e.reload) /\ f.armed = e.armed
            /\ f.kind = e.kind /\ f.reload = e.reload
        BY <2>1, SettledIs
      <3> HIDE DEF f
      <3> QED  BY <1>1, <1>2, <1>3, <2>1, <3>1, <3>2 DEF TimerSays
    <2> QED  BY <2>2, <2>3
  <1>5. /\ timer' \in [TimerObjs -> Timers] /\ timer'[o] = r
        /\ \A p \in TimerObjs : p # o => timer'[p] = timer[p]
    BY <1>4, TimerChanges DEF TimerSound
  <1>6. TimerTypes'  BY <1>2, <1>5 DEF TimerSound, TimerTypes
  <1>7. CallKnows'  BY <1>2, <1>5 DEF TimerSound, CallKnows, Tmr!Parked
  <1>8. ThreadsBelong'  BY <1>1, <1>2, <1>5 DEF TimerSound, ThreadsBelong, Deletes
  <1>9. \A p \in TimerObjs : TimerSays(p)'
    BY <1>1, <1>2, <1>4, <1>5 DEF TimerSound, TimerSays
  <1>10. \A p \in TimerObjs : ThreadMay(p)'
    BY <1>1, <1>2, <1>4, <1>5 DEF TimerSound, ThreadMay, Deletes
  <1> QED  BY <1>2, <1>6, <1>7, <1>8, <1>9, <1>10 DEF TimerSound

\* One thread changes.
LEMMA WorkerChanges ==
  ASSUME TimerTypes, NEW w \in Workers, NEW n \in Notifiers, worker' = [worker EXCEPT ![w] = n]
  PROVE  /\ worker' \in [Workers -> Notifiers] /\ worker'[w] = n
         /\ \A v \in Workers : v # w => worker'[v] = worker[v]
  BY DEF TimerTypes

\* No timer but the one a thread was started for has it.
LEMMA NoOtherTimer ==
  ASSUME TimerSound, NEW w \in Workers, worker[w].pc # "free"
  PROVE  \A p \in TimerObjs : (p # worker[w].tm /\ timer[p].kind = "thread") => timer[p].thread # w
  <1> SUFFICES ASSUME NEW p \in TimerObjs, p # worker[w].tm, timer[p].kind = "thread", timer[p].thread = w
               PROVE  FALSE
    OBVIOUS
  <1>1. worker[w].tm \in TimerObjs  BY DEF TimerSound, ThreadsBelong
  <1>2. CASE Deletes(p)
    BY <1>1, <1>2, ThreadsAssumption DEF Deletes, TimerSound, CallKnows
  <1>3. CASE ~Deletes(p)
    BY <1>1, <1>3 DEF TimerSound, ThreadMay
  <1> QED  BY <1>2, <1>3

\* The timer of a thread that does not end.
LEMMA ThreadHasTimer ==
  ASSUME TimerSound, NEW w \in Workers, worker[w].pc \notin {"free", "woken"}
  PROVE  \E o \in TimerObjs :
           /\ worker[w].tm = o /\ timer[o].kind = "thread" /\ timer[o].thread = w
           /\ ~worker[w].cancelled
           /\ \A p \in TimerObjs : (p # o /\ timer[p].kind = "thread") => timer[p].thread # w
  <1>1. PICK o \in TimerObjs : /\ worker[w].tm = o /\ timer[o].kind = "thread" /\ timer[o].thread = w
                               /\ ~worker[w].cancelled
    BY DEF TimerSound, ThreadsBelong
  <1> QED  BY <1>1, NoOtherTimer

\* k_sem_give finds the timer's own thread waiting, or leaves the count.
LEMMA GiveIs ==
  ASSUME TimerSound, NEW o \in TimerObjs, timer[o].kind = "thread", NEW k \in Timers,
         Tmr!k_sem_give(o, k)
  PROVE  \E w \in Workers :
           /\ timer[o].thread = w
           /\ \/ /\ ~(worker[w].pc = "wait" /\ worker[w].tm = o)
                 /\ timer' = [timer EXCEPT ![o] = [k EXCEPT !.sem = 1]] /\ UNCHANGED worker
              \/ /\ worker[w].pc = "wait" /\ worker[w].tm = o
                 /\ timer' = [timer EXCEPT ![o] = k]
                 /\ worker' = [worker EXCEPT ![w] = [worker[w] EXCEPT !.pc = "woken"]]
  <1>1. PICK w \in Workers : w = timer[o].thread  BY DEF TimerSound, ThreadMay
  <1>2. CASE Tmr!Waiting(o) = {}
    <2>1. timer' = [timer EXCEPT ![o] = [k EXCEPT !.sem = 1]] /\ UNCHANGED worker
      BY <1>2 DEF Tmr!k_sem_give
    <2>2. ~(worker[w].pc = "wait" /\ worker[w].tm = o)  BY <1>2 DEF Tmr!Waiting
    <2> QED  BY <1>1, <2>1, <2>2
  <1>3. CASE Tmr!Waiting(o) # {}
    <2>1. PICK v \in Tmr!Waiting(o) :
            timer' = [timer EXCEPT ![o] = k] /\ worker' = [worker EXCEPT ![v].pc = "woken"]
      BY <1>3 DEF Tmr!k_sem_give
    <2>2. v \in Workers /\ worker[v].pc = "wait" /\ worker[v].tm = o  BY DEF Tmr!Waiting
    <2>3. v = w  BY <1>1, <2>2 DEF TimerSound, ThreadsBelong
    <2>4. worker' = [worker EXCEPT ![w] = [worker[w] EXCEPT !.pc = "woken"]]
      BY <2>1, <2>3 DEF TimerSound, TimerTypes
    <2> QED  BY <1>1, <2>1, <2>2, <2>3, <2>4
  <1> QED  BY <1>2, <1>3

\* zephyr_timer_interrupt: the thread waits, or the timer is periodic.
LEMMA ExpireThreadInv ==
  ASSUME TimerSound, manner = "calm", NEW o \in TimerObjs, Tmr!ExpireThread(o)
  PROVE  TimerSound'
  <1>1. PICK k \in Timers : k = timer[o]  BY DEF TimerSound, TimerTypes
  <1> DEFINE e == Tmr!Expired(k)
             r == [e EXCEPT !.sem = 1]
  <1>2. /\ tcall.tm # o /\ k.armed # "off" /\ k.kind = "thread"
        /\ UNCHANGED <<tcall, bystander>>
        /\ Tmr!k_sem_give(o, e) /\ due' = [due EXCEPT ![o] = 1]
    BY <1>1 DEF Tmr!ExpireThread, Tmr!CanExpire
  <1>3. TimerSays(o) /\ ThreadMay(o) /\ ~Deletes(o)  BY <1>2 DEF TimerSound, Deletes
  <1>4. /\ e \in Timers /\ e.active = k.active
        /\ e.armed = (IF k.armed = "periodic" THEN "periodic" ELSE "off")
        /\ e.kind = k.kind /\ e.reload = k.reload /\ e.sem = k.sem /\ e.thread = k.thread
    BY ExpiredIs
  <1> HIDE DEF e
  <1>5. /\ r \in Timers /\ r.active = e.active /\ r.armed = e.armed
        /\ r.kind = e.kind /\ r.reload = e.reload /\ r.sem = 1 /\ r.thread = e.thread
    BY <1>4, SemIs
  <1>6. PICK w \in Workers :
           /\ timer[o].thread = w
           /\ \/ /\ ~(worker[w].pc = "wait" /\ worker[w].tm = o)
                 /\ timer' = [timer EXCEPT ![o] = r] /\ UNCHANGED worker
              \/ /\ worker[w].pc = "wait" /\ worker[w].tm = o
                 /\ timer' = [timer EXCEPT ![o] = e]
                 /\ worker' = [worker EXCEPT ![w] = [worker[w] EXCEPT !.pc = "woken"]]
    BY <1>1, <1>2, <1>4, GiveIs
  <1> HIDE DEF r
  <1>7. due' \in [TimerObjs -> {0, 1}] /\ \A p \in TimerObjs : p # o => due'[p] = due[p]
    BY <1>2 DEF TimerSound, TimerTypes
  <1>8. k.active /\ (k.armed = "periodic" => k.reload)
    BY <1>1, <1>2, <1>3 DEF TimerSays
  <1>9. CASE ~(worker[w].pc = "wait" /\ worker[w].tm = o)
    <2>1. timer' = [timer EXCEPT ![o] = r] /\ UNCHANGED worker  BY <1>6, <1>9
    <2>2. /\ timer' \in [TimerObjs -> Timers] /\ timer'[o] = r
          /\ \A p \in TimerObjs : p # o => timer'[p] = timer[p]
      BY <1>5, <2>1, TimerChanges DEF TimerSound
    <2>3. k.armed = "periodic"
      <3>1. k.armed = "once" \/ k.armed = "periodic"  BY <1>2 DEF Timers, Armings
      <3> QED  BY <1>1, <1>2, <1>3, <1>6, <1>9, <3>1 DEF ThreadMay
    <2>4. TimerTypes'  BY <1>2, <1>7, <2>1, <2>2 DEF TimerSound, TimerTypes
    <2>5. CallKnows'  BY <1>2, <1>7, <2>1, <2>2 DEF TimerSound, CallKnows, Tmr!Parked
    <2>6. ThreadsBelong'
      BY <1>1, <1>2, <1>4, <1>5, <2>1, <2>2 DEF TimerSound, ThreadsBelong, Deletes
    <2>7. \A p \in TimerObjs : TimerSays(p)'
      BY <1>1, <1>2, <1>4, <1>5, <2>2 DEF TimerSound, TimerSays
    <2>8. ThreadMay(o)'
      <3>1. worker[w].tm = o /\ worker[w].pc \notin {"free", "wait", "start"}
        BY <1>1, <1>2, <1>3, <1>6, <1>9 DEF ThreadMay
      <3>2. r.active /\ r.reload /\ r.armed = "periodic" /\ r.sem = 1 /\ r.thread = w
        BY <1>1, <1>4, <1>5, <1>6, <1>8, <2>3
      <3> QED  BY <2>1, <2>2, <3>1, <3>2 DEF ThreadMay
    <2>9. \A p \in TimerObjs : p # o => ThreadMay(p)'
      BY <1>2, <1>7, <2>1, <2>2 DEF TimerSound, ThreadMay, Deletes
    <2> QED  BY <1>2, <2>4, <2>5, <2>6, <2>7, <2>8, <2>9 DEF TimerSound
  <1>10. CASE worker[w].pc = "wait" /\ worker[w].tm = o
    <2>1. PICK n \in Notifiers : n = worker[w]  BY DEF TimerSound, TimerTypes
    <2> DEFINE m == [n EXCEPT !.pc = "woken"]
    <2>2. timer' = [timer EXCEPT ![o] = e] /\ worker' = [worker EXCEPT ![w] = m]
      BY <1>6, <1>10, <2>1
    <2>3. m \in Notifiers /\ m.pc = "woken" /\ m.tm = n.tm /\ m.cancelled = n.cancelled
      BY WorkerIs
    <2> HIDE DEF m
    <2>4. /\ timer' \in [TimerObjs -> Timers] /\ timer'[o] = e
          /\ \A p \in TimerObjs : p # o => timer'[p] = timer[p]
      BY <1>4, <2>2, TimerChanges DEF TimerSound
    <2>5. /\ worker' \in [Workers -> Notifiers] /\ worker'[w] = m
          /\ \A v \in Workers : v # w => worker'[v] = worker[v]
      BY <2>2, <2>3, WorkerChanges DEF TimerSound
    <2>6. \A p \in TimerObjs : (p # o /\ timer[p].kind = "thread") => timer[p].thread # w
      <3>1. PICK q \in TimerObjs :
              /\ worker[w].tm = q
              /\ \A p \in TimerObjs : (p # q /\ timer[p].kind = "thread") => timer[p].thread # w
        BY <1>10, ThreadHasTimer
      <3> QED  BY <1>10, <3>1
    <2>7. TimerTypes'  BY <1>2, <1>7, <2>4, <2>5 DEF TimerSound, TimerTypes
    <2>8. CallKnows'
      <3>1. CASE tcall.pc = "idle"  BY <1>2, <3>1 DEF TimerSound, CallKnows
      <3>2. CASE tcall.pc # "idle"
        <4>1. PICK p \in TimerObjs : p = tcall.tm /\ p # o
          BY <1>2, <3>2 DEF TimerSound, CallKnows
        <4>2. timer[p].kind = "thread" => timer[p].thread \in Workers /\ timer[p].thread # w
          BY <2>6, <4>1 DEF TimerSound, ThreadMay
        <4> QED  BY <1>2, <1>7, <2>4, <2>5, <3>2, <4>1, <4>2 DEF TimerSound, CallKnows, Tmr!Parked
      <3> QED  BY <3>1, <3>2
    <2>9. ThreadsBelong'
      BY <1>1, <1>2, <1>4, <1>6, <1>10, <2>1, <2>3, <2>4, <2>5 DEF TimerSound, ThreadsBelong, Deletes
    <2>10. \A p \in TimerObjs : TimerSays(p)'
      BY <1>1, <1>2, <1>4, <2>4 DEF TimerSound, TimerSays
    <2>11. ThreadMay(o)'
      BY <1>1, <1>2, <1>3, <1>4, <1>6, <1>8, <1>10, <2>1, <2>3, <2>4, <2>5 DEF ThreadMay, Deletes
    <2>12. \A p \in TimerObjs : p # o => ThreadMay(p)'
      BY <1>2, <1>7, <2>4, <2>5, <2>6 DEF TimerSound, ThreadMay, Deletes
    <2> QED  BY <1>2, <2>7, <2>8, <2>9, <2>10, <2>11, <2>12 DEF TimerSound
  <1> QED  BY <1>9, <1>10

-----------------------------------------------------------------------------
\* The program's calls begin on a timer whose thread, if it has one, waits.
LEMMA BeginsParked ==
  ASSUME TimerSound, manner = "calm", NEW o \in TimerObjs, Tmr!Begins(o)
  PROVE  /\ tcall.pc = "idle" /\ tcall.tm = NULL /\ timer[o].kind # "free" /\ Tmr!Parked(o)
         /\ timer[o].kind = "thread" => /\ timer[o].sem = 0 /\ timer[o].thread \in Workers
                                        /\ worker[timer[o].thread].pc = "wait"
                                        /\ worker[timer[o].thread].tm = o
                                        /\ due[o] = 0
  <1>1. tcall.pc = "idle" /\ tcall.tm = NULL /\ timer[o].kind # "free" /\ Tmr!Parked(o)
    BY DEF Tmr!Begins, TimerSound, CallKnows
  <1>2. ThreadMay(o) /\ ~Deletes(o) /\ due[o] \in {0, 1}
    BY <1>1 DEF TimerSound, TimerTypes, Deletes
  <1> QED  BY <1>1, <1>2 DEF Tmr!Parked, ThreadMay

LEMMA ThreadsStay ==
  ASSUME TimerSound, UNCHANGED worker, \A q : ~Deletes(q),
         \A q \in TimerObjs : timer'[q].kind = timer[q].kind /\ timer'[q].thread = timer[q].thread
  PROVE  ThreadsBelong'
  BY DEF TimerSound, ThreadsBelong

LEMMA DisarmInv ==
  ASSUME TimerSound, manner = "calm", NEW o \in TimerObjs, Tmr!Disarm(o)
  PROVE  TimerSound'
  <1>1. PICK k \in Timers : k = timer[o]  BY DEF TimerSound, TimerTypes
  <1> DEFINE r == Tmr!Stopped(k)
  <1>2. timer' = [timer EXCEPT ![o] = r] /\ UNCHANGED <<worker, tcall, due, bystander>> /\ Tmr!Begins(o)
    BY <1>1 DEF Tmr!Disarm
  <1>3. TimerSays(o) /\ ThreadMay(o)  BY DEF TimerSound
  <1>4. /\ r \in Timers /\ ~r.active /\ r.armed = "off"
        /\ r.kind = k.kind /\ r.reload = k.reload /\ r.sem = k.sem /\ r.thread = k.thread
    BY <1>1, <1>3, StoppedIs DEF TimerSays
  <1> HIDE DEF r
  <1>5. /\ timer' \in [TimerObjs -> Timers] /\ timer'[o] = r
        /\ \A p \in TimerObjs : p # o => timer'[p] = timer[p]
    BY <1>2, <1>4, TimerChanges DEF TimerSound
  <1>6. /\ tcall.pc = "idle" /\ tcall.tm = NULL
        /\ k.kind = "thread" => k.sem = 0 /\ worker[k.thread].pc = "wait" /\ due[o] = 0
    BY <1>1, <1>2, BeginsParked
  <1>7. TimerTypes'  BY <1>2, <1>5 DEF TimerSound, TimerTypes
  <1>8. CallKnows'  BY <1>2, <1>6 DEF TimerSound, CallKnows
  <1>9. ThreadsBelong'  BY <1>1, <1>2, <1>4, <1>5 DEF TimerSound, ThreadsBelong, Deletes
  <1>10. \A p \in TimerObjs : TimerSays(p)'
    BY <1>1, <1>2, <1>4, <1>5 DEF TimerSound, TimerSays
  <1>11. ThreadMay(o)'
    BY <1>1, <1>2, <1>3, <1>4, <1>5, <1>6 DEF ThreadMay, Deletes
  <1>12. \A p \in TimerObjs : p # o => ThreadMay(p)'
    BY <1>2, <1>5 DEF TimerSound, ThreadMay, Deletes
  <1> QED  BY <1>2, <1>7, <1>8, <1>9, <1>10, <1>11, <1>12 DEF TimerSound

LEMMA GetOverrunInv ==
  ASSUME TimerSound, manner = "calm", NEW o \in TimerObjs, Tmr!GetOverrun(o)
  PROVE  TimerSound'
  <1>1. PICK k \in Timers : k = timer[o]  BY DEF TimerSound, TimerTypes
  <1> DEFINE r == [k EXCEPT !.expiries = 0]
  <1>2. timer' = [timer EXCEPT ![o] = r] /\ UNCHANGED <<worker, tcall, due, bystander>> /\ Tmr!Begins(o)
    BY <1>1 DEF Tmr!GetOverrun
  <1>3. /\ r \in Timers /\ r.active = k.active /\ r.armed = k.armed
        /\ r.kind = k.kind /\ r.reload = k.reload /\ r.sem = k.sem /\ r.thread = k.thread
    BY CountedIs
  <1> HIDE DEF r
  <1>4. /\ timer' \in [TimerObjs -> Timers] /\ timer'[o] = r
        /\ \A p \in TimerObjs : p # o => timer'[p] = timer[p]
    BY <1>2, <1>3, TimerChanges DEF TimerSound
  <1>5. tcall.pc = "idle" /\ tcall.tm = NULL  BY <1>2, BeginsParked
  <1>6. TimerTypes'  BY <1>2, <1>4 DEF TimerSound, TimerTypes
  <1>7. CallKnows'  BY <1>2, <1>5 DEF TimerSound, CallKnows
  <1>8. ThreadsBelong'  BY <1>1, <1>2, <1>3, <1>4 DEF TimerSound, ThreadsBelong, Deletes
  <1>9. \A p \in TimerObjs : TimerSays(p)'
    BY <1>1, <1>2, <1>3, <1>4 DEF TimerSound, TimerSays
  <1>10. \A p \in TimerObjs : ThreadMay(p)'
    BY <1>1, <1>2, <1>3, <1>4 DEF TimerSound, ThreadMay, Deletes
  <1> QED  BY <1>2, <1>6, <1>7, <1>8, <1>9, <1>10 DEF TimerSound

\* timer_settime: between the period and the start no expiry is handled.
LEMMA SetReloadInv ==
  ASSUME TimerSound, manner = "calm", NEW o \in TimerObjs, NEW how \in {"once", "periodic"},
         Tmr!SetReload(o, how)
  PROVE  TimerSound'
  <1>1. PICK k \in Timers : k = timer[o]  BY DEF TimerSound, TimerTypes
  <1>2. PICK b \in BOOLEAN : b = (how = "periodic")  OBVIOUS
  <1> DEFINE r == [k EXCEPT !.reload = b]
  <1>3. /\ timer' = [timer EXCEPT ![o] = r] /\ UNCHANGED <<worker, due, bystander>> /\ Tmr!Begins(o)
        /\ tcall' = [pc |-> "arm", tm |-> o, how |-> how]
    BY <1>1, <1>2 DEF Tmr!SetReload
  <1>4. /\ r \in Timers /\ r.active = k.active /\ r.armed = k.armed
        /\ r.kind = k.kind /\ r.reload = b /\ r.sem = k.sem /\ r.thread = k.thread
    BY ReloadIs
  <1> HIDE DEF r
  <1>5. /\ timer' \in [TimerObjs -> Timers] /\ timer'[o] = r
        /\ \A p \in TimerObjs : p # o => timer'[p] = timer[p]
    BY <1>3, <1>4, TimerChanges DEF TimerSound
  <1>6. /\ tcall.pc = "idle" /\ tcall.tm = NULL /\ k.kind # "free"
        /\ k.kind = "thread" => k.sem = 0 /\ k.thread \in Workers /\ worker[k.thread].pc = "wait"
    BY <1>1, <1>3, BeginsParked
  <1>7. tcall' \in TimerCalls /\ tcall'.pc = "arm" /\ tcall'.tm = o /\ tcall'.how = how
    BY <1>3 DEF TimerCalls, Armings
  <1>8. TimerTypes'  BY <1>3, <1>5, <1>7 DEF TimerSound, TimerTypes
  <1>9. CallKnows'
    BY <1>1, <1>2, <1>3, <1>4, <1>5, <1>6, <1>7, ThreadsAssumption DEF CallKnows, Tmr!Parked
  <1>10. ThreadsBelong'
    <2>1. \A q : ~Deletes(q)  BY <1>6 DEF Deletes
    <2>2. \A q \in TimerObjs : timer'[q].kind = timer[q].kind /\ timer'[q].thread = timer[q].thread
      BY <1>1, <1>4, <1>5
    <2> QED  BY <1>3, <2>1, <2>2, ThreadsStay
  <1>11. \A p \in TimerObjs : TimerSays(p)'
    BY <1>1, <1>4, <1>5, <1>6, <1>7, ThreadsAssumption DEF TimerSound, TimerSays
  <1>12. \A p \in TimerObjs : ThreadMay(p)'
    BY <1>1, <1>3, <1>4, <1>5, <1>6, <1>7, ThreadsAssumption DEF TimerSound, ThreadMay, Deletes
  <1> QED  BY <1>3, <1>8, <1>9, <1>10, <1>11, <1>12 DEF TimerSound

LEMMA ArmInv == ASSUME TimerSound, manner = "calm", Tmr!Arm PROVE TimerSound'
  <1>1. PICK o \in TimerObjs : o = tcall.tm  BY DEF Tmr!Arm, TimerSound, CallKnows
  <1>2. PICK k \in Timers : k = timer[o]  BY DEF TimerSound, TimerTypes
  <1>3. PICK how \in Armings : how = tcall.how  BY DEF TimerSound, TimerTypes, TimerCalls
  <1> DEFINE r == Tmr!Started(k, how)
  <1>4. /\ timer' = [timer EXCEPT ![o] = r] /\ UNCHANGED <<worker, due, bystander>>
        /\ tcall.pc = "arm" /\ tcall' = Tmr!NoCall
    BY <1>1, <1>2, <1>3 DEF Tmr!Arm
  <1>5. /\ r \in Timers /\ r.active /\ r.armed = how
        /\ r.kind = k.kind /\ r.reload = k.reload /\ r.sem = k.sem /\ r.thread = k.thread
    BY StartedIs
  <1> HIDE DEF r
  <1>6. /\ timer' \in [TimerObjs -> Timers] /\ timer'[o] = r
        /\ \A p \in TimerObjs : p # o => timer'[p] = timer[p]
    BY <1>4, <1>5, TimerChanges DEF TimerSound
  <1>7. /\ k.kind # "free" /\ how # "off" /\ (how = "periodic" => k.reload)
        /\ k.kind = "thread" => k.sem = 0 /\ worker[k.thread].pc = "wait"
    BY <1>1, <1>2, <1>3, <1>4 DEF TimerSound, CallKnows, Tmr!Parked
  <1>8. tcall' \in TimerCalls /\ tcall'.pc = "idle" /\ tcall'.tm = NULL
    BY <1>4 DEF Tmr!NoCall, TimerCalls, Armings
  <1>9. TimerTypes'  BY <1>4, <1>6, <1>8 DEF TimerSound, TimerTypes
  <1>10. CallKnows'  BY <1>8 DEF CallKnows
  <1>11. ThreadsBelong'  BY <1>2, <1>4, <1>5, <1>6 DEF TimerSound, ThreadsBelong, Deletes
  <1>12. \A p \in TimerObjs : TimerSays(p)'
    BY <1>1, <1>2, <1>5, <1>6, <1>7, <1>8 DEF TimerSound, TimerSays
  <1>13. ThreadMay(o)'
    <2>1. ThreadMay(o) /\ ~Deletes(o)  BY <1>4 DEF TimerSound, Deletes
    <2> QED  BY <1>2, <1>4, <1>5, <1>6, <1>7, <2>1 DEF ThreadMay
  <1>14. \A p \in TimerObjs : p # o => ThreadMay(p)'
    BY <1>1, <1>4, <1>6, <1>8 DEF TimerSound, ThreadMay, Deletes
  <1> QED  BY <1>4, <1>9, <1>10, <1>11, <1>12, <1>13, <1>14 DEF TimerSound

\* timer_delete
LEMMA DeleteStopInv ==
  ASSUME TimerSound, manner = "calm", NEW o \in TimerObjs, Tmr!DeleteStop(o)
  PROVE  TimerSound'
  <1>1. PICK k \in Timers : k = timer[o]  BY DEF TimerSound, TimerTypes
  <1>2. PICK pc \in {"wake", "release"} : pc = IF k.kind = "thread" THEN "wake" ELSE "release"
    OBVIOUS
  <1> DEFINE r == Tmr!Stopped(k)
  <1>3. /\ timer' = [timer EXCEPT ![o] = r] /\ UNCHANGED <<worker, due, bystander>> /\ Tmr!Begins(o)
        /\ tcall' = [Tmr!NoCall EXCEPT !.pc = pc, !.tm = o]
    BY <1>1, <1>2 DEF Tmr!DeleteStop
  <1>4. TimerSays(o) /\ ThreadMay(o)  BY DEF TimerSound
  <1>5. /\ r \in Timers /\ ~r.active /\ r.armed = "off"
        /\ r.kind = k.kind /\ r.reload = k.reload /\ r.sem = k.sem /\ r.thread = k.thread
    BY <1>1, <1>4, StoppedIs DEF TimerSays
  <1> HIDE DEF r
  <1>6. /\ timer' \in [TimerObjs -> Timers] /\ timer'[o] = r
        /\ \A p \in TimerObjs : p # o => timer'[p] = timer[p]
    BY <1>3, <1>5, TimerChanges DEF TimerSound
  <1>7. /\ tcall.pc = "idle" /\ tcall.tm = NULL /\ k.kind # "free"
        /\ k.kind = "thread" => /\ k.sem = 0 /\ k.thread \in Workers /\ worker[k.thread].pc = "wait"
                                /\ due[o] = 0
    BY <1>1, <1>3, BeginsParked
  <1>8. tcall' \in TimerCalls /\ tcall'.pc = pc /\ tcall'.tm = o
    BY <1>3 DEF TimerCalls, Tmr!NoCall, Armings
  <1>9. TimerTypes'  BY <1>3, <1>6, <1>8 DEF TimerSound, TimerTypes
  <1>10. CallKnows'
    BY <1>1, <1>2, <1>3, <1>5, <1>6, <1>7, <1>8, ThreadsAssumption DEF CallKnows, Tmr!Parked
  <1>11. ThreadsBelong'
    <2>1. \A q : ~Deletes(q)  BY <1>7 DEF Deletes
    <2>2. \A q \in TimerObjs : timer'[q].kind = timer[q].kind /\ timer'[q].thread = timer[q].thread
      BY <1>1, <1>5, <1>6
    <2> QED  BY <1>3, <2>1, <2>2, ThreadsStay
  <1>12. \A p \in TimerObjs : TimerSays(p)'
    BY <1>1, <1>5, <1>6, <1>7, <1>8, ThreadsAssumption DEF TimerSound, TimerSays
  <1>13. ThreadMay(o)'
    BY <1>1, <1>2, <1>3, <1>4, <1>5, <1>6, <1>7, <1>8, ThreadsAssumption DEF ThreadMay, Deletes
  <1>14. \A p \in TimerObjs : p # o => ThreadMay(p)'
    BY <1>3, <1>6, <1>7, <1>8, ThreadsAssumption DEF TimerSound, ThreadMay, Deletes
  <1> QED  BY <1>3, <1>9, <1>10, <1>11, <1>12, <1>13, <1>14 DEF TimerSound

LEMMA DeleteWakeInv == ASSUME TimerSound, manner = "calm", Tmr!DeleteWake PROVE TimerSound'
  <1>1. PICK o \in TimerObjs : o = tcall.tm  BY DEF Tmr!DeleteWake, TimerSound, CallKnows
  <1>2. PICK k \in Timers : k = timer[o]  BY DEF TimerSound, TimerTypes
  <1>3. /\ Tmr!k_sem_give(o, k) /\ UNCHANGED <<due, bystander>>
        /\ tcall.pc = "wake" /\ tcall' = [tcall EXCEPT !.pc = "cancel"]
    BY <1>1, <1>2 DEF Tmr!DeleteWake
  <1>4. /\ k.kind = "thread" /\ k.armed = "off" /\ ~k.active /\ due[o] = 0
        /\ worker[k.thread].pc = "wait"
    BY <1>1, <1>2, <1>3 DEF TimerSound, CallKnows, Tmr!Parked
  <1>5. ThreadMay(o) /\ ~Deletes(o)  BY <1>3 DEF TimerSound, Deletes
  <1>6. worker[k.thread].tm = o /\ k.thread \in Workers  BY <1>2, <1>4, <1>5 DEF ThreadMay
  <1>7. PICK w \in Workers : w = k.thread  BY <1>6
  <1>8. PICK n \in Notifiers : n = worker[w]  BY DEF TimerSound, TimerTypes
  <1> DEFINE m == [n EXCEPT !.pc = "woken"]
  <1>9. timer' = [timer EXCEPT ![o] = k] /\ worker' = [worker EXCEPT ![w] = m]
    <2>1. PICK v \in Workers :
           /\ timer[o].thread = v
           /\ \/ /\ ~(worker[v].pc = "wait" /\ worker[v].tm = o)
                 /\ timer' = [timer EXCEPT ![o] = [k EXCEPT !.sem = 1]] /\ UNCHANGED worker
              \/ /\ worker[v].pc = "wait" /\ worker[v].tm = o
                 /\ timer' = [timer EXCEPT ![o] = k]
                 /\ worker' = [worker EXCEPT ![v] = [worker[v] EXCEPT !.pc = "woken"]]
      BY <1>2, <1>3, <1>4, GiveIs
    <2> QED  BY <1>2, <1>4, <1>6, <1>7, <1>8, <2>1
  <1>10. m \in Notifiers /\ m.pc = "woken" /\ m.tm = n.tm /\ m.cancelled = n.cancelled
    BY WorkerIs
  <1> HIDE DEF m
  <1>11. UNCHANGED timer  BY <1>2, <1>9 DEF TimerSound, TimerTypes
  <1>12. /\ worker' \in [Workers -> Notifiers] /\ worker'[w] = m
         /\ \A v \in Workers : v # w => worker'[v] = worker[v]
    BY <1>9, <1>10, WorkerChanges DEF TimerSound
  <1>13. tcall' \in TimerCalls /\ tcall'.pc = "cancel" /\ tcall'.tm = o
    BY <1>1, <1>3 DEF TimerSound, TimerTypes, TimerCalls
  <1>14. TimerTypes'  BY <1>3, <1>11, <1>12, <1>13 DEF TimerSound, TimerTypes
  <1>15. CallKnows'
    BY <1>2, <1>3, <1>4, <1>6, <1>7, <1>8, <1>10, <1>11, <1>12, <1>13 DEF CallKnows
  <1>16. ThreadsBelong'
    <2>1. ~worker[w].cancelled  BY <1>4, <1>7 DEF TimerSound, ThreadsBelong
    <2>2. \A q : Deletes(q)' <=> q = o  BY <1>13 DEF Deletes
    <2>3. \A q : ~Deletes(q)  BY <1>3 DEF Deletes
    <2> HIDE DEF Deletes
    <2> QED
      BY <1>2, <1>4, <1>6, <1>7, <1>8, <1>10, <1>11, <1>12, <2>1, <2>2, <2>3 DEF TimerSound, ThreadsBelong
  <1>17. \A p \in TimerObjs : TimerSays(p)'
    BY <1>1, <1>11, <1>13 DEF TimerSound, TimerSays
  <1>18. ThreadMay(o)'  BY <1>2, <1>6, <1>11, <1>13 DEF ThreadMay, Deletes
  <1>19. ASSUME NEW p \in TimerObjs, p # o PROVE ThreadMay(p)'
    <2>1. ThreadMay(p) /\ ~Deletes(p)  BY <1>3 DEF TimerSound, Deletes
    <2>2. timer[p].kind = "thread" => timer[p].thread # w
      BY <1>6, <1>7, <1>19, <2>1 DEF ThreadMay
    <2> QED  BY <1>3, <1>11, <1>12, <2>1, <2>2 DEF ThreadMay
  <1> QED  BY <1>3, <1>14, <1>15, <1>16, <1>17, <1>18, <1>19 DEF TimerSound

\* pthread_cancel finds the timer's thread, which has been woken, or a handle that
\* nobody has.
LEMMA DeleteCancelInv ==
  ASSUME TimerSound, manner = "calm", NEW room \in BOOLEAN, Tmr!DeleteCancel(room)
  PROVE  TimerSound'
  <1>1. PICK o \in TimerObjs : o = tcall.tm  BY DEF Tmr!DeleteCancel, TimerSound, CallKnows
  <1>2. /\ tcall.pc = "cancel" /\ timer[o].kind = "thread" /\ timer[o].armed = "off" /\ ~timer[o].active
        /\ due[o] = 0
    BY <1>1 DEF Tmr!DeleteCancel, TimerSound, CallKnows
  <1>3. PICK w \in Workers : w = timer[o].thread  BY <1>2 DEF TimerSound, ThreadMay
  <1>4. worker[w].pc \in {"woken", "free"} /\ worker[w].tm \in {NULL, o}
    BY <1>1, <1>2, <1>3 DEF TimerSound, CallKnows
  <1>5. PICK n \in Notifiers : n = worker[w]  BY DEF TimerSound, TimerTypes
  <1>6. PICK b \in BOOLEAN : b = (n.cancelled \/ room \/ n.pc = "start")  OBVIOUS
  <1> DEFINE m == IF n.pc = "free" THEN n ELSE [n EXCEPT !.cancelled = b]
  <1>7. /\ worker' = [worker EXCEPT ![w] = m] /\ UNCHANGED <<timer, due>>
        /\ tcall' = [tcall EXCEPT !.pc = "release"] /\ ~bystander'
    BY <1>1, <1>3, <1>4, <1>5, <1>6 DEF Tmr!DeleteCancel, TimerSound, TimerTypes
  <1>8. /\ m \in Notifiers /\ m.pc = n.pc /\ m.tm = n.tm
        /\ m.pc = "free" => m.cancelled = n.cancelled
    BY DEF Notifiers
  <1> HIDE DEF m
  <1>9. /\ worker' \in [Workers -> Notifiers] /\ worker'[w] = m
        /\ \A v \in Workers : v # w => worker'[v] = worker[v]
    BY <1>7, <1>8, WorkerChanges DEF TimerSound
  <1>10. tcall' \in TimerCalls /\ tcall'.pc = "release" /\ tcall'.tm = o
    BY <1>1, <1>7 DEF TimerSound, TimerTypes, TimerCalls
  <1>11. \A q : Deletes(q)' <=> Deletes(q)  BY <1>1, <1>2, <1>10 DEF Deletes
  <1>12. Deletes(o)  BY <1>1, <1>2 DEF Deletes
  <1>13. TimerTypes'  BY <1>7, <1>9, <1>10 DEF TimerSound, TimerTypes
  <1>14. CallKnows'  BY <1>2, <1>3, <1>4, <1>5, <1>7, <1>8, <1>9, <1>10 DEF CallKnows
  <1>15. ThreadsBelong'
    <2>1. ASSUME NEW v \in Workers, v # w PROVE worker'[v] = worker[v]  BY <1>9, <2>1
    <2>2. worker[w].pc # "free" => worker[w].tm = o
      BY <1>4, ThreadsAssumption DEF TimerSound, ThreadsBelong
    <2> HIDE DEF Deletes
    <2> QED  BY <1>2, <1>3, <1>4, <1>5, <1>7, <1>8, <1>9, <1>11, <1>12, <2>1, <2>2
             DEF TimerSound, ThreadsBelong
  <1>16. \A p \in TimerObjs : TimerSays(p)'
    BY <1>1, <1>7, <1>10 DEF TimerSound, TimerSays
  <1>17. ThreadMay(o)'  BY <1>3, <1>7, <1>10 DEF ThreadMay, Deletes
  <1>18. ASSUME NEW p \in TimerObjs, p # o PROVE ThreadMay(p)'
    <2>1. ThreadMay(p) /\ ~Deletes(p)  BY <1>1, <1>18 DEF TimerSound, Deletes
    <2>2. timer[p].kind = "thread" => timer[p].thread # w
      BY <1>4, <1>18, <2>1, ThreadsAssumption DEF ThreadMay
    <2> QED  BY <1>7, <1>9, <2>1, <2>2 DEF ThreadMay
  <1> QED  BY <1>7, <1>13, <1>14, <1>15, <1>16, <1>17, <1>18 DEF TimerSound

\* The object goes; its thread, if it has not ended yet, has been woken.
LEMMA DeleteReleaseInv == ASSUME TimerSound, manner = "calm", Tmr!DeleteRelease PROVE TimerSound'
  <1>1. PICK o \in TimerObjs : o = tcall.tm  BY DEF Tmr!DeleteRelease, TimerSound, CallKnows
  <1>2. /\ tcall.pc = "release" /\ timer[o].armed = "off"
        /\ timer[o].kind = "thread" => worker[timer[o].thread].pc \in {"woken", "free"}
    BY <1>1 DEF Tmr!DeleteRelease, TimerSound, CallKnows
  <1>3. PICK n \in {0, 1} : n = timer[o].sem  BY DEF TimerSound, TimerTypes, Timers
  <1> DEFINE r == [Tmr!Unallocated EXCEPT !.armed = "off", !.sem = n]
  <1>4. timer' = [timer EXCEPT ![o] = r] /\ UNCHANGED <<worker, due, bystander>> /\ tcall' = Tmr!NoCall
    BY <1>1, <1>2, <1>3 DEF Tmr!DeleteRelease
  <1>5. r \in Timers /\ r.kind = "free" /\ r.armed = "off" /\ ~r.active
    BY UnallocatedIs DEF Timers, Armings
  <1> HIDE DEF r
  <1>6. /\ timer' \in [TimerObjs -> Timers] /\ timer'[o] = r
        /\ \A p \in TimerObjs : p # o => timer'[p] = timer[p]
    BY <1>4, <1>5, TimerChanges DEF TimerSound
  <1>7. tcall' \in TimerCalls /\ tcall'.pc = "idle" /\ tcall'.tm = NULL
    BY <1>4 DEF Tmr!NoCall, TimerCalls, Armings
  <1>8. TimerTypes'  BY <1>4, <1>6, <1>7 DEF TimerSound, TimerTypes
  <1>9. CallKnows'  BY <1>7 DEF CallKnows
  <1>10. ThreadsBelong'
    <2>1. ASSUME NEW w \in Workers, worker[w].pc # "free", worker[w].tm = o
          PROVE  worker[w].pc = "woken"
      BY <1>2, <2>1 DEF TimerSound, ThreadsBelong
    <2>2. \A q : Deletes(q) => q = o  BY <1>1 DEF Deletes
    <2> HIDE DEF Deletes
    <2>3. ASSUME NEW w \in Workers, worker[w].pc # "free", worker[w].tm # o
          PROVE  /\ worker[w].tm \in TimerObjs /\ timer'[worker[w].tm] = timer[worker[w].tm]
                 /\ worker[w].cancelled => timer[worker[w].tm].kind = "free" /\ worker[w].pc = "woken"
      BY <1>6, <2>2, <2>3 DEF TimerSound, ThreadsBelong
    <2> QED  BY <1>4, <1>5, <1>6, <2>1, <2>3 DEF TimerSound, ThreadsBelong
  <1>11. \A p \in TimerObjs : TimerSays(p)'
    BY <1>1, <1>5, <1>6, <1>7 DEF TimerSound, TimerSays
  <1>12. \A p \in TimerObjs : ThreadMay(p)'
    BY <1>1, <1>4, <1>5, <1>6, <1>7 DEF TimerSound, ThreadMay, Deletes
  <1> QED  BY <1>4, <1>8, <1>9, <1>10, <1>11, <1>12 DEF TimerSound

\* timer_create
LEMMA CreatePlainInv ==
  ASSUME TimerSound, manner = "calm", NEW kind \in Tmr!Kinds, kind # "thread", Tmr!Create(kind)
  PROVE  TimerSound'
  <1> DEFINE r == [Tmr!Unallocated EXCEPT !.kind = kind]
  <1>1. PICK o \in TimerObjs :
          /\ tcall.pc = "idle" /\ timer[o].kind = "free"
          /\ \A v \in Workers : worker[v].pc # "free" => Tmr!Owns(v)
          /\ timer' = [timer EXCEPT ![o] = r] /\ due' = [due EXCEPT ![o] = 0]
          /\ UNCHANGED <<worker, tcall, bystander>>
    BY DEF Tmr!Create
  <1>2. r \in Timers /\ r.armed = "off" /\ ~r.active /\ r.kind = kind  BY NewTimerIs
  <1> HIDE DEF r
  <1>3. /\ timer' \in [TimerObjs -> Timers] /\ timer'[o] = r
        /\ \A p \in TimerObjs : p # o => timer'[p] = timer[p]
    BY <1>1, <1>2, TimerChanges DEF TimerSound
  <1>4. due' \in [TimerObjs -> {0, 1}] /\ \A p \in TimerObjs : p # o => due'[p] = due[p]
    BY <1>1 DEF TimerSound, TimerTypes
  <1>5. TimerTypes'  BY <1>1, <1>3, <1>4 DEF TimerSound, TimerTypes
  <1>6. CallKnows'  BY <1>1 DEF TimerSound, CallKnows
  <1>7. ThreadsBelong'  BY <1>1, <1>3 DEF TimerSound, ThreadsBelong, Deletes, Tmr!Owns
  <1>8. \A p \in TimerObjs : TimerSays(p)'  BY <1>1, <1>2, <1>3 DEF TimerSound, TimerSays
  <1>9. \A p \in TimerObjs : ThreadMay(p)'
    BY <1>1, <1>2, <1>3, <1>4 DEF TimerSound, ThreadMay, Deletes
  <1> QED  BY <1>1, <1>5, <1>6, <1>7, <1>8, <1>9 DEF TimerSound

LEMMA CreateThreadInv ==
  ASSUME TimerSound, manner = "calm", Tmr!Create("thread")
  PROVE  TimerSound'
  <1>1. PICK o \in TimerObjs :
          /\ tcall.pc = "idle" /\ timer[o].kind = "free"
          /\ \A v \in Workers : worker[v].pc # "free" => Tmr!Owns(v)
          /\ \E w \in Workers :
               /\ worker[w].pc = "free"
               /\ worker' = [worker EXCEPT ![w] = [Tmr!NoWorker EXCEPT !.pc = "start", !.tm = o]]
               /\ timer' = [timer EXCEPT ![o] = [Tmr!Unallocated EXCEPT !.kind = "thread", !.thread = w]]
          /\ due' = [due EXCEPT ![o] = 0]
          /\ UNCHANGED <<tcall, bystander>>
    BY DEF Tmr!Create
  <1>2. PICK w \in Workers :
          /\ worker[w].pc = "free"
          /\ worker' = [worker EXCEPT ![w] = [Tmr!NoWorker EXCEPT !.pc = "start", !.tm = o]]
          /\ timer' = [timer EXCEPT ![o] = [Tmr!Unallocated EXCEPT !.kind = "thread", !.thread = w]]
    BY <1>1
  <1> DEFINE r == [Tmr!Unallocated EXCEPT !.kind = "thread", !.thread = w]
             n == [Tmr!NoWorker EXCEPT !.pc = "start", !.tm = o]
  <1>3. /\ r \in Timers /\ ~r.active /\ r.armed = "off" /\ r.kind = "thread" /\ r.sem = 0 /\ r.thread = w
    BY NewThreadTimerIs
  <1>4. n \in Notifiers /\ n.pc = "start" /\ n.tm = o /\ ~n.cancelled  BY NewWorkerIs
  <1>5. worker' = [worker EXCEPT ![w] = n] /\ timer' = [timer EXCEPT ![o] = r]  BY <1>2
  <1> HIDE DEF r, n
  <1>6. /\ timer' \in [TimerObjs -> Timers] /\ timer'[o] = r
        /\ \A p \in TimerObjs : p # o => timer'[p] = timer[p]
    BY <1>3, <1>5, TimerChanges DEF TimerSound
  <1>7. /\ worker' \in [Workers -> Notifiers] /\ worker'[w] = n
        /\ \A v \in Workers : v # w => worker'[v] = worker[v]
    BY <1>4, <1>5 DEF TimerSound, TimerTypes
  <1>8. /\ due' \in [TimerObjs -> {0, 1}] /\ due'[o] = 0
        /\ \A p \in TimerObjs : p # o => due'[p] = due[p]
    BY <1>1 DEF TimerSound, TimerTypes
  <1>9. TimerTypes'  BY <1>1, <1>6, <1>7, <1>8 DEF TimerSound, TimerTypes
  <1>10. CallKnows'  BY <1>1 DEF TimerSound, CallKnows
  <1>11. ThreadsBelong'
    <2>1. /\ worker'[w].pc # "free" /\ ~worker'[w].cancelled /\ worker'[w].tm = o
          /\ timer'[o].kind = "thread" /\ timer'[o].thread = w
      BY <1>3, <1>4, <1>6, <1>7
    <2>2. ASSUME NEW v \in Workers, v # w, worker[v].pc # "free"
          PROVE  worker[v].tm # o
      BY <1>1, <2>2 DEF Tmr!Owns
    <2> QED  BY <1>1, <1>6, <1>7, <2>1, <2>2 DEF TimerSound, ThreadsBelong, Deletes
  <1>12. \A p \in TimerObjs : TimerSays(p)'
    BY <1>1, <1>3, <1>6 DEF TimerSound, TimerSays
  <1>13. ThreadMay(o)'  BY <1>3, <1>4, <1>6, <1>7, <1>8 DEF ThreadMay
  <1>14. ASSUME NEW p \in TimerObjs, p # o PROVE ThreadMay(p)'
    <2>1. ThreadMay(p) /\ ~Deletes(p)  BY <1>1 DEF TimerSound, Deletes
    <2>2. timer[p].kind = "thread" => timer[p].thread # w
      BY <1>2, <2>1 DEF ThreadMay
    <2> QED  BY <1>6, <1>7, <1>8, <1>14, <2>1, <2>2 DEF ThreadMay
  <1> QED  BY <1>1, <1>9, <1>10, <1>11, <1>12, <1>13, <1>14 DEF TimerSound

-----------------------------------------------------------------------------
LEMMA ThreadStartInv ==
  ASSUME TimerSound, manner = "calm", NEW w \in Workers, Tmr!ThreadStart(w)
  PROVE  TimerSound'
  <1>1. worker[w].pc = "start"  BY DEF Tmr!ThreadStart, Tmr!Step
  <1>2. PICK o \in TimerObjs :
          /\ worker[w].tm = o /\ timer[o].kind = "thread" /\ timer[o].thread = w
          /\ ~worker[w].cancelled
          /\ \A p \in TimerObjs : (p # o /\ timer[p].kind = "thread") => timer[p].thread # w
    BY <1>1, ThreadHasTimer
  <1>3. PICK k \in Notifiers : k = worker[w]  BY DEF TimerSound, TimerTypes
  <1> DEFINE n == [k EXCEPT !.pc = "top"]
  <1>4. worker' = [worker EXCEPT ![w] = n] /\ UNCHANGED <<timer, tcall, due, bystander>>
    BY <1>2, <1>3 DEF Tmr!ThreadStart, Tmr!Step
  <1>5. n \in Notifiers /\ n.pc = "top" /\ n.tm = k.tm /\ n.cancelled = k.cancelled
    BY WorkerIs
  <1> HIDE DEF n
  <1>6. /\ worker' \in [Workers -> Notifiers] /\ worker'[w] = n
        /\ \A v \in Workers : v # w => worker'[v] = worker[v]
    BY <1>4, <1>5, WorkerChanges DEF TimerSound
  <1>7. TimerTypes'  BY <1>4, <1>6 DEF TimerSound, TimerTypes
  <1>8. ThreadsBelong'  BY <1>1, <1>2, <1>3, <1>4, <1>5, <1>6 DEF TimerSound, ThreadsBelong, Deletes
  <1>9. \A p \in TimerObjs : TimerSays(p)'  BY <1>4 DEF TimerSound, TimerSays
  <1>10. ThreadMay(o) /\ ~Deletes(o)
    BY <1>1, <1>2 DEF TimerSound, CallKnows, Deletes
  <1>11. CallKnows'
    <2>1. tcall.tm # o \/ tcall.pc \notin {"arm", "wake", "cancel", "release"}
      BY <1>1, <1>2 DEF TimerSound, CallKnows, Tmr!Parked
    <2> QED  BY <1>1, <1>2, <1>4, <1>6, <2>1 DEF TimerSound, CallKnows, Tmr!Parked
  <1>12. ThreadMay(o)'
    BY <1>1, <1>2, <1>3, <1>4, <1>5, <1>6, <1>10 DEF ThreadMay
  <1>13. \A p \in TimerObjs : p # o => ThreadMay(p)'
    BY <1>2, <1>4, <1>6 DEF TimerSound, ThreadMay, Deletes
  <1> QED  BY <1>4, <1>7, <1>8, <1>9, <1>11, <1>12, <1>13 DEF TimerSound

\* A call on a timer finds its thread waiting.
LEMMA BusyThread ==
  ASSUME TimerSound, NEW o \in TimerObjs, timer[o].kind = "thread",
         worker[timer[o].thread].pc \in {"start", "top", "take", "call"}
  PROVE  tcall.tm # o
  BY ThreadsAssumption DEF TimerSound, CallKnows, Tmr!Parked, TimerTypes, TimerCalls

LEMMA ThreadTopInv ==
  ASSUME TimerSound, manner = "calm", NEW w \in Workers, Tmr!ThreadTop(w)
  PROVE  TimerSound'
  <1>1. worker[w].pc = "top"  BY DEF Tmr!ThreadTop, Tmr!Step
  <1>2. PICK o \in TimerObjs :
          /\ worker[w].tm = o /\ timer[o].kind = "thread" /\ timer[o].thread = w
          /\ ~worker[w].cancelled
          /\ \A p \in TimerObjs : (p # o /\ timer[p].kind = "thread") => timer[p].thread # w
    BY <1>1, ThreadHasTimer
  <1>3. PICK n \in Notifiers : n = worker[w]  BY DEF TimerSound, TimerTypes
  <1>4. PICK k \in Timers : k = timer[o]  BY DEF TimerSound, TimerTypes
  <1> DEFINE m == [n EXCEPT !.pc = "take"]
             r == Tmr!Settled(k)
  <1>5. /\ worker' = [worker EXCEPT ![w] = m] /\ timer' = [timer EXCEPT ![o] = r]
        /\ UNCHANGED <<tcall, due, bystander>>
    BY <1>2, <1>3, <1>4 DEF Tmr!ThreadTop, Tmr!Step
  <1>6. m \in Notifiers /\ m.pc = "take" /\ m.tm = n.tm /\ m.cancelled = n.cancelled
    BY WorkerIs
  <1>7. /\ r \in Timers /\ (r.active <=> k.active /\ k.reload) /\ r.armed = k.armed
        /\ r.kind = k.kind /\ r.reload = k.reload /\ r.sem = k.sem /\ r.thread = k.thread
    BY SettledIs
  <1> HIDE DEF m, r
  <1>8. /\ worker' \in [Workers -> Notifiers] /\ worker'[w] = m
        /\ \A v \in Workers : v # w => worker'[v] = worker[v]
    BY <1>5, <1>6, WorkerChanges DEF TimerSound
  <1>9. /\ timer' \in [TimerObjs -> Timers] /\ timer'[o] = r
        /\ \A p \in TimerObjs : p # o => timer'[p] = timer[p]
    BY <1>5, <1>7, TimerChanges DEF TimerSound
  <1>10. tcall.tm # o  BY <1>1, <1>2, BusyThread
  <1>11. ThreadMay(o) /\ TimerSays(o) /\ ~Deletes(o)  BY <1>10 DEF TimerSound, Deletes
  <1>12. k.armed # "off" => k.armed = "periodic"
    <2>1. k.armed \in {"off", "once", "periodic"}  BY DEF Timers, Armings
    <2> QED  BY <1>1, <1>2, <1>4, <1>11, <2>1 DEF ThreadMay
  <1>13. TimerTypes'  BY <1>5, <1>8, <1>9 DEF TimerSound, TimerTypes
  <1>14. CallKnows'
    BY <1>2, <1>5, <1>8, <1>9, <1>10 DEF TimerSound, CallKnows, Tmr!Parked
  <1>15. ThreadsBelong'
    <2>1. \A q \in TimerObjs : timer'[q].kind = timer[q].kind /\ timer'[q].thread = timer[q].thread
      BY <1>4, <1>7, <1>9
    <2>2. \A q : Deletes(q)' <=> Deletes(q)  BY <1>5 DEF Deletes
    <2> HIDE DEF Deletes
    <2> QED  BY <1>1, <1>2, <1>3, <1>6, <1>8, <2>1, <2>2 DEF TimerSound, ThreadsBelong
  <1>16. \A p \in TimerObjs : TimerSays(p)'
    BY <1>4, <1>5, <1>7, <1>9, <1>10, <1>11, <1>12 DEF TimerSound, TimerSays
  <1>17. ThreadMay(o)'
    BY <1>1, <1>2, <1>3, <1>4, <1>5, <1>6, <1>7, <1>8, <1>9, <1>11, <1>12 DEF ThreadMay
  <1>18. \A p \in TimerObjs : p # o => ThreadMay(p)'
    BY <1>2, <1>5, <1>8, <1>9 DEF TimerSound, ThreadMay, Deletes
  <1> QED  BY <1>5, <1>13, <1>14, <1>15, <1>16, <1>17, <1>18 DEF TimerSound

\* The thread gets what was given meanwhile, or waits.
LEMMA ThreadTakeInv ==
  ASSUME TimerSound, manner = "calm", NEW w \in Workers, Tmr!ThreadTake(w)
  PROVE  TimerSound'
  <1>1. worker[w].pc = "take"  BY DEF Tmr!ThreadTake, Tmr!Step
  <1>2. PICK o \in TimerObjs :
          /\ worker[w].tm = o /\ timer[o].kind = "thread" /\ timer[o].thread = w
          /\ ~worker[w].cancelled
          /\ \A p \in TimerObjs : (p # o /\ timer[p].kind = "thread") => timer[p].thread # w
    BY <1>1, ThreadHasTimer
  <1>3. PICK n \in Notifiers : n = worker[w]  BY DEF TimerSound, TimerTypes
  <1>4. PICK k \in Timers : k = timer[o]  BY DEF TimerSound, TimerTypes
  <1>5. PICK pc \in {"wait", "woken"} : pc = IF k.sem = 1 THEN "woken" ELSE "wait"  OBVIOUS
  <1> DEFINE m == [n EXCEPT !.pc = pc]
             r == [k EXCEPT !.sem = 0]
  <1>6. /\ worker' = [worker EXCEPT ![w] = m] /\ timer' = [timer EXCEPT ![o] = r]
        /\ UNCHANGED <<tcall, due, bystander>>
    BY <1>2, <1>3, <1>4, <1>5 DEF Tmr!ThreadTake, Tmr!Step
  <1>7. m \in Notifiers /\ m.pc = pc /\ m.tm = n.tm /\ m.cancelled = n.cancelled
    <2>1. pc \in {"start", "top", "take", "wait", "woken", "call"}  OBVIOUS
    <2> QED  BY <2>1, WorkerIs
  <1>8. /\ r \in Timers /\ r.active = k.active /\ r.armed = k.armed
        /\ r.kind = k.kind /\ r.reload = k.reload /\ r.sem = 0 /\ r.thread = k.thread
    BY SemIs
  <1> HIDE DEF m, r
  <1>9. /\ worker' \in [Workers -> Notifiers] /\ worker'[w] = m
        /\ \A v \in Workers : v # w => worker'[v] = worker[v]
    BY <1>6, <1>7, WorkerChanges DEF TimerSound
  <1>10. /\ timer' \in [TimerObjs -> Timers] /\ timer'[o] = r
         /\ \A p \in TimerObjs : p # o => timer'[p] = timer[p]
    BY <1>6, <1>8, TimerChanges DEF TimerSound
  <1>11. tcall.tm # o  BY <1>1, <1>2, BusyThread
  <1>12. ThreadMay(o) /\ ~Deletes(o)  BY <1>11 DEF TimerSound, Deletes
  <1>13. k.sem \in {0, 1}  BY DEF Timers
  <1>14. TimerTypes'  BY <1>6, <1>9, <1>10 DEF TimerSound, TimerTypes
  <1>15. CallKnows'
    BY <1>2, <1>6, <1>9, <1>10, <1>11 DEF TimerSound, CallKnows, Tmr!Parked
  <1>16. ThreadsBelong'
    BY <1>1, <1>2, <1>3, <1>4, <1>5, <1>6, <1>7, <1>8, <1>9, <1>10 DEF TimerSound, ThreadsBelong, Deletes
  <1>17. \A p \in TimerObjs : TimerSays(p)'
    BY <1>4, <1>6, <1>8, <1>10 DEF TimerSound, TimerSays
  <1>18. ThreadMay(o)'
    BY <1>1, <1>2, <1>3, <1>4, <1>5, <1>6, <1>7, <1>8, <1>9, <1>10, <1>12, <1>13 DEF ThreadMay, Deletes
  <1>19. \A p \in TimerObjs : p # o => ThreadMay(p)'
    BY <1>2, <1>6, <1>9, <1>10 DEF TimerSound, ThreadMay, Deletes
  <1> QED  BY <1>6, <1>14, <1>15, <1>16, <1>17, <1>18, <1>19 DEF TimerSound

\* A thread that has been woken has its timer, which is active, or its timer is being
\* deleted or has been.
LEMMA WokenThread ==
  ASSUME TimerSound, NEW w \in Workers, worker[w].pc = "woken"
  PROVE  \E o \in TimerObjs :
           /\ worker[w].tm = o
           /\ \A p \in TimerObjs : (p # o /\ timer[p].kind = "thread") => timer[p].thread # w
           /\ \/ /\ timer[o].active /\ timer[o].kind = "thread" /\ timer[o].thread = w
                 /\ tcall.tm # o /\ ~worker[w].cancelled
              \/ ~timer[o].active /\ (timer[o].kind # "thread" \/ Deletes(o))
  <1>1. PICK o \in TimerObjs :
           /\ worker[w].tm = o
           /\ worker[w].cancelled => timer[o].kind = "free" \/ Deletes(o)
           /\ (timer[o].kind = "thread" /\ timer[o].thread = w) \/ timer[o].kind = "free"
    BY DEF TimerSound, ThreadsBelong
  <1>2. \A p \in TimerObjs : (p # o /\ timer[p].kind = "thread") => timer[p].thread # w
    BY <1>1, NoOtherTimer
  <1>3. CASE timer[o].kind = "free"
    <2>1. ~timer[o].active  BY <1>3 DEF TimerSound, TimerSays
    <2> QED  BY <1>1, <1>2, <1>3, <2>1
  <1>4. CASE timer[o].kind = "thread" /\ Deletes(o)
    <2>1. ~timer[o].active  BY <1>4 DEF TimerSound, CallKnows, Deletes
    <2> QED  BY <1>1, <1>2, <1>4, <2>1
  <1>5. CASE timer[o].kind = "thread" /\ ~Deletes(o)
    <2>1. timer[o].active  BY <1>1, <1>5 DEF TimerSound, ThreadMay
    <2>2. timer[o].thread = w /\ ~worker[w].cancelled  BY <1>1, <1>5
    <2>3. tcall.tm # o
      BY <1>1, <1>5, <2>2, ThreadsAssumption
         DEF TimerSound, CallKnows, Tmr!Parked, TimerTypes, TimerCalls, Deletes
    <2> QED  BY <1>1, <1>2, <1>5, <2>1, <2>2, <2>3
  <1> QED  BY <1>1, <1>3, <1>4, <1>5

\* A thread whose timer is deleted, or has been, ends.
LEMMA ThreadEndsInv ==
  ASSUME TimerSound, NEW w \in Workers, NEW o \in TimerObjs, worker[w].pc = "woken", worker[w].tm = o,
         \A p \in TimerObjs : (p # o /\ timer[p].kind = "thread") => timer[p].thread # w,
         timer[o].kind # "thread" \/ Deletes(o),
         worker' = [worker EXCEPT ![w] = Tmr!NoWorker], UNCHANGED <<timer, tcall, due, bystander>>
  PROVE  TimerSound'
  <1>1. /\ worker' \in [Workers -> Notifiers] /\ worker'[w].pc = "free" /\ worker'[w].tm = NULL
        /\ \A v \in Workers : v # w => worker'[v] = worker[v]
    BY NoWorkerIs, WorkerChanges DEF TimerSound
  <1>2. TimerTypes'  BY <1>1 DEF TimerSound, TimerTypes
  <1>3. CallKnows'
    <2>1. CASE tcall.pc = "idle"  BY <2>1 DEF TimerSound, CallKnows
    <2>2. CASE tcall.pc # "idle" /\ tcall.tm # o
      <3>1. PICK p \in TimerObjs : p = tcall.tm /\ p # o  BY <2>2 DEF TimerSound, CallKnows
      <3>2. timer[p].kind = "thread" => timer[p].thread \in Workers /\ timer[p].thread # w
        BY <3>1 DEF TimerSound, ThreadMay
      <3> QED  BY <1>1, <2>2, <3>1, <3>2 DEF TimerSound, CallKnows, Tmr!Parked
    <2>3. CASE tcall.pc # "idle" /\ tcall.tm = o /\ timer[o].kind = "thread"
      <3>1. tcall.pc \in {"cancel", "release"}  BY <2>3 DEF Deletes
      <3>2. timer[o].thread \in Workers  BY <2>3 DEF TimerSound, ThreadMay
      <3> QED  BY <1>1, <2>3, <3>1, <3>2 DEF TimerSound, CallKnows
    <2>4. CASE tcall.pc # "idle" /\ tcall.tm = o /\ timer[o].kind # "thread"
      BY <1>1, <2>4 DEF TimerSound, CallKnows, Tmr!Parked
    <2> QED  BY <2>1, <2>2, <2>3, <2>4
  <1>4. ThreadsBelong'  BY <1>1 DEF TimerSound, ThreadsBelong, Deletes
  <1>5. \A p \in TimerObjs : TimerSays(p)'  BY DEF TimerSound, TimerSays
  <1>6. ThreadMay(o)'  BY DEF TimerSound, ThreadMay, Deletes
  <1>7. \A p \in TimerObjs : p # o => ThreadMay(p)'  BY <1>1 DEF TimerSound, ThreadMay, Deletes
  <1> QED  BY <1>2, <1>3, <1>4, <1>5, <1>6, <1>7 DEF TimerSound

\* The thread finds the timer active unless the timer is being deleted or gone.
LEMMA ThreadCheckInv ==
  ASSUME TimerSound, manner = "calm", NEW w \in Workers, Tmr!ThreadCheck(w)
  PROVE  TimerSound'
  <1>1. worker[w].pc = "woken" /\ UNCHANGED <<timer, tcall, due, bystander>>  BY DEF Tmr!ThreadCheck
  <1>2. PICK o \in TimerObjs :
           /\ worker[w].tm = o
           /\ \A p \in TimerObjs : (p # o /\ timer[p].kind = "thread") => timer[p].thread # w
           /\ \/ /\ timer[o].active /\ timer[o].kind = "thread" /\ timer[o].thread = w
                 /\ tcall.tm # o /\ ~worker[w].cancelled
              \/ ~timer[o].active /\ (timer[o].kind # "thread" \/ Deletes(o))
    BY <1>1, WokenThread
  <1>3. CASE timer[o].active
    <2>1. timer[o].kind = "thread" /\ timer[o].thread = w /\ tcall.tm # o /\ ~worker[w].cancelled
      BY <1>2, <1>3
    <2>2. PICK n \in Notifiers : n = worker[w]  BY DEF TimerSound, TimerTypes
    <2> DEFINE m == [n EXCEPT !.pc = "call"]
    <2>3. worker' = [worker EXCEPT ![w] = m]
      BY <1>2, <1>3, <2>2 DEF Tmr!ThreadCheck, Tmr!Step
    <2>4. m \in Notifiers /\ m.pc = "call" /\ m.tm = n.tm /\ m.cancelled = n.cancelled
      BY WorkerIs
    <2> HIDE DEF m
    <2>5. /\ worker' \in [Workers -> Notifiers] /\ worker'[w] = m
          /\ \A v \in Workers : v # w => worker'[v] = worker[v]
      BY <2>3, <2>4, WorkerChanges DEF TimerSound
    <2>6. TimerTypes'  BY <1>1, <2>5 DEF TimerSound, TimerTypes
    <2>7. CallKnows'
      <3>1. CASE tcall.pc = "idle"  BY <1>1, <3>1 DEF TimerSound, CallKnows
      <3>2. CASE tcall.pc # "idle"
        <4>1. PICK p \in TimerObjs : p = tcall.tm /\ p # o
          BY <2>1, <3>2 DEF TimerSound, CallKnows
        <4>2. timer[p].kind = "thread" => timer[p].thread \in Workers /\ timer[p].thread # w
          BY <1>2, <4>1 DEF TimerSound, ThreadMay
        <4> QED  BY <1>1, <2>5, <3>2, <4>1, <4>2 DEF TimerSound, CallKnows, Tmr!Parked
      <3> QED  BY <3>1, <3>2
    <2>8. ThreadsBelong'
      BY <1>1, <1>2, <2>1, <2>2, <2>4, <2>5 DEF TimerSound, ThreadsBelong, Deletes
    <2>9. ThreadMay(o)'
      BY <1>1, <1>2, <1>3, <2>1, <2>2, <2>4, <2>5 DEF TimerSound, ThreadMay, Deletes
    <2>10. \A p \in TimerObjs : p # o => ThreadMay(p)'
      BY <1>1, <1>2, <2>5 DEF TimerSound, ThreadMay, Deletes
    <2>11. \A p \in TimerObjs : TimerSays(p)'  BY <1>1 DEF TimerSound, TimerSays
    <2> QED  BY <1>1, <2>6, <2>7, <2>8, <2>9, <2>10, <2>11 DEF TimerSound
  <1>4. CASE ~timer[o].active
    <2>1. worker' = [worker EXCEPT ![w] = Tmr!NoWorker]
      BY <1>2, <1>4 DEF Tmr!ThreadCheck, Tmr!Step
    <2> QED  BY <1>1, <1>2, <1>4, <2>1, ThreadEndsInv
  <1> QED  BY <1>3, <1>4

LEMMA ThreadCancelledInv ==
  ASSUME TimerSound, manner = "calm", NEW w \in Workers, Tmr!ThreadCancelled(w)
  PROVE  TimerSound'
  <1>1. /\ worker[w].cancelled /\ worker[w].pc \in {"woken", "call"}
        /\ worker' = [worker EXCEPT ![w] = Tmr!NoWorker] /\ UNCHANGED <<timer, tcall, due, bystander>>
    BY DEF Tmr!ThreadCancelled
  <1>2. worker[w].pc = "woken"  BY <1>1 DEF TimerSound, ThreadsBelong
  <1>3. PICK o \in TimerObjs :
           /\ worker[w].tm = o
           /\ \A p \in TimerObjs : (p # o /\ timer[p].kind = "thread") => timer[p].thread # w
           /\ timer[o].kind # "thread" \/ Deletes(o)
    BY <1>1, <1>2, WokenThread
  <1> QED  BY <1>1, <1>2, <1>3, ThreadEndsInv

LEMMA ThreadCallInv ==
  ASSUME TimerSound, manner = "calm", NEW w \in Workers, Tmr!ThreadCall(w)
  PROVE  TimerSound'
  <1>1. worker[w].pc = "call"  BY DEF Tmr!ThreadCall, Tmr!Step
  <1>2. PICK o \in TimerObjs :
          /\ worker[w].tm = o /\ timer[o].kind = "thread" /\ timer[o].thread = w
          /\ ~worker[w].cancelled
          /\ \A p \in TimerObjs : (p # o /\ timer[p].kind = "thread") => timer[p].thread # w
    BY <1>1, ThreadHasTimer
  <1>3. PICK n \in Notifiers : n = worker[w]  BY DEF TimerSound, TimerTypes
  <1> DEFINE m == [n EXCEPT !.pc = "top"]
  <1>4. /\ worker' = [worker EXCEPT ![w] = m] /\ due' = [due EXCEPT ![o] = 0]
        /\ UNCHANGED <<timer, tcall, bystander>>
    BY <1>2, <1>3 DEF Tmr!ThreadCall, Tmr!Step
  <1>5. m \in Notifiers /\ m.pc = "top" /\ m.tm = n.tm /\ m.cancelled = n.cancelled
    BY WorkerIs
  <1> HIDE DEF m
  <1>6. /\ worker' \in [Workers -> Notifiers] /\ worker'[w] = m
        /\ \A v \in Workers : v # w => worker'[v] = worker[v]
    BY <1>4, <1>5, WorkerChanges DEF TimerSound
  <1>7. /\ due' \in [TimerObjs -> {0, 1}] /\ due'[o] = 0
        /\ \A p \in TimerObjs : p # o => due'[p] = due[p]
    BY <1>4 DEF TimerSound, TimerTypes
  <1>8. tcall.tm # o  BY <1>1, <1>2, BusyThread
  <1>9. ThreadMay(o) /\ ~Deletes(o)  BY <1>8 DEF TimerSound, Deletes
  <1>10. TimerTypes'  BY <1>4, <1>6, <1>7 DEF TimerSound, TimerTypes
  <1>11. CallKnows'
    BY <1>2, <1>4, <1>6, <1>7, <1>8 DEF TimerSound, CallKnows, Tmr!Parked
  <1>12. ThreadsBelong'
    BY <1>1, <1>2, <1>3, <1>4, <1>5, <1>6 DEF TimerSound, ThreadsBelong, Deletes
  <1>13. \A p \in TimerObjs : TimerSays(p)'  BY <1>4 DEF TimerSound, TimerSays
  <1>14. ThreadMay(o)'
    BY <1>1, <1>2, <1>3, <1>4, <1>5, <1>6, <1>7, <1>9 DEF ThreadMay
  <1>15. \A p \in TimerObjs : p # o => ThreadMay(p)'
    BY <1>2, <1>4, <1>6, <1>7 DEF TimerSound, ThreadMay, Deletes
  <1> QED  BY <1>4, <1>10, <1>11, <1>12, <1>13, <1>14, <1>15 DEF TimerSound

LEMMA TimerInvariance == MCSpec => []TimerInv
  <1>1. MCInit => TimerInv  BY TimerInitInv DEF MCInit
  <1>2. TimerInv /\ [MCNext]_AllVars => TimerInv'
    <2>1. ASSUME TimerInv, UNCHANGED ofTimer PROVE TimerInv'
      BY <2>1 DEF ofTimer, TimerInv, TimerSound, TimerTypes, CallKnows, ThreadsBelong, TimerSays,
         ThreadMay, Deletes, Tmr!Parked
    <2>2. ASSUME TimerInv, Tmr!Next PROVE TimerInv'
      <3>1. UNCHANGED manner
        BY <2>2 DEF Tmr!Next, Tmr!Program, Tmr!Expiry, Tmr!Notifier, Tmr!Create, Tmr!Disarm,
           Tmr!GetOverrun, Tmr!DeleteStop, Tmr!SetReload, Tmr!Arm, Tmr!DeleteWake, Tmr!DeleteCancel,
           Tmr!DeleteRelease, Tmr!ExpireNone, Tmr!ExpireSignal, Tmr!ExpireThread, Tmr!ThreadStart,
           Tmr!ThreadTop, Tmr!ThreadTake, Tmr!ThreadCheck, Tmr!ThreadCall, Tmr!ThreadCancelled
      <3> SUFFICES ASSUME manner = "calm", TimerSound PROVE TimerSound'
        BY <2>2, <3>1 DEF TimerInv
      <3>2. CASE Tmr!Program
        BY <3>2, CreatePlainInv, CreateThreadInv, DisarmInv, GetOverrunInv, DeleteStopInv, SetReloadInv,
           ArmInv, DeleteWakeInv, DeleteCancelInv, DeleteReleaseInv DEF Tmr!Program
      <3>3. ASSUME NEW o \in TimerObjs, Tmr!Expiry(o) PROVE TimerSound'
        BY <3>3, ExpireInv, ExpireThreadInv DEF Tmr!Expiry
      <3>4. ASSUME NEW w \in Workers, Tmr!Notifier(w) PROVE TimerSound'
        BY <3>4, ThreadStartInv, ThreadTopInv, ThreadTakeInv, ThreadCheckInv, ThreadCallInv,
           ThreadCancelledInv DEF Tmr!Notifier
      <3> QED  BY <2>2, <3>2, <3>3, <3>4 DEF Tmr!Next
    <2> QED  BY <2>1, <2>2 DEF MCNext, AllVars
  <1> QED  BY <1>1, <1>2, PTL DEF MCSpec

\* When no call overlaps an expiry or a notification: a timer that runs says so,
\* and no notification that is owed is lost, for any number of timers and
\* notification threads.
THEOREM TimersNotify == MCSpec => []CalmTimersNotify
  <1>1. TimerInv => CalmTimersNotify
    <2> SUFFICES ASSUME manner = "calm", TimerSound, NEW o \in TimerObjs
                 PROVE  /\ timer[o].armed # "off" /\ timer[o].kind # "none" => timer[o].active
                        /\ timer[o].kind = "thread" /\ (timer[o].armed # "off" \/ due[o] = 1) =>
                              /\ timer[o].thread # NULL
                              /\ LET w == worker[timer[o].thread] IN
                                  /\ w.tm = o
                                  /\ w.pc = "woken" => timer[o].active
                                  /\ due[o] = 1 => w.pc \in {"woken", "call"} \/ timer[o].sem = 1
      BY DEF TimerInv, CalmTimersNotify, Tmr!CalmTimersNotify, Tmr!SaysArmed
    <2>1. TimerSays(o) /\ ThreadMay(o)  BY DEF TimerSound
    <2>2. timer[o].kind = "thread" /\ (timer[o].armed # "off" \/ due[o] = 1) => ~Deletes(o)
      BY ThreadsAssumption DEF TimerSound, CallKnows, Deletes
    <2> QED  BY <2>1, <2>2, ThreadsAssumption DEF TimerSays, ThreadMay
  <1> QED  BY <1>1, TimerInvariance, PTL

\* Under the same condition, and if no timer is created while the thread of a
\* deleted one is still there: timer_delete cancels the timer's own thread or
\* nobody, frees no object whose kernel timer runs, and leaves no thread but one
\* that was woken and finds, in the object that it freed, that it has to end.
THEOREM ThreadsKeepTheirTimers == MCSpec => []CalmThreadsKeepTheirTimer
  <1>1. TimerInv => CalmThreadsKeepTheirTimer
    <2> SUFFICES ASSUME TimerSound PROVE Tmr!CalmThreadsKeepTheirTimer
      BY DEF TimerInv, CalmThreadsKeepTheirTimer, Tmr!CalmThreadsKeepTheirTimer
    <2>1. ASSUME NEW w \in Workers, worker[w].pc # "free", ~Tmr!Owns(w)
          PROVE  /\ worker[w].pc = "woken" /\ worker[w].tm \in TimerObjs
                 /\ timer[worker[w].tm].kind = "free"
      BY <2>1 DEF TimerSound, ThreadsBelong, Tmr!Owns
    <2>2. \A o \in TimerObjs : timer[o].kind = "free" => timer[o].armed = "off" /\ ~timer[o].active
      BY DEF TimerSound, TimerSays
    <2> QED  BY <2>1, <2>2 DEF TimerSound, Tmr!CalmThreadsKeepTheirTimer
  <1> QED  BY <1>1, TimerInvariance, PTL

-----------------------------------------------------------------------------
(* Mutexes and condition variables, as mutex.c and cond.c build them from kernel *)
(* objects: what holds when no two threads meet at a static initialiser. *)

PCs == {"idle", "m_alloc", "m_store", "k_lock", "lock_wait",
        "c_alloc", "c_store", "k_cond", "cond_wait", "relock"}

KMutex == [type : Types \cup {"free"}, owner : Threads \cup {NULL}, count : Nat,
           waitq : Seq(Threads)]
KCond == [used : BOOLEAN, waitq : Seq(Threads)]
Call == [pc : PCs, op : {"none", "lock", "wait", "signal", "broadcast"}, how : Timeouts,
         obj : MObjs \cup CObjs \cup {NULL}]

TypeOK ==
    /\ mu \in MObjs \cup {NULL} /\ cv \in CObjs \cup {NULL}
    /\ kmu \in [MObjs -> KMutex]
    /\ kcv \in [CObjs -> KCond]
    /\ call \in [Threads -> Call]
    /\ holds \in [Threads -> Nat]

\* q is a queue of the threads of S, each of them once.
Queued(q, S) ==
    /\ \A i, j \in 1..Len(q) : q[i] = q[j] => i = j
    /\ \A t \in Threads : t \in S <=> \E i \in 1..Len(q) : q[i] = t

MutexWaiters(o) == {t \in Threads : At(t, "lock_wait") /\ call[t].obj = o}
CondWaiters(o) == {t \in Threads : At(t, "cond_wait") /\ cv = o}

\* A kernel mutex has an owner, or nobody waits for it; only the one the program
\* can reach is ever locked, and what its owner holds is its count.
Owned ==
    /\ \A o \in MObjs :
         /\ kmu[o].owner = NULL <=> kmu[o].count = 0
         /\ kmu[o].owner = NULL => kmu[o].waitq = <<>>
         /\ o # mu => kmu[o].owner = NULL
    /\ \A t \in Threads :
         holds[t] = IF mu # NULL /\ kmu[mu].owner = t THEN kmu[mu].count ELSE 0

\* The kernel's queues are those of the threads that sleep.
Queues ==
    /\ \A o \in MObjs : Queued(kmu[o].waitq, MutexWaiters(o))
    /\ \A o \in CObjs : Queued(kcv[o].waitq, CondWaiters(o))

\* The objects in use are those that are stored or about to be.
Storing(t, l, o) == At(t, l) /\ call[t].obj = o
Pools ==
    /\ \A o \in MObjs : kmu[o].type # "free" <=>
         o = mu \/ \E t \in Threads : Storing(t, "m_store", o)
    /\ \A o \in CObjs : kcv[o].used <=>
         o = cv \/ \E t \in Threads : Storing(t, "c_store", o)

FirstLock == {"m_alloc", "m_store"}
FirstCond == {"c_alloc", "c_store"}

\* What a thread knows where it is: an initialiser it found is still there, a
\* handle it found still is one, and a waiter-to-be has the mutex, locked once.
Knows(t) ==
    /\ call[t].pc \in FirstLock => mu = NULL
    /\ call[t].pc \in {"k_lock", "lock_wait", "cond_wait", "relock"} => mu # NULL
    /\ call[t].pc \in {"lock_wait", "cond_wait", "relock"} => call[t].obj = mu
    /\ call[t].pc \in FirstCond => cv = NULL
    /\ call[t].pc \in {"k_cond", "cond_wait"} => cv # NULL
    /\ call[t].pc \in FirstCond \cup {"k_cond"} /\ call[t].op = "wait" =>
         mu # NULL /\ kmu[mu].owner = t /\ kmu[mu].count = 1
    /\ call[t].pc = "m_store" => call[t].obj \in MObjs
    /\ call[t].pc = "c_store" => call[t].obj \in CObjs

\* One thread at a time replaces an initialiser.
Alone == \A t, u \in Threads :
    /\ call[t].pc \in FirstLock /\ call[u].pc \in FirstLock => t = u
    /\ call[t].pc \in FirstCond /\ call[u].pc \in FirstCond => t = u

Sound == TypeOK /\ Owned /\ Queues /\ Pools /\ Alone /\ \A t \in Threads : Knows(t)

\* The inductive invariant.
IInv == habit = "warm" => Sound

USE SyncAssumption

-----------------------------------------------------------------------------
(* Queues *)

\* What is left of a queue when its i-th member goes.
LEMMA RemoveAtIs ==
  ASSUME NEW S, NEW s \in Seq(S), NEW i \in 1..Len(s)
  PROVE  /\ RemoveAt(s, i) \in Seq(S)
         /\ Len(RemoveAt(s, i)) = Len(s) - 1
         /\ \A j \in 1..(Len(s) - 1) : RemoveAt(s, i)[j] = IF j < i THEN s[j] ELSE s[j + 1]
  <1>1. PICK n \in Nat : n = Len(s) /\ i \in 1..n  OBVIOUS
  <1>2. PICK p : p = SubSeq(s, 1, i - 1)  OBVIOUS
  <1>3. PICK q : q = SubSeq(s, i + 1, n)  OBVIOUS
  <1>4. /\ p \in Seq(S) /\ Len(p) = i - 1 /\ \A j \in 1..(i - 1) : p[j] = s[j]
    BY <1>1, <1>2
  <1>5. /\ q \in Seq(S) /\ Len(q) = n - i /\ \A j \in 1..(n - i) : q[j] = s[i + j]
    <2>1. /\ q \in Seq(S) /\ Len(q) = IF i + 1 <= n THEN n - (i + 1) + 1 ELSE 0
          /\ \A j \in 1..(n - (i + 1) + 1) : q[j] = s[i + 1 + j - 1]
      BY <1>1, <1>3, SubSeqProperties
    <2>2. n - (i + 1) + 1 = n - i /\ \A j \in 1..(n - i) : i + 1 + j - 1 = i + j  BY <1>1
    <2>3. Len(q) = n - i  BY <1>1, <2>1
    <2> QED  BY <2>1, <2>2, <2>3
  <1>6. /\ p \o q \in Seq(S) /\ Len(p \o q) = Len(p) + Len(q)
        /\ \A j \in 1..(Len(p) + Len(q)) : (p \o q)[j] = IF j <= Len(p) THEN p[j] ELSE q[j - Len(p)]
    BY <1>4, <1>5, ConcatProperties
  <1>7. ASSUME NEW j \in 1..(n - 1) PROVE (p \o q)[j] = IF j < i THEN s[j] ELSE s[j + 1]
    <2>1. CASE j < i
      <3>1. j <= Len(p) /\ j \in 1..(i - 1) /\ j \in 1..(Len(p) + Len(q))
        BY <1>1, <1>4, <1>5, <2>1
      <3> QED  BY <1>4, <1>6, <2>1, <3>1
    <2>2. CASE ~(j < i)
      <3>1. ~(j <= Len(p)) /\ j - Len(p) \in 1..(n - i) /\ i + (j - Len(p)) = j + 1
        BY <1>1, <1>4, <2>2
      <3>2. j \in 1..(Len(p) + Len(q))  BY <1>1, <1>4, <1>5
      <3>3. q[j - Len(p)] = s[j + 1]  BY <1>5, <3>1
      <3> QED  BY <1>6, <2>2, <3>1, <3>2, <3>3
    <2> QED  BY <2>1, <2>2
  <1>8. RemoveAt(s, i) = p \o q  BY <1>1, <1>2, <1>3 DEF RemoveAt
  <1> QED  BY <1>1, <1>4, <1>5, <1>6, <1>7, <1>8

LEMMA QueuedNobody == \A S : (S \cap Threads = {}) => Queued(<<>>, S)
  BY DEF Queued

LEMMA QueuedAppend ==
  ASSUME NEW q \in Seq(Threads), NEW S, Queued(q, S), NEW t \in Threads \ S
  PROVE  Append(q, t) \in Seq(Threads) /\ Queued(Append(q, t), S \cup {t})
  <1>1. PICK n \in Nat : n = Len(q)  OBVIOUS
  <1>4. PICK r : r = Append(q, t)  OBVIOUS
  <1>2. r \in Seq(Threads) /\ Len(r) = n + 1 /\ r[n + 1] = t /\ \A i \in 1..n : r[i] = q[i]
    BY <1>1, <1>4, AppendProperties
  <1>3. Queued(r, S \cup {t})
    <2>1. ASSUME NEW i \in 1..(n + 1), NEW j \in 1..(n + 1), r[i] = r[j] PROVE i = j
      BY <1>1, <1>2, <2>1 DEF Queued
    <2>2. ASSUME NEW u \in Threads
          PROVE  u \in S \cup {t} <=> \E i \in 1..(n + 1) : r[i] = u
      <3>1. CASE u = t  BY <1>1, <1>2, <3>1
      <3>2. CASE u # t  BY <1>1, <1>2, <3>2 DEF Queued
      <3> QED  BY <3>1, <3>2
    <2> QED  BY <1>2, <2>1, <2>2 DEF Queued
  <1> QED  BY <1>2, <1>3, <1>4

\* Dropping the first k members of a queue; of Tail, and of signal and broadcast.
LEMMA QueuedDrop ==
  ASSUME NEW q \in Seq(Threads), NEW S, Queued(q, S), NEW k \in 0..Len(q), NEW r \in Seq(Threads),
         Len(r) = Len(q) - k, \A i \in 1..(Len(q) - k) : r[i] = q[k + i]
  PROVE  Queued(r, S \ {q[i] : i \in 1..k})
  <1>1. PICK n \in Nat : n = Len(q)  OBVIOUS
  <1>2. ASSUME NEW i \in 1..(n - k), NEW j \in 1..(n - k), r[i] = r[j] PROVE i = j
    <2>1. k + i \in 1..n /\ k + j \in 1..n  BY <1>1
    <2>2. q[k + i] = q[k + j]  BY <1>1, <1>2
    <2>3. k + i = k + j  BY <1>1, <2>1, <2>2 DEF Queued
    <2> QED  BY <2>3
  <1>3. ASSUME NEW u \in Threads
        PROVE  u \in S \ {q[i] : i \in 1..k} <=> \E i \in 1..(n - k) : r[i] = u
    <2>1. ASSUME u \in S, u \notin {q[i] : i \in 1..k} PROVE \E i \in 1..(n - k) : r[i] = u
      <3>1. PICK j \in 1..n : q[j] = u  BY <1>1, <2>1 DEF Queued
      <3>2. ~(j \in 1..k)  BY <2>1, <3>1
      <3>3. j - k \in 1..(n - k) /\ k + (j - k) = j  BY <1>1, <3>2
      <3>4. r[j - k] = u  BY <1>1, <3>1, <3>3
      <3> QED  BY <3>3, <3>4
    <2>2. ASSUME NEW i \in 1..(n - k), r[i] = u PROVE u \in S /\ u \notin {q[j] : j \in 1..k}
      <3>1. k + i \in 1..n /\ q[k + i] = u  BY <1>1, <2>2
      <3>2. u \in S  BY <1>1, <3>1 DEF Queued
      <3>3. ASSUME NEW j \in 1..k, q[j] = u PROVE FALSE
        <4>1. j \in 1..n /\ j # k + i  BY <1>1
        <4> QED  BY <1>1, <3>1, <3>3, <4>1 DEF Queued
      <3> QED  BY <3>2, <3>3
    <2> QED  BY <2>1, <2>2
  <1> QED  BY <1>1, <1>2, <1>3 DEF Queued

LEMMA QueuedTail ==
  ASSUME NEW q \in Seq(Threads), NEW S, Queued(q, S), q # <<>>
  PROVE  /\ Head(q) \in Threads /\ Head(q) \in S
         /\ Tail(q) \in Seq(Threads) /\ Queued(Tail(q), S \ {Head(q)})
  <1>1. PICK n \in Nat : n = Len(q) /\ n > 0  BY EmptySeq
  <1>2. Head(q) = q[1] /\ q[1] \in Threads  BY <1>1
  <1>3. Tail(q) \in Seq(Threads) /\ Len(Tail(q)) = n - 1
    BY <1>1
  <1>4. \A i \in 1..(n - 1) : Tail(q)[i] = q[1 + i]  BY <1>1, HeadTailProperties
  <1>5. {q[i] : i \in 1..1} = {Head(q)}  BY <1>2
  <1>6. Queued(Tail(q), S \ {q[i] : i \in 1..1})
    <2>1. 1 \in 0..Len(q)  BY <1>1
    <2> QED  BY <1>1, <1>3, <1>4, <2>1, QueuedDrop
  <1>7. Head(q) \in S  BY <1>1, <1>2 DEF Queued
  <1> QED  BY <1>2, <1>3, <1>5, <1>6, <1>7

LEMMA QueuedRemove ==
  ASSUME NEW q \in Seq(Threads), NEW S, Queued(q, S), NEW i \in 1..Len(q)
  PROVE  RemoveAt(q, i) \in Seq(Threads) /\ Queued(RemoveAt(q, i), S \ {q[i]})
  <1>1. PICK n \in Nat : n = Len(q)  OBVIOUS
  <1>2. PICK r : r = RemoveAt(q, i)  OBVIOUS
  <1>3. /\ r \in Seq(Threads) /\ Len(r) = n - 1
        /\ \A j \in 1..(n - 1) : r[j] = IF j < i THEN q[j] ELSE q[j + 1]
    BY <1>1, <1>2, RemoveAtIs
  <1>4. ASSUME NEW a \in 1..(n - 1), NEW b \in 1..(n - 1), r[a] = r[b] PROVE a = b
    <2>1. PICK c \in 1..n, d \in 1..n :
            /\ c = IF a < i THEN a ELSE a + 1
            /\ d = IF b < i THEN b ELSE b + 1
      BY <1>1
    <2>2. q[c] = q[d]  BY <1>3, <1>4, <2>1
    <2>3. c = d  BY <1>1, <2>2 DEF Queued
    <2> QED  BY <1>1, <2>1, <2>3
  <1>5. ASSUME NEW u \in Threads
        PROVE  u \in S \ {q[i]} <=> \E j \in 1..(n - 1) : r[j] = u
    <2>1. ASSUME u \in S, u # q[i] PROVE \E j \in 1..(n - 1) : r[j] = u
      <3>1. PICK c \in 1..n : q[c] = u /\ c # i  BY <1>1, <2>1 DEF Queued
      <3>2. CASE c < i  BY <1>1, <1>3, <3>1, <3>2
      <3>3. CASE ~(c < i)
        <4>1. c - 1 \in 1..(n - 1) /\ ~(c - 1 < i) /\ (c - 1) + 1 = c  BY <1>1, <3>1, <3>3
        <4> QED  BY <1>3, <3>1, <4>1
      <3> QED  BY <3>2, <3>3
    <2>2. ASSUME NEW j \in 1..(n - 1), r[j] = u PROVE u \in S /\ u # q[i]
      <3>1. PICK c \in 1..n : c = (IF j < i THEN j ELSE j + 1) /\ c # i  BY <1>1
      <3>2. q[c] = u  BY <1>3, <2>2, <3>1
      <3> QED  BY <1>1, <3>1, <3>2 DEF Queued
    <2> QED  BY <2>1, <2>2
  <1> QED  BY <1>2, <1>3, <1>4, <1>5 DEF Queued

-----------------------------------------------------------------------------
(* Moves *)

\* The step of thread t changes its own call record only.
Moves(t, l, op, o) ==
    /\ call' \in [Threads -> Call]
    /\ call'[t].pc = l /\ call'[t].op = op /\ call'[t].obj = o
    /\ \A u \in Threads \ {t} : call'[u] = call[u]

LEMMA GotoMoves ==
  ASSUME TypeOK, NEW t \in Threads, NEW l \in PCs, NEW o \in MObjs \cup CObjs \cup {NULL},
         Goto(t, l, o)
  PROVE  Moves(t, l, call[t].op, o)
  BY DEF Goto, TypeOK, Call, Moves

LEMMA ReturnMoves ==
  ASSUME TypeOK, NEW t \in Threads, Return(t)
  PROVE  Moves(t, "idle", "none", NULL)
  BY DEF Return, Idle, TypeOK, Call, Moves, PCs, Timeouts

\* Who sleeps where, after such a step.
LEMMA MovedWaiters ==
  ASSUME NEW t \in Threads, NEW l, NEW op, NEW o, Moves(t, l, op, o), cv' = cv
  PROVE  /\ \A p : MutexWaiters(p)' =
              (MutexWaiters(p) \ {t}) \cup (IF l = "lock_wait" /\ o = p THEN {t} ELSE {})
         /\ \A p : CondWaiters(p)' =
              (CondWaiters(p) \ {t}) \cup (IF l = "cond_wait" /\ cv = p THEN {t} ELSE {})
  BY DEF Moves, MutexWaiters, CondWaiters, At

\* A step from a place where t neither sleeps nor stores to another such place.
LEMMA LocalMove ==
  ASSUME Sound, NEW t \in Threads, NEW op, NEW o,
         NEW l \in {"idle", "m_alloc", "k_lock", "c_alloc", "k_cond"},
         Moves(t, l, op, o), Knows(t)',
         call[t].pc \notin {"lock_wait", "cond_wait", "m_store", "c_store"},
         l = "m_alloc" => \A u \in Threads \ {t} : call[u].pc \notin FirstLock,
         l = "c_alloc" => \A u \in Threads \ {t} : call[u].pc \notin FirstCond,
         UNCHANGED <<mu, cv, kmu, kcv, holds>>
  PROVE  Sound'
  <1> USE DEF Sound
  <1>1. TypeOK'  BY DEF TypeOK, Moves
  <1>2. Owned'  BY DEF Owned
  <1>3. Queues'
    <2>1. \A p : MutexWaiters(p)' = MutexWaiters(p) /\ CondWaiters(p)' = CondWaiters(p)
      BY MovedWaiters DEF MutexWaiters, CondWaiters, At
    <2> QED  BY <2>1 DEF Queues, Queued
  <1>4. Pools'  BY DEF Pools, Storing, At, Moves
  <1>5. Alone'  BY DEF Alone, Moves, FirstLock, FirstCond
  <1>6. ASSUME NEW u \in Threads PROVE Knows(u)'
    <2>1. CASE u = t  BY <2>1
    <2>2. CASE u # t  BY <2>2 DEF Knows, Moves
    <2> QED  BY <2>1, <2>2
  <1> QED  BY <1>1, <1>2, <1>3, <1>4, <1>5, <1>6

\* The kernel's records, changed.
LEMMA NewMutexIs ==
  ASSUME NEW type \in Types
  PROVE  /\ NewMutex(type) \in KMutex
         /\ NewMutex(type).owner = NULL /\ NewMutex(type).count = 0
         /\ NewMutex(type).waitq = <<>> /\ NewMutex(type).type = type
  <1>1. NewMutex(type) = [type |-> type, owner |-> NULL, count |-> 0, waitq |-> <<>>]
    BY DEF NewMutex, FreeMutex
  <1>2. <<>> \in Seq(Threads)  OBVIOUS
  <1> QED  BY <1>1, <1>2 DEF KMutex

LEMMA TakenIs ==
  ASSUME NEW k \in KMutex, NEW t \in Threads
  PROVE  LET r == Taken(t, k) IN
         /\ r \in KMutex /\ r.type = k.type /\ r.waitq = k.waitq
         /\ r.owner = t /\ r.count = k.count + 1
  <1>1. PICK n \in Nat : n = k.count + 1  BY DEF KMutex
  <1>2. Taken(t, k) = [k EXCEPT !.owner = t, !.count = n]  BY <1>1 DEF Taken
  <1>3. LET r == [k EXCEPT !.owner = t, !.count = n] IN
        r \in KMutex /\ r.type = k.type /\ r.waitq = k.waitq /\ r.owner = t /\ r.count = n
    BY DEF KMutex
  <1> QED  BY <1>1, <1>2, <1>3

LEMMA MutexQueue ==
  ASSUME NEW k \in KMutex, NEW q \in Seq(Threads)
  PROVE  LET r == [k EXCEPT !.waitq = q] IN
         r \in KMutex /\ r.type = k.type /\ r.owner = k.owner /\ r.count = k.count /\ r.waitq = q
  BY DEF KMutex

LEMMA InitSound == Init => Sound
  <1> SUFFICES ASSUME Init PROVE Sound  OBVIOUS
  <1> USE DEF Init, FreeMutex, FreeCond, Idle
  <1>1. TypeOK
    BY DEF TypeOK, KMutex, KCond, Call, PCs, Timeouts
  <1>2. Owned  BY DEF Owned
  <1>3. Queues
    <2>1. \A p : MutexWaiters(p) = {} /\ CondWaiters(p) = {}
      BY DEF MutexWaiters, CondWaiters, At
    <2> QED  BY <2>1, QueuedNobody DEF Queues
  <1>4. Pools  BY DEF Pools, Storing, At
  <1>5. Alone /\ \A t \in Threads : Knows(t)  BY DEF Alone, Knows, FirstLock, FirstCond
  <1> QED  BY <1>1, <1>2, <1>3, <1>4, <1>5 DEF Sound

-----------------------------------------------------------------------------
(* One lemma per action. *)

LEMMA MutexInitStep ==
  ASSUME Sound, NEW t \in Threads, NEW type \in Types, MutexInit(t, type)
  PROVE  Sound'
  <1>1. PICK o \in MObjs :
          /\ Quiet /\ mu = NULL
          /\ kmu[o].type = "free"
          /\ kmu' = [kmu EXCEPT ![o] = NewMutex(type)]
          /\ mu' = o
          /\ UNCHANGED <<cv, kcv, call, holds, habit>>
    BY DEF MutexInit
  <1> USE <1>1 DEF Sound, NewMutex, FreeMutex, Quiet
  <1>2. TypeOK'
    <2> HIDE DEF NewMutex
    <2> QED  BY NewMutexIs DEF TypeOK
  <1>3. Owned'  BY DEF Owned, TypeOK
  <1>4. Queues'
    <2>1. \A p : MutexWaiters(p)' = {} /\ CondWaiters(p)' = CondWaiters(p) /\ MutexWaiters(p) = {}
      BY DEF MutexWaiters, CondWaiters, At
    <2>2. ASSUME NEW p \in MObjs PROVE Queued(kmu[p].waitq, MutexWaiters(p))'
      <3>1. CASE p = o
        <4>1. kmu'[p].waitq = <<>>  BY <3>1 DEF TypeOK
        <4> QED  BY <2>1, <4>1, QueuedNobody
      <3>2. CASE p # o
        <4>1. kmu'[p].waitq = kmu[p].waitq  BY <3>2 DEF TypeOK
        <4> QED  BY <2>1, <4>1 DEF Queues
      <3> QED  BY <3>1, <3>2
    <2> QED  BY <2>1, <2>2 DEF Queues
  <1>5. Pools'  BY DEF Pools, Storing, At, TypeOK, Types
  <1>6. Alone' /\ \A u \in Threads : Knows(u)'  BY DEF Alone, Knows, FirstLock, FirstCond
  <1> QED  BY <1>2, <1>3, <1>4, <1>5, <1>6

LEMMA MutexDestroyStep ==
  ASSUME Sound, NEW t \in Threads, MutexDestroy(t)
  PROVE  Sound'
  <1> USE DEF Sound, FreeMutex, Quiet, MutexDestroy
  <1>1. mu \in MObjs  BY DEF TypeOK
  <1>2. TypeOK'  BY <1>1 DEF TypeOK, KMutex
  <1>3. Owned'  BY <1>1 DEF Owned, TypeOK
  <1>4. Queues'
    <2>1. \A p : MutexWaiters(p)' = {} /\ CondWaiters(p)' = CondWaiters(p) /\ MutexWaiters(p) = {}
      BY DEF MutexWaiters, CondWaiters, At
    <2>2. ASSUME NEW p \in MObjs PROVE Queued(kmu[p].waitq, MutexWaiters(p))'
      <3>1. CASE p = mu
        <4>1. kmu'[p].waitq = <<>>  BY <3>1 DEF TypeOK
        <4> QED  BY <2>1, <4>1, QueuedNobody
      <3>2. CASE p # mu
        <4>1. kmu'[p].waitq = kmu[p].waitq  BY <3>2 DEF TypeOK
        <4> QED  BY <2>1, <4>1 DEF Queues
      <3> QED  BY <3>1, <3>2
    <2> QED  BY <2>1, <2>2 DEF Queues
  <1>5. Pools'  BY <1>1 DEF Pools, Storing, At, TypeOK
  <1>6. Alone' /\ \A u \in Threads : Knows(u)'  BY DEF Alone, Knows, FirstLock, FirstCond
  <1> QED  BY <1>2, <1>3, <1>4, <1>5, <1>6

LEMMA CondDestroyStep ==
  ASSUME Sound, NEW t \in Threads, CondDestroy(t)
  PROVE  Sound'
  <1> USE DEF Sound, FreeCond, Quiet, CondDestroy
  <1>1. cv \in CObjs  BY DEF TypeOK
  <1>2. TypeOK'  BY <1>1 DEF TypeOK, KCond
  <1>3. Owned'  BY DEF Owned
  <1>4. Queues'
    <2>1. \A p : MutexWaiters(p)' = MutexWaiters(p) /\ CondWaiters(p)' = {} /\ CondWaiters(p) = {}
      BY DEF MutexWaiters, CondWaiters, At
    <2>2. ASSUME NEW p \in CObjs PROVE Queued(kcv[p].waitq, CondWaiters(p))'
      <3>1. CASE p = cv
        <4>1. kcv'[p].waitq = <<>>  BY <3>1 DEF TypeOK
        <4> QED  BY <2>1, <4>1, QueuedNobody
      <3>2. CASE p # cv
        <4>1. kcv'[p].waitq = kcv[p].waitq  BY <3>2 DEF TypeOK
        <4> QED  BY <2>1, <4>1 DEF Queues
      <3> QED  BY <3>1, <3>2
    <2> QED  BY <2>1, <2>2 DEF Queues
  <1>5. Pools'  BY <1>1 DEF Pools, Storing, At, TypeOK
  <1>6. Alone' /\ \A u \in Threads : Knows(u)'  BY DEF Alone, Knows, FirstLock, FirstCond
  <1> QED  BY <1>2, <1>3, <1>4, <1>5, <1>6

LEMMA LockTestStep ==
  ASSUME Sound, habit = "warm", NEW t \in Threads, NEW m \in Timeouts, LockTest(t, m)
  PROVE  Sound'
  <1> DEFINE l == IF mu = NULL THEN "m_alloc" ELSE "k_lock"
  <1>1. Moves(t, l, "lock", NULL)
    BY DEF LockTest, Sound, TypeOK, Moves, Call, PCs
  <1>2. Knows(t)'  BY <1>1 DEF Knows, Moves, LockTest, FirstLock, FirstCond
  <1>3. l = "m_alloc" => \A u \in Threads \ {t} : call[u].pc \notin FirstLock
    BY DEF LockTest, Calls, Quiet, FirstLock
  <1>4. call[t].pc = "idle" /\ UNCHANGED <<mu, cv, kmu, kcv, holds>>  BY DEF LockTest, Calls
  <1> QED  BY <1>1, <1>2, <1>3, <1>4, LocalMove

LEMMA CondTestStep ==
  ASSUME Sound, habit = "warm", NEW t \in Threads, NEW op \in {"wait", "signal", "broadcast"},
         NEW m \in Timeouts, CondTest(t, op, m)
  PROVE  Sound'
  <1> DEFINE l == IF cv = NULL THEN "c_alloc" ELSE "k_cond"
  <1>1. Moves(t, l, op, NULL)
    BY DEF CondTest, Sound, TypeOK, Moves, Call, PCs
  <1>2. op = "wait" => mu # NULL /\ kmu[mu].owner = t /\ kmu[mu].count = 1
    BY DEF CondTest, Sound, Owned
  <1>3. Knows(t)'  BY <1>1, <1>2 DEF Knows, Moves, CondTest, FirstLock, FirstCond
  <1>4. l = "c_alloc" => \A u \in Threads \ {t} : call[u].pc \notin FirstCond
    BY DEF CondTest, Calls, Quiet, FirstCond
  <1>5. call[t].pc = "idle" /\ UNCHANGED <<mu, cv, kmu, kcv, holds>>  BY DEF CondTest, Calls
  <1> QED  BY <1>1, <1>3, <1>4, <1>5, LocalMove

\* A thread that goes idle and changes nothing else.
LEMMA GivesUp ==
  ASSUME Sound, NEW t \in Threads, Return(t), UNCHANGED <<mu, cv, kmu, kcv, holds>>,
         call[t].pc \notin {"lock_wait", "cond_wait", "m_store", "c_store"}
  PROVE  Sound'
  <1>1. Moves(t, "idle", "none", NULL)  BY ReturnMoves DEF Sound
  <1>2. Knows(t)'  BY <1>1 DEF Knows, Moves, FirstLock, FirstCond
  <1> QED  BY <1>1, <1>2, LocalMove

LEMMA LockAllocStep ==
  ASSUME Sound, NEW t \in Threads, LockAlloc(t)
  PROVE  Sound'
  <1>1. CASE Return(t) /\ UNCHANGED kmu
    BY <1>1, GivesUp DEF LockAlloc, At
  <1>2. ASSUME NEW o \in MObjs, kmu[o].type = "free", Goto(t, "m_store", o),
               kmu' = [kmu EXCEPT ![o] = NewMutex("normal")]
        PROVE  Sound'
    <2> USE <1>2 DEF Sound, LockAlloc, At
    <2>1. Moves(t, "m_store", call[t].op, o)  BY GotoMoves DEF PCs
    <2>2. o # mu /\ mu = NULL /\ kmu[o].owner = NULL /\ kmu[o].waitq = <<>> /\ kmu[o].count = 0
      BY DEF Knows, FirstLock, Owned
    <2>3. NewMutex("normal") \in KMutex /\ NewMutex("normal").owner = NULL
          /\ NewMutex("normal").count = 0 /\ NewMutex("normal").waitq = <<>>
          /\ NewMutex("normal").type = "normal"
      BY NewMutexIs DEF Types
    <2>4. TypeOK'  BY <2>1, <2>3 DEF TypeOK, Moves
    <2>5. Owned'  BY <2>2, <2>3 DEF Owned, TypeOK
    <2>6. Queues'
      <3>1. \A p : MutexWaiters(p)' = MutexWaiters(p) /\ CondWaiters(p)' = CondWaiters(p)
        BY <2>1, MovedWaiters DEF MutexWaiters, CondWaiters
      <3>2. \A p \in MObjs : kmu'[p].waitq = kmu[p].waitq  BY <2>2, <2>3 DEF TypeOK
      <3> QED  BY <3>1, <3>2 DEF Queues, Queued
    <2>7. Pools'
      <3>1. \A p \in MObjs \ {o} : kmu'[p] = kmu[p]  BY DEF TypeOK
      <3>2. kmu'[o].type = "normal"  BY <2>3 DEF TypeOK
      <3> QED  BY <2>1, <3>1, <3>2 DEF Pools, Storing, Moves
    <2>8. Alone'  BY <2>1 DEF Alone, Moves, FirstLock, FirstCond
    <2>9. \A u \in Threads : Knows(u)'  BY <2>1, <2>2 DEF Knows, Moves, FirstLock, FirstCond
    <2> QED  BY <2>4, <2>5, <2>6, <2>7, <2>8, <2>9
  <1> QED  BY <1>1, <1>2 DEF LockAlloc

LEMMA LockStoreStep ==
  ASSUME Sound, NEW t \in Threads, LockStore(t)
  PROVE  Sound'
  <1> USE DEF Sound, LockStore, At
  <1>1. Moves(t, "k_lock", call[t].op, NULL)  BY GotoMoves DEF PCs
  <1>2. PICK o \in MObjs : o = call[t].obj /\ mu' = o /\ mu = NULL
    BY DEF Knows, FirstLock
  <1>3. TypeOK'  BY <1>1, <1>2 DEF TypeOK, Moves
  <1>4. Owned'  BY <1>2 DEF Owned
  <1>5. Queues'
    <2>1. \A p : MutexWaiters(p)' = MutexWaiters(p) /\ CondWaiters(p)' = CondWaiters(p)
      BY <1>1, MovedWaiters DEF MutexWaiters, CondWaiters
    <2> QED  BY <2>1 DEF Queues, Queued
  <1>6. Pools'
    <2>1. \A u \in Threads : call[u].pc = "m_store" => u = t  BY DEF Alone, FirstLock
    <2> QED  BY <1>1, <1>2, <2>1 DEF Pools, Storing, Moves
  <1>7. Alone'  BY <1>1 DEF Alone, Moves, FirstLock, FirstCond
  <1>8. ASSUME NEW u \in Threads PROVE Knows(u)'
    <2>1. call[u].pc \in FirstLock => u = t  BY DEF Alone, FirstLock
    <2> QED  BY <1>1, <1>2, <2>1 DEF Knows, Moves, FirstLock, FirstCond
  <1> QED  BY <1>3, <1>4, <1>5, <1>6, <1>7, <1>8

\* t gets the mutex: from nobody, or once more from itself.
LEMMA GrantStep ==
  ASSUME Sound, NEW t \in Threads, mu # NULL, Return(t), UNCHANGED <<mu, cv, kcv>>,
         call[t].pc \in {"k_lock", "relock"},
         kmu[mu].count = 0 \/ kmu[mu].owner = t,
         kmu' = [kmu EXCEPT ![mu] = Taken(t, @)],
         holds' = [holds EXCEPT ![t] = @ + 1]
  PROVE  Sound'
  <1> USE DEF Sound
  <1>1. PICK o \in MObjs : o = mu  BY DEF TypeOK
  <1>2. Moves(t, "idle", "none", NULL)  BY ReturnMoves
  <1>3. /\ kmu' \in [MObjs -> KMutex] /\ \A p \in MObjs \ {o} : kmu'[p] = kmu[p]
        /\ kmu'[o].owner = t /\ kmu'[o].count = kmu[o].count + 1
        /\ kmu'[o].waitq = kmu[o].waitq /\ kmu'[o].type = kmu[o].type
    <2>1. kmu[o] \in KMutex  BY DEF TypeOK
    <2>2. kmu' = [kmu EXCEPT ![o] = Taken(t, kmu[o])]  BY <1>1
    <2> QED  BY <2>1, <2>2, TakenIs DEF TypeOK
  <1>10. holds' \in [Threads -> Nat]  BY DEF TypeOK
  <1>4. TypeOK'  BY <1>2, <1>3, <1>10 DEF TypeOK, Moves
  <1>5. Owned'
    <2>1. kmu[o].count \in Nat  BY DEF TypeOK, KMutex
    <2>2. \A u \in Threads \ {t} : holds'[u] = 0 /\ holds[u] = 0  BY <1>1 DEF Owned, TypeOK
    <2>3. holds'[t] = kmu'[o].count  BY <1>1, <1>3, <2>1 DEF Owned, TypeOK
    <2> QED  BY <1>1, <1>3, <2>1, <2>2, <2>3 DEF Owned
  <1>6. Queues'
    <2>1. \A p : MutexWaiters(p)' = MutexWaiters(p) /\ CondWaiters(p)' = CondWaiters(p)
      BY <1>2, MovedWaiters DEF MutexWaiters, CondWaiters, At
    <2>2. \A p \in MObjs : kmu'[p].waitq = kmu[p].waitq  BY <1>3
    <2> QED  BY <2>1, <2>2 DEF Queues
  <1>7. Pools'  BY <1>2, <1>3 DEF Pools, Storing, Moves, At
  <1>8. Alone'  BY <1>2 DEF Alone, Moves, FirstLock, FirstCond
  <1>9. ASSUME NEW u \in Threads PROVE Knows(u)'
    <2>1. u # t => kmu[mu].owner # u  BY DEF Owned, TypeOK
    <2> QED  BY <1>1, <1>2, <2>1 DEF Knows, Moves, FirstLock, FirstCond
  <1> QED  BY <1>4, <1>5, <1>6, <1>7, <1>8, <1>9

\* t waits for a mutex that has an owner.
LEMMA WaitStep ==
  ASSUME Sound, NEW t \in Threads, mu # NULL, kmu[mu].count # 0, Goto(t, "lock_wait", mu),
         call[t].pc \in {"k_lock", "relock"},
         kmu' = [kmu EXCEPT ![mu].waitq = Append(@, t)],
         UNCHANGED <<mu, cv, kcv, holds>>
  PROVE  Sound'
  <1> USE DEF Sound
  <1>1. PICK o \in MObjs : o = mu  BY DEF TypeOK
  <1>2. Moves(t, "lock_wait", call[t].op, mu)  BY <1>1, GotoMoves DEF PCs
  <1>3. kmu[o].waitq \in Seq(Threads) /\ Queued(kmu[o].waitq, MutexWaiters(o))
    BY DEF Queues, TypeOK, KMutex
  <1>4. t \notin MutexWaiters(o)  BY DEF MutexWaiters, At
  <1>5. /\ Append(kmu[o].waitq, t) \in Seq(Threads)
        /\ Queued(Append(kmu[o].waitq, t), MutexWaiters(o) \cup {t})
    BY <1>3, <1>4, QueuedAppend
  <1>6. /\ kmu' \in [MObjs -> KMutex] /\ \A p \in MObjs \ {o} : kmu'[p] = kmu[p]
        /\ kmu'[o].owner = kmu[o].owner /\ kmu'[o].count = kmu[o].count
        /\ kmu'[o].waitq = Append(kmu[o].waitq, t) /\ kmu'[o].type = kmu[o].type
    <2>1. PICK k \in KMutex : k = kmu[o]  BY DEF TypeOK
    <2>2. PICK q \in Seq(Threads) : q = Append(k.waitq, t)  BY <1>5, <2>1
    <2>4. PICK r : r = [k EXCEPT !.waitq = q]  OBVIOUS
    <2>5. kmu' = [kmu EXCEPT ![o] = r]  BY <1>1, <2>1, <2>2, <2>4
    <2>6. /\ r \in KMutex /\ r.type = k.type /\ r.owner = k.owner
          /\ r.count = k.count /\ r.waitq = q
      BY <2>4, MutexQueue
    <2> QED  BY <2>1, <2>2, <2>5, <2>6 DEF TypeOK
  <1>7. TypeOK'  BY <1>2, <1>6 DEF TypeOK, Moves
  <1>8. Owned'  BY <1>1, <1>6 DEF Owned
  <1>9. Queues'
    <2>1. \A p \in MObjs \ {o} : MutexWaiters(p)' = MutexWaiters(p)
      BY <1>1, <1>2, MovedWaiters DEF MutexWaiters, At
    <2>2. MutexWaiters(o)' = MutexWaiters(o) \cup {t}
      BY <1>1, <1>2, <1>4, MovedWaiters
    <2>3. \A p : CondWaiters(p)' = CondWaiters(p)
      BY <1>2, MovedWaiters DEF CondWaiters, At
    <2>4. \A p \in MObjs \ {o} : kmu'[p].waitq = kmu[p].waitq  BY <1>6
    <2>5. \A p \in MObjs \ {o} : Queued(kmu[p].waitq, MutexWaiters(p))'
      BY <2>1, <2>4 DEF Queues
    <2>6. Queued(kmu[o].waitq, MutexWaiters(o))'  BY <1>5, <1>6, <2>2
    <2>7. \A p \in CObjs : Queued(kcv[p].waitq, CondWaiters(p))'  BY <2>3 DEF Queues
    <2> QED  BY <2>5, <2>6, <2>7 DEF Queues
  <1>10. Pools'  BY <1>2, <1>6 DEF Pools, Storing, Moves, At
  <1>11. Alone'  BY <1>2 DEF Alone, Moves, FirstLock, FirstCond
  <1>12. \A u \in Threads : Knows(u)'
    BY <1>1, <1>2, <1>6 DEF Knows, Moves, FirstLock, FirstCond
  <1> QED  BY <1>7, <1>8, <1>9, <1>10, <1>11, <1>12

LEMMA LockKernelStep ==
  ASSUME Sound, NEW t \in Threads, LockKernel(t)
  PROVE  Sound'
  <1> USE DEF LockKernel, At
  <1>1. mu # NULL  BY DEF Sound, Knows
  <1>2. CASE Grantable(t, kmu[mu])
    <2>1. kmu[mu].count = 0 \/ kmu[mu].owner = t  BY <1>2 DEF Grantable
    <2> QED  BY <1>1, <1>2, <2>1, GrantStep
  <1>3. CASE /\ ~Grantable(t, kmu[mu])
             /\ call[t].how = "nowait" \/ (kmu[mu].owner = t /\ kmu[mu].type # "normal")
    BY <1>3, GivesUp
  <1>4. CASE /\ ~Grantable(t, kmu[mu])
             /\ ~(call[t].how = "nowait" \/ (kmu[mu].owner = t /\ kmu[mu].type # "normal"))
    <2>1. kmu[mu].count # 0  BY <1>4 DEF Grantable
    <2> QED  BY <1>1, <1>4, <2>1, WaitStep
  <1> QED  BY <1>2, <1>3, <1>4

LEMMA RelockStep ==
  ASSUME Sound, NEW t \in Threads, Relock(t)
  PROVE  Sound'
  <1> USE DEF Relock, At
  <1>1. mu # NULL /\ call[t].obj = mu  BY DEF Sound, Knows
  <1>2. CASE kmu[mu].count = 0
    <2>1. kmu' = [kmu EXCEPT ![mu] = Taken(t, @)]  BY <1>1, <1>2
    <2> QED  BY <1>1, <1>2, <2>1, GrantStep
  <1>3. CASE kmu[mu].count # 0
    BY <1>1, <1>3, WaitStep
  <1> QED  BY <1>2, <1>3

LEMMA LockExpiresStep ==
  ASSUME Sound, NEW t \in Threads, LockExpires(t)
  PROVE  Sound'
  <1> USE DEF Sound
  <1>1. PICK o \in MObjs : o = mu /\ o = call[t].obj /\ call[t].pc = "lock_wait"
    BY DEF LockExpires, At, Knows, TypeOK
  <1>2. PICK i \in DOMAIN kmu[o].waitq :
          /\ kmu[o].waitq[i] = t
          /\ kmu' = [kmu EXCEPT ![o].waitq = RemoveAt(@, i)]
    BY <1>1 DEF LockExpires
  <1>3. Return(t) /\ UNCHANGED <<mu, cv, kcv, holds>>  BY DEF LockExpires
  <1>4. Moves(t, "idle", "none", NULL)  BY <1>3, ReturnMoves
  <1>5. /\ kmu[o] \in KMutex /\ kmu[o].waitq \in Seq(Threads)
        /\ Queued(kmu[o].waitq, MutexWaiters(o))
    BY DEF Queues, TypeOK, KMutex
  <1>6. PICK q \in Seq(Threads) :
          q = RemoveAt(kmu[o].waitq, i) /\ Queued(q, MutexWaiters(o) \ {t})
    <2>1. i \in 1..Len(kmu[o].waitq)  BY <1>5
    <2> QED  BY <1>2, <1>5, <2>1, QueuedRemove
  <1>7. /\ kmu' \in [MObjs -> KMutex] /\ \A p \in MObjs \ {o} : kmu'[p] = kmu[p]
        /\ kmu'[o].owner = kmu[o].owner /\ kmu'[o].count = kmu[o].count
        /\ kmu'[o].waitq = q /\ kmu'[o].type = kmu[o].type
    <2>1. PICK r : r = [kmu[o] EXCEPT !.waitq = q]  OBVIOUS
    <2>2. kmu' = [kmu EXCEPT ![o] = r]  BY <1>2, <1>6, <2>1
    <2>3. /\ r \in KMutex /\ r.type = kmu[o].type /\ r.owner = kmu[o].owner
          /\ r.count = kmu[o].count /\ r.waitq = q
      BY <1>5, <2>1, MutexQueue
    <2> QED  BY <2>2, <2>3 DEF TypeOK
  <1>14. \A p \in MObjs :
           /\ kmu'[p].owner = kmu[p].owner /\ kmu'[p].count = kmu[p].count
           /\ kmu'[p].type = kmu[p].type
    BY <1>7
  <1>8. TypeOK'  BY <1>3, <1>4, <1>7 DEF TypeOK, Moves
  <1>9. Owned'
    <2>1. kmu[o].owner # NULL
      <3>1. kmu[o].waitq # <<>>  BY <1>2, <1>5
      <3> QED  BY <3>1 DEF Owned
    <2>2. \A p \in MObjs \ {o} : kmu'[p].waitq = kmu[p].waitq  BY <1>7
    <2> QED  BY <1>1, <1>3, <1>14, <2>1, <2>2 DEF Owned
  <1>10. Queues'
    <2>1. MutexWaiters(o)' = MutexWaiters(o) \ {t}  BY <1>3, <1>4, MovedWaiters
    <2>2. \A p \in MObjs \ {o} : MutexWaiters(p)' = MutexWaiters(p)
      BY <1>1, <1>3, <1>4, MovedWaiters DEF MutexWaiters, At
    <2>3. \A p : CondWaiters(p)' = CondWaiters(p)
      BY <1>1, <1>3, <1>4, MovedWaiters DEF CondWaiters, At
    <2>4. \A p \in MObjs \ {o} : Queued(kmu[p].waitq, MutexWaiters(p))'
      BY <1>7, <2>2 DEF Queues
    <2>5. Queued(kmu[o].waitq, MutexWaiters(o))'  BY <1>6, <1>7, <2>1
    <2>6. \A p \in CObjs : Queued(kcv[p].waitq, CondWaiters(p))'  BY <1>3, <2>3 DEF Queues
    <2> QED  BY <2>4, <2>5, <2>6 DEF Queues
  <1>11. Pools'
    <2>1. \A u \in Threads, l \in {"m_store", "c_store"} : \A p : Storing(u, l, p)' <=> Storing(u, l, p)
      BY <1>1, <1>4 DEF Storing, At, Moves
    <2> QED  BY <1>3, <1>14, <2>1 DEF Pools
  <1>12. Alone'  BY <1>4 DEF Alone, Moves, FirstLock, FirstCond
  <1>13. \A u \in Threads : Knows(u)'
    <2> TAKE u \in Threads
    <2>1. CASE u = t  BY <1>4, <2>1 DEF Knows, Moves, FirstLock, FirstCond
    <2>2. CASE u # t
      <3>1. call'[u] = call[u]  BY <1>4, <2>2 DEF Moves
      <3>2. mu # NULL => kmu'[mu].owner = kmu[mu].owner /\ kmu'[mu].count = kmu[mu].count
        BY <1>1, <1>14
      <3> QED  BY <1>3, <3>1, <3>2 DEF Knows
    <2> QED  BY <2>1, <2>2
  <1> QED  BY <1>8, <1>9, <1>10, <1>11, <1>12, <1>13

\* The three ways in which a mutex is released: it stays locked, it becomes
\* free, or the first waiter has it.
LEMMA ReleasedIs ==
  ASSUME NEW k \in KMutex, k.count # 0, NEW S, Queued(k.waitq, S)
  PROVE  /\ Released(k) \in KMutex /\ Released(k).type = k.type
         /\ Queued(Released(k).waitq, S \ Heir(k))
         /\ \/ /\ Heir(k) = {} /\ k.count > 1
               /\ Released(k).owner = k.owner /\ Released(k).count = k.count - 1
            \/ /\ Heir(k) = {} /\ k.count = 1
               /\ Released(k).owner = NULL /\ Released(k).count = 0 /\ Released(k).waitq = <<>>
            \/ \E u \in Threads :
               /\ u \in S /\ Heir(k) = {u} /\ k.count = 1
               /\ Released(k).owner = u /\ Released(k).count = 1
  <1>1. k.count \in Nat /\ k.waitq \in Seq(Threads) /\ k.owner \in Threads \cup {NULL}  BY DEF KMutex
  <1>2. CASE k.count > 1
    <2>1. Heir(k) = {}  BY <1>1, <1>2 DEF Heir
    <2>2. PICK n \in Nat : n = k.count - 1  BY <1>1, <1>2
    <2>3. Released(k) = [k EXCEPT !.count = n]  BY <1>2, <2>2 DEF Released
    <2>4. LET r == [k EXCEPT !.count = n] IN
          r \in KMutex /\ r.type = k.type /\ r.waitq = k.waitq /\ r.owner = k.owner /\ r.count = n
      BY DEF KMutex
    <2> QED  BY <1>2, <2>1, <2>2, <2>3, <2>4
  <1>3. CASE k.count = 1 /\ k.waitq = <<>>
    <2>1. Heir(k) = {}  BY <1>3 DEF Heir
    <2>2. Released(k) = [k EXCEPT !.owner = NULL, !.count = 0]  BY <1>3 DEF Released
    <2>3. LET r == [k EXCEPT !.owner = NULL, !.count = 0] IN
          r \in KMutex /\ r.type = k.type /\ r.waitq = k.waitq /\ r.owner = NULL /\ r.count = 0
      BY DEF KMutex
    <2> QED  BY <1>3, <2>1, <2>2, <2>3
  <1>4. CASE k.count = 1 /\ k.waitq # <<>>
    <2>1. Heir(k) = {Head(k.waitq)}  BY <1>4 DEF Heir
    <2>2. PICK u \in Threads, q \in Seq(Threads) :
            u = Head(k.waitq) /\ u \in S /\ q = Tail(k.waitq) /\ Queued(q, S \ {u})
      BY <1>1, <1>4, QueuedTail
    <2>3. Released(k) = [k EXCEPT !.owner = u, !.waitq = q]  BY <1>4, <2>2 DEF Released
    <2>4. LET r == [k EXCEPT !.owner = u, !.waitq = q] IN
          r \in KMutex /\ r.type = k.type /\ r.waitq = q /\ r.owner = u /\ r.count = k.count
      BY DEF KMutex
    <2> QED  BY <1>4, <2>1, <2>2, <2>3, <2>4
  <1> QED  BY <1>1, <1>2, <1>3, <1>4

\* What pthread_mutex_unlock and pthread_cond_wait do to the mutex.
Releases(t) ==
    /\ mu # NULL /\ kmu[mu].owner = t /\ ~At(t, "lock_wait")
    /\ kmu' = [kmu EXCEPT ![mu] = Released(@)]
    /\ holds' = [u \in Threads |-> holds[u] + (IF u \in Heir(kmu[mu]) THEN 1 ELSE 0)
                                            - (IF u = t THEN 1 ELSE 0)]
    /\ UNCHANGED mu

LEMMA ReleaseStep ==
  ASSUME Sound, NEW t \in Threads, Releases(t)
  PROVE  /\ mu \in MObjs /\ Heir(kmu[mu]) \subseteq MutexWaiters(mu) /\ t \notin Heir(kmu[mu])
         /\ kmu' \in [MObjs -> KMutex] /\ \A p \in MObjs \ {mu} : kmu'[p] = kmu[p]
         /\ kmu'[mu].type = kmu[mu].type
         /\ Queued(kmu'[mu].waitq, MutexWaiters(mu) \ Heir(kmu[mu]))
         /\ holds' \in [Threads -> Nat]
         /\ Owned'
  <1> USE DEF Sound, Releases
  <1>1. PICK o \in MObjs : o = mu  BY DEF TypeOK
  <1>2. PICK k \in KMutex : k = kmu[o]  BY DEF TypeOK
  <1>3. k.count # 0 /\ k.count \in Nat /\ Queued(k.waitq, MutexWaiters(o))
    BY <1>1, <1>2 DEF Owned, Queues, KMutex
  <1>4. PICK r \in KMutex :
          /\ r = Released(k) /\ r.type = k.type
          /\ Queued(r.waitq, MutexWaiters(o) \ Heir(k))
          /\ \/ /\ Heir(k) = {} /\ k.count > 1
                /\ r.owner = k.owner /\ r.count = k.count - 1
             \/ /\ Heir(k) = {} /\ k.count = 1
                /\ r.owner = NULL /\ r.count = 0 /\ r.waitq = <<>>
             \/ \E u \in Threads :
                /\ u \in MutexWaiters(o) /\ Heir(k) = {u} /\ k.count = 1
                /\ r.owner = u /\ r.count = 1
    BY <1>3, ReleasedIs
  <1>5. kmu' = [kmu EXCEPT ![o] = r]  BY <1>1, <1>2, <1>4
  <1>6. kmu' \in [MObjs -> KMutex] /\ kmu'[o] = r /\ \A p \in MObjs \ {o} : kmu'[p] = kmu[p]
    BY <1>5 DEF TypeOK
  <1>7. Heir(k) \subseteq MutexWaiters(o) /\ t \notin MutexWaiters(o)
    BY <1>4 DEF MutexWaiters
  <1>8. \A u \in Threads : holds[u] = IF u = t THEN k.count ELSE 0
    BY <1>1, <1>2 DEF Owned
  <1>9. \A u \in Threads : holds'[u] = IF u = t THEN k.count - 1
                                       ELSE IF u \in Heir(k) THEN 1 ELSE 0
    BY <1>1, <1>2, <1>3, <1>7, <1>8
  <1>10. holds' \in [Threads -> Nat]
    <2>1. \A u \in Threads : holds'[u] \in Nat  BY <1>3, <1>9
    <2> QED  BY <2>1
  <1>11. \A u \in Threads : holds'[u] = IF r.owner = u THEN r.count ELSE 0
    BY <1>2, <1>3, <1>4, <1>7, <1>9, <1>1
  <1>12. (r.owner = NULL <=> r.count = 0) /\ (r.owner = NULL => r.waitq = <<>>)
    BY <1>1, <1>2, <1>3, <1>4
  <1>13. Owned'  BY <1>1, <1>6, <1>11, <1>12 DEF Owned
  <1> QED  BY <1>1, <1>2, <1>4, <1>6, <1>7, <1>10, <1>13

LEMMA UnlockStep ==
  ASSUME Sound, NEW t \in Threads, Unlock(t)
  PROVE  Sound'
  <1> USE DEF Sound
  <1>1. Releases(t) /\ UNCHANGED <<mu, cv, kcv>>  BY DEF Unlock, Calls, At, Releases
  <1>2. PICK H \in SUBSET MutexWaiters(mu) :
          /\ H = Heir(kmu[mu]) /\ mu \in MObjs
          /\ kmu' \in [MObjs -> KMutex] /\ (\A p \in MObjs \ {mu} : kmu'[p] = kmu[p])
          /\ kmu'[mu].type = kmu[mu].type
          /\ Queued(kmu'[mu].waitq, MutexWaiters(mu) \ H)
          /\ holds' \in [Threads -> Nat] /\ Owned'
    BY <1>1, ReleaseStep
  <1>3. /\ call' \in [Threads -> Call]
        /\ \A u \in Threads \ H : call'[u] = call[u]
        /\ \A u \in H : call'[u].pc = "idle"
    BY <1>2 DEF Unlock, Idle, TypeOK, Call, PCs, Timeouts, MutexWaiters
  <1>4. \A u \in H : u \in Threads /\ call[u].pc = "lock_wait" /\ call[u].obj = mu
    BY <1>2 DEF MutexWaiters, At
  <1>5. TypeOK'  BY <1>1, <1>2, <1>3 DEF TypeOK
  <1>6. Queues'
    <2>1. MutexWaiters(mu)' = MutexWaiters(mu) \ H
      BY <1>1, <1>3, <1>4 DEF MutexWaiters, At
    <2>2. \A p \in MObjs \ {mu} : MutexWaiters(p)' = MutexWaiters(p)
      BY <1>3, <1>4 DEF MutexWaiters, At
    <2>3. \A p : CondWaiters(p)' = CondWaiters(p)
      BY <1>1, <1>3, <1>4 DEF CondWaiters, At
    <2>4. \A p \in MObjs \ {mu} : Queued(kmu[p].waitq, MutexWaiters(p))'
      BY <1>2, <2>2 DEF Queues
    <2>5. Queued(kmu[mu].waitq, MutexWaiters(mu))'  BY <1>1, <1>2, <2>1
    <2>6. \A p \in CObjs : Queued(kcv[p].waitq, CondWaiters(p))'  BY <1>1, <2>3 DEF Queues
    <2> QED  BY <1>1, <2>4, <2>5, <2>6 DEF Queues
  <1>7. Pools'
    <2>1. \A p \in MObjs : kmu'[p].type = kmu[p].type  BY <1>2
    <2>2. \A u \in Threads, l \in {"m_store", "c_store"} : \A p : Storing(u, l, p)' <=> Storing(u, l, p)
      BY <1>3, <1>4 DEF Storing, At
    <2> QED  BY <1>1, <2>1, <2>2 DEF Pools
  <1>8. Alone'  BY <1>3 DEF Alone, FirstLock, FirstCond
  <1>9. ASSUME NEW u \in Threads PROVE Knows(u)'
    <2>1. CASE u \in H  BY <1>3, <2>1 DEF Knows, FirstLock, FirstCond
    <2>2. CASE u = t /\ u \notin H
      BY <1>3, <2>2 DEF Knows, FirstLock, FirstCond, Unlock, Calls
    <2>3. CASE u # t /\ u \notin H
      <3>1. kmu[mu].owner # u  BY <2>3 DEF Unlock
      <3> QED  BY <1>1, <1>3, <2>3, <3>1 DEF Knows
    <2> QED  BY <2>1, <2>2, <2>3
  <1> QED  BY <1>2, <1>5, <1>6, <1>7, <1>8, <1>9

LEMMA CondRecord ==
  ASSUME NEW k \in KCond
  PROVE  /\ [k EXCEPT !.used = TRUE] \in KCond
         /\ [k EXCEPT !.used = TRUE].used = TRUE /\ [k EXCEPT !.used = TRUE].waitq = k.waitq
         /\ \A q \in Seq(Threads) :
              LET r == [k EXCEPT !.waitq = q] IN
              r \in KCond /\ r.used = k.used /\ r.waitq = q
  BY DEF KCond

LEMMA CondAllocStep ==
  ASSUME Sound, NEW t \in Threads, CondAlloc(t)
  PROVE  Sound'
  <1>1. CASE Return(t) /\ UNCHANGED kcv
    BY <1>1, GivesUp DEF CondAlloc, At
  <1>2. ASSUME NEW o \in CObjs, ~kcv[o].used, Goto(t, "c_store", o),
               kcv' = [kcv EXCEPT ![o].used = TRUE]
        PROVE  Sound'
    <2> USE <1>2 DEF Sound, CondAlloc, At
    <2>1. Moves(t, "c_store", call[t].op, o)  BY GotoMoves DEF PCs
    <2>2. cv = NULL  BY DEF Knows, FirstCond
    <2>3. /\ kcv' \in [CObjs -> KCond] /\ \A p \in CObjs \ {o} : kcv'[p] = kcv[p]
          /\ kcv'[o].used = TRUE /\ kcv'[o].waitq = kcv[o].waitq
      <3>1. PICK k \in KCond : k = kcv[o]  BY DEF TypeOK
      <3>2. PICK r : r = [k EXCEPT !.used = TRUE]  OBVIOUS
      <3>3. r \in KCond /\ r.used = TRUE /\ r.waitq = k.waitq  BY <3>2, CondRecord
      <3>4. kcv' = [kcv EXCEPT ![o] = r]  BY <3>1, <3>2
      <3> QED  BY <3>1, <3>3, <3>4 DEF TypeOK
    <2>4. TypeOK'  BY <2>1, <2>3 DEF TypeOK, Moves
    <2>5. Owned'  BY DEF Owned
    <2>6. Queues'
      <3>1. \A p : MutexWaiters(p)' = MutexWaiters(p) /\ CondWaiters(p)' = CondWaiters(p)
        BY <2>1, MovedWaiters DEF MutexWaiters, CondWaiters
      <3>2. \A p \in CObjs : kcv'[p].waitq = kcv[p].waitq  BY <2>3
      <3> QED  BY <3>1, <3>2 DEF Queues
    <2>7. Pools'  BY <2>1, <2>3 DEF Pools, Storing, Moves
    <2>8. Alone'  BY <2>1 DEF Alone, Moves, FirstLock, FirstCond
    <2>9. \A u \in Threads : Knows(u)'  BY <2>1, <2>2 DEF Knows, Moves, FirstLock, FirstCond
    <2> QED  BY <2>4, <2>5, <2>6, <2>7, <2>8, <2>9
  <1> QED  BY <1>1, <1>2 DEF CondAlloc

LEMMA CondStoreStep ==
  ASSUME Sound, NEW t \in Threads, CondStore(t)
  PROVE  Sound'
  <1> USE DEF Sound, CondStore, At
  <1>1. Moves(t, "k_cond", call[t].op, NULL)  BY GotoMoves DEF PCs
  <1>2. PICK o \in CObjs : o = call[t].obj /\ cv' = o /\ cv = NULL
    BY DEF Knows, FirstCond
  <1>3. TypeOK'  BY <1>1, <1>2 DEF TypeOK, Moves
  <1>4. Owned'  BY DEF Owned
  <1>5. Queues'
    <2>1. \A u \in Threads : call[u].pc # "cond_wait"  BY <1>2 DEF Knows
    <2>2. \A p : MutexWaiters(p)' = MutexWaiters(p)
      BY <1>1 DEF MutexWaiters, Moves
    <2>3. \A p : CondWaiters(p)' = {} /\ CondWaiters(p) = {}
      BY <1>1, <2>1 DEF CondWaiters, Moves
    <2> QED  BY <2>2, <2>3 DEF Queues
  <1>6. Pools'
    <2>1. \A u \in Threads : call[u].pc = "c_store" => u = t  BY DEF Alone, FirstCond
    <2> QED  BY <1>1, <1>2, <2>1 DEF Pools, Storing, Moves
  <1>7. Alone'  BY <1>1 DEF Alone, Moves, FirstLock, FirstCond
  <1>8. ASSUME NEW u \in Threads PROVE Knows(u)'
    <2>1. call[u].pc \in FirstCond => u = t  BY DEF Alone, FirstCond
    <2> QED  BY <1>1, <1>2, <2>1 DEF Knows, Moves, FirstLock, FirstCond
  <1> QED  BY <1>3, <1>4, <1>5, <1>6, <1>7, <1>8

\* The wait queue of the condition variable in use becomes q, and the rest of
\* kcv stays.
LEMMA CondQueueIs ==
  ASSUME TypeOK, NEW o \in CObjs, NEW q \in Seq(Threads), kcv' = [kcv EXCEPT ![o].waitq = q]
  PROVE  /\ kcv' \in [CObjs -> KCond] /\ \A p \in CObjs \ {o} : kcv'[p] = kcv[p]
         /\ kcv'[o].used = kcv[o].used /\ kcv'[o].waitq = q
  <1>1. PICK k \in KCond : k = kcv[o]  BY DEF TypeOK
  <1>2. PICK r : r = [k EXCEPT !.waitq = q]  OBVIOUS
  <1>3. r \in KCond /\ r.used = k.used /\ r.waitq = q  BY <1>2, CondRecord
  <1>4. kcv' = [kcv EXCEPT ![o] = r]  BY <1>1, <1>2
  <1> QED  BY <1>1, <1>3, <1>4 DEF TypeOK

LEMMA CondWaitStep ==
  ASSUME Sound, NEW t \in Threads, CondWait(t)
  PROVE  Sound'
  <1> USE DEF Sound
  <1>1. call[t].pc = "k_cond" /\ call[t].op = "wait" /\ UNCHANGED <<mu, cv>>
    BY DEF CondWait, At
  <1>2. Releases(t)
    BY <1>1 DEF CondWait, At, Releases, Knows
  <1>3. PICK H \in SUBSET MutexWaiters(mu) :
          /\ H = Heir(kmu[mu]) /\ mu \in MObjs /\ t \notin H
          /\ kmu' \in [MObjs -> KMutex] /\ (\A p \in MObjs \ {mu} : kmu'[p] = kmu[p])
          /\ kmu'[mu].type = kmu[mu].type
          /\ Queued(kmu'[mu].waitq, MutexWaiters(mu) \ H)
          /\ holds' \in [Threads -> Nat] /\ Owned'
    BY <1>2, ReleaseStep
  <1>4. PICK c \in CObjs : c = cv  BY <1>1 DEF Knows, TypeOK
  <1>5. t \notin CondWaiters(c)  BY <1>1 DEF CondWaiters, At
  <1>6. PICK q \in Seq(Threads) :
          q = Append(kcv[c].waitq, t) /\ Queued(q, CondWaiters(c) \cup {t})
    <2>1. kcv[c].waitq \in Seq(Threads) /\ Queued(kcv[c].waitq, CondWaiters(c))
      BY DEF Queues, TypeOK, KCond
    <2> QED  BY <1>5, <2>1, QueuedAppend
  <1>7. /\ kcv' \in [CObjs -> KCond] /\ \A p \in CObjs \ {c} : kcv'[p] = kcv[p]
        /\ kcv'[c].used = kcv[c].used /\ kcv'[c].waitq = q
    <2>1. kcv' = [kcv EXCEPT ![c].waitq = q]  BY <1>4, <1>6 DEF CondWait
    <2> QED  BY <2>1, CondQueueIs
  <1>8. \A u \in H : u \in Threads /\ call[u].pc = "lock_wait" /\ call[u].obj = mu
    BY <1>3 DEF MutexWaiters, At
  <1>9. /\ call' \in [Threads -> Call]
        /\ call'[t].pc = "cond_wait" /\ call'[t].obj = mu
        /\ \A u \in Threads \ (H \cup {t}) : call'[u] = call[u]
        /\ \A u \in H : call'[u].pc = "idle"
    <2>1. call' = [u \in Threads |->
                     IF u = t THEN [call[t] EXCEPT !.pc = "cond_wait", !.obj = mu]
                     ELSE IF u \in H THEN Idle ELSE call[u]]
      BY <1>3 DEF CondWait
    <2>2. PICK r : r = [call[t] EXCEPT !.pc = "cond_wait", !.obj = mu]  OBVIOUS
    <2>3. r \in Call /\ r.pc = "cond_wait" /\ r.obj = mu
      <3>1. call[t] \in Call  BY DEF TypeOK
      <3> QED  BY <1>3, <2>2, <3>1 DEF Call, PCs
    <2>4. Idle \in Call /\ Idle.pc = "idle"  BY DEF Idle, Call, PCs, Timeouts
    <2>5. call' = [u \in Threads |-> IF u = t THEN r ELSE IF u \in H THEN Idle ELSE call[u]]
      BY <2>1, <2>2
    <2> QED  BY <1>3, <1>8, <2>3, <2>4, <2>5 DEF TypeOK
  <1>10. TypeOK'  BY <1>1, <1>3, <1>7, <1>9 DEF TypeOK
  <1>11. Queues'
    <2>1. MutexWaiters(mu)' = MutexWaiters(mu) \ H
      BY <1>1, <1>8, <1>9 DEF MutexWaiters, At
    <2>2. \A p \in MObjs \ {mu} : MutexWaiters(p)' = MutexWaiters(p)
      BY <1>1, <1>8, <1>9 DEF MutexWaiters, At
    <2>3. CondWaiters(c)' = CondWaiters(c) \cup {t}
      BY <1>1, <1>4, <1>8, <1>9 DEF CondWaiters, At
    <2>4. \A p \in CObjs \ {c} : CondWaiters(p)' = {} /\ CondWaiters(p) = {}
      BY <1>1, <1>4 DEF CondWaiters
    <2>5. \A p \in MObjs \ {mu} : Queued(kmu[p].waitq, MutexWaiters(p))'
      BY <1>3, <2>2 DEF Queues
    <2>6. Queued(kmu[mu].waitq, MutexWaiters(mu))'  BY <1>1, <1>3, <2>1
    <2>7. \A p \in CObjs \ {c} : Queued(kcv[p].waitq, CondWaiters(p))'
      BY <1>7, <2>4 DEF Queues
    <2>8. Queued(kcv[c].waitq, CondWaiters(c))'  BY <1>6, <1>7, <2>3
    <2> QED  BY <1>1, <2>5, <2>6, <2>7, <2>8 DEF Queues
  <1>12. Pools'
    <2>1. \A p \in MObjs : kmu'[p].type = kmu[p].type  BY <1>3
    <2>2. \A p \in CObjs : kcv'[p].used = kcv[p].used  BY <1>7
    <2>3. \A u \in Threads, l \in {"m_store", "c_store"} : \A p : Storing(u, l, p)' <=> Storing(u, l, p)
      BY <1>1, <1>8, <1>9 DEF Storing, At
    <2> QED  BY <1>1, <2>1, <2>2, <2>3 DEF Pools
  <1>13. Alone'  BY <1>8, <1>9 DEF Alone, FirstLock, FirstCond
  <1>14. ASSUME NEW u \in Threads PROVE Knows(u)'
    <2>1. CASE u \in H  BY <1>9, <2>1 DEF Knows, FirstLock, FirstCond
    <2>2. CASE u = t
      BY <1>1, <1>2, <1>4, <1>9, <2>2 DEF Knows, FirstLock, FirstCond, Releases
    <2>3. CASE u # t /\ u \notin H
      <3>1. kmu[mu].owner # u  BY <1>2, <2>3 DEF Releases
      <3> QED  BY <1>1, <1>9, <2>3, <3>1 DEF Knows
    <2> QED  BY <2>1, <2>2, <2>3
  <1> QED  BY <1>3, <1>10, <1>11, <1>12, <1>13, <1>14

LEMMA WokenRecord ==
  ASSUME NEW r \in Call
  PROVE  LET s == [r EXCEPT !.pc = "relock", !.how = "forever"] IN
         s \in Call /\ s.pc = "relock" /\ s.obj = r.obj
  BY DEF Call, PCs, Timeouts

\* The threads of W leave the condition variable's queue, and t its call if it
\* was the one that woke them.
LEMMA WakeStep ==
  ASSUME Sound, NEW t \in Threads, NEW W \in SUBSET CondWaiters(cv), NEW c \in CObjs, c = cv,
         NEW q \in Seq(Threads), Queued(q, CondWaiters(c) \ W),
         kcv' = [kcv EXCEPT ![c].waitq = q],
         t \notin W => call[t].pc = "k_cond",
         call' = [u \in Threads |->
           IF u \in W THEN [call[u] EXCEPT !.pc = "relock", !.how = "forever"]
           ELSE IF u = t THEN Idle ELSE call[u]],
         UNCHANGED <<mu, cv, kmu, holds>>
  PROVE  Sound'
  <1> USE DEF Sound
  <1>1. /\ kcv' \in [CObjs -> KCond] /\ \A p \in CObjs \ {c} : kcv'[p] = kcv[p]
        /\ kcv'[c].used = kcv[c].used /\ kcv'[c].waitq = q
    BY CondQueueIs
  <1>2. \A u \in W : u \in Threads /\ call[u].pc = "cond_wait" /\ call[u].obj = mu /\ mu # NULL
    BY DEF CondWaiters, At, Knows
  <1>3. /\ call' \in [Threads -> Call]
        /\ \A u \in W : call'[u].pc = "relock" /\ call'[u].obj = call[u].obj
        /\ t \notin W => call'[t].pc = "idle"
        /\ \A u \in Threads \ (W \cup {t}) : call'[u] = call[u]
    <2>1. ASSUME NEW u \in W
          PROVE  /\ call'[u] \in Call /\ call'[u].pc = "relock" /\ call'[u].obj = call[u].obj
      <3>1. PICK r \in Call : r = call[u]  BY <1>2 DEF TypeOK
      <3>2. call'[u] = [r EXCEPT !.pc = "relock", !.how = "forever"]  BY <1>2, <3>1
      <3>3. LET s == [r EXCEPT !.pc = "relock", !.how = "forever"] IN
            s \in Call /\ s.pc = "relock" /\ s.obj = r.obj
        BY WokenRecord
      <3> QED  BY <3>1, <3>2, <3>3
    <2>2. Idle \in Call /\ Idle.pc = "idle"  BY DEF Idle, Call, PCs, Timeouts
    <2>3. \A u \in Threads \ W : call'[u] = IF u = t THEN Idle ELSE call[u]  OBVIOUS
    <2>4. \A u \in Threads : call'[u] \in Call  BY <2>1, <2>2, <2>3 DEF TypeOK
    <2>5. call' \in [Threads -> Call]  BY <2>4
    <2> QED  BY <2>1, <2>2, <2>3, <2>5
  <1>4. TypeOK'  BY <1>1, <1>3 DEF TypeOK
  <1>5. Owned'  BY DEF Owned
  <1>6. Queues'
    <2>1. \A p : MutexWaiters(p)' = MutexWaiters(p)
      BY <1>2, <1>3 DEF MutexWaiters, At
    <2>2. CondWaiters(c)' = CondWaiters(c) \ W
      BY <1>2, <1>3 DEF CondWaiters, At
    <2>3. \A p \in CObjs \ {c} : CondWaiters(p)' = {} /\ CondWaiters(p) = {}
      BY DEF CondWaiters
    <2>4. ASSUME NEW p \in CObjs \ {c} PROVE Queued(kcv[p].waitq, CondWaiters(p))'
      <3>1. kcv'[p].waitq = kcv[p].waitq /\ CondWaiters(p)' = CondWaiters(p)  BY <1>1, <2>3
      <3>2. Queued(kcv[p].waitq, CondWaiters(p))  BY DEF Queues
      <3> QED  BY <3>1, <3>2
    <2>5. Queued(kcv[c].waitq, CondWaiters(c))'  BY <1>1, <2>2
    <2>6. \A p \in MObjs : Queued(kmu[p].waitq, MutexWaiters(p))'  BY <2>1 DEF Queues
    <2> QED  BY <2>4, <2>5, <2>6 DEF Queues
  <1>7. Pools'
    <2>1. \A p \in CObjs : kcv'[p].used = kcv[p].used  BY <1>1
    <2>2. \A u \in Threads, l \in {"m_store", "c_store"} : \A p : Storing(u, l, p)' <=> Storing(u, l, p)
      BY <1>2, <1>3 DEF Storing, At
    <2> QED  BY <2>1, <2>2 DEF Pools
  <1>8. Alone'  BY <1>2, <1>3 DEF Alone, FirstLock, FirstCond
  <1>9. ASSUME NEW u \in Threads PROVE Knows(u)'
    <2>1. CASE u \in W  BY <1>2, <1>3, <2>1 DEF Knows, FirstLock, FirstCond
    <2>2. CASE u = t /\ u \notin W  BY <1>3, <2>2 DEF Knows, FirstLock, FirstCond
    <2>3. CASE u # t /\ u \notin W  BY <1>3, <2>3 DEF Knows
    <2> QED  BY <2>1, <2>2, <2>3
  <1> QED  BY <1>4, <1>5, <1>6, <1>7, <1>8, <1>9

LEMMA CondExpiresStep ==
  ASSUME Sound, NEW t \in Threads, CondExpires(t)
  PROVE  Sound'
  <1> USE DEF Sound
  <1>10. PICK o \in CObjs : \E i \in DOMAIN kcv[o].waitq :
          /\ kcv[o].waitq[i] = t
          /\ kcv' = [kcv EXCEPT ![o].waitq = RemoveAt(@, i)]
    BY DEF CondExpires
  <1>1. PICK i \in DOMAIN kcv[o].waitq :
          /\ kcv[o].waitq[i] = t
          /\ kcv' = [kcv EXCEPT ![o].waitq = RemoveAt(@, i)]
    BY <1>10
  <1>2. /\ At(t, "cond_wait") /\ call' = Wakes({t}) /\ UNCHANGED <<mu, cv, kmu, holds>>
    BY DEF CondExpires
  <1>3. kcv[o].waitq \in Seq(Threads) /\ Queued(kcv[o].waitq, CondWaiters(o))
    BY DEF Queues, TypeOK, KCond
  <1>4. i \in 1..Len(kcv[o].waitq)  BY <1>3
  <1>5. t \in CondWaiters(o)  BY <1>1, <1>3, <1>4 DEF Queued
  <1>6. o = cv /\ {t} \in SUBSET CondWaiters(cv)  BY <1>5 DEF CondWaiters
  <1>7. PICK q \in Seq(Threads) :
          q = RemoveAt(kcv[o].waitq, i) /\ Queued(q, CondWaiters(o) \ {t})
    BY <1>1, <1>3, <1>4, QueuedRemove
  <1>8. kcv' = [kcv EXCEPT ![o].waitq = q]  BY <1>1, <1>7
  <1>9. call' = [u \in Threads |->
           IF u \in {t} THEN [call[u] EXCEPT !.pc = "relock", !.how = "forever"]
           ELSE IF u = t THEN Idle ELSE call[u]]
    BY <1>2 DEF Wakes
  <1> HIDE DEF Sound
  <1> QED  BY <1>2, <1>6, <1>7, <1>8, <1>9, WakeStep

LEMMA CondWakeStep ==
  ASSUME Sound, NEW t \in Threads, CondWake(t)
  PROVE  Sound'
  <1> USE DEF Sound
  <1>1. call[t].pc = "k_cond" /\ UNCHANGED <<mu, cv, kmu, holds>>  BY DEF CondWake, At
  <1>2. PICK c \in CObjs : c = cv  BY <1>1 DEF Knows, TypeOK
  <1>3. PICK q \in Seq(Threads) : q = kcv[c].waitq /\ Queued(q, CondWaiters(c))
    BY DEF Queues, TypeOK, KCond
  <1>4. PICK n \in 0..Len(q) :
          /\ n = IF call[t].op = "signal" /\ q # <<>> THEN 1 ELSE Len(q)
          /\ kcv' = [kcv EXCEPT ![cv].waitq = SubSeq(q, n + 1, Len(q))]
          /\ call' = [Wakes({q[i] : i \in 1..n}) EXCEPT ![t] = Idle]
    <2>1. q # <<>> => 1 \in 0..Len(q)  BY EmptySeq
    <2>2. Len(q) \in 0..Len(q)  OBVIOUS
    <2>3. PICK n : n = IF call[t].op = "signal" /\ q # <<>> THEN 1 ELSE Len(q)  OBVIOUS
    <2>4. n \in 0..Len(q)  BY <2>1, <2>2, <2>3
    <2>5. /\ kcv' = [kcv EXCEPT ![cv].waitq = SubSeq(q, n + 1, Len(q))]
          /\ call' = [Wakes({q[i] : i \in 1..n}) EXCEPT ![t] = Idle]
      BY <1>2, <1>3, <2>3 DEF CondWake
    <2> QED  BY <2>3, <2>4, <2>5
  <1>5. PICK W : W = {q[i] : i \in 1..n}  OBVIOUS
  <1>6. W \in SUBSET CondWaiters(cv) /\ t \notin W
    <2>1. \A i \in 1..n : i \in 1..Len(q) /\ q[i] \in Threads  BY <1>4
    <2>2. \A i \in 1..n : q[i] \in CondWaiters(c)  BY <1>3, <2>1 DEF Queued
    <2>3. t \notin CondWaiters(c)  BY <1>1 DEF CondWaiters, At
    <2> QED  BY <1>2, <1>5, <2>2, <2>3
  <1>7. PICK r : r = SubSeq(q, n + 1, Len(q))  OBVIOUS
  <1>8. r \in Seq(Threads) /\ Queued(r, CondWaiters(c) \ W)
    <2>1. PICK m \in Nat : m = Len(q) /\ n \in 0..m  OBVIOUS
    <2>2. /\ r \in Seq(Threads) /\ Len(r) = IF n + 1 <= m THEN m - (n + 1) + 1 ELSE 0
          /\ \A i \in 1..(m - (n + 1) + 1) : r[i] = q[n + 1 + i - 1]
      <3>1. \A i \in (n + 1)..m : q[i] \in Threads  BY <2>1
      <3> QED  BY <1>7, <2>1, <3>1, SubSeqProperties
    <2>3. m - (n + 1) + 1 = m - n /\ \A i \in 1..(m - n) : n + 1 + i - 1 = n + i  BY <2>1
    <2>4. Len(r) = m - n /\ \A i \in 1..(m - n) : r[i] = q[n + i]
      <3>1. Len(r) = m - n  BY <2>1, <2>2
      <3> QED  BY <2>2, <2>3, <3>1
    <2> QED  BY <1>3, <1>5, <2>1, <2>2, <2>4, QueuedDrop
  <1>9. kcv' = [kcv EXCEPT ![c].waitq = r]  BY <1>2, <1>4, <1>7
  <1>10. call' = [u \in Threads |->
            IF u \in W THEN [call[u] EXCEPT !.pc = "relock", !.how = "forever"]
            ELSE IF u = t THEN Idle ELSE call[u]]
    BY <1>4, <1>5, <1>6 DEF Wakes
  <1> HIDE DEF Sound
  <1> QED  BY <1>1, <1>2, <1>6, <1>8, <1>9, <1>10, WakeStep

-----------------------------------------------------------------------------
LEMMA ThreadStep ==
  ASSUME Sound, habit = "warm", NEW t \in Threads, Thread(t)
  PROVE  Sound'
  BY MutexInitStep, MutexDestroyStep, CondDestroyStep, LockTestStep, LockAllocStep,
     LockStoreStep, LockKernelStep, LockExpiresStep, UnlockStep, CondTestStep, CondAllocStep,
     CondStoreStep, CondWaitStep, CondExpiresStep, CondWakeStep, RelockStep
  DEF Thread

\* Every step of every call, and every stuttering step, keeps the invariant.
THEOREM Inductive == IInv /\ [Next]_vars => IInv'
  <1> SUFFICES ASSUME IInv, [Next]_vars, habit' = "warm" PROVE Sound'
    BY DEF IInv
  <1>1. CASE UNCHANGED vars
    <2>1. Sound  BY <1>1 DEF IInv, vars
    <2> USE <1>1, <2>1 DEF vars, Sound
    <2>2. TypeOK' /\ Owned' /\ Alone' /\ \A t \in Threads : Knows(t)'
      BY DEF TypeOK, Owned, Alone, Knows
    <2>3. Pools'  BY DEF Pools, Storing, At
    <2>4. Queues'
      <3>1. \A p : MutexWaiters(p)' = MutexWaiters(p) /\ CondWaiters(p)' = CondWaiters(p)
        BY DEF MutexWaiters, CondWaiters, At
      <3> QED  BY <3>1 DEF Queues
    <2> QED  BY <2>2, <2>3, <2>4
  <1>2. ASSUME NEW t \in Threads, Thread(t) PROVE Sound'
    <2>1. habit' = habit
      BY <1>2 DEF Thread, MutexInit, MutexDestroy, CondDestroy, LockTest, LockAlloc, LockStore,
         LockKernel, LockExpires, Unlock, CondTest, CondAlloc, CondStore, CondWait, CondExpires,
         CondWake, Relock
    <2> QED  BY <1>2, <2>1, ThreadStep DEF IInv
  <1> QED  BY <1>1, <1>2 DEF Next

LEMMA Invariance == Spec => []IInv
  <1>1. Init => IInv  BY InitSound DEF IInv
  <1> QED  BY <1>1, Inductive, PTL DEF Spec

\* One thread at a time has the mutex, whatever lock, trylock, timed lock, wait,
\* timeout, signal and broadcast brought it there.
THEOREM MutexesExclude == Spec => []WarmMutualExclusion
  <1>1. IInv => WarmMutualExclusion
    BY DEF IInv, Sound, Owned, WarmMutualExclusion
  <1> QED  BY <1>1, Invariance, PTL

\* No wakeup is lost: whoever sleeps is in the queue that the next signal or
\* unlock looks at, and a mutex that is waited for has an owner.
THEOREM NoWakeupIsLost == Spec => []WarmSleepersAreReachable
  <1>1. IInv => WarmSleepersAreReachable
    <2> SUFFICES ASSUME Sound, NEW t \in Threads
                 PROVE  /\ At(t, "cond_wait") => cv # NULL /\ t \in Range(kcv[cv].waitq)
                        /\ At(t, "lock_wait") => /\ mu = call[t].obj /\ t \in Range(kmu[mu].waitq)
                                                 /\ kmu[mu].owner # NULL
      BY DEF IInv, WarmSleepersAreReachable
    <2> USE DEF Sound
    <2>1. ASSUME NEW q \in Seq(Threads), NEW S, Queued(q, S), t \in S PROVE t \in Range(q)
      BY <2>1 DEF Queued, Range
    <2>2. ASSUME At(t, "cond_wait") PROVE cv # NULL /\ t \in Range(kcv[cv].waitq)
      <3>1. cv \in CObjs  BY <2>2 DEF Knows, At, TypeOK
      <3>2. t \in CondWaiters(cv)  BY <2>2 DEF CondWaiters
      <3>3. kcv[cv].waitq \in Seq(Threads) /\ Queued(kcv[cv].waitq, CondWaiters(cv))
        BY <3>1 DEF Queues, TypeOK, KCond
      <3> QED  BY <2>1, <3>1, <3>2, <3>3
    <2>3. ASSUME At(t, "lock_wait")
          PROVE  mu = call[t].obj /\ t \in Range(kmu[mu].waitq) /\ kmu[mu].owner # NULL
      <3>1. mu \in MObjs /\ mu = call[t].obj  BY <2>3 DEF Knows, At, TypeOK
      <3>2. t \in MutexWaiters(mu)  BY <2>3, <3>1 DEF MutexWaiters
      <3>3. kmu[mu].waitq \in Seq(Threads) /\ Queued(kmu[mu].waitq, MutexWaiters(mu))
        BY <3>1 DEF Queues, TypeOK, KMutex
      <3>4. kmu[mu].waitq # <<>>  BY <3>2, <3>3 DEF Queued
      <3> QED  BY <2>1, <3>1, <3>2, <3>3, <3>4 DEF Owned
    <2> QED  BY <2>2, <2>3
  <1> QED  BY <1>1, Invariance, PTL

\* Every kernel object in use is one that the program can reach or that is about
\* to be stored: initialising and destroying over and over uses up no pool.
THEOREM PoolsDoNotLeak == Spec => []WarmPoolsDoNotLeak
  <1>1. IInv => WarmPoolsDoNotLeak
    BY DEF IInv, Sound, Pools, Storing, WarmPoolsDoNotLeak
  <1> QED  BY <1>1, Invariance, PTL
=============================================================================
