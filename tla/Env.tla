-------------------------------- MODULE Env ---------------------------------
(***************************************************************************)
(* lib/posix/options/shared/env_common.c: the environment as the array     *)
(* environ of "name=value" strings, grown and shrunk with realloc, and the *)
(* count of allocated bytes that the debug build and the tests read.       *)
(* Every operation holds environ_lock throughout and is one step.          *)
(*                                                                         *)
(* getenv and getenv_r change nothing: what they find is Lookup.  Calls    *)
(* that fail with EINVAL, setenv of a present name without overwrite, and  *)
(* a first realloc that fails change nothing either.                       *)
(***************************************************************************)
EXTENDS Integers, Sequences, FiniteSets, SequencesExt

CONSTANTS
    Names,          \* of one length, NameLen
    NameLen,
    Values,         \* records with a len, the strlen of the value
    NULL,
    Ptr,            \* sizeof(void *)
    MaxAllocated    \* bound: nothing is added above this count of bytes

ASSUME NullAssumption == NULL \notin Values
ASSUME SizeAssumption ==
    /\ NameLen \in Nat \ {0} /\ Ptr \in Nat \ {0} /\ MaxAllocated \in Nat
    /\ \A v \in Values : v.len \in Nat

VARIABLES
    environ,    \* the strings before the terminating NULL
    slots,      \* pointers the array has room for; 0: environ == NULL
    allocated

vars == <<environ, slots, allocated>>

\* A string in memory: what it says and the bytes it has.
Entries == [name : Names, val : Values, cap : Nat]

\* strlen of "name=value", plus one
Size(v) == NameLen + 1 + v.len + 1

\* findenv, whose result is an index or -ENOENT
Matches(n) == {i \in 1..Len(environ) : environ[i].name = n}
Found(n, i) == i \in Matches(n) /\ \A j \in Matches(n) : i <= j
Missing(n) == Matches(n) = {}

\* getenv: the value of the first entry of that name
Lookup(n) ==
    IF Missing(n) THEN NULL
    ELSE environ[CHOOSE i \in 1..Len(environ) : Found(n, i)].val

Init == environ = <<>> /\ slots = 0 /\ allocated = 0

-----------------------------------------------------------------------------
(* setenv *)

\* (mutant) no room is made for the terminating NULL
ArrayNoTerminator(n) ==
    /\ Missing(n)
    /\ allocated < MaxAllocated
    /\ slots' = Len(environ) + 1

\* A name that is not there: environ is given one more slot.
Array(n) ==
    /\ Missing(n)
    /\ allocated < MaxAllocated
    /\ slots' = Len(environ) + 2

\* (mutant) the new pointer alone is counted, not the array
SetNewUncounted(n, v) ==
    /\ Array(n)
    /\ environ' = Append(environ, [name |-> n, val |-> v, cap |-> Size(v)])
    /\ allocated' = allocated + Ptr + Size(v)

\* (mutant) the new entry replaces the last one
SetNewOverLast(n, v) ==
    /\ Array(n)
    /\ environ' = (IF environ = <<>> THEN <<>> ELSE Front(environ))
                    \o <<[name |-> n, val |-> v, cap |-> Size(v)]>>
    /\ allocated' = allocated + Ptr * (Len(environ) + 2) + Size(v)

\* (mutant) the name is not searched for
SetNewUnsearched(n, v) ==
    /\ allocated < MaxAllocated
    /\ slots' = Len(environ) + 2
    /\ environ' = Append(environ, [name |-> n, val |-> v, cap |-> Size(v)])
    /\ allocated' = allocated + Ptr * (Len(environ) + 2) + Size(v)

SetNew(n, v) ==
    /\ Array(n)
    /\ environ' = Append(environ, [name |-> n, val |-> v, cap |-> Size(v)])
    /\ allocated' = allocated + Ptr * (Len(environ) + 2) + Size(v)

\* ENOMEM for the string, after the array has grown
SetNewNoMemory(n) ==
    /\ Array(n)
    /\ allocated' = allocated + Ptr * (Len(environ) + 2)
    /\ UNCHANGED environ

\* (mutant) the old string is taken to be large enough
OverwriteAlways(n, v) == \E i \in 1..Len(environ) :
    /\ Found(n, i)
    /\ environ' = [environ EXCEPT ![i].val = v]
    /\ UNCHANGED <<slots, allocated>>

\* overwrite, by a string that is not longer than the old one
Overwrite(n, v) == \E i \in 1..Len(environ) :
    /\ Found(n, i)
    /\ Size(environ[i].val) >= Size(v)
    /\ environ' = [environ EXCEPT ![i].val = v]
    /\ UNCHANGED <<slots, allocated>>

\* overwrite, by a longer one: realloc.  (ENOMEM changes nothing.)
OverwriteGrow(n, v) == \E i \in 1..Len(environ) :
    /\ Found(n, i)
    /\ Size(environ[i].val) < Size(v) /\ allocated < MaxAllocated
    /\ environ' = [environ EXCEPT ![i] = [name |-> n, val |-> v, cap |-> Size(v)]]
    /\ allocated' = allocated + Size(v) - Size(environ[i].val)
    /\ UNCHANGED slots

-----------------------------------------------------------------------------
(* unsetenv *)

\* The last entry takes the array with it; otherwise the array shrinks, unless
\* the realloc fails.
Unset(n) == \E i \in 1..Len(environ) :
    /\ Found(n, i)
    /\ environ' = RemoveAt(environ, i)
    /\ IF Len(environ) = 1
         THEN slots' = 0
         ELSE slots' \in {Len(environ), slots}
    /\ allocated' = allocated - Size(environ[i].val)
                      - (IF Len(environ) = 1 THEN 2 ELSE 1) * Ptr

-----------------------------------------------------------------------------
Next == \E n \in Names :
    \/ Unset(n) \/ SetNewNoMemory(n)
    \/ \E v \in Values : SetNew(n, v) \/ Overwrite(n, v) \/ OverwriteGrow(n, v)
Spec == Init /\ [][Next]_vars

-----------------------------------------------------------------------------
(* Properties *)

\* Every variable has its type; the count of bytes does not wrap around.
TypeOK ==
    /\ environ \in Seq(Entries)
    /\ slots \in Nat
    /\ allocated \in Nat

\* No write is out of bounds: every string fits the bytes it has, and the array
\* has room for every pointer and the terminating NULL, also after a realloc
\* that failed.
EverythingFits ==
    /\ \A i \in 1..Len(environ) : Size(environ[i].val) <= environ[i].cap
    /\ environ # <<>> => Len(environ) < slots

\* Two entries never have one name, so unsetenv really removes a variable.
OneEntryPerName == \A i, j \in 1..Len(environ) :
    environ[i].name = environ[j].name => i = j

\* What the environment needs: the bytes of its strings, and its pointers with
\* the NULL.
Strings == UNION {{environ[i].name} \X (1..Size(environ[i].val)) : i \in 1..Len(environ)}
InUse   == Cardinality(Strings) + IF environ = <<>> THEN 0 ELSE Ptr * (Len(environ) + 1)

\* The count of allocated bytes never falls below what is in use, whatever
\* order variables are added, overwritten and removed in.
AllocatedCoversUse == allocated >= InUse

\* What getenv finds follows the map that callers are promised: setenv and
\* unsetenv change one variable at a time, and a failed realloc none.
Abs == INSTANCE EnvSpec WITH store <- [n \in Names |-> Lookup(n)]
ImplementsMap == Abs!Spec
=============================================================================
