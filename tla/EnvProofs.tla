------------------------------ MODULE EnvProofs ------------------------------
(***************************************************************************)
(* The environment of env_common.c keeps within its memory and implements  *)
(* a map from names to values, for any names and values.                   *)
(***************************************************************************)
EXTENDS Env, SequenceTheorems, FiniteSetTheorems, TLAPS

\* The inductive invariant.  The count of bytes is left an integer: that it is
\* not negative rests on what it never falls below (BInv).
IInv ==
    /\ environ \in Seq(Entries) /\ slots \in Nat /\ allocated \in Int
    /\ EverythingFits
    /\ OneEntryPerName

USE SizeAssumption

-----------------------------------------------------------------------------
\* unsetenv moves the later entries down by one.
LEMMA RemoveAtIs ==
  ASSUME NEW S, NEW s \in Seq(S), NEW i \in 1..Len(s)
  PROVE  /\ RemoveAt(s, i) \in Seq(S)
         /\ Len(RemoveAt(s, i)) = Len(s) - 1
         /\ \A j \in 1..(Len(s) - 1) : RemoveAt(s, i)[j] = IF j < i THEN s[j] ELSE s[j + 1]
  <1>1. /\ SubSeq(s, 1, i - 1) \in Seq(S) /\ Len(SubSeq(s, 1, i - 1)) = i - 1
        /\ \A j \in 1..(i - 1) : SubSeq(s, 1, i - 1)[j] = s[j]
    OBVIOUS
  <1>2. /\ SubSeq(s, i + 1, Len(s)) \in Seq(S) /\ Len(SubSeq(s, i + 1, Len(s))) = Len(s) - i
        /\ \A j \in 1..(Len(s) - i) : SubSeq(s, i + 1, Len(s))[j] = s[i + j]
    <2>1. /\ SubSeq(s, i + 1, Len(s)) \in Seq(S)
          /\ Len(SubSeq(s, i + 1, Len(s))) = IF i + 1 <= Len(s) THEN Len(s) - (i + 1) + 1 ELSE 0
          /\ \A j \in 1..(Len(s) - (i + 1) + 1) : SubSeq(s, i + 1, Len(s))[j] = s[i + 1 + j - 1]
      BY SubSeqProperties
    <2>2. i \in Int /\ Len(s) \in Int /\ i <= Len(s)  OBVIOUS
    <2>3. Len(s) - (i + 1) + 1 = Len(s) - i  BY <2>2
    <2>4. \A j \in 1..(Len(s) - i) : i + 1 + j - 1 = i + j  BY <2>2
    <2>5. Len(SubSeq(s, i + 1, Len(s))) = Len(s) - i  BY <2>1, <2>2
    <2>6. \A j \in 1..(Len(s) - i) : SubSeq(s, i + 1, Len(s))[j] = s[i + j]
      BY <2>1, <2>3, <2>4
    <2> QED  BY <2>1, <2>5, <2>6
  <1> DEFINE p == SubSeq(s, 1, i - 1)
             q == SubSeq(s, i + 1, Len(s))
  <1>3. /\ p \o q \in Seq(S)
        /\ Len(p \o q) = Len(p) + Len(q)
        /\ \A j \in 1..(Len(p) + Len(q)) : (p \o q)[j] = IF j <= Len(p) THEN p[j] ELSE q[j - Len(p)]
    BY <1>1, <1>2, ConcatProperties
  <1>4. RemoveAt(s, i) = p \o q  BY DEF RemoveAt
  <1>5. i \in Int /\ Len(s) \in Int /\ 1 <= i /\ i <= Len(s)  OBVIOUS
  <1> HIDE DEF p, q
  <1>6. /\ Len(p) = i - 1 /\ (\A j \in 1..(i - 1) : p[j] = s[j])
        /\ Len(q) = Len(s) - i /\ (\A j \in 1..(Len(s) - i) : q[j] = s[i + j])
    BY <1>1, <1>2 DEF p, q
  <1>7. ASSUME NEW j \in 1..(Len(s) - 1)
        PROVE  (p \o q)[j] = IF j < i THEN s[j] ELSE s[j + 1]
    <2>1. Len(p) + Len(q) = Len(s) - 1  BY <1>5, <1>6
    <2>2. CASE j < i
      <3>1. j <= Len(p) /\ j \in 1..(i - 1)  BY <1>5, <1>6, <2>2
      <3> QED  BY <1>3, <1>6, <2>1, <2>2, <3>1
    <2>3. CASE ~(j < i)
      <3>1. ~(j <= Len(p)) /\ j - Len(p) \in 1..(Len(s) - i) /\ i + (j - Len(p)) = j + 1
        BY <1>5, <1>6, <2>3
      <3> QED  BY <1>3, <1>6, <2>1, <2>3, <3>1
    <2> QED  BY <2>2, <2>3
  <1> QED  BY <1>3, <1>4, <1>5, <1>6, <1>7

LEMMA SizeIs == \A v \in Values : Size(v) \in Nat
  BY DEF Size

LEMMA InitIInv == Init => IInv
  BY DEF Init, IInv, EverythingFits, OneEntryPerName

LEMMA AppendOne ==
  ASSUME IInv, NEW n \in Names, NEW v \in Values, SetNew(n, v)
  PROVE  /\ environ' \in Seq(Entries) /\ Len(environ') = Len(environ) + 1
         /\ \A i \in 1..Len(environ) : environ'[i] = environ[i]
         /\ environ'[Len(environ) + 1] = [name |-> n, val |-> v, cap |-> Size(v)]
  BY SizeIs DEF SetNew, IInv, Entries

LEMMA ReplaceOne ==
  ASSUME IInv, NEW i \in 1..Len(environ), NEW e \in Entries, environ' = [environ EXCEPT ![i] = e]
  PROVE  /\ environ' \in Seq(Entries) /\ Len(environ') = Len(environ)
         /\ environ'[i] = e
         /\ \A j \in 1..Len(environ) \ {i} : environ'[j] = environ[j]
  BY DEF IInv

LEMMA SetNewStep ==
  ASSUME IInv, NEW n \in Names, NEW v \in Values, SetNew(n, v)
  PROVE  IInv'
  <1>1. PICK k \in Nat : k = Len(environ)  BY DEF IInv
  <1>5. /\ environ' \in Seq(Entries) /\ Len(environ') = k + 1
        /\ \A i \in 1..k : environ'[i] = environ[i]
        /\ environ'[k + 1] = [name |-> n, val |-> v, cap |-> Size(v)]
    BY <1>1, AppendOne
  <1>2. slots' = k + 2 /\ allocated' \in Int
    BY <1>1, SizeIs DEF SetNew, Array, IInv
  <1>3. EverythingFits'
    <2>1. \A w : Size(w)' = Size(w)  BY DEF Size
    <2>2. ASSUME NEW i \in 1..(k + 1) PROVE Size(environ'[i].val) <= environ'[i].cap
      <3>1. CASE i = k + 1  BY <1>5, <3>1, SizeIs
      <3>2. CASE i # k + 1
        <4>1. i \in 1..k  BY <3>2
        <4> QED  BY <1>1, <1>5, <4>1 DEF EverythingFits, IInv
      <3> QED  BY <3>1, <3>2
    <2> QED  BY <1>1, <1>2, <1>5, <2>1, <2>2 DEF EverythingFits
  <1>4. OneEntryPerName'
    BY <1>1, <1>5 DEF OneEntryPerName, IInv, SetNew, Array, Missing, Matches
  <1> QED  BY <1>1, <1>2, <1>3, <1>4, <1>5 DEF IInv

LEMMA SetNewNoMemoryStep ==
  ASSUME IInv, NEW n \in Names, SetNewNoMemory(n)
  PROVE  IInv'
  <1>1. Len(environ) \in Nat  BY DEF IInv
  <1>2. slots' = Len(environ) + 2 /\ allocated' \in Int /\ environ' = environ
    BY <1>1 DEF SetNewNoMemory, Array, IInv
  <1> QED  BY <1>1, <1>2 DEF IInv, EverythingFits, OneEntryPerName, Size

\* Both ways to overwrite replace one entry by one of the same name that fits.
LEMMA OverwriteIs ==
  ASSUME IInv, NEW n \in Names, NEW v \in Values, Overwrite(n, v) \/ OverwriteGrow(n, v)
  PROVE  \E i \in 1..Len(environ), e \in Entries :
           /\ environ[i].name = n /\ e.name = n /\ e.val = v /\ Size(v) <= e.cap
           /\ environ' = [environ EXCEPT ![i] = e]
           /\ slots' = slots /\ allocated' \in Int
  <1>1. CASE Overwrite(n, v)
    <2>1. PICK i \in 1..Len(environ) :
            /\ Found(n, i) /\ Size(environ[i].val) >= Size(v)
            /\ environ' = [environ EXCEPT ![i].val = v]
            /\ UNCHANGED <<slots, allocated>>
      BY <1>1 DEF Overwrite
    <2> DEFINE e == [environ[i] EXCEPT !.val = v]
    <2>2. environ[i] \in Entries /\ environ[i].name = n
      BY <2>1 DEF IInv, Found, Matches
    <2>3. e \in Entries /\ e.name = n /\ e.val = v /\ e.cap = environ[i].cap
      BY <2>2 DEF Entries
    <2>4. Size(environ[i].val) <= environ[i].cap  BY DEF IInv, EverythingFits
    <2>5. Size(v) \in Nat /\ Size(environ[i].val) \in Nat /\ environ[i].cap \in Nat
      BY <2>2, SizeIs DEF Entries
    <2>6. Size(v) <= e.cap  BY <2>1, <2>3, <2>4, <2>5
    <2>7. environ' = [environ EXCEPT ![i] = e]  BY <2>1
    <2> QED  BY <2>1, <2>2, <2>3, <2>6, <2>7 DEF IInv
  <1>2. CASE OverwriteGrow(n, v)
    <2>1. PICK i \in 1..Len(environ) :
            /\ Found(n, i)
            /\ environ' = [environ EXCEPT ![i] = [name |-> n, val |-> v, cap |-> Size(v)]]
            /\ allocated' = allocated + Size(v) - Size(environ[i].val)
            /\ UNCHANGED slots
      BY <1>2 DEF OverwriteGrow
    <2> DEFINE e == [name |-> n, val |-> v, cap |-> Size(v)]
    <2>2. environ[i] \in Entries /\ environ[i].name = n
      BY <2>1 DEF IInv, Found, Matches
    <2>3. Size(v) \in Nat /\ Size(environ[i].val) \in Nat  BY <2>2, SizeIs DEF Entries
    <2>4. e \in Entries /\ e.name = n /\ e.val = v /\ Size(v) <= e.cap
      BY <2>3 DEF Entries
    <2>5. allocated' \in Int  BY <2>1, <2>3 DEF IInv
    <2> QED  BY <2>1, <2>2, <2>4, <2>5
  <1> QED  BY <1>1, <1>2

LEMMA OverwriteStep ==
  ASSUME IInv, NEW n \in Names, NEW v \in Values, Overwrite(n, v) \/ OverwriteGrow(n, v)
  PROVE  IInv'
  <1>1. PICK i \in 1..Len(environ), e \in Entries :
          /\ environ[i].name = n /\ e.name = n /\ e.val = v /\ Size(v) <= e.cap
          /\ environ' = [environ EXCEPT ![i] = e]
          /\ slots' = slots /\ allocated' \in Int
    BY OverwriteIs
  <1>2. /\ environ' \in Seq(Entries) /\ Len(environ') = Len(environ) /\ environ'[i] = e
        /\ \A j \in 1..Len(environ) \ {i} : environ'[j] = environ[j]
    BY <1>1, ReplaceOne
  <1>3. environ # <<>>  OBVIOUS
  <1>4. EverythingFits'  BY <1>1, <1>2, <1>3 DEF EverythingFits, IInv, Size
  <1>5. OneEntryPerName'  BY <1>1, <1>2 DEF OneEntryPerName, IInv
  <1> QED  BY <1>1, <1>2, <1>4, <1>5 DEF IInv

LEMMA UnsetStep ==
  ASSUME IInv, NEW n \in Names, Unset(n)
  PROVE  IInv'
  <1>1. PICK i \in 1..Len(environ) :
          /\ Found(n, i)
          /\ environ' = RemoveAt(environ, i)
          /\ IF Len(environ) = 1 THEN slots' = 0 ELSE slots' \in {Len(environ), slots}
          /\ allocated' = allocated - Size(environ[i].val)
                            - (IF Len(environ) = 1 THEN 2 ELSE 1) * Ptr
    BY DEF Unset
  <1>2. /\ environ' \in Seq(Entries) /\ Len(environ') = Len(environ) - 1
        /\ \A j \in 1..(Len(environ) - 1) :
             environ'[j] = IF j < i THEN environ[j] ELSE environ[j + 1]
    BY <1>1, RemoveAtIs DEF IInv
  <1>3. Len(environ) \in Nat /\ environ # <<>>  BY DEF IInv
  <1>4. slots' \in Nat /\ allocated' \in Int
    <2>2. environ[i] \in Entries  BY DEF IInv
    <2>1. Size(environ[i].val) \in Nat  BY <2>2, SizeIs DEF Entries
    <2> QED  BY <1>1, <1>3, <2>1 DEF IInv
  <1>5. EverythingFits'
    <2>1. ASSUME NEW j \in 1..Len(environ')
          PROVE  Size(environ'[j].val) <= environ'[j].cap
      BY <1>2, <1>3 DEF IInv, EverythingFits
    <2>2. environ' # <<>> => Len(environ') < slots'
      BY <1>1, <1>2, <1>3 DEF IInv, EverythingFits
    <2>3. \A v : Size(v)' = Size(v)  BY DEF Size
    <2> QED  BY <2>1, <2>2, <2>3 DEF EverythingFits
  <1>6. OneEntryPerName'
    BY <1>2, <1>3 DEF IInv, OneEntryPerName
  <1> QED  BY <1>2, <1>4, <1>5, <1>6 DEF IInv

\* Every step of every call, and every stuttering step, keeps the invariant.
THEOREM Inductive == IInv /\ [Next]_vars => IInv'
  <1> SUFFICES ASSUME IInv, [Next]_vars PROVE IInv'  OBVIOUS
  <1>1. CASE UNCHANGED vars
    BY <1>1 DEF vars, IInv, EverythingFits, OneEntryPerName, Size
  <1>2. CASE Next
    BY <1>2, SetNewStep, SetNewNoMemoryStep, OverwriteStep, UnsetStep DEF Next
  <1> QED  BY <1>1, <1>2

LEMMA Invariance == Spec => []IInv
  BY InitIInv, Inductive, PTL DEF Spec

\* No write of setenv or unsetenv is out of bounds: every string fits its bytes,
\* and the array every pointer and the NULL, whatever realloc answers.
THEOREM NoWriteOutOfBounds == Spec => []EverythingFits
  BY Invariance, PTL DEF IInv

\* A name is in the environment once at most.
THEOREM NamesAreDistinct == Spec => []OneEntryPerName
  BY Invariance, PTL DEF IInv

-----------------------------------------------------------------------------
(* The count of bytes.  The bytes of the strings are told apart by the name *)
(* they belong to, so that moving entries down in the array changes none.   *)

\* The bytes of "n=v".
Bytes(n, v) == {n} \X (1..Size(v))

\* What is inductive, beside IInv.
BInv == IsFiniteSet(Strings) /\ AllocatedCoversUse

LEMMA BytesAre ==
  ASSUME NEW n, NEW v \in Values
  PROVE  IsFiniteSet(Bytes(n, v)) /\ Cardinality(Bytes(n, v)) = Size(v)
  <1>1. Size(v) \in Nat  BY SizeIs
  <1>2. IsFiniteSet(1..Size(v)) /\ Cardinality(1..Size(v)) = Size(v)  BY <1>1, FS_Interval
  <1>3. IsFiniteSet({n}) /\ Cardinality({n}) = 1  BY FS_Singleton
  <1>4. IsFiniteSet({n} \X (1..Size(v))) /\ Cardinality({n} \X (1..Size(v))) = 1 * Size(v)
    BY <1>2, <1>3, FS_Product
  <1> QED  BY <1>1, <1>4 DEF Bytes

LEMMA StringsAre ==
  /\ \A p : p \in Strings <=> \E i \in 1..Len(environ) :
                                p \in Bytes(environ[i].name, environ[i].val)
  /\ \A p : p \in Strings' <=> \E i \in 1..Len(environ') :
                                 p \in Bytes(environ'[i].name, environ'[i].val)
  BY DEF Strings, Bytes, Size

\* Adding bytes that are not there, and removing bytes that are.
LEMMA Added ==
  ASSUME NEW S, NEW T, IsFiniteSet(S), IsFiniteSet(T), S \cap T = {}
  PROVE  IsFiniteSet(S \cup T) /\ Cardinality(S \cup T) = Cardinality(S) + Cardinality(T)
  <1>1. Cardinality(S) \in Nat /\ Cardinality(T) \in Nat  BY FS_CardinalityType
  <1>2. Cardinality(S \cap T) = 0  BY FS_EmptySet
  <1>3. /\ IsFiniteSet(S \cup T)
        /\ Cardinality(S \cup T) = Cardinality(S) + Cardinality(T) - Cardinality(S \cap T)
    BY FS_Union
  <1> QED  BY <1>1, <1>2, <1>3

LEMMA Removed ==
  ASSUME NEW S, NEW T, IsFiniteSet(S), T \subseteq S
  PROVE  IsFiniteSet(S \ T) /\ Cardinality(S \ T) = Cardinality(S) - Cardinality(T)
  <1>1. S \cap T = T  OBVIOUS
  <1> QED  BY <1>1, FS_Difference

LEMMA SetNewBytes ==
  ASSUME IInv, BInv, NEW n \in Names, NEW v \in Values, SetNew(n, v)
  PROVE  BInv'
  <1>1. PICK k \in Nat : k = Len(environ)  BY DEF IInv
  <1>2. /\ environ' \in Seq(Entries) /\ Len(environ') = k + 1
        /\ \A i \in 1..k : environ'[i] = environ[i]
        /\ environ'[k + 1] = [name |-> n, val |-> v, cap |-> Size(v)]
    BY <1>1, AppendOne
  <1>3. Strings' = Strings \cup Bytes(n, v)
    <2>1. ASSUME NEW p PROVE p \in Strings' <=> p \in Strings \cup Bytes(n, v)
      BY <1>1, <1>2, StringsAre
    <2> QED  BY <2>1
  <1>4. Strings \cap Bytes(n, v) = {}
    <2>1. \A i \in 1..Len(environ) : environ[i].name # n
      BY DEF SetNew, Array, Missing, Matches
    <2> QED  BY <2>1, StringsAre DEF Bytes
  <1>5. /\ IsFiniteSet(Strings')
        /\ Cardinality(Strings') = Cardinality(Strings) + Size(v)
    BY <1>3, <1>4, Added, BytesAre DEF BInv
  <1>6. Cardinality(Strings) \in Nat /\ Size(v) \in Nat  BY FS_CardinalityType, SizeIs DEF BInv
  <1>7. allocated' = allocated + Ptr * (k + 2) + Size(v)  BY <1>1 DEF SetNew
  <1>8. allocated >= Cardinality(Strings)
    <2>1. Ptr * (k + 1) \in Nat  OBVIOUS
    <2>2. allocated >= Cardinality(Strings) + 0
          \/ allocated >= Cardinality(Strings) + Ptr * (k + 1)
      BY <1>1 DEF BInv, AllocatedCoversUse, InUse
    <2> QED  BY <1>6, <2>1, <2>2 DEF IInv
  <1>9. environ' # <<>>  BY <1>2
  <1>10. InUse' = Cardinality(Strings) + Size(v) + Ptr * (k + 2)
    <2>1. InUse' = Cardinality(Strings') + Ptr * (Len(environ') + 1)  BY <1>9 DEF InUse
    <2>2. Len(environ') + 1 = k + 2  BY <1>2
    <2> QED  BY <1>5, <2>1, <2>2
  <1>11. Ptr * (k + 2) \in Nat  OBVIOUS
  <1>12. allocated' >= InUse'
    BY <1>6, <1>7, <1>8, <1>10, <1>11 DEF IInv
  <1> QED  BY <1>5, <1>12 DEF BInv, AllocatedCoversUse

LEMMA NoMemoryBytes ==
  ASSUME IInv, BInv, NEW n \in Names, SetNewNoMemory(n)
  PROVE  BInv'
  <1>1. environ' = environ /\ allocated' = allocated + Ptr * (Len(environ) + 2)
    BY DEF SetNewNoMemory
  <1>2. Len(environ) \in Nat  BY DEF IInv
  <1>3. Ptr * (Len(environ) + 2) \in Nat  BY <1>2
  <1>4. InUse' = InUse /\ Strings' = Strings  BY <1>1 DEF InUse, Strings, Size
  <1>5. InUse \in Int
    <2>1. Cardinality(Strings) \in Nat  BY FS_CardinalityType DEF BInv
    <2> QED  BY <1>2, <2>1 DEF InUse
  <1> QED  BY <1>1, <1>3, <1>4, <1>5 DEF BInv, AllocatedCoversUse, IInv

\* An entry that is overwritten: its old bytes go and its new ones come.
LEMMA ReplacedBytes ==
  ASSUME IInv, BInv, NEW n \in Names, NEW v \in Values, NEW i \in 1..Len(environ),
         NEW e \in Entries, environ[i].name = n, e.name = n, e.val = v,
         environ' = [environ EXCEPT ![i] = e]
  PROVE  /\ IsFiniteSet(Strings')
         /\ InUse \in Int /\ InUse' = InUse + Size(v) - Size(environ[i].val)
  <1>1. /\ environ' \in Seq(Entries) /\ Len(environ') = Len(environ) /\ environ'[i] = e
        /\ \A j \in 1..Len(environ) \ {i} : environ'[j] = environ[j]
    BY ReplaceOne
  <1>2. environ[i] \in Entries /\ environ[i].val \in Values
    <2>1. environ[i] \in Entries  BY DEF IInv
    <2> QED  BY <2>1 DEF Entries
  <1> DEFINE old == Bytes(n, environ[i].val)
             rest == Strings \ old
  <1>3. old \subseteq Strings  BY StringsAre
  <1>4. \A j \in 1..Len(environ) \ {i} : environ[j].name # n  BY DEF IInv, OneEntryPerName
  <1>5. rest \cap Bytes(n, v) = {}
    BY <1>4, StringsAre DEF Bytes
  <1>6. Strings' = rest \cup Bytes(n, v)
    <2>1. ASSUME NEW p PROVE p \in Strings' <=> p \in rest \cup Bytes(n, v)
      BY <1>1, <1>4, StringsAre DEF Bytes
    <2> QED  BY <2>1
  <1>7. IsFiniteSet(rest) /\ Cardinality(rest) = Cardinality(Strings) - Size(environ[i].val)
    <2>1. Cardinality(old) = Size(environ[i].val)  BY <1>2, BytesAre
    <2> HIDE DEF old
    <2>2. /\ IsFiniteSet(Strings \ old)
          /\ Cardinality(Strings \ old) = Cardinality(Strings) - Cardinality(old)
      BY <1>3, Removed DEF BInv
    <2> QED  BY <2>1, <2>2
  <1> HIDE DEF old, rest
  <1>8. /\ IsFiniteSet(Strings')
        /\ Cardinality(Strings') = Cardinality(rest) + Size(v)
    <2>1. IsFiniteSet(Bytes(n, v)) /\ Cardinality(Bytes(n, v)) = Size(v)  BY BytesAre
    <2>2. /\ IsFiniteSet(rest \cup Bytes(n, v))
          /\ Cardinality(rest \cup Bytes(n, v)) = Cardinality(rest) + Cardinality(Bytes(n, v))
      BY <1>5, <1>7, <2>1, Added
    <2> QED  BY <1>6, <2>1, <2>2
  <1>9. /\ Cardinality(Strings) \in Nat /\ Size(v) \in Nat /\ Size(environ[i].val) \in Nat
        /\ Len(environ) \in Nat
    BY <1>2, FS_CardinalityType, SizeIs DEF BInv, IInv
  <1>10. environ # <<>> /\ environ' # <<>>  BY <1>1
  <1>11. /\ InUse = Cardinality(Strings) + Ptr * (Len(environ) + 1)
         /\ InUse' = Cardinality(Strings') + Ptr * (Len(environ) + 1)
    BY <1>1, <1>10 DEF InUse
  <1>12. Ptr * (Len(environ) + 1) \in Nat  BY <1>9
  <1> QED  BY <1>7, <1>8, <1>9, <1>11, <1>12

LEMMA OverwriteBytes ==
  ASSUME IInv, BInv, NEW n \in Names, NEW v \in Values, Overwrite(n, v) \/ OverwriteGrow(n, v)
  PROVE  BInv'
  <1>1. CASE Overwrite(n, v)
    <2>1. PICK i \in 1..Len(environ) :
            /\ Found(n, i) /\ Size(environ[i].val) >= Size(v)
            /\ environ' = [environ EXCEPT ![i].val = v]
            /\ UNCHANGED <<slots, allocated>>
      BY <1>1 DEF Overwrite
    <2> DEFINE e == [environ[i] EXCEPT !.val = v]
    <2>2. environ[i] \in Entries /\ environ[i].name = n
      BY <2>1 DEF IInv, Found, Matches
    <2>3. e \in Entries /\ e.name = n /\ e.val = v  BY <2>2 DEF Entries
    <2>4. environ' = [environ EXCEPT ![i] = e]  BY <2>1
    <2> HIDE DEF e
    <2>5. /\ IsFiniteSet(Strings')
          /\ InUse \in Int /\ InUse' = InUse + Size(v) - Size(environ[i].val)
      BY <2>2, <2>3, <2>4, ReplacedBytes
    <2>6. Size(v) \in Nat /\ Size(environ[i].val) \in Nat  BY <2>2, SizeIs DEF Entries
    <2> QED  BY <2>1, <2>5, <2>6 DEF BInv, AllocatedCoversUse, IInv
  <1>2. CASE OverwriteGrow(n, v)
    <2>1. PICK i \in 1..Len(environ) :
            /\ Found(n, i)
            /\ environ' = [environ EXCEPT ![i] = [name |-> n, val |-> v, cap |-> Size(v)]]
            /\ allocated' = allocated + Size(v) - Size(environ[i].val)
            /\ UNCHANGED slots
      BY <1>2 DEF OverwriteGrow
    <2> DEFINE e == [name |-> n, val |-> v, cap |-> Size(v)]
    <2>2. environ[i] \in Entries /\ environ[i].name = n
      BY <2>1 DEF IInv, Found, Matches
    <2>3. e \in Entries /\ e.name = n /\ e.val = v  BY SizeIs DEF Entries
    <2>4. environ' = [environ EXCEPT ![i] = e]  BY <2>1
    <2> HIDE DEF e
    <2>5. /\ IsFiniteSet(Strings')
          /\ InUse \in Int /\ InUse' = InUse + Size(v) - Size(environ[i].val)
      BY <2>2, <2>3, <2>4, ReplacedBytes
    <2>6. Size(v) \in Nat /\ Size(environ[i].val) \in Nat  BY <2>2, SizeIs DEF Entries
    <2> QED  BY <2>1, <2>5, <2>6 DEF BInv, AllocatedCoversUse, IInv
  <1> QED  BY <1>1, <1>2

LEMMA UnsetBytes ==
  ASSUME IInv, BInv, NEW n \in Names, Unset(n)
  PROVE  BInv'
  <1>1. PICK i \in 1..Len(environ) :
          /\ Found(n, i)
          /\ environ' = RemoveAt(environ, i)
          /\ allocated' = allocated - Size(environ[i].val)
                            - (IF Len(environ) = 1 THEN 2 ELSE 1) * Ptr
    BY DEF Unset
  <1>2. PICK k \in Nat : k = Len(environ)  BY DEF IInv
  <1>3. /\ environ' \in Seq(Entries) /\ Len(environ') = k - 1
        /\ \A j \in 1..(k - 1) : environ'[j] = IF j < i THEN environ[j] ELSE environ[j + 1]
    BY <1>1, <1>2, RemoveAtIs DEF IInv
  <1>4. environ[i] \in Entries /\ environ[i].name = n /\ environ[i].val \in Values
    <2>1. environ[i] \in Entries /\ environ[i].name = n  BY <1>1 DEF IInv, Found, Matches
    <2> QED  BY <2>1 DEF Entries
  <1> DEFINE old == Bytes(n, environ[i].val)
  <1>5. \A j \in 1..k \ {i} : environ[j].name # n  BY <1>2, <1>4 DEF IInv, OneEntryPerName
  <1>6. old \subseteq Strings  BY <1>4, StringsAre
  <1>7. Strings' = Strings \ old
    <2>1. ASSUME NEW j \in 1..(k - 1)
          PROVE  \E m \in 1..k \ {i} : environ'[j] = environ[m]
      <3>1. CASE j < i  BY <1>2, <1>3, <3>1
      <3>2. CASE ~(j < i)
        <4>1. j + 1 \in 1..k \ {i}  BY <1>2, <3>2
        <4> QED  BY <1>3, <3>2, <4>1
      <3> QED  BY <3>1, <3>2
    <2>2. ASSUME NEW m \in 1..k \ {i}
          PROVE  \E j \in 1..(k - 1) : environ'[j] = environ[m]
      <3>1. CASE m < i  BY <1>2, <1>3, <3>1
      <3>2. CASE ~(m < i)
        <4>1. m - 1 \in 1..(k - 1) /\ ~(m - 1 < i) /\ (m - 1) + 1 = m  BY <1>2, <3>2
        <4> QED  BY <1>3, <4>1
      <3> QED  BY <3>1, <3>2
    <2>3. ASSUME NEW p PROVE p \in Strings' <=> \E m \in 1..k \ {i} :
                                                  p \in Bytes(environ[m].name, environ[m].val)
      <3>1. p \in Strings' <=> \E j \in 1..(k - 1) :
                                 p \in Bytes(environ'[j].name, environ'[j].val)
        BY <1>3, StringsAre
      <3> QED  BY <2>1, <2>2, <3>1
    <2>4. ASSUME NEW p PROVE p \in Strings' <=> p \in Strings \ old
      BY <1>2, <1>4, <1>5, <2>3, StringsAre DEF Bytes
    <2> QED  BY <2>4
  <1>8. /\ IsFiniteSet(Strings')
        /\ Cardinality(Strings') = Cardinality(Strings) - Size(environ[i].val)
    <2>1. Cardinality(old) = Size(environ[i].val)  BY <1>4, BytesAre
    <2> HIDE DEF old
    <2>2. /\ IsFiniteSet(Strings \ old)
          /\ Cardinality(Strings \ old) = Cardinality(Strings) - Cardinality(old)
      BY <1>6, Removed DEF BInv
    <2> QED  BY <1>7, <2>1, <2>2
  <1>9. /\ Cardinality(Strings) \in Nat /\ Size(environ[i].val) \in Nat
    BY <1>4, FS_CardinalityType, SizeIs DEF BInv
  <1>10. environ # <<>> /\ k >= 1  BY <1>2
  <1>11. allocated >= Cardinality(Strings) + Ptr * (k + 1)
    BY <1>2, <1>10 DEF BInv, AllocatedCoversUse, InUse
  <1>12. allocated' >= InUse'
    <2>1. CASE k = 1
      <3>1. environ' = <<>>  BY <1>3, <2>1
      <3>2. InUse' = Cardinality(Strings')  BY <1>8, <1>9, <3>1 DEF InUse
      <3>3. allocated' = allocated - Size(environ[i].val) - 2 * Ptr  BY <1>1, <1>2, <2>1
      <3> QED  BY <1>8, <1>9, <1>11, <2>1, <3>2, <3>3 DEF IInv
    <2>2. CASE k # 1
      <3>1. environ' # <<>>  BY <1>3, <1>10, <2>2
      <3>2. InUse' = Cardinality(Strings') + Ptr * ((k - 1) + 1)  BY <1>3, <3>1 DEF InUse
      <3>3. allocated' = allocated - Size(environ[i].val) - Ptr  BY <1>1, <1>2, <2>2
      <3>4. Ptr * (k + 1) = Ptr * k + Ptr /\ Ptr * k \in Nat /\ (k - 1) + 1 = k  OBVIOUS
      <3> QED  BY <1>8, <1>9, <1>11, <3>2, <3>3, <3>4 DEF IInv
    <2> QED  BY <2>1, <2>2
  <1> QED  BY <1>8, <1>12 DEF BInv, AllocatedCoversUse

LEMMA StepBInv == IInv /\ BInv /\ [Next]_vars => BInv'
  <1> SUFFICES ASSUME IInv, BInv, [Next]_vars PROVE BInv'  OBVIOUS
  <1>1. CASE UNCHANGED vars
    BY <1>1 DEF vars, BInv, AllocatedCoversUse, InUse, Strings, Size
  <1>2. CASE Next
    BY <1>2, SetNewBytes, NoMemoryBytes, OverwriteBytes, UnsetBytes DEF Next
  <1> QED  BY <1>1, <1>2

LEMMA InitBInv == Init => BInv
  <1> SUFFICES ASSUME Init PROVE BInv  OBVIOUS
  <1>1. Strings = {}  BY StringsAre DEF Init
  <1> QED  BY <1>1, FS_EmptySet DEF Init, BInv, AllocatedCoversUse, InUse

LEMMA ByteInvariance == Spec => []BInv
  BY Invariance, InitBInv, StepBInv, PTL DEF Spec

\* The count of allocated bytes covers the strings and the array there are, in
\* any order of setenv and unsetenv and with any realloc failing.
THEOREM BytesAreCounted == Spec => []AllocatedCoversUse
  BY ByteInvariance, PTL DEF BInv

\* Every variable keeps its type: the count of bytes never wraps below 0.
THEOREM EnvTypeCorrect == Spec => []TypeOK
  <1>1. ASSUME IInv, BInv PROVE TypeOK
    <2>1. Cardinality(Strings) \in Nat /\ Len(environ) \in Nat
      BY <1>1, FS_CardinalityType DEF BInv, IInv
    <2>2. Ptr * (Len(environ) + 1) \in Nat  BY <2>1
    <2>3. InUse \in Nat  BY <2>1, <2>2 DEF InUse
    <2> QED  BY <1>1, <2>3 DEF IInv, BInv, AllocatedCoversUse, TypeOK
  <1> QED  BY <1>1, Invariance, ByteInvariance, PTL

-----------------------------------------------------------------------------
(* The refinement. *)

\* What getenv finds.
LookupIs ==
  \A n \in Names :
    /\ Missing(n) => Lookup(n) = NULL
    /\ \A i \in 1..Len(environ) : environ[i].name = n => Lookup(n) = environ[i].val

LEMMA LookupFinds == IInv => LookupIs
  <1> SUFFICES ASSUME IInv, NEW n \in Names
               PROVE  /\ Missing(n) => Lookup(n) = NULL
                      /\ \A i \in 1..Len(environ) :
                           environ[i].name = n => Lookup(n) = environ[i].val
    BY DEF LookupIs
  <1>1. Missing(n) => Lookup(n) = NULL  BY DEF Lookup
  <1>2. ASSUME NEW i \in 1..Len(environ), environ[i].name = n
        PROVE  Lookup(n) = environ[i].val
    <2>1. \A j \in 1..Len(environ) : Found(n, j) <=> j = i
      BY <1>2 DEF Found, Matches, IInv, OneEntryPerName
    <2>2. (CHOOSE j \in 1..Len(environ) : Found(n, j)) = i  BY <2>1
    <2>3. ~Missing(n)  BY <1>2 DEF Missing, Matches
    <2> QED  BY <2>2, <2>3 DEF Lookup
  <1> QED  BY <1>1, <1>2

LEMMA LookupFindsNext == IInv' => LookupIs'
  BY LookupFinds, PTL

\* The environment holds "m=x".
Holds(m, x) == \E i \in 1..Len(environ) : environ[i].name = m /\ environ[i].val = x

\* What getenv finds depends on the strings there are and not on their order.
LEMMA LookupFollows ==
  ASSUME IInv, IInv', NEW m \in Names, \A x : Holds(m, x)' <=> Holds(m, x)
  PROVE  Lookup(m)' = Lookup(m)
  <1>1. LookupIs /\ LookupIs'  BY LookupFinds, LookupFindsNext
  <1>2. CASE \E i \in 1..Len(environ) : environ[i].name = m
    <2>1. PICK i \in 1..Len(environ) : environ[i].name = m  BY <1>2
    <2>2. Holds(m, environ[i].val)  BY <2>1 DEF Holds
    <2>3. PICK j \in 1..Len(environ') : environ'[j].name = m /\ environ'[j].val = environ[i].val
      BY <2>2 DEF Holds
    <2> QED  BY <1>1, <2>1, <2>3 DEF LookupIs
  <1>3. CASE ~\E i \in 1..Len(environ) : environ[i].name = m
    <2>1. \A x : ~Holds(m, x)  BY <1>3 DEF Holds
    <2>2. ~\E i \in 1..Len(environ') : environ'[i].name = m  BY <2>1 DEF Holds
    <2>3. Missing(m) /\ Missing(m)'  BY <1>3, <2>2 DEF Missing, Matches
    <2> QED  BY <1>1, <2>3 DEF LookupIs
  <1> QED  BY <1>2, <1>3

\* A step that changes what one name finds is a step of the map.
LEMMA OneNameChanges ==
  ASSUME NEW n \in Names, \A m \in Names \ {n} : Lookup(m)' = Lookup(m)
  PROVE  [m \in Names |-> Lookup(m)]' = [[m \in Names |-> Lookup(m)] EXCEPT ![n] = Lookup(n)']
  OBVIOUS

LEMMA SetNewMaps ==
  ASSUME IInv, IInv', NEW n \in Names, NEW v \in Values, SetNew(n, v)
  PROVE  Abs!Set(n, v)
  <1>1. PICK k \in Nat : k = Len(environ)  BY DEF IInv
  <1>2. /\ Len(environ') = k + 1
        /\ \A i \in 1..k : environ'[i] = environ[i]
        /\ environ'[k + 1] = [name |-> n, val |-> v, cap |-> Size(v)]
    BY <1>1, AppendOne
  <1>3. Lookup(n)' = v
    <2>1. k + 1 \in 1..Len(environ') /\ environ'[k + 1].name = n /\ environ'[k + 1].val = v
      BY <1>2
    <2> QED  BY <2>1, LookupFindsNext DEF LookupIs
  <1>4. ASSUME NEW m \in Names \ {n} PROVE Lookup(m)' = Lookup(m)
    <2>1. ASSUME NEW x PROVE Holds(m, x)' <=> Holds(m, x)  BY <1>1, <1>2 DEF Holds
    <2> QED  BY <2>1, LookupFollows
  <1> QED  BY <1>3, <1>4, OneNameChanges DEF Abs!Set

LEMMA OverwriteMaps ==
  ASSUME IInv, IInv', NEW n \in Names, NEW v \in Values, Overwrite(n, v) \/ OverwriteGrow(n, v)
  PROVE  Abs!Set(n, v)
  <1>1. PICK i \in 1..Len(environ), e \in Entries :
          /\ environ[i].name = n /\ e.name = n /\ e.val = v
          /\ environ' = [environ EXCEPT ![i] = e]
    BY OverwriteIs
  <1>2. /\ Len(environ') = Len(environ) /\ environ'[i] = e
        /\ \A j \in 1..Len(environ) \ {i} : environ'[j] = environ[j]
    BY <1>1, ReplaceOne
  <1>3. Lookup(n)' = v  BY <1>1, <1>2, LookupFindsNext DEF LookupIs
  <1>4. ASSUME NEW m \in Names \ {n} PROVE Lookup(m)' = Lookup(m)
    <2>1. ASSUME NEW x PROVE Holds(m, x)' <=> Holds(m, x)
      <3>1. \A j \in 1..Len(environ) :
              environ'[j].name = m /\ environ'[j].val = x
                <=> environ[j].name = m /\ environ[j].val = x
        BY <1>1, <1>2
      <3> QED  BY <1>2, <3>1 DEF Holds
    <2> QED  BY <2>1, LookupFollows
  <1> QED  BY <1>3, <1>4, OneNameChanges DEF Abs!Set

LEMMA UnsetMaps ==
  ASSUME IInv, IInv', NEW n \in Names, Unset(n)
  PROVE  Abs!Unset(n)
  <1>1. PICK i \in 1..Len(environ) : Found(n, i) /\ environ' = RemoveAt(environ, i)
    BY DEF Unset
  <1>2. /\ Len(environ') = Len(environ) - 1
        /\ \A j \in 1..(Len(environ) - 1) :
             environ'[j] = IF j < i THEN environ[j] ELSE environ[j + 1]
    BY <1>1, RemoveAtIs DEF IInv
  <1>3. Len(environ) \in Nat /\ environ[i].name = n  BY <1>1 DEF IInv, Found, Matches
  \* Every entry but the i-th is still there, and no other is.
  <1>4. \A j \in 1..Len(environ') : \E k \in 1..Len(environ) \ {i} : environ'[j] = environ[k]
    <2> TAKE j \in 1..Len(environ')
    <2>1. CASE j < i  BY <1>2, <1>3, <2>1
    <2>2. CASE ~(j < i)
      <3>1. j + 1 \in 1..Len(environ) \ {i} /\ environ'[j] = environ[j + 1]
        BY <1>2, <1>3, <2>2
      <3> QED  BY <3>1
    <2> QED  BY <2>1, <2>2
  <1>5. \A k \in 1..Len(environ) \ {i} : \E j \in 1..Len(environ') : environ'[j] = environ[k]
    <2> TAKE k \in 1..Len(environ) \ {i}
    <2>1. CASE k < i
      <3>1. k \in 1..Len(environ') /\ environ'[k] = environ[k]  BY <1>2, <1>3, <2>1
      <3> QED  BY <3>1
    <2>2. CASE ~(k < i)
      <3>1. k - 1 \in 1..Len(environ') /\ ~(k - 1 < i) /\ (k - 1) + 1 = k
        BY <1>2, <1>3, <2>2
      <3> QED  BY <1>2, <3>1
    <2> QED  BY <2>1, <2>2
  <1>6. Lookup(n)' = NULL
    <2>1. \A k \in 1..Len(environ) \ {i} : environ[k].name # n
      BY <1>3 DEF IInv, OneEntryPerName
    <2>2. Missing(n)'  BY <1>4, <2>1 DEF Missing, Matches
    <2> QED  BY <2>2, LookupFindsNext DEF LookupIs
  <1>7. ASSUME NEW m \in Names \ {n} PROVE Lookup(m)' = Lookup(m)
    <2>1. ASSUME NEW x PROVE Holds(m, x)' <=> Holds(m, x)
      BY <1>3, <1>4, <1>5 DEF Holds
    <2> QED  BY <2>1, LookupFollows
  <1> QED  BY <1>6, <1>7, OneNameChanges DEF Abs!Unset

LEMMA LookupUnchanged == environ' = environ => \A n : Lookup(n)' = Lookup(n)
  BY DEF Lookup, Missing, Found, Matches

\* What getenv finds behaves as the map that callers are promised, whatever is
\* set, overwritten and removed, and whichever realloc fails.
THEOREM EnvironmentIsAMap == Spec => ImplementsMap
  <1>1. Init => Abs!Init
    BY DEF Init, Abs!Init, Lookup, Missing, Matches
  <1>2. IInv /\ IInv' /\ [Next]_vars => [Abs!Next]_([n \in Names |-> Lookup(n)])
    <2> SUFFICES ASSUME IInv, IInv', [Next]_vars
                 PROVE  Abs!Next \/ UNCHANGED [n \in Names |-> Lookup(n)]
      OBVIOUS
    <2>1. CASE UNCHANGED vars  BY <2>1, LookupUnchanged DEF vars
    <2>2. ASSUME NEW n \in Names, SetNewNoMemory(n)
          PROVE  UNCHANGED [m \in Names |-> Lookup(m)]
      BY <2>2, LookupUnchanged DEF SetNewNoMemory
    <2>3. CASE Next
      BY <2>2, <2>3, SetNewMaps, OverwriteMaps, UnsetMaps DEF Next, Abs!Next
    <2> QED  BY <2>1, <2>3
  <1> QED  BY <1>1, <1>2, Invariance, PTL DEF Spec, ImplementsMap, Abs!Spec
=============================================================================
