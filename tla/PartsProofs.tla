------------------------------ MODULE PartsProofs ------------------------------
(***************************************************************************)
(* What Parts promises, for all values of its constants: the properties of *)
(* each component, those of MountTable, SystemInfo and                     *)
(* MultipleControlGroup from the proofs of their own modules.              *)
(***************************************************************************)
EXTENDS MountTableProofs, FiniteSetTheorems

-----------------------------------------------------------------------------
(* Descriptor *)

\* A number given to an object is closed by nobody else, and none is lost.
Owned == TypeOK /\ OneOwner /\ NoneLost

LEMMA InitOwned == Init => Owned
BY NoneAssumption DEF Init, Owned, TypeOK, OneOwner, NoneLost

\* Each operation keeps the balance between objects and numbers.
LEMMA NextOwned == Owned /\ [Next]_vars => Owned'
<1> SUFFICES ASSUME Owned, [Next]_vars PROVE Owned' OBVIOUS
<1> USE NoneAssumption DEF Owned, TypeOK, OneOwner, NoneLost, AfterClose
<1>1. ASSUME NEW n \in Number, Open(n) PROVE Owned'
  BY <1>1 DEF Open
<1>2. ASSUME NEW n \in Number, CloseRaw(n) PROVE Owned'
  BY <1>2 DEF CloseRaw
<1>3. ASSUME NEW o \in Object, Release(o) PROVE Owned'
  BY <1>3 DEF Release
<1>4. ASSUME NEW o \in Object, Close(o) PROVE Owned'
  BY <1>4 DEF Close
<1>5. ASSUME NEW o \in Object, Destroy(o) PROVE Owned'
  BY <1>5 DEF Destroy
<1>6. ASSUME NEW o \in Object, NEW n \in Number, Construct(o, n) PROVE Owned'
  BY <1>6 DEF Construct
<1>7. ASSUME NEW o \in Object, NEW n \in Number, Assign(o, n) PROVE Owned'
  BY <1>7 DEF Assign
<1>8. ASSUME NEW o \in Object, NEW s \in Object, MoveConstruct(o, s) PROVE Owned'
  BY <1>8 DEF MoveConstruct
<1>9. ASSUME NEW o \in Object, NEW s \in Object, MoveAssign(o, s) PROVE Owned'
  BY <1>9 DEF MoveAssign
<1>10. ASSUME NEW o \in Object, NEW s \in Object, Swap(o, s) PROVE Owned'
  BY <1>10 DEF Swap
<1>11. ASSUME NEW r \in Object, NEW w \in Object, NEW m \in Number, NEW n \in Number,
              MakePipe(r, w, m, n)
       PROVE Owned'
  BY <1>11 DEF MakePipe
<1>12. ASSUME NEW o \in Object, NEW n \in Number, OpenNew(o, n) PROVE Owned'
  BY <1>12 DEF OpenNew
<1>13. CASE UNCHANGED vars
  BY <1>13 DEF vars
<1> QED BY <1>1, <1>2, <1>3, <1>4, <1>5, <1>6, <1>7, <1>8, <1>9, <1>10, <1>11, <1>12, <1>13 DEF Next

-----------------------------------------------------------------------------
(* DynamicLoader *)

LoaderTyped ==
    /\ library \subseteq Object /\ handle \in [Object -> Library \union {None}]
    /\ refs \in [Library -> Nat] /\ theirs \in [Library -> Nat] /\ refused \in [Library -> Nat]

Count(l) == Cardinality(L!Holders(l))

Counted == \A l \in Library : refs[l] = Count(l) + theirs[l] + refused[l]

\* What a program sees that moves into empty objects and leaves close() to the
\* destructor.
Careful == careless \/ (LoaderTyped /\ Counted)

-----------------------------------------------------------------------------
(* The objects that have a library *)

LEMMA CountIsNat ==
    ASSUME LoaderTyped, NEW l \in Library
    PROVE IsFiniteSet(L!Holders(l)) /\ Count(l) \in Nat
<1>1. L!Holders(l) \subseteq Object BY DEF L!Holders, LoaderTyped
<1>2. IsFiniteSet(L!Holders(l)) BY <1>1, FS_Subset, LoaderAssumption
<1> QED BY <1>2, FS_CardinalityType DEF Count

\* A new object gets the library; an object that had it goes; one takes the
\* place of another.
LEMMA CountChanges ==
    ASSUME LoaderTyped, NEW l \in Library, NEW o
    PROVE /\ o \notin L!Holders(l) /\ L!Holders(l)' = L!Holders(l) \union {o} => Count(l)' = Count(l) + 1
          /\ o \in L!Holders(l) => Count(l) > 0
          /\ o \in L!Holders(l) /\ L!Holders(l)' = L!Holders(l) \ {o} => Count(l)' = Count(l) - 1
          /\ \A s \in L!Holders(l) :
                o \notin L!Holders(l) /\ L!Holders(l)' = (L!Holders(l) \ {s}) \union {o} =>
                    Count(l)' = Count(l)
<1> USE DEF Count
<1>0. IsFiniteSet(L!Holders(l)) /\ Count(l) \in Nat BY CountIsNat
<1>1. ASSUME o \notin L!Holders(l), L!Holders(l)' = L!Holders(l) \union {o}
      PROVE Count(l)' = Count(l) + 1
  BY <1>0, <1>1, FS_AddElement
<1>2. ASSUME NEW s \in L!Holders(l)
      PROVE /\ IsFiniteSet(L!Holders(l) \ {s}) /\ Count(l) > 0
            /\ Cardinality(L!Holders(l) \ {s}) = Count(l) - 1
  <2>1. IsFiniteSet(L!Holders(l) \ {s}) /\ Cardinality(L!Holders(l) \ {s}) = Count(l) - 1
    BY <1>0, FS_RemoveElement
  <2>2. Cardinality(L!Holders(l) \ {s}) \in Nat BY <2>1, FS_CardinalityType
  <2> QED BY <1>0, <2>1, <2>2
<1>3. ASSUME NEW s \in L!Holders(l), o \notin L!Holders(l), L!Holders(l)' = (L!Holders(l) \ {s}) \union {o}
      PROVE Count(l)' = Count(l)
  <2>1. Cardinality((L!Holders(l) \ {s}) \union {o}) = Cardinality(L!Holders(l) \ {s}) + 1
    BY <1>2, <1>3, FS_AddElement
  <2>2. Cardinality(L!Holders(l) \ {s}) + 1 = Count(l) BY <1>0, <1>2
  <2> QED BY <1>3, <2>1, <2>2
<1> QED BY <1>1, <1>2, <1>3

-----------------------------------------------------------------------------
(* The loader's steps *)

\* dlclose(3) of a reference that is counted.
LEMMA CloseCounts ==
    ASSUME LoaderTyped, NEW l \in Library, refs[l] > 0
    PROVE L!AfterClose(l) = [refs EXCEPT ![l] = @ - 1] /\ L!AfterClose(l) \in [Library -> Nat]
<1>1. l # None BY LoaderAssumption
<1>2. refs[l] \in Nat /\ refs[l] # 0 BY DEF LoaderTyped
<1>3. (IF refs[l] = 0 THEN 0 ELSE refs[l] - 1) = refs[l] - 1 /\ refs[l] - 1 \in Nat BY <1>2
<1>4. L!AfterClose(l) = [refs EXCEPT ![l] = @ - 1] BY <1>1, <1>3 DEF L!AfterClose
<1> QED BY <1>3, <1>4 DEF LoaderTyped

\* An object gets a reference of its own.
LEMMA LoadKeeps ==
    ASSUME LoaderTyped, Counted, ~careless, NEW o \in Object \ library, NEW l \in Library,
           L!Dlopen(l), library' = library \union {o}, handle' = [handle EXCEPT ![o] = l],
           UNCHANGED <<L!others, careless>>
    PROVE Careful'
<1>1. LoaderTyped' BY DEF LoaderTyped, L!Dlopen, L!others
<1>2. ASSUME NEW k \in Library
      PROVE refs'[k] = Count(k)' + theirs'[k] + refused'[k]
  <2>1. refs[k] = Count(k) + theirs[k] + refused[k] BY DEF Counted
  <2>2. o \notin L!Holders(k) BY DEF L!Holders
  <2>3. theirs[k] \in Nat /\ refused[k] \in Nat /\ refs[k] \in Nat BY DEF LoaderTyped
  <2>4. theirs'[k] = theirs[k] /\ refused'[k] = refused[k] BY DEF L!others
  <2>5. CASE k = l
    <3>1. L!Holders(k)' = L!Holders(k) \union {o} BY <2>5 DEF L!Holders, LoaderTyped
    <3>2. Count(k)' = Count(k) + 1 BY <2>2, <3>1, CountChanges
    <3>3. refs'[k] = refs[k] + 1 BY <2>5 DEF L!Dlopen, LoaderTyped
    <3> QED BY <2>1, <2>3, <2>4, <3>2, <3>3, CountIsNat
  <2>6. CASE k # l
    <3>1. L!Holders(k)' = L!Holders(k) BY <2>6 DEF L!Holders, LoaderTyped
    <3>2. refs'[k] = refs[k] BY <2>6 DEF L!Dlopen, LoaderTyped
    <3> QED BY <2>1, <2>4, <3>1, <3>2 DEF Count
  <2> QED BY <2>5, <2>6
<1> QED BY <1>1, <1>2 DEF Careful, Counted

\* An exchange of two handles, with whatever is null among them closed.
LEMMA SwapKeeps ==
    ASSUME LoaderTyped, Counted, ~careless, NEW o \in library, NEW s \in library,
           handle' = [handle EXCEPT ![o] = handle[s], ![s] = handle[o]],
           UNCHANGED <<library, refs, L!others>>
    PROVE Careful'
<1>1. LoaderTyped' BY DEF LoaderTyped, L!others
<1>2. ASSUME NEW k \in Library PROVE Count(k)' = Count(k)
  <2>1. CASE handle[o] = handle[s]
    <3>1. handle' = handle BY <2>1 DEF LoaderTyped
    <3> QED BY <3>1 DEF Count, L!Holders
  <2>2. CASE handle[o] # handle[s]
    <3> USE <2>2 DEF L!Holders, LoaderTyped
    <3>1. CASE handle[s] = k
      <4>1. L!Holders(k)' = (L!Holders(k) \ {s}) \union {o} BY <3>1
      <4>2. s \in L!Holders(k) /\ o \notin L!Holders(k) BY <3>1
      <4> QED BY <4>1, <4>2, CountChanges
    <3>2. CASE handle[o] = k
      <4>1. L!Holders(k)' = (L!Holders(k) \ {o}) \union {s} BY <3>2
      <4>2. o \in L!Holders(k) /\ s \notin L!Holders(k) BY <3>2
      <4> QED BY <4>1, <4>2, CountChanges
    <3>3. CASE handle[o] # k /\ handle[s] # k
      <4>1. L!Holders(k)' = L!Holders(k) BY <3>3
      <4> QED BY <4>1 DEF Count
    <3> QED BY <3>1, <3>2, <3>3
  <2> QED BY <2>1, <2>2
<1> QED BY <1>1, <1>2 DEF Careful, Counted, L!others

LEMMA DestroyKeeps ==
    ASSUME LoaderTyped, Counted, ~careless, NEW o \in Object, L!Destroy(o)
    PROVE Careful'
<1>1. /\ o \in library /\ library' = library \ {o} /\ handle' = [handle EXCEPT ![o] = None]
      /\ refs' = L!AfterClose(handle[o]) /\ theirs' = theirs /\ refused' = refused
  BY DEF L!Destroy, L!others
<1>2. CASE handle[o] = None
  <2>1. refs' = refs BY <1>1, <1>2 DEF L!AfterClose
  <2>2. LoaderTyped' BY <1>1, <2>1 DEF LoaderTyped
  <2>3. \A k \in Library : L!Holders(k)' = L!Holders(k)
    BY <1>1, <1>2, LoaderAssumption DEF L!Holders, LoaderTyped
  <2> QED BY <1>1, <2>1, <2>2, <2>3 DEF Careful, Counted, Count
<1>3. CASE handle[o] # None
  <2> PICK l \in Library : l = handle[o] BY <1>1, <1>3 DEF LoaderTyped
  <2>1. o \in L!Holders(l) BY <1>1 DEF L!Holders
  <2>2. L!Holders(l)' = L!Holders(l) \ {o} BY <1>1, LoaderAssumption DEF L!Holders, LoaderTyped
  <2>3. \A k \in Library \ {l} : L!Holders(k)' = L!Holders(k)
    BY <1>1, <1>3, LoaderAssumption DEF L!Holders, LoaderTyped
  <2>4. Count(l) > 0 /\ Count(l)' = Count(l) - 1 BY <2>1, <2>2, CountChanges
  <2>5. refs[l] = Count(l) + theirs[l] + refused[l] BY DEF Counted
  <2>6. /\ refs[l] \in Nat /\ theirs[l] \in Nat /\ refused[l] \in Nat /\ Count(l) \in Nat
    BY CountIsNat DEF LoaderTyped
  <2>7. refs[l] > 0 BY <2>4, <2>5, <2>6
  <2>8. refs' = [refs EXCEPT ![l] = @ - 1] /\ refs' \in [Library -> Nat]
    BY <1>1, <2>7, CloseCounts
  <2>9. LoaderTyped' BY <1>1, <2>8 DEF LoaderTyped
  <2>10. ASSUME NEW k \in Library PROVE refs'[k] = Count(k)' + theirs'[k] + refused'[k]
    <3>1. CASE k = l
      <4>1. refs'[l] = refs[l] - 1 BY <2>8 DEF LoaderTyped
      <4> QED BY <1>1, <2>4, <2>5, <2>6, <3>1, <4>1
    <3>2. CASE k # l
      <4>1. refs'[k] = refs[k] BY <2>8, <3>2 DEF LoaderTyped
      <4>2. Count(k)' = Count(k) BY <2>3, <3>2 DEF Count
      <4> QED BY <1>1, <4>1, <4>2 DEF Counted
    <3> QED BY <3>1, <3>2
  <2> QED BY <2>9, <2>10 DEF Careful, Counted
<1> QED BY <1>2, <1>3

LEMMA OthersKeep ==
    ASSUME LoaderTyped, Counted, ~careless, NEW l \in Library, L!OthersOpen(l) \/ L!OthersClose(l)
    PROVE Careful'
<1>1. /\ UNCHANGED <<library, handle, refused>>
      /\ theirs[l] \in Nat /\ refused[l] \in Nat /\ refs[l] \in Nat /\ Count(l) \in Nat
  BY CountIsNat DEF L!OthersOpen, L!OthersClose, LoaderTyped
<1>2. refs[l] = Count(l) + theirs[l] + refused[l] BY DEF Counted
<1>3. PICK d \in {-1, 1} :
        /\ refs' = [refs EXCEPT ![l] = @ + d] /\ theirs' = [theirs EXCEPT ![l] = @ + d]
        /\ refs[l] + d \in Nat /\ theirs[l] + d \in Nat
  <2>1. CASE L!OthersOpen(l) BY <1>1, <2>1 DEF L!OthersOpen, L!Dlopen
  <2>2. CASE L!OthersClose(l)
    <3>1. theirs[l] > 0 /\ refs[l] > 0 BY <1>1, <1>2, <2>2 DEF L!OthersClose
    <3>2. refs' = [refs EXCEPT ![l] = @ - 1] BY <2>2, <3>1, CloseCounts DEF L!OthersClose
    <3>3. theirs' = [theirs EXCEPT ![l] = @ - 1] BY <2>2 DEF L!OthersClose
    <3>4. refs[l] - 1 = refs[l] + (-1) /\ theirs[l] - 1 = theirs[l] + (-1) BY <1>1
    <3>5. /\ refs' = [refs EXCEPT ![l] = @ + (-1)]
          /\ theirs' = [theirs EXCEPT ![l] = @ + (-1)]
      BY <3>2, <3>3, <3>4
    <3>6. refs[l] + (-1) \in Nat /\ theirs[l] + (-1) \in Nat BY <1>1, <3>1
    <3> QED BY <3>5, <3>6
  <2> QED BY <2>1, <2>2
<1>4. LoaderTyped' BY <1>1, <1>3 DEF LoaderTyped
<1>5. ASSUME NEW k \in Library PROVE refs'[k] = Count(k)' + theirs'[k] + refused'[k]
  <2>1. Count(k)' = Count(k) /\ refused'[k] = refused[k] BY <1>1 DEF Count, L!Holders
  <2>2. CASE k = l
    <3>1. refs'[l] = refs[l] + d /\ theirs'[l] = theirs[l] + d BY <1>3 DEF LoaderTyped
    <3> QED BY <1>1, <1>2, <2>1, <2>2, <3>1
  <2>3. CASE k # l
    <3>1. refs'[k] = refs[k] /\ theirs'[k] = theirs[k] BY <1>3, <2>3 DEF LoaderTyped
    <3> QED BY <2>1, <3>1 DEF Counted
  <2> QED BY <2>2, <2>3
<1> QED BY <1>4, <1>5 DEF Careful, Counted

LEMMA PathKeeps ==
    ASSUME LoaderTyped, Counted, ~careless, NEW o \in Object, NEW l \in Library,
           L!LoadPath(o, l)
    PROVE Careful'
<1>1. CASE refs[l] = 0
  <2>1. UNCHANGED L!others BY <1>1 DEF L!LoadPath, L!others
  <2> QED BY <1>1, <2>1, LoadKeeps DEF L!LoadPath
<1>2. CASE refs[l] > 0
  <2>1. /\ UNCHANGED <<library, handle, theirs>>
        /\ refused' = [refused EXCEPT ![l] = @ + 1] /\ refs' = [refs EXCEPT ![l] = @ + 1]
    BY <1>2 DEF L!LoadPath, L!Dlopen
  <2>2. LoaderTyped' BY <2>1 DEF LoaderTyped
  <2>3. ASSUME NEW k \in Library PROVE refs'[k] = Count(k)' + theirs'[k] + refused'[k]
    <3>1. Count(k)' = Count(k) /\ Count(k) \in Nat BY <2>1, CountIsNat DEF Count, L!Holders
    <3>2. refs[k] = Count(k) + theirs[k] + refused[k] BY DEF Counted
    <3>3. refs[k] \in Nat /\ theirs[k] \in Nat /\ refused[k] \in Nat BY DEF LoaderTyped
    <3>4. refs'[k] - refs[k] = refused'[k] - refused[k] BY <2>1, <3>3 DEF LoaderTyped
    <3>5. refs'[k] \in Nat /\ refused'[k] \in Nat BY <2>2 DEF LoaderTyped
    <3> QED BY <2>1, <3>1, <3>2, <3>3, <3>4, <3>5
  <2> QED BY <2>2, <2>3 DEF Careful, Counted
<1> QED BY <1>1, <1>2 DEF LoaderTyped

LEMMA LoaderSteps ==
    ASSUME LoaderTyped, Counted, ~careless, L!Steps, ~careless'
    PROVE Careful'
<1>1. ASSUME NEW o \in Object, L!Default(o) PROVE Careful'
  <2>1. LoaderTyped' BY <1>1 DEF L!Default, L!others, LoaderTyped
  <2>2. \A k \in Library : L!Holders(k)' = L!Holders(k)
    BY <1>1, LoaderAssumption DEF L!Default, L!Holders, LoaderTyped
  <2> QED BY <1>1, <2>1, <2>2 DEF L!Default, L!others, Careful, Counted, Count
<1>2. ASSUME NEW o \in Object, L!Close(o) PROVE Careful'
  <2>1. UNCHANGED <<library, handle, refs, L!others>> BY <1>2 DEF L!Close, L!Closes, L!AfterClose
  <2> QED BY <2>1 DEF Careful, LoaderTyped, Counted, Count, L!Holders, L!others
<1>3. ASSUME NEW o \in Object, NEW s \in Object, L!MoveAssign(o, s) \/ L!Swap(o, s) PROVE Careful'
  <2>1. /\ o \in library /\ s \in library /\ UNCHANGED <<library, refs, L!others>>
        /\ handle' = [handle EXCEPT ![o] = handle[s], ![s] = handle[o]]
    BY <1>3 DEF L!MoveAssign, L!Swap, L!Closes, L!AfterClose
  <2> QED BY <2>1, SwapKeeps
<1>4. ASSUME NEW o \in Object, NEW l \in Library, L!LoadName(o, l) PROVE Careful'
  BY <1>4, LoadKeeps DEF L!LoadName
<1> QED BY <1>1, <1>2, <1>3, <1>4, DestroyKeeps, PathKeeps, OthersKeep DEF L!Steps, L!MoveConstruct

\* No library gets more references than the loader counts.
LEMMA RefsBounded == ASSUME L!TypeOK, L!Steps PROVE refs' \in [Library -> 0..MaxRefs]
<1>1. refs \in [Library -> 0..MaxRefs] /\ MaxRefs \in Nat BY LoaderAssumption DEF L!TypeOK
<1>2. ASSUME NEW l \in Library \union {None} PROVE L!AfterClose(l) \in [Library -> 0..MaxRefs]
  <2>1. CASE l = None BY <1>1, <2>1 DEF L!AfterClose
  <2>2. CASE l # None /\ l \in Library
    <3>1. (IF refs[l] = 0 THEN 0 ELSE refs[l] - 1) \in 0..MaxRefs BY <1>1, <2>2
    <3> QED BY <1>1, <2>2, <3>1 DEF L!AfterClose
  <2> QED BY <2>1, <2>2
<1>3. ASSUME NEW l \in Library, L!Dlopen(l) PROVE refs' \in [Library -> 0..MaxRefs]
  <2>1. refs[l] + 1 \in 0..MaxRefs BY <1>1, <1>3 DEF L!Dlopen
  <2> QED BY <1>1, <1>3, <2>1 DEF L!Dlopen
<1>4. \A o \in Object : handle[o] \in Library \union {None} BY DEF L!TypeOK
<1>5. ASSUME NEW o \in Object, L!Default(o) \/ L!Close(o) \/ L!Destroy(o)
      PROVE refs' \in [Library -> 0..MaxRefs]
  BY <1>1, <1>2, <1>4, <1>5 DEF L!Default, L!Close, L!Destroy, L!Closes
<1>6. ASSUME NEW o \in Object, NEW s \in Object, L!MoveConstruct(o, s) \/ L!MoveAssign(o, s) \/ L!Swap(o, s)
      PROVE refs' \in [Library -> 0..MaxRefs]
  BY <1>1, <1>2, <1>4, <1>6 DEF L!MoveConstruct, L!MoveAssign, L!Swap, L!Closes
<1>7. ASSUME NEW l \in Library, L!OthersOpen(l) \/ L!OthersClose(l)
      PROVE refs' \in [Library -> 0..MaxRefs]
  BY <1>2, <1>3, <1>7 DEF L!OthersOpen, L!OthersClose
<1>8. ASSUME NEW o \in Object, NEW l \in Library, L!LoadPath(o, l) \/ L!LoadName(o, l)
      PROVE refs' \in [Library -> 0..MaxRefs]
  BY <1>3, <1>8 DEF L!LoadPath, L!LoadName
<1> QED BY <1>5, <1>6, <1>7, <1>8 DEF L!Steps

\* A careless step takes no reference from others.
LEMMA CarelessKeeps ==
    ASSUME L!TypeOK, ~careless, L!Steps, careless'
    PROVE L!TypeOK'
<1>1. refs' \in [Library -> 0..MaxRefs] BY RefsBounded
<1>2. \A o \in Object : handle[o] \in Library \union {None} BY DEF L!TypeOK
<1>3. ASSUME NEW o \in Object, L!Close(o) PROVE L!TypeOK'
  BY <1>1, <1>3 DEF L!Close, L!Closes, L!others, L!TypeOK
<1>4. ASSUME NEW o \in Object, NEW s \in Object, L!MoveConstruct(o, s) \/ L!MoveAssign(o, s)
      PROVE L!TypeOK'
  BY <1>1, <1>2, <1>4 DEF L!MoveConstruct, L!MoveAssign, L!Closes, L!others, L!TypeOK
<1> QED
  BY <1>3, <1>4 DEF L!Steps, L!Default, L!Destroy, L!LoadPath, L!LoadName, L!Swap, L!OthersOpen,
                    L!OthersClose, L!Dlopen

\* Whoever has a reference has one of those that are counted.
LEMMA CountedBounded ==
    ASSUME LoaderTyped', Counted', refs' \in [Library -> 0..MaxRefs]
    PROVE theirs' \in [Library -> 0..MaxRefs] /\ refused' \in [Library -> 0..MaxRefs]
<1>1. ASSUME NEW l \in Library PROVE theirs'[l] \in 0..MaxRefs /\ refused'[l] \in 0..MaxRefs
  <2>1. refs'[l] = Count(l)' + theirs'[l] + refused'[l] BY DEF Counted
  <2>2. Count(l)' \in Nat
    <3>1. L!Holders(l)' \subseteq Object BY DEF L!Holders, LoaderTyped
    <3> QED BY <3>1, LoaderAssumption, FS_Subset, FS_CardinalityType DEF Count
  <2>3. theirs'[l] \in Nat /\ refused'[l] \in Nat /\ MaxRefs \in Nat
    BY LoaderAssumption DEF LoaderTyped
  <2>4. refs'[l] \in 0..MaxRefs OBVIOUS
  <2> QED BY <2>1, <2>2, <2>3, <2>4
<1> QED BY <1>1 DEF LoaderTyped

LoaderInv == L!TypeOK /\ (careless \/ Counted)

LEMMA LoaderInit == ASSUME L!Init PROVE LoaderInv
<1>1. L!TypeOK
  <2>1. 0 \in 0..MaxRefs BY LoaderAssumption
  <2> QED BY <2>1 DEF L!Init, L!TypeOK
<1>2. \A l \in Library : L!Holders(l) = {} BY DEF L!Init, L!Holders
<1> QED BY <1>1, <1>2, FS_EmptySet DEF L!Init, Counted, Count, LoaderInv

LEMMA LoaderNext == ASSUME LoaderInv, [L!Next]_lv PROVE LoaderInv'
<1>1. CASE UNCHANGED lv
  <2>1. L!TypeOK' BY <1>1 DEF lv, LoaderInv, L!TypeOK
  <2>2. Counted' <=> Counted BY <1>1 DEF lv, Counted, Count, L!Holders
  <2> QED BY <1>1, <2>1, <2>2 DEF lv, LoaderInv
<1>2. CASE L!Next
  <2>1. ~careless /\ L!Steps /\ L!TypeOK /\ Counted BY <1>2 DEF L!Next, LoaderInv
  <2>2. LoaderTyped BY <2>1, LoaderAssumption DEF L!TypeOK, LoaderTyped
  <2>3. refs' \in [Library -> 0..MaxRefs] BY <2>1, RefsBounded
  <2>4. CASE careless' BY <2>1, <2>4, CarelessKeeps DEF LoaderInv
  <2>5. CASE ~careless'
    <3>1. LoaderTyped' /\ Counted' BY <2>1, <2>2, <2>5, LoaderSteps DEF Careful
    <3>2. theirs' \in [Library -> 0..MaxRefs] /\ refused' \in [Library -> 0..MaxRefs]
      BY <2>3, <3>1, CountedBounded
    <3>3. careless' \in BOOLEAN
      BY <2>1 DEF L!TypeOK, L!Steps, L!Default, L!Close, L!Closes, L!Destroy, L!MoveAssign, L!MoveConstruct, L!Swap,
                  L!LoadPath, L!LoadName, L!OthersOpen, L!OthersClose
    <3>4. L!TypeOK' BY <2>3, <3>1, <3>2, <3>3 DEF L!TypeOK, LoaderTyped
    <3> QED BY <3>1, <3>4 DEF LoaderInv
  <2> QED BY <2>4, <2>5
<1> QED BY <1>1, <1>2

\* Cardinality is the one that the component counts with.
LEMMA LoaderCounts == ASSUME LoaderInv PROVE L!Accounted
<1>1. \A l : Count(l) = L!Cardinality(L!Holders(l)) BY Zenon DEF Count, Cardinality, L!Cardinality
<1> QED BY <1>1 DEF LoaderInv, Counted, L!Accounted

-----------------------------------------------------------------------------
(* Credentials *)

IdsTyped ==
    /\ uid \in C!Triple /\ gid \in C!Triple
    /\ drop \in {"idle", "setgid", "setuid"} /\ want \in UserId \X UserId
    /\ from \in BOOLEAN /\ end \in {"none", "done", "refused", "busy"}
    /\ dropped \in (UserId \X UserId) \union {None}

\* A dropId of root has root's privileges up to its last step, and by then the
\* group ids are the new ones.
RootIsDropping == from /\ drop # "idle" =>
    /\ C!Privileged
    /\ drop = "setuid" => gid = C!All(want[2])

IdsInv == IdsTyped /\ RootIsDropping /\ C!DroppedForGood /\ C!RootMayDrop

-----------------------------------------------------------------------------
(* The kernel's rules *)

\* A call of some wrapper may make b of the ids old.
MayGive(old, b) ==
    \/ \E i \in UserId : b \in C!SetAll(old, i) \/ b \in C!SetEffective(old, i)
    \/ \E i, j \in UserId : b \in C!SetRealEffective(old, i, j)
    \/ \E new \in C!Triple : b \in C!SetThree(old, new)

\* It gives three ids again.
LEMMA KernelTyped ==
    ASSUME NEW old \in C!Triple, NEW b, MayGive(old, b)
    PROVE b \in C!Triple
<1> USE DEF C!Triple, C!All
<1>1. ASSUME NEW i \in UserId, b \in C!SetAll(old, i) \/ b \in C!SetEffective(old, i) PROVE b \in C!Triple
  BY <1>1 DEF C!SetAll, C!SetEffective
<1>2. ASSUME NEW i \in UserId, NEW j \in UserId, b \in C!SetRealEffective(old, i, j) PROVE b \in C!Triple
  BY <1>2 DEF C!SetRealEffective
<1>3. ASSUME NEW new \in C!Triple, b \in C!SetThree(old, new) PROVE b \in C!Triple
  BY <1>3 DEF C!SetThree
<1> HIDE DEF C!Triple
<1> QED BY <1>1, <1>2, <1>3 DEF MayGive

\* Without privileges whoever has one id in all three places keeps it there.
LEMMA OneIdStays ==
    ASSUME NEW a, NEW b, MayGive(C!All(a), b), ~C!Privileged
    PROVE b = C!All(a)
<1>1. \A c : C!Holds(c, C!All(a)) => c = a BY DEF C!Holds, C!All
<1>2. ASSUME NEW i \in UserId, b \in C!SetAll(C!All(a), i) \/ b \in C!SetEffective(C!All(a), i)
      PROVE b = C!All(a)
  BY <1>2 DEF C!SetAll, C!SetEffective, C!All
<1>3. ASSUME NEW i \in UserId, NEW j \in UserId, b \in C!SetRealEffective(C!All(a), i, j) PROVE b = C!All(a)
  <2>1. i = a /\ j = a BY <1>1, <1>3 DEF C!SetRealEffective, C!All
  <2> QED BY <1>3, <2>1 DEF C!SetRealEffective, C!All
<1>4. ASSUME NEW new \in C!Triple, b \in C!SetThree(C!All(a), new) PROVE b = C!All(a)
  <2>1. new = <<new[1], new[2], new[3]>> BY DEF C!Triple
  <2>2. b = new /\ \A k \in 1..3 : C!Holds(new[k], C!All(a)) BY <1>4 DEF C!SetThree
  <2>3. new[1] = a /\ new[2] = a /\ new[3] = a BY <1>1, <2>2
  <2> QED BY <2>1, <2>2, <2>3 DEF C!All
<1> QED BY <1>2, <1>3, <1>4 DEF MayGive

\* setuid(2) and setgid(2) are among the calls.
LEMMA SetAllMayGive ==
    ASSUME NEW old, NEW i \in UserId, NEW b \in C!SetAll(old, i)
    PROVE MayGive(old, b)
BY DEF MayGive

-----------------------------------------------------------------------------
(* The steps *)

UserCall ==
    \/ \E i, j \in UserId : C!Setreuid(i, j) \/ C!Setregid(i, j)
    \/ \E i \in UserId : C!Setuid(i) \/ C!Setgid(i) \/ C!Seteuid(i) \/ C!Setegid(i)
    \/ \E new \in C!Triple : C!Setresuid(new) \/ C!Setresgid(new)

LEMMA UserCallKeeps == ASSUME IdsInv, UserCall PROVE IdsInv'
<1> USE DEF IdsInv, IdsTyped, C!drop
<1>1. drop = "idle" /\ UNCHANGED C!drop
  BY DEF UserCall, C!Uid, C!Gid, C!Setuid, C!Setgid, C!Seteuid, C!Setegid, C!Setreuid, C!Setregid,
         C!Setresuid, C!Setresgid
<1>2. \/ MayGive(uid, uid') /\ UNCHANGED gid
      \/ MayGive(gid, gid') /\ UNCHANGED uid
  BY DEF UserCall, C!Uid, C!Gid, C!Setuid, C!Setgid, C!Seteuid, C!Setegid, C!Setreuid, C!Setregid,
         C!Setresuid, C!Setresgid, MayGive
<1>3. IdsTyped'
  <2>1. uid' \in C!Triple BY <1>2, KernelTyped
  <2>2. gid' \in C!Triple BY <1>2, KernelTyped
  <2> QED BY <1>1, <2>1, <2>2
<1>4. RootIsDropping' BY <1>1 DEF RootIsDropping
<1>5. C!DroppedForGood'
  <2> SUFFICES ASSUME dropped # None, dropped[1] # 0
               PROVE uid' = C!All(dropped[1]) /\ gid' = C!All(dropped[2])
    BY <1>1 DEF C!DroppedForGood
  <2>1. uid = C!All(dropped[1]) /\ gid = C!All(dropped[2]) BY DEF C!DroppedForGood
  <2>2. ~C!Privileged BY <2>1 DEF C!Privileged, C!All
  <2> QED BY <1>2, <2>1, <2>2, OneIdStays
<1>6. C!RootMayDrop' BY <1>1 DEF C!RootMayDrop
<1> QED BY <1>3, <1>4, <1>5, <1>6

LEMMA DropStepKeeps ==
    ASSUME IdsInv, C!DropGid \/ C!DropUid \/ C!DropThrows \/ \E i, j \in UserId : C!DropId(i, j)
    PROVE IdsInv'
<1> USE DEF IdsInv, IdsTyped, C!Order
<1>1. ASSUME NEW i \in UserId, NEW j \in UserId, C!DropId(i, j) PROVE IdsInv'
  <2>1. IdsTyped'
    <3>1. from' \in BOOLEAN BY <1>1 DEF C!DropId, C!Privileged
    <3>2. /\ drop' = "setgid" /\ want' = <<i, j>> /\ end' = "none" /\ UNCHANGED <<uid, gid, dropped>>
      BY <1>1 DEF C!DropId
    <3>3. want' \in UserId \X UserId BY <3>2
    <3> QED BY <3>1, <3>2, <3>3
  <2>2. RootIsDropping' BY <1>1 DEF C!DropId, RootIsDropping, C!Privileged
  <2>3. C!DroppedForGood' BY <1>1 DEF C!DropId, C!DroppedForGood
  <2>4. C!RootMayDrop' BY <1>1 DEF C!DropId, C!RootMayDrop
  <2> QED BY <2>1, <2>2, <2>3, <2>4
<1>2. CASE C!DropGid
  <2>1. /\ drop = "setgid" /\ drop' = "setuid" /\ UNCHANGED <<uid, want, from, end, dropped>>
        /\ gid' \in C!SetAll(gid, want[2]) /\ MayGive(gid, gid')
    BY <1>2, SetAllMayGive DEF C!DropGid, C!Step
  <2>2. IdsTyped' BY <2>1, KernelTyped
  <2>3. RootIsDropping' BY <2>1 DEF RootIsDropping, C!SetAll, C!Privileged
  <2>4. C!DroppedForGood'
    <3> SUFFICES ASSUME dropped # None, dropped[1] # 0
                 PROVE uid' = C!All(dropped[1]) /\ gid' = C!All(dropped[2])
      BY <2>1 DEF C!DroppedForGood
    <3>1. uid = C!All(dropped[1]) /\ gid = C!All(dropped[2]) BY DEF C!DroppedForGood
    <3>2. ~C!Privileged BY <3>1 DEF C!Privileged, C!All
    <3> QED BY <2>1, <3>1, <3>2, OneIdStays
  <2>5. C!RootMayDrop' BY <2>1 DEF C!RootMayDrop
  <2> QED BY <2>2, <2>3, <2>4, <2>5
<1>3. CASE C!DropUid
  <2>1. /\ drop = "setuid" /\ drop' = "idle" /\ end' = "done" /\ UNCHANGED <<gid, want, from>>
        /\ dropped' = (IF from THEN want ELSE dropped)
        /\ uid' \in C!SetAll(uid, want[1]) /\ MayGive(uid, uid')
    BY <1>3, SetAllMayGive DEF C!DropUid, C!Step
  <2>2. IdsTyped' BY <2>1, KernelTyped
  <2>3. RootIsDropping' BY <2>1 DEF RootIsDropping
  <2>4. C!DroppedForGood'
    <3>1. CASE from
      <4>1. C!Privileged /\ gid = C!All(want[2]) BY <2>1, <3>1 DEF RootIsDropping
      <4>2. uid' = C!All(want[1]) BY <2>1, <4>1 DEF C!SetAll
      <4> QED BY <2>1, <3>1, <4>1, <4>2 DEF C!DroppedForGood
    <3>2. CASE ~from
      <4> SUFFICES ASSUME dropped # None, dropped[1] # 0
                   PROVE uid' = C!All(dropped[1]) /\ gid' = C!All(dropped[2])
        BY <2>1, <3>2 DEF C!DroppedForGood
      <4>1. uid = C!All(dropped[1]) /\ gid = C!All(dropped[2]) BY DEF C!DroppedForGood
      <4>2. ~C!Privileged BY <4>1 DEF C!Privileged, C!All
      <4> QED BY <2>1, <4>1, <4>2, OneIdStays
    <3> QED BY <3>1, <3>2
  <2>5. C!RootMayDrop' BY <2>1 DEF C!RootMayDrop
  <2> QED BY <2>2, <2>3, <2>4, <2>5
<1>4. CASE C!DropThrows
  <2>1. drop # "idle" /\ drop' = "idle" /\ UNCHANGED <<uid, gid, want, from, dropped>>
    BY <1>4 DEF C!DropThrows
  <2>2. C!RootMayDrop'
    <3> SUFFICES ASSUME from PROVE end' # "refused" BY <2>1 DEF C!RootMayDrop
    <3>1. C!Privileged BY <2>1 DEF RootIsDropping
    <3> QED BY <1>4, <3>1 DEF C!DropThrows, C!SetAll
  <2>3. RootIsDropping' BY <2>1 DEF RootIsDropping
  <2>4. C!DroppedForGood' BY <2>1 DEF C!DroppedForGood
  <2>5. end' \in {"refused", "busy"} BY <1>4 DEF C!DropThrows
  <2>6. IdsTyped' BY <2>1, <2>5
  <2> QED BY <2>2, <2>3, <2>4, <2>6
<1> QED BY <1>1, <1>2, <1>3, <1>4

LEMMA IdsInit == ASSUME C!Init PROVE IdsInv
<1>1. IdsTyped
  <2>1. uid \in C!Triple /\ gid \in C!Triple BY DEF C!Init, C!Triple
  <2>2. want = <<0, 0>> /\ from = FALSE /\ drop = "idle" /\ end = "none" /\ dropped = None BY DEF C!Init
  <2>3. want \in UserId \X UserId BY <2>2, IdsAssumption
  <2> QED BY <2>1, <2>2, <2>3 DEF IdsTyped
<1>2. RootIsDropping /\ C!DroppedForGood /\ C!RootMayDrop
  BY DEF C!Init, RootIsDropping, C!DroppedForGood, C!RootMayDrop
<1> QED BY <1>1, <1>2 DEF IdsInv

LEMMA IdsNext == ASSUME IdsInv, [C!Next]_cv PROVE IdsInv'
<1>1. CASE UserCall BY <1>1, UserCallKeeps
<1>2. CASE C!DropGid \/ C!DropUid \/ C!DropThrows \/ \E i, j \in UserId : C!DropId(i, j)
  BY <1>2, DropStepKeeps
<1>3. CASE UNCHANGED cv
  BY <1>3 DEF cv, IdsInv, IdsTyped, RootIsDropping, C!DroppedForGood, C!RootMayDrop, C!Privileged
<1> QED BY <1>1, <1>2, <1>3 DEF C!Next, UserCall

-----------------------------------------------------------------------------
(* FileSystem *)

\* An answer with a status is the status of some kind of file.
FileInv ==
    /\ node \in [Path -> F!Kind \union {None}] /\ target \in [Path -> Path] /\ closed \in BOOLEAN
    /\ answer \in [Caller -> [path : Path, result : {"throws", "status", "absent"},
                              mode : SUBSET (12..15)]]
    /\ \A c \in Caller : answer[c].result = "status" =>
          \E kind \in F!Kind : answer[c].mode = F!Bits[kind]

LEMMA KindsAre ==
    /\ F!Kind = {"fifo", "chr", "dir", "blk", "reg", "lnk", "sock"}
    /\ F!Bits["fifo"] = {12} /\ F!Bits["chr"] = {13} /\ F!Bits["dir"] = {14}
    /\ F!Bits["blk"] = {13, 14} /\ F!Bits["reg"] = {15} /\ F!Bits["lnk"] = {13, 15}
    /\ F!Bits["sock"] = {14, 15}
BY DEF F!Kind, F!Bits

LEMMA BitsTyped == \A kind \in F!Kind : F!Bits[kind] \in SUBSET (12..15)
BY KindsAre

\* Path resolution ends at a file that is not a link, or nowhere.
LEMMA ResolvedIs ==
    ASSUME FileInv, NEW p
    PROVE F!Resolved(p) \in F!Kind \union {None, "loop"}
<1>1. F!Ends(p) \subseteq F!Kind \union {None}
  BY DEF F!Ends, F!Through, FileInv
<1>2. CASE F!Ends(p) = {} BY <1>2 DEF F!Resolved
<1>3. CASE F!Ends(p) # {}
  <2>1. F!Resolved(p) \in F!Ends(p) BY <1>3 DEF F!Resolved
  <2> QED BY <1>1, <2>1
<1> QED BY <1>2, <1>3

\* An answer changes nothing but the answer.
LEMMA AnswerKeeps ==
    ASSUME FileInv, NEW c \in Caller, NEW p \in Path,
           NEW found \in {"throws", "status", "absent"}, NEW mode,
           mode \in SUBSET (12..15),
           found = "status" => \E kind \in F!Kind : mode = F!Bits[kind],
           F!Answer(c, p, found, mode)
    PROVE /\ FileInv'
          /\ answer'[c] = [path |-> p, result |-> found, mode |-> mode]
          /\ \A d \in Caller \ {c} : answer'[d] = answer[d]
BY DEF FileInv, F!Answer

LEMMA ReportKeeps ==
    ASSUME FileInv, NEW c \in Caller, NEW p \in Path,
           NEW found \in F!Kind \union {None, "loop"}, F!Report(c, p, found)
    PROVE FileInv'
<1>1. CASE F!Answer(c, p, "throws", {}) BY <1>1, AnswerKeeps
<1>2. CASE found \in F!Kind /\ F!Answer(c, p, "status", F!Bits[found])
  <2>1. F!Bits[found] \in SUBSET (12..15) BY <1>2, BitsTyped
  <2> QED BY <1>2, <2>1, AnswerKeeps
<1> QED BY <1>1, <1>2 DEF F!Report

LEMMA LooksKeep ==
    ASSUME FileInv, NEW c \in Caller, NEW p \in Path,
           F!Stat(c, p) \/ F!Lstat(c, p) \/ F!StatOptional(c, p)
    PROVE FileInv'
<1>1. F!Resolved(p) \in F!Kind \union {None, "loop"} BY ResolvedIs
<1>2. node[p] \in F!Kind \union {None, "loop"} BY DEF FileInv
<1>3. CASE F!Report(c, p, F!Resolved(p)) \/ F!Report(c, p, node[p])
  BY <1>1, <1>2, <1>3, ReportKeeps
<1>4. CASE F!Answer(c, p, "absent", {}) BY <1>4, AnswerKeeps
<1> QED BY <1>3, <1>4 DEF F!Stat, F!Lstat, F!StatOptional

LEMMA FileInit == ASSUME F!Init PROVE FileInv
<1>1. closed \in BOOLEAN BY DEF F!Init
<1> QED BY <1>1 DEF F!Init, F!Nothing, FileInv

LEMMA FileNext == ASSUME FileInv, [F!Next]_fv PROVE FileInv'
<1>1. ASSUME NEW p \in Path, NEW kind \in F!Kind, F!Mknod(p, kind) PROVE FileInv'
  BY <1>1 DEF F!Mknod, F!Put, FileInv
<1>2. ASSUME NEW p \in Path, F!Rmdir(p) \/ F!Unlink(p) PROVE FileInv'
  <2>1. node' = [node EXCEPT ![p] = None] /\ UNCHANGED <<target, closed, answer>>
    BY <1>2 DEF F!Rmdir, F!Unlink, F!Put
  <2> QED BY <2>1 DEF FileInv
<1>3. ASSUME NEW p \in Path, NEW value \in Path, F!Symlink(value, p) PROVE FileInv'
  BY <1>3, KindsAre DEF F!Symlink, F!Put, FileInv
<1>4. CASE F!Chmod BY <1>4 DEF F!Chmod, FileInv
<1>5. CASE UNCHANGED fv BY <1>5 DEF fv, FileInv
<1> QED BY <1>1, <1>2, <1>3, <1>4, <1>5, KindsAre, LooksKeep DEF F!Next, F!Mkdir, F!Mkfifo

LEMMA FileKinds == ASSUME FileInv PROVE F!KindsSeen
<1> SUFFICES ASSUME NEW kind \in F!Kind, NEW mode, mode = F!Bits[kind]
             PROVE /\ \A k \in F!Kind : mode = F!Bits[k] => F!Is(k, mode)
                   /\ mode = F!Bits["dir"] => \A k \in {"fifo", "chr", "reg", "lnk"} : ~F!Is(k, mode)
                   /\ F!Is("fifo", mode) => mode = F!Bits["fifo"]
  BY DEF FileInv, F!KindsSeen
<1>1. \A k \in F!Kind : F!Bits[k] # {} BY KindsAre
<1>2. 12 \in mode => mode = {12} BY KindsAre
<1> QED BY <1>1, <1>2, KindsAre DEF F!Is

-----------------------------------------------------------------------------
(* ControlFiles *)

\* What the files of the family may say.
Fits(c) ==
    /\ family = "memory" =>
          /\ c \in [limit : Limit, usage : Nat, max_usage : Nat, failcnt : Nat]
          /\ c.usage <= c.limit /\ c.usage <= c.max_usage
    /\ family = "charge" => c \in [mask : 0..3]
    /\ family = "oom" => c \in [oom_kill_disable : 0..1, under_oom : 0..1]
    /\ family = "cpuacct" => c \in [user : Nat, system : Nat]

\* A call has seen what the files say now, and one that has returned a value has
\* seen the files it is of.
CallInv ==
    /\ read.step # "idle" =>
          /\ content \in seen /\ result = None
          /\ read.call \in V!Getter[family] \/ <<read.call, read.arg>> \in V!Setter[family]
    /\ read.step = "idle" /\ result # None =>
          /\ read.call \in V!Getter[family]
          /\ \E c \in seen \ {None} : result = V!Value(read.call, c)

ControlInv ==
    /\ family \in V!Family
    /\ DOMAIN read = {"call", "arg", "step"} /\ read.step \in {"idle", "check", "open"}
    /\ \A c \in seen \union {content} : c # None => Fits(c)
    /\ CallInv

\* What division leaves is less than the divisor.
LEMMA Division ==
    ASSUME NEW a \in Nat, NEW n \in Nat \ {0}
    PROVE (a \div n) * n <= a /\ a < ((a \div n) + 1) * n
<1>1. (a \div n) * n <= a OBVIOUS
<1>2. a < ((a \div n) + 1) * n OBVIOUS
<1> QED BY <1>1, <1>2

LEMMA Remainder == ASSUME NEW a \in Nat, NEW n \in Nat \ {0}, a < n PROVE a % n = a
OBVIOUS

\* The product is divided after the multiplication: nothing is lost.
LEMMA CountIsExact == ASSUME NEW ticks \in Nat PROVE V!Exact(V!countToUnits(ticks), ticks)
<1> DEFINE x == ticks * Den
<1>1. x \in Nat /\ ClkTck \in Nat \ {0} /\ Modulus \in Nat \ {0} BY FilesAssumption
<1>2. x < Modulus => x % Modulus = x BY <1>1, Remainder
<1>3. (x \div ClkTck) * ClkTck <= x /\ x < ((x \div ClkTck) + 1) * ClkTck BY <1>1, Division
<1> QED BY <1>2, <1>3 DEF V!Exact, V!countToUnits

\* The file of both flags says what was written to it.
LEMMA MaskComesBack == ASSUME NEW mask \in 0..3
                       PROVE V!Mask(V!Config(mask)) = mask
<1> DEFINE config == V!Config(mask)
<1>1. config.anonymous = (mask % 2 = 1) /\ config.file = ((mask \div 2) % 2 = 1)
  BY Zenon DEF V!Config
<1>2. V!Mask(config) = (IF mask % 2 = 1 THEN 1 ELSE 0) + (IF (mask \div 2) % 2 = 1 THEN 2 ELSE 0)
  BY <1>1, Zenon DEF V!Mask
<1>3. mask \in {0, 1, 2, 3} OBVIOUS
<1> QED BY <1>2, <1>3

\* Which family has which calls.
LEMMA CallsAre ==
    /\ V!Getter["memory"] = {"limit", "usage", "max_usage", "failcnt"}
    /\ V!Getter["charge"] = {"config"} /\ V!Getter["oom"] = {"oom_kill_disable", "under_oom"}
    /\ V!Getter["cpuacct"] = {"stat"}
    /\ V!Setter["memory"] = ({"setLimit"} \X Limit) \union
                            ({"resetMaxUsage", "resetFailcnt", "forceEmpty"} \X {0})
    /\ V!Setter["charge"] = {"setConfig"} \X (0..3)
    /\ V!Setter["oom"] = {"setOomKillDisable"} \X (0..1) /\ V!Setter["cpuacct"] = {}
BY DEF V!Getter, V!Setter

LEMMA FreshFits == ASSUME family \in V!Family PROVE Fits(V!Fresh[family])
<1>1. V!Top \in Limit /\ V!Top \in Nat BY FilesAssumption DEF V!Top
<1>2. /\ V!Fresh["memory"] = [limit |-> V!Top, usage |-> 0, max_usage |-> 0, failcnt |-> 0]
      /\ V!Fresh["charge"] = [mask |-> 0]
      /\ V!Fresh["oom"] = [oom_kill_disable |-> 0, under_oom |-> 0]
      /\ V!Fresh["cpuacct"] = [user |-> 0, system |-> 0]
  BY DEF V!Fresh
<1> QED BY <1>1, <1>2 DEF Fits, V!Family

\* What the kernel makes of a write is what such a file may say.
LEMMA WrittenFits ==
    ASSUME ControlInv, content # None, NEW setter \in V!Setter[family],
           NEW new \in V!Written(setter[1], setter[2])
    PROVE Fits(new)
<1> USE DEF ControlInv
<1>1. Fits(content) /\ Limit \subseteq Nat BY FilesAssumption
<1>2. CASE family = "memory"
  <2>1. content \in [limit : Limit, usage : Nat, max_usage : Nat, failcnt : Nat]
        /\ content.usage <= content.limit /\ content.usage <= content.max_usage
        /\ content.usage \in Nat /\ content.max_usage \in Nat
    BY <1>1, <1>2 DEF Fits
  <2>2. CASE setter[1] = "setLimit" /\ setter[2] \in Limit
    <3>1. new \in {[content EXCEPT !.limit = setter[2], !.usage = u] :
                     u \in {v \in 0..content.usage : v <= setter[2]}}
      BY <2>2 DEF V!Written
    <3>2. PICK u \in 0..content.usage : u <= setter[2]
                 /\ new = [content EXCEPT !.limit = setter[2], !.usage = u]
      BY <3>1
    <3>3. u \in Nat /\ u <= content.usage BY <2>1
    <3>4. /\ new.limit = setter[2] /\ new.usage = u /\ new.max_usage = content.max_usage
          /\ new \in [limit : Limit, usage : Nat, max_usage : Nat, failcnt : Nat]
      BY <2>1, <2>2, <3>2, <3>3
    <3>5. u <= content.max_usage BY <2>1, <3>3
    <3> QED BY <1>2, <3>2, <3>4, <3>5 DEF Fits
  <2>3. CASE setter[1] = "resetMaxUsage"
    <3>1. new = [content EXCEPT !.max_usage = content.usage] BY <2>3 DEF V!Written
    <3> QED BY <1>2, <2>1, <3>1 DEF Fits
  <2>4. CASE setter[1] = "resetFailcnt"
    <3>1. new = [content EXCEPT !.failcnt = 0] BY <2>4 DEF V!Written
    <3> QED BY <1>2, <2>1, <3>1 DEF Fits
  <2>5. CASE setter[1] = "forceEmpty"
    <3>1. PICK u \in 0..content.usage : new = [content EXCEPT !.usage = u]
      BY <2>5 DEF V!Written
    <3> QED BY <1>1, <1>2, <2>1, <3>1 DEF Fits
  <2> QED BY <1>2, <2>2, <2>3, <2>4, <2>5, CallsAre
<1>3. CASE family = "charge"
  <2>1. setter[1] = "setConfig" /\ setter[2] \in 0..3 BY <1>3, CallsAre
  <2>2. new = [content EXCEPT !.mask = V!Mask(V!Config(setter[2]))] BY <2>1 DEF V!Written
  <2>3. new = [content EXCEPT !.mask = setter[2]] BY <2>1, <2>2, MaskComesBack
  <2> QED BY <1>1, <1>3, <2>1, <2>3 DEF Fits
<1>4. CASE family = "oom"
  <2>1. setter[1] = "setOomKillDisable" /\ setter[2] \in 0..1 BY <1>4, CallsAre
  <2>2. new = [content EXCEPT !.oom_kill_disable = setter[2]] BY <2>1 DEF V!Written
  <2> QED BY <1>1, <1>4, <2>1, <2>2 DEF Fits
<1>5. CASE family = "cpuacct" BY <1>5, CallsAre
<1> QED BY <1>2, <1>3, <1>4, <1>5 DEF V!Family

\* New contents are seen by a call that is under way.
LEMMA BecomesKeeps ==
    ASSUME ControlInv, NEW new, new # None => Fits(new), V!Becomes(new),
           UNCHANGED <<family, result>>,
           \/ read' = read
           \/ read.step # "idle" /\ read' = [read EXCEPT !.step = "idle"]
    PROVE ControlInv'
<1>1. content' = new /\ seen' \in {seen, seen \union {new}}
      /\ (read.step # "idle" => seen' = seen \union {new})
  BY DEF V!Becomes
<1>2. \A c \in seen' \union {content'} : c # None => Fits(c)
  BY <1>1 DEF ControlInv
<1>3. \A c : Fits(c)' <=> Fits(c) BY DEF Fits
<1>4. CASE read' = read
  <2>1. CallInv' BY <1>1, <1>4 DEF ControlInv, CallInv
  <2> QED BY <1>2, <1>3, <1>4, <2>1 DEF ControlInv
<1>5. CASE read.step # "idle" /\ read' = [read EXCEPT !.step = "idle"]
  <2>1. read'.step = "idle" /\ DOMAIN read' = {"call", "arg", "step"} BY <1>5 DEF ControlInv
  <2>2. CallInv' BY <1>5, <2>1 DEF ControlInv, CallInv
  <2> QED BY <1>2, <1>3, <2>1, <2>2 DEF ControlInv
<1> QED BY <1>4, <1>5

\* A call goes on, or ends without a value.
LEMMA CallGoesOn ==
    ASSUME ControlInv, UNCHANGED <<family, content, result, seen>>, read.step # "idle",
           NEW step \in {"idle", "check", "open"}, read' = [read EXCEPT !.step = step]
    PROVE ControlInv'
<1>1. /\ read'.step = step /\ read'.call = read.call /\ read'.arg = read.arg
      /\ DOMAIN read' = {"call", "arg", "step"}
  BY DEF ControlInv
<1>2. \A c : Fits(c)' <=> Fits(c) BY DEF Fits
<1>3. CallInv' BY <1>1 DEF ControlInv, CallInv
<1> QED BY <1>1, <1>2, <1>3 DEF ControlInv

LEMMA CallBegins ==
    ASSUME ControlInv, NEW name, NEW arg, V!Call(name, arg),
           name \in V!Getter[family] \/ <<name, arg>> \in V!Setter[family]
    PROVE ControlInv'
<1>1. /\ read' = [call |-> name, arg |-> arg, step |-> "check"] /\ result' = None
      /\ seen' = {content} /\ UNCHANGED <<family, content>>
  BY DEF V!Call
<1>2. \A c : Fits(c)' <=> Fits(c) BY <1>1 DEF Fits
<1>3. CallInv' BY <1>1 DEF CallInv
<1> QED BY <1>1, <1>2, <1>3 DEF ControlInv

LEMMA ReadKeeps == ASSUME ControlInv, V!Read PROVE ControlInv'
<1>1. /\ read.step # "idle" /\ content # None /\ read.call \in V!Getter[family]
      /\ result' = V!Value(read.call, content)
      /\ read' = [read EXCEPT !.step = "idle"] /\ UNCHANGED <<family, content, seen>>
  BY DEF V!Read, V!End
<1>2. read'.step = "idle" /\ read'.call = read.call /\ DOMAIN read' = {"call", "arg", "step"}
  BY <1>1 DEF ControlInv
<1>3. \A c : Fits(c)' <=> Fits(c) BY <1>1 DEF Fits
<1>4. content \in seen' \ {None} BY <1>1 DEF ControlInv, CallInv
<1>5. CallInv' BY <1>1, <1>2, <1>4 DEF CallInv
<1> QED BY <1>1, <1>2, <1>3, <1>5 DEF ControlInv

LEMMA WriteKeeps == ASSUME ControlInv, V!Write PROVE ControlInv'
<1>1. /\ read.step = "open" /\ content # None /\ read.call \notin V!Getter[family]
      /\ read' = [read EXCEPT !.step = "idle"] /\ UNCHANGED <<family, result>>
  BY DEF V!Write, V!Setting, V!End
<1>2. PICK new \in V!Written(read.call, read.arg) : V!Becomes(new)
  BY DEF V!Write
<1>3. <<read.call, read.arg>> \in V!Setter[family] BY <1>1 DEF ControlInv, CallInv
<1>4. Fits(new) BY <1>1, <1>2, <1>3, WrittenFits
<1> QED BY <1>1, <1>2, <1>4, BecomesKeeps

\* What the kernel makes of the files by itself.
LEMMA KernelKeeps ==
    ASSUME ControlInv, V!Charge \/ V!Uncharge \/ V!Oom \/ \E clock \in {"user", "system"} : V!Tick(clock)
    PROVE ControlInv'
<1>1. /\ content # None => Fits(content)
      /\ Limit \subseteq Nat
  BY FilesAssumption DEF ControlInv
<1>2. CASE V!Charge
  <2>1. /\ family = "memory" /\ content # None /\ UNCHANGED <<family, read, result>>
    BY <1>2 DEF V!Charge
  <2>2. /\ content \in [limit : Limit, usage : Nat, max_usage : Nat, failcnt : Nat]
        /\ content.usage <= content.limit /\ content.usage <= content.max_usage
    BY <1>1, <2>1 DEF Fits
  <2> DEFINE u == content.usage + 1
             more == [content EXCEPT !.usage = u,
                        !.max_usage = IF u > content.max_usage THEN u ELSE content.max_usage]
             failed == [content EXCEPT !.failcnt = 1]
  <2>3. (u <= content.limit /\ V!Becomes(more)) \/ V!Becomes(failed)
    BY <1>2 DEF V!Charge
  <2>4. Fits(failed) BY <2>1, <2>2 DEF Fits
  <2>5. ASSUME u <= content.limit PROVE Fits(more)
    <3>1. content.usage \in Nat /\ content.max_usage \in Nat /\ content.limit \in Nat
      BY <1>1, <2>2
    <3> DEFINE most == IF u > content.max_usage THEN u ELSE content.max_usage
    <3>2. most \in Nat /\ u <= most /\ u \in Nat BY <3>1
    <3> HIDE DEF most
    <3>3. /\ more \in [limit : Limit, usage : Nat, max_usage : Nat, failcnt : Nat]
          /\ more.usage = u /\ more.limit = content.limit /\ more.max_usage = most
      BY <2>2, <3>2 DEF most
    <3> HIDE DEF more
    <3> QED BY <2>1, <2>5, <3>2, <3>3 DEF Fits
  <2> QED BY <2>1, <2>3, <2>4, <2>5, BecomesKeeps
<1>3. CASE V!Uncharge
  <2>1. /\ family = "memory" /\ content # None /\ content.usage > 0
        /\ UNCHANGED <<family, read, result>> /\ V!Becomes([content EXCEPT !.usage = content.usage - 1])
    BY <1>3 DEF V!Uncharge
  <2>2. Fits([content EXCEPT !.usage = content.usage - 1]) BY <1>1, <2>1 DEF Fits
  <2> QED BY <2>1, <2>2, BecomesKeeps
<1>4. CASE V!Oom
  <2> DEFINE under == IF content.oom_kill_disable = 1 THEN 1 - content.under_oom ELSE 0
  <2>1. /\ family = "oom" /\ content # None
        /\ UNCHANGED <<family, read, result>> /\ V!Becomes([content EXCEPT !.under_oom = under])
    BY <1>4 DEF V!Oom
  <2>2. content \in [oom_kill_disable : 0..1, under_oom : 0..1] BY <1>1, <2>1 DEF Fits
  <2>3. under \in 0..1 BY <2>2
  <2>4. Fits([content EXCEPT !.under_oom = under]) BY <2>1, <2>2, <2>3 DEF Fits
  <2> QED BY <2>1, <2>4, BecomesKeeps
<1>5. ASSUME NEW clock \in {"user", "system"}, V!Tick(clock) PROVE ControlInv'
  <2>1. /\ family = "cpuacct" /\ content # None
        /\ UNCHANGED <<family, read, result>>
        /\ V!Becomes([content EXCEPT ![clock] = content[clock] + 1])
    BY <1>5 DEF V!Tick
  <2>2. Fits([content EXCEPT ![clock] = content[clock] + 1]) BY <1>1, <2>1 DEF Fits
  <2> QED BY <2>1, <2>2, BecomesKeeps
<1> QED BY <1>2, <1>3, <1>4, <1>5

LEMMA ControlInit == ASSUME V!Init PROVE ControlInv
<1>1. Fits(V!Fresh[family]) BY FreshFits DEF V!Init
<1> QED BY <1>1 DEF V!Init, V!Idle, ControlInv, CallInv

LEMMA ControlNext == ASSUME ControlInv, [V!Next]_vv PROVE ControlInv'
<1>1. CASE UNCHANGED vv
  <2>1. UNCHANGED <<family, content, read, result, seen>> BY <1>1 DEF vv
  <2>2. \A c : Fits(c)' <=> Fits(c) BY <2>1 DEF Fits
  <2> QED BY <2>1, <2>2 DEF ControlInv, CallInv
<1>2. ASSUME NEW name \in V!Getter[family], V!Call(name, None) PROVE ControlInv'
  BY <1>2, CallBegins
<1>3. ASSUME NEW setter \in V!Setter[family], V!Call(setter[1], setter[2]) PROVE ControlInv'
  <2>1. setter = <<setter[1], setter[2]>> BY CallsAre DEF ControlInv, V!Family
  <2> QED BY <1>3, <2>1, CallBegins
<1>4. ASSUME NEW setter \in V!Setter[family], V!OthersWrite(setter) PROVE ControlInv'
  <2>1. content # None /\ UNCHANGED <<family, read, result>> BY <1>4 DEF V!OthersWrite
  <2>2. PICK new \in V!Written(setter[1], setter[2]) : V!Becomes(new) BY <1>4 DEF V!OthersWrite
  <2>3. Fits(new) BY <2>1, WrittenFits
  <2> QED BY <2>1, <2>2, <2>3, BecomesKeeps
<1>5. CASE V!Check \/ V!Missing \/ V!WriteFails
  BY <1>5, CallGoesOn DEF V!Check, V!Missing, V!WriteFails, V!Setting, V!End
<1>6. CASE V!OthersRmdir BY <1>6, BecomesKeeps DEF V!OthersRmdir
<1>7. CASE V!OthersMkdir
  <2>1. Fits(V!Fresh[family]) BY FreshFits DEF ControlInv
  <2> QED BY <1>7, <2>1, BecomesKeeps DEF V!OthersMkdir
<1> QED
  BY <1>1, <1>2, <1>3, <1>4, <1>5, <1>6, <1>7, ReadKeeps, WriteKeeps, KernelKeeps DEF V!Next

LEMMA ControlTyped == ASSUME ControlInv PROVE V!TypeOK
<1>1. family \in V!Family /\ read.step \in {"idle", "check", "open"} /\ (content # None => Fits(content))
  BY DEF ControlInv
<1>2. Fits(V!Fresh[family]) BY FreshFits DEF ControlInv
<1>3. \A c : Fits(c) => DOMAIN c = IF family = "memory" THEN {"limit", "usage", "max_usage", "failcnt"}
                                  ELSE IF family = "charge" THEN {"mask"}
                                  ELSE IF family = "oom" THEN {"oom_kill_disable", "under_oom"}
                                  ELSE {"user", "system"}
  BY <1>1 DEF Fits, V!Family
<1> QED BY <1>1, <1>2, <1>3 DEF Fits, V!TypeOK

LEMMA ControlReads == ASSUME ControlInv PROVE V!ReadIsCurrent
<1> SUFFICES ASSUME read.step = "idle", result # None
             PROVE \E c \in seen \ {None} : V!Was(c)
  BY DEF V!ReadIsCurrent
<1>1. PICK c \in seen \ {None} : result = V!Value(read.call, c) BY DEF ControlInv, CallInv
<1>2. Fits(c) BY DEF ControlInv
<1>3. family \in V!Family /\ read.call \in V!Getter[family] BY DEF ControlInv, CallInv
<1>4. CASE read.call = "config"
  <2>1. family = "charge" BY <1>3, <1>4, CallsAre DEF V!Family
  <2>2. c.mask \in 0..3 BY <1>2, <2>1 DEF Fits
  <2>3. V!Mask(result) = c.mask BY <1>1, <1>4, <2>2, MaskComesBack DEF V!Value
  <2> QED BY <1>4, <2>3 DEF V!Was
<1>5. CASE read.call = "stat"
  <2>1. family = "cpuacct" BY <1>3, <1>5, CallsAre DEF V!Family
  <2>2. c.user \in Nat /\ c.system \in Nat BY <1>2, <2>1 DEF Fits
  <2>3. result.user = V!countToUnits(c.user) /\ result.system = V!countToUnits(c.system)
    BY <1>1, <1>5 DEF V!Value, V!stat
  <2> QED BY <1>5, <2>2, <2>3, CountIsExact DEF V!Was
<1>6. CASE read.call \notin {"config", "stat"}
  BY <1>1, <1>6 DEF V!Value, V!parseKVFile, V!Was
<1> QED BY <1>4, <1>5, <1>6

-----------------------------------------------------------------------------
(* SystemInfo and MultipleControlGroup *)

SP == INSTANCE SystemInfoProofs WITH Id <- HierId
GP == INSTANCE MultipleControlGroupProofs WITH alive <- multiple, made <- created, Object <- Multiple,
                                         Name <- ChildName

\* The modules of the proofs extend the components: their definitions are those
\* of the components.
LEMMA CatalogueInitSame == S!Init <=> SP!Init
BY DEF S!Init, S!Empty, SP!Init, SP!Empty

LEMMA CatalogueNextSame == S!Next <=> SP!Next
BY DEF S!Next, S!Kernel, S!Begin, S!LoadHierarchies, S!LoadMountpoints, S!Store, S!Got,
       S!Visit, S!MakeSingle, S!Return, S!Drop, S!Mount, S!Unmount, S!NeedsLoad, S!Goto,
       S!kernel, S!live, S!Empty, S!SubsystemsOf, S!IdOf, S!Entries, S!Consistent, S!MountsOf,
       S!Shown, S!EntryId, S!Throw, S!Finish, S!ids, S!Make, S!Changed, S!threads, S!Pointed,
       S!ProcSelfCgroup, S!Known, SP!Next, SP!Kernel, SP!Begin, SP!LoadHierarchies,
       SP!LoadMountpoints, SP!Store, SP!Got, SP!Visit, SP!MakeSingle, SP!Return, SP!Drop,
       SP!Mount, SP!Unmount, SP!NeedsLoad, SP!Goto, SP!kernel, SP!live, SP!Empty,
       SP!SubsystemsOf, SP!IdOf, SP!Entries, SP!Consistent, SP!MountsOf, SP!Shown, SP!EntryId,
       SP!Throw, SP!Finish, SP!ids, SP!Make, SP!Changed, SP!threads, SP!Pointed,
       SP!ProcSelfCgroup, SP!Known

LEMMA CataloguePropertiesSame == 
    /\ (S!CatalogueTrue <=> SP!CatalogueTrue)
    /\ (S!AskedFor <=> SP!AskedFor)
    /\ (S!Stable <=> SP!Stable)
BY DEF S!CatalogueTrue, S!AskedFor, S!Stable, S!live, S!Pointed, SP!CatalogueTrue, SP!AskedFor,
       SP!Stable, SP!live, SP!Pointed

LEMMA GroupsInitSame == G!Init <=> GP!Init
BY DEF G!Init, G!Empty, G!NoPaths, G!Single, G!Idle, GP!Init, GP!Empty, GP!NoPaths, GP!Single,
       GP!Idle

LEMMA GroupsNextSame == G!Next <=> GP!Next
BY DEF G!Next, G!Others, G!Release, G!held, G!Unite, G!Add, G!Replace, G!Remove, G!FieldPath,
       G!Parent, G!BeginChild, G!Begin, G!AttachOne, G!CreateOne, G!SetOne, G!GetOne,
       G!ChildFails, G!ChildDone, G!FieldFails, G!FieldDone, G!Single, G!Occupy, G!Vacate,
       G!OthersMake, G!OthersRemove, G!objects, G!Ready, G!Assign, G!Empty, G!NoPaths,
       G!Members, G!groups, G!Edit, G!Found, G!Hiers, G!At, G!Put, G!Next1, G!Group, G!Agrees,
       G!Value, G!Rollback, G!Done, G!DirsWithout, G!Idle, GP!Next, GP!Others, GP!Release,
       GP!held, GP!Unite, GP!Add, GP!Replace, GP!Remove, GP!FieldPath, GP!Parent,
       GP!BeginChild, GP!Begin, GP!AttachOne, GP!CreateOne, GP!SetOne, GP!GetOne,
       GP!ChildFails, GP!ChildDone, GP!FieldFails, GP!FieldDone, GP!Single, GP!Occupy,
       GP!Vacate, GP!OthersMake, GP!OthersRemove, GP!objects, GP!Ready, GP!Assign, GP!Empty,
       GP!NoPaths, GP!Members, GP!groups, GP!Edit, GP!Found, GP!Hiers, GP!At, GP!Put, GP!Next1,
       GP!Group, GP!Agrees, GP!Value, GP!Rollback, GP!Done, GP!DirsWithout, GP!Idle

LEMMA GroupsPropertiesSame == 
    /\ (G!CacheIsCurrent <=> GP!CacheIsCurrent)
    /\ (G!GroupsNothingLeft <=> GP!GroupsNothingLeft)
    /\ (G!AnswerTrue <=> GP!AnswerTrue)
BY DEF G!CacheIsCurrent, G!GroupsNothingLeft, G!AnswerTrue, G!Members, G!Hiers, G!Value,
       G!Group, GP!CacheIsCurrent, GP!GroupsNothingLeft, GP!AnswerTrue, GP!Members, GP!Hiers,
       GP!Value, GP!Group

LEMMA SetsSame ==
    /\ (G!Sets!Init <=> GP!Sets!Init)
    /\ (G!Sets!Next <=> GP!Sets!Next)
    /\ ((UNCHANGED G!Sets!vars) <=> (UNCHANGED GP!Sets!vars))
<1>1. G!Sets!Init <=> GP!Sets!Init
  BY DEF G!Sets!Init, G!sets, G!created, G!Members, GP!Sets!Init, GP!sets, GP!created,
         GP!Members
<1>2. G!Sets!Next <=> GP!Sets!Next
  BY DEF G!Sets!Next, G!Sets!Held, G!Sets!Unite, G!Sets!Make, G!Sets!Becomes,
         G!Sets!Change, G!Sets!Release, G!Sets!Same, G!Sets!Add, G!Sets!Replace,
         G!Sets!Remove, G!Sets!Called, G!Sets!AllRoots, G!Sets!Parent,
         G!Sets!AttachChild, G!Sets!CreateChild, G!sets, G!created, G!Members,
         GP!Sets!Next, GP!Sets!Held, GP!Sets!Unite, GP!Sets!Make, GP!Sets!Becomes,
         GP!Sets!Change, GP!Sets!Release, GP!Sets!Same, GP!Sets!Add, GP!Sets!Replace,
         GP!Sets!Remove, GP!Sets!Called, GP!Sets!AllRoots, GP!Sets!Parent,
         GP!Sets!AttachChild, GP!Sets!CreateChild, GP!sets, GP!created, GP!Members
<1>3. (UNCHANGED G!Sets!vars) <=> (UNCHANGED GP!Sets!vars)
  BY DEF G!Sets!vars, G!sets, G!created, G!Members, GP!Sets!vars, GP!sets, GP!created,
         GP!Members
<1> QED BY <1>1, <1>2, <1>3

LEMMA TypesSame == (S!TypeOK <=> SP!TypeOK) /\ (G!TypeOK <=> GP!TypeOK)
BY DEF S!TypeOK, S!Maps, SP!TypeOK, SP!Maps, G!TypeOK, G!Single, GP!TypeOK, GP!Single

LEMMA VariablesSame ==
    /\ UNCHANGED sv => UNCHANGED SP!vars
    /\ UNCHANGED gv => UNCHANGED GP!vars
BY DEF sv, gv, SP!vars, SP!kernel, SP!threads, GP!vars, GP!objects, GP!groups

LEMMA ConstantsSame == SP!Constants /\ GP!Constants
BY CatalogueAssumption, GroupsAssumption DEF SP!Constants, GP!Constants

-----------------------------------------------------------------------------
(* All components *)

PartsInv ==
    /\ Owned
    /\ part = "DynamicLoader" => LoaderInv
    /\ part = "Credentials" => IdsInv
    /\ part = "MountTable" => ConvInv /\ ListInv
    /\ part = "FileSystem" => FileInv
    /\ part = "ControlFiles" => ControlInv
    /\ part = "SystemInfo" => SP!Inv /\ (SP!OneThread => SP!Alone)
    /\ part = "MultipleControlGroup" => GP!Inv

pv == <<part, vars, lv, cv, tv, fv, vv, sv, gv>>

\* A step is one of the component that the behaviour is of.
LEMMA PartSteps ==
    ASSUME [PartsNext]_pv
    PROVE /\ part' = part /\ [Next]_vars
          /\ part = "DynamicLoader" => [L!Next]_lv
          /\ part = "Credentials" => [C!Next]_cv
          /\ part = "MountTable" => [T!Next]_tv
          /\ part = "FileSystem" => [F!Next]_fv
          /\ part = "ControlFiles" => [V!Next]_vv
          /\ part = "SystemInfo" => [S!Next]_sv
          /\ part = "MultipleControlGroup" => [G!Next]_gv
<1>1. CASE UNCHANGED pv BY <1>1 DEF pv
<1>2. CASE PartsNext BY <1>2 DEF PartsNext
<1> QED BY <1>1, <1>2

\* Those of the components with proofs of their own are steps there.
LEMMA PartStepsSame ==
    ASSUME [PartsNext]_pv
    PROVE /\ part = "SystemInfo" => [SP!Next]_(SP!vars)
          /\ part = "MultipleControlGroup" => [GP!Next]_(GP!vars)
BY PartSteps, CatalogueNextSame, GroupsNextSame, VariablesSame

LEMMA PartsInitInv == ASSUME PartsInit PROVE PartsInv
<1>1. Owned BY InitOwned DEF PartsInit
<1>2. part = "DynamicLoader" => LoaderInv BY LoaderInit DEF PartsInit
<1>3. part = "Credentials" => IdsInv BY IdsInit DEF PartsInit
<1>4. part = "MountTable" => ConvInv /\ ListInv BY ConvInit, ListInit DEF PartsInit
<1>5. part = "FileSystem" => FileInv BY FileInit DEF PartsInit
<1>6. part = "ControlFiles" => ControlInv BY ControlInit DEF PartsInit
<1>7. part = "SystemInfo" => SP!Inv /\ SP!Alone
  BY CatalogueInitSame, ConstantsSame, SP!InitInv, SP!InitAlone DEF PartsInit
<1>8. part = "MultipleControlGroup" => GP!Inv
  BY GroupsInitSame, ConstantsSame, GP!InitInv DEF PartsInit
<1> QED BY <1>1, <1>2, <1>3, <1>4, <1>5, <1>6, <1>7, <1>8 DEF PartsInv

LEMMA PartsNextInv == ASSUME PartsInv, [PartsNext]_pv PROVE PartsInv'
<1>1. part' = part BY PartSteps
<1>2. Owned' BY PartSteps, NextOwned DEF PartsInv
<1>3. part = "DynamicLoader" => LoaderInv' BY PartSteps, LoaderNext DEF PartsInv
<1>4. part = "Credentials" => IdsInv' BY PartSteps, IdsNext DEF PartsInv
<1>5. part = "MountTable" => ConvInv' /\ ListInv' BY PartSteps, ConvNext, ListNext DEF PartsInv
<1>6. part = "FileSystem" => FileInv' BY PartSteps, FileNext DEF PartsInv
<1>7. part = "ControlFiles" => ControlInv' BY PartSteps, ControlNext DEF PartsInv
<1>8. part = "SystemInfo" => SP!Inv' /\ (SP!OneThread => SP!Alone')
  BY PartStepsSame, ConstantsSame, SP!NextInv, SP!NextAlone DEF PartsInv
<1>9. part = "MultipleControlGroup" => GP!Inv'
  BY PartStepsSame, ConstantsSame, GP!NextInv DEF PartsInv
<1>10. SP!OneThread' <=> SP!OneThread BY DEF SP!OneThread
<1> QED BY <1>1, <1>2, <1>3, <1>4, <1>5, <1>6, <1>7, <1>8, <1>9, <1>10 DEF PartsInv

LEMMA PartsInvariant == PartsSpec => []PartsInv
<1>1. PartsInit => PartsInv BY PartsInitInv
<1>2. PartsInv /\ [PartsNext]_pv => PartsInv' BY PartsNextInv
<1> QED BY <1>1, <1>2, PTL DEF PartsSpec, pv

-----------------------------------------------------------------------------
(* What a component promises *)

\* The variables of every component have their types: a text is made of bytes, no
\* library has more references than the loader counts, an id is a user's, and a
\* group's usage is within its limit (all of unistd/ and cgroup/ that Parts models).
THEOREM PartsAreTyped == PartsSpec => []PartsTypeOK
<1>1. ASSUME PartsInv PROVE PartsTypeOK
  <2>1. TypeOK BY <1>1 DEF PartsInv, Owned
  <2>2. part = "DynamicLoader" => L!TypeOK BY <1>1 DEF PartsInv, LoaderInv
  <2>3. part = "Credentials" => C!TypeOK BY <1>1 DEF PartsInv, IdsInv, IdsTyped, C!TypeOK
  <2>4. part = "MountTable" => T!TypeOK BY <1>1, MountTyped DEF PartsInv
  <2>5. part = "FileSystem" => F!TypeOK BY <1>1 DEF PartsInv, FileInv, F!TypeOK
  <2>6. part = "ControlFiles" => V!TypeOK BY <1>1, ControlTyped DEF PartsInv
  <2>7. part = "SystemInfo" => S!TypeOK BY <1>1, TypesSame DEF PartsInv, SP!Inv
  <2>8. part = "MultipleControlGroup" => G!TypeOK BY <1>1, TypesSame DEF PartsInv, GP!Inv
  <2> QED BY <2>1, <2>2, <2>3, <2>4, <2>5, <2>6, <2>7, <2>8 DEF PartsTypeOK
<1> QED BY <1>1, PartsInvariant, PTL

\* A descriptor number has one owner, so that no close(2) of an object hits a file
\* that somebody else has opened under a reused number, and no number leaks through
\* moves, swaps and assignments (unistd/Descriptor.cpp:22-54).
THEOREM NumbersHaveOneOwner == PartsSpec => []OwnedOnce
<1>1. PartsInv => OwnedOnce BY DEF PartsInv, Owned, OwnedOnce
<1> QED BY <1>1, PartsInvariant, PTL

\* Every reference that dlopen(3) gave is an object's, other code's, or lost by a
\* refused constructor, until a program meets close()'s stale handle
\* (unistd/DynamicLoader.cpp:17-75).
THEOREM LoaderAccounted == PartsSpec => []Accounted
<1>1. PartsInv => Accounted BY LoaderCounts DEF PartsInv, Accounted
<1> QED BY <1>1, PartsInvariant, PTL

\* After dropId from root to a user no later call of any wrapper changes the ids
\* (unistd/access/Operations.cpp:26-30 with the order of its two calls).
THEOREM PrivilegesAreGone == PartsSpec => []DroppedForGood
<1>1. PartsInv => DroppedForGood BY DEF PartsInv, IdsInv, DroppedForGood
<1> QED BY <1>1, PartsInvariant, PTL

\* dropId called with root's privileges is never refused half way
\* (unistd/access/Operations.hpp:23-26).
THEOREM RootIsNotRefused == PartsSpec => []RootMayDrop
<1>1. PartsInv => RootMayDrop BY DEF PartsInv, IdsInv, RootMayDrop
<1> QED BY <1>1, PartsInvariant, PTL

\* The text of a mount entry gives the entry back, for every device, directory and
\* options and with white space around the line, except for a device that begins
\* with what trim_copy() removes and escape() leaves (unistd/MountEntry.cpp:17-104);
\* a list that is loaded after a save has no more entries than were saved, and their
\* numbers in their order when every line of the file holds six texts that are not
\* empty and begins with no #: whatever uninitialised pointers point to, and
\* wherever the file ends (unistd/Fstab.cpp:23-64).
THEOREM WrittenComesBack == PartsSpec => []WrittenIsRead
<1>1. PartsInv => WrittenIsRead BY MountReturns DEF PartsInv, WrittenIsRead
<1> QED BY <1>1, PartsInvariant, PTL

\* A predicate of FileStatus is true of its own kind, a directory is taken for no
\* pipe, terminal, file or link, and what isFifo() says is so
\* (unistd/FileStatus.cpp:14-40).
THEOREM KindsAreSeen == PartsSpec => []KindsSeen
<1>1. PartsInv => KindsSeen BY FileKinds DEF PartsInv, KindsSeen
<1> QED BY <1>1, PartsInvariant, PTL

\* A value that a getter returns was the file's at one moment of the call, although
\* the file is looked at first, opened later and written by others meanwhile
\* (cgroup/ControlGroup.cpp:45-84); the two times of CpuAccounting::stat are of one
\* moment, and their conversion loses nothing before the product leaves the range
\* of Count (cgroup/CpuAccounting.cpp:17-32).
THEOREM ReadsAreCurrent == PartsSpec => []ReadIsCurrent
<1>1. PartsInv => ReadIsCurrent BY ControlReads DEF PartsInv, ReadIsCurrent
<1> QED BY <1>1, PartsInvariant, PTL

\* A catalogue of SystemInfo that nothing has changed under says what the kernel
\* says, with its two files read one after the other (cgroup/SystemInfo.cpp:68-80).
THEOREM CatalogueIsTrue == PartsSpec => []CatalogueTrue
<1>1. PartsInv => CatalogueTrue BY CataloguePropertiesSame, ConstantsSame, SP!InvTrue DEF PartsInv, CatalogueTrue
<1> QED BY <1>1, PartsInvariant, PTL

\* A group that one thread opens lies in a hierarchy of the subsystem it was asked
\* for.  With a second thread the hierarchy may be looked up in one catalogue and
\* the group made from the next.
THEOREM AskedForIsFound ==
    ASSUME SP!OneThread
    PROVE PartsSpec => []AskedFor
<1>1. PartsInv => AskedFor BY CataloguePropertiesSame, ConstantsSame, SP!AloneAskedFor DEF PartsInv, AskedFor
<1> QED BY <1>1, PartsInvariant, PTL

\* With one thread instance() twice is the same object unless an update is forced
\* (cgroup/SystemInfo.cpp:138-146, tests/cgroup.cpp:25-32).
THEOREM CatalogueIsStable ==
    ASSUME SP!OneThread
    PROVE PartsSpec => StableUnlessForced
<1>1. PartsInv /\ [PartsNext]_pv => [part = "SystemInfo" => S!Stable]_<<part, sv>>
  BY PartStepsSame, CataloguePropertiesSame, ConstantsSame, SP!AloneStable DEF PartsInv
<1> QED BY <1>1, PartsInvariant, PTL DEF PartsSpec, StableUnlessForced, pv

\* No call leaves a remembered path to a group that the object no longer has
\* (fieldName2path_ in cgroup/MultipleControlGroup.cpp).
THEOREM CacheNeverStale == PartsSpec => []CacheIsCurrent
<1>1. PartsInv => CacheIsCurrent BY GroupsPropertiesSame DEF PartsInv, GP!Inv, CacheIsCurrent
<1> QED BY <1>1, PartsInvariant, PTL

\* A directory the program made has an object that will remove it, also after a
\* createChild that failed in a later hierarchy (cgroup/MultipleControlGroup.cpp).
THEOREM FailureIsUndone == PartsSpec => []GroupsNothingLeft
<1>1. PartsInv => GroupsNothingLeft BY GroupsPropertiesSame, GP!InvNothingLeft DEF PartsInv, GroupsNothingLeft
<1> QED BY <1>1, PartsInvariant, PTL

\* A getter returns what every group of the object has, if nobody interfered
\* (foldFields, cgroup/MultipleControlGroup.cpp:108-128).
THEOREM GetterIsTrue == PartsSpec => []AnswerTrue
<1>1. PartsInv => AnswerTrue BY GroupsPropertiesSame, GP!InvAnswerTrue DEF PartsInv, AnswerTrue
<1> QED BY <1>1, PartsInvariant, PTL

\* To the program an object is a set of groups and a call one step, whatever
\* happens between the hierarchies (cgroup/MultipleControlGroup.cpp:40-80, 168-209).
THEOREM GroupsActLikeSets == PartsSpec => ActsLikeSets
<1>1. PartsInit => (part = "MultipleControlGroup" => G!Sets!Init)
  BY GroupsInitSame, SetsSame, GP!InitActs DEF PartsInit
<1>2. PartsInv /\ [PartsNext]_pv =>
        [part = "MultipleControlGroup" => UNCHANGED G!Sets!vars \/ G!Sets!Next]_<<part, gv>>
  BY PartStepsSame, SetsSame, ConstantsSame, GP!NextActs DEF PartsInv
<1> QED BY <1>1, <1>2, PartsInvariant, PTL DEF PartsSpec, ActsLikeSets, pv
================================================================================
