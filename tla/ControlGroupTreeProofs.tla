----------------------- MODULE ControlGroupTreeProofs -----------------------
(* Proofs about ControlGroupTree, for any threads, objects, names and bounds. *)
EXTENDS ControlGroupTree, SequenceTheorems, TLAPS

-----------------------------------------------------------------------------
(* Paths *)

LEMMA PathIsSeq == Path \subseteq Seq(Name)
BY DEF Path

LEMMA RootIsPath == <<>> \in Path
<1>1. <<>> \in [1..0 -> Name] OBVIOUS
<1>2. 0 \in 0..MaxDepth BY BoundAssumption
<1> QED BY <1>1, <1>2 DEF Path

LEMMA PathAppend ==
    ASSUME NEW p \in Path, NEW n \in Name, Len(Append(p, n)) <= MaxDepth
    PROVE Append(p, n) \in Path
<1>1. p \in Seq(Name) BY PathIsSeq
<1>2. Append(p, n) \in Seq(Name) /\ Len(Append(p, n)) = Len(p) + 1
  BY <1>1
<1>3. Len(p) + 1 \in 0..MaxDepth BY <1>1, <1>2, BoundAssumption
<1>4. Append(p, n) \in [1..Len(Append(p, n)) -> Name] BY <1>2, LenProperties
<1> QED BY <1>2, <1>3, <1>4 DEF Path

LEMMA LastAppend ==
    ASSUME NEW p \in Path, NEW n \in Name
    PROVE Last(Append(p, n)) = n /\ Append(p, n) # <<>>
<1>1. p \in Seq(Name) BY PathIsSeq
<1>2. Len(Append(p, n)) = Len(p) + 1 /\ Append(p, n)[Len(p) + 1] = n BY <1>1
<1> QED BY <1>1, <1>2 DEF Last

-----------------------------------------------------------------------------
(* Types *)

\* A created object waits for its configuration in the middle of createChild.
InCall == \A t \in Thread : fresh[t] # None =>
    op[t] = "create" /\ rest[t] # <<>> /\ Component(t) \in Name

Typed == TypeOK /\ InCall

LEMMA InitTyped == Init => Typed
<1> SUFFICES ASSUME Init PROVE Typed OBVIOUS
<1>1. handles \in [Object -> Nat] BY DEF Init
<1>2. <<>> \in Seq(Name \union {".", ".."}) OBVIOUS
<1> QED BY <1>1, <1>2, RootIsPath DEF Init, Typed, TypeOK, InCall

LEMMA SystemTyped == ASSUME Typed, System PROVE Typed'
<1> USE DEF Typed, TypeOK, InCall, Component, objects, calls
<1>1. ASSUME NEW p \in dirs, Occupy(p) PROVE Typed' BY <1>1 DEF Occupy
<1>2. ASSUME NEW p \in dirs, Vacate(p) PROVE Typed' BY <1>2 DEF Vacate
<1>3. ASSUME NEW p \in dirs, OthersRmdir(p) PROVE Typed'
  BY <1>3 DEF OthersRmdir, Creators, alive
<1>4. ASSUME NEW p \in Path \ {<<>>}, OthersMkdir(p) PROVE Typed' BY <1>4 DEF OthersMkdir
<1> QED BY <1>1, <1>2, <1>3, <1>4 DEF System

\* The object a call has got to, and the component it looks at.
LEMMA SteppingTyped ==
    ASSUME Typed, NEW t \in Thread, rest[t] # <<>>, op[t] # "idle"
    PROVE /\ cur[t] \in Object /\ path[cur[t]] \in Path
          /\ Component(t) \in Name \union {".", ".."}
          /\ Tail(rest[t]) \in Seq(Name \union {".", ".."})
BY DEF Typed, TypeOK, Component

\* The loop goes on with another object, or the call is over.
LEMMA AdvanceTyped ==
    ASSUME Typed, NEW t \in Thread, rest[t] # <<>>, op[t] # "idle", NEW o \in Object,
           Advance(t, o)
    PROVE /\ op' \in [Thread -> {"idle", "attach", "create"}]
          /\ cur' \in [Thread -> Object \union {None}]
          /\ \A s \in Thread : cur'[s] = None <=> op'[s] = "idle"
          /\ rest' \in [Thread -> Seq(Name \union {".", ".."})]
          /\ \A s \in Thread \ {t} : rest'[s] = rest[s] /\ op'[s] = op[s] /\ cur'[s] = cur[s]
BY SteppingTyped, NoneAssumption DEF Advance, Typed, TypeOK

LEMMA ThrowTyped ==
    ASSUME Typed, NEW t \in Thread, Throw(t)
    PROVE /\ op' \in [Thread -> {"idle", "attach", "create"}]
          /\ cur' \in [Thread -> Object \union {None}]
          /\ \A s \in Thread : cur'[s] = None <=> op'[s] = "idle"
          /\ rest' \in [Thread -> Seq(Name \union {".", ".."})]
          /\ \A s \in Thread \ {t} : rest'[s] = rest[s] /\ op'[s] = op[s] /\ cur'[s] = cur[s]
BY DEF Throw, Typed, TypeOK

LEMMA DestroyTyped == ASSUME Typed, NEW t \in Thread, Destroy(t) PROVE Typed'
<1> USE DEF Typed, TypeOK, InCall, Component, calls
<1> PICK o \in alive :
      /\ dirs' = DirsAfter(o)
      /\ lost' = (lost \union IF o \in lost /\ dirs' # dirs THEN Creators(path[o]) ELSE {}) \ {o}
      /\ kept' = (kept \union IF created[o] /\ Excused(o) THEN {path[o]} ELSE {}) \intersect dirs'
      /\ child' = [Erased(o) EXCEPT ![o] = [n \in Name |-> None]]
      /\ owner' = [owner EXCEPT ![o] = None]
      /\ path' = [path EXCEPT ![o] = <<>>]
      /\ parent' = [parent EXCEPT ![o] = None]
      /\ created' = [created EXCEPT ![o] = FALSE]
      /\ UNCHANGED <<busy, handles, calls>>
  BY DEF Destroy
<1>1. o \in Object /\ dirs' \in SUBSET Path BY DEF DirsAfter, alive
<1>2. lost' \in SUBSET Object BY <1>1 DEF Creators, alive
<1>3. kept' \in SUBSET Path BY <1>1
<1>4. Erased(o) \in [Object -> [Name -> Object \union {None}]] BY DEF Erased
<1>5. child' \in [Object -> [Name -> Object \union {None}]] BY <1>1, <1>4
<1> QED BY <1>1, <1>2, <1>3, <1>5, RootIsPath
LEMMA EntryTyped ==
    ASSUME Typed, NEW t \in Thread, NEW o \in Object, Enter(t, o)
    PROVE child' \in [Object -> [Name -> Object \union {None}]]
BY DEF Enter, Typed, TypeOK

LEMMA AllocateTyped ==
    ASSUME Typed, NEW t \in Thread, NEW o \in Object, NEW p \in Path,
           NEW up \in Object \union {None}, NEW b \in BOOLEAN, Allocate(o, t, p, up, b)
    PROVE /\ owner' \in [Object -> Thread \union {None}] /\ path' \in [Object -> Path]
          /\ parent' \in [Object -> Object \union {None}] /\ created' \in [Object -> BOOLEAN]
BY DEF Allocate, Typed, TypeOK

\* Calls of the program that move no loop.
LEMMA ProgramTyped ==
    ASSUME Typed, NEW t \in Thread,
           \/ Root(t) \/ Return(t)
           \/ \E o \in Object : Release(t, o) \/ Parent(t, o)
           \/ \E o \in Object, kind \in {"attach", "create"}, request \in Request :
                 Call(t, o, kind, request)
    PROVE Typed'
<1> USE NoneAssumption, BoundAssumption
    DEF Typed, TypeOK, InCall, Component, Idle, files, objects, calls
<1>1. CASE Root(t)
  <2>1. handles' \in [Object -> Nat] BY <1>1 DEF Root
  <2> QED BY <1>1, <2>1, RootIsPath DEF Root, Allocate
<1>2. CASE Return(t)
  <2>1. /\ op[t] # "idle" /\ rest[t] = <<>> /\ cur[t] \in Object
        /\ handles' = [handles EXCEPT ![cur[t]] = @ + 1]
    BY <1>2 DEF Return
  <2>2. handles' \in [Object -> Nat] BY <2>1
  <2> QED BY <1>2, <2>1, <2>2 DEF Return
<1>3. ASSUME NEW o \in Object, Release(t, o) PROVE Typed'
  <2>1. handles' \in [Object -> Nat] BY <1>3 DEF Release
  <2> QED BY <1>3, <2>1 DEF Release
<1>4. ASSUME NEW o \in Object, Parent(t, o) PROVE Typed'
  <2>1. parent[o] \in Object BY <1>4 DEF Parent
  <2>2. handles' \in [Object -> Nat] BY <1>4, <2>1 DEF Parent
  <2> QED BY <1>4, <2>2 DEF Parent
<1>5. ASSUME NEW o \in Object, NEW kind \in {"attach", "create"}, NEW request \in Request,
             Call(t, o, kind, request)
      PROVE Typed'
  <2>1. request \in Seq(Name \union {".", ".."}) BY RequestAssumption
  <2>2. fresh[t] = None BY <1>5 DEF Call
  <2>3. /\ op' = [op EXCEPT ![t] = kind] /\ cur' = [cur EXCEPT ![t] = o]
        /\ rest' = [rest EXCEPT ![t] = request]
        /\ UNCHANGED <<dirs, busy, lost, kept, owner, path, parent, created, child, handles, fresh>>
    BY <1>5 DEF Call
  <2>4. InCall' BY <2>2, <2>3
  <2>5. \A s \in Thread : cur'[s] = None <=> op'[s] = "idle" BY <2>3
  <2>6. TypeOK' BY <2>1, <2>3, <2>5
  <2> QED BY <2>4, <2>6
<1> QED BY <1>1, <1>2, <1>3, <1>4, <1>5, SMTT(30)

LEMMA LoopTyped ==
    ASSUME Typed, NEW t \in Thread,
           \/ AttachDots(t) \/ AttachKnown(t) \/ AttachNew(t) \/ CreateRefused(t)
           \/ MkdirFails(t)
    PROVE Typed'
<1> USE DEF Typed, TypeOK, InCall, Component, files, objects
<1>1. /\ rest[t] # <<>> /\ op[t] # "idle" /\ fresh[t] = None /\ cur[t] \in Object
      /\ UNCHANGED <<handles, fresh, files>>
  BY DEF AttachDots, AttachKnown, AttachNew, CreateRefused, MkdirFails, Stepping
<1>2. ASSUME NEW o \in Object, Advance(t, o),
             owner' \in [Object -> Thread \union {None}], path' \in [Object -> Path],
             parent' \in [Object -> Object \union {None}], created' \in [Object -> BOOLEAN],
             child' \in [Object -> [Name -> Object \union {None}]]
      PROVE Typed'
  BY <1>1, <1>2, AdvanceTyped
<1>3. ASSUME Throw(t), UNCHANGED <<owner, path, parent, created>>,
             child' \in [Object -> [Name -> Object \union {None}]]
      PROVE Typed'
  BY <1>1, <1>3, ThrowTyped
<1>4. CASE AttachDots(t)
  <2>1. Up(t) \in Object BY <1>1 DEF Up
  <2> QED BY <1>1, <1>2, <1>4, <2>1 DEF AttachDots
<1>5. CASE AttachKnown(t)
  <2>1. child[cur[t]][Component(t)] \in Object BY <1>1, <1>5 DEF AttachKnown
  <2> QED BY <1>2, <1>5, <2>1 DEF AttachKnown
<1>6. CASE AttachNew(t)
  <2>1. ASSUME IsDirectory(t), NEW o \in Object, Allocate(o, t, Below(t), cur[t], FALSE),
               Enter(t, o), Advance(t, o)
        PROVE Typed'
    <3>1. Below(t) \in Path BY <2>1 DEF IsDirectory
    <3>2. child' \in [Object -> [Name -> Object \union {None}]] BY <2>1, EntryTyped
    <3>3. /\ owner' \in [Object -> Thread \union {None}] /\ path' \in [Object -> Path]
          /\ parent' \in [Object -> Object \union {None}] /\ created' \in [Object -> BOOLEAN]
      BY <1>1, <2>1, <3>1, AllocateTyped
    <3> QED BY <1>2, <2>1, <3>2, <3>3
  <2>2. CASE IsDirectory(t) BY <1>6, <2>1, <2>2 DEF AttachNew
  <2>3. CASE ~IsDirectory(t)
    <3>1. EraseFailed(t) /\ Throw(t) /\ UNCHANGED <<owner, path, parent, created>>
      BY <1>6, <2>3 DEF AttachNew
    <3>2. child' \in [Object -> [Name -> Object \union {None}]] BY <3>1 DEF EraseFailed
    <3> QED BY <1>3, <3>1, <3>2
  <2> QED BY <2>2, <2>3
<1>7. CASE CreateRefused(t) BY <1>3, <1>7 DEF CreateRefused
<1>8. CASE MkdirFails(t) BY <1>3, <1>8 DEF MkdirFails, EraseFailed
<1> QED BY <1>4, <1>5, <1>6, <1>7, <1>8

LEMMA CreateTyped ==
    ASSUME Typed, NEW t \in Thread, Mkdir(t) \/ ConfigureCpuSet(t) \/ ConfigureFails(t)
    PROVE Typed'
<1> USE DEF Typed, TypeOK, InCall, Component, files, objects
<1>1. CASE Mkdir(t)
  <2> PICK o \in Object :
        /\ Allocate(o, t, Below(t), cur[t], TRUE)
        /\ IF CpuSet
           THEN fresh' = [fresh EXCEPT ![t] = o] /\ UNCHANGED <<child, cur, rest, op>>
           ELSE Enter(t, o) /\ Advance(t, o) /\ UNCHANGED fresh
    BY <1>1 DEF Mkdir
  <2>1. /\ rest[t] # <<>> /\ op[t] = "create" /\ fresh[t] = None /\ cur[t] \in Object
        /\ Component(t) \in Name /\ Len(Below(t)) <= MaxDepth
        /\ dirs' = dirs \union {Below(t)} /\ UNCHANGED <<busy, lost, kept, handles>>
    BY <1>1 DEF Mkdir, Stepping
  <2>2. Below(t) \in Path BY <2>1, PathAppend DEF Below
  <2>5. /\ owner' \in [Object -> Thread \union {None}] /\ path' \in [Object -> Path]
        /\ parent' \in [Object -> Object \union {None}] /\ created' \in [Object -> BOOLEAN]
    BY <2>1, <2>2, AllocateTyped
  <2>3. CASE CpuSet
    BY <2>1, <2>2, <2>5, <2>3
  <2>4. CASE ~CpuSet
    <3>1. child' \in [Object -> [Name -> Object \union {None}]] BY <2>4, EntryTyped
    <3>2. Advance(t, o) /\ UNCHANGED fresh BY <2>4
    <3>3. /\ op' \in [Thread -> {"idle", "attach", "create"}]
          /\ cur' \in [Thread -> Object \union {None}]
          /\ \A s \in Thread : cur'[s] = None <=> op'[s] = "idle"
          /\ rest' \in [Thread -> Seq(Name \union {".", ".."})]
          /\ \A s \in Thread \ {t} : rest'[s] = rest[s] /\ op'[s] = op[s]
      BY <2>1, <3>2, AdvanceTyped
    <3> QED BY <2>1, <2>2, <2>5, <3>1, <3>2, <3>3
  <2> QED BY <2>3, <2>4
<1>2. CASE ConfigureCpuSet(t)
  <2>1. fresh[t] \in Object /\ rest[t] # <<>> /\ op[t] # "idle"
    BY <1>2 DEF ConfigureCpuSet
  <2> QED BY <1>2, <2>1, AdvanceTyped DEF ConfigureCpuSet, Enter
<1>3. CASE ConfigureFails(t)
  BY <1>3, ThrowTyped DEF ConfigureFails
<1> QED BY <1>1, <1>2, <1>3

LEMMA NextTyped == Typed /\ [Next]_vars => Typed'
<1> SUFFICES ASSUME Typed, [Next]_vars PROVE Typed' OBVIOUS
<1>1. CASE UNCHANGED vars
  BY <1>1 DEF vars, files, objects, calls, Typed, TypeOK, InCall, Component
<1> QED
  BY <1>1, SystemTyped, DestroyTyped, ProgramTyped, LoopTyped, CreateTyped DEF Next, ThreadStep

\* Every reachable state is well typed, for paths of any depth.
THEOREM TypeCorrect == Spec => []TypeOK
BY InitTyped, NextTyped, PTL DEF Spec, Typed
-----------------------------------------------------------------------------
(* Pointers *)

\* Who points to whom: what is not allocated has neither pointers nor
\* children; parents, children, "current" and the object being configured are
\* live objects of the same thread, filed where children_ says.
Pointers ==
    /\ \A o \in Object \ alive : handles[o] = 0 /\ \A n \in Name : child[o][n] = None
    /\ \A o \in alive : parent[o] # None =>
          parent[o] \in alive /\ owner[parent[o]] = owner[o] /\ Last(path[o]) \in Name
    /\ \A p \in alive, n \in Name : child[p][n] # None =>
          /\ child[p][n] \in alive
          /\ parent[child[p][n]] = p
          /\ path[child[p][n]] = Append(path[p], n)
    /\ \A t \in Thread : cur[t] # None => cur[t] \in alive /\ owner[cur[t]] = t
    /\ \A t \in Thread : fresh[t] # None =>
          /\ fresh[t] \in alive /\ owner[fresh[t]] = t
          /\ parent[fresh[t]] = cur[t] /\ path[fresh[t]] = Below(t)
          /\ child[cur[t]][Component(t)] = None

\* An object that is not in children_ of its parent: one that is being
\* configured, or that its failed construction has left to be destroyed.
Unentered(o) ==
    o \in alive /\ parent[o] # None /\ child[parent[o]][Last(path[o])] # o
Entries == \A o \in Object : Unentered(o) =>
    /\ handles[o] = 0 /\ (\A t \in Thread : cur[t] # o) /\ (\A c \in alive : parent[c] # o)
    /\ child[parent[o]][Last(path[o])] = None
    /\ fresh[owner[o]] # None => fresh[owner[o]] = o

Tree == Pointers /\ Entries

LEMMA InitTree == Init => Tree
BY DEF Init, Tree, Pointers, Entries, Unentered, alive

\* What is filed in children_ is entered, and so is what has children, is held
\* by the program or is "current".
LEMMA FiledIsEntered ==
    ASSUME Typed, Tree, NEW p \in alive, NEW n \in Name, child[p][n] # None
    PROVE child[p][n] \in alive /\ owner[child[p][n]] = owner[p] /\ ~Unentered(child[p][n])
<1> DEFINE c == child[p][n]
<1>1. c \in alive /\ parent[c] = p /\ path[c] = Append(path[p], n) BY DEF Tree, Pointers
<1>2. p \in Object /\ path[p] \in Path BY DEF alive, Typed, TypeOK
<1>3. Last(path[c]) = n BY <1>1, <1>2, LastAppend
<1>4. parent[c] # None BY <1>1, <1>2, NoneAssumption
<1>5. owner[c] = owner[p] BY <1>1, <1>4 DEF Tree, Pointers
<1> QED BY <1>1, <1>3, <1>5 DEF Unentered

\* A thread that may start something new has no object outside children_.
LEMMA ReadyIsEntered ==
    ASSUME Typed, Tree, NEW t \in Thread, Ready(t), fresh[t] = None, NEW o \in Object,
           Unentered(o)
    PROVE owner[o] # t
<1> SUFFICES ASSUME owner[o] = t PROVE FALSE OBVIOUS
<1>1. o \in alive BY DEF Unentered
<1>2. ASSUME NEW s \in Thread, fresh[s] = o PROVE FALSE
  <2>1. o # None BY NoneAssumption
  <2>2. owner[o] = s BY <1>2, <2>1 DEF Tree, Pointers
  <2> QED BY <1>2, <2>1, <2>2
<1>3. Unreferenced(o) BY <1>2 DEF Tree, Entries, Unreferenced, Unheld
<1> QED BY <1>1, <1>3 DEF Ready, Destroying

\* Only the pointers of the program or of a loop change.
LEMMA SameObjects ==
    ASSUME Typed, Tree, UNCHANGED <<objects, fresh>>, UNCHANGED rest,
           \A o \in Object : handles'[o] # 0 => handles[o] # 0 \/ (o \in alive /\ ~Unentered(o)),
           \A t \in Thread : cur'[t] = cur[t]
    PROVE Tree'
<1> USE DEF Tree, objects
<1>1. alive' = alive /\ \A o \in Object : Unentered(o)' <=> Unentered(o)
  BY DEF alive, Unentered
<1>2. \A o \in Object : handles[o] # 0 => o \in alive
  BY DEF Pointers
<1>3. \A t \in Thread : Below(t)' = Below(t) /\ Component(t)' = Component(t)
  BY DEF Below, Component
<1>4. Pointers' BY <1>1, <1>2, <1>3 DEF Pointers
<1>5. Entries' BY <1>1, <1>2 DEF Entries
<1> QED BY <1>4, <1>5

\* The loop of a call moves: to an object that is entered, or away.
LEMMA LoopMoves ==
    ASSUME Typed, Tree, NEW t \in Thread, UNCHANGED objects, fresh'[t] = None,
           \A s \in Thread \ {t} : fresh'[s] = fresh[s] /\ cur'[s] = cur[s] /\ rest'[s] = rest[s],
           \A o \in Object : handles'[o] # 0 => handles[o] # 0 \/ (o \in alive /\ ~Unentered(o)),
           cur'[t] # None => cur'[t] \in alive /\ owner[cur'[t]] = t /\ ~Unentered(cur'[t])
    PROVE Tree'
<1> USE DEF Tree, objects
<1>1. alive' = alive /\ \A o \in Object : Unentered(o)' <=> Unentered(o)
  BY DEF alive, Unentered
<1>2. \A o \in Object : handles[o] # 0 => o \in alive
  BY DEF Pointers
<1>3. \A s \in Thread \ {t} : Below(s)' = Below(s) /\ Component(s)' = Component(s)
  BY DEF Below, Component
<1>4. Pointers' BY <1>1, <1>2, <1>3 DEF Pointers
<1>5. Entries'
  <2> SUFFICES ASSUME NEW o \in Object, Unentered(o)
               PROVE /\ handles'[o] = 0 /\ (\A s \in Thread : cur'[s] # o)
                     /\ (\A c \in alive : parent[c] # o)
                     /\ child[parent[o]][Last(path[o])] = None
                     /\ fresh'[owner[o]] # None => fresh'[owner[o]] = o
    BY <1>1 DEF Entries
  <2>1. \A s \in Thread : cur'[s] # o
    BY NoneAssumption DEF Entries
  <2>2. owner[o] \in Thread BY DEF Unentered, alive, Typed, TypeOK
  <2> QED BY <2>1, <2>2 DEF Entries
<1> QED BY <1>4, <1>5

LEMMA ProgramKeepsTree ==
    ASSUME Typed, Tree, NEW t \in Thread,
           \/ Return(t)
           \/ \E o \in Object : Release(t, o) \/ Parent(t, o)
           \/ \E o \in Object, kind \in {"attach", "create"}, request \in Request :
                 Call(t, o, kind, request)
    PROVE Tree'
<1> USE NoneAssumption DEF Typed, TypeOK
<1>1. CASE Return(t)
  <2>1. cur[t] \in alive /\ ~Unentered(cur[t]) /\ fresh[t] = None
    BY <1>1 DEF Return, Tree, Pointers, Entries, InCall, Unentered
  <2>2. /\ handles' = [handles EXCEPT ![cur[t]] = @ + 1] /\ cur' = [cur EXCEPT ![t] = None]
        /\ UNCHANGED <<objects, rest, fresh>>
    BY <1>1 DEF Return
  <2> QED BY <2>1, <2>2, LoopMoves
<1>2. ASSUME NEW o \in Object, Release(t, o) PROVE Tree'
  <2>1. /\ handles' = [handles EXCEPT ![o] = @ - 1] /\ handles[o] > 0
        /\ UNCHANGED <<objects, fresh, rest, cur>>
    BY <1>2 DEF Release, calls
  <2>2. \A q \in Object : handles'[q] # 0 => handles[q] # 0 BY <2>1
  <2> QED BY <2>1, <2>2, SameObjects
<1>3. ASSUME NEW o \in Object, Parent(t, o) PROVE Tree'
  <2>1. /\ handles' = [handles EXCEPT ![parent[o]] = @ + 1] /\ handles[o] > 0 /\ parent[o] # None
        /\ UNCHANGED <<objects, fresh, rest, cur>>
    BY <1>3 DEF Parent, calls
  <2>2. o \in alive BY <2>1 DEF Tree, Pointers
  <2>3. parent[o] \in alive BY <2>1, <2>2 DEF Tree, Pointers
  <2>4. ~Unentered(parent[o]) BY <2>2 DEF Tree, Entries, Unentered, alive
  <2>5. \A q \in Object : handles'[q] # 0 => handles[q] # 0 \/ (q \in alive /\ ~Unentered(q))
    BY <2>1, <2>3, <2>4
  <2> QED BY <2>1, <2>5, SameObjects
<1>4. ASSUME NEW o \in Object, NEW kind \in {"attach", "create"}, NEW request \in Request,
             Call(t, o, kind, request)
      PROVE Tree'
  <2>1. /\ o \in alive /\ owner[o] = t /\ handles[o] > 0 /\ fresh[t] = None
        /\ cur' = [cur EXCEPT ![t] = o] /\ rest' = [rest EXCEPT ![t] = request]
        /\ UNCHANGED <<objects, handles, fresh>>
    BY <1>4 DEF Call, Idle, InCall
  <2>2. ~Unentered(o) BY <2>1 DEF Tree, Entries
  <2> QED BY <2>1, <2>2, LoopMoves
<1> QED BY <1>1, <1>2, <1>3, <1>4
\* A loop that ends with an exception, with or without a created object.
LEMMA ThrowKeepsTree ==
    ASSUME Typed, Tree, NEW t \in Thread, Throw(t), UNCHANGED <<objects, handles>>,
           fresh'[t] = None, \A s \in Thread \ {t} : fresh'[s] = fresh[s]
    PROVE Tree'
<1>1. cur'[t] = None /\ \A s \in Thread \ {t} : cur'[s] = cur[s] /\ rest'[s] = rest[s]
  BY DEF Throw, Typed, TypeOK
<1> QED BY <1>1, LoopMoves

\* ~SingleControlGroup of an object that was never entered erases nothing.
LEMMA EraseNothing ==
    ASSUME Typed, NEW t \in Thread, cur[t] \in Object, child[cur[t]][Component(t)] = None,
           Component(t) \in Name, EraseFailed(t)
    PROVE UNCHANGED child
BY DEF EraseFailed, Typed, TypeOK

LEMMA LoopKeepsTree ==
    ASSUME Typed, Tree, NEW t \in Thread,
           \/ AttachDots(t) \/ AttachKnown(t) \/ (AttachNew(t) /\ ~IsDirectory(t))
           \/ CreateRefused(t) \/ MkdirFails(t) \/ ConfigureFails(t)
    PROVE Tree'
<1>1. CASE AttachDots(t)
  <2> DEFINE o == IF Component(t) = "." THEN cur[t] ELSE Up(t)
  <2>1. /\ cur[t] # None /\ fresh[t] = None /\ Advance(t, o) /\ UNCHANGED <<objects, handles, fresh>>
    BY <1>1 DEF AttachDots, Stepping, Typed, TypeOK
  <2>2. cur[t] \in alive /\ owner[cur[t]] = t /\ ~Unentered(cur[t])
    BY <2>1 DEF Tree, Pointers, Entries, alive
  <2>3. parent[cur[t]] # None =>
          /\ parent[cur[t]] \in alive /\ owner[parent[cur[t]]] = t /\ ~Unentered(parent[cur[t]])
    BY <2>2 DEF Tree, Pointers, Entries, alive
  <2>4. o \in alive /\ owner[o] = t /\ ~Unentered(o) BY <2>2, <2>3 DEF Up
  <2>5. cur' = [cur EXCEPT ![t] = o] /\ rest' = [rest EXCEPT ![t] = Tail(@)]
    BY <2>1 DEF Advance
  <2> HIDE DEF o
  <2>6. cur'[t] = o /\ \A s \in Thread \ {t} : cur'[s] = cur[s] /\ rest'[s] = rest[s]
    BY <2>5 DEF Typed, TypeOK
  <2> QED BY <2>1, <2>4, <2>6, LoopMoves
<1>2. CASE AttachKnown(t)
  <2> DEFINE o == child[cur[t]][Component(t)]
  <2>1. /\ cur[t] # None /\ fresh[t] = None /\ Advance(t, o) /\ UNCHANGED <<objects, handles, fresh>>
        /\ Component(t) \in Name /\ o # None
    BY <1>2 DEF AttachKnown, Stepping, Typed, TypeOK
  <2>2. cur[t] \in alive /\ owner[cur[t]] = t BY <2>1 DEF Tree, Pointers
  <2>3. o \in alive /\ owner[o] = t /\ ~Unentered(o) BY <2>1, <2>2, FiledIsEntered
  <2>4. cur' = [cur EXCEPT ![t] = o] /\ rest' = [rest EXCEPT ![t] = Tail(@)]
    BY <2>1 DEF Advance
  <2> HIDE DEF o
  <2>5. cur'[t] = o /\ \A s \in Thread \ {t} : cur'[s] = cur[s] /\ rest'[s] = rest[s]
    BY <2>4 DEF Typed, TypeOK
  <2> QED BY <2>1, <2>3, <2>5, LoopMoves
<1>3. CASE AttachNew(t) /\ ~IsDirectory(t)
  <2>1. /\ cur[t] \in Object /\ child[cur[t]][Component(t)] = None /\ Component(t) \in Name
        /\ EraseFailed(t) /\ Throw(t) /\ UNCHANGED <<owner, path, parent, created, handles, fresh>>
        /\ fresh[t] = None
    BY <1>3, SteppingTyped DEF AttachNew, Stepping
  <2> QED BY <2>1, EraseNothing, ThrowKeepsTree DEF objects
<1>4. CASE CreateRefused(t)
  BY <1>4, ThrowKeepsTree DEF CreateRefused, Stepping
<1>5. CASE MkdirFails(t)
  <2>1. /\ cur[t] \in Object /\ child[cur[t]][Component(t)] = None /\ Component(t) \in Name
        /\ EraseFailed(t) /\ Throw(t) /\ UNCHANGED <<owner, path, parent, created, handles, fresh>>
        /\ fresh[t] = None
    BY <1>5, SteppingTyped DEF MkdirFails, Stepping, Refused
  <2> QED BY <2>1, EraseNothing, ThrowKeepsTree DEF objects
<1>6. CASE ConfigureFails(t)
  <2>1. fresh'[t] = None /\ \A s \in Thread \ {t} : fresh'[s] = fresh[s]
    BY <1>6 DEF ConfigureFails, Typed, TypeOK
  <2> QED BY <1>6, <2>1, ThrowKeepsTree DEF ConfigureFails
<1> QED BY <1>1, <1>2, <1>3, <1>4, <1>5, <1>6

\* A new object in a tree of its own.
LEMMA RootKeepsTree == ASSUME Typed, Tree, NEW t \in Thread, Root(t) PROVE Tree'
<1> USE NoneAssumption DEF Typed, TypeOK
<1> PICK o \in Object :
      /\ o \notin alive
      /\ owner' = [owner EXCEPT ![o] = t] /\ path' = [path EXCEPT ![o] = <<>>]
      /\ parent' = [parent EXCEPT ![o] = None] /\ handles' = [handles EXCEPT ![o] = 1]
      /\ UNCHANGED <<child, calls>>
  BY DEF Root, Allocate
<1>1. alive' = alive \union {o} BY DEF alive
<1>2. \A q \in alive : parent[q] # o /\ (parent[q] # None => parent[q] \in alive)
  BY DEF Tree, Pointers
<1>3. \A s \in Thread : cur[s] # o /\ fresh[s] # o
  BY DEF Tree, Pointers
<1>4. \A s \in Thread : cur[s] # None => Below(s)' = Below(s) /\ Component(s)' = Component(s)
  BY <1>3 DEF Below, Component, calls
<1>5. \A s \in Thread : fresh[s] # None => cur[s] # None
  BY DEF InCall
<1>6. Pointers'
  <2>1. \A q \in Object \ alive' : handles'[q] = 0 /\ \A n \in Name : child'[q][n] = None
    BY <1>1 DEF Tree, Pointers
  <2>2. \A q \in alive' : parent'[q] # None =>
          parent'[q] \in alive' /\ owner'[parent'[q]] = owner'[q] /\ Last(path'[q]) \in Name
    BY <1>1, <1>2 DEF Tree, Pointers
  <2>3. \A p \in alive', n \in Name : child'[p][n] # None =>
          /\ child'[p][n] \in alive' /\ parent'[child'[p][n]] = p
          /\ path'[child'[p][n]] = Append(path'[p], n)
    BY <1>1 DEF Tree, Pointers
  <2>4. \A s \in Thread : cur'[s] # None => cur'[s] \in alive' /\ owner'[cur'[s]] = s
    BY <1>1, <1>3 DEF Tree, Pointers, calls
  <2>5. \A s \in Thread : fresh'[s] # None =>
          /\ fresh'[s] \in alive' /\ owner'[fresh'[s]] = s
          /\ parent'[fresh'[s]] = cur'[s] /\ path'[fresh'[s]] = Below(s)'
          /\ child'[cur'[s]][Component(s)'] = None
    BY <1>1, <1>3, <1>4, <1>5 DEF Tree, Pointers, calls
  <2> QED BY <2>1, <2>2, <2>3, <2>4, <2>5 DEF Pointers
<1>7. \A q \in Object : Unentered(q)' => Unentered(q) /\ q # o
  BY <1>1, <1>2 DEF Unentered
<1>8. Entries' BY <1>1, <1>7, <1>2 DEF Entries, Tree, Unentered, calls
<1> QED BY <1>6, <1>8 DEF Tree
\* A new child is allocated: whatever else the step does, the rest of the tree
\* knows nothing of it.
LEMMA AllocateKeepsOthers ==
    ASSUME Typed, Tree, NEW t \in Thread, NEW o \in Object, NEW b \in BOOLEAN,
           cur[t] \in alive, Below(t) \in Path, Allocate(o, t, Below(t), cur[t], b),
           UNCHANGED handles
    PROVE /\ alive' = alive \union {o} /\ o \notin alive /\ o # None
          /\ owner'[o] = t /\ parent'[o] = cur[t] /\ path'[o] = Below(t) /\ handles'[o] = 0
          /\ \A n \in Name : child[o][n] = None
          /\ \A q \in alive : /\ owner'[q] = owner[q] /\ parent'[q] = parent[q]
                              /\ path'[q] = path[q] /\ parent[q] # o
          /\ \A s \in Thread : cur[s] # o /\ fresh[s] # o
          /\ \A s \in Thread : cur[s] # None =>
                path'[cur[s]] = path[cur[s]] /\ owner'[cur[s]] = owner[cur[s]]
<1> USE NoneAssumption DEF Typed, TypeOK
<1>1. /\ owner' = [owner EXCEPT ![o] = t] /\ path' = [path EXCEPT ![o] = Below(t)]
      /\ parent' = [parent EXCEPT ![o] = cur[t]] /\ o \notin alive
  BY DEF Allocate
<1>2. alive' = alive \union {o} BY <1>1 DEF alive
<1>3. \A q \in alive : parent[q] # o BY <1>1 DEF Tree, Pointers
<1>4. \A s \in Thread : cur[s] # o /\ fresh[s] # o BY <1>1 DEF Tree, Pointers
<1> QED BY <1>1, <1>2, <1>3, <1>4 DEF Tree, Pointers, alive

\* AttachNew, and Mkdir outside a cpuset hierarchy: the child is entered at once.
LEMMA NewEntered ==
    ASSUME Typed, Tree, NEW t \in Thread, NEW o \in Object, NEW b \in BOOLEAN,
           Ready(t), fresh[t] = None, cur[t] \in alive, owner[cur[t]] = t,
           Component(t) \in Name, child[cur[t]][Component(t)] = None, Below(t) \in Path,
           Allocate(o, t, Below(t), cur[t], b), Enter(t, o), Advance(t, o),
           UNCHANGED <<handles, fresh>>
    PROVE Tree'
<1> USE DEF Typed, TypeOK
<1> DEFINE up == cur[t]
           n == Component(t)
<1>0. Last(Below(t)) = n /\ up \in Object /\ Below(t) = Append(path[up], n)
  BY LastAppend DEF Below, alive
<1>1. /\ alive' = alive \union {o} /\ o \notin alive /\ o # None
      /\ owner'[o] = t /\ parent'[o] = cur[t] /\ path'[o] = Below(t) /\ handles'[o] = 0
      /\ \A m \in Name : child[o][m] = None
      /\ \A q \in alive : /\ owner'[q] = owner[q] /\ parent'[q] = parent[q]
                          /\ path'[q] = path[q] /\ parent[q] # o
      /\ \A s \in Thread : cur[s] # o /\ fresh[s] # o
      /\ \A s \in Thread : cur[s] # None =>
            path'[cur[s]] = path[cur[s]] /\ owner'[cur[s]] = owner[cur[s]]
  BY AllocateKeepsOthers
<1>2. /\ child' = [child EXCEPT ![up][n] = o] /\ cur' = [cur EXCEPT ![t] = o]
      /\ rest' = [rest EXCEPT ![t] = Tail(@)] /\ UNCHANGED <<handles, fresh>>
  BY DEF Enter, Advance
<1>3. \A q \in Object : Unentered(q) => owner[q] # t BY ReadyIsEntered
<1>3a. up \in alive /\ owner[up] = t /\ n \in Name /\ child[up][n] = None OBVIOUS
<1> HIDE DEF n, up
<1>4. \A q \in alive : parent[q] # None => parent[q] \in alive /\ owner[parent[q]] = owner[q]
  BY DEF Tree, Pointers
<1>5. Pointers'
  <2>1. \A q \in Object \ alive' : handles'[q] = 0 /\ \A m \in Name : child'[q][m] = None
    BY <1>0, <1>1, <1>2 DEF Tree, Pointers, up
  <2>2. ASSUME NEW q \in alive', parent'[q] # None
        PROVE parent'[q] \in alive' /\ owner'[parent'[q]] = owner'[q] /\ Last(path'[q]) \in Name
    <3>1. CASE q = o
      <4>1. parent'[q] = up /\ owner'[up] = t BY <1>1, <1>3a, <3>1 DEF up
      <4>2. Last(path'[q]) = n BY <1>0, <1>1, <3>1
      <4> QED BY <1>1, <1>3a, <3>1, <4>1, <4>2
    <3>2. CASE q # o
      <4>1. q \in alive /\ parent'[q] = parent[q] /\ path'[q] = path[q] BY <1>1, <3>2
      <4>2. parent[q] \in alive /\ owner[parent[q]] = owner[q] BY <1>4, <2>2, <4>1
      <4>3. Last(path[q]) \in Name BY <2>2, <4>1 DEF Tree, Pointers
      <4> QED BY <1>1, <4>1, <4>2, <4>3
    <3> QED BY <3>1, <3>2
  <2>3. ASSUME NEW p \in alive', NEW m \in Name, child'[p][m] # None
        PROVE /\ child'[p][m] \in alive' /\ parent'[child'[p][m]] = p
              /\ path'[child'[p][m]] = Append(path'[p], m)
    <3>1. CASE p = up /\ m = n
      BY <1>0, <1>1, <1>2, <3>1 DEF up, n
    <3>2. CASE ~(p = up /\ m = n)
      <4>1. child'[p][m] = child[p][m] /\ p # o
        BY <1>0, <1>1, <1>2, <2>3, <3>2 DEF alive
      <4>2. p \in alive BY <1>1, <4>1
      <4>3. /\ child[p][m] \in alive /\ parent[child[p][m]] = p
            /\ path[child[p][m]] = Append(path[p], m)
        BY <2>3, <4>1, <4>2 DEF Tree, Pointers
      <4> QED BY <1>1, <4>1, <4>2, <4>3
    <3> QED BY <3>1, <3>2
  <2>4. \A s \in Thread : cur'[s] # None => cur'[s] \in alive' /\ owner'[cur'[s]] = s
    BY <1>1, <1>2 DEF Tree, Pointers
  <2>5. ASSUME NEW s \in Thread, fresh'[s] # None
        PROVE /\ fresh'[s] \in alive' /\ owner'[fresh'[s]] = s
              /\ parent'[fresh'[s]] = cur'[s] /\ path'[fresh'[s]] = Below(s)'
              /\ child'[cur'[s]][Component(s)'] = None
    <3>1. s # t /\ fresh[s] # None /\ cur'[s] = cur[s] /\ rest'[s] = rest[s]
      BY <1>2, <2>5
    <3>2. cur[s] # None BY <3>1 DEF InCall
    <3>3. cur[s] # up BY <3>1, <3>2 DEF Tree, Pointers, up
    <3>4. Component(s)' = Component(s) /\ Below(s)' = Below(s)
      BY <1>1, <3>1, <3>2 DEF Below, Component
    <3>5. child'[cur'[s]][Component(s)'] = child[cur[s]][Component(s)]
      BY <1>2, <3>1, <3>3, <3>4
    <3> QED BY <1>1, <1>2, <3>1, <3>4, <3>5 DEF Tree, Pointers
  <2> QED BY <2>1, <2>2, <2>3, <2>4, <2>5 DEF Pointers
<1>6. Entries'
  <2>1. ASSUME NEW q \in Object, Unentered(q)'
        PROVE q # o /\ Unentered(q) /\ child'[parent'[q]][Last(path'[q])] = None
    <3>1. q # o
      <4> SUFFICES ASSUME q = o PROVE FALSE OBVIOUS
      <4>1. parent'[q] = up /\ Last(path'[q]) = n BY <1>0, <1>1 DEF up
      <4>2. child'[up][n] = o BY <1>0, <1>2, <1>3a
      <4> QED BY <2>1, <4>1, <4>2 DEF Unentered
    <3>2. q \in alive /\ parent[q] # None /\ parent[q] \in Object
      BY <1>1, <1>4, <2>1, <3>1 DEF Unentered, alive
    <3>3. parent'[q] = parent[q] /\ path'[q] = path[q] BY <1>1, <3>2
    <3>4. CASE parent[q] = up /\ Last(path[q]) = n
      <4>1. child[parent[q]][Last(path[q])] = None BY <3>4 DEF up, n
      <4>2. q # None BY NoneAssumption
      <4>3. Unentered(q) BY <3>2, <4>1, <4>2 DEF Unentered
      <4>4. owner[q] = t BY <1>4, <3>2, <3>4 DEF up
      <4> QED BY <1>3, <4>3, <4>4
    <3>5. CASE ~(parent[q] = up /\ Last(path[q]) = n)
      <4>1. child'[parent'[q]][Last(path'[q])] = child[parent[q]][Last(path[q])]
        BY <1>2, <3>2, <3>3, <3>5
      <4>2. Unentered(q) BY <2>1, <3>2, <3>3, <4>1 DEF Unentered
      <4> QED BY <3>1, <4>1, <4>2 DEF Tree, Entries
    <3> QED BY <3>4, <3>5
  <2>2. ASSUME NEW q \in Object, Unentered(q)'
        PROVE /\ handles'[q] = 0 /\ (\A s \in Thread : cur'[s] # q)
              /\ (\A c \in alive' : parent'[c] # q)
              /\ fresh'[owner'[q]] # None => fresh'[owner'[q]] = q
    <3>1. Unentered(q) /\ q # o BY <2>1, <2>2
    <3>2. q \in alive /\ owner[q] \in Thread BY <3>1 DEF Unentered, alive
    <3>3. /\ handles[q] = 0 /\ (\A s \in Thread : cur[s] # q) /\ (\A c \in alive : parent[c] # q)
          /\ fresh[owner[q]] # None => fresh[owner[q]] = q
      BY <3>1 DEF Tree, Entries
    <3> QED BY <1>1, <1>2, <3>1, <3>2, <3>3
  <2> QED BY <2>1, <2>2 DEF Entries
<1> QED BY <1>5, <1>6 DEF Tree

\* Mkdir in a cpuset hierarchy: the child is entered after its configuration.
LEMMA NewFresh ==
    ASSUME Typed, Tree, NEW t \in Thread, NEW o \in Object, NEW b \in BOOLEAN,
           Ready(t), fresh[t] = None, cur[t] \in alive, owner[cur[t]] = t,
           Component(t) \in Name, child[cur[t]][Component(t)] = None, Below(t) \in Path,
           Allocate(o, t, Below(t), cur[t], b), fresh' = [fresh EXCEPT ![t] = o],
           UNCHANGED <<handles, child, cur, rest>>
    PROVE Tree'
<1> USE DEF Typed, TypeOK
<1>0. Last(Below(t)) = Component(t)
  BY LastAppend DEF Below, alive
<1>1. /\ alive' = alive \union {o} /\ o \notin alive /\ o # None
      /\ owner'[o] = t /\ parent'[o] = cur[t] /\ path'[o] = Below(t) /\ handles'[o] = 0
      /\ \A m \in Name : child[o][m] = None
      /\ \A q \in alive : /\ owner'[q] = owner[q] /\ parent'[q] = parent[q]
                          /\ path'[q] = path[q] /\ parent[q] # o
      /\ \A s \in Thread : cur[s] # o /\ fresh[s] # o
      /\ \A s \in Thread : cur[s] # None =>
            path'[cur[s]] = path[cur[s]] /\ owner'[cur[s]] = owner[cur[s]]
  BY AllocateKeepsOthers
<1>3. \A q \in Object : Unentered(q) => owner[q] # t BY ReadyIsEntered
<1>4. \A q \in alive : parent[q] # None => parent[q] \in alive /\ owner[parent[q]] = owner[q]
  BY DEF Tree, Pointers
<1>5. Pointers'
  <2>1. \A q \in Object \ alive' : handles'[q] = 0 /\ \A m \in Name : child'[q][m] = None
    BY <1>1 DEF Tree, Pointers
  <2>2. ASSUME NEW q \in alive', parent'[q] # None
        PROVE parent'[q] \in alive' /\ owner'[parent'[q]] = owner'[q] /\ Last(path'[q]) \in Name
    <3>1. CASE q = o BY <1>0, <1>1, <3>1
    <3>2. CASE q # o
      <4>1. q \in alive /\ parent'[q] = parent[q] /\ path'[q] = path[q] BY <1>1, <3>2
      <4>2. parent[q] \in alive /\ owner[parent[q]] = owner[q] BY <1>4, <2>2, <4>1
      <4>3. Last(path[q]) \in Name BY <2>2, <4>1 DEF Tree, Pointers
      <4> QED BY <1>1, <4>1, <4>2, <4>3
    <3> QED BY <3>1, <3>2
  <2>3. ASSUME NEW p \in alive', NEW m \in Name, child'[p][m] # None
        PROVE /\ child'[p][m] \in alive' /\ parent'[child'[p][m]] = p
              /\ path'[child'[p][m]] = Append(path'[p], m)
    <3>1. p \in alive /\ child'[p][m] = child[p][m] BY <1>1, <2>3
    <3>2. child[p][m] \in alive /\ parent[child[p][m]] = p
          /\ path[child[p][m]] = Append(path[p], m)
      BY <2>3, <3>1 DEF Tree, Pointers
    <3> QED BY <1>1, <3>1, <3>2
  <2>4. \A s \in Thread : cur'[s] # None => cur'[s] \in alive' /\ owner'[cur'[s]] = s
    BY <1>1 DEF Tree, Pointers
  <2>5. ASSUME NEW s \in Thread, fresh'[s] # None
        PROVE /\ fresh'[s] \in alive' /\ owner'[fresh'[s]] = s
              /\ parent'[fresh'[s]] = cur'[s] /\ path'[fresh'[s]] = Below(s)'
              /\ child'[cur'[s]][Component(s)'] = None
    <3>1. Component(s)' = Component(s) BY DEF Component
    <3>2. CASE s = t
      <4>1. Below(t)' = Below(t) BY <1>1, <3>1, <3>2, NoneAssumption DEF Below, alive
      <4> QED BY <1>1, <3>1, <3>2, <4>1
    <3>3. CASE s # t
      <4>1. fresh'[s] = fresh[s] /\ cur[s] # None BY <2>5, <3>3 DEF InCall
      <4>2. Below(s)' = Below(s) BY <1>1, <3>1, <4>1 DEF Below
      <4> QED BY <1>1, <2>5, <3>1, <4>1, <4>2 DEF Tree, Pointers
    <3> QED BY <3>2, <3>3
  <2> QED BY <2>1, <2>2, <2>3, <2>4, <2>5 DEF Pointers
<1>6. Entries'
  <2> SUFFICES ASSUME NEW q \in Object, Unentered(q)'
        PROVE /\ handles'[q] = 0 /\ (\A s \in Thread : cur'[s] # q)
              /\ (\A c \in alive' : parent'[c] # q)
              /\ child'[parent'[q]][Last(path'[q])] = None
              /\ fresh'[owner'[q]] # None => fresh'[owner'[q]] = q
    BY DEF Entries
  <2>1. CASE q = o
    <3>1. ASSUME NEW c \in alive' PROVE parent'[c] # o
      <4>1. parent'[o] # o BY <1>1
      <4>2. CASE c \in alive BY <1>1, <4>2
      <4> HIDE DEF Typed, TypeOK
      <4> QED BY <1>1, <4>1, <4>2
    <3>2. child'[parent'[o]][Last(path'[o])] = None
      <4>1. parent'[o] = cur[t] /\ Last(path'[o]) = Component(t) BY <1>0, <1>1
      <4> QED BY <4>1
    <3>3. fresh'[owner'[o]] = o BY <1>1
    <3>4. handles'[o] = 0 BY <1>1
    <3>5. \A s \in Thread : cur'[s] # o BY <1>1
    <3> HIDE DEF Typed, TypeOK
    <3> QED BY <2>1, <3>1, <3>2, <3>3, <3>4, <3>5
  <2>2. CASE q # o
    <3>1. Unentered(q) BY <1>1, <2>2 DEF Unentered
    <3>2. q \in alive /\ owner[q] \in Thread /\ owner[q] # t
      BY <1>3, <3>1 DEF Unentered, alive
    <3>3. /\ handles[q] = 0 /\ (\A s \in Thread : cur[s] # q) /\ (\A c \in alive : parent[c] # q)
          /\ child[parent[q]][Last(path[q])] = None
          /\ fresh[owner[q]] # None => fresh[owner[q]] = q
      BY <3>1 DEF Tree, Entries
    <3>4. cur[t] # q BY <3>3
    <3> QED BY <1>1, <3>2, <3>3, <3>4
  <2> QED BY <2>1, <2>2
<1> QED BY <1>5, <1>6 DEF Tree

\* The configured child is entered.
LEMMA ConfigureKeepsTree ==
    ASSUME Typed, Tree, NEW t \in Thread, ConfigureCpuSet(t)
    PROVE Tree'
<1> USE DEF Typed, TypeOK
<1> DEFINE up == cur[t]
           o == fresh[t]
           n == Component(t)
<1>1. o # None /\ UNCHANGED <<owner, path, parent, handles>> /\ alive' = alive
  BY DEF ConfigureCpuSet, alive
<1>2. /\ child' = [child EXCEPT ![up][n] = o] /\ cur' = [cur EXCEPT ![t] = o]
      /\ rest' = [rest EXCEPT ![t] = Tail(@)] /\ fresh' = [fresh EXCEPT ![t] = None]
  BY DEF ConfigureCpuSet, Enter, Advance
<1>3. up # None /\ n \in Name BY <1>1 DEF InCall
<1>4. up \in alive /\ owner[up] = t BY <1>3 DEF Tree, Pointers
<1>5. /\ o \in alive /\ owner[o] = t /\ parent[o] = up /\ path[o] = Append(path[up], n)
      /\ child[up][n] = None
  BY <1>1 DEF Tree, Pointers, Below
<1>6. Last(path[o]) = n /\ up \in Object
  BY <1>3, <1>4, <1>5, LastAppend DEF alive
<1>7. fresh[t] = o /\ \A q \in alive : parent[q] # None => owner[parent[q]] = owner[q]
  BY DEF Tree, Pointers
<1>a. \A s \in Thread : cur[s] = up => s = t
  BY <1>4, <1>3 DEF Tree, Pointers
<1>b. \A s \in Thread : s # t => Component(s)' = Component(s) /\ (cur[s] # None => Below(s)' = Below(s))
  BY <1>1, <1>2 DEF Component, Below
<1> HIDE DEF n, up, o
<1>8. Pointers'
  <2>1. \A q \in Object \ alive' : handles'[q] = 0 /\ \A m \in Name : child'[q][m] = None
    BY <1>1, <1>2, <1>4 DEF Tree, Pointers
  <2>2. \A q \in alive' : parent'[q] # None =>
          parent'[q] \in alive' /\ owner'[parent'[q]] = owner'[q] /\ Last(path'[q]) \in Name
    BY <1>1 DEF Tree, Pointers
  <2>3. ASSUME NEW p \in alive', NEW m \in Name, child'[p][m] # None
        PROVE /\ child'[p][m] \in alive' /\ parent'[child'[p][m]] = p
              /\ path'[child'[p][m]] = Append(path'[p], m)
    <3>1. CASE p = up /\ m = n
      <4>1. child'[p][m] = o BY <1>2, <1>3, <1>6, <3>1
      <4> QED BY <1>1, <1>5, <3>1, <4>1
    <3>2. CASE ~(p = up /\ m = n)
      <4>1. child'[p][m] = child[p][m] BY <1>1, <1>2, <3>2 DEF alive
      <4> QED BY <1>1, <2>3, <4>1 DEF Tree, Pointers
    <3> QED BY <3>1, <3>2
  <2>4. \A s \in Thread : cur'[s] # None => cur'[s] \in alive' /\ owner'[cur'[s]] = s
    BY <1>1, <1>2, <1>5 DEF Tree, Pointers
  <2>5. ASSUME NEW s \in Thread, fresh'[s] # None
        PROVE /\ fresh'[s] \in alive' /\ owner'[fresh'[s]] = s
              /\ parent'[fresh'[s]] = cur'[s] /\ path'[fresh'[s]] = Below(s)'
              /\ child'[cur'[s]][Component(s)'] = None
    <3>1. s # t /\ fresh'[s] = fresh[s] /\ cur'[s] = cur[s]
      BY <1>2, <2>5
    <3>2. cur[s] # None /\ cur[s] # up BY <2>5, <3>1, <1>a DEF InCall
    <3>3. child'[cur[s]][Component(s)] = child[cur[s]][Component(s)]
      BY <1>2, <3>2
    <3> QED BY <1>1, <1>b, <2>5, <3>1, <3>2, <3>3 DEF Tree, Pointers
  <2> QED BY <2>1, <2>2, <2>3, <2>4, <2>5 DEF Pointers
<1>9. Entries'
  <2> SUFFICES ASSUME NEW q \in Object, Unentered(q)'
        PROVE /\ handles'[q] = 0 /\ (\A s \in Thread : cur'[s] # q)
              /\ (\A c \in alive' : parent'[c] # q)
              /\ child'[parent'[q]][Last(path'[q])] = None
              /\ fresh'[owner'[q]] # None => fresh'[owner'[q]] = q
    BY DEF Entries
  <2>1. q \in alive /\ parent[q] # None /\ parent[q] \in Object /\ owner[q] \in Thread
    BY <1>1 DEF Unentered, alive
  <2>2. child'[parent[q]][Last(path[q])] # q BY <1>1 DEF Unentered
  <2>3. CASE parent[q] = up /\ Last(path[q]) = n
    <3>1. q # o BY <1>2, <1>3, <1>6, <2>2, <2>3
    <3>2. child[parent[q]][Last(path[q])] = None BY <1>5, <2>3
    <3>3. Unentered(q) BY <2>1, <3>2, NoneAssumption DEF Unentered
    <3>4. owner[q] = t BY <1>4, <1>7, <2>1, <2>3
    <3> QED BY <1>1, <1>7, <3>1, <3>3, <3>4 DEF Tree, Entries
  <2>4. CASE ~(parent[q] = up /\ Last(path[q]) = n)
    <3>1. child'[parent[q]][Last(path[q])] = child[parent[q]][Last(path[q])]
      BY <1>2, <2>1, <2>4
    <3>2. Unentered(q) BY <2>1, <2>2, <3>1 DEF Unentered
    <3>3. q # o BY <1>5, <1>6, <2>4
    <3>4. /\ handles[q] = 0 /\ (\A s \in Thread : cur[s] # q) /\ (\A c \in alive : parent[c] # q)
          /\ child[parent[q]][Last(path[q])] = None
          /\ fresh[owner[q]] # None => fresh[owner[q]] = q
      BY <3>2 DEF Tree, Entries
    <3> QED BY <1>1, <1>2, <2>1, <3>1, <3>3, <3>4
  <2> QED BY <2>3, <2>4
<1> QED BY <1>8, <1>9 DEF Tree

\* The destructor: nothing points to the object, its children_ is empty, and
\* what it erases is its own entry.
LEMMA DestroyKeepsTree == ASSUME Typed, Tree, NEW t \in Thread, Destroy(t) PROVE Tree'
<1> USE NoneAssumption DEF Typed, TypeOK
<1> PICK o \in alive :
      /\ Unreferenced(o)
      /\ child' = [Erased(o) EXCEPT ![o] = [n \in Name |-> None]]
      /\ owner' = [owner EXCEPT ![o] = None]
      /\ path' = [path EXCEPT ![o] = <<>>]
      /\ parent' = [parent EXCEPT ![o] = None]
      /\ UNCHANGED <<handles, calls>>
  BY DEF Destroy
<1>1. o \in Object /\ alive' = alive \ {o} /\ o # None BY DEF alive
<1>2. /\ handles[o] = 0 /\ \A s \in Thread : cur[s] # o /\ fresh[s] # o
      /\ \A c \in alive : parent[c] # o
  BY DEF Unreferenced, Unheld
<1>3. \A q \in Object : q # o =>
          owner'[q] = owner[q] /\ path'[q] = path[q] /\ parent'[q] = parent[q]
  BY <1>1
<1>4. \A q \in Object, m \in Name :
        child'[q][m] = IF \/ q = o
                          \/ parent[o] # None /\ q = parent[o] /\ m = Last(path[o])
                       THEN None ELSE child[q][m]
  BY <1>1 DEF Erased
<1>5. Pointers'
  <2>1. \A q \in Object \ alive' : handles'[q] = 0 /\ \A m \in Name : child'[q][m] = None
    BY <1>1, <1>2, <1>4 DEF Tree, Pointers
  <2>2. \A q \in alive' : parent'[q] # None =>
          parent'[q] \in alive' /\ owner'[parent'[q]] = owner'[q] /\ Last(path'[q]) \in Name
    BY <1>1, <1>2, <1>3 DEF Tree, Pointers, alive
  <2>3. ASSUME NEW p \in alive', NEW m \in Name, child'[p][m] # None
        PROVE /\ child'[p][m] \in alive' /\ parent'[child'[p][m]] = p
              /\ path'[child'[p][m]] = Append(path'[p], m)
    <3>1. p \in alive /\ p \in Object /\ p # o BY <1>1 DEF alive
    <3>2. child'[p][m] = child[p][m] /\ ~(p = parent[o] /\ m = Last(path[o]))
      BY <1>4, <2>3, <3>1
    <3>3. /\ child[p][m] \in alive /\ parent[child[p][m]] = p
          /\ path[child[p][m]] = Append(path[p], m)
      BY <2>3, <3>1, <3>2 DEF Tree, Pointers
    <3>4. child[p][m] # o
      <4> SUFFICES ASSUME child[p][m] = o PROVE FALSE OBVIOUS
      <4>1. Last(path[o]) = m BY <3>1, <3>3, LastAppend
      <4> QED BY <3>2, <3>3, <4>1
    <3> QED BY <1>1, <1>3, <3>1, <3>2, <3>3, <3>4 DEF alive
  <2>4. \A s \in Thread : cur'[s] # None => cur'[s] \in alive' /\ owner'[cur'[s]] = s
    BY <1>1, <1>2, <1>3 DEF Tree, Pointers, calls, alive
  <2>5. ASSUME NEW s \in Thread, fresh'[s] # None
        PROVE /\ fresh'[s] \in alive' /\ owner'[fresh'[s]] = s
              /\ parent'[fresh'[s]] = cur'[s] /\ path'[fresh'[s]] = Below(s)'
              /\ child'[cur'[s]][Component(s)'] = None
    <3>1. fresh'[s] = fresh[s] /\ cur'[s] = cur[s] /\ rest'[s] = rest[s] BY DEF calls
    <3>2. Component(s)' = Component(s) BY <3>1 DEF Component
    <3>3. /\ fresh[s] \in alive /\ owner[fresh[s]] = s /\ parent[fresh[s]] = cur[s]
          /\ path[fresh[s]] = Below(s) /\ child[cur[s]][Component(s)] = None
      BY <2>5, <3>1 DEF Tree, Pointers
    <3>4. cur[s] # None /\ Component(s) \in Name BY <2>5, <3>1 DEF InCall
    <3>5. cur[s] \in Object /\ cur[s] # o /\ fresh[s] # o /\ fresh[s] \in Object
      BY <1>2, <3>3, <3>4 DEF alive
    <3>6. Below(s)' = Below(s) BY <1>3, <3>1, <3>2, <3>5 DEF Below
    <3> QED BY <1>1, <1>3, <1>4, <3>1, <3>2, <3>3, <3>4, <3>5, <3>6
  <2> HIDE DEF Typed, TypeOK
  <2> QED BY <2>1, <2>2, <2>3, <2>4, <2>5 DEF Pointers
<1>6. Entries'
  <2> SUFFICES ASSUME NEW q \in Object, Unentered(q)'
        PROVE /\ handles'[q] = 0 /\ (\A s \in Thread : cur'[s] # q)
              /\ (\A c \in alive' : parent'[c] # q)
              /\ child'[parent'[q]][Last(path'[q])] = None
              /\ fresh'[owner'[q]] # None => fresh'[owner'[q]] = q
    BY DEF Entries
  <2>1. q \in alive /\ q # o BY <1>1 DEF Unentered
  <2>2. parent'[q] = parent[q] /\ path'[q] = path[q] /\ owner'[q] = owner[q] BY <1>3, <2>1
  <2>3. parent[q] \in alive /\ Last(path[q]) \in Name /\ parent[q] # None
    BY <2>1, <2>2 DEF Unentered, Tree, Pointers
  <2>4. child[parent[q]][Last(path[q])] # q
    <3> SUFFICES ASSUME child[parent[q]][Last(path[q])] = q PROVE FALSE OBVIOUS
    <3>1. child'[parent[q]][Last(path[q])] # q BY <2>2 DEF Unentered
    <3>2. parent[q] # o BY <1>2, <2>1
    <3>3. parent[o] # None /\ parent[q] = parent[o] /\ Last(path[q]) = Last(path[o])
      BY <1>4, <2>3, <3>1, <3>2 DEF alive
    <3>4. Unentered(o) BY <2>1, <3>3 DEF Unentered
    <3>5. child[parent[o]][Last(path[o])] = None BY <3>4 DEF Tree, Entries, alive
    <3> QED BY <3>3, <3>5
  <2>5. Unentered(q) BY <2>1, <2>3, <2>4 DEF Unentered
  <2>6. /\ handles[q] = 0 /\ (\A s \in Thread : cur[s] # q) /\ (\A c \in alive : parent[c] # q)
        /\ child[parent[q]][Last(path[q])] = None
        /\ fresh[owner[q]] # None => fresh[owner[q]] = q
    BY <2>5 DEF Tree, Entries
  <2>7. child'[parent[q]][Last(path[q])] = None
    BY <1>4, <2>3, <2>6 DEF alive
  <2>8. \A c \in alive' : parent'[c] # q BY <1>1, <1>3, <2>6 DEF alive
  <2> QED BY <2>2, <2>6, <2>7, <2>8 DEF calls
<1> QED BY <1>5, <1>6 DEF Tree

LEMMA SystemKeepsTree == ASSUME Typed, Tree, System PROVE Tree'
<1>1. UNCHANGED <<objects, handles, calls>>
  BY DEF System, Occupy, Vacate, OthersRmdir, OthersMkdir
<1> QED BY <1>1, SameObjects DEF calls

LEMMA ChildKeepsTree ==
    ASSUME Typed, Tree, NEW t \in Thread, Mkdir(t) \/ (AttachNew(t) /\ IsDirectory(t))
    PROVE Tree'
<1>1. /\ Ready(t) /\ fresh[t] = None /\ Component(t) \in Name
      /\ child[cur[t]][Component(t)] = None /\ UNCHANGED handles /\ cur[t] \in Object
  BY SteppingTyped DEF Mkdir, AttachNew, Stepping, Refused
<1>2. cur[t] \in alive /\ owner[cur[t]] = t
  BY <1>1, NoneAssumption DEF Tree, Pointers
<1>3. PICK o \in Object, b \in BOOLEAN :
        /\ Below(t) \in Path /\ Allocate(o, t, Below(t), cur[t], b)
        /\ \/ Enter(t, o) /\ Advance(t, o) /\ UNCHANGED fresh
           \/ fresh' = [fresh EXCEPT ![t] = o] /\ UNCHANGED <<child, cur, rest>>
  <2>1. CASE Mkdir(t)
    <3>1. path[cur[t]] \in Path BY <1>1 DEF Typed, TypeOK
    <3>2. Below(t) \in Path BY <1>1, <2>1, <3>1, PathAppend DEF Mkdir, Below
    <3> QED BY <2>1, <3>2 DEF Mkdir
  <2>2. CASE AttachNew(t) /\ IsDirectory(t)
    <3>1. Below(t) \in Path BY <2>2 DEF IsDirectory, Typed, TypeOK
    <3> QED BY <2>2, <3>1 DEF AttachNew
  <2> QED BY <2>1, <2>2
<1>4. CASE Enter(t, o) /\ Advance(t, o) /\ UNCHANGED fresh
  BY <1>1, <1>2, <1>3, <1>4, NewEntered
<1>5. CASE fresh' = [fresh EXCEPT ![t] = o] /\ UNCHANGED <<child, cur, rest>>
  BY <1>1, <1>2, <1>3, <1>5, NewFresh
<1> QED BY <1>3, <1>4, <1>5

LEMMA NextTree == Typed /\ Tree /\ [Next]_vars => Tree'
<1> SUFFICES ASSUME Typed, Tree, [Next]_vars PROVE Tree' OBVIOUS
<1>1. CASE UNCHANGED vars
  BY <1>1, SameObjects DEF vars, calls
<1>2. CASE System BY <1>2, SystemKeepsTree
<1>3. ASSUME NEW t \in Thread, ThreadStep(t) PROVE Tree'
  BY <1>3, RootKeepsTree, DestroyKeepsTree, ProgramKeepsTree, LoopKeepsTree, ChildKeepsTree,
     ConfigureKeepsTree
  DEF ThreadStep
<1> QED BY <1>1, <1>2, <1>3 DEF Next

LEMMA TreeHolds == Spec => [](Typed /\ Tree)
BY InitTyped, InitTree, NextTyped, NextTree, PTL DEF Spec

\* In whatever order pointers are dropped and calls fail, parent_ and the raw
\* pointers in children_ lead to live objects filed under their own names.
THEOREM PointersAreValid == Spec => []NoDanglingPointer
<1>1. Tree => NoDanglingPointer BY DEF Tree, Pointers, NoDanglingPointer
<1> QED BY <1>1, TreeHolds, PTL

\* Within one tree a control group has one object, and its parent finds it.
THEOREM ObjectsAreShared == Spec => []OneObjectPerGroup
<1>1. ASSUME Typed, Tree PROVE OneObjectPerGroup
  <2> SUFFICES ASSUME NEW o \in alive, parent[o] # None, Entered(o), ~Unreferenced(o),
                      child[parent[o]][Last(path[o])] # o
               PROVE FALSE
    BY DEF OneObjectPerGroup
  <2>1. o \in Object /\ Unentered(o) BY DEF Unentered, alive
  <2>2. Unreferenced(o)
    BY <1>1, <2>1 DEF Tree, Entries, Unreferenced, Unheld, Entered
  <2> QED BY <2>2
<1> QED BY <1>1, TreeHolds, PTL
-----------------------------------------------------------------------------
(* Directories *)

\* A step that leaves the directories and who has created them alone.
LEMMA SameCreators ==
    ASSUME UNCHANGED <<files, owner, path, created>>
    PROVE (OneCreator => OneCreator') /\ (NothingLeftBehind => NothingLeftBehind')
BY DEF OneCreator, NothingLeftBehind, Owning, alive, files

\* A new object of a directory that is there already, or that mkdir has made.
LEMMA NewCreator ==
    ASSUME Typed, NEW t \in Thread, NEW o \in Object, NEW p, NEW up, NEW b \in BOOLEAN,
           Allocate(o, t, p, up, b), UNCHANGED <<lost, kept>>, p \in Path,
           IF b THEN p \notin dirs /\ dirs' = dirs \union {p} ELSE UNCHANGED dirs
    PROVE (OneCreator => OneCreator') /\ (NothingLeftBehind => NothingLeftBehind')
<1> USE NoneAssumption DEF Typed, TypeOK
<1>1. /\ o \notin alive /\ alive' = alive \union {o}
      /\ path'[o] = p /\ created'[o] = b
      /\ \A q \in alive : path'[q] = path[q] /\ created'[q] = created[q]
  BY DEF Allocate, alive
<1>2. ASSUME OneCreator PROVE OneCreator'
  <2>1. \A q \in Owning' : q \in Owning \/ (q = o /\ b) BY <1>1 DEF Owning
  <2>2. \A q \in Owning : q # o /\ path'[q] = path[q] /\ path[q] \in dirs
    BY <1>1, <1>2 DEF Owning, OneCreator
  <2>3. b = TRUE => path'[o] \notin dirs /\ path'[o] \in dirs' BY <1>1
  <2>4. dirs \subseteq dirs' OBVIOUS
  <2>5. \A q, r \in Owning : path[q] = path[r] => q = r BY <1>2 DEF OneCreator
  <2>6. \A q \in Owning' : path'[q] \in dirs' BY <2>1, <2>2, <2>3, <2>4
  <2>7. ASSUME NEW q \in Owning', NEW r \in Owning', path'[q] = path'[r] PROVE q = r
    <3>1. CASE q \in Owning /\ r \in Owning BY <2>2, <2>5, <2>7, <3>1
    <3>2. CASE ~(q \in Owning /\ r \in Owning) BY <2>1, <2>2, <2>3, <2>7, <3>2
    <3> QED BY <3>1, <3>2
  <2> QED BY <2>6, <2>7 DEF OneCreator
<1>3. ASSUME NothingLeftBehind PROVE NothingLeftBehind'
  <2> SUFFICES ASSUME NEW d \in dirs' \ kept', d # <<>>
               PROVE \E q \in alive' : created'[q] /\ path'[q] = d
    BY DEF NothingLeftBehind
  <2>1. CASE d \in dirs
    <3>1. PICK q \in alive : created[q] /\ path[q] = d
      BY <1>3, <2>1 DEF NothingLeftBehind
    <3>2. q \in alive' /\ created'[q] = created[q] /\ path'[q] = d BY <1>1, <3>1
    <3> QED BY <3>1, <3>2
  <2>2. CASE d \notin dirs
    <3>1. b = TRUE /\ d = p BY <2>2
    <3>2. o \in alive' /\ created'[o] = TRUE /\ path'[o] = d BY <1>1, <3>1
    <3> QED BY <3>2
  <2> QED BY <2>1, <2>2
<1> QED BY <1>2, <1>3

\* rmdir in a destructor takes its own directory, or that of objects which no
\* longer count; and it fails only where it is excused.
LEMMA DestroyKeepsCreators ==
    ASSUME Typed, NEW t \in Thread, Destroy(t)
    PROVE (OneCreator => OneCreator') /\ (NothingLeftBehind => NothingLeftBehind')
<1> USE NoneAssumption DEF Typed, TypeOK
<1> PICK o \in alive :
      /\ Unreferenced(o)
      /\ dirs' = DirsAfter(o)
      /\ lost' = (lost \union IF o \in lost /\ dirs' # dirs THEN Creators(path[o]) ELSE {}) \ {o}
      /\ kept' = (kept \union IF created[o] /\ Excused(o) THEN {path[o]} ELSE {}) \intersect dirs'
      /\ owner' = [owner EXCEPT ![o] = None]
      /\ path' = [path EXCEPT ![o] = <<>>]
      /\ created' = [created EXCEPT ![o] = FALSE]
  BY DEF Destroy
<1>1. alive' = alive \ {o} /\ o \in Object /\ alive \subseteq Object BY DEF alive
<1>2. \A q \in alive' : path'[q] = path[q] /\ created'[q] = created[q] BY <1>1
<1>3. dirs' = dirs \/ (created[o] /\ dirs' = dirs \ {path[o]}) BY DEF DirsAfter
<1>4. ASSUME OneCreator PROVE OneCreator'
  <2>1. \A q \in Owning' : q \in Owning /\ q # o /\ path'[q] = path[q]
    BY <1>1, <1>2 DEF Owning
  <2>2. ASSUME NEW q \in Owning', path[q] \notin dirs' PROVE FALSE
    <3>1. q \in alive /\ created[q] /\ q # o /\ path[q] \in dirs
      BY <1>4, <2>1 DEF Owning, OneCreator
    <3>2. created[o] /\ path[q] = path[o] /\ dirs' # dirs BY <1>3, <2>2, <3>1
    <3>3. CASE o \in lost
      <4>1. q \in lost' BY <3>1, <3>2, <3>3 DEF Creators
      <4> QED BY <4>1 DEF Owning
    <3>4. CASE o \notin lost
      <4>1. o \in Owning BY <3>2, <3>4 DEF Owning
      <4> QED BY <1>4, <2>1, <3>1, <3>2, <4>1 DEF OneCreator
    <3> QED BY <3>3, <3>4
  <2> QED BY <1>4, <2>1, <2>2 DEF OneCreator
<1>5. ASSUME NothingLeftBehind PROVE NothingLeftBehind'
  <2> SUFFICES ASSUME NEW d \in dirs' \ kept', d # <<>>
               PROVE \E q \in alive' : created'[q] /\ path'[q] = d
    BY DEF NothingLeftBehind
  <2>1. d \in dirs \ kept BY <1>3
  <2>2. PICK q \in alive : created[q] /\ path[q] = d BY <1>5, <2>1 DEF NothingLeftBehind
  <2>3. q # o
    <3> SUFFICES ASSUME q = o PROVE FALSE OBVIOUS
    <3>1. ~Removable(d)
      BY <2>2 DEF DirsAfter
    <3>2. d \in busy \/ HasSubgroup(d) BY <2>1, <3>1 DEF Removable
    <3>3. \A s : \A c \in Creators(s) : parent[c] # o BY DEF Creators, Unreferenced
    <3>4. Excused(o) BY <2>2, <3>2, <3>3 DEF Excused, HasSubgroup
    <3> QED BY <2>2, <3>4
  <2> QED BY <1>1, <1>2, <2>2, <2>3
<1> QED BY <1>4, <1>5

LEMMA SystemKeepsCreators ==
    ASSUME System
    PROVE (OneCreator => OneCreator') /\ (NothingLeftBehind => NothingLeftBehind')
<1> USE DEF OneCreator, NothingLeftBehind, Owning, alive, objects
<1>1. ASSUME NEW p \in dirs, Occupy(p) \/ Vacate(p)
      PROVE (OneCreator => OneCreator') /\ (NothingLeftBehind => NothingLeftBehind')
  BY <1>1 DEF Occupy, Vacate
<1>2. ASSUME NEW p \in dirs, OthersRmdir(p)
      PROVE (OneCreator => OneCreator') /\ (NothingLeftBehind => NothingLeftBehind')
  BY <1>2 DEF OthersRmdir, Creators
<1>3. ASSUME NEW p \in Path \ {<<>>}, OthersMkdir(p)
      PROVE (OneCreator => OneCreator') /\ (NothingLeftBehind => NothingLeftBehind')
  BY <1>3 DEF OthersMkdir
<1> QED BY <1>1, <1>2, <1>3 DEF System

LEMMA NextCreators ==
    ASSUME Typed, [Next]_vars
    PROVE (OneCreator => OneCreator') /\ (NothingLeftBehind => NothingLeftBehind')
<1>1. CASE UNCHANGED vars BY <1>1, SameCreators DEF vars, objects
<1>2. CASE System BY <1>2, SystemKeepsCreators
<1>3. ASSUME NEW t \in Thread, ThreadStep(t)
      PROVE (OneCreator => OneCreator') /\ (NothingLeftBehind => NothingLeftBehind')
  <2>1. CASE Destroy(t) BY <2>1, DestroyKeepsCreators
  <2>2. CASE Root(t)
    BY <2>2, NewCreator, RootIsPath DEF Root, files
  <2>3. CASE AttachNew(t) /\ IsDirectory(t)
    <3>1. Below(t) \in Path BY <2>3 DEF IsDirectory, Typed, TypeOK
    <3> QED BY <2>3, <3>1, NewCreator DEF AttachNew, files
  <2>4. CASE Mkdir(t)
    <3>1. cur[t] \in Object /\ path[cur[t]] \in Path
      BY <2>4, SteppingTyped DEF Mkdir, Stepping
    <3>2. Below(t) \in Path BY <2>4, <3>1, PathAppend DEF Mkdir, Below
    <3> QED BY <2>4, <3>2, NewCreator DEF Mkdir, Absent
  <2>5. CASE \/ Return(t) \/ AttachDots(t) \/ AttachKnown(t) \/ CreateRefused(t)
             \/ MkdirFails(t) \/ ConfigureCpuSet(t) \/ ConfigureFails(t)
             \/ (AttachNew(t) /\ ~IsDirectory(t))
             \/ \E o \in Object : Release(t, o) \/ Parent(t, o)
             \/ \E o \in Object, kind \in {"attach", "create"}, request \in Request :
                   Call(t, o, kind, request)
    <3>1. UNCHANGED <<files, owner, path, created>>
      BY <2>5 DEF Return, AttachDots, AttachKnown, CreateRefused, MkdirFails,
         ConfigureCpuSet, ConfigureFails, AttachNew, Release, Parent, Call, objects
    <3> QED BY <3>1, SameCreators
  <2> QED BY <1>3, <2>1, <2>2, <2>3, <2>4, <2>5 DEF ThreadStep
<1> QED BY <1>1, <1>2, <1>3 DEF Next

\* Among the objects whose directory nobody else has removed, one at most has
\* created a directory, and that directory is there.
THEOREM CreatorsAreUnique == Spec => []OneCreator
<1>1. Init => OneCreator BY DEF Init, OneCreator, Owning, alive
<1> QED BY <1>1, InitTyped, NextTyped, NextCreators, PTL DEF Spec

\* However pointers are dropped and calls of createChild fail, each directory
\* that the program made has an object that will remove it, unless rmdir was
\* refused for a task or a group of somebody else.
THEOREM DirectoriesAreRemoved == Spec => []NothingLeftBehind
<1>1. Init => NothingLeftBehind BY DEF Init, NothingLeftBehind
<1> QED BY <1>1, InitTyped, NextTyped, NextCreators, PTL DEF Spec
-----------------------------------------------------------------------------
(* The objects as paths *)

\* The path of a child goes on from that of its parent; only objects lose their
\* directories.
Ancestry == \A o \in alive :
    IF parent[o] = None THEN path[o] = <<>>
    ELSE path[o] = Append(path[parent[o]], Last(path[o]))
Named == Typed /\ Tree /\ OneCreator /\ lost \subseteq alive /\ Ancestry

LEMMA FrontAppend ==
    ASSUME NEW p \in Path, NEW n \in Name
    PROVE Append(p, n) # <<>> /\ Front(Append(p, n)) = p
<1>1. p \in Seq(Name) BY PathIsSeq
<1>2. Append(p, n) \in Seq(Name) /\ Len(Append(p, n)) = Len(p) + 1 BY <1>1
<1>3. Front(Append(p, n)) = SubSeq(Append(p, n), 1, Len(p)) BY <1>1, <1>2 DEF Front
<1>4. SubSeq(Append(p, n), 1, Len(p)) = p BY <1>1, <1>2
<1> QED BY <1>2, <1>3, <1>4, <1>1

LEMMA ParentPath ==
    ASSUME Named, NEW o \in alive
    PROVE IF parent[o] = None THEN path[o] = <<>>
          ELSE /\ parent[o] \in alive /\ owner[parent[o]] = owner[o]
               /\ path[o] # <<>> /\ Front(path[o]) = path[parent[o]]
<1>1. CASE parent[o] = None BY <1>1 DEF Named, Ancestry
<1>2. CASE parent[o] # None
  <2>1. parent[o] \in alive /\ owner[parent[o]] = owner[o] /\ Last(path[o]) \in Name
    BY <1>2 DEF Named, Tree, Pointers
  <2>2. path[parent[o]] \in Path BY <2>1 DEF Named, Typed, TypeOK, alive
  <2>3. path[o] = Append(path[parent[o]], Last(path[o])) BY <1>2 DEF Named, Ancestry
  <2> QED BY <1>2, <2>1, <2>2, <2>3, FrontAppend
<1> QED BY <1>1, <1>2

\* A step that makes no object and destroys none.
LEMMA SameAncestry ==
    ASSUME UNCHANGED <<owner, path, parent>>
    PROVE (Ancestry => Ancestry') /\ alive' = alive
BY DEF Ancestry, alive

LEMMA NewAncestry ==
    ASSUME Typed, Tree, Ancestry, NEW t \in Thread, NEW o \in Object, NEW p, NEW up, NEW b,
           Allocate(o, t, p, up, b),
           IF up = None THEN p = <<>> ELSE up \in alive /\ p = Append(path[up], Last(p))
    PROVE Ancestry' /\ alive' = alive \union {o}
<1> USE NoneAssumption DEF Typed, TypeOK
<1>1. /\ o \notin alive /\ alive' = alive \union {o} /\ path'[o] = p /\ parent'[o] = up
      /\ \A q \in alive : path'[q] = path[q] /\ parent'[q] = parent[q]
  BY DEF Allocate, alive
<1>2. \A q \in alive : parent[q] # None => parent[q] \in alive BY DEF Tree, Pointers
<1>3. up \in alive => up # None BY DEF alive
<1> HIDE DEF Typed, TypeOK
<1>4. ASSUME NEW q \in alive
      PROVE IF parent'[q] = None THEN path'[q] = <<>>
            ELSE path'[q] = Append(path'[parent'[q]], Last(path'[q]))
  <2>1. parent'[q] # None => path'[parent'[q]] = path[parent[q]] BY <1>1, <1>2
  <2> QED BY <1>1, <2>1 DEF Ancestry
<1>5. IF parent'[o] = None THEN path'[o] = <<>>
      ELSE path'[o] = Append(path'[parent'[o]], Last(path'[o]))
  BY <1>1, <1>3
<1> QED BY <1>1, <1>4, <1>5 DEF Ancestry

LEMMA DestroyKeepsAncestry ==
    ASSUME Typed, Tree, Ancestry, NEW t \in Thread, Destroy(t), lost \subseteq alive
    PROVE Ancestry' /\ lost' \subseteq alive'
<1> USE NoneAssumption DEF Typed, TypeOK
<1> PICK o \in alive :
      /\ Unreferenced(o)
      /\ lost' = (lost \union IF o \in lost /\ dirs' # dirs THEN Creators(path[o]) ELSE {}) \ {o}
      /\ owner' = [owner EXCEPT ![o] = None]
      /\ path' = [path EXCEPT ![o] = <<>>]
      /\ parent' = [parent EXCEPT ![o] = None]
  BY DEF Destroy
<1>1. alive' = alive \ {o} BY DEF alive
<1>2. \A q \in alive' : path'[q] = path[q] /\ parent'[q] = parent[q] BY <1>1
<1>3. \A c \in alive : parent[c] # o /\ (parent[c] # None => parent[c] \in alive)
  BY DEF Unreferenced, Tree, Pointers
<1>4. Ancestry' BY <1>1, <1>2, <1>3 DEF Ancestry
<1>5. Creators(path[o]) \subseteq alive BY DEF Creators
<1> QED BY <1>1, <1>4, <1>5

LEMMA NextNamed == Named /\ [Next]_vars => Named'
<1> SUFFICES ASSUME Named, [Next]_vars PROVE Named' OBVIOUS
<1> USE DEF Named
<1>1. Typed' /\ Tree' /\ OneCreator' BY NextTyped, NextTree, NextCreators
<1>2. CASE UNCHANGED vars BY <1>1, <1>2, SameAncestry DEF vars, objects, files
<1>3. CASE System
  <2>1. UNCHANGED objects BY <1>3 DEF System, Occupy, Vacate, OthersRmdir, OthersMkdir
  <2>2. lost' \subseteq lost \union alive
    BY <1>3 DEF System, Occupy, Vacate, OthersRmdir, OthersMkdir, Creators
  <2> QED BY <1>1, <2>1, <2>2, SameAncestry DEF objects
<1>4. ASSUME NEW t \in Thread, ThreadStep(t) PROVE Named'
  <2>1. CASE Destroy(t) BY <1>1, <2>1, DestroyKeepsAncestry
  <2>2. CASE Root(t)
    <3>1. PICK o \in Object : Allocate(o, t, <<>>, None, FALSE) /\ UNCHANGED files
      BY <2>2 DEF Root
    <3> QED BY <1>1, <3>1, NewAncestry DEF files
  <2>3. CASE Mkdir(t) \/ (AttachNew(t) /\ IsDirectory(t))
    <3>1. PICK o \in Object, b \in BOOLEAN : Allocate(o, t, Below(t), cur[t], b) /\ UNCHANGED lost
      BY <2>3 DEF Mkdir, AttachNew, files
    <3>2. op[t] # "idle" /\ rest[t] # <<>> /\ Component(t) \in Name
      BY <2>3 DEF Mkdir, AttachNew, Stepping
    <3>3. cur[t] \in Object /\ path[cur[t]] \in Path BY <3>2, SteppingTyped
    <3>4. cur[t] \in alive /\ cur[t] # None BY <3>3, NoneAssumption DEF Tree, Pointers
    <3>5. Below(t) = Append(path[cur[t]], Last(Below(t))) BY <3>2, <3>3, LastAppend DEF Below
    <3> QED BY <1>1, <3>1, <3>4, <3>5, NewAncestry
  <2>4. CASE \/ Return(t) \/ AttachDots(t) \/ AttachKnown(t) \/ CreateRefused(t)
             \/ MkdirFails(t) \/ ConfigureCpuSet(t) \/ ConfigureFails(t)
             \/ (AttachNew(t) /\ ~IsDirectory(t))
             \/ \E o \in Object : Release(t, o) \/ Parent(t, o)
             \/ \E o \in Object, kind \in {"attach", "create"}, request \in Request :
                   Call(t, o, kind, request)
    <3>1. UNCHANGED <<files, owner, path, parent>>
      BY <2>4 DEF Return, AttachDots, AttachKnown, CreateRefused, MkdirFails,
         ConfigureCpuSet, ConfigureFails, AttachNew, Release, Parent, Call, objects
    <3> QED BY <1>1, <3>1, SameAncestry DEF files
  <2> QED BY <1>4, <2>1, <2>2, <2>3, <2>4 DEF ThreadStep
<1> QED BY <1>2, <1>3, <1>4 DEF Next

LEMMA NamedHolds == Spec => []Named
<1>1. Init => Named
  BY InitTyped, InitTree DEF Init, Named, OneCreator, Owning, alive, Ancestry
<1> QED BY <1>1, NextNamed, PTL DEF Spec
\* The paths of a thread's objects.
LEMMA KnownAre ==
    ASSUME NEW t \in Thread, NEW p
    PROVE /\ p \in known[t] <=> \E o \in alive : owner[o] = t /\ path[o] = p
          /\ p \in held[t] <=> \E o \in alive : handles[o] > 0 /\ owner[o] = t /\ path[o] = p
          /\ p \in claims[t] <=> \E o \in alive : created[o] /\ owner[o] = t /\ path[o] = p
          /\ p \in sound[t] <=> \E o \in Owning : owner[o] = t /\ path[o] = p
BY DEF known, held, claims, sound, PathsOf

\* A step that makes no object and destroys none.
LEMMA SamePaths ==
    ASSUME UNCHANGED <<owner, path, created>>
    PROVE /\ UNCHANGED <<known, claims>>
          /\ UNCHANGED lost => UNCHANGED sound
          /\ UNCHANGED handles => UNCHANGED held
<1>1. alive' = alive BY DEF alive
<1>2. UNCHANGED lost => Owning' = Owning BY <1>1 DEF Owning
<1> QED BY <1>1, <1>2 DEF known, claims, sound, held, PathsOf

\* The thread's call stays where it is, and so do all the others'.
LEMMA SamePlaces ==
    ASSUME UNCHANGED <<op, cur, fresh>>, \A t \in Thread : cur[t] # None => path'[cur[t]] = path[cur[t]],
           \A t \in Thread : cur[t] = None <=> op[t] = "idle"
    PROVE UNCHANGED <<at, configuring>>
BY DEF at, configuring

\* The call of one thread moves to an object, or ends.
LEMMA MovedPlace ==
    ASSUME Typed, NEW t \in Thread, UNCHANGED <<op, fresh>>, op[t] # "idle", NEW o \in Object,
           Advance(t, o), \A s \in Thread : cur[s] # None => path'[cur[s]] = path[cur[s]]
    PROVE at' = [at EXCEPT ![t] = path'[o]] /\ UNCHANGED configuring
<1>1. \A s \in Thread \ {t} : cur'[s] = cur[s] BY DEF Advance, Typed, TypeOK
<1>2. cur'[t] = o BY DEF Advance, Typed, TypeOK
<1>3. \A s \in Thread : op[s] # "idle" => cur[s] # None BY DEF Typed, TypeOK
<1> QED BY <1>1, <1>2, <1>3 DEF at, configuring
\* A new object is its thread's, at its path.
LEMMA NewPaths ==
    ASSUME Typed, lost \subseteq alive, NEW t \in Thread, NEW o \in Object, NEW p, NEW up,
           NEW b \in BOOLEAN, Allocate(o, t, p, up, b), UNCHANGED lost
    PROVE /\ known' = Paths!More(known, t, p)
          /\ claims' = IF b THEN Paths!More(claims, t, p) ELSE claims
          /\ sound' = IF b THEN Paths!More(sound, t, p) ELSE sound
          /\ handles'[o] = 0 /\ (\A q \in alive : handles'[q] = handles[q]) => held' = held
          /\ \A q \in alive : path'[q] = path[q]
<1> USE NoneAssumption DEF Typed, TypeOK
<1>1. /\ o \notin alive /\ alive' = alive \union {o}
      /\ owner'[o] = t /\ path'[o] = p /\ created'[o] = b
      /\ \A q \in alive : owner'[q] = owner[q] /\ path'[q] = path[q] /\ created'[q] = created[q]
  BY DEF Allocate, alive
<1>2. o \notin lost BY <1>1
<1> HIDE DEF Typed, TypeOK
<1>3. known' = Paths!More(known, t, p)
  <2>1. \A u \in Thread : known'[u] = IF u = t THEN known[u] \union {p} ELSE known[u]
    BY <1>1 DEF known, PathsOf
  <2> QED BY <2>1 DEF Paths!More, known, PathsOf
<1>4. claims' = IF b THEN Paths!More(claims, t, p) ELSE claims
  <2>1. \A u \in Thread : claims'[u] = IF u = t /\ b THEN claims[u] \union {p} ELSE claims[u]
    BY <1>1 DEF claims, PathsOf
  <2> QED BY <2>1 DEF Paths!More, claims, PathsOf
<1>5. sound' = IF b THEN Paths!More(sound, t, p) ELSE sound
  <2>1. \A q : q \in Owning' <=> q \in Owning \/ (b /\ q = o) BY <1>1, <1>2 DEF Owning
  <2>2. Owning \subseteq alive BY DEF Owning
  <2>3. \A u \in Thread : sound'[u] = IF u = t /\ b THEN sound[u] \union {p} ELSE sound[u]
    BY <1>1, <2>1, <2>2 DEF sound, PathsOf
  <2> QED BY <2>3 DEF Paths!More, sound, PathsOf
<1>6. ASSUME handles'[o] = 0, \A q \in alive : handles'[q] = handles[q] PROVE held' = held
  <2>1. \A u \in Thread : held'[u] = held[u] BY <1>1, <1>6 DEF held, PathsOf
  <2> QED BY <2>1 DEF held, PathsOf
<1> QED BY <1>1, <1>3, <1>4, <1>5, <1>6
\* Both modules say the same of paths.
LEMMA PathsAgree ==
    /\ Paths!Path = Path /\ \A p : Paths!Front(p) = Front(p)
    /\ \A p : Paths!Removable(p) <=> Removable(p)
BY DEF Path, Paths!Path, Front, Paths!Front, IsPrefix, Paths!IsPrefix, HasSubgroup,
       Paths!HasSubgroup, Removable, Paths!Removable

\* A directory that is removed makes the claims to it worthless.
LEMMA SoundWithout ==
    ASSUME UNCHANGED <<owner, path, created>>, NEW p, lost' = lost \union Creators(p)
    PROVE sound' = [u \in Thread |-> sound[u] \ {p}]
<1>1. alive' = alive BY DEF alive
<1>2. \A q : q \in Owning' <=> q \in Owning /\ path[q] # p BY <1>1 DEF Owning, Creators
<1>3. \A u \in Thread : sound'[u] = sound[u] \ {p} BY <1>2 DEF sound, PathsOf
<1> QED BY <1>3 DEF sound, PathsOf

LEMMA SystemActs == ASSUME Named, System PROVE Paths!Next \/ UNCHANGED Paths!vars
<1>1. UNCHANGED <<objects, handles, calls>>
  BY DEF System, Occupy, Vacate, OthersRmdir, OthersMkdir
<1>2. UNCHANGED <<known, held, claims, at, configuring, op, rest>>
  BY <1>1, SamePaths, SamePlaces DEF objects, calls, Named, Typed, TypeOK
<1>3. UNCHANGED lost => UNCHANGED sound BY <1>1, SamePaths DEF objects
<1> USE DEF Paths!pointers, Paths!calls
<1>4. ASSUME NEW p \in dirs, Occupy(p) \/ Vacate(p) PROVE Paths!Occupation
  BY <1>2, <1>3, <1>4 DEF Occupy, Vacate, Paths!Occupation
<1>5. ASSUME NEW p \in dirs, OthersRmdir(p)
      PROVE p \in Paths!Path \ {<<>>} /\ Paths!OthersRmdir(p)
  <2>1. p \in Paths!Path \ {<<>>}
    BY <1>5, PathsAgree DEF OthersRmdir, Removable, Named, Typed, TypeOK
  <2>2. sound' = [u \in Thread |-> sound[u] \ {p}]
    BY <1>1, <1>5, SoundWithout DEF OthersRmdir, objects
  <2>3. Paths!Removable(p) BY <1>5, PathsAgree DEF OthersRmdir
  <2> QED BY <1>2, <1>5, <2>1, <2>2, <2>3 DEF OthersRmdir, Paths!OthersRmdir
<1>6. ASSUME NEW p \in Path \ {<<>>}, OthersMkdir(p)
      PROVE p \in Paths!Path \ {<<>>} /\ Paths!OthersMkdir(p)
  BY <1>2, <1>3, <1>6, PathsAgree DEF OthersMkdir, Paths!OthersMkdir
<1> QED BY <1>4, <1>5, <1>6 DEF System, Paths!Next

\* Objects that are not touched, by a call or between calls.
LEMMA SameFiles ==
    ASSUME UNCHANGED <<files, owner, path, created>>
    PROVE UNCHANGED <<Paths!files, known, claims, sound>>
BY SamePaths DEF files, Paths!files

\* What the program has pointers to.
LEMMA HeldAfter ==
    ASSUME Typed, NEW o \in alive, owner[o] \in Thread, UNCHANGED <<owner, path>>,
           \A q \in Object \ {o} : handles'[q] = handles[q]
    PROVE /\ handles'[o] > 0 => held' = Paths!More(held, owner[o], path[o])
          /\ \/ UNCHANGED held
             \/ held' = Paths!More(held, owner[o], path[o])
             \/ held' = Paths!Less(held, owner[o], path[o])
<1> DEFINE t == owner[o]
           p == path[o]
<1>1. alive' = alive /\ alive \subseteq Object BY DEF alive
<1>2. \A u \in Thread : u # t => held'[u] = held[u] BY <1>1 DEF held, PathsOf
<1>3. \A x : x # p => (x \in held'[t] <=> x \in held[t]) BY <1>1 DEF held, PathsOf
<1>4. handles'[o] > 0 => p \in held'[t] BY <1>1 DEF held, PathsOf
<1>5. held = [u \in Thread |-> held[u]] /\ held' = [u \in Thread |-> held'[u]]
  BY DEF held, PathsOf
<1> HIDE DEF t, p
<1>6. held'[t] = held[t] \/ held'[t] = held[t] \union {p} \/ held'[t] = held[t] \ {p}
  BY <1>3
<1>7. p \in held'[t] => held'[t] = held[t] \union {p} BY <1>3
<1>8. t \in Thread BY DEF t
<1>9. held'[t] = held[t] => held' = held BY <1>2, <1>5
<1>10. held'[t] = held[t] \union {p} => held' = Paths!More(held, t, p)
  BY <1>2, <1>5, <1>8 DEF Paths!More
<1>11. held'[t] = held[t] \ {p} => held' = Paths!Less(held, t, p)
  BY <1>2, <1>5, <1>8 DEF Paths!Less
<1>12. handles'[o] > 0 => held' = Paths!More(held, t, p) BY <1>4, <1>7, <1>10
<1> QED BY <1>6, <1>9, <1>10, <1>11, <1>12 DEF t, p
\* Where the thread's call is.
LEMMA PlaceIs ==
    ASSUME Named, NEW t \in Thread
    PROVE /\ cur[t] = None <=> op[t] = "idle"
          /\ cur[t] # None =>
                /\ cur[t] \in alive /\ owner[cur[t]] = t /\ at[t] = path[cur[t]]
                /\ at[t] \in known[t] /\ Below(t) = Paths!Below(t)
          /\ configuring[t] = (fresh[t] # None)
          /\ fresh[t] # None => op[t] = "create" /\ rest[t] # <<>>
<1>1. cur[t] = None <=> op[t] = "idle" BY DEF Named, Typed, TypeOK
<1>2. cur[t] # None => cur[t] \in alive /\ owner[cur[t]] = t BY DEF Named, Tree, Pointers
<1>3. cur[t] # None => at[t] = path[cur[t]] BY <1>1 DEF at
<1>4. cur[t] # None => at[t] \in known[t] BY <1>2, <1>3, KnownAre
<1>5. cur[t] # None => Below(t) = Paths!Below(t) BY <1>3 DEF Below, Paths!Below, Component
<1> QED BY <1>1, <1>2, <1>3, <1>4, <1>5 DEF configuring, Named, Typed, InCall

LEMMA RootActs == ASSUME Named, NEW t \in Thread, Root(t) PROVE Paths!Root(t)
<1> PICK o \in Object : Allocate(o, t, <<>>, None, FALSE) /\ handles' = [handles EXCEPT ![o] = 1]
  BY DEF Root
<1>1. op[t] = "idle" /\ UNCHANGED <<files, child, calls>> BY DEF Root, Idle
<1>2. /\ known' = Paths!More(known, t, <<>>) /\ UNCHANGED <<claims, sound>>
      /\ \A q \in alive : path'[q] = path[q]
  BY <1>1, NewPaths DEF Named, files
<1>3. held' = Paths!More(held, t, <<>>)
  <2>1. /\ o \notin alive /\ alive' = alive \union {o} /\ owner'[o] = t /\ path'[o] = <<>>
        /\ \A q \in alive : owner'[q] = owner[q] /\ path'[q] = path[q]
    BY NoneAssumption DEF Allocate, alive, Named, Typed, TypeOK
  <2>2. handles'[o] = 1 /\ \A q \in alive : handles'[q] = handles[q]
    BY <2>1 DEF alive, Named, Typed, TypeOK
  <2>3. \A u \in Thread : held'[u] = IF u = t THEN held[u] \union {<<>>} ELSE held[u]
    BY <2>1, <2>2 DEF held, PathsOf
  <2> QED BY <2>3 DEF Paths!More, held, PathsOf
<1>4. \A s \in Thread : /\ cur[s] = None <=> op[s] = "idle"
                        /\ cur[s] # None => path'[cur[s]] = path[cur[s]]
  BY <1>2, PlaceIs
<1>5. UNCHANGED <<at, configuring>> BY <1>1, <1>4, SamePlaces DEF calls
<1> QED BY <1>1, <1>2, <1>3, <1>5 DEF Paths!Root, Paths!files, Paths!calls, files, calls

\* The other operations between two calls, and the end of a call.
LEMMA ProgramActs ==
    ASSUME Named, NEW t \in Thread, NEW o \in Object, handles[o] > 0, owner[o] = t,
           \/ Release(t, o) \/ Parent(t, o)
           \/ \E kind \in {"attach", "create"}, request \in Request : Call(t, o, kind, request)
    PROVE Paths!Next \/ UNCHANGED Paths!vars
<1>1. o \in alive BY NoneAssumption DEF alive
<1>2. path[o] \in held[t] /\ path[o] \in known[t] BY <1>1, KnownAre
<1>3. UNCHANGED <<files, objects, fresh>> /\ op[t] = "idle"
  BY DEF Release, Parent, Call, calls, Idle
<1>4. UNCHANGED <<Paths!files, known, claims, sound>> BY <1>3, SameFiles DEF objects
<1>5. \A s \in Thread : cur[s] = None <=> op[s] = "idle" BY PlaceIs
<1>6. CASE Release(t, o)
  <2>1. UNCHANGED calls /\ \A q \in Object \ {o} : handles'[q] = handles[q]
    BY <1>6 DEF Release, Named, Typed, TypeOK
  <2>2. UNCHANGED <<at, configuring>> BY <1>3, <1>5, <2>1, SamePlaces DEF calls, objects
  <2>3. \/ UNCHANGED held \/ held' = Paths!Less(held, t, path[o])
        \/ held' = Paths!More(held, t, path[o])
    BY <1>1, <1>3, <2>1, HeldAfter DEF Named, objects
  <2>4. Paths!More(held, t, path[o]) = held BY <1>2 DEF Paths!More, held, PathsOf
  <2>5. CASE UNCHANGED held
    BY <1>4, <2>1, <2>2, <2>5 DEF Paths!vars, Paths!pointers, Paths!calls, calls
  <2>6. CASE held' = Paths!Less(held, t, path[o])
    <3>1. Paths!Release(t, path[o])
      BY <1>2, <1>3, <1>4, <2>1, <2>2, <2>6 DEF Paths!Release, Paths!calls, calls
    <3> QED BY <1>2, <3>1 DEF Paths!Next
  <2> QED BY <2>3, <2>4, <2>5, <2>6
<1>7. CASE Parent(t, o)
  <2>1. parent[o] # None BY <1>7 DEF Parent
  <2>2. /\ parent[o] \in alive /\ owner[parent[o]] = t
        /\ path[o] # <<>> /\ Front(path[o]) = path[parent[o]]
    BY <1>1, <2>1, ParentPath
  <2>3. /\ UNCHANGED calls /\ handles'[parent[o]] > 0
        /\ \A q \in Object \ {parent[o]} : handles'[q] = handles[q]
    <3>1. parent[o] \in Object /\ handles[parent[o]] \in Nat
      BY <2>2, BoundAssumption DEF alive, Named, Typed, TypeOK
    <3> QED BY <1>7, <3>1 DEF Parent, Named, Typed, TypeOK
  <2>4. UNCHANGED <<at, configuring>> BY <1>3, <1>5, <2>3, SamePlaces DEF calls, objects
  <2>5. held' = Paths!More(held, t, Paths!Front(path[o]))
    BY <1>3, <2>2, <2>3, HeldAfter, PathsAgree DEF Named, objects
  <2>6. Paths!Parent(t, path[o])
    BY <1>2, <1>3, <1>4, <2>2, <2>3, <2>4, <2>5 DEF Paths!Parent, Paths!calls, calls
  <2> QED BY <1>2, <2>6 DEF Paths!Next
<1>8. ASSUME NEW kind \in {"attach", "create"}, NEW request \in Request, Call(t, o, kind, request)
      PROVE Paths!Next
  <2>1. UNCHANGED handles /\ op' = [op EXCEPT ![t] = kind] /\ rest' = [rest EXCEPT ![t] = request]
    BY <1>8 DEF Call
  <2>2. UNCHANGED held BY <1>3, <2>1, SamePaths DEF objects
  <2>3. at' = [at EXCEPT ![t] = path[o]] /\ UNCHANGED configuring
    <3>1. /\ op'[t] # "idle" /\ cur'[t] = o /\ UNCHANGED path
          /\ \A s \in Thread \ {t} : op'[s] = op[s] /\ cur'[s] = cur[s]
      BY <1>3, <1>8 DEF Call, Named, Typed, TypeOK, objects
    <3> QED BY <1>3, <3>1 DEF at, configuring
  <2>4. Paths!Call(t, path[o], kind, request)
    BY <1>2, <1>3, <1>4, <2>1, <2>2, <2>3 DEF Paths!Call, Paths!pointers
  <2> QED BY <1>2, <2>4 DEF Paths!Next
<1> QED BY <1>6, <1>7, <1>8
LEMMA ReturnActs == ASSUME Named, NEW t \in Thread, Return(t) PROVE Paths!Return(t)
<1>1. /\ op[t] # "idle" /\ rest[t] = <<>> /\ UNCHANGED <<files, objects, rest, fresh>>
      /\ op' = [op EXCEPT ![t] = "idle"]
  BY DEF Return
<1>2. cur[t] \in alive /\ owner[cur[t]] = t /\ at[t] = path[cur[t]] BY <1>1, PlaceIs
<1>3. handles'[cur[t]] > 0 /\ \A q \in Object \ {cur[t]} : handles'[q] = handles[q]
  <2>1. cur[t] \in Object /\ handles[cur[t]] \in Nat
    BY <1>2, BoundAssumption DEF alive, Named, Typed, TypeOK
  <2> QED BY <2>1 DEF Return, Named, Typed, TypeOK
<1>4. held' = Paths!More(held, t, at[t])
  BY <1>1, <1>2, <1>3, HeldAfter DEF Named, objects
<1>5. at' = [at EXCEPT ![t] = <<>>] /\ UNCHANGED configuring
  <2>1. /\ op'[t] = "idle" /\ UNCHANGED path
        /\ \A s \in Thread \ {t} : op'[s] = op[s] /\ cur'[s] = cur[s]
    BY <1>1 DEF Return, Named, Typed, TypeOK, objects
  <2> QED BY <1>1, <2>1 DEF at, configuring
<1>6. UNCHANGED <<Paths!files, known, claims, sound>> BY <1>1, SameFiles DEF objects
<1> QED BY <1>1, <1>4, <1>5, <1>6 DEF Paths!Return, Paths!Leave

\* An exception leaves every object for the destructors.
LEMMA ThrowActs ==
    ASSUME Named, NEW t \in Thread, Throw(t), UNCHANGED <<files, objects, handles>>,
           op[t] # "idle", rest[t] # <<>>,
           (UNCHANGED fresh /\ fresh[t] = None) \/ fresh' = [fresh EXCEPT ![t] = None]
    PROVE Paths!Fail(t)
<1>1. UNCHANGED <<Paths!files, known, claims, sound, held>>
  BY SameFiles, SamePaths DEF objects
<1>2. at' = [at EXCEPT ![t] = <<>>]
  <2>1. /\ op'[t] = "idle" /\ UNCHANGED path
        /\ \A s \in Thread \ {t} : op'[s] = op[s] /\ cur'[s] = cur[s]
    BY DEF Throw, Named, Typed, TypeOK, objects
  <2> QED BY <2>1 DEF at
<1>3. configuring' = [configuring EXCEPT ![t] = FALSE]
  <2>1. fresh'[t] = None /\ \A s \in Thread \ {t} : fresh'[s] = fresh[s]
    BY DEF Named, Typed, TypeOK
  <2> QED BY <2>1 DEF configuring
<1> QED BY <1>1, <1>2, <1>3 DEF Paths!Fail, Paths!Leave, Paths!pointers, Throw

\* Steps that end with an exception, or go to an object that is there.
LEMMA LoopActs ==
    ASSUME Named, NEW t \in Thread,
           \/ AttachDots(t) \/ AttachKnown(t) \/ (AttachNew(t) /\ ~IsDirectory(t))
           \/ CreateRefused(t) \/ MkdirFails(t) \/ ConfigureFails(t)
    PROVE Paths!Fail(t) \/ Paths!AttachDots(t) \/ Paths!Attach(t)
<1>1. CASE ConfigureFails(t)
  <2>1. op[t] # "idle" /\ rest[t] # <<>>
    BY <1>1, PlaceIs DEF ConfigureFails
  <2> QED BY <1>1, <2>1, ThrowActs DEF ConfigureFails
<1>2. CASE (AttachNew(t) /\ ~IsDirectory(t)) \/ CreateRefused(t) \/ MkdirFails(t)
  <2>1. op[t] # "idle" /\ rest[t] # <<>> /\ fresh[t] = None /\ Throw(t)
    BY <1>2 DEF AttachNew, CreateRefused, MkdirFails, Stepping
  <2>2. cur[t] \in Object BY <2>1, SteppingTyped DEF Named
  <2>3. UNCHANGED <<files, objects, handles, fresh>>
    <3>1. CASE CreateRefused(t) BY <3>1 DEF CreateRefused
    <3>2. CASE (AttachNew(t) /\ ~IsDirectory(t)) \/ MkdirFails(t)
      <4>1. /\ Component(t) \in Name /\ child[cur[t]][Component(t)] = None /\ EraseFailed(t)
            /\ UNCHANGED <<files, owner, path, parent, created, handles, fresh>>
        BY <3>2 DEF AttachNew, MkdirFails, Refused
      <4> QED BY <2>2, <4>1, EraseNothing DEF Named, objects
    <3> QED BY <1>2, <3>1, <3>2
  <2> QED BY <2>1, <2>3, ThrowActs
<1>3. ASSUME NEW o \in alive, op[t] = "attach", rest[t] # <<>>, Advance(t, o),
             UNCHANGED <<files, objects, handles, fresh>>
      PROVE /\ UNCHANGED <<Paths!files, known, claims, sound, held, configuring>>
            /\ at' = [at EXCEPT ![t] = path[o]]
            /\ rest' = [rest EXCEPT ![t] = Tail(@)] /\ UNCHANGED op
  <2>1. UNCHANGED <<Paths!files, known, claims, sound, held>>
    BY <1>3, SameFiles, SamePaths DEF objects
  <2>2. o \in Object /\ UNCHANGED <<op, path>> BY <1>3 DEF alive, Advance, objects
  <2>3. at' = [at EXCEPT ![t] = path[o]] /\ UNCHANGED configuring
    BY <1>3, <2>2, MovedPlace DEF Named
  <2> QED BY <1>3, <2>1, <2>2, <2>3 DEF Advance
<1>4. CASE AttachDots(t)
  <2> DEFINE o == IF Component(t) = "." THEN cur[t] ELSE Up(t)
  <2>1. /\ op[t] = "attach" /\ rest[t] # <<>> /\ Advance(t, o)
        /\ UNCHANGED <<files, objects, handles, fresh>> /\ Head(rest[t]) \in {".", ".."}
    BY <1>4 DEF AttachDots, Stepping, Component
  <2>2. cur[t] \in alive /\ at[t] = path[cur[t]] BY <2>1, PlaceIs
  <2>3. o \in alive /\ path[o] = IF Head(rest[t]) = "." THEN at[t] ELSE Paths!Up(at[t])
    <3>1. CASE Head(rest[t]) = "." BY <2>2, <3>1 DEF Component
    <3>2. CASE Head(rest[t]) # "." /\ parent[cur[t]] = None
      <4>1. o = cur[t] /\ path[cur[t]] = <<>>
        BY <2>2, <3>2, ParentPath DEF Component, Up
      <4> QED BY <2>2, <3>2, <4>1 DEF Paths!Up
    <3>3. CASE Head(rest[t]) # "." /\ parent[cur[t]] # None
      <4>1. o = parent[cur[t]] BY <3>3 DEF Component, Up
      <4> QED BY <2>2, <3>3, <4>1, ParentPath, PathsAgree DEF Paths!Up
    <3> QED BY <3>1, <3>2, <3>3
  <2> HIDE DEF o
  <2> QED
    BY <1>3, <2>1, <2>3 DEF Paths!AttachDots, Paths!Walking, Paths!Advance, Paths!pointers
<1>5. CASE AttachKnown(t)
  <2> DEFINE o == child[cur[t]][Component(t)]
  <2>1. /\ op[t] = "attach" /\ rest[t] # <<>> /\ Head(rest[t]) \in Name
        /\ Component(t) \in Name /\ o # None /\ Advance(t, o)
        /\ UNCHANGED <<files, objects, handles, fresh>>
    BY <1>5 DEF AttachKnown, Stepping, Component
  <2>2. cur[t] \in alive /\ owner[cur[t]] = t /\ Below(t) = Paths!Below(t)
    BY <2>1, PlaceIs
  <2>3. o \in alive /\ owner[o] = owner[cur[t]] /\ path[o] = Below(t)
    <3>1. Typed /\ Tree BY DEF Named
    <3>2. o \in alive /\ owner[o] = owner[cur[t]]
      BY <2>1, <2>2, <3>1, FiledIsEntered, Zenon
    <3>3. path[o] = Append(path[cur[t]], Component(t))
      <4> HIDE DEF Component
      <4> QED BY <2>1, <2>2, <3>1 DEF Tree, Pointers
    <3> QED BY <3>2, <3>3 DEF Below
  <2> HIDE DEF o
  <2>4. Below(t) \in known[t] BY <2>2, <2>3, KnownAre
  <2>5. Paths!More(known, t, Below(t)) = known BY <2>4 DEF Paths!More, known, PathsOf
  <2> QED
    BY <1>3, <2>1, <2>2, <2>3, <2>4, <2>5 DEF Paths!Attach, Paths!Walking, Paths!Advance
<1> QED BY <1>1, <1>2, <1>4, <1>5
\* A new child of the group the call is at.
LEMMA ChildActs ==
    ASSUME Named, NEW t \in Thread, Mkdir(t) \/ (AttachNew(t) /\ IsDirectory(t))
    PROVE Paths!Create(t) \/ Paths!Attach(t)
<1>1. /\ op[t] # "idle" /\ rest[t] # <<>> /\ fresh[t] = None /\ Head(rest[t]) \in Name
      /\ UNCHANGED handles
  BY DEF Mkdir, AttachNew, Stepping, Component
<1>2. at[t] = path[cur[t]] /\ Below(t) = Paths!Below(t) BY <1>1, PlaceIs
<1>3. PICK o \in Object, b \in BOOLEAN :
        /\ Allocate(o, t, Below(t), cur[t], b) /\ UNCHANGED <<busy, lost>>
        /\ \/ /\ AttachNew(t) /\ IsDirectory(t) /\ b = FALSE
              /\ Advance(t, o) /\ UNCHANGED <<dirs, fresh>>
           \/ /\ Mkdir(t) /\ b = TRUE /\ dirs' = dirs \union {Below(t)}
              /\ \/ Advance(t, o) /\ UNCHANGED fresh
                 \/ fresh' = [fresh EXCEPT ![t] = o] /\ UNCHANGED <<cur, rest, op>>
  BY DEF Mkdir, AttachNew, files
<1>4. handles'[o] = 0
  BY <1>1, <1>3 DEF Allocate, Named, Tree, Pointers
<1>5. /\ known' = Paths!More(known, t, Below(t)) /\ UNCHANGED held
      /\ claims' = IF b THEN Paths!More(claims, t, Below(t)) ELSE claims
      /\ sound' = IF b THEN Paths!More(sound, t, Below(t)) ELSE sound
      /\ \A q \in alive : path'[q] = path[q]
  <2>1. \A q \in alive : handles'[q] = handles[q] BY <1>1
  <2> QED BY <1>3, <1>4, <2>1, NewPaths DEF Named
<1>6. path'[o] = Below(t) BY <1>3 DEF Allocate, Named, Typed, TypeOK
<1>7. \A s \in Thread : /\ cur[s] = None <=> op[s] = "idle"
                        /\ cur[s] # None => path'[cur[s]] = path[cur[s]]
  BY <1>5, PlaceIs
<1>8. ASSUME Advance(t, o), UNCHANGED fresh
      PROVE Paths!Advance(t, Below(t)) /\ UNCHANGED configuring
  <2>1. UNCHANGED op BY <1>8 DEF Advance
  <2>2. at' = [at EXCEPT ![t] = path'[o]] /\ UNCHANGED configuring
    BY <1>1, <1>7, <1>8, <2>1, MovedPlace DEF Named
  <2> QED BY <1>6, <1>8, <2>1, <2>2 DEF Advance, Paths!Advance
<1>9. CASE AttachNew(t) /\ IsDirectory(t) /\ b = FALSE /\ Advance(t, o) /\ UNCHANGED <<dirs, fresh>>
  <2>1. op[t] = "attach" /\ Below(t) \in dirs BY <1>9 DEF AttachNew, Stepping, IsDirectory
  <2> QED
    BY <1>1, <1>2, <1>3, <1>5, <1>8, <1>9, <2>1
    DEF Paths!Attach, Paths!Walking, Paths!files
<1>10. CASE Mkdir(t) /\ b = TRUE /\ dirs' = dirs \union {Below(t)}
  <2>1. op[t] = "create" /\ at[t] \in dirs /\ Below(t) \notin dirs /\ ~configuring[t]
    BY <1>1, <1>2, <1>10, PlaceIs DEF Mkdir, Stepping, Absent
  <2>2. \/ Paths!Advance(t, Below(t)) /\ UNCHANGED configuring
        \/ configuring' = [configuring EXCEPT ![t] = TRUE] /\ UNCHANGED <<op, at, rest>>
    <3>1. CASE Advance(t, o) /\ UNCHANGED fresh BY <1>8, <3>1
    <3>2. CASE fresh' = [fresh EXCEPT ![t] = o] /\ UNCHANGED <<cur, rest, op>>
      <4>1. UNCHANGED at BY <1>7, <3>2 DEF at
      <4>2. fresh'[t] # None /\ \A s \in Thread \ {t} : fresh'[s] = fresh[s]
        BY <3>2, NoneAssumption DEF Named, Typed, TypeOK
      <4>3. configuring' = [configuring EXCEPT ![t] = TRUE] BY <4>2 DEF configuring
      <4> QED BY <3>2, <4>1, <4>3
    <3> QED BY <1>3, <1>10, <3>1, <3>2 DEF AttachNew, Mkdir, Stepping
  <2> QED BY <1>1, <1>2, <1>3, <1>5, <1>10, <2>1, <2>2 DEF Paths!Create, Paths!Walking
<1> QED BY <1>3, <1>9, <1>10

LEMMA ConfigureActs ==
    ASSUME Named, NEW t \in Thread, ConfigureCpuSet(t) PROVE Paths!Configure(t)
<1> DEFINE o == fresh[t]
<1>1. /\ o # None /\ path[o] \in dirs /\ Advance(t, o) /\ fresh' = [fresh EXCEPT ![t] = None]
      /\ UNCHANGED <<files, owner, path, parent, created, handles>>
  BY DEF ConfigureCpuSet
<1>2. op[t] = "create" /\ rest[t] # <<>> /\ configuring[t] BY <1>1, PlaceIs
<1>3. o \in alive /\ path[o] = Below(t) /\ Below(t) = Paths!Below(t)
  BY <1>1, <1>2, PlaceIs DEF Named, Tree, Pointers
<1>4. UNCHANGED <<Paths!files, known, claims, sound, held>>
  BY <1>1, SameFiles, SamePaths DEF files
<1>5. UNCHANGED op /\ \A s \in Thread \ {t} : cur'[s] = cur[s] /\ fresh'[s] = fresh[s]
  BY <1>1 DEF Advance, Named, Typed, TypeOK
<1>6. cur'[t] = o /\ fresh'[t] = None BY <1>1 DEF Advance, Named, Typed, TypeOK
<1>7. at' = [at EXCEPT ![t] = path[o]]
  BY <1>1, <1>2, <1>5, <1>6 DEF at
<1>8. configuring' = [configuring EXCEPT ![t] = FALSE] BY <1>5, <1>6 DEF configuring
<1> HIDE DEF o
<1> QED
  BY <1>1, <1>2, <1>3, <1>4, <1>5, <1>7, <1>8
  DEF Paths!Configure, Paths!Walking, Paths!Advance, Paths!pointers, Advance
\* A destructor: the thread's last object of a group goes only when nothing
\* needs the group.
LEMMA DestroyActs ==
    ASSUME Named, NEW t \in Thread, Destroy(t)
    PROVE \E p \in known[t] : Paths!Forget(t, p)
<1> USE NoneAssumption
<1>0. PICK o \in alive :
      /\ owner[o] = t /\ Unreferenced(o)
      /\ dirs' = DirsAfter(o)
      /\ lost' = (lost \union IF o \in lost /\ dirs' # dirs THEN Creators(path[o]) ELSE {}) \ {o}
      /\ owner' = [owner EXCEPT ![o] = None]
      /\ path' = [path EXCEPT ![o] = <<>>]
      /\ created' = [created EXCEPT ![o] = FALSE]
      /\ UNCHANGED <<busy, handles, calls>>
  BY DEF Destroy
<1> DEFINE p == path[o]
<1>1. /\ alive' = alive \ {o} /\ o \in Object
      /\ \A q \in alive \ {o} : owner'[q] = owner[q] /\ path'[q] = path[q] /\ created'[q] = created[q]
  BY <1>0 DEF alive, Named, Typed, TypeOK
<1>2. /\ handles[o] = 0 /\ \A s \in Thread : cur[s] # o /\ fresh[s] # o
      /\ \A c \in alive : parent[c] # o
  BY <1>0 DEF Unreferenced, Unheld
<1>3. p \in known[t] BY <1>0, KnownAre
<1>4. UNCHANGED known \/ (known' = Paths!Less(known, t, p) /\ Paths!Unneeded(t, p))
  <2>1. CASE \E q \in alive \ {o} : owner[q] = t /\ path[q] = p
    <3>1. \A u \in Thread : known'[u] = known[u]
      BY <1>0, <1>1, <2>1 DEF known, PathsOf
    <3> QED BY <3>1 DEF known, PathsOf
  <2>2. CASE ~\E q \in alive \ {o} : owner[q] = t /\ path[q] = p
    <3>1. \A u \in Thread : known'[u] = IF u = t THEN known[u] \ {p} ELSE known[u]
      BY <1>0, <1>1, <2>2 DEF known, PathsOf
    <3>2. known' = Paths!Less(known, t, p) BY <3>1 DEF Paths!Less, known, PathsOf
    <3>3. p \notin held[t]
      <4>1. ~\E q \in alive : handles[q] > 0 /\ owner[q] = t /\ path[q] = p BY <1>2, <2>2
      <4> QED BY <4>1, KnownAre
    <3>4. op[t] # "idle" => at[t] # p BY <1>2, <2>2, PlaceIs
    <3>5. ~(configuring[t] /\ Paths!Below(t) = p)
      <4> SUFFICES ASSUME fresh[t] # None, Paths!Below(t) = p PROVE FALSE BY PlaceIs
      <4>1. Below(t) = p BY PlaceIs
      <4>2. fresh[t] \in alive /\ owner[fresh[t]] = t /\ path[fresh[t]] = Below(t)
        BY DEF Named, Tree, Pointers
      <4> QED BY <1>2, <2>2, <4>1, <4>2
    <3>6. ASSUME NEW x \in known[t], x # <<>> PROVE Paths!Front(x) # p
      <4>1. PICK c \in alive : owner[c] = t /\ path[c] = x BY KnownAre
      <4>2. parent[c] \in alive /\ owner[parent[c]] = t /\ Front(x) = path[parent[c]]
        BY <3>6, <4>1, ParentPath
      <4> QED BY <1>2, <2>2, <4>2, PathsAgree
    <3> QED BY <3>2, <3>3, <3>4, <3>5, <3>6 DEF Paths!Unneeded
  <2> QED BY <2>1, <2>2
<1>5. \A x : x # p \/ (\E q \in alive \ {o} : created[q] /\ owner[q] = t /\ path[q] = p)
             => (x \in claims'[t] <=> x \in claims[t])
  BY <1>0, <1>1 DEF claims, PathsOf
<1>6. UNCHANGED claims \/ claims' = Paths!Less(claims, t, p)
  <2>1. \A u \in Thread : u # t => claims'[u] = claims[u]
    BY <1>0, <1>1 DEF claims, PathsOf
  <2>2. claims'[t] = claims[t] \/ claims'[t] = claims[t] \ {p}
    <3>1. \A x : x # p => (x \in claims'[t] <=> x \in claims[t]) BY <1>5
    <3>2. claims'[t] \subseteq claims[t] BY <1>0, <1>1 DEF claims, PathsOf
    <3> HIDE DEF p
    <3> QED BY <3>1, <3>2
  <2>3. claims = [u \in Thread |-> claims[u]] /\ claims' = [u \in Thread |-> claims'[u]]
    BY DEF claims, PathsOf
  <2>4. claims'[t] = claims[t] => UNCHANGED claims BY <2>1, <2>3
  <2>5. claims'[t] = claims[t] \ {p} => claims' = Paths!Less(claims, t, p)
    BY <2>1, <2>3 DEF Paths!Less
  <2> QED BY <2>2, <2>4, <2>5
<1>7. \/ UNCHANGED <<dirs, sound>> /\ (p \in sound[t] => p \in claims'[t])
      \/ /\ p \in claims[t]
         /\ dirs' = IF Paths!Removable(p) THEN dirs \ {p} ELSE dirs
         /\ sound' = [u \in Thread |-> sound[u] \ {p}]
  <2>1. created[o] => p \in claims[t] BY <1>0, KnownAre
  <2>2. created[o] => dirs' = IF Paths!Removable(p) THEN dirs \ {p} ELSE dirs
    BY <1>0, PathsAgree DEF DirsAfter
  <2>3. CASE o \in Owning
    <3>1. created[o] /\ o \notin lost BY <2>3 DEF Owning
    <3>2. \A q : q \in Owning' <=> q \in Owning \ {o}
      BY <1>0, <1>1, <3>1 DEF Owning
    <3>3. \A q \in Owning \ {o} : q \in alive /\ path[q] # p
      BY <2>3 DEF Owning, Named, OneCreator
    <3>4. \A u \in Thread : sound'[u] = sound[u] \ {p}
      BY <1>0, <1>1, <2>3, <3>2, <3>3 DEF sound, PathsOf
    <3>5. sound' = [u \in Thread |-> sound[u] \ {p}] BY <3>4 DEF sound, PathsOf
    <3> QED BY <2>1, <2>2, <3>1, <3>5
  <2>4. CASE o \notin Owning /\ dirs' # dirs
    <3>1. created[o] /\ o \in lost BY <1>0, <2>4 DEF DirsAfter, Owning
    <3>2. \A q : q \in Owning' <=> q \in Owning /\ path[q] # p
      BY <1>0, <1>1, <2>4, <3>1 DEF Owning, Creators
    <3>3. Owning \subseteq alive \ {o} BY <2>4 DEF Owning
    <3>4. \A u \in Thread : sound'[u] = sound[u] \ {p}
      BY <1>1, <3>2, <3>3 DEF sound, PathsOf
    <3>5. sound' = [u \in Thread |-> sound[u] \ {p}] BY <3>4 DEF sound, PathsOf
    <3> QED BY <2>1, <2>2, <3>1, <3>5
  <2>5. CASE o \notin Owning /\ dirs' = dirs
    <3>1. lost' = lost \ {o} BY <1>0, <2>5
    <3>2. \A q : q \in Owning' <=> q \in Owning BY <1>1, <2>5, <3>1 DEF Owning
    <3>3. Owning \subseteq alive \ {o} BY <2>5 DEF Owning
    <3>4. \A u \in Thread : sound'[u] = sound[u] BY <1>1, <3>2, <3>3 DEF sound, PathsOf
    <3>5. UNCHANGED sound BY <3>4 DEF sound, PathsOf
    <3>6. ASSUME p \in sound[t] PROVE p \in claims'[t]
      <4>1. PICK q \in Owning : owner[q] = t /\ path[q] = p BY <3>6, KnownAre
      <4>2. q \in alive \ {o} /\ created[q] BY <3>3 DEF Owning
      <4>3. p \in claims[t] BY <4>1, <4>2, KnownAre
      <4> QED BY <1>5, <4>1, <4>2, <4>3
    <3> QED BY <2>5, <3>5, <3>6
  <2> QED BY <2>3, <2>4, <2>5
<1>8. UNCHANGED held
  <2>1. \A u \in Thread : held'[u] = held[u]
    BY <1>0, <1>1, <1>2 DEF held, PathsOf
  <2> QED BY <2>1 DEF held, PathsOf
<1>9. UNCHANGED <<at, configuring>>
  <2>1. \A s \in Thread : /\ cur[s] = None <=> op[s] = "idle"
                          /\ cur[s] # None => path'[cur[s]] = path[cur[s]]
    BY <1>1, <1>2, PlaceIs
  <2> QED BY <1>0, <2>1, SamePlaces DEF calls
<1>10. UNCHANGED <<busy, op, rest>> BY <1>0 DEF calls
<1> HIDE DEF p
<1> QED
  BY <1>3, <1>4, <1>6, <1>7, <1>8, <1>9, <1>10 DEF Paths!Forget, Paths!calls

\* The program sees paths: whatever the pointers among the objects, a call walks the
\* components it was given and returns the group at their end; what is in use keeps
\* its ancestors; and a directory goes only through somebody else or with the
\* objects of a thread that has made it (SingleControlGroup.cpp:132-155, 244-312,
\* CreatedControlGroup.cpp:36-49).
THEOREM ObjectsActOnPaths == Spec => ActsOnPaths
<1>1. Init => Paths!Init
  <2> SUFFICES ASSUME Init PROVE Paths!Init OBVIOUS
  <2>1. alive = {} /\ Owning = {} BY DEF Init, alive, Owning
  <2>2. known = [t \in Thread |-> {}] /\ held = [t \in Thread |-> {}]
    BY <2>1 DEF known, held, PathsOf
  <2>3. claims = [t \in Thread |-> {}] /\ sound = [t \in Thread |-> {}]
    BY <2>1 DEF claims, sound, PathsOf
  <2>4. at = [t \in Thread |-> <<>>] /\ configuring = [t \in Thread |-> FALSE]
    BY DEF Init, at, configuring
  <2> QED BY <2>2, <2>3, <2>4 DEF Init, Paths!Init
<1>2. ASSUME Named, [Next]_vars PROVE [Paths!Next]_(Paths!vars)
  <2>1. CASE UNCHANGED vars
    <3>1. \A s \in Thread : cur[s] = None <=> op[s] = "idle" BY <1>2, PlaceIs
    <3>2. UNCHANGED <<at, configuring>>
      BY <2>1, <3>1, SamePlaces DEF vars, calls, objects
    <3> QED
      BY <2>1, <3>2, SameFiles, SamePaths
      DEF vars, files, objects, calls, Paths!vars, Paths!pointers, Paths!calls
  <2>2. CASE System BY <1>2, <2>2, SystemActs
  <2>3. ASSUME NEW t \in Thread, ThreadStep(t) PROVE [Paths!Next]_(Paths!vars)
    <3>1. CASE Destroy(t) BY <1>2, <3>1, DestroyActs DEF Paths!Next
    <3>2. CASE Root(t) BY <1>2, <3>2, RootActs DEF Paths!Next
    <3>3. CASE Return(t) BY <1>2, <3>3, ReturnActs DEF Paths!Next
    <3>4. CASE \/ AttachDots(t) \/ AttachKnown(t) \/ (AttachNew(t) /\ ~IsDirectory(t))
               \/ CreateRefused(t) \/ MkdirFails(t) \/ ConfigureFails(t)
      <4>1. Paths!Fail(t) \/ Paths!AttachDots(t) \/ Paths!Attach(t)
        BY <1>2, <3>4, LoopActs
      <4> QED BY <4>1 DEF Paths!Next
    <3>5. CASE Mkdir(t) \/ (AttachNew(t) /\ IsDirectory(t))
      BY <1>2, <3>5, ChildActs DEF Paths!Next
    <3>6. CASE ConfigureCpuSet(t) BY <1>2, <3>6, ConfigureActs DEF Paths!Next
    <3>7. ASSUME NEW o \in Object,
                 \/ Release(t, o) \/ Parent(t, o)
                 \/ \E kind \in {"attach", "create"}, request \in Request :
                       Call(t, o, kind, request)
          PROVE [Paths!Next]_(Paths!vars)
      <4>1. handles[o] > 0 /\ owner[o] = t BY <3>7 DEF Release, Parent, Call
      <4> QED BY <1>2, <3>7, <4>1, ProgramActs
    <3> QED BY <2>3, <3>1, <3>2, <3>3, <3>4, <3>5, <3>6, <3>7 DEF ThreadStep
  <2> QED BY <1>2, <2>1, <2>2, <2>3 DEF Next
<1> QED BY <1>1, <1>2, NamedHolds, PTL DEF Spec, ActsOnPaths, Paths!Spec
=============================================================================
