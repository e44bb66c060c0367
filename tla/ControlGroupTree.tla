-------------------------- MODULE ControlGroupTree --------------------------
(***************************************************************************)
(* SingleControlGroup: the objects of one hierarchy and the directories    *)
(* they stand for.  An object holds its parent alive (parent_), the parent *)
(* finds it through a raw pointer (children_), and a CreatedControlGroup   *)
(* removes its directory when its last reference goes.                     *)
(*                                                                         *)
(* Every thread owns the objects of the trees it started with root() and   *)
(* no thread touches the objects of another (ControlGroup.hpp, lines       *)
(* 36-46); the directories are shared by all threads, with the tasks in    *)
(* them and with whoever else makes and removes control groups.  One step  *)
(* does at most one operation on the file system.                          *)
(***************************************************************************)
EXTENDS FiniteSets, Sequences, SequencesExt

CONSTANTS
    Thread, Object, None,
    Name,        \* names of control groups
    Request,     \* the paths given to attachChild and createChild
    MaxDepth,    \* no directory is made deeper than this
    MaxHandles,  \* a program with so many pointers to an object asks for no more
    MaxTrees,    \* trees a thread has at a time
    CpuSet,      \* TRUE: the hierarchy has the cpuset subsystem
    Tasks,       \* TRUE: tasks enter and leave control groups
    Others       \* TRUE: somebody else makes and removes control groups

ASSUME NoneAssumption == None \notin Object \union Thread
ASSUME RequestAssumption == Request \subseteq Seq(Name \union {".", ".."})
ASSUME BoundAssumption ==
    /\ {MaxDepth, MaxHandles, MaxTrees} \subseteq Nat
    /\ {CpuSet, Tasks, Others} \subseteq BOOLEAN

VARIABLES
    dirs,     \* existing directories; a directory is its path from the root
    busy,     \* the directories that hold a task
    lost,     \* the objects whose directory somebody else has removed
    kept,     \* history: the directories that somebody else made, or that a
              \* destructor could not remove for a task or a group of others
    owner,    \* Object -> the thread whose tree it is in, None if not allocated
    path,     \* Object -> controlGroup_
    parent,   \* Object -> parent_, None in the root of a tree
    created,  \* Object -> it is a CreatedControlGroup
    child,    \* Object -> children_: Name -> object or None
    handles,  \* Object -> pointers held by the program
    op,       \* Thread -> "idle", "attach" or "create"
    cur,      \* Thread -> the pointer "current" of the loop, None when idle
    rest,     \* Thread -> the components the loop has still to visit
    fresh     \* Thread -> a created object not yet entered in children_

files == <<dirs, busy, lost, kept>>
objects == <<owner, path, parent, created, child>>
calls == <<op, cur, rest, fresh>>
vars == <<files, objects, handles, calls>>

Path == UNION {[1..n -> Name] : n \in 0..MaxDepth}

TypeOK ==
    /\ dirs \in SUBSET Path /\ busy \in SUBSET Path /\ lost \in SUBSET Object
    /\ kept \in SUBSET Path
    /\ owner \in [Object -> Thread \union {None}]
    /\ path \in [Object -> Path]
    /\ parent \in [Object -> Object \union {None}]
    /\ created \in [Object -> BOOLEAN]
    /\ child \in [Object -> [Name -> Object \union {None}]]
    /\ handles \in [Object -> Nat]
    /\ op \in [Thread -> {"idle", "attach", "create"}]
    /\ cur \in [Thread -> Object \union {None}]
    /\ \A t \in Thread : cur[t] = None <=> op[t] = "idle"
    /\ rest \in [Thread -> Seq(Name \union {".", ".."})]
    /\ fresh \in [Thread -> Object \union {None}]

Init ==
    /\ dirs = {<<>>} /\ busy = {} /\ lost = {} /\ kept = {}
    /\ owner = [o \in Object |-> None]
    /\ path = [o \in Object |-> <<>>]
    /\ parent = [o \in Object |-> None]
    /\ created = [o \in Object |-> FALSE]
    /\ child = [o \in Object |-> [n \in Name |-> None]]
    /\ handles = [o \in Object |-> 0]
    /\ op = [t \in Thread |-> "idle"]
    /\ cur = [t \in Thread |-> None]
    /\ rest = [t \in Thread |-> <<>>]
    /\ fresh = [t \in Thread |-> None]

alive == {o \in Object : owner[o] # None}

-----------------------------------------------------------------------------
(* References *)

\* The reference count of o is zero: no pointer of the program or of a running
\* call, and no parent_ of another object.
Unheld(o) ==                       \* and the mutant of Unreferenced: raw parent_
    /\ handles[o] = 0
    /\ \A t \in Thread : cur[t] # o /\ fresh[t] # o
Unreferenced(o) == Unheld(o) /\ \A c \in alive : parent[c] # o

\* Destructors run before the thread does anything else.
Destroying(t) == \E o \in alive : owner[o] = t /\ Unreferenced(o)
Ready(t) == ~Destroying(t)
Idle(t) == op[t] = "idle" /\ Ready(t)

HasSubgroup(p) == \E q \in dirs : Len(q) = Len(p) + 1 /\ IsPrefix(p, q)
Removable(p) == p \in dirs /\ p # <<>> /\ p \notin busy /\ ~HasSubgroup(p)

\* mutant of DirsAfter: any object removes the directory
AllRemove(o) == IF Removable(path[o]) THEN dirs \ {path[o]} ELSE dirs
\* rmdir(2) in ~CreatedControlGroup; its failure is logged and forgotten.
DirsAfter(o) == IF created[o] /\ Removable(path[o]) THEN dirs \ {path[o]} ELSE dirs

\* ~SingleControlGroup erases its name from children_ of the parent.
NotErased(o) == child              \* mutant of Erased
Erased(o) ==
    IF parent[o] = None THEN child
    ELSE [child EXCEPT ![parent[o]][Last(path[o])] = None]

Creators(p) == {o \in alive : created[o] /\ path[o] = p}

\* rmdir fails on a task, or on a group that no child of the object has made.
Excused(o) ==
    \/ path[o] \in busy
    \/ \E q \in dirs : /\ Len(q) = Len(path[o]) + 1 /\ IsPrefix(path[o], q)
                      /\ \A c \in Creators(q) : parent[c] # o

\* The destructor of the last reference, and then of the parent it held.  An
\* object that has lost its directory removes the one that took its place.
Destroy(t) == \E o \in alive :
    /\ owner[o] = t /\ Unreferenced(o)
    /\ dirs' = DirsAfter(o)
    /\ lost' = (lost \union IF o \in lost /\ dirs' # dirs THEN Creators(path[o]) ELSE {}) \ {o}
    /\ kept' = (kept \union IF created[o] /\ Excused(o) THEN {path[o]} ELSE {}) \intersect dirs'
    /\ child' = [Erased(o) EXCEPT ![o] = [n \in Name |-> None]]
    /\ owner' = [owner EXCEPT ![o] = None]
    /\ path' = [path EXCEPT ![o] = <<>>]
    /\ parent' = [parent EXCEPT ![o] = None]
    /\ created' = [created EXCEPT ![o] = FALSE]
    /\ UNCHANGED <<busy, handles, calls>>

-----------------------------------------------------------------------------
(* The program's calls *)

\* children_ of a new object is empty, like that of an object not allocated.
Allocate(o, t, p, up, isCreated) ==
    /\ o \notin alive
    /\ owner' = [owner EXCEPT ![o] = t]
    /\ path' = [path EXCEPT ![o] = p]
    /\ parent' = [parent EXCEPT ![o] = up]
    /\ created' = [created EXCEPT ![o] = isCreated]

Root(t) == \E o \in Object :
    /\ Idle(t) /\ MaxHandles > 0
    /\ Cardinality({r \in alive : owner[r] = t /\ parent[r] = None}) < MaxTrees
    /\ Allocate(o, t, <<>>, None, FALSE)
    /\ handles' = [handles EXCEPT ![o] = 1]
    /\ UNCHANGED <<files, child, calls>>

\* Whatever a call returns, the program has room for it: the bound is on what it
\* asks for, and no call is kept from ending.
Room(t) == \A o \in Object : owner[o] = t => handles[o] < MaxHandles

\* attachChild(request) or createChild(request) on an object of the thread.
Call(t, o, kind, request) ==
    /\ Idle(t) /\ Room(t) /\ owner[o] = t /\ o \in alive /\ handles[o] > 0
    /\ op' = [op EXCEPT ![t] = kind]
    /\ cur' = [cur EXCEPT ![t] = o]
    /\ rest' = [rest EXCEPT ![t] = request]
    /\ UNCHANGED <<files, objects, handles, fresh>>

\* A pointer goes out of scope.
Release(t, o) ==
    /\ Idle(t) /\ owner[o] = t /\ handles[o] > 0
    /\ handles' = [handles EXCEPT ![o] = @ - 1]
    /\ UNCHANGED <<files, objects, calls>>

\* parent() hands out one more pointer.
Parent(t, o) ==
    /\ Idle(t) /\ owner[o] = t /\ handles[o] > 0
    /\ parent[o] # None /\ handles[parent[o]] < MaxHandles
    /\ handles' = [handles EXCEPT ![parent[o]] = @ + 1]
    /\ UNCHANGED <<files, objects, calls>>

\* The loop is done: "current" is returned.
Return(t) ==
    /\ op[t] # "idle" /\ rest[t] = <<>> /\ Ready(t)
    /\ handles' = [handles EXCEPT ![cur[t]] = @ + 1]
    /\ op' = [op EXCEPT ![t] = "idle"] /\ cur' = [cur EXCEPT ![t] = None]
    /\ UNCHANGED <<files, objects, rest, fresh>>

\* The loop moves on to the object o, or an exception drops "current".
Advance(t, o) ==
    /\ cur' = [cur EXCEPT ![t] = o]
    /\ rest' = [rest EXCEPT ![t] = Tail(@)]
    /\ UNCHANGED op
Throw(t) ==
    /\ cur' = [cur EXCEPT ![t] = None]
    /\ rest' = [rest EXCEPT ![t] = <<>>]
    /\ op' = [op EXCEPT ![t] = "idle"]

Stepping(t, kind) == op[t] = kind /\ rest[t] # <<>> /\ fresh[t] = None /\ Ready(t)
Component(t) == Head(rest[t])
Below(t) == Append(path[cur[t]], Component(t))

\* children_ after the constructor of a child failed: the base class was
\* complete, so ~SingleControlGroup erases the name.
EraseFailed(t) == child' = [child EXCEPT ![cur[t]][Component(t)] = None]

Enter(t, o) == child' = [child EXCEPT ![cur[t]][Component(t)] = o]

-----------------------------------------------------------------------------
(* attachDirectChild and createDirectChild *)

ParentUnchecked(t) == parent[cur[t]]   \* mutant of Up
Up(t) == IF parent[cur[t]] = None THEN cur[t] ELSE parent[cur[t]]

AttachDots(t) ==
    /\ Stepping(t, "attach") /\ Component(t) \in {".", ".."}
    /\ Advance(t, IF Component(t) = "." THEN cur[t] ELSE Up(t))
    /\ UNCHANGED <<files, objects, handles, fresh>>

\* The name is in children_: the same object again.
AttachKnown(t) ==
    /\ Stepping(t, "attach") /\ Component(t) \in Name
    /\ child[cur[t]][Component(t)] # None
    /\ Advance(t, child[cur[t]][Component(t)])
    /\ UNCHANGED <<files, objects, handles, fresh>>

\* The constructor of AttachedControlGroup insists on a directory.
IsDirectory(t) == Below(t) \in dirs

AttachNew(t) ==
    /\ Stepping(t, "attach") /\ Component(t) \in Name
    /\ child[cur[t]][Component(t)] = None
    /\ IF IsDirectory(t)
       THEN \E o \in Object :
              /\ Allocate(o, t, Below(t), cur[t], FALSE)
              /\ Enter(t, o) /\ Advance(t, o)
       ELSE /\ EraseFailed(t) /\ Throw(t)
            /\ UNCHANGED <<owner, path, parent, created>>
    /\ UNCHANGED <<files, handles, fresh>>

\* "." and ".." are refused, and so is a name that is in children_.
NotRefused(t) == FALSE             \* mutant of Refused: no look into children_
Refused(t) == child[cur[t]][Component(t)] # None

CreateRefused(t) ==
    /\ Stepping(t, "create")
    /\ Component(t) \in {".", ".."} \/ (Component(t) \in Name /\ Refused(t))
    /\ Throw(t)
    /\ UNCHANGED <<files, objects, handles, fresh>>

\* mkdir(2) fails: the directory exists, its parent is gone, or the path is
\* that of a control file or not ours to make.
MkdirFails(t) ==
    /\ Stepping(t, "create") /\ Component(t) \in Name /\ ~Refused(t)
    /\ EraseFailed(t) /\ Throw(t)
    /\ UNCHANGED <<files, owner, path, parent, created, handles, fresh>>

AnyState(t) == TRUE                \* mutant of Absent: EEXIST is not an error
Absent(t) == Below(t) \notin dirs

Mkdir(t) == \E o \in Object :
    /\ Stepping(t, "create") /\ Component(t) \in Name /\ ~Refused(t)
    /\ path[cur[t]] \in dirs /\ Absent(t) /\ Len(Below(t)) <= MaxDepth
    /\ dirs' = dirs \union {Below(t)}
    /\ Allocate(o, t, Below(t), cur[t], TRUE)
    /\ IF CpuSet
       THEN /\ fresh' = [fresh EXCEPT ![t] = o]
            /\ UNCHANGED <<child, cur, rest, op>>
       ELSE Enter(t, o) /\ Advance(t, o) /\ UNCHANGED fresh
    /\ UNCHANGED <<busy, lost, kept, handles>>

\* A group of a cpuset hierarchy gets the cpus and the memory nodes of the
\* root; the fields cannot be read or written when the directory is gone, or
\* for a reason of the kernel's.
ConfigureCpuSet(t) ==
    /\ fresh[t] # None
    /\ path[fresh[t]] \in dirs
    /\ Enter(t, fresh[t])
    /\ Advance(t, fresh[t])
    /\ fresh' = [fresh EXCEPT ![t] = None]
    /\ UNCHANGED <<files, owner, path, parent, created, handles>>

\* The exception drops the new object, whose directory goes with it.
ConfigureFails(t) ==
    /\ fresh[t] # None
    /\ fresh' = [fresh EXCEPT ![t] = None]
    /\ Throw(t)
    /\ UNCHANGED <<files, objects, handles>>

-----------------------------------------------------------------------------
(* The rest of the system *)

Occupy(p) ==
    /\ Tasks /\ p \in dirs \ busy
    /\ busy' = busy \union {p}
    /\ UNCHANGED <<dirs, lost, kept, objects, handles, calls>>

Vacate(p) ==
    /\ p \in busy
    /\ busy' = busy \ {p}
    /\ UNCHANGED <<dirs, lost, kept, objects, handles, calls>>

OthersMkdir(p) ==
    /\ Others /\ p \notin dirs /\ Front(p) \in dirs
    /\ dirs' = dirs \union {p} /\ kept' = kept \union {p}
    /\ UNCHANGED <<busy, lost, objects, handles, calls>>

OthersRmdir(p) ==
    /\ Others /\ Removable(p)
    /\ dirs' = dirs \ {p} /\ kept' = kept \ {p}
    /\ lost' = lost \union Creators(p)
    /\ UNCHANGED <<busy, objects, handles, calls>>

System ==
    \/ \E p \in dirs : Occupy(p) \/ Vacate(p) \/ OthersRmdir(p)
    \/ \E p \in Path \ {<<>>} : OthersMkdir(p)

ThreadStep(t) ==
    \/ Root(t) \/ Destroy(t) \/ Return(t)
    \/ AttachDots(t) \/ AttachKnown(t) \/ AttachNew(t)
    \/ CreateRefused(t) \/ MkdirFails(t) \/ Mkdir(t)
    \/ ConfigureCpuSet(t) \/ ConfigureFails(t)
    \/ \E o \in Object : Release(t, o) \/ Parent(t, o)
    \/ \E o \in Object, kind \in {"attach", "create"}, request \in Request :
          Call(t, o, kind, request)

Next == System \/ \E t \in Thread : ThreadStep(t)

Spec == Init /\ [][Next]_vars

-----------------------------------------------------------------------------
(* What the objects guarantee *)

\* parent_ and the raw pointers of children_ never dangle: a parent lives as
\* long as its children, and an entry of children_ is a live child filed under
\* its own name.
NoDanglingPointer ==
    /\ \A o \in alive : parent[o] # None => parent[o] \in alive
    /\ \A p \in alive, n \in Name : child[p][n] # None =>
          /\ child[p][n] \in alive
          /\ parent[child[p][n]] = p
          /\ path[child[p][n]] = Append(path[p], n)

\* In the objects reached from one root a control group has one object only
\* ("return previously allocated child objects related to root object"), and
\* the parent can find it.
Entered(o) == \A t \in Thread : fresh[t] # o
OneObjectPerGroup == \A o \in alive :
    parent[o] # None /\ Entered(o) /\ ~Unreferenced(o) =>
        child[parent[o]][Last(path[o])] = o

\* Of the objects whose directory nobody else has removed, at most one has
\* created a given directory, and that directory is there.
Owning == {o \in alive \ lost : created[o]}
OneCreator ==
    /\ \A o, q \in Owning : path[o] = path[q] => o = q
    /\ \A o \in Owning : path[o] \in dirs

\* Every directory that the program made has a live object that is going to
\* remove it, in whatever order pointers are dropped and whatever calls of
\* createChild fail half way, unless the rmdir of its object has failed on a
\* task or on a group that belongs to somebody else.
NothingLeftBehind == \A p \in dirs \ kept :
    p # <<>> => \E o \in alive : created[o] /\ path[o] = p

\* The objects as paths: of all objects of a thread, of those that the program
\* points to, of those that have made their directory, and of those among them
\* whose directory nobody has removed; where a call is.
PathsOf(S) == [t \in Thread |-> {path[o] : o \in {q \in S : owner[q] = t}}]
known == PathsOf(alive)
held == PathsOf({o \in alive : handles[o] > 0})
claims == PathsOf({o \in alive : created[o]})
sound == PathsOf(Owning)
at == [t \in Thread |-> IF op[t] = "idle" THEN <<>> ELSE path[cur[t]]]
configuring == [t \in Thread |-> fresh[t] # None]
Paths == INSTANCE GroupPaths WITH fresh <- configuring

\* Seen by the program, the objects are the paths they were asked for: a call
\* walks the requested components, "." and ".." among them, and returns the
\* group it arrives at; the ancestors of what is in use stay; and a directory
\* goes only through somebody else or when a thread drops a group that it made.
ActsOnPaths == Paths!Spec
=============================================================================
