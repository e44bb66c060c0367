------------------------ MODULE MultipleControlGroup ------------------------
(***************************************************************************)
(* MultipleControlGroup: one SingleControlGroup per hierarchy behind one   *)
(* object.  Every operation is a loop over id2cgroup_, which can fail at   *)
(* any hierarchy and be overtaken by whoever else makes and removes        *)
(* control groups.  The object remembers where it found a control file.    *)
(*                                                                         *)
(* One thread uses the objects.  What a SingleControlGroup does is reduced *)
(* here to groups of depth one; ControlGroupTree has the rest of it.  The  *)
(* loops tasks() and attachTask() are in Termination.                      *)
(***************************************************************************)
EXTENDS Naturals, FiniteSets

CONSTANTS
    Object,      \* MultipleControlGroup objects
    Hier,        \* hierarchies
    Name,        \* names of child groups; Root and None are not among them
    Root,        \* the name of the root group of a hierarchy
    Field,       \* control file names
    Has,         \* <<h, f>>: the groups of hierarchy h have a file f
    None

Single == Hier \X (Name \union {Root})   \* groups, and the objects for them

VARIABLES
    alive,       \* the objects
    id2cgroup,   \* Object -> Hier -> the name of its group there, or None
    cache,       \* Object -> fieldName2path_: Field -> a group or None
    made,        \* the groups whose object is a CreatedControlGroup
    dirs,        \* the groups that exist
    busy,        \* the groups that hold a task
    flag,        \* Single -> notify_on_release
    op,          \* the running operation
    quiet,       \* history: nobody else has changed anything since it began
    ours         \* history: the directories of dirs that the program made, but
                 \* those that it could not remove because a task was in them

groups == <<made, dirs, busy, flag, ours>>
objects == <<alive, id2cgroup, cache>>
vars == <<objects, groups, op, quiet>>

Idle == [kind |-> "idle", m |-> None, to |-> None, name |-> None, rest |-> {}, val |-> None]

TypeOK ==
    /\ alive \subseteq Object
    /\ id2cgroup \in [Object -> [Hier -> Name \union {Root, None}]]
    /\ cache \in [Object -> [Field -> Single \union {None}]]
    /\ made \subseteq Single /\ dirs \subseteq Single /\ busy \subseteq dirs
    /\ flag \in [Single -> BOOLEAN]
    /\ op \in [kind : {"idle", "attach", "create", "get", "set"},
               m : Object \union {None}, to : Object \union {None},
               name : Name \union {None}, rest : SUBSET Hier,
               val : BOOLEAN \union {None}]
    /\ quiet \in BOOLEAN /\ ours \subseteq dirs

Empty == [h \in Hier |-> None]
NoPaths == [f \in Field |-> None]
Init ==
    /\ alive = {} /\ id2cgroup = [m \in Object |-> Empty] /\ cache = [m \in Object |-> NoPaths]
    /\ made = {} /\ dirs = Hier \X {Root} /\ busy = {} /\ flag = [s \in Single |-> FALSE]
    /\ op = Idle /\ quiet = TRUE /\ ours = {}

Members(m) == {<<h, id2cgroup[m][h]>> : h \in {g \in Hier : id2cgroup[m][g] # None}}
Hiers(m) == {h \in Hier : id2cgroup[m][h] # None}

\* The single groups something points to; a child holds its parent.
held == UNION {Members(m) : m \in Object}

-----------------------------------------------------------------------------
(* The groups an assignment to id2cgroup_ leaves without a pointer go, and a *)
(* CreatedControlGroup tries to remove its directory.                        *)

LeaveDirs(gone) == dirs            \* mutant of DirsWithout: no rmdir
RemoveAll(gone) == dirs \ gone     \* mutant of DirsWithout: remove_all
DirsWithout(gone) == dirs \ (gone \ busy)

Assign(new) ==
    LET stays == UNION {{<<h, new[m][h]>> : h \in Hier} : m \in Object}
        gone == {s \in made : s \notin stays}
    IN  /\ id2cgroup' = new
        /\ made' = made \ gone
        /\ dirs' = DirsWithout(gone)
        /\ ours' = (ours \ (gone \intersect busy)) \intersect dirs'
        /\ flag' = [s \in Single |-> s \in dirs' /\ flag[s]]
        /\ UNCHANGED busy

Ready(m) == op.kind = "idle" /\ m \in alive
Done == op' = Idle /\ quiet' = TRUE

\* forSelf, root and unite make an object; unite adds groups of others, which
\* must be of different hierarchies.
Unite(m, S) ==
    /\ op.kind = "idle" /\ m \notin alive
    /\ S \subseteq held \union (Hier \X {Root})
    /\ alive' = alive \union {m}
    /\ \E f \in [Hier -> Name \union {Root, None}] :
          /\ S = {<<h, f[h]>> : h \in {g \in Hier : f[g] # None}}
          /\ id2cgroup' = [id2cgroup EXCEPT ![m] = f]
    /\ UNCHANGED <<cache, groups, op, quiet>>

Release(m) ==
    /\ Ready(m)
    /\ alive' = alive \ {m} /\ Assign([id2cgroup EXCEPT ![m] = Empty])
    /\ cache' = [cache EXCEPT ![m] = NoPaths]
    /\ UNCHANGED <<op, quiet>>

-----------------------------------------------------------------------------
(* add, replace, remove: the cache goes first, whatever happens then *)

Edit(m, h, name) ==
    /\ Assign([id2cgroup EXCEPT ![m][h] = name])
    /\ UNCHANGED <<alive, op, quiet>>

\* Of a group of a hierarchy that the object already has there is no change.
Add(m, s) ==
    /\ Ready(m) /\ s \in held
    /\ cache' = [cache EXCEPT ![m] = NoPaths]
    /\ Edit(m, s[1], IF id2cgroup[m][s[1]] = None THEN s[2] ELSE id2cgroup[m][s[1]])

ReplaceOnly(m, s) ==               \* mutant of Replace: fieldName2path_ stays
    /\ Ready(m) /\ s \in held
    /\ Edit(m, s[1], IF id2cgroup[m][s[1]] # None THEN s[2] ELSE None)
    /\ UNCHANGED cache
Replace(m, s) ==
    /\ Ready(m) /\ s \in held
    /\ cache' = [cache EXCEPT ![m] = NoPaths]
    /\ Edit(m, s[1], IF id2cgroup[m][s[1]] # None THEN s[2] ELSE None)

Remove(m, h) ==
    /\ Ready(m)
    /\ cache' = [cache EXCEPT ![m] = NoPaths]
    /\ Edit(m, h, None)

-----------------------------------------------------------------------------
(* attachChild and createChild *)

\* An operation of m; the children go to a new object "to".
Begin(kind, m, to, name, val) ==
    /\ Ready(m) /\ to \notin alive
    /\ op' = [kind |-> kind, m |-> m, to |-> to, name |-> name, rest |-> Hiers(m), val |-> val]
    /\ UNCHANGED <<objects, groups, quiet>>

\* Only root groups have children here.
BeginChild(kind, m, to, name) ==
    /\ \A h \in Hiers(m) : id2cgroup[m][h] = Root
    /\ Begin(kind, m, to, name, None)

At(kind, h) == op.kind = kind /\ h \in op.rest
Next1(h) == op' = [op EXCEPT !.rest = @ \ {h}]
Put(h) == id2cgroup' = [id2cgroup EXCEPT ![op.to][h] = op.name]

AttachSkips(h) ==                  \* mutant of AttachOne: what does not exist is left out
    /\ At("attach", h) /\ Next1(h)
    /\ IF <<h, op.name>> \in held \union dirs THEN Put(h) ELSE UNCHANGED id2cgroup
    /\ UNCHANGED <<alive, cache, groups, quiet>>
AttachOne(h) ==
    /\ At("attach", h) /\ <<h, op.name>> \in held \union dirs
    /\ Put(h) /\ Next1(h)
    /\ UNCHANGED <<alive, cache, groups, quiet>>

CreateOne(h) ==
    /\ At("create", h) /\ <<h, op.name>> \notin held \union dirs
    /\ Put(h) /\ Next1(h)
    /\ made' = made \union {<<h, op.name>>}
    /\ dirs' = dirs \union {<<h, op.name>>}
    /\ ours' = ours \union {<<h, op.name>>}
    /\ flag' = [flag EXCEPT ![<<h, op.name>>] = flag[<<h, Root>>]]
    /\ UNCHANGED <<alive, cache, busy, quiet>>

\* An exception in one hierarchy drops the new object with what it has.
Rollback == [id2cgroup EXCEPT ![op.to] = Empty]
ChildFails ==
    /\ op.kind \in {"attach", "create"} /\ op.rest # {}
    /\ Assign(Rollback) /\ Done
    /\ UNCHANGED <<alive, cache>>

ChildDone ==
    /\ op.kind \in {"attach", "create"} /\ op.rest = {}
    /\ alive' = alive \union {op.to} /\ Done
    /\ UNCHANGED <<id2cgroup, cache, groups>>

\* The parents of all the groups, or null if one of them is a root.
Parent(m, to) ==
    /\ Ready(m) /\ to \notin alive
    /\ \A h \in Hiers(m) : id2cgroup[m][h] # Root
    /\ alive' = alive \union {to}
    /\ id2cgroup' = [id2cgroup EXCEPT ![to] = [h \in Hier |-> IF h \in Hiers(m) THEN Root ELSE None]]
    /\ UNCHANGED <<cache, groups, op, quiet>>

-----------------------------------------------------------------------------
(* notify_on_release, as every field that is in all hierarchies *)

Group(h) == <<h, id2cgroup[op.m][h]>>
Value(h) == flag[Group(h)]

SetOne(h) ==
    /\ At("set", h) /\ Group(h) \in dirs
    /\ flag' = [flag EXCEPT ![Group(h)] = op.val] /\ Next1(h)
    /\ UNCHANGED <<objects, made, dirs, busy, quiet, ours>>

\* foldFields: the first value, then a comparison with it.
FirstValue(v) == TRUE              \* mutant of Agrees: no comparison
Agrees(v) == op.val \in {None, v}
GetOne(h) ==
    /\ At("get", h) /\ Group(h) \in dirs /\ Agrees(Value(h))
    /\ op' = [op EXCEPT !.rest = @ \ {h}, !.val = IF @ = None THEN Value(h) ELSE @]
    /\ UNCHANGED <<objects, groups, quiet>>

\* A file that cannot be read or written, values that differ, no groups at all.
FieldFails ==
    /\ op.kind \in {"get", "set"}
    /\ op.rest # {} \/ (op.kind = "get" /\ Hiers(op.m) = {})
    /\ Done /\ UNCHANGED <<objects, groups>>

FieldDone ==
    /\ op.kind \in {"get", "set"} /\ op.rest = {} /\ op.val # None
    /\ Done /\ UNCHANGED <<objects, groups>>

-----------------------------------------------------------------------------
(* fieldPath *)

\* A cached path is only checked for existence; without one the hierarchies are
\* asked in the order of the hash table.  Nothing found is an exception.
Found(m, f) ==
    IF cache[m][f] # None THEN {cache[m][f]} \intersect dirs
    ELSE {s \in Members(m) \intersect dirs : <<s[1], f>> \in Has}

FieldPath(m, f) ==
    /\ Ready(m)
    /\ \E s \in Found(m, f) : cache' = [cache EXCEPT ![m][f] = s]
    /\ UNCHANGED <<alive, id2cgroup, groups, op, quiet>>

-----------------------------------------------------------------------------
(* The rest of the system: tasks, and others' control groups *)

Occupy(s) == s \in dirs \ busy /\ s[2] # Root /\ busy' = busy \union {s} /\ UNCHANGED dirs
Vacate(s) == s \in busy /\ busy' = busy \ {s} /\ UNCHANGED dirs
OthersMake(s) == s \notin dirs /\ dirs' = dirs \union {s} /\ UNCHANGED busy
OthersRemove(s) ==
    s \in dirs \ busy /\ s[2] # Root /\ dirs' = dirs \ {s} /\ UNCHANGED busy

Others == \E s \in Single :
    /\ Occupy(s) \/ Vacate(s) \/ OthersMake(s) \/ OthersRemove(s)
    /\ flag' = [q \in Single |-> IF q \in dirs' \ dirs THEN flag[<<q[1], Root>>]
                                 ELSE q \in dirs' /\ flag[q]]
    /\ quiet' = (op.kind = "idle") /\ ours' = ours \intersect dirs'
    /\ UNCHANGED <<objects, made, op>>

Next ==
    \/ Others
    \/ \E m \in Object :
          \/ Release(m)
          \/ \E S \in SUBSET (held \union (Hier \X {Root})) : Unite(m, S)
          \/ \E s \in held : Add(m, s) \/ Replace(m, s)
          \/ \E h \in Hier : Remove(m, h)
          \/ \E f \in Field : FieldPath(m, f)
          \/ \E to \in Object : Parent(m, to)
          \/ \E to \in Object, kind \in {"attach", "create"}, n \in Name :
                BeginChild(kind, m, to, n)
          \/ Begin("get", m, None, None, None)
          \/ \E v \in BOOLEAN : Begin("set", m, None, None, v)
    \/ \E h \in Hier : AttachOne(h) \/ CreateOne(h) \/ SetOne(h) \/ GetOne(h)
    \/ ChildFails \/ ChildDone \/ FieldFails \/ FieldDone

Spec == Init /\ [][Next]_vars

-----------------------------------------------------------------------------
(* What an object of several hierarchies promises *)

\* A remembered path is of a group that the object has now, in a hierarchy that
\* has the field: add, replace and remove forget what they may make wrong
\* (fieldName2path_.clear(), 42, 55, 70).
CacheIsCurrent == \A m \in Object, f \in Field : cache[m][f] # None =>
    cache[m][f] \in Members(m) /\ <<cache[m][f][1], f>> \in Has

\* A directory that the program made has an object that will remove it, and
\* between two calls an object of the program's keeps that one: a createChild
\* that failed in a later hierarchy has removed what it made in the earlier
\* ones (178-187).
GroupsNothingLeft ==
    /\ ours \subseteq made
    /\ op.kind = "idle" => \A s \in made : \E m \in alive : s \in Members(m)

\* A getter that is about to return, or a setter, speaks for every group,
\* unless somebody else changed something meanwhile (foldFields, 109-129).
AnswerTrue ==
    /\ op.kind \in {"get", "set"} /\ op.rest = {} /\ op.val # None /\ quiet
    => \A h \in Hiers(op.m) : Value(h) = op.val

-----------------------------------------------------------------------------
(* To the program an object is a set of groups, and a call one step *)

\* The groups of a call in progress are nobody's yet.
sets == [m \in Object |-> IF m \in alive THEN Members(m) ELSE {}]
created == IF op.kind = "create" THEN made \ Members(op.to) ELSE made

Sets == INSTANCE GroupSets WITH objects <- alive
=============================================================================
