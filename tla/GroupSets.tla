------------------------------ MODULE GroupSets ------------------------------
(***************************************************************************)
(* What a program sees of MultipleControlGroup between its calls: an       *)
(* object is a set of control groups, no two of one hierarchy, and a call  *)
(* acts on all of a set or on none of it.  Loops over hierarchies, caches  *)
(* and objects that are still being made are not part of this.             *)
(***************************************************************************)
CONSTANTS Object, Hier, Name, Root

VARIABLES
    objects,   \* the objects
    sets,      \* Object -> its groups
    created    \* the groups that the objects have to remove

vars == <<objects, sets, created>>

Init == objects = {} /\ sets = [m \in Object |-> {}] /\ created = {}

Held == UNION {sets[m] : m \in objects}

\* What no object has any more is removed, or left to those who use it.
Becomes(m, S, more) ==
    /\ sets' = [sets EXCEPT ![m] = S]
    /\ created' = {s \in created \union more : \E o \in Object : s \in sets'[o]}

\* The call makes an object.
Make(m, S, more) == m \notin objects /\ objects' = objects \union {m} /\ Becomes(m, S, more)
Change(m, S) == UNCHANGED objects /\ Becomes(m, S, {})

\* Of groups that are there anyway, and of groups of other objects.
Unite(m, S) == (\A q, r \in S : q[1] = r[1] => q = r) /\ Make(m, S, {})

Release(m) == objects' = objects \ {m} /\ Becomes(m, {}, {})

\* The group of a set in the hierarchy of s.
Same(S, s) == {q \in S : q[1] = s[1]}
Add(m, s) == Same(sets[m], s) = {} /\ Change(m, sets[m] \union {s})
Replace(m, s) ==
    Same(sets[m], s) # {} /\ Change(m, (sets[m] \ Same(sets[m], s)) \union {s})
Remove(m, h) == Change(m, {q \in sets[m] : q[1] # h})

\* The groups of one name in the hierarchies of a set.
Called(S, name) == {<<q[1], name>> : q \in S}
AllRoots(S) == \A q \in S : q[2] = Root

Parent(m, to) == (\A q \in sets[m] : q[2] # Root) /\ Make(to, Called(sets[m], Root), {})

AttachChild(m, to, name) == AllRoots(sets[m]) /\ Make(to, Called(sets[m], name), {})

\* What is created is nobody's yet.
CreateChild(m, to, name) ==
    LET new == Called(sets[m], name) IN
    AllRoots(sets[m]) /\ new \intersect Held = {} /\ Make(to, new, new)

Next ==
    \/ \E m \in Object, S \in SUBSET (Held \union (Hier \X {Root})) : Unite(m, S)
    \/ \E m \in objects :
          \/ Release(m)
          \/ \E s \in Held : Add(m, s) \/ Replace(m, s)
          \/ \E h \in Hier : Remove(m, h)
          \/ \E to \in Object :
                \/ Parent(m, to)
                \/ \E name \in Name : AttachChild(m, to, name) \/ CreateChild(m, to, name)

Spec == Init /\ [][Next]_vars
=============================================================================
