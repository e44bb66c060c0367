--------------------- MODULE MultipleControlGroupProofs ---------------------
(***************************************************************************)
(* What MultipleControlGroup promises, for every number of hierarchies,    *)
(* objects, names and control files.                                       *)
(***************************************************************************)
EXTENDS MultipleControlGroup, TLAPS

\* What MultipleControlGroup says of its constants.
Constants == None \notin Name \union {Root} \union BOOLEAN

Calling == op.kind \in {"attach", "create"}

\* A running call has put the child into the hierarchies it is done with, and
\* into no other.
Child == Calling =>
    /\ op.m \in alive /\ op.to \in Object \ alive /\ op.name \in Name
    /\ op.rest \subseteq Hiers(op.m)
    /\ \A h \in Hiers(op.m) : id2cgroup[op.m][h] = Root
    /\ \A h \in Hier :
          id2cgroup[op.to][h] = IF h \in Hiers(op.m) \ op.rest THEN op.name ELSE None

\* What a call has created is nobody else's.
Fresh == op.kind = "create" => \A s \in Members(op.to) :
    s \in made /\ \A x \in Object \ {op.to} : s \notin Members(x)

\* Storage without an object is empty, but for that of a running call.
Vacant == \A m \in Object \ alive :
    /\ cache[m] = NoPaths
    /\ id2cgroup[m] = Empty \/ (Calling /\ m = op.to)

\* Who would remove a directory is pointed to, if only by a call that creates it.
Owned ==
    /\ ours \subseteq made
    /\ \A s \in made : \/ \E m \in alive : s \in Members(m)
                       \/ op.kind = "create" /\ s \in Members(op.to)

\* The part of the loop that is done has found, or written, the answer.
Told == op.kind \in {"get", "set"} =>
    /\ op.m \in Object /\ (op.kind = "set" => op.val \in BOOLEAN)
    /\ quiet => \A h \in Hiers(op.m) \ op.rest : Value(h) = op.val

Inv == TypeOK /\ Child /\ Fresh /\ Vacant /\ Owned /\ Told /\ CacheIsCurrent

Ids == [Object -> [Hier -> Name \union {Root, None}]]
Ops == [kind : {"idle", "attach", "create", "get", "set"},
        m : Object \union {None}, to : Object \union {None},
        name : Name \union {None}, rest : SUBSET Hier, val : BOOLEAN \union {None}]

-----------------------------------------------------------------------------
(* What the objects hold *)

LEMMA MemberIs ==
    ASSUME Constants, TypeOK, NEW m \in Object, NEW h \in Hier, NEW n
    PROVE <<h, n>> \in Members(m) <=> n # None /\ id2cgroup[m][h] = n
BY DEF Members

LEMMA MembersTyped ==
    ASSUME Constants, TypeOK, NEW m \in Object, NEW s \in Members(m)
    PROVE s \in Single /\ s = <<s[1], s[2]>> /\ s[1] \in Hier /\ id2cgroup[m][s[1]] = s[2]
<1> PICK h \in Hier : id2cgroup[m][h] # None /\ s = <<h, id2cgroup[m][h]>> BY DEF Members
<1> QED BY DEF TypeOK, Single

\* An object whose groups and paths stay, or whose paths go, has no stale path.
LEMMA CacheKept ==
    ASSUME CacheIsCurrent,
           \A m \in Object : \/ cache'[m] = NoPaths
                             \/ cache'[m] = cache[m] /\ id2cgroup'[m] = id2cgroup[m]
    PROVE CacheIsCurrent'
<1> SUFFICES ASSUME NEW m \in Object, NEW f \in Field, cache'[m][f] # None
             PROVE cache'[m][f] \in Members(m)' /\ <<cache'[m][f][1], f>> \in Has
  BY DEF CacheIsCurrent
<1>1. cache'[m] = cache[m] /\ id2cgroup'[m] = id2cgroup[m] BY DEF NoPaths
<1>2. Members(m)' = Members(m) BY <1>1 DEF Members
<1> QED BY <1>1, <1>2 DEF CacheIsCurrent

\* Whatever is assigned to id2cgroup_, the directories the program made keep an
\* object that will remove them or go.
LEMMA AssignKeeps ==
    ASSUME Constants, TypeOK, ours \subseteq made, NEW new \in Ids, Assign(new)
    PROVE /\ id2cgroup' \in Ids /\ made' \subseteq Single /\ dirs' \subseteq Single
          /\ busy' \subseteq dirs' /\ flag' \in [Single -> BOOLEAN] /\ ours' \subseteq dirs'
          /\ ours' \subseteq made' /\ \A s \in made' : \E m \in Object : s \in Members(m)'
<1> DEFINE stays == UNION {{<<h, new[m][h]>> : h \in Hier} : m \in Object}
           gone == {s \in made : s \notin stays}
<1>1. /\ id2cgroup' = new /\ made' = made \ gone /\ dirs' = dirs \ (gone \ busy)
      /\ ours' = (ours \ (gone \intersect busy)) \intersect dirs' /\ busy' = busy
      /\ flag' = [s \in Single |-> s \in dirs' /\ flag[s]]
  BY DEF Assign, DirsWithout
<1>2. ASSUME NEW s \in made' PROVE \E m \in Object : s \in Members(m)'
  <2>1. s \in stays /\ s \in Single BY <1>1 DEF TypeOK
  <2> HIDE DEF gone
  <2> PICK m \in Object, h \in Hier : s = <<h, new[m][h]>> BY <2>1
  <2>2. new[m][h] # None BY <2>1 DEF Single, Constants
  <2> QED BY <1>1, <2>2 DEF Members
<1>3. ours' \subseteq made' BY <1>1
<1>4. busy' \subseteq dirs' /\ dirs' \subseteq Single /\ made' \subseteq Single BY <1>1 DEF TypeOK
<1>5. flag' \in [Single -> BOOLEAN] BY <1>1
<1> HIDE DEF stays, gone
<1> QED BY <1>1, <1>2, <1>3, <1>4, <1>5

\* Between two calls what points to a group is an object.
LEMMA OwnedAtRest ==
    ASSUME Vacant', op'.kind = "idle", ours' \subseteq made',
           \A s \in made' : \E m \in Object : s \in Members(m)'
    PROVE Owned'
<1> SUFFICES ASSUME NEW s \in made' PROVE \E m \in alive' : s \in Members(m)'
  BY DEF Owned
<1> PICK m \in Object : s \in Members(m)' OBVIOUS
<1>1. id2cgroup'[m] # Empty BY DEF Members, Empty
<1>2. m \in alive' BY <1>1 DEF Vacant, Calling
<1> QED BY <1>2

-----------------------------------------------------------------------------
(* Calls that take one step *)

LEMMA UniteKeeps ==
    ASSUME Constants, Inv, NEW m \in Object, NEW S, Unite(m, S)
    PROVE Inv'
<1> USE DEF Inv
<1>1. /\ op.kind = "idle" /\ m \in Object \ alive /\ alive' = alive \union {m}
      /\ UNCHANGED <<cache, made, dirs, busy, flag, ours, op, quiet>>
  BY DEF Unite, groups
<1> PICK f \in [Hier -> Name \union {Root, None}] : id2cgroup' = [id2cgroup EXCEPT ![m] = f]
  BY DEF Unite
<1>2. \A x \in Object \ {m} : id2cgroup'[x] = id2cgroup[x] BY DEF TypeOK
<1>3. TypeOK' BY <1>1 DEF TypeOK
<1>4. Child' /\ Fresh' /\ Told' BY <1>1 DEF Child, Fresh, Told, Calling
<1>5. Vacant' BY <1>1, <1>2 DEF Vacant, Calling
<1>6. Owned'
  <2>1. ASSUME NEW x \in alive PROVE Members(x)' = Members(x)
    <3>1. x \in Object \ {m} BY <1>1 DEF TypeOK
    <3> QED BY <1>2, <3>1 DEF Members
  <2> QED BY <1>1, <2>1 DEF Owned
<1>7. CacheIsCurrent' BY <1>1, <1>2, CacheKept DEF Vacant
<1> QED BY <1>3, <1>4, <1>5, <1>6, <1>7

LEMMA ParentKeeps ==
    ASSUME Constants, Inv, NEW m \in Object, NEW to \in Object, Parent(m, to)
    PROVE Inv'
<1> USE DEF Inv
<1> DEFINE f == [h \in Hier |-> IF h \in Hiers(m) THEN Root ELSE None]
<1>1. /\ op.kind = "idle" /\ to \in Object \ alive /\ alive' = alive \union {to}
      /\ id2cgroup' = [id2cgroup EXCEPT ![to] = f]
      /\ UNCHANGED <<cache, made, dirs, busy, flag, ours, op, quiet>>
  BY DEF Parent, Ready, groups
<1>2. f \in [Hier -> Name \union {Root, None}] OBVIOUS
<1> HIDE DEF f
<1>3. \A x \in Object \ {to} : id2cgroup'[x] = id2cgroup[x] BY <1>1 DEF TypeOK
<1>4. TypeOK' BY <1>1, <1>2 DEF TypeOK
<1>5. Child' /\ Fresh' /\ Told' BY <1>1 DEF Child, Fresh, Told, Calling
<1>6. Vacant' BY <1>1, <1>3 DEF Vacant, Calling
<1>7. Owned'
  <2>1. ASSUME NEW x \in alive PROVE Members(x)' = Members(x)
    <3>1. x \in Object \ {to} BY <1>1 DEF TypeOK
    <3> QED BY <1>3, <3>1 DEF Members
  <2> QED BY <1>1, <2>1 DEF Owned
<1>8. CacheIsCurrent' BY <1>1, <1>3, CacheKept DEF Vacant
<1> QED BY <1>4, <1>5, <1>6, <1>7, <1>8

\* Release, add, replace and remove.
LEMMA EditKeeps ==
    ASSUME Constants, Inv, NEW m \in Object, NEW one \in [Hier -> Name \union {Root, None}],
           Ready(m), Assign([id2cgroup EXCEPT ![m] = one]),
           cache' = [cache EXCEPT ![m] = NoPaths], UNCHANGED <<op, quiet>>,
           alive' = alive \/ (alive' = alive \ {m} /\ one = Empty)
    PROVE Inv'
<1> USE DEF Inv
<1> DEFINE new == [id2cgroup EXCEPT ![m] = one]
<1>1. new \in Ids BY DEF TypeOK, Ids
<1>2. id2cgroup' = new BY DEF Assign
<1>3. \A x \in Object \ {m} : new[x] = id2cgroup[x] BY DEF TypeOK
<1>4. new[m] = one BY DEF TypeOK
<1> HIDE DEF new
<1>5. /\ id2cgroup' \in Ids /\ made' \subseteq Single /\ dirs' \subseteq Single
      /\ busy' \subseteq dirs' /\ flag' \in [Single -> BOOLEAN] /\ ours' \subseteq dirs'
      /\ ours' \subseteq made' /\ \A s \in made' : \E x \in Object : s \in Members(x)'
  BY <1>1, AssignKeeps DEF new, Owned
<1>6. op.kind = "idle" /\ m \in alive BY DEF Ready
<1>7. cache' \in [Object -> [Field -> Single \union {None}]] BY DEF TypeOK, NoPaths
<1>8. TypeOK' BY <1>5, <1>7 DEF TypeOK, Ids
<1>9. Child' /\ Fresh' /\ Told' BY <1>6 DEF Child, Fresh, Told, Calling
<1>10. \A x \in Object \ {m} : cache'[x] = cache[x] BY DEF TypeOK
<1>11. cache'[m] = NoPaths BY DEF TypeOK
<1>12. Vacant' BY <1>2, <1>3, <1>4, <1>6, <1>10, <1>11 DEF Vacant, Calling
<1>13. CacheIsCurrent' BY <1>2, <1>3, <1>10, <1>11, CacheKept
<1>14. Owned' BY <1>5, <1>6, <1>12, OwnedAtRest
<1> QED BY <1>8, <1>9, <1>12, <1>13, <1>14

LEMMA ChangesKeep ==
    ASSUME Constants, Inv, NEW m \in Object,
           \/ Release(m)
           \/ \E s \in held : Add(m, s) \/ Replace(m, s)
           \/ \E h \in Hier : Remove(m, h)
    PROVE Inv'
<1>1. CASE Release(m)
  <2>1. Empty \in [Hier -> Name \union {Root, None}] BY DEF Empty
  <2> QED BY <1>1, <2>1, EditKeeps DEF Release
<1>2. ASSUME NEW h \in Hier, NEW n \in Name \union {Root, None}, Ready(m),
             cache' = [cache EXCEPT ![m] = NoPaths], Edit(m, h, n)
      PROVE Inv'
  <2> DEFINE one == [id2cgroup[m] EXCEPT ![h] = n]
  <2>1. one \in [Hier -> Name \union {Root, None}] BY DEF Inv, TypeOK
  <2>2. [id2cgroup EXCEPT ![m][h] = n] = [id2cgroup EXCEPT ![m] = one] OBVIOUS
  <2>3. Assign([id2cgroup EXCEPT ![m] = one]) BY <1>2, <2>2 DEF Edit
  <2> HIDE DEF one
  <2> QED BY <1>2, <2>1, <2>3, EditKeeps DEF Edit
<1>3. ASSUME NEW s \in held, Add(m, s) \/ Replace(m, s) PROVE Inv'
  <2> PICK x \in Object : s \in Members(x) BY DEF held
  <2>1. s[1] \in Hier /\ s[2] \in Name \union {Root, None}
    BY MembersTyped DEF Inv, TypeOK
  <2>2. id2cgroup[m][s[1]] \in Name \union {Root, None} BY <2>1 DEF Inv, TypeOK
  <2> QED BY <1>2, <1>3, <2>1, <2>2 DEF Add, Replace
<1>4. ASSUME NEW h \in Hier, Remove(m, h) PROVE Inv' BY <1>2, <1>4 DEF Remove
<1> QED BY <1>1, <1>3, <1>4

\* fieldPath remembers what it has found.
LEMMA FieldPathKeeps ==
    ASSUME Constants, Inv, NEW m \in Object, NEW f \in Field, FieldPath(m, f)
    PROVE Inv'
<1> USE DEF Inv
<1> PICK s \in Found(m, f) : cache' = [cache EXCEPT ![m][f] = s] BY DEF FieldPath
<1>1. /\ op.kind = "idle" /\ m \in alive
      /\ UNCHANGED <<alive, id2cgroup, made, dirs, busy, flag, ours, op, quiet>>
  BY DEF FieldPath, Ready, groups
<1>2. s \in Members(m) /\ <<s[1], f>> \in Has
  BY DEF Found, CacheIsCurrent
<1>3. s \in Single BY <1>2, MembersTyped
<1>4. \A x \in Object, g \in Field :
        cache'[x][g] = IF x = m /\ g = f THEN s ELSE cache[x][g]
  BY DEF TypeOK
<1>5. TypeOK' BY <1>1, <1>3 DEF TypeOK
<1>6. Child' /\ Fresh' /\ Told' BY <1>1 DEF Child, Fresh, Told, Calling
<1>7. \A x \in Object \ {m} : cache'[x] = cache[x] BY DEF TypeOK
<1>8. Vacant' BY <1>1, <1>7 DEF Vacant, Calling
<1>9. \A x : Members(x)' = Members(x) BY <1>1 DEF Members
<1>10. Owned' BY <1>1, <1>9 DEF Owned
<1>11. CacheIsCurrent' BY <1>2, <1>4, <1>9 DEF CacheIsCurrent
<1> QED BY <1>5, <1>6, <1>8, <1>10, <1>11

-----------------------------------------------------------------------------
(* attachChild and createChild *)

LEMMA BeginKeeps ==
    ASSUME Constants, Inv, NEW m \in Object, NEW to \in Object \union {None},
           NEW name \in Name \union {None}, NEW val \in BOOLEAN \union {None},
           NEW kind \in {"attach", "create", "get", "set"}, Begin(kind, m, to, name, val),
           kind \in {"attach", "create"} =>
               to \in Object /\ name \in Name /\ \A h \in Hiers(m) : id2cgroup[m][h] = Root,
           kind = "set" => val \in BOOLEAN
    PROVE Inv'
<1> USE DEF Inv
<1>1. /\ op.kind = "idle" /\ m \in alive /\ to \notin alive
      /\ op' = [kind |-> kind, m |-> m, to |-> to, name |-> name, rest |-> Hiers(m), val |-> val]
      /\ UNCHANGED <<alive, id2cgroup, cache, made, dirs, busy, flag, ours, quiet>>
  BY DEF Begin, Ready, groups, objects
<1>2. /\ op'.kind = kind /\ op'.m = m /\ op'.to = to /\ op'.name = name
      /\ op'.rest = Hiers(m) /\ op'.val = val
  BY <1>1
<1>3. Hiers(m) \subseteq Hier BY DEF Hiers
<1>4. op' \in Ops BY <1>1, <1>3 DEF Ops
<1>5. TypeOK' BY <1>1, <1>4 DEF TypeOK, Ops
<1>6. Child' /\ Fresh'
  <2> SUFFICES ASSUME kind \in {"attach", "create"} PROVE Child' /\ Fresh'
    BY <1>2 DEF Child, Fresh, Calling
  <2>1. id2cgroup[to] = Empty BY <1>1 DEF Vacant, Calling
  <2>2. Hiers(m)' = Hiers(m) BY <1>1 DEF Hiers
  <2>3. Child' BY <1>1, <1>2, <2>1, <2>2 DEF Child, Empty
  <2>4. Members(to)' = {} BY <1>1, <2>1 DEF Members, Empty
  <2> QED BY <1>2, <2>3, <2>4 DEF Fresh
<1>7. Vacant' BY <1>1 DEF Vacant, Calling
<1>8. \A x : Members(x)' = Members(x) BY <1>1 DEF Members
<1>9. Owned' BY <1>1, <1>8 DEF Owned
<1>10. Told'
  <2>1. Hiers(m)' = Hiers(m) BY <1>1 DEF Hiers
  <2> QED BY <1>2, <2>1 DEF Told
<1>11. CacheIsCurrent' BY <1>1, CacheKept
<1> QED BY <1>5, <1>6, <1>7, <1>9, <1>10, <1>11

\* One group more for the object the call makes.
LEMMA PutKeeps ==
    ASSUME Constants, Inv, NEW h \in Hier, At("attach", h) \/ At("create", h),
           Put(h), Next1(h), UNCHANGED <<alive, cache, busy, quiet>>,
           \/ op.kind = "attach" /\ UNCHANGED made
           \/ /\ op.kind = "create" /\ <<h, op.name>> \notin held
              /\ made' = made \union {<<h, op.name>>},
           made' \subseteq Single, dirs' \subseteq Single, dirs \subseteq dirs',
           flag' \in [Single -> BOOLEAN], ours' \subseteq dirs' /\ ours' \subseteq made'
    PROVE Inv'
<1> USE DEF Inv
<1>0. PICK to, n : to = op.to /\ n = op.name OBVIOUS
<1> USE <1>0
<1>1. /\ Calling /\ h \in op.rest
      /\ id2cgroup' = [id2cgroup EXCEPT ![to][h] = n]
      /\ op' = [op EXCEPT !.rest = @ \ {h}]
  BY DEF At, Put, Next1, Calling
<1>2. to \in Object \ alive /\ n \in Name /\ id2cgroup[to][h] = None
  BY <1>1 DEF Child
<1>3. /\ op'.kind = op.kind /\ op'.m = op.m /\ op'.to = to /\ op'.name = n
      /\ op'.rest = op.rest \ {h} /\ op' \in Ops
  BY <1>1 DEF TypeOK, Ops
<1>4. \A x \in Object, g \in Hier :
        id2cgroup'[x][g] = IF x = to /\ g = h THEN n ELSE id2cgroup[x][g]
  BY <1>1 DEF TypeOK
<1>5. id2cgroup' \in Ids BY <1>1, <1>2 DEF TypeOK, Ids
<1>6. \A x \in Object \ {to} : id2cgroup'[x] = id2cgroup[x] BY <1>1 DEF TypeOK
<1>7. Calling' /\ op.m \in Object \ {to} BY <1>1, <1>2, <1>3 DEF Calling, Child, TypeOK
<1>8. TypeOK' BY <1>3, <1>5 DEF TypeOK, Ids, Ops
<1>9. Child'
  <2>1. id2cgroup'[op.m] = id2cgroup[op.m] BY <1>6, <1>7
  <2>2. Hiers(op.m)' = Hiers(op.m) BY <1>3, <2>1 DEF Hiers
  <2>3. h \in Hiers(op.m) /\ op.rest \subseteq Hiers(op.m) BY <1>1 DEF Child
  <2>4. \A g \in Hier : id2cgroup'[to][g] =
          IF g \in Hiers(op.m) \ (op.rest \ {h}) THEN n ELSE None
    BY <1>1, <1>2, <1>4, <2>3 DEF Child
  <2> QED BY <1>1, <1>2, <1>3, <2>1, <2>2, <2>3, <2>4 DEF Child
<1>10. Vacant' BY <1>1, <1>3, <1>6, <1>7 DEF Vacant
<1>11. \A x \in Object \ {to} : Members(x)' = Members(x) BY <1>6 DEF Members
<1>12. Members(to)' = Members(to) \union {<<h, n>>}
  <2>1. n # None BY <1>2 DEF Constants
  <2>2. \A g \in Hier : id2cgroup'[to][g] = IF g = h THEN n ELSE id2cgroup[to][g]
    BY <1>2, <1>4
  <2> QED BY <1>2, <2>1, <2>2 DEF Members
<1>13. Fresh'
  <2> SUFFICES ASSUME op.kind = "create", NEW s \in Members(to)'
               PROVE s \in made' /\ \A x \in Object \ {to} : s \notin Members(x)
    BY <1>3, <1>11 DEF Fresh
  <2>1. CASE s \in Members(to) BY <2>1 DEF Fresh
  <2>2. CASE s = <<h, n>> BY <2>2 DEF held
  <2> QED BY <1>12, <2>1, <2>2
<1>14. Owned'
  <2>1. alive \subseteq Object \ {to} BY <1>2 DEF TypeOK
  <2>2. ASSUME NEW s \in made'
        PROVE \/ \E x \in alive : s \in Members(x)'
              \/ op.kind = "create" /\ s \in Members(to)'
    <3>1. CASE s \in made
      <4>1. ASSUME NEW x \in alive, s \in Members(x) PROVE s \in Members(x)'
        BY <1>11, <2>1, <4>1
      <4> QED BY <1>12, <3>1, <4>1 DEF Owned
    <3>2. CASE s \notin made BY <1>1, <1>12, <3>2 DEF Calling
    <3> QED BY <3>1, <3>2
  <2> QED BY <1>3, <2>2 DEF Owned
<1>15. Told' BY <1>1, <1>3 DEF Told, Calling
<1>16. CacheIsCurrent' BY <1>2, <1>6, CacheKept DEF Vacant
<1> QED BY <1>8, <1>9, <1>10, <1>13, <1>14, <1>15, <1>16

LEMMA ChildStepsKeep ==
    ASSUME Constants, Inv, \/ \E h \in Hier : AttachOne(h) \/ CreateOne(h)
                           \/ ChildFails \/ ChildDone
    PROVE Inv'
<1> USE DEF Inv
<1>1. ASSUME NEW h \in Hier, AttachOne(h) PROVE Inv'
  <2>1. made \subseteq Single /\ dirs \subseteq Single /\ flag \in [Single -> BOOLEAN]
        /\ ours \subseteq dirs /\ ours \subseteq made
    BY DEF TypeOK, Owned
  <2>2. UNCHANGED <<made, dirs, flag, ours, alive, cache, busy, quiet>>
    BY <1>1 DEF AttachOne, groups
  <2> QED BY <1>1, <2>1, <2>2, PutKeeps DEF AttachOne, At
<1>2. ASSUME NEW h \in Hier, CreateOne(h) PROVE Inv'
  <2>1. op.name \in Name BY <1>2 DEF CreateOne, At, Child, Calling
  <2>2. <<h, op.name>> \in Single /\ <<h, Root>> \in Single BY <2>1 DEF Single
  <2>3. /\ made' = made \union {<<h, op.name>>} /\ dirs' = dirs \union {<<h, op.name>>}
        /\ ours' = ours \union {<<h, op.name>>} /\ UNCHANGED <<alive, cache, busy, quiet>>
        /\ flag' = [flag EXCEPT ![<<h, op.name>>] = flag[<<h, Root>>]]
        /\ <<h, op.name>> \notin held
    BY <1>2 DEF CreateOne
  <2>4. flag' \in [Single -> BOOLEAN] BY <2>2, <2>3 DEF TypeOK
  <2>5. /\ made' \subseteq Single /\ dirs' \subseteq Single
        /\ ours' \subseteq dirs' /\ ours' \subseteq made'
    BY <2>2, <2>3 DEF TypeOK, Owned
  <2> QED BY <1>2, <2>3, <2>4, <2>5, PutKeeps DEF CreateOne, At
<1>3. CASE ChildFails
  <2> DEFINE to == op.to
             new == [id2cgroup EXCEPT ![to] = Empty]
  <2>1. to \in Object \ alive BY <1>3 DEF ChildFails, Child, Calling
  <2>2. new \in Ids BY <2>1 DEF TypeOK, Ids, Empty
  <2>3. Assign(new) /\ op' = Idle /\ UNCHANGED <<alive, cache>>
    BY <1>3 DEF ChildFails, Rollback, Done
  <2>4. id2cgroup' = new BY <2>3 DEF Assign
  <2>5. \A x \in Object : new[x] = IF x = to THEN Empty ELSE id2cgroup[x] BY DEF TypeOK
  <2> HIDE DEF new
  <2>6. /\ id2cgroup' \in Ids /\ made' \subseteq Single /\ dirs' \subseteq Single
        /\ busy' \subseteq dirs' /\ flag' \in [Single -> BOOLEAN] /\ ours' \subseteq dirs'
        /\ ours' \subseteq made' /\ \A s \in made' : \E x \in Object : s \in Members(x)'
    BY <2>2, <2>3, AssignKeeps DEF Owned
  <2>7. op'.kind = "idle" /\ op' \in Ops BY <2>3 DEF Idle, Ops
  <2>8. quiet' \in BOOLEAN BY <1>3 DEF ChildFails, Done
  <2>9. TypeOK' BY <2>3, <2>6, <2>7, <2>8 DEF TypeOK, Ids, Ops
  <2>10. Child' /\ Fresh' /\ Told' BY <2>7 DEF Child, Fresh, Told, Calling
  <2>11. Vacant' BY <2>3, <2>4, <2>5 DEF Vacant, Calling
  <2>12. CacheIsCurrent' BY <2>1, <2>3, <2>4, <2>5, CacheKept DEF Vacant
  <2>13. Owned' BY <2>6, <2>7, <2>11, OwnedAtRest
  <2> QED BY <2>9, <2>10, <2>11, <2>12, <2>13
<1>4. CASE ChildDone
  <2>1. /\ alive' = alive \union {op.to} /\ op' = Idle /\ quiet' = TRUE
        /\ UNCHANGED <<id2cgroup, cache, made, dirs, busy, flag, ours>>
    BY <1>4 DEF ChildDone, Done, groups
  <2>2. op.to \in Object BY <1>4 DEF ChildDone, Child, Calling
  <2>3. op'.kind = "idle" /\ op' \in Ops BY <2>1 DEF Idle, Ops
  <2>4. TypeOK' BY <2>1, <2>2, <2>3 DEF TypeOK, Ops
  <2>5. Child' /\ Fresh' /\ Told' BY <2>3 DEF Child, Fresh, Told, Calling
  <2>6. Vacant' BY <2>1 DEF Vacant, Calling
  <2>7. \A x : Members(x)' = Members(x) BY <2>1 DEF Members
  <2>8. Owned' BY <2>1, <2>7 DEF Owned
  <2>9. CacheIsCurrent' BY <2>1, CacheKept
  <2> QED BY <2>4, <2>5, <2>6, <2>8, <2>9
<1> QED BY <1>1, <1>2, <1>3, <1>4

-----------------------------------------------------------------------------
(* Fields of all the groups, and the rest of the system *)

\* The groups of an object are in different hierarchies: a write to one leaves
\* the values of the others.
LEMMA SetOneKeeps ==
    ASSUME Constants, Inv, NEW h \in Hier, SetOne(h)
    PROVE Inv'
<1> USE DEF Inv
<1>1. /\ op.kind = "set" /\ h \in op.rest /\ Group(h) \in dirs
      /\ flag' = [flag EXCEPT ![Group(h)] = op.val] /\ op' = [op EXCEPT !.rest = @ \ {h}]
      /\ UNCHANGED <<alive, id2cgroup, cache, made, dirs, busy, quiet, ours>>
  BY DEF SetOne, At, Next1, objects
<1>2. op.m \in Object /\ op.val \in BOOLEAN BY <1>1 DEF Told
<1>3. /\ op'.kind = op.kind /\ op'.m = op.m /\ op'.val = op.val /\ op'.rest = op.rest \ {h}
      /\ op' \in Ops
  BY <1>1 DEF TypeOK, Ops
<1>4. flag' \in [Single -> BOOLEAN] BY <1>1, <1>2 DEF TypeOK
<1>5. TypeOK' BY <1>1, <1>3, <1>4 DEF TypeOK, Ops
<1>6. Child' /\ Fresh' BY <1>1, <1>3 DEF Child, Fresh, Calling
<1>7. Vacant' BY <1>1, <1>3 DEF Vacant, Calling
<1>8. Owned'
  <2>1. \A x : Members(x)' = Members(x) BY <1>1 DEF Members
  <2> QED BY <1>1, <1>3, <2>1 DEF Owned
<1>9. Told'
  <2>1. Hiers(op.m)' = Hiers(op.m) BY <1>1, <1>3 DEF Hiers
  <2>2. \A g \in Hier : Group(g)' = Group(g) BY <1>1, <1>3 DEF Group
  <2>3. ASSUME quiet, NEW g \in Hiers(op.m) \ op'.rest PROVE Value(g)' = op.val
    <3>1. g \in Hier /\ id2cgroup[op.m][g] # None BY DEF Hiers
    <3>2. Group(g) \in Single BY <1>2, <3>1 DEF Group, Single, TypeOK
    <3>3. CASE g = h BY <1>1, <2>2, <3>1, <3>2, <3>3 DEF Value, TypeOK
    <3>4. CASE g # h
      <4>1. Group(g) # Group(h) BY <3>4 DEF Group
      <4>2. Value(g) = op.val BY <1>1, <1>3, <2>3, <3>4 DEF Told
      <4> QED BY <1>1, <2>2, <3>1, <3>2, <4>1, <4>2 DEF Value, TypeOK
    <3> QED BY <3>3, <3>4
  <2> QED BY <1>1, <1>2, <1>3, <2>1, <2>3 DEF Told
<1>10. CacheIsCurrent' BY <1>1, CacheKept
<1> QED BY <1>5, <1>6, <1>7, <1>8, <1>9, <1>10

LEMMA GetOneKeeps ==
    ASSUME Constants, Inv, NEW h \in Hier, GetOne(h)
    PROVE Inv'
<1> USE DEF Inv
<1>1. /\ op.kind = "get" /\ h \in op.rest /\ Group(h) \in dirs /\ op.val \in {None, Value(h)}
      /\ op' = [op EXCEPT !.rest = @ \ {h}, !.val = IF @ = None THEN Value(h) ELSE @]
      /\ UNCHANGED <<alive, id2cgroup, cache, made, dirs, busy, flag, quiet, ours>>
  BY DEF GetOne, At, Agrees, objects, groups
<1>2. op.m \in Object BY <1>1 DEF Told
<1>3. Value(h) \in BOOLEAN BY <1>1 DEF Value, TypeOK
<1>4. /\ op'.kind = op.kind /\ op'.m = op.m /\ op'.rest = op.rest \ {h}
      /\ op'.to = op.to /\ op'.name = op.name
      /\ op'.val = Value(h)
  BY <1>1 DEF TypeOK
<1>5. op' \in Ops BY <1>1, <1>3 DEF TypeOK, Ops
<1>6. TypeOK' BY <1>1, <1>5 DEF TypeOK, Ops
<1>7. Child' /\ Fresh' BY <1>1, <1>4 DEF Child, Fresh, Calling
<1>8. Vacant' BY <1>1, <1>4 DEF Vacant, Calling
<1>9. Owned'
  <2>1. \A x : Members(x)' = Members(x) BY <1>1 DEF Members
  <2> QED BY <1>1, <1>4, <2>1 DEF Owned
<1>10. Told'
  <2>1. Hiers(op.m)' = Hiers(op.m) BY <1>1, <1>4 DEF Hiers
  <2>2. \A g \in Hier : Value(g)' = Value(g) BY <1>1, <1>4 DEF Group, Value
  <2>3. ASSUME quiet, NEW g \in Hiers(op.m) \ op'.rest PROVE Value(g)' = Value(h)
    <3>1. g \in Hier /\ id2cgroup[op.m][g] # None BY DEF Hiers
    <3>2. CASE g = h BY <2>2, <3>2
    <3>3. CASE g # h
      <4>1. Value(g) = op.val BY <1>1, <1>4, <2>3, <3>3 DEF Told
      <4>2. Group(g) \in Single BY <1>2, <3>1 DEF Group, Single, TypeOK
      <4>3. Value(g) \in BOOLEAN BY <4>2 DEF Value, TypeOK
      <4>4. op.val # None BY <4>1, <4>3 DEF Constants
      <4> QED BY <1>1, <2>2, <3>1, <4>1, <4>4
    <3> QED BY <3>2, <3>3
  <2> QED BY <1>1, <1>2, <1>4, <2>1, <2>3 DEF Told
<1>11. CacheIsCurrent' BY <1>1, CacheKept
<1> QED BY <1>6, <1>7, <1>8, <1>9, <1>10, <1>11

LEMMA FieldEndsKeep ==
    ASSUME Constants, Inv, FieldFails \/ FieldDone
    PROVE Inv'
<1> USE DEF Inv
<1>1. /\ op.kind \in {"get", "set"} /\ op' = Idle /\ quiet' = TRUE
      /\ UNCHANGED <<alive, id2cgroup, cache, made, dirs, busy, flag, ours>>
  BY DEF FieldFails, FieldDone, Done, objects, groups
<1>2. op'.kind = "idle" /\ op' \in Ops BY <1>1 DEF Idle, Ops
<1>3. TypeOK' BY <1>1, <1>2 DEF TypeOK, Ops
<1>4. Child' /\ Fresh' /\ Told' BY <1>2 DEF Child, Fresh, Told, Calling
<1>5. Vacant' BY <1>1 DEF Vacant, Calling
<1>6. Owned'
  <2>1. \A x : Members(x)' = Members(x) BY <1>1 DEF Members
  <2> QED BY <1>1, <2>1 DEF Owned
<1>7. CacheIsCurrent' BY <1>1, CacheKept
<1> QED BY <1>3, <1>4, <1>5, <1>6, <1>7

LEMMA OthersKeep ==
    ASSUME Constants, Inv, Others
    PROVE Inv'
<1> USE DEF Inv
<1> PICK s \in Single :
      /\ Occupy(s) \/ Vacate(s) \/ OthersMake(s) \/ OthersRemove(s)
      /\ flag' = [q \in Single |-> IF q \in dirs' \ dirs THEN flag[<<q[1], Root>>]
                                   ELSE q \in dirs' /\ flag[q]]
      /\ quiet' = (op.kind = "idle") /\ ours' = ours \intersect dirs'
      /\ UNCHANGED <<objects, made, op>>
  BY DEF Others
<1>1. dirs' \subseteq Single /\ busy' \subseteq dirs'
  BY DEF Occupy, Vacate, OthersMake, OthersRemove, TypeOK
<1>2. flag' \in [Single -> BOOLEAN]
  <2>1. \A q \in Single : flag[<<q[1], Root>>] \in BOOLEAN BY DEF Single, TypeOK
  <2>2. \A q \in Single :
          (IF q \in dirs' \ dirs THEN flag[<<q[1], Root>>] ELSE q \in dirs' /\ flag[q]) \in BOOLEAN
    BY <2>1
  <2> QED BY <2>2
<1>3. TypeOK' BY <1>1, <1>2 DEF TypeOK, objects
<1>4. \A x : Members(x)' = Members(x) BY DEF Members, objects
<1>5. Child' /\ Fresh' /\ Vacant' BY <1>4 DEF Child, Fresh, Vacant, Calling, Hiers, objects
<1>6. Owned' BY <1>4 DEF Owned, objects
<1>7. Told' BY DEF Told, objects
<1>8. CacheIsCurrent' BY CacheKept DEF objects
<1> QED BY <1>3, <1>5, <1>6, <1>7, <1>8

-----------------------------------------------------------------------------
(* The invariant *)

LEMMA InitInv == ASSUME Constants, Init PROVE Inv
<1> USE DEF Init
<1>1. TypeOK BY DEF TypeOK, Empty, NoPaths, Idle, Single
<1>2. Child /\ Fresh /\ Told BY DEF Child, Fresh, Told, Calling, Idle
<1>3. Vacant BY DEF Vacant
<1>4. Owned BY DEF Owned
<1>5. CacheIsCurrent BY DEF CacheIsCurrent, NoPaths
<1> QED BY <1>1, <1>2, <1>3, <1>4, <1>5 DEF Inv

LEMMA NextInv == ASSUME Constants, Inv, [Next]_vars PROVE Inv'
<1>1. CASE Others BY <1>1, OthersKeep
<1>2. ASSUME NEW m \in Object,
             \/ Release(m)
             \/ \E s \in held : Add(m, s) \/ Replace(m, s)
             \/ \E h \in Hier : Remove(m, h)
      PROVE Inv'
  BY <1>2, ChangesKeep
<1>3. ASSUME NEW m \in Object, NEW S, Unite(m, S) PROVE Inv' BY <1>3, UniteKeeps
<1>4. ASSUME NEW m \in Object, NEW f \in Field, FieldPath(m, f) PROVE Inv'
  BY <1>4, FieldPathKeeps
<1>5. ASSUME NEW m \in Object, NEW to \in Object, Parent(m, to) PROVE Inv'
  BY <1>5, ParentKeeps
<1>6. ASSUME NEW m \in Object, NEW to \in Object, NEW kind \in {"attach", "create"},
             NEW n \in Name, BeginChild(kind, m, to, n)
      PROVE Inv'
  <2>1. Begin(kind, m, to, n, None) /\ \A h \in Hiers(m) : id2cgroup[m][h] = Root
    BY <1>6 DEF BeginChild
  <2> QED BY <2>1, BeginKeeps
<1>7. ASSUME NEW m \in Object, Begin("get", m, None, None, None) PROVE Inv'
  BY <1>7, BeginKeeps
<1>8. ASSUME NEW m \in Object, NEW v \in BOOLEAN, Begin("set", m, None, None, v) PROVE Inv'
  BY <1>8, BeginKeeps
<1>9. ASSUME NEW h \in Hier, AttachOne(h) \/ CreateOne(h) \/ SetOne(h) \/ GetOne(h)
      PROVE Inv'
  BY <1>9, ChildStepsKeep, SetOneKeeps, GetOneKeeps
<1>10. CASE ChildFails \/ ChildDone BY <1>10, ChildStepsKeep
<1>11. CASE FieldFails \/ FieldDone BY <1>11, FieldEndsKeep
<1>12. CASE UNCHANGED vars
  <2> USE <1>12 DEF vars, objects, groups, Inv
  <2>1. TypeOK' BY DEF TypeOK
  <2>2. Child' /\ Vacant' /\ Fresh' BY DEF Child, Fresh, Vacant, Calling, Hiers, Members
  <2>3. Told' BY DEF Told, Hiers, Value, Group
  <2>4. Owned' BY DEF Owned, Members
  <2>5. CacheIsCurrent' BY CacheKept
  <2> QED BY <2>1, <2>2, <2>3, <2>4, <2>5
<1> QED
  BY <1>1, <1>2, <1>3, <1>4, <1>5, <1>6, <1>7, <1>8, <1>9, <1>10, <1>11, <1>12
  DEF Next

LEMMA InvHolds == ASSUME Constants PROVE Spec => []Inv
<1>1. Init => Inv BY InitInv
<1>2. Inv /\ [Next]_vars => Inv' BY NextInv
<1> QED BY <1>1, <1>2, PTL DEF Spec

\* What the invariant says of the ends of calls.
LEMMA InvNothingLeft == ASSUME Inv PROVE GroupsNothingLeft
<1> SUFFICES ASSUME op.kind = "idle", NEW s \in made
             PROVE \E m \in alive : s \in Members(m)
  BY DEF Inv, Owned, GroupsNothingLeft
<1> QED BY DEF Inv, Owned

LEMMA InvAnswerTrue == ASSUME Inv PROVE AnswerTrue
<1> SUFFICES ASSUME op.kind \in {"get", "set"}, op.rest = {}, quiet, NEW h \in Hiers(op.m)
             PROVE Value(h) = op.val
  BY DEF AnswerTrue
<1> QED BY DEF Inv, Told

-----------------------------------------------------------------------------
(* Objects act like sets of groups *)

\* Between two calls an object shows all it has.
LEMMA SetsAtRest ==
    ASSUME Inv, op.kind = "idle"
    PROVE sets = [x \in Object |-> Members(x)] /\ created = made /\ Sets!Held = held
<1>1. ASSUME NEW x \in Object PROVE (IF x \in alive THEN Members(x) ELSE {}) = Members(x)
  BY DEF Inv, Vacant, Calling, Members, Empty
<1>2. sets = [x \in Object |-> Members(x)] BY <1>1 DEF sets
<1>3. \A x \in Object : Members(x) # {} => x \in alive BY <1>1
<1>4. alive \subseteq Object BY DEF Inv, TypeOK
<1>5. Sets!Held = held BY <1>2, <1>3, <1>4 DEF Sets!Held, held
<1> QED BY <1>2, <1>5 DEF created

LEMMA SetsAfter ==
    ASSUME Inv', op'.kind = "idle"
    PROVE sets' = [x \in Object |-> Members(x)'] /\ created' = made'
<1>1. ASSUME NEW x \in Object PROVE (IF x \in alive' THEN Members(x)' ELSE {}) = Members(x)'
  BY DEF Inv, Vacant, Calling, Members, Empty
<1> QED BY <1>1 DEF sets, created

\* What a step between two calls is to be like.
LEMMA Becoming ==
    ASSUME Inv, Inv', op.kind = "idle", op'.kind = "idle", NEW m \in Object,
           \A x \in Object \ {m} : Members(x)' = Members(x),
           \A s : s \in made' <=> s \in made /\ \E x \in Object : s \in Members(x)'
    PROVE Sets!Becomes(m, Members(m)', {})
<1>1. sets = [x \in Object |-> Members(x)] /\ created = made BY SetsAtRest
<1>2. sets' = [x \in Object |-> Members(x)'] /\ created' = made' BY SetsAfter
<1>3. sets' = [sets EXCEPT ![m] = Members(m)'] BY <1>1, <1>2
<1>4. created' = {s \in created \union {} : \E x \in Object : s \in sets'[x]} BY <1>1, <1>2
<1> QED BY <1>3, <1>4 DEF Sets!Becomes

Groups(f) == {<<h, f[h]>> : h \in {g \in Hier : f[g] # None}}

\* An assignment to id2cgroup_ removes what was made and is no longer needed.
LEMMA AssignBecomes ==
    ASSUME Constants, Inv, Inv', op.kind = "idle", op'.kind = "idle", NEW m \in Object,
           NEW one \in [Hier -> Name \union {Root, None}], Assign([id2cgroup EXCEPT ![m] = one])
    PROVE Sets!Becomes(m, Groups(one), {})
<1> DEFINE new == [id2cgroup EXCEPT ![m] = one]
           stays == UNION {{<<h, new[x][h]>> : h \in Hier} : x \in Object}
<1>1. id2cgroup' = new /\ made' = made \ {s \in made : s \notin stays} BY DEF Assign
<1>2. new[m] = one /\ \A x \in Object \ {m} : new[x] = id2cgroup[x] BY DEF Inv, TypeOK
<1>3. Members(m)' = Groups(one) BY <1>1, <1>2 DEF Members, Groups
<1>4. \A x \in Object \ {m} : Members(x)' = Members(x) BY <1>1, <1>2 DEF Members
<1> HIDE DEF new
<1>5. ASSUME NEW s \in made
      PROVE s \in stays <=> \E x \in Object : s \in Members(x)'
  <2>1. s \in Single BY DEF Inv, TypeOK
  <2>2. s[2] # None BY <2>1 DEF Single, Constants
  <2>3. ASSUME s \in stays PROVE \E x \in Object : s \in Members(x)'
    <3> PICK x \in Object, h \in Hier : s = <<h, new[x][h]>> BY <2>3
    <3> QED BY <1>1, <2>2 DEF Members
  <2>4. ASSUME NEW x \in Object, s \in Members(x)' PROVE s \in stays
    BY <1>1, <2>4 DEF Members
  <2> QED BY <2>3, <2>4
<1> HIDE DEF stays
<1>6. \A s : s \in made' <=> s \in made /\ \E x \in Object : s \in Members(x)' BY <1>1, <1>5
<1> QED BY <1>3, <1>4, <1>6, Becoming

\* A new object of groups that are there anyway.
LEMMA NewBecomes ==
    ASSUME Constants, Inv, Inv', op.kind = "idle", op'.kind = "idle", NEW m \in Object \ alive,
           NEW f \in [Hier -> Name \union {Root, None}], id2cgroup' = [id2cgroup EXCEPT ![m] = f],
           alive' = alive \union {m}, UNCHANGED made
    PROVE Sets!Make(m, Groups(f), {})
<1>1. id2cgroup'[m] = f /\ \A x \in Object \ {m} : id2cgroup'[x] = id2cgroup[x] BY DEF Inv, TypeOK
<1>2. Members(m)' = Groups(f) BY <1>1 DEF Members, Groups
<1>3. \A x \in Object \ {m} : Members(x)' = Members(x) BY <1>1 DEF Members
<1>4. ASSUME NEW s \in made PROVE \E x \in Object : s \in Members(x)'
  <2> PICK x \in alive : s \in Members(x) BY DEF Inv, Owned
  <2>1. x \in Object \ {m} BY DEF Inv, TypeOK
  <2> QED BY <1>3, <2>1
<1>5. Sets!Becomes(m, Members(m)', {}) BY <1>3, <1>4, Becoming
<1> QED BY <1>2, <1>5 DEF Sets!Make

\* A step that touches no object shows nothing.
LEMMA ObjectsStill ==
    ASSUME UNCHANGED <<alive, id2cgroup, made>>,
           op.kind = "create" => op'.kind = "create" /\ op'.to = op.to,
           op'.kind = "create" => op.kind = "create"
    PROVE UNCHANGED Sets!vars
<1>1. \A x : Members(x)' = Members(x) BY DEF Members
<1>2. sets' = sets BY <1>1 DEF sets
<1>3. created' = created BY <1>1 DEF created
<1> QED BY <1>2, <1>3 DEF Sets!vars

\* Nor does an assignment of what is there already.
LEMMA AssignStill ==
    ASSUME Inv, op.kind = "idle", Assign(id2cgroup)
    PROVE UNCHANGED <<id2cgroup, made>>
<1>1. ASSUME NEW s \in made PROVE s \in UNION {{<<h, id2cgroup[x][h]>> : h \in Hier} : x \in Object}
  <2> PICK x \in alive : s \in Members(x) BY DEF Inv, Owned
  <2> QED BY DEF Inv, TypeOK, Members
<1> QED BY <1>1 DEF Assign

\* add, replace, remove.
LEMMA EditActs ==
    ASSUME Constants, Inv, Inv', NEW m \in Object, NEW h \in Hier,
           NEW n \in Name \union {Root, None}, Ready(m), Edit(m, h, n)
    PROVE Sets!Change(m, {q \in Members(m) : q[1] # h} \union (IF n = None THEN {} ELSE {<<h, n>>}))
<1> DEFINE one == [id2cgroup[m] EXCEPT ![h] = n]
<1>1. one \in [Hier -> Name \union {Root, None}] BY DEF Inv, TypeOK
<1>2. [id2cgroup EXCEPT ![m][h] = n] = [id2cgroup EXCEPT ![m] = one] OBVIOUS
<1>3. /\ Assign([id2cgroup EXCEPT ![m] = one])
      /\ UNCHANGED alive /\ op.kind = "idle" /\ op'.kind = "idle"
  BY <1>2 DEF Edit, Ready
<1>4. \A g \in Hier : one[g] = IF g = h THEN n ELSE id2cgroup[m][g] BY DEF Inv, TypeOK
<1> HIDE DEF one
<1>5. Groups(one) =
        {q \in Members(m) : q[1] # h} \union (IF n = None THEN {} ELSE {<<h, n>>})
  BY <1>4 DEF Groups, Members
<1> QED BY <1>1, <1>3, <1>5, AssignBecomes DEF Sets!Change

LEMMA AddActs ==
    ASSUME Constants, Inv, Inv', NEW m \in Object, NEW s \in held, Add(m, s)
    PROVE Sets!Next \/ UNCHANGED Sets!vars
<1>1. op.kind = "idle" /\ m \in alive /\ Ready(m) BY DEF Add, Ready
<1>2. sets[m] = Members(m) /\ s \in Sets!Held BY <1>1, SetsAtRest
<1> PICK x \in Object : s \in Members(x) BY DEF held
<1>3. s = <<s[1], s[2]>> /\ s[1] \in Hier /\ s[2] \in Name \union {Root, None} /\ s[2] # None
  BY MembersTyped DEF Inv, TypeOK, Members
<1>4. CASE id2cgroup[m][s[1]] = None
  <2>1. Sets!Change(m, {q \in Members(m) : q[1] # s[1]} \union {s})
    BY <1>1, <1>3, <1>4, EditActs DEF Add
  <2>2. \A q \in Members(m) : q[1] # s[1] BY <1>4 DEF Members
  <2>3. {q \in Members(m) : q[1] # s[1]} = Members(m) /\ Sets!Same(Members(m), s) = {}
    BY <2>2 DEF Sets!Same
  <2> QED BY <1>1, <1>2, <2>1, <2>3 DEF Sets!Add, Sets!Next
<1>5. CASE id2cgroup[m][s[1]] # None
  <2>1. Assign([id2cgroup EXCEPT ![m][s[1]] = id2cgroup[m][s[1]]]) /\ UNCHANGED <<alive, op>>
    BY <1>5 DEF Add, Edit
  <2>2. [id2cgroup EXCEPT ![m][s[1]] = id2cgroup[m][s[1]]] = id2cgroup BY DEF Inv, TypeOK
  <2>3. UNCHANGED <<id2cgroup, made>> BY <1>1, <2>1, <2>2, AssignStill
  <2> QED BY <2>1, <2>3, ObjectsStill
<1> QED BY <1>4, <1>5

LEMMA ReplaceActs ==
    ASSUME Constants, Inv, Inv', NEW m \in Object, NEW s \in held, Replace(m, s)
    PROVE Sets!Next \/ UNCHANGED Sets!vars
<1>1. op.kind = "idle" /\ m \in alive /\ Ready(m) BY DEF Replace, Ready
<1>2. sets[m] = Members(m) /\ s \in Sets!Held BY <1>1, SetsAtRest
<1> PICK x \in Object : s \in Members(x) BY DEF held
<1>3. s = <<s[1], s[2]>> /\ s[1] \in Hier /\ s[2] \in Name \union {Root, None} /\ s[2] # None
  BY MembersTyped DEF Inv, TypeOK, Members
<1>4. CASE id2cgroup[m][s[1]] # None
  <2>1. Sets!Change(m, {q \in Members(m) : q[1] # s[1]} \union {s})
    BY <1>1, <1>3, <1>4, EditActs DEF Replace
  <2>2. {q \in Members(m) : q[1] # s[1]} = Members(m) \ Sets!Same(Members(m), s) BY DEF Sets!Same
  <2>3. Sets!Same(Members(m), s) # {}
    <3>1. <<s[1], id2cgroup[m][s[1]]>> \in Members(m) BY <1>3, <1>4 DEF Members
    <3>2. <<s[1], id2cgroup[m][s[1]]>>[1] = s[1] OBVIOUS
    <3> QED BY <3>1, <3>2 DEF Sets!Same
  <2> QED BY <1>1, <1>2, <2>1, <2>2, <2>3 DEF Sets!Replace, Sets!Next
<1>5. CASE id2cgroup[m][s[1]] = None
  <2>1. Assign([id2cgroup EXCEPT ![m][s[1]] = None]) /\ UNCHANGED <<alive, op>>
    BY <1>5 DEF Replace, Edit
  <2>2. [id2cgroup EXCEPT ![m][s[1]] = None] = id2cgroup BY <1>5 DEF Inv, TypeOK
  <2>3. UNCHANGED <<id2cgroup, made>> BY <1>1, <2>1, <2>2, AssignStill
  <2> QED BY <2>1, <2>3, ObjectsStill
<1> QED BY <1>4, <1>5

LEMMA RemoveActs ==
    ASSUME Constants, Inv, Inv', NEW m \in Object, NEW h \in Hier, Remove(m, h)
    PROVE Sets!Next
<1>1. op.kind = "idle" /\ m \in alive /\ Ready(m) BY DEF Remove, Ready
<1>2. sets[m] = Members(m) BY <1>1, SetsAtRest
<1>3. Sets!Change(m, {q \in Members(m) : q[1] # h}) BY <1>1, EditActs DEF Remove
<1> QED BY <1>1, <1>2, <1>3 DEF Sets!Remove, Sets!Next

LEMMA ReleaseActs ==
    ASSUME Constants, Inv, Inv', NEW m \in Object, Release(m)
    PROVE Sets!Next
<1>1. op.kind = "idle" /\ op'.kind = "idle" /\ m \in alive /\ alive' = alive \ {m}
  BY DEF Release, Ready
<1>2. Empty \in [Hier -> Name \union {Root, None}] /\ Groups(Empty) = {} BY DEF Empty, Groups
<1>3. Sets!Becomes(m, {}, {}) BY <1>1, <1>2, AssignBecomes DEF Release
<1> QED BY <1>1, <1>3 DEF Sets!Release, Sets!Next

LEMMA UniteActs ==
    ASSUME Constants, Inv, Inv', NEW m \in Object,
           NEW S \in SUBSET (held \union (Hier \X {Root})), Unite(m, S)
    PROVE Sets!Next
<1>1. /\ op.kind = "idle" /\ op'.kind = "idle" /\ m \in Object \ alive
      /\ alive' = alive \union {m} /\ UNCHANGED made
  BY DEF Unite, groups
<1> PICK f \in [Hier -> Name \union {Root, None}] :
      S = Groups(f) /\ id2cgroup' = [id2cgroup EXCEPT ![m] = f]
  BY DEF Unite, Groups
<1>2. Sets!Make(m, S, {}) BY <1>1, NewBecomes
<1>3. \A q, r \in S : q[1] = r[1] => q = r BY DEF Groups
<1>4. S \in SUBSET (Sets!Held \union (Hier \X {Root})) BY <1>1, SetsAtRest
<1> QED BY <1>2, <1>3, <1>4 DEF Sets!Unite, Sets!Next

\* The groups of one name beside those of an object.
LEMMA CalledIs ==
    ASSUME NEW m, NEW n
    PROVE Sets!Called(Members(m), n) = {<<h, n>> : h \in Hiers(m)}
<1> DEFINE S == {<<h, id2cgroup[m][h]>> : h \in Hiers(m)}
<1>1. Members(m) = S BY DEF Members, Hiers
<1>2. ASSUME NEW q \in S PROVE <<q[1], n>> \in {<<h, n>> : h \in Hiers(m)} OBVIOUS
<1>3. ASSUME NEW h \in Hiers(m) PROVE \E q \in S : q[1] = h
  <2>1. <<h, id2cgroup[m][h]>> \in S OBVIOUS
  <2>2. <<h, id2cgroup[m][h]>>[1] = h OBVIOUS
  <2> QED BY <2>1, <2>2
<1> HIDE DEF S
<1> QED BY <1>1, <1>2, <1>3 DEF Sets!Called

LEMMA ParentActs ==
    ASSUME Constants, Inv, Inv', NEW m \in Object, NEW to \in Object, Parent(m, to)
    PROVE Sets!Next
<1> DEFINE f == [h \in Hier |-> IF h \in Hiers(m) THEN Root ELSE None]
<1>1. /\ op.kind = "idle" /\ op'.kind = "idle" /\ m \in alive /\ to \in Object \ alive
      /\ alive' = alive \union {to} /\ UNCHANGED made
      /\ id2cgroup' = [id2cgroup EXCEPT ![to] = f]
      /\ \A h \in Hiers(m) : id2cgroup[m][h] # Root
  BY DEF Parent, Ready, groups
<1>2. f \in [Hier -> Name \union {Root, None}] OBVIOUS
<1>3. Groups(f) = Sets!Called(Members(m), Root)
  <2>1. Root # None BY DEF Constants
  <2>2. Groups(f) = {<<h, Root>> : h \in Hiers(m)} BY <2>1 DEF Groups, Hiers
  <2>3. Sets!Called(Members(m), Root) = {<<h, Root>> : h \in Hiers(m)} BY CalledIs
  <2> QED BY <2>2, <2>3
<1> HIDE DEF f
<1>4. Sets!Make(to, Sets!Called(Members(m), Root), {}) BY <1>1, <1>2, <1>3, NewBecomes
<1>5. sets[m] = Members(m) BY <1>1, SetsAtRest
<1>6. \A q \in Members(m) : q[2] # Root BY <1>1 DEF Members, Hiers
<1> QED BY <1>1, <1>4, <1>5, <1>6 DEF Sets!Parent, Sets!Next

-----------------------------------------------------------------------------
(* The loops show nothing before they end *)

\* One hierarchy more of a child that nobody has yet.
LEMMA PutActs ==
    ASSUME Constants, Inv, Inv', NEW h \in Hier, AttachOne(h) \/ CreateOne(h)
    PROVE UNCHANGED Sets!vars
<1>1. PICK to, n : to = op.to /\ n = op.name OBVIOUS
<1>2. /\ Calling /\ id2cgroup' = [id2cgroup EXCEPT ![to][h] = n] /\ UNCHANGED alive
      /\ op' = [op EXCEPT !.rest = @ \ {h}]
  BY <1>1 DEF AttachOne, CreateOne, At, Put, Next1, Calling
<1>3. op'.kind = op.kind /\ op'.to = to BY <1>1, <1>2 DEF Inv, TypeOK
<1>4. to \in Object \ alive /\ id2cgroup[to][h] \in {n, None} /\ n \in Name
  BY <1>1, <1>2 DEF Inv, Child
<1>5. \A x \in Object \ {to} : id2cgroup'[x] = id2cgroup[x] BY <1>2 DEF Inv, TypeOK
<1>6. \A x \in Object \ {to} : Members(x)' = Members(x) BY <1>5 DEF Members
<1>7. sets' = sets BY <1>2, <1>4, <1>6 DEF sets
<1>8. created' = created
  <2>1. CASE op.kind # "create" BY <1>3, <2>1 DEF AttachOne, CreateOne, At, created, groups
  <2>2. CASE op.kind = "create"
    <3>1. made' = made \union {<<h, n>>} /\ <<h, n>> \notin held
      BY <1>1, <2>2 DEF AttachOne, CreateOne, At
    <3>2. Members(to)' = Members(to) \union {<<h, n>>}
      <4>1. \A g \in Hier : id2cgroup'[to][g] = IF g = h THEN n ELSE id2cgroup[to][g]
        BY <1>2, <1>4 DEF Inv, TypeOK
      <4>2. n # None BY <1>4 DEF Constants
      <4>3. id2cgroup[to][h] = None BY <1>4, <3>1, <4>2 DEF held, Members
      <4> QED BY <1>4, <4>1, <4>2, <4>3 DEF Members
    <3>3. <<h, n>> \notin made
      <4> SUFFICES ASSUME <<h, n>> \in made PROVE FALSE OBVIOUS
      <4>1. \E x \in Object : <<h, n>> \in Members(x)
        BY <1>1, <1>4 DEF Inv, Owned, TypeOK
      <4> QED BY <3>1, <4>1 DEF held
    <3>4. created = made \ Members(to) BY <1>1, <2>2 DEF created
    <3>5. created' = made' \ Members(to)' BY <1>3, <2>2 DEF created
    <3> QED BY <3>1, <3>2, <3>3, <3>4, <3>5
  <2> QED BY <2>1, <2>2
<1> QED BY <1>2, <1>7, <1>8 DEF Sets!vars

\* A call that fails takes back what it has made, and nothing else.
LEMMA ChildFailsActs ==
    ASSUME Constants, Inv, Inv', ChildFails
    PROVE UNCHANGED Sets!vars
<1>1. PICK to : to = op.to OBVIOUS
<1> DEFINE new == [id2cgroup EXCEPT ![to] = Empty]
           stays == UNION {{<<h, new[x][h]>> : h \in Hier} : x \in Object}
<1>2. /\ Calling /\ op'.kind = "idle" /\ UNCHANGED alive
      /\ id2cgroup' = new /\ made' = made \ {s \in made : s \notin stays}
  BY <1>1 DEF ChildFails, Rollback, Done, Idle, Assign, Calling
<1>3. to \in Object \ alive BY <1>1, <1>2 DEF Inv, Child
<1>4. new[to] = Empty /\ \A x \in Object \ {to} : new[x] = id2cgroup[x] BY <1>3 DEF Inv, TypeOK
<1> HIDE DEF new
<1>5. \A x \in Object \ {to} : Members(x)' = Members(x) BY <1>2, <1>4 DEF Members
<1>6. sets' = sets BY <1>2, <1>3, <1>5 DEF sets
<1>7. ASSUME NEW s \in made
      PROVE s \in stays <=> \E x \in Object \ {to} : s \in Members(x)
  <2>1. s[2] # None BY DEF Inv, TypeOK, Single, Constants
  <2>2. ASSUME s \in stays PROVE \E x \in Object \ {to} : s \in Members(x)
    <3> PICK x \in Object, h \in Hier : s = <<h, new[x][h]>> BY <2>2
    <3>1. x # to BY <1>4, <2>1 DEF Empty
    <3> QED BY <1>4, <2>1, <3>1 DEF Members
  <2>3. ASSUME NEW x \in Object \ {to}, s \in Members(x) PROVE s \in stays
    BY <1>4, <2>3 DEF Members
  <2> QED BY <2>2, <2>3
<1> HIDE DEF stays
<1>8. ASSUME NEW s \in made
      PROVE s \in made' <=> op.kind # "create" \/ s \notin Members(to)
  <2>1. alive \subseteq Object \ {to} BY <1>3 DEF Inv, TypeOK
  <2>2. CASE \E x \in alive : s \in Members(x) BY <1>1, <1>2, <1>7, <2>1, <2>2 DEF Inv, Fresh
  <2>3. CASE op.kind = "create" /\ s \in Members(to) BY <1>1, <1>2, <1>7, <2>3 DEF Inv, Fresh
  <2> QED BY <1>1, <2>2, <2>3 DEF Inv, Owned
<1>9. created' = created
  <2>1. created' = made' BY <1>2 DEF created
  <2>2. created = IF op.kind = "create" THEN made \ Members(to) ELSE made BY <1>1 DEF created
  <2> QED BY <1>2, <1>8, <2>1, <2>2
<1> QED BY <1>2, <1>6, <1>9 DEF Sets!vars

\* A call that is through has the child in every hierarchy of the object.
LEMMA ChildDoneActs ==
    ASSUME Constants, Inv, Inv', ChildDone
    PROVE Sets!Next
<1>1. PICK to, m, n : to = op.to /\ m = op.m /\ n = op.name OBVIOUS
<1>2. /\ Calling /\ op.rest = {} /\ op'.kind = "idle" /\ alive' = alive \union {to}
      /\ UNCHANGED <<id2cgroup, made>>
  BY <1>1 DEF ChildDone, Done, Idle, Calling, groups
<1>3. /\ m \in alive /\ m \in Object /\ to \in Object \ alive /\ n \in Name
      /\ \A h \in Hiers(m) : id2cgroup[m][h] = Root
      /\ \A h \in Hier : id2cgroup[to][h] = IF h \in Hiers(m) THEN n ELSE None
  BY <1>1, <1>2 DEF Inv, Child, TypeOK
<1> DEFINE new == Sets!Called(sets[m], n)
<1>4. sets[m] = Members(m) BY <1>3 DEF sets
<1>5. Members(to) = new
  <2>1. n # None BY <1>3 DEF Constants
  <2>2. Members(to) = {<<h, n>> : h \in Hiers(m)} BY <1>3, <2>1 DEF Members, Hiers
  <2>3. new = {<<h, n>> : h \in Hiers(m)} BY <1>4, CalledIs
  <2> QED BY <2>2, <2>3
<1>6. Sets!AllRoots(sets[m]) BY <1>3, <1>4 DEF Sets!AllRoots, Members, Hiers
<1>7. \A x : Members(x)' = Members(x) BY <1>2 DEF Members
<1>8. sets' = [x \in Object |-> Members(x)] BY <1>2, <1>7, SetsAfter
<1>9. sets' = [sets EXCEPT ![to] = new]
  <2>1. ASSUME NEW x \in Object \ {to}
        PROVE Members(x) = IF x \in alive THEN Members(x) ELSE {}
    BY <1>1 DEF Inv, Vacant, Members, Empty
  <2> QED BY <1>3, <1>5, <1>8, <2>1 DEF sets
<1> HIDE DEF new
<1>10. created' = made BY <1>2 DEF created
<1>11. ASSUME NEW s \in made
       PROVE \/ \E x \in alive : s \in Members(x)
             \/ op.kind = "create" /\ s \in Members(to)
  BY <1>1 DEF Inv, Owned
<1>12. \A s \in made : \E x \in Object : s \in sets'[x]
  BY <1>3, <1>8, <1>11 DEF Inv, TypeOK
<1>13. CASE op.kind = "attach"
  <2>1. created = made BY <1>13 DEF created
  <2>2. Sets!Becomes(to, new, {}) BY <1>9, <1>10, <1>12, <2>1 DEF Sets!Becomes
  <2>3. Sets!AttachChild(m, to, n)
    BY <1>2, <1>3, <1>6, <2>2 DEF Sets!AttachChild, Sets!Make, new
  <2> QED BY <1>3, <2>3 DEF Sets!Next
<1>14. CASE op.kind = "create"
  <2>1. created = made \ new BY <1>1, <1>5, <1>14 DEF created
  <2>2. new \subseteq made /\ \A x \in Object \ {to} : new \intersect Members(x) = {}
    BY <1>1, <1>5, <1>14 DEF Inv, Fresh
  <2>3. Sets!Becomes(to, new, new) BY <1>9, <1>10, <1>12, <2>1, <2>2 DEF Sets!Becomes
  <2>4. new \intersect Sets!Held = {}
    <3>1. ASSUME NEW x \in alive PROVE new \intersect sets[x] = {}
      BY <1>3, <2>2 DEF sets, Inv, TypeOK
    <3> QED BY <3>1 DEF Sets!Held
  <2>5. Sets!CreateChild(m, to, n)
    BY <1>2, <1>3, <1>6, <2>3, <2>4 DEF Sets!CreateChild, Sets!Make, new
  <2> QED BY <1>3, <2>5 DEF Sets!Next
<1> QED BY <1>2, <1>13, <1>14 DEF Calling

LEMMA InitActs == ASSUME Init PROVE Sets!Init
BY DEF Init, Sets!Init, sets, created, Idle

LEMMA NextActs ==
    ASSUME Constants, Inv, [Next]_vars
    PROVE Sets!Next \/ UNCHANGED Sets!vars
<1> Inv' BY NextInv
<1>1. ASSUME NEW m \in Object, Release(m) \/ \E h \in Hier : Remove(m, h) PROVE Sets!Next
  BY <1>1, ReleaseActs, RemoveActs
<1>2. ASSUME NEW m \in Object, NEW S \in SUBSET (held \union (Hier \X {Root})), Unite(m, S)
      PROVE Sets!Next
  BY <1>2, UniteActs
<1>3. ASSUME NEW m \in Object, NEW s \in held, Add(m, s) \/ Replace(m, s)
      PROVE Sets!Next \/ UNCHANGED Sets!vars
  BY <1>3, AddActs, ReplaceActs
<1>4. ASSUME NEW m \in Object, NEW to \in Object, Parent(m, to) PROVE Sets!Next
  BY <1>4, ParentActs
<1>5. ASSUME NEW h \in Hier, AttachOne(h) \/ CreateOne(h) PROVE UNCHANGED Sets!vars
  BY <1>5, PutActs
<1>6. CASE ChildFails BY <1>6, ChildFailsActs
<1>7. CASE ChildDone BY <1>7, ChildDoneActs
<1>8. ASSUME NEW kind, NEW m \in Object, NEW to \in Object \union {None}, NEW n, NEW v,
             Begin(kind, m, to, n, v)
      PROVE UNCHANGED Sets!vars
  <2>1. op.kind = "idle" /\ op'.kind = kind /\ op'.to = to /\ UNCHANGED <<alive, id2cgroup, made>>
        /\ to \notin alive
    BY <1>8 DEF Begin, Ready, objects, groups
  <2>2. \A x : Members(x)' = Members(x) BY <2>1 DEF Members
  <2>3. sets' = sets BY <2>1, <2>2 DEF sets
  <2>4. CASE kind # "create" BY <2>1, <2>4, ObjectsStill
  <2>5. CASE kind = "create" /\ to \in Object
    <3>1. Members(to) = {} BY <2>1, <2>5 DEF Inv, Vacant, Calling, Members, Empty
    <3>2. created' = created BY <2>1, <2>2, <2>5, <3>1 DEF created
    <3> QED BY <2>1, <2>3, <3>2 DEF Sets!vars
  <2>6. CASE kind = "create" /\ to = None
    <3>1. Child' BY DEF Inv
    <3>2. None \in Object BY <2>1, <2>6, <3>1 DEF Child, Calling
    <3> QED BY <2>5, <2>6, <3>2
  <2> QED BY <2>4, <2>5, <2>6
<1>9. CASE Others BY <1>9, ObjectsStill DEF Others, objects
<1>10. ASSUME NEW m \in Object, NEW f \in Field, FieldPath(m, f) PROVE UNCHANGED Sets!vars
  BY <1>10, ObjectsStill DEF FieldPath, Ready, groups
<1>11. ASSUME NEW h \in Hier, SetOne(h) \/ GetOne(h) PROVE UNCHANGED Sets!vars
  <2>1. op.kind \in {"get", "set"} /\ op'.kind = op.kind /\ UNCHANGED <<alive, id2cgroup, made>>
    BY <1>11 DEF SetOne, GetOne, At, Next1, objects, groups, Inv, TypeOK
  <2> QED BY <2>1, ObjectsStill
<1>12. CASE FieldFails \/ FieldDone
  BY <1>12, ObjectsStill DEF FieldFails, FieldDone, Done, Idle, objects, groups
<1>13. CASE UNCHANGED vars BY <1>13, ObjectsStill DEF vars, objects, groups
<1> QED
  BY <1>1, <1>2, <1>3, <1>4, <1>5, <1>6, <1>7, <1>8, <1>9, <1>10, <1>11, <1>12, <1>13
  DEF Next, BeginChild

-----------------------------------------------------------------------------
(* What an object of several hierarchies promises *)

\* Every variable keeps its type.
THEOREM TypeCorrect == ASSUME Constants PROVE Spec => []TypeOK
<1>1. Inv => TypeOK BY DEF Inv
<1> QED BY <1>1, InvHolds, PTL

\* No call leaves a remembered path to a group that the object no longer has
\* (fieldName2path_ in src/cgroup/MultipleControlGroup.cpp).
THEOREM CacheNeverStale == ASSUME Constants PROVE Spec => []CacheIsCurrent
<1>1. Inv => CacheIsCurrent BY DEF Inv
<1> QED BY <1>1, InvHolds, PTL

\* A directory the program made has an object that will remove it, also after a
\* createChild that failed in a later hierarchy.
THEOREM FailureIsUndone == ASSUME Constants PROVE Spec => []GroupsNothingLeft
<1>1. Inv => GroupsNothingLeft BY InvNothingLeft
<1> QED BY <1>1, InvHolds, PTL

\* A getter returns what every group of the object has, if nobody interfered.
THEOREM GetterIsTrue == ASSUME Constants PROVE Spec => []AnswerTrue
<1>1. Inv => AnswerTrue BY InvAnswerTrue
<1> QED BY <1>1, InvHolds, PTL

\* Whatever happens between the hierarchies, a call acts on all groups of an
\* object or on none: GroupSets is implemented.
THEOREM ObjectsActLikeSets == ASSUME Constants PROVE Spec => Sets!Spec
<1>1. Init => Sets!Init BY InitActs
<1>2. Inv /\ [Next]_vars => [Sets!Next]_(Sets!vars) BY NextActs
<1> QED BY <1>1, <1>2, InvHolds, PTL DEF Spec, Sets!Spec
=============================================================================
