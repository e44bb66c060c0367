----------------------------- MODULE GroupPaths -----------------------------
(***************************************************************************)
(* What a program sees of SingleControlGroup, without objects, reference   *)
(* counts and children_: a control group is its path.  Calls walk from     *)
(* path to path, a group that the program or a call is at stays known with *)
(* all its ancestors, and a directory goes only when a thread forgets a    *)
(* group that it has made, or through somebody else.                       *)
(***************************************************************************)
EXTENDS Naturals, Sequences, SequencesExt

CONSTANTS Thread, Name, Request, MaxDepth

VARIABLES
    dirs,     \* existing directories
    busy,     \* the directories that hold a task
    known,    \* Thread -> the groups it has objects of
    held,     \* Thread -> the groups the program has pointers to
    claims,   \* Thread -> the groups it has made, and will try to remove
    sound,    \* Thread -> those of claims that nobody else has removed since
    op,       \* Thread -> "idle", "attach" or "create"
    at,       \* Thread -> the group its call has got to
    rest,     \* Thread -> the components still to walk
    fresh     \* Thread -> the next group is made, but not yet configured

files == <<dirs, busy>>
pointers == <<known, held, claims, sound>>
calls == <<op, at, rest, fresh>>
vars == <<files, pointers, calls>>

Path == UNION {[1..n -> Name] : n \in 0..MaxDepth}

Init ==
    /\ dirs = {<<>>} /\ busy = {}
    /\ known = [t \in Thread |-> {}] /\ held = [t \in Thread |-> {}]
    /\ claims = [t \in Thread |-> {}] /\ sound = [t \in Thread |-> {}]
    /\ op = [t \in Thread |-> "idle"] /\ at = [t \in Thread |-> <<>>]
    /\ rest = [t \in Thread |-> <<>>] /\ fresh = [t \in Thread |-> FALSE]

HasSubgroup(p) == \E q \in dirs : Len(q) = Len(p) + 1 /\ IsPrefix(p, q)
Removable(p) == p \in dirs /\ p # <<>> /\ p \notin busy /\ ~HasSubgroup(p)

More(sets, t, p) == [sets EXCEPT ![t] = @ \union {p}]
Less(sets, t, p) == [sets EXCEPT ![t] = @ \ {p}]

-----------------------------------------------------------------------------
(* Between calls *)

Root(t) ==
    /\ op[t] = "idle"
    /\ known' = More(known, t, <<>>) /\ held' = More(held, t, <<>>)
    /\ UNCHANGED <<files, claims, sound, calls>>

Parent(t, p) ==
    /\ op[t] = "idle" /\ p \in held[t] /\ p # <<>>
    /\ held' = More(held, t, Front(p))
    /\ UNCHANGED <<files, known, claims, sound, calls>>

Release(t, p) ==
    /\ op[t] = "idle" /\ p \in held[t]
    /\ held' = Less(held, t, p)
    /\ UNCHANGED <<files, known, claims, sound, calls>>

Call(t, p, kind, request) ==
    /\ op[t] = "idle" /\ p \in held[t]
    /\ op' = [op EXCEPT ![t] = kind] /\ at' = [at EXCEPT ![t] = p]
    /\ rest' = [rest EXCEPT ![t] = request]
    /\ UNCHANGED <<files, pointers, fresh>>

-----------------------------------------------------------------------------
(* Inside a call *)

Walking(t, kind) == op[t] = kind /\ rest[t] # <<>>
Below(t) == Append(at[t], Head(rest[t]))

Advance(t, p) ==
    at' = [at EXCEPT ![t] = p] /\ rest' = [rest EXCEPT ![t] = Tail(@)] /\ UNCHANGED op

\* The root is its own parent.
Up(p) == IF p = <<>> THEN p ELSE Front(p)

AttachDots(t) ==
    /\ Walking(t, "attach") /\ Head(rest[t]) \in {".", ".."}
    /\ Advance(t, IF Head(rest[t]) = "." THEN at[t] ELSE Up(at[t]))
    /\ UNCHANGED <<files, pointers, fresh>>

\* A group has a directory, or has had one when the thread came to know it.
Attach(t) ==
    /\ Walking(t, "attach") /\ Head(rest[t]) \in Name
    /\ Below(t) \in dirs \union known[t]
    /\ known' = More(known, t, Below(t)) /\ Advance(t, Below(t))
    /\ UNCHANGED <<files, held, claims, sound, fresh>>

Create(t) ==
    /\ Walking(t, "create") /\ Head(rest[t]) \in Name /\ ~fresh[t]
    /\ at[t] \in dirs /\ Below(t) \notin dirs
    /\ dirs' = dirs \union {Below(t)}
    /\ known' = More(known, t, Below(t))
    /\ claims' = More(claims, t, Below(t)) /\ sound' = More(sound, t, Below(t))
    /\ \/ Advance(t, Below(t)) /\ UNCHANGED fresh
       \/ fresh' = [fresh EXCEPT ![t] = TRUE] /\ UNCHANGED <<op, at, rest>>
    /\ UNCHANGED <<busy, held>>

Configure(t) ==
    /\ Walking(t, "create") /\ fresh[t] /\ Below(t) \in dirs
    /\ Advance(t, Below(t)) /\ fresh' = [fresh EXCEPT ![t] = FALSE]
    /\ UNCHANGED <<files, pointers>>

Leave(t) == op' = [op EXCEPT ![t] = "idle"] /\ at' = [at EXCEPT ![t] = <<>>]

\* An exception, with the path walked only in part.
Fail(t) ==
    /\ op[t] # "idle" /\ rest[t] # <<>> /\ Leave(t)
    /\ rest' = [rest EXCEPT ![t] = <<>>] /\ fresh' = [fresh EXCEPT ![t] = FALSE]
    /\ UNCHANGED <<files, pointers>>

Return(t) ==
    /\ op[t] # "idle" /\ rest[t] = <<>> /\ Leave(t)
    /\ held' = More(held, t, at[t])
    /\ UNCHANGED <<files, known, claims, sound, rest, fresh>>

-----------------------------------------------------------------------------
(* Destructors *)

\* Nobody needs the group: no pointer, no call and no group below it.
Unneeded(t, p) ==
    /\ p \notin held[t] /\ (op[t] = "idle" \/ at[t] # p) /\ ~(fresh[t] /\ Below(t) = p)
    /\ \A q \in known[t] : q = <<>> \/ Front(q) # p

\* The thread does without one of its objects of a group, its last one or not.
\* The directory goes if it can, and only if the thread had made it; a sound
\* claim is not given up without trying.
Forget(t, p) ==
    /\ p \in known[t]
    /\ UNCHANGED known \/ (known' = Less(known, t, p) /\ Unneeded(t, p))
    /\ UNCHANGED claims \/ claims' = Less(claims, t, p)
    /\ \/ UNCHANGED <<dirs, sound>> /\ (p \in sound[t] => p \in claims'[t])
       \/ /\ p \in claims[t]
          /\ dirs' = IF Removable(p) THEN dirs \ {p} ELSE dirs
          /\ sound' = [u \in Thread |-> sound[u] \ {p}]
    /\ UNCHANGED <<busy, held, calls>>

-----------------------------------------------------------------------------
(* Tasks, and others' control groups *)

Occupation ==
    /\ \E p \in dirs : busy' = busy \union {p} \/ busy' = busy \ {p}
    /\ UNCHANGED <<dirs, pointers, calls>>

OthersMkdir(p) ==
    /\ p \notin dirs /\ Front(p) \in dirs /\ dirs' = dirs \union {p}
    /\ UNCHANGED <<busy, pointers, calls>>

OthersRmdir(p) ==
    /\ Removable(p) /\ dirs' = dirs \ {p}
    /\ sound' = [u \in Thread |-> sound[u] \ {p}]
    /\ UNCHANGED <<busy, known, held, claims, calls>>

Next ==
    \/ Occupation
    \/ \E p \in Path \ {<<>>} : OthersMkdir(p) \/ OthersRmdir(p)
    \/ \E t \in Thread :
          \/ Root(t) \/ AttachDots(t) \/ Attach(t) \/ Create(t) \/ Configure(t)
          \/ Fail(t) \/ Return(t)
          \/ \E p \in known[t] : Parent(t, p) \/ Release(t, p) \/ Forget(t, p)
          \/ \E p \in known[t], kind \in {"attach", "create"}, request \in Request :
                Call(t, p, kind, request)

Spec == Init /\ [][Next]_vars
=============================================================================
