----------------------------- MODULE SystemInfo -----------------------------
(***************************************************************************)
(* SystemInfo, the shared catalogue of control group hierarchies, and the  *)
(* static functions that look hierarchies up in it: those of               *)
(* MultipleControlGroup walk over the catalogue and make a group in each   *)
(* hierarchy, those of SingleControlGroup make one.                        *)
(*                                                                         *)
(* A catalogue lives as long as a counted pointer to it: instance_, a      *)
(* pointer of a running instance(), or a group made from it.  The loops    *)
(* "for (... : *SystemInfo::instance())" keep a reference without one.     *)
(***************************************************************************)
EXTENDS Naturals

CONSTANTS
    Thread, Catalogue, None,
    Id,          \* hierarchy ids; the kernel uses them again; None is not one
    Subsystem,
    Dir,         \* directories a hierarchy may be mounted on
    MaxChanges,  \* mounts and unmounts while the program runs
    Forced       \* TRUE: the program calls instance(true)

VARIABLES
    subs,        \* Id -> the subsystems of the hierarchy, {} when there is none
    mnt,         \* Dir -> the hierarchy mounted there, or None
    changes,     \* mounts and unmounts so far
    instance,    \* instance_
    cat,         \* Catalogue -> its maps
    pc,          \* Thread -> the next step of its call
    call,        \* Thread -> "update", "walk", or the subsystem of a single group
    ptr,         \* Thread -> the pointer systemInfo of instance(), or None
    ref,         \* Thread -> the catalogue its range-for refers to, or None
    rest,        \* Thread -> the hierarchies the range-for has still to visit
    groups       \* Thread -> the groups made: a catalogue and an id in it each

kernel == <<subs, mnt, changes>>
threads == <<pc, call, ptr, ref, rest, groups>>
vars == <<kernel, instance, cat, threads>>

\* id2hierarchy_ (subsystems and mountpoint), subsystem2id_, mountpoint2id_.
\* "shown" and "changed" are history: what was mounted on the directories when
\* they were read, and whether the kernel's hierarchies have changed since the
\* load began.
Maps == [sub : [Id -> SUBSET Subsystem], dir : [Id -> Dir \union {None}],
         subsystem2id : [Subsystem -> Id \union {None}],
         mountpoint2id : [Dir -> Id \union {None}],
         shown : [Dir -> SUBSET Subsystem], changed : BOOLEAN]

Empty == [sub |-> [i \in Id |-> {}], dir |-> [i \in Id |-> None],
          subsystem2id |-> [s \in Subsystem |-> None],
          mountpoint2id |-> [d \in Dir |-> None],
          shown |-> [d \in Dir |-> {}], changed |-> TRUE]

TypeOK ==
    /\ subs \in [Id -> SUBSET Subsystem] /\ mnt \in [Dir -> Id \union {None}]
    /\ changes \in 0..MaxChanges
    /\ instance \in Catalogue \union {None} /\ cat \in [Catalogue -> Maps]
    /\ pc \in [Thread -> {"idle", "hierarchies", "mounts", "store", "got", "walk", "make"}]
    /\ call \in [Thread -> {"update", "walk"} \union Subsystem]
    /\ {ptr, ref} \subseteq [Thread -> Catalogue \union {None}]
    /\ rest \in [Thread -> SUBSET Id]
    /\ groups \in [Thread -> SUBSET (Catalogue \X Id)]

Init ==
    /\ subs \in {f \in [Id -> SUBSET Subsystem] :
                    \A i, j \in Id : i # j => f[i] \intersect f[j] = {}}
    /\ mnt \in {f \in [Dir -> Id \union {None}] : \A d \in Dir : f[d] # None => subs[f[d]] # {}}
    /\ changes = 0
    /\ instance = None /\ cat = [c \in Catalogue |-> Empty]
    /\ pc = [t \in Thread |-> "idle"] /\ call = [t \in Thread |-> "update"]
    /\ ptr = [t \in Thread |-> None] /\ ref = [t \in Thread |-> None]
    /\ rest = [t \in Thread |-> {}] /\ groups = [t \in Thread |-> {}]

Shown(d) == IF mnt[d] = None THEN {} ELSE subs[mnt[d]]

Pointed(t) == {ptr[t]} \union {g[1] : g \in groups[t]}
live == Catalogue \intersect ({instance} \union UNION {Pointed(t) : t \in Thread})

ids(c) == {i \in Id : cat[c].sub[i] # {}}

-----------------------------------------------------------------------------
(* The kernel *)

Changed ==
    /\ changes < MaxChanges /\ changes' = changes + 1
    /\ cat' = [c \in Catalogue |-> [cat[c] EXCEPT !.changed = TRUE]]

\* A new hierarchy, or one more mount of an old one.
Mount(i, S, d) ==
    /\ mnt[d] = None /\ S # {}
    /\ \/ subs[i] = S
       \/ subs[i] = {} /\ \A j \in Id : subs[j] \intersect S = {}
    /\ subs' = [subs EXCEPT ![i] = S] /\ mnt' = [mnt EXCEPT ![d] = i]
    /\ Changed /\ UNCHANGED <<instance, threads>>

\* A hierarchy with control groups survives its last umount(2).
Unmount(d) ==
    /\ mnt[d] # None
    /\ mnt' = [mnt EXCEPT ![d] = None]
    /\ \/ UNCHANGED subs
       \/ /\ \A e \in Dir : mnt'[e] # mnt[d]
          /\ subs' = [subs EXCEPT ![mnt[d]] = {}]
    /\ Changed /\ UNCHANGED <<instance, threads>>

Kernel ==
    \/ \E i \in Id, S \in SUBSET Subsystem, d \in Dir : Mount(i, S, d)
    \/ \E d \in Dir : Unmount(d)

-----------------------------------------------------------------------------
(* instance() and the constructor *)

Goto(t, here, next) == pc[t] = here /\ pc' = [pc EXCEPT ![t] = next]

\* Any call begins with instance(); its atomic_load comes first.
AlwaysLoad(t) == TRUE              \* mutant of NeedsLoad: no look at instance_
NeedsLoad(t) == call'[t] = "update" \/ instance = None

Begin(t, kind) ==
    /\ kind = "update" => Forced
    /\ call' = [call EXCEPT ![t] = kind]
    /\ groups' = [groups EXCEPT ![t] = {}]
    /\ IF NeedsLoad(t)
       THEN Goto(t, "idle", "hierarchies") /\ UNCHANGED ptr
       ELSE Goto(t, "idle", "got") /\ ptr' = [ptr EXCEPT ![t] = instance]
    /\ UNCHANGED <<kernel, instance, cat, ref, rest>>

\* /proc/self/cgroup lists every hierarchy with its subsystems, once each.
ProcSelfCgroup == {e \in Id \X SUBSET Subsystem : e[2] # {} /\ e[2] = subs[e[1]]}
SubsystemsOf(i) == UNION {e[2] : e \in {f \in ProcSelfCgroup : f[1] = i}}
IdOf(s) == IF \E e \in ProcSelfCgroup : s \in e[2]
           THEN (CHOOSE e \in ProcSelfCgroup : s \in e[2])[1] ELSE None

LoadHierarchies(t) == \E c \in Catalogue \ live :
    /\ Goto(t, "hierarchies", "mounts")
    /\ ptr' = [ptr EXCEPT ![t] = c]
    /\ cat' = [cat EXCEPT ![c] =
          [Empty EXCEPT !.changed = FALSE,
              !.sub = [i \in Id |-> SubsystemsOf(i)],
              !.subsystem2id = [s \in Subsystem |-> IdOf(s)]]]
    /\ UNCHANGED <<kernel, instance, call, ref, rest, groups>>

Throw(t) ==
    /\ pc' = [pc EXCEPT ![t] = "idle"] /\ ptr' = [ptr EXCEPT ![t] = None]
    /\ ref' = [ref EXCEPT ![t] = None] /\ rest' = [rest EXCEPT ![t] = {}]
    /\ groups' = [groups EXCEPT ![t] = {}]

\* The subsystems a mount entry names, of those that are known; an entry with
\* none, or with others than the hierarchy of one of them, is an error.
Known(c, d) == {s \in Shown(d) : cat[c].subsystem2id[s] # None}
EntryId(c, d) == cat[c].subsystem2id[CHOOSE s \in Known(c, d) : TRUE]
KnownEntry(c, d) == Known(c, d) # {}   \* mutant of Consistent: no comparison
Consistent(c, d) ==
    Known(c, d) # {} /\ cat[c].sub[EntryId(c, d)] = Known(c, d)

\* /proc/mounts, later.  Of several mounts of a hierarchy the last one stays.
Entries == {d \in Dir : mnt[d] # None}
Listed(c, i) == Entries            \* mutant of MountsOf: a hierarchy gets any entry
MountsOf(c, i) == {d \in Entries : EntryId(c, d) = i}

LoadMountpoints(t) ==
    LET c == ptr[t]
    IN  /\ pc[t] = "mounts"
        /\ IF \A d \in Entries : Consistent(c, d)
           THEN /\ Goto(t, "mounts", "store")
                /\ \E dir \in [Id -> Dir \union {None}] :
                      /\ \A i \in Id : IF MountsOf(c, i) = {} THEN dir[i] = None
                                       ELSE dir[i] \in MountsOf(c, i)
                      /\ cat' = [cat EXCEPT ![c] = [@ EXCEPT !.dir = dir,
                            !.shown = [d \in Dir |-> Shown(d)],
                            !.mountpoint2id = [d \in Dir |->
                                IF d \in Entries THEN EntryId(c, d) ELSE None]]]
                /\ UNCHANGED <<ptr, ref, rest, groups>>
           ELSE Throw(t) /\ cat' = [cat EXCEPT ![c] = Empty]
        /\ UNCHANGED <<kernel, instance, call>>

Store(t) ==
    /\ Goto(t, "store", "got")
    /\ instance' = ptr[t]
    /\ UNCHANGED <<kernel, call, ptr, ref, rest, groups>>
    /\ cat' = [c \in Catalogue |-> IF c \in live' THEN cat[c] ELSE Empty]

-----------------------------------------------------------------------------
(* The callers *)

Finish(t) ==
    /\ pc' = [pc EXCEPT ![t] = "idle"] /\ ptr' = [ptr EXCEPT ![t] = None]
    /\ ref' = [ref EXCEPT ![t] = None]

\* The pointer is dropped at the end of the expression.  The range-for keeps a
\* reference; a single group keeps the id of its subsystem.
Got(t) ==
    /\ pc[t] = "got" /\ UNCHANGED <<kernel, instance, cat, call, groups>>
    /\ LET c == ptr[t]
           i == cat[c].subsystem2id[call[t]]
       IN  \/ call[t] = "update" /\ Finish(t) /\ UNCHANGED rest
           \/ /\ call[t] = "walk" /\ Goto(t, "got", "walk")
              /\ ptr' = [ptr EXCEPT ![t] = None] /\ ref' = [ref EXCEPT ![t] = c]
              /\ rest' = [rest EXCEPT ![t] = ids(c)]
           \/ /\ call[t] \in Subsystem /\ i = None
              /\ Finish(t) /\ UNCHANGED rest
           \/ /\ call[t] \in Subsystem /\ i # None /\ Goto(t, "got", "make")
              /\ ptr' = [ptr EXCEPT ![t] = None] /\ rest' = [rest EXCEPT ![t] = {i}]
              /\ UNCHANGED ref

\* forPid and forSelf read the control groups of a process, /proc/<pid>/cgroup,
\* now; then the group is made from what instance() is now.  An id that is in
\* neither, a hierarchy that is not mounted and a path without directory are
\* exceptions.
Make(t, i) ==
    /\ i \in rest[t]
    /\ \/ /\ i \in ids(instance) /\ cat[instance].dir[i] # None
          /\ groups' = [groups EXCEPT ![t] = @ \union {<<instance, i>>}]
          /\ rest' = [rest EXCEPT ![t] = @ \ {i}]
          /\ UNCHANGED <<pc, ptr, ref>>
       \/ Throw(t)
    /\ UNCHANGED <<kernel, instance, cat, call>>

Visit(t) == pc[t] = "walk" /\ \E i \in Id : Make(t, i)
MakeSingle(t) == pc[t] = "make" /\ \E i \in Id : Make(t, i)

Return(t) ==
    /\ pc[t] \in {"walk", "make"} /\ rest[t] = {}
    /\ Finish(t)
    /\ UNCHANGED <<kernel, instance, cat, call, rest, groups>>

\* The program drops what it has got.
Drop(t) ==
    /\ pc[t] = "idle" /\ groups[t] # {}
    /\ groups' = [groups EXCEPT ![t] = {}]
    /\ UNCHANGED <<kernel, instance, cat, pc, call, ptr, ref, rest>>

Next ==
    \/ Kernel
    \/ \E t \in Thread :
          \/ \E kind \in {"update", "walk"} \union Subsystem : Begin(t, kind)
          \/ LoadHierarchies(t) \/ LoadMountpoints(t) \/ Store(t)
          \/ Got(t) \/ Visit(t) \/ MakeSingle(t) \/ Return(t) \/ Drop(t)

Spec == Init /\ [][Next]_vars

-----------------------------------------------------------------------------
(* What the catalogue promises *)

\* A range-for over *SystemInfo::instance() never runs over a catalogue that
\* has been freed (MultipleControlGroup.cpp:13, 20, 27, 35).
NoFreedCatalogue == \A t \in Thread : ref[t] # None => ref[t] \in live

\* As long as the kernel's hierarchies have not changed since the catalogue was
\* begun, it says what they are: ids, subsystems, and a directory for exactly
\* those that are mounted.
CatalogueTrue == \A c \in live :
    ~cat[c].changed /\ (c = instance \/ \E t \in Thread : <<c, "store">> = <<ptr[t], pc[t]>>) =>
        /\ cat[c].sub = subs /\ cat[c].mountpoint2id = mnt
        /\ \A i \in Id : IF cat[c].dir[i] = None THEN \A d \in Dir : mnt[d] # i
                         ELSE mnt[cat[c].dir[i]] = i

\* A group asked for by subsystem lies under a directory that was mounted with
\* that subsystem, although the ids, the subsystems and the directories come
\* from two files read one after the other (SystemInfo.cpp:68-80).
AskedFor == \A t \in Thread : \A g \in groups[t] : call[t] \in Subsystem =>
    call[t] \in cat[g[1]].shown[cat[g[1]].dir[g[2]]]

\* instance() twice is the same object unless an update is forced, as the test
\* of SystemInfo has it (tests/cgroup.cpp:25-32).
Stable == instance # None =>
    instance' = instance \/ \E t \in Thread : call[t] = "update" /\ pc[t] = "store"
StableUnlessForced == [][Stable]_vars
=============================================================================
