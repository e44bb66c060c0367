-------------------------- MODULE SystemInfoProofs --------------------------
(***************************************************************************)
(* What the catalogue promises, for any hierarchies, directories and       *)
(* numbers of mounts: what it says of the kernel with any threads, and     *)
(* what its callers may rely on with one.                                  *)
(***************************************************************************)
EXTENDS SystemInfo, TLAPS

\* What SystemInfo says of its constants.
Constants ==
    /\ None \notin Catalogue \union Id \union Dir
    /\ {"update", "walk"} \intersect Subsystem = {}
    /\ MaxChanges \in Nat

\* A subsystem is in one hierarchy, and only hierarchies are mounted.
Hierarchies ==
    /\ \A i, j \in Id : i # j => subs[i] \intersect subs[j] = {}
    /\ \A d \in Dir : mnt[d] # None => subs[mnt[d]] # {}

\* A catalogue between its two files is its thread's alone.
Loading == \A t \in Thread :
    /\ pc[t] \in {"mounts", "store", "got"} => ptr[t] \in Catalogue
    /\ pc[t] = "mounts" =>
        /\ ptr[t] # instance
        /\ \A u \in Thread \ {t} : ptr[u] # ptr[t]
        /\ \A u \in Thread : \A g \in groups[u] : g[1] # ptr[t]

\* What the first file has told is true as long as nothing changes.
FirstTrue(m) == ~m.changed =>
    m.sub = subs /\ \A i \in Id : \A s \in subs[i] : m.subsystem2id[s] = i

\* So is what the second one has told.
SecondTrue(m) == ~m.changed =>
    /\ m.mountpoint2id = mnt
    /\ \A i \in Id : IF m.dir[i] = None THEN \A d \in Dir : mnt[d] # i ELSE mnt[m.dir[i]] = i

\* What both have told fits together, true or not.
Fits(m) ==
    /\ \A s \in Subsystem : m.subsystem2id[s] # None => s \in m.sub[m.subsystem2id[s]]
    /\ \A i \in Id : m.dir[i] # None => m.sub[i] \subseteq m.shown[m.dir[i]]

\* Where instance() has been, instance_ stays set.
Published == \A t \in Thread : pc[t] \in {"got", "walk", "make"} => instance \in Catalogue

Half(c) == \E t \in Thread : pc[t] = "mounts" /\ ptr[t] = c
Told == \A c \in Catalogue :
    FirstTrue(cat[c]) /\ Fits(cat[c]) /\ (Half(c) \/ SecondTrue(cat[c]))

Inv == TypeOK /\ Hierarchies /\ Loading /\ Published /\ Told

\* With one thread: a load that is not forced is the first one, and between
\* instance() and the end of a call there is no other catalogue.
OneThread == \A t, u \in Thread : t = u

Fetched == \A t \in Thread :
    /\ pc[t] \in {"hierarchies", "mounts", "store"} /\ call[t] # "update" => instance = None
    /\ pc[t] = "got" => ptr[t] = instance
    /\ ref[t] # None => pc[t] = "walk" /\ ref[t] = instance
    /\ pc[t] = "walk" => call[t] = "walk"
    /\ pc[t] = "make" => /\ call[t] \in Subsystem
                         /\ \A i \in rest[t] : instance \in Catalogue /\
                                cat[instance].subsystem2id[call[t]] = i

\* A group lies in a mounted hierarchy of the subsystem it was asked for by.
Asked == \A t \in Thread : \A g \in groups[t] :
    /\ cat[g[1]].dir[g[2]] # None
    /\ call[t] \in Subsystem => cat[g[1]].subsystem2id[call[t]] = g[2]

Alone == Fetched /\ Asked

-----------------------------------------------------------------------------
(* The two files *)

\* /proc/self/cgroup gives each hierarchy its subsystems, and each subsystem
\* its hierarchy.
LEMMA CgroupFile ==
    ASSUME Constants, TypeOK, Hierarchies
    PROVE /\ \A i \in Id : SubsystemsOf(i) = subs[i]
          /\ \A s \in Subsystem :
                /\ IdOf(s) \in Id \union {None}
                /\ IdOf(s) # None => s \in subs[IdOf(s)]
                /\ \A i \in Id : s \in subs[i] => IdOf(s) = i
<1>1. \A i \in Id : subs[i] # {} => <<i, subs[i]>> \in ProcSelfCgroup
  BY DEF ProcSelfCgroup, TypeOK
<1>2. \A e \in ProcSelfCgroup : e[1] \in Id /\ e[2] = subs[e[1]]
  BY DEF ProcSelfCgroup
<1>3. ASSUME NEW i \in Id PROVE SubsystemsOf(i) = subs[i]
  <2>1. \A s \in SubsystemsOf(i) : s \in subs[i] BY <1>2 DEF SubsystemsOf
  <2>2. ASSUME NEW s \in subs[i] PROVE s \in SubsystemsOf(i)
    <3>1. <<i, subs[i]>> \in {f \in ProcSelfCgroup : f[1] = i} BY <1>1
    <3> QED BY <3>1 DEF SubsystemsOf
  <2> QED BY <2>1, <2>2
<1>4. ASSUME NEW s \in Subsystem
      PROVE /\ IdOf(s) \in Id \union {None}
            /\ IdOf(s) # None => s \in subs[IdOf(s)]
            /\ \A i \in Id : s \in subs[i] => IdOf(s) = i
  <2>1. CASE \E e \in ProcSelfCgroup : s \in e[2]
    <3> DEFINE e == CHOOSE e \in ProcSelfCgroup : s \in e[2]
    <3>1. e \in ProcSelfCgroup /\ s \in e[2] BY <2>1
    <3>2. IdOf(s) = e[1] BY <2>1 DEF IdOf
    <3> HIDE DEF e
    <3>3. IdOf(s) \in Id /\ s \in subs[IdOf(s)] BY <1>2, <3>1, <3>2
    <3> QED BY <3>3 DEF Hierarchies
  <2>2. CASE ~\E e \in ProcSelfCgroup : s \in e[2]
    <3>1. IdOf(s) = None BY <2>2 DEF IdOf
    <3>2. \A i \in Id : s \notin subs[i] BY <1>1, <2>2
    <3> QED BY <3>1, <3>2
  <2> QED BY <2>1, <2>2
<1> QED BY <1>3, <1>4

\* An entry that /proc/mounts may have is of the hierarchy its subsystems are
\* in, and if nothing has changed, of the one that is mounted there.
LEMMA MountsFile ==
    ASSUME Constants, TypeOK, Hierarchies, Told, NEW c \in Catalogue,
           NEW d \in Dir, mnt[d] # None, Consistent(c, d)
    PROVE /\ EntryId(c, d) \in Id
          /\ cat[c].sub[EntryId(c, d)] \subseteq Shown(d)
          /\ ~cat[c].changed => EntryId(c, d) = mnt[d]
<1> DEFINE s == CHOOSE s \in Known(c, d) : TRUE
<1>1. s \in Known(c, d) BY DEF Consistent
<1>2. EntryId(c, d) = cat[c].subsystem2id[s] BY DEF EntryId
<1> HIDE DEF s
<1>3. cat[c] \in Maps /\ mnt[d] \in Id BY DEF TypeOK
<1>4. s \in subs[mnt[d]] /\ s \in Subsystem BY <1>1, <1>3 DEF Known, Shown, TypeOK
<1>5. EntryId(c, d) \in Id BY <1>1, <1>2, <1>3, <1>4 DEF Known, Maps
<1>6. cat[c].sub[EntryId(c, d)] \subseteq Shown(d) BY DEF Consistent, Known
<1>7. ~cat[c].changed => EntryId(c, d) = mnt[d]
  BY <1>2, <1>3, <1>4 DEF Told, FirstTrue
<1> QED BY <1>5, <1>6, <1>7

-----------------------------------------------------------------------------
(* The steps, with any number of threads *)

LEMMA EmptyTold ==
    ASSUME Constants
    PROVE Empty \in Maps /\ Fits(Empty) /\ Empty.changed
BY DEF Empty, Maps, Fits

LEMMA KernelKeeps == ASSUME Constants, Inv, Kernel PROVE Inv'
<1> USE DEF Inv
<1>1. /\ UNCHANGED <<instance, threads>> /\ Changed
      /\ subs' \in [Id -> SUBSET Subsystem] /\ mnt' \in [Dir -> Id \union {None}]
  BY DEF Kernel, Mount, Unmount, TypeOK
<1>2. ASSUME NEW c \in Catalogue
      PROVE /\ cat'[c] \in Maps /\ cat'[c].changed
            /\ Fits(cat[c]) => Fits(cat'[c])
  <2>1. cat[c] \in Maps /\ cat'[c] = [cat[c] EXCEPT !.changed = TRUE]
    BY <1>1 DEF Changed, TypeOK
  <2>2. cat'[c] \in Maps /\ cat'[c].changed BY <2>1 DEF Maps
  <2>3. /\ cat'[c].sub = cat[c].sub /\ cat'[c].dir = cat[c].dir
        /\ cat'[c].subsystem2id = cat[c].subsystem2id /\ cat'[c].shown = cat[c].shown
    BY <2>1 DEF Maps
  <2> QED BY <2>2, <2>3 DEF Fits
<1>3. TypeOK' BY <1>1, <1>2 DEF TypeOK, Changed, threads, Constants
<1>4. Hierarchies'
  <2>1. ASSUME NEW i \in Id, NEW S \in SUBSET Subsystem, NEW d \in Dir, Mount(i, S, d)
        PROVE Hierarchies'
    <3>1. /\ subs' = [subs EXCEPT ![i] = S] /\ mnt' = [mnt EXCEPT ![d] = i] /\ S # {}
          /\ subs[i] = S \/ \A j \in Id : subs[j] \intersect S = {}
      BY <2>1 DEF Mount
    <3>2. \A j \in Id \ {i} : subs'[j] = subs[j] /\ subs[j] \intersect S = {}
      BY <3>1 DEF Hierarchies, TypeOK
    <3>3. subs'[i] = S BY <3>1 DEF TypeOK
    <3>4. ASSUME NEW j \in Id, NEW k \in Id, j # k PROVE subs'[j] \intersect subs'[k] = {}
      BY <3>2, <3>3, <3>4 DEF Hierarchies
    <3>5. \A e \in Dir : mnt'[e] # None => subs'[mnt'[e]] # {}
      BY <3>1, <3>2, <3>3 DEF Hierarchies, TypeOK
    <3> QED BY <3>4, <3>5 DEF Hierarchies
  <2>2. ASSUME NEW d \in Dir, Unmount(d) PROVE Hierarchies'
    <3>1. /\ mnt[d] \in Id /\ mnt' = [mnt EXCEPT ![d] = None]
          /\ \/ subs' = subs
             \/ /\ \A e \in Dir : mnt'[e] # mnt[d]
                /\ subs' = [subs EXCEPT ![mnt[d]] = {}]
      BY <2>2 DEF Unmount, TypeOK
    <3>2. \A j \in Id : subs'[j] \subseteq subs[j] BY <3>1 DEF TypeOK
    <3>3. \A e \in Dir : mnt'[e] # None => mnt'[e] = mnt[e] /\ subs'[mnt'[e]] = subs[mnt[e]]
      BY <3>1 DEF TypeOK
    <3> QED BY <3>2, <3>3 DEF Hierarchies
  <2> QED BY <2>1, <2>2 DEF Kernel
<1>5. Loading' /\ Published' BY <1>1 DEF Loading, Published, threads
<1>6. Told' BY <1>2 DEF Told, FirstTrue, SecondTrue
<1> QED BY <1>3, <1>4, <1>5, <1>6

\* A step of a caller between loads: it keeps what it has or takes a pointer or
\* groups from instance_.
LEMMA CallerKeeps ==
    ASSUME Constants, Inv, NEW t \in Thread, UNCHANGED <<kernel, instance, cat>>, TypeOK',
           pc[t] # "mounts", pc'[t] # "mounts", pc'[t] # "store",
           pc'[t] = "got" => ptr'[t] = instance,
           pc'[t] \in {"got", "walk", "make"} => instance \in Catalogue,
           ptr'[t] \in {ptr[t], instance, None},
           \A g \in groups'[t] : g \in groups[t] \/ g[1] = instance,
           \A u \in Thread \ {t} : pc'[u] = pc[u] /\ ptr'[u] = ptr[u] /\ groups'[u] = groups[u]
    PROVE Inv'
<1> USE DEF Inv
<1>1. Hierarchies' BY DEF Hierarchies, kernel
<1>2. Loading'
  <2>1. ASSUME NEW u \in Thread, pc'[u] \in {"mounts", "store", "got"}
        PROVE ptr'[u] \in Catalogue
    BY <2>1 DEF Loading, TypeOK
  <2>2. ASSUME NEW u \in Thread, pc'[u] = "mounts"
        PROVE /\ ptr'[u] # instance
              /\ \A v \in Thread \ {u} : ptr'[v] # ptr'[u]
              /\ \A v \in Thread : \A g \in groups'[v] : g[1] # ptr'[u]
    <3>1. u # t /\ pc[u] = "mounts" /\ ptr'[u] = ptr[u] BY <2>2
    <3>2. ptr[u] \in Catalogue /\ ptr[u] # None BY <3>1 DEF Loading, Constants
    <3>3. /\ ptr[u] # instance
          /\ \A v \in Thread \ {u} : ptr[v] # ptr[u]
          /\ \A v \in Thread : \A g \in groups[v] : g[1] # ptr[u]
      BY <3>1 DEF Loading
    <3>4. \A v \in Thread \ {u} : ptr'[v] # ptr'[u] BY <3>1, <3>2, <3>3
    <3>5. \A v \in Thread : \A g \in groups'[v] : g[1] # ptr'[u] BY <3>1, <3>3
    <3> QED BY <3>1, <3>3, <3>4, <3>5
  <2> QED BY <2>1, <2>2 DEF Loading
<1>3. Told'
  <2>1. \A c \in Catalogue : Half(c)' <=> Half(c)
    BY DEF Half
  <2> QED BY <2>1 DEF Told, FirstTrue, SecondTrue, Fits, kernel
<1>4. Published' BY DEF Published
<1> QED BY <1>1, <1>2, <1>3, <1>4

LEMMA BeginKeeps ==
    ASSUME Constants, Inv, NEW t \in Thread, NEW kind \in {"update", "walk"} \union Subsystem,
           Begin(t, kind)
    PROVE Inv'
<1>1. /\ call' = [call EXCEPT ![t] = kind] /\ groups' = [groups EXCEPT ![t] = {}]
      /\ UNCHANGED <<subs, mnt, changes, instance, cat, ref, rest>>
      /\ \/ pc' = [pc EXCEPT ![t] = "hierarchies"] /\ ptr' = ptr
         \/ /\ pc' = [pc EXCEPT ![t] = "got"] /\ ptr' = [ptr EXCEPT ![t] = instance]
            /\ instance # None
      /\ pc[t] = "idle"
  BY DEF Begin, kernel, Goto, NeedsLoad
<1>2. TypeOK' BY <1>1 DEF Inv, TypeOK
<1>3. /\ \A u \in Thread \ {t} : pc'[u] = pc[u] /\ ptr'[u] = ptr[u] /\ groups'[u] = groups[u]
      /\ groups'[t] = {} /\ pc'[t] \in {"hierarchies", "got"} /\ ptr'[t] \in {ptr[t], instance}
      /\ pc'[t] = "got" => ptr'[t] = instance /\ instance \in Catalogue
  BY <1>1 DEF Inv, TypeOK
<1> QED BY <1>1, <1>2, <1>3, CallerKeeps DEF kernel

LEMMA HierarchiesKeep ==
    ASSUME Constants, Inv, NEW t \in Thread, LoadHierarchies(t)
    PROVE Inv'
<1> USE DEF Inv
<1> DEFINE m == [Empty EXCEPT !.changed = FALSE,
                    !.sub = [i \in Id |-> SubsystemsOf(i)],
                    !.subsystem2id = [s \in Subsystem |-> IdOf(s)]]
<1>1. PICK c \in Catalogue \ live :
        /\ Goto(t, "hierarchies", "mounts") /\ ptr' = [ptr EXCEPT ![t] = c]
        /\ cat' = [cat EXCEPT ![c] = m]
        /\ UNCHANGED <<kernel, instance, call, ref, rest, groups>>
  BY DEF LoadHierarchies
<1>2. /\ m.sub = [i \in Id |-> SubsystemsOf(i)] /\ m.dir = [i \in Id |-> None]
      /\ m.subsystem2id = [s \in Subsystem |-> IdOf(s)]
      /\ \A s \in Subsystem : IdOf(s) \in Id \union {None}
  BY CgroupFile DEF Empty
<1>3. m \in Maps
  <2>1. \A i \in Id : SubsystemsOf(i) \in SUBSET Subsystem BY CgroupFile DEF TypeOK
  <2> QED BY <1>2, <2>1, EmptyTold DEF Empty, Maps
<1> HIDE DEF m
<1>4. /\ UNCHANGED <<subs, mnt, changes, instance, call, ref, rest, groups>>
      /\ cat'[c] = m /\ \A x \in Catalogue \ {c} : cat'[x] = cat[x]
      /\ cat' \in [Catalogue -> Maps]
  BY <1>1, <1>3 DEF TypeOK, kernel
<1>5. /\ pc[t] = "hierarchies" /\ pc'[t] = "mounts" /\ ptr'[t] = c
      /\ \A u \in Thread \ {t} : pc'[u] = pc[u] /\ ptr'[u] = ptr[u]
      /\ pc' \in [Thread -> {"idle", "hierarchies", "mounts", "store", "got", "walk", "make"}]
      /\ ptr' \in [Thread -> Catalogue \union {None}]
  BY <1>1 DEF Goto, TypeOK
<1>6. TypeOK' BY <1>4, <1>5 DEF TypeOK
<1>7. Hierarchies' BY <1>4 DEF Hierarchies
<1>8. Loading'
  <2>1. /\ instance # c
        /\ \A u \in Thread : ptr[u] # c
        /\ \A u \in Thread : \A g \in groups[u] : g[1] # c
    BY DEF live, Pointed
  <2> QED BY <1>4, <1>5, <2>1 DEF Loading
<1>9. Told'
  <2>1. Half(c)' BY <1>5 DEF Half
  <2>2. ASSUME NEW x \in Catalogue, x # c
        PROVE FirstTrue(cat[x])' /\ Fits(cat[x])' /\ (Half(x) \/ SecondTrue(cat[x]))'
    <3>1. Half(x) => Half(x)' BY <1>5, <2>2 DEF Half
    <3> QED BY <1>4, <2>2, <3>1 DEF Told, FirstTrue, SecondTrue, Fits
  <2>3. m.sub = subs /\ \A s \in Subsystem : m.subsystem2id[s] = IdOf(s)
    BY <1>2, CgroupFile DEF TypeOK
  <2>4. FirstTrue(cat[c])'
    <3>1. \A i \in Id : subs[i] \subseteq Subsystem BY DEF TypeOK
    <3> QED BY <1>4, <2>3, <3>1, CgroupFile DEF FirstTrue
  <2>5. Fits(cat[c])' BY <1>2, <1>4, <2>3, CgroupFile DEF Fits
  <2> QED BY <2>1, <2>2, <2>4, <2>5 DEF Told
<1>10. Published' BY <1>4, <1>5 DEF Published
<1> QED BY <1>6, <1>7, <1>8, <1>9, <1>10

LEMMA StoreKeeps ==
    ASSUME Constants, Inv, NEW t \in Thread, Store(t)
    PROVE Inv'
<1> USE DEF Inv
<1>1. /\ pc[t] = "store" /\ pc' = [pc EXCEPT ![t] = "got"] /\ instance' = ptr[t]
      /\ UNCHANGED <<subs, mnt, changes, call, ptr, ref, rest, groups>>
      /\ ptr[t] \in Catalogue
  BY DEF Store, Goto, kernel, Loading
<1>2. \A c \in Catalogue : cat'[c] = cat[c] \/ cat'[c] = Empty BY DEF Store
<1>3. TypeOK'
  <2>1. cat' \in [Catalogue -> Maps] BY <1>2, EmptyTold DEF Store, TypeOK
  <2> QED BY <1>1, <2>1 DEF TypeOK
<1>4. Hierarchies' BY <1>1 DEF Hierarchies
<1>5. \A u \in Thread : pc'[u] = "mounts" <=> pc[u] = "mounts" BY <1>1 DEF TypeOK
<1>6. Loading'
  <2>1. \A u \in Thread : pc'[u] \in {"store", "got"} => pc[u] \in {"store", "got"}
    BY <1>1 DEF TypeOK
  <2>2. \A u \in Thread : pc[u] = "mounts" => u # t /\ ptr[u] # ptr[t]
    BY <1>1 DEF Loading
  <2> QED BY <1>1, <1>5, <2>1, <2>2 DEF Loading
<1>7. Told'
  <2>1. \A c \in Catalogue : Half(c)' <=> Half(c) BY <1>1, <1>5 DEF Half
  <2>2. UNCHANGED <<subs, mnt>> BY <1>1
  <2> QED BY <1>2, <2>1, <2>2, EmptyTold DEF Told, FirstTrue, SecondTrue, Fits
<1>8. Published' BY <1>1 DEF Published
<1> QED BY <1>3, <1>4, <1>6, <1>7, <1>8

LEMMA ThrowTyped ==
    ASSUME TypeOK, NEW t \in Thread, Throw(t), UNCHANGED <<kernel, instance, call>>,
           cat' \in [Catalogue -> Maps]
    PROVE TypeOK'
BY DEF TypeOK, Throw, kernel

LEMMA MountpointsKeep ==
    ASSUME Constants, Inv, NEW t \in Thread, LoadMountpoints(t)
    PROVE Inv'
<1> USE DEF Inv
<1>1. PICK c \in Catalogue :
      /\ pc[t] = "mounts" /\ ptr[t] = c /\ c # instance /\ c # None
      /\ \A u \in Thread \ {t} : ptr[u] # c
      /\ \A u \in Thread : \A g \in groups[u] : g[1] # c
      /\ UNCHANGED <<subs, mnt, changes, instance, call>>
  BY DEF LoadMountpoints, Loading, kernel, Constants
<1>2. Hierarchies' BY <1>1 DEF Hierarchies
<1> DEFINE After(dir) == [cat[c] EXCEPT !.dir = dir, !.shown = [d \in Dir |-> Shown(d)],
                 !.mountpoint2id = [d \in Dir |->
                     IF d \in Entries THEN EntryId(c, d) ELSE None]]
           Success(dir) ==
             /\ \A i \in Id : IF MountsOf(c, i) = {} THEN dir[i] = None
                              ELSE dir[i] \in MountsOf(c, i)
             /\ cat' = [cat EXCEPT ![c] = After(dir)]
             /\ pc' = [pc EXCEPT ![t] = "store"] /\ UNCHANGED <<ptr, ref, rest, groups>>
<1>3. \/ /\ \A d \in Entries : Consistent(c, d)
         /\ \E dir \in [Id -> Dir \union {None}] : Success(dir)
      \/ Throw(t) /\ cat' = [cat EXCEPT ![c] = Empty]
  BY <1>1 DEF LoadMountpoints, Goto, TypeOK
<1> HIDE DEF After
<1>4. /\ \A x \in Catalogue \ {c} : cat'[x] = cat[x]
      /\ DOMAIN cat' = Catalogue /\ cat' = [x \in Catalogue |-> cat'[x]]
  BY <1>3 DEF TypeOK
<1>5. \A u \in Thread \ {t} : pc'[u] = pc[u] /\ ptr'[u] = ptr[u] /\ groups'[u] = groups[u]
  BY <1>3 DEF Throw, TypeOK
<1>6. pc'[t] \in {"idle", "store"} /\ ptr'[t] \in {c, None} /\ (pc'[t] = "store" => ptr'[t] = c)
      /\ groups'[t] \subseteq groups[t]
  BY <1>1, <1>3 DEF Throw, TypeOK
<1>7. Loading' /\ Published'
  <2>1. ASSUME NEW u \in Thread, pc'[u] = "mounts"
        PROVE /\ ptr'[u] # instance
              /\ \A v \in Thread \ {u} : ptr'[v] # ptr'[u]
              /\ \A v \in Thread : \A g \in groups'[v] : g[1] # ptr'[u]
    <3>1. u # t /\ pc[u] = "mounts" /\ ptr'[u] = ptr[u] BY <1>5, <1>6, <2>1
    <3>2. /\ ptr[u] # instance /\ ptr[u] # None /\ ptr[u] # c
          /\ \A v \in Thread \ {u} : ptr[v] # ptr[u]
          /\ \A v \in Thread : \A g \in groups[v] : g[1] # ptr[u]
      BY <1>1, <3>1 DEF Loading, Constants
    <3> QED BY <1>5, <1>6, <3>1, <3>2
  <2>2. \A u \in Thread : pc'[u] \in {"mounts", "store", "got"} => ptr'[u] \in Catalogue
    BY <1>5, <1>6 DEF Loading
  <2>3. Published' BY <1>1, <1>5, <1>6 DEF Published
  <2> QED BY <1>1, <2>1, <2>2, <2>3 DEF Loading
<1>8. ASSUME FirstTrue(cat[c])', Fits(cat[c])', SecondTrue(cat[c])' PROVE Told'
  <2>1. ASSUME NEW x \in Catalogue, x # c
        PROVE FirstTrue(cat[x])' /\ Fits(cat[x])' /\ (Half(x) \/ SecondTrue(cat[x]))'
    <3>1. \A u \in Thread : pc[u] = "mounts" /\ ptr[u] = x => u # t BY <1>1, <2>1
    <3>2. Half(x) => Half(x)' BY <1>5, <3>1 DEF Half
    <3> QED BY <1>1, <1>4, <2>1, <3>2 DEF Told, FirstTrue, SecondTrue, Fits
  <2> QED BY <1>8, <2>1 DEF Told
<1>9. CASE /\ \A d \in Entries : Consistent(c, d)
           /\ \E dir \in [Id -> Dir \union {None}] : Success(dir)
  <2>1. PICK dir \in [Id -> Dir \union {None}] : Success(dir) BY <1>9
  <2>2. cat[c] \in Maps BY <1>1 DEF TypeOK
  <2>3. /\ cat'[c].sub = cat[c].sub /\ cat'[c].subsystem2id = cat[c].subsystem2id
        /\ cat'[c].changed = cat[c].changed /\ cat'[c].dir = dir
        /\ \A d \in Dir : cat'[c].shown[d] = Shown(d)
        /\ cat'[c].mountpoint2id = [d \in Dir |-> IF d \in Entries THEN EntryId(c, d) ELSE None]
    <3>1. cat'[c] = After(dir) BY <1>1, <2>1 DEF TypeOK
    <3> QED BY <2>2, <3>1 DEF After, Maps
  <2>4. ASSUME NEW d \in Entries
        PROVE /\ d \in Dir /\ EntryId(c, d) \in Id
              /\ cat[c].sub[EntryId(c, d)] \subseteq Shown(d)
              /\ ~cat[c].changed => EntryId(c, d) = mnt[d]
    BY <1>1, <1>9, MountsFile DEF Entries
  <2>5. TypeOK'
    <3>1. cat'[c] \in Maps
      <4>1. cat'[c] = After(dir) BY <1>1, <2>1 DEF TypeOK
      <4>2. [d \in Dir |-> Shown(d)] \in [Dir -> SUBSET Subsystem] BY DEF Shown, TypeOK
      <4>3. [d \in Dir |-> IF d \in Entries THEN EntryId(c, d) ELSE None] \in [Dir -> Id \union {None}]
        BY <2>4
      <4> QED BY <2>2, <4>1, <4>2, <4>3 DEF After, Maps
    <3>2. cat' \in [Catalogue -> Maps]
      BY <1>4, <3>1 DEF TypeOK
    <3> QED BY <1>1, <2>1, <3>2 DEF TypeOK
  <2>6. FirstTrue(cat[c])' BY <1>1, <2>3 DEF Told, FirstTrue
  <2>7. Fits(cat[c])'
    <3>1. ASSUME NEW i \in Id, dir[i] # None PROVE cat[c].sub[i] \subseteq Shown(dir[i])
      <4>1. dir[i] \in MountsOf(c, i) BY <2>1, <3>1
      <4> QED BY <2>4, <4>1 DEF MountsOf
    <3>2. Fits(cat[c]) BY DEF Told
    <3> QED BY <2>2, <2>3, <3>1, <3>2 DEF Fits, Maps
  <2>8. SecondTrue(cat[c])'
    <3> SUFFICES ASSUME ~cat[c].changed
                 PROVE /\ cat'[c].mountpoint2id = mnt
                       /\ \A i \in Id : IF dir[i] = None THEN \A d \in Dir : mnt[d] # i
                                        ELSE mnt[dir[i]] = i
      BY <1>1, <2>3 DEF SecondTrue
    <3>1. \A d \in Entries : EntryId(c, d) = mnt[d] BY <2>4
    <3>2. cat'[c].mountpoint2id = mnt BY <2>3, <3>1 DEF Entries, TypeOK
    <3>3. ASSUME NEW i \in Id
          PROVE IF dir[i] = None THEN \A d \in Dir : mnt[d] # i ELSE mnt[dir[i]] = i
      <4>1. CASE MountsOf(c, i) = {}
        <5>1. \A d \in Dir : mnt[d] # i BY <3>1, <4>1 DEF MountsOf, Entries, Constants
        <5> QED BY <2>1, <4>1, <5>1
      <4>2. CASE MountsOf(c, i) # {}
        <5>1. dir[i] \in MountsOf(c, i) BY <2>1, <4>2
        <5>2. dir[i] \in Dir /\ mnt[dir[i]] = i BY <3>1, <5>1 DEF MountsOf, Entries
        <5> QED BY <5>2 DEF Constants
      <4> QED BY <4>1, <4>2
    <3> QED BY <3>2, <3>3
  <2> QED BY <1>2, <1>7, <1>8, <2>5, <2>6, <2>7, <2>8
<1>10. CASE Throw(t) /\ cat' = [cat EXCEPT ![c] = Empty]
  <2>2. cat'[c] = Empty /\ cat' \in [Catalogue -> Maps]
    BY <1>1, <1>10, EmptyTold DEF TypeOK
  <2>3. TypeOK' BY <1>1, <1>10, <2>2, ThrowTyped DEF kernel
  <2>4. FirstTrue(cat[c])' /\ Fits(cat[c])' /\ SecondTrue(cat[c])'
    BY <1>1, <2>2, EmptyTold DEF FirstTrue, SecondTrue, Fits
  <2> QED BY <1>2, <1>7, <1>8, <2>3, <2>4
<1> QED BY <1>3, <1>9, <1>10

LEMMA GotKeeps ==
    ASSUME Constants, Inv, NEW t \in Thread, Got(t)
    PROVE Inv'
<1>1. /\ UNCHANGED <<subs, mnt, changes, instance, cat, call, groups>> /\ pc[t] = "got"
      /\ \E p \in {"idle", "walk", "make"} : pc' = [pc EXCEPT ![t] = p]
      /\ ptr' = [ptr EXCEPT ![t] = None]
  BY DEF Got, kernel, Finish, Goto
<1>2. ptr[t] \in Catalogue /\ cat[ptr[t]] \in Maps BY <1>1 DEF Inv, Loading, TypeOK
<1>3. ref' \in [Thread -> Catalogue \union {None}]
  BY <1>2 DEF Inv, TypeOK, Got, Finish
<1>4. rest' \in [Thread -> SUBSET Id]
  <2>1. ids(ptr[t]) \in SUBSET Id BY DEF ids
  <2>2. call[t] \in Subsystem => cat[ptr[t]].subsystem2id[call[t]] \in Id \union {None}
    BY <1>2 DEF Maps
  <2> QED BY <2>1, <2>2 DEF Inv, TypeOK, Got
<1>5. TypeOK' BY <1>1, <1>3, <1>4 DEF Inv, TypeOK
<1>6. \A u \in Thread \ {t} : pc'[u] = pc[u] /\ ptr'[u] = ptr[u] /\ groups'[u] = groups[u]
  BY <1>1 DEF Inv, TypeOK
<1>7. pc'[t] \in {"idle", "walk", "make"} /\ ptr'[t] = None BY <1>1 DEF Inv, TypeOK
<1>8. instance \in Catalogue BY <1>1 DEF Inv, Published
<1> QED BY <1>1, <1>5, <1>6, <1>7, <1>8, CallerKeeps DEF kernel

LEMMA MakeKeeps ==
    ASSUME Constants, Inv, NEW t \in Thread, NEW i \in Id, pc[t] \in {"walk", "make"}, Make(t, i)
    PROVE Inv'
<1>1. UNCHANGED <<subs, mnt, changes, instance, cat, call>> BY DEF Make, kernel
<1>2. CASE Throw(t)
  <2>1. TypeOK' BY <1>1, <1>2, ThrowTyped DEF Inv, TypeOK, kernel
  <2>2. /\ pc'[t] = "idle" /\ ptr'[t] = None /\ groups'[t] = {}
        /\ \A u \in Thread \ {t} : pc'[u] = pc[u] /\ ptr'[u] = ptr[u] /\ groups'[u] = groups[u]
    BY <1>2 DEF Throw, Inv, TypeOK
  <2> QED BY <1>1, <2>1, <2>2, CallerKeeps DEF kernel
<1>3. CASE /\ i \in ids(instance) /\ cat[instance].dir[i] # None
           /\ groups' = [groups EXCEPT ![t] = @ \union {<<instance, i>>}]
           /\ rest' = [rest EXCEPT ![t] = @ \ {i}]
           /\ UNCHANGED <<pc, ptr, ref>>
  <2>1. groups'[t] = groups[t] \union {<<instance, i>>} /\ pc'[t] = pc[t]
        /\ \A u \in Thread \ {t} : pc'[u] = pc[u] /\ ptr'[u] = ptr[u] /\ groups'[u] = groups[u]
    BY <1>3 DEF Inv, TypeOK
  <2>2. instance \in Catalogue BY DEF Inv, Published
  <2>3. TypeOK' BY <1>1, <1>3, <2>2 DEF Inv, TypeOK
  <2> QED BY <1>1, <1>3, <2>1, <2>2, <2>3, CallerKeeps DEF kernel
<1> QED BY <1>2, <1>3 DEF Make

LEMMA LeaveKeeps ==
    ASSUME Constants, Inv, NEW t \in Thread, Return(t) \/ Drop(t)
    PROVE Inv'
<1>1. /\ UNCHANGED <<subs, mnt, changes, instance, cat, call, rest>>
      /\ pc' = [pc EXCEPT ![t] = "idle"] /\ pc[t] # "mounts"
      /\ ptr' \in {ptr, [ptr EXCEPT ![t] = None]} /\ ref' \in {ref, [ref EXCEPT ![t] = None]}
      /\ groups' \in {groups, [groups EXCEPT ![t] = {}]}
  BY DEF Return, Drop, Finish, kernel, Inv, TypeOK
<1>2. TypeOK' BY <1>1 DEF Inv, TypeOK
<1>3. /\ pc'[t] = "idle" /\ ptr'[t] \in {ptr[t], None} /\ groups'[t] \subseteq groups[t]
      /\ \A u \in Thread \ {t} : pc'[u] = pc[u] /\ ptr'[u] = ptr[u] /\ groups'[u] = groups[u]
  BY <1>1 DEF Inv, TypeOK
<1> QED BY <1>1, <1>2, <1>3, CallerKeeps DEF kernel

LEMMA InitInv == ASSUME Constants, Init PROVE Inv
<1>1. TypeOK BY EmptyTold DEF Init, TypeOK, Constants
<1>2. Hierarchies /\ Loading /\ Published BY DEF Init, Hierarchies, Loading, Published
<1>3. Told BY EmptyTold DEF Init, Told, FirstTrue, SecondTrue
<1> QED BY <1>1, <1>2, <1>3 DEF Inv

LEMMA StutterKeeps == ASSUME Inv, UNCHANGED vars PROVE Inv'
<1>1. UNCHANGED <<subs, mnt, changes, instance, cat, pc, call, ptr, ref, rest, groups>>
  BY DEF vars, kernel, threads
<1>2. TypeOK' /\ Hierarchies' /\ Loading' /\ Published'
  BY <1>1 DEF Inv, TypeOK, Hierarchies, Loading, Published
<1>3. Told' BY <1>1 DEF Inv, Told, FirstTrue, SecondTrue, Fits, Half
<1> QED BY <1>2, <1>3 DEF Inv

LEMMA NextInv == ASSUME Constants, Inv, [Next]_vars PROVE Inv'
BY KernelKeeps, BeginKeeps, HierarchiesKeep, MountpointsKeep, StoreKeeps, GotKeeps, MakeKeeps,
   LeaveKeeps, StutterKeeps DEF Next, Visit, MakeSingle

-----------------------------------------------------------------------------
(* The steps, with one thread *)

LEMMA KernelAlone == ASSUME Constants, Inv, Alone, Kernel PROVE Alone'
<1>1. UNCHANGED <<instance, threads>> /\ Changed BY DEF Kernel, Mount, Unmount
<1>2. \A c \in Catalogue : cat'[c].dir = cat[c].dir /\ cat'[c].subsystem2id = cat[c].subsystem2id
  BY <1>1 DEF Changed, Inv, TypeOK, Maps
<1>3. \A t \in Thread : \A g \in groups[t] : g[1] \in Catalogue BY DEF Inv, TypeOK
<1>4. Fetched' BY <1>1, <1>2 DEF Alone, Fetched, threads
<1>5. Asked' BY <1>1, <1>2, <1>3 DEF Alone, Asked, threads
<1> QED BY <1>4, <1>5 DEF Alone

\* The catalogues that change are not those of the groups.
LEMMA AskedStays ==
    ASSUME Asked, UNCHANGED call, NEW t \in Thread, OneThread,
           \A g \in groups'[t] : g \in groups[t] /\ cat'[g[1]] = cat[g[1]]
    PROVE Asked'
BY DEF Asked, OneThread

LEMMA LoadAlone ==
    ASSUME Constants, OneThread, Inv, Alone, NEW t \in Thread,
           LoadHierarchies(t) \/ LoadMountpoints(t)
    PROVE Alone'
<1>1. /\ UNCHANGED <<instance, call>> /\ pc[t] \in {"hierarchies", "mounts"}
      /\ groups'[t] \subseteq groups[t] /\ (ref' = ref \/ ref'[t] = None)
      /\ pc'[t] \in {"idle", "mounts", "store"}
  BY DEF LoadHierarchies, LoadMountpoints, Goto, Throw, Inv, TypeOK
<1>2. Fetched' BY <1>1 DEF Alone, Fetched, OneThread
<1>3. \A g \in groups[t] : cat'[g[1]] = cat[g[1]]
  <2>1. CASE LoadHierarchies(t)
    <3>1. \A g \in groups[t] : g[1] \in Catalogue BY DEF Inv, TypeOK
    <3>2. \A g \in groups[t] : g[1] \in live BY <3>1 DEF live, Pointed
    <3>3. PICK c \in Catalogue \ live : \A x \in Catalogue \ {c} : cat'[x] = cat[x]
      BY <2>1 DEF LoadHierarchies, Inv, TypeOK
    <3> QED BY <3>1, <3>2, <3>3
  <2>2. CASE LoadMountpoints(t)
    <3>1. pc[t] = "mounts" BY <2>2 DEF LoadMountpoints
    <3>2. \A g \in groups[t] : g[1] # ptr[t] /\ g[1] \in Catalogue
      BY <3>1 DEF Inv, Loading, TypeOK
    <3>3. \A x \in Catalogue \ {ptr[t]} : cat'[x] = cat[x]
      BY <2>2 DEF LoadMountpoints, Inv, TypeOK
    <3> QED BY <3>2, <3>3
  <2> QED BY <2>1, <2>2
<1>4. Asked' BY <1>1, <1>3, AskedStays DEF Alone
<1> QED BY <1>2, <1>4 DEF Alone

LEMMA StoreAlone ==
    ASSUME Constants, OneThread, Inv, Alone, NEW t \in Thread, Store(t)
    PROVE Alone'
<1>1. /\ pc[t] = "store" /\ pc'[t] = "got" /\ instance' = ptr[t] /\ ptr[t] \in Catalogue
      /\ UNCHANGED <<call, ptr, ref, rest, groups>>
  BY DEF Store, Goto, Inv, TypeOK, Loading
<1>2. Fetched' BY <1>1 DEF Alone, Fetched, OneThread
<1>3. \A g \in groups[t] : cat'[g[1]] = cat[g[1]]
  <2>1. \A g \in groups[t] : g[1] \in Catalogue /\ g[1] \in live'
    BY <1>1 DEF live, Pointed, Inv, TypeOK
  <2> QED BY <2>1 DEF Store
<1>4. Asked' BY <1>1, <1>3, AskedStays DEF Alone
<1> QED BY <1>2, <1>4 DEF Alone

LEMMA GotAlone ==
    ASSUME Constants, OneThread, Inv, Alone, NEW t \in Thread, Got(t)
    PROVE Alone'
<1>1. /\ UNCHANGED <<instance, cat, call, groups>> /\ pc[t] = "got" /\ ptr[t] = instance
      /\ instance \in Catalogue /\ ref[t] = None
  BY DEF Got, Alone, Fetched, Inv, Published
<1>2. CASE Finish(t)
  <2>1. pc'[t] = "idle" /\ ref'[t] = None BY <1>2 DEF Finish, Inv, TypeOK
  <2>2. Fetched' BY <2>1 DEF Fetched, OneThread
  <2> QED BY <1>1, <2>2 DEF Alone, Asked
<1>3. CASE /\ call[t] = "walk" /\ Goto(t, "got", "walk")
           /\ ref' = [ref EXCEPT ![t] = ptr[t]]
  <2>1. pc'[t] = "walk" /\ ref'[t] = instance BY <1>1, <1>3 DEF Goto, Inv, TypeOK
  <2>2. Fetched' BY <1>1, <1>3, <2>1 DEF Fetched, OneThread
  <2> QED BY <1>1, <2>2 DEF Alone, Asked
<1>4. CASE /\ call[t] \in Subsystem /\ Goto(t, "got", "make") /\ UNCHANGED ref
           /\ rest' = [rest EXCEPT ![t] = {cat[ptr[t]].subsystem2id[call[t]]}]
  <2>1. /\ pc'[t] = "make" /\ ref'[t] = None
        /\ \A i \in rest'[t] : cat[instance].subsystem2id[call[t]] = i
    BY <1>1, <1>4 DEF Goto, Inv, TypeOK
  <2>2. Fetched' BY <1>1, <1>4, <2>1 DEF Fetched, OneThread
  <2> QED BY <1>1, <2>2 DEF Alone, Asked
<1> QED BY <1>2, <1>3, <1>4 DEF Got

LEMMA MakeAlone ==
    ASSUME Constants, OneThread, Inv, Alone, NEW t \in Thread, NEW i \in Id,
           pc[t] \in {"walk", "make"}, Make(t, i)
    PROVE Alone'
<1>1. UNCHANGED <<instance, cat, call>> /\ instance \in Catalogue
  BY DEF Make, Inv, Published
<1>2. CASE Throw(t)
  <2>1. pc'[t] = "idle" /\ ref'[t] = None /\ groups'[t] = {} BY <1>2 DEF Throw, Inv, TypeOK
  <2>2. Fetched' /\ Asked' BY <2>1 DEF Fetched, Asked, OneThread
  <2> QED BY <2>2 DEF Alone
<1>3. CASE /\ i \in rest[t] /\ cat[instance].dir[i] # None
           /\ groups' = [groups EXCEPT ![t] = @ \union {<<instance, i>>}]
           /\ rest' = [rest EXCEPT ![t] = @ \ {i}]
           /\ UNCHANGED <<pc, ptr, ref>>
  <2>1. groups'[t] = groups[t] \union {<<instance, i>>} /\ rest'[t] \subseteq rest[t]
    BY <1>3 DEF Inv, TypeOK
  <2>2. Fetched' BY <1>1, <1>3, <2>1 DEF Alone, Fetched, OneThread
  <2>3. call[t] \in Subsystem => cat[instance].subsystem2id[call[t]] = i
    BY <1>3 DEF Alone, Fetched, Constants
  <2>4. Asked' BY <1>1, <1>3, <2>1, <2>3 DEF Alone, Asked, OneThread
  <2> QED BY <2>2, <2>4 DEF Alone
<1> QED BY <1>2, <1>3 DEF Make

LEMMA BeginLeaveAlone ==
    ASSUME Constants, OneThread, Inv, Alone, NEW t \in Thread,
           \/ \E kind \in {"update", "walk"} \union Subsystem : Begin(t, kind)
           \/ Return(t) \/ Drop(t)
    PROVE Alone'
<1>1. CASE \E kind \in {"update", "walk"} \union Subsystem : Begin(t, kind)
  <2>1. /\ UNCHANGED <<instance, cat, ref>> /\ pc[t] = "idle" /\ groups'[t] = {}
        /\ \/ pc'[t] = "hierarchies" /\ (call'[t] # "update" => instance = None)
           \/ pc'[t] = "got" /\ ptr'[t] = instance
    BY <1>1 DEF Begin, Goto, NeedsLoad, Inv, TypeOK
  <2>2. Fetched' /\ Asked' BY <2>1 DEF Alone, Fetched, Asked, OneThread
  <2> QED BY <2>2 DEF Alone
<1>2. CASE Return(t)
  <2>1. UNCHANGED <<instance, cat, call, groups>> /\ pc'[t] = "idle" /\ ref'[t] = None
    BY <1>2 DEF Return, Finish, Inv, TypeOK
  <2>2. Fetched' /\ Asked' BY <2>1 DEF Alone, Fetched, Asked, OneThread
  <2> QED BY <2>2 DEF Alone
<1>3. CASE Drop(t)
  <2>1. UNCHANGED <<instance, cat, call, pc, ptr, ref, rest>> /\ groups'[t] = {}
    BY <1>3 DEF Drop, Inv, TypeOK
  <2>2. Fetched' /\ Asked' BY <2>1 DEF Alone, Fetched, Asked, OneThread
  <2> QED BY <2>2 DEF Alone
<1> QED BY <1>1, <1>2, <1>3

LEMMA InitAlone == Init => Alone
BY DEF Init, Alone, Fetched, Asked

LEMMA NextAlone == ASSUME Constants, OneThread, Inv, Alone, [Next]_vars PROVE Alone'
<1>1. CASE UNCHANGED vars
  BY <1>1 DEF Alone, Fetched, Asked, vars, kernel, threads
<1> QED
  BY <1>1, KernelAlone, LoadAlone, StoreAlone, GotAlone, MakeAlone, BeginLeaveAlone
  DEF Next, Visit, MakeSingle

-----------------------------------------------------------------------------
(* What follows from the invariants *)

LEMMA InvTrue == ASSUME Constants, Inv PROVE CatalogueTrue
<1> SUFFICES ASSUME NEW c \in live, ~cat[c].changed,
                    c = instance \/ \E t \in Thread : <<c, "store">> = <<ptr[t], pc[t]>>
             PROVE FirstTrue(cat[c]) /\ SecondTrue(cat[c])
  BY DEF CatalogueTrue, FirstTrue, SecondTrue
<1>1. c \in Catalogue BY DEF live
<1>2. ~Half(c) BY DEF Half, Inv, Loading
<1> QED BY <1>1, <1>2 DEF Inv, Told

LEMMA AloneAskedFor == ASSUME Constants, Inv, Alone PROVE AskedFor
<1> SUFFICES ASSUME NEW t \in Thread, NEW g \in groups[t], call[t] \in Subsystem
             PROVE call[t] \in cat[g[1]].shown[cat[g[1]].dir[g[2]]]
  BY DEF AskedFor
<1>1. g[1] \in Catalogue /\ g[2] \in Id BY DEF Inv, TypeOK
<1>2. Fits(cat[g[1]]) BY <1>1 DEF Inv, Told
<1>3. cat[g[1]].dir[g[2]] # None /\ cat[g[1]].subsystem2id[call[t]] = g[2] BY DEF Alone, Asked
<1>4. g[2] # None BY <1>1 DEF Constants
<1> QED BY <1>1, <1>2, <1>3, <1>4 DEF Fits

LEMMA AloneHeld == ASSUME Constants, Inv, Alone PROVE NoFreedCatalogue
BY DEF NoFreedCatalogue, Alone, Fetched, live, Inv, TypeOK

LEMMA AloneStable == ASSUME Constants, Inv, Alone, [Next]_vars PROVE Stable
<1>1. instance' = instance \/ \E t \in Thread : Store(t)
  BY DEF Next, Kernel, Mount, Unmount, Begin, LoadHierarchies, LoadMountpoints, Got, Visit,
         MakeSingle, Make, Return, Drop, vars
<1>2. ASSUME NEW t \in Thread, Store(t) PROVE Stable
  BY <1>2 DEF Store, Goto, Stable, Alone, Fetched
<1> QED BY <1>1, <1>2 DEF Stable

-----------------------------------------------------------------------------
(* The theorems *)

LEMMA Invariant == ASSUME Constants PROVE Spec => []Inv
<1>1. Init => Inv BY InitInv
<1>2. Inv /\ [Next]_vars => Inv' BY NextInv
<1> QED BY <1>1, <1>2, PTL DEF Spec

\* Every variable keeps its type (the members of SystemInfo and the locals of
\* its callers), with any number of threads.
THEOREM TypeCorrect == ASSUME Constants PROVE Spec => []TypeOK
<1>1. Inv => TypeOK BY DEF Inv
<1> QED BY <1>1, Invariant, PTL

\* With any number of threads, forced updates and mounts: a catalogue that is
\* loaded says what the kernel had mounted, unless that has changed since.
THEOREM CatalogueIsTrue == ASSUME Constants PROVE Spec => []CatalogueTrue
<1>1. Inv => CatalogueTrue BY InvTrue
<1> QED BY <1>1, Invariant, PTL

\* One thread: a group asked for by subsystem lies where that subsystem was, no
\* range-for runs over a freed catalogue, and only update() replaces it.
THEOREM OneThreadIsSafe ==
    ASSUME Constants, OneThread
    PROVE Spec => [](AskedFor /\ NoFreedCatalogue) /\ StableUnlessForced
<1>1. Init => Inv /\ Alone BY InitInv, InitAlone
<1>2. (Inv /\ Alone) /\ [Next]_vars => (Inv /\ Alone)' BY NextInv, NextAlone
<1>3. Inv /\ Alone => AskedFor /\ NoFreedCatalogue BY AloneAskedFor, AloneHeld
<1>4. (Inv /\ Alone) /\ [Next]_vars => [Stable]_vars BY AloneStable
<1> QED BY <1>1, <1>2, <1>3, <1>4, PTL DEF Spec, StableUnlessForced
=============================================================================
