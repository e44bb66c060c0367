------------------------------- MODULE Parts -------------------------------
(***************************************************************************)
(* The components that have no part in each other, side by side: a         *)
(* behaviour is one of "part", and the variables of the others are None.   *)
(***************************************************************************)
EXTENDS Descriptor, Naturals, Sequences, FiniteSets

CONSTANTS
    Library, MaxRefs,                                   \* DynamicLoader
    UserId,                                             \* Credentials
    Char, MaxLength, MaxEntries, MaxKept, Garbage,      \* MountTable
    Path, Caller,                                       \* FileSystem
    Limit, MaxTicks, Den, ClkTck, Modulus, MaxSeen,     \* ControlFiles
    Thread, Catalogue, HierId, Subsystem, Dir, MaxChanges, Forced,   \* SystemInfo
    Multiple, Hier, ChildName, Root, Field, Has              \* MultipleControlGroup

\* What the components say of their constants, besides Descriptor's assumption.
ASSUME LoaderAssumption == IsFiniteSet(Object) /\ None \notin Library /\ MaxRefs \in Nat
ASSUME IdsAssumption == 0 \in UserId
ASSUME TextAssumption ==
    Char \subseteq 0..255 /\ Garbage \subseteq Seq(0..255) /\ {MaxLength, MaxEntries} \subseteq Nat
ASSUME FilesAssumption ==
    /\ Limit \subseteq Nat /\ \E v \in Limit : \A w \in Limit : w <= v
    /\ {Den, ClkTck, Modulus} \subseteq Nat \ {0}
ASSUME CatalogueAssumption ==
    /\ None \notin Catalogue \union HierId \union Dir
    /\ {"update", "walk"} \intersect Subsystem = {}
    /\ MaxChanges \in Nat
ASSUME GroupsAssumption == None \notin ChildName \union {Root} \union BOOLEAN

VARIABLES
    part,
    handle, refs, theirs, refused, careless, library,             \* DynamicLoader
    uid, gid, drop, want, from, end, dropped,                     \* Credentials
    entry, text, was, parsed, entries, file, saved, loaded,       \* MountTable
    node, target, closed, answer,                                 \* FileSystem
    family, content, read, result, seen,                          \* ControlFiles
    subs, mnt, changes, instance, cat, pc, call, ptr, ref, rest, groups,   \* SystemInfo
    multiple, id2cgroup, cache, created, dirs, busy, flag, op, quiet, ours \* MultipleControlGroup

L == INSTANCE DynamicLoader WITH alive <- library
C == INSTANCE Credentials WITH op <- drop, Id <- UserId
T == INSTANCE MountTable
F == INSTANCE FileSystem
V == INSTANCE ControlFiles WITH op <- read
S == INSTANCE SystemInfo WITH Id <- HierId
G == INSTANCE MultipleControlGroup WITH alive <- multiple, made <- created, Object <- Multiple, Name <- ChildName

lv == <<library, handle, refs, theirs, refused, careless>>
cv == <<uid, gid, drop, want, from, end, dropped>>
tv == <<entry, text, was, parsed, entries, file, saved, loaded>>
fv == <<node, target, closed, answer>>
vv == <<family, content, read, result, seen>>
sv == <<subs, mnt, changes, instance, cat, pc, call, ptr, ref, rest, groups>>
gv == <<multiple, id2cgroup, cache, created, dirs, busy, flag, op, quiet, ours>>

PartsInit ==
    /\ part \in {"Descriptor", "DynamicLoader", "Credentials", "MountTable", "FileSystem",
                 "ControlFiles", "SystemInfo", "MultipleControlGroup"}
    /\ Init
    /\ IF part = "DynamicLoader" THEN L!Init ELSE
            /\ library = None /\ handle = None /\ refs = None /\ theirs = None /\ refused = None /\ careless = None
    /\ IF part = "Credentials" THEN C!Init ELSE
            /\ uid = None /\ gid = None /\ drop = None /\ want = None /\ from = None /\ end = None
            /\ dropped = None
    /\ IF part = "MountTable" THEN T!Init ELSE
            /\ entry = None /\ text = None /\ was = None /\ parsed = None /\ entries = None /\ file = None
            /\ saved = None /\ loaded = None
    /\ IF part = "FileSystem" THEN F!Init ELSE
            /\ node = None /\ target = None /\ closed = None /\ answer = None
    /\ IF part = "ControlFiles" THEN V!Init ELSE
            /\ family = None /\ content = None /\ read = None /\ result = None /\ seen = None
    /\ IF part = "SystemInfo" THEN S!Init ELSE
            /\ subs = None /\ mnt = None /\ changes = None /\ instance = None /\ cat = None /\ pc = None
            /\ call = None /\ ptr = None /\ ref = None /\ rest = None /\ groups = None
    /\ IF part = "MultipleControlGroup" THEN G!Init ELSE
            /\ multiple = None /\ id2cgroup = None /\ cache = None /\ created = None /\ dirs = None /\ busy = None
            /\ flag = None /\ op = None /\ quiet = None /\ ours = None

PartsNext ==
    /\ UNCHANGED part
    /\ \/ part = "Descriptor" /\ Next /\ UNCHANGED <<lv, cv, tv, fv, vv, sv, gv>>
       \/ part = "DynamicLoader" /\ L!Next /\ UNCHANGED <<vars, cv, tv, fv, vv, sv, gv>>
       \/ part = "Credentials" /\ C!Next /\ UNCHANGED <<vars, lv, tv, fv, vv, sv, gv>>
       \/ part = "MountTable" /\ T!Next /\ UNCHANGED <<vars, lv, cv, fv, vv, sv, gv>>
       \/ part = "FileSystem" /\ F!Next /\ UNCHANGED <<vars, lv, cv, tv, vv, sv, gv>>
       \/ part = "ControlFiles" /\ V!Next /\ UNCHANGED <<vars, lv, cv, tv, fv, sv, gv>>
       \/ part = "SystemInfo" /\ S!Next /\ UNCHANGED <<vars, lv, cv, tv, fv, vv, gv>>
       \/ part = "MultipleControlGroup" /\ G!Next /\ UNCHANGED <<vars, lv, cv, tv, fv, vv, sv>>

PartsSpec == PartsInit /\ [][PartsNext]_<<part, vars, lv, cv, tv, fv, vv, sv, gv>>

-----------------------------------------------------------------------------
(* The properties of the components, under their names.  OwnedOnce is        *)
(* Descriptor's.                                                             *)

\* Every variable of every component has its type.
PartsTypeOK ==
    /\ TypeOK
    /\ part = "DynamicLoader" => L!TypeOK
    /\ part = "Credentials" => C!TypeOK
    /\ part = "MountTable" => T!TypeOK
    /\ part = "FileSystem" => F!TypeOK
    /\ part = "ControlFiles" => V!TypeOK
    /\ part = "SystemInfo" => S!TypeOK
    /\ part = "MultipleControlGroup" => G!TypeOK

\* DynamicLibrary: every reference that dlopen(3) gave is somebody's.
Accounted == part = "DynamicLoader" => L!Accounted

\* access::dropId: the user's ids stay, and root is never refused half way.
DroppedForGood == part = "Credentials" => C!DroppedForGood
RootMayDrop == part = "Credentials" => C!RootMayDrop

\* MountEntry and Fstab: a line gives the entry back, a file the entries.
WrittenIsRead == part = "MountTable" => T!WrittenIsRead

\* FileStatus: what a caller may conclude.
KindsSeen == part = "FileSystem" => F!KindsSeen

\* Control files: values are current, and times exact.
ReadIsCurrent == part = "ControlFiles" => V!ReadIsCurrent

\* SystemInfo: what a catalogue says, and for how long.
CatalogueTrue == part = "SystemInfo" => S!CatalogueTrue
AskedFor == part = "SystemInfo" => S!AskedFor
StableUnlessForced == [][part = "SystemInfo" => S!Stable]_<<part, sv>>

\* MultipleControlGroup: the cache, what is left behind, what a getter says.
CacheIsCurrent == part = "MultipleControlGroup" => G!CacheIsCurrent
GroupsNothingLeft == part = "MultipleControlGroup" => G!GroupsNothingLeft
AnswerTrue == part = "MultipleControlGroup" => G!AnswerTrue

\* A call changes all of an object's groups or none of them, and a loop over
\* the hierarchies shows itself in nothing before it ends: GroupSets is
\* implemented (cgroup/MultipleControlGroup.cpp:40-80, 168-209).
ActsLikeSets ==
    /\ part = "MultipleControlGroup" => G!Sets!Init
    /\ [][part = "MultipleControlGroup" => UNCHANGED G!Sets!vars \/ G!Sets!Next]_<<part, gv>>
=============================================================================
