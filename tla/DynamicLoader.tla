--------------------------- MODULE DynamicLoader ---------------------------
(***************************************************************************)
(* unistd::DynamicLibrary: an object owns one reference that dlopen(3)     *)
(* gave it.  The loader counts references and unloads at zero; other code  *)
(* of the program uses it too.                                             *)
(*                                                                         *)
(* close() leaves handle_ as it is, so what is closed, moved from or       *)
(* assigned over is closed again; "careless" says that a program has met   *)
(* this.                                                                   *)
(***************************************************************************)
EXTENDS Naturals, FiniteSets

CONSTANTS Object, Library, None,
    MaxRefs       \* no library gets more references

VARIABLES
    alive,        \* the objects
    handle,       \* Object -> handle_: a library or None
    refs,         \* Library -> references the loader counts; resident above 0
    theirs,       \* Library -> those that other code has
    refused,      \* history: Library -> those a constructor took and threw away
    careless      \* history: a handle has been closed that stays in an object

others == <<theirs, refused>>
vars == <<alive, handle, refs, others, careless>>

TypeOK ==
    /\ alive \subseteq Object /\ handle \in [Object -> Library \union {None}]
    /\ {refs, theirs, refused} \subseteq [Library -> 0..MaxRefs] /\ careless \in BOOLEAN

Init ==
    /\ alive = {} /\ handle = [o \in Object |-> None]
    /\ refs = [l \in Library |-> 0] /\ theirs = [l \in Library |-> 0]
    /\ refused = [l \in Library |-> 0] /\ careless = FALSE

Holders(l) == {o \in alive : handle[o] = l}

Dlopen(l) == refs[l] < MaxRefs /\ refs' = [refs EXCEPT ![l] = @ + 1]

\* close() of what a library object has; dlclose(3) at zero is an error at best.
AfterClose(l) == IF l = None THEN refs ELSE [refs EXCEPT ![l] = IF @ = 0 THEN 0 ELSE @ - 1]

-----------------------------------------------------------------------------
Default(o) ==
    /\ o \notin alive /\ alive' = alive \union {o} /\ handle' = [handle EXCEPT ![o] = None]
    /\ UNCHANGED <<refs, others, careless>>

\* A path is first opened with RTLD_NOLOAD: a handle means that the library is
\* resident, and the exception loses the reference that came with it.
LoadPath(o, l) ==
    /\ o \notin alive /\ Dlopen(l)
    /\ IF refs[l] > 0
       THEN refused' = [refused EXCEPT ![l] = @ + 1] /\ UNCHANGED <<alive, handle>>
       ELSE /\ alive' = alive \union {o} /\ handle' = [handle EXCEPT ![o] = l]
            /\ UNCHANGED refused
    /\ UNCHANGED <<theirs, careless>>

\* A name without "/" is tried as it is, which finds nothing, and then opened
\* as lib<name>.so: a second object gets a reference of its own.
LoadName(o, l) ==
    /\ o \notin alive /\ Dlopen(l)
    /\ alive' = alive \union {o} /\ handle' = [handle EXCEPT ![o] = l]
    /\ UNCHANGED <<others, careless>>

\* After the swap the source has what the target had, and closes it.
Closes(l) == refs' = AfterClose(l) /\ careless' = (careless \/ l # None)
CopyHandle(o, s) ==                \* mutant of MoveAssign: no swap
    /\ o \in alive /\ s \in alive
    /\ handle' = [handle EXCEPT ![o] = handle[s]] /\ Closes(handle[o])
    /\ UNCHANGED <<alive, others>>
MoveAssign(o, s) ==
    /\ o \in alive /\ s \in alive
    /\ handle' = [handle EXCEPT ![o] = handle[s], ![s] = handle[o]] /\ Closes(handle[o])
    /\ UNCHANGED <<alive, others>>

\* Move construction does not initialise handle_ before the swap.  The garbage
\* may be null, a handle, or something that dlclose(3) rejects.
MoveConstruct(o, s) == \E garbage \in Library \union {None} :
    /\ o \notin alive /\ s \in alive
    /\ alive' = alive \union {o}
    /\ handle' = [handle EXCEPT ![o] = handle[s], ![s] = garbage]
    /\ refs' = AfterClose(garbage) /\ careless' = TRUE
    /\ UNCHANGED others

Close(o) == o \in alive /\ Closes(handle[o]) /\ UNCHANGED <<alive, handle, others>>

Swap(o, s) ==
    /\ o \in alive /\ s \in alive
    /\ handle' = [handle EXCEPT ![o] = handle[s], ![s] = handle[o]]
    /\ UNCHANGED <<alive, refs, others, careless>>

Destroy(o) ==
    /\ o \in alive /\ alive' = alive \ {o} /\ handle' = [handle EXCEPT ![o] = None]
    /\ refs' = AfterClose(handle[o])
    /\ UNCHANGED <<others, careless>>

\* The rest of the program.
OthersOpen(l) ==
    /\ Dlopen(l) /\ theirs' = [theirs EXCEPT ![l] = @ + 1]
    /\ UNCHANGED <<alive, handle, refused, careless>>
OthersClose(l) ==
    /\ theirs[l] > 0 /\ theirs' = [theirs EXCEPT ![l] = @ - 1]
    /\ refs' = AfterClose(l)
    /\ UNCHANGED <<alive, handle, refused, careless>>

\* What follows a careless step is not looked at.
Steps ==
    \/ \E o \in Object : Default(o) \/ Close(o) \/ Destroy(o)
    \/ \E o \in Object, l \in Library : LoadPath(o, l) \/ LoadName(o, l)
    \/ \E o, s \in Object : MoveConstruct(o, s) \/ MoveAssign(o, s) \/ Swap(o, s)
    \/ \E l \in Library : OthersOpen(l) \/ OthersClose(l)
Next == ~careless /\ Steps

Spec == Init /\ [][Next]_vars

-----------------------------------------------------------------------------
(* Ownership *)

\* As long as a program moves into empty objects only, does not move-construct
\* and leaves close() to the destructor, every reference is accounted for: one
\* for each object that has the library, those of other code, and those that a
\* refused constructor keeps for good (17-30).  So a library that an object has
\* is resident, and one that nobody uses and was never refused is not.
Accounted == careless \/
    \A l \in Library : refs[l] = Cardinality(Holders(l)) + theirs[l] + refused[l]
=============================================================================
