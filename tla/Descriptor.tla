----------------------------- MODULE Descriptor -----------------------------
(***************************************************************************)
(* unistd::Descriptor and the two Descriptors of a unistd::Pipe: objects   *)
(* that own a descriptor number.  The numbers belong to the process: the   *)
(* rest of the program opens and closes files too, and a number that has   *)
(* been closed is given out again by the next open(2).                     *)
(***************************************************************************)
CONSTANTS Object, Number, None

ASSUME NoneAssumption == None \notin Number

VARIABLES
    alive,    \* the objects that have been constructed and not destroyed
    fd,       \* Object -> fd_: a number or None
    table     \* Number -> "free", "raw" (the program's) or "held" (an object's)

vars == <<alive, fd, table>>

TypeOK ==
    /\ alive \in SUBSET Object
    /\ fd \in [Object -> Number \union {None}]
    /\ table \in [Number -> {"free", "raw", "held"}]

Init ==
    /\ alive = {}
    /\ fd = [o \in Object |-> None]
    /\ table = [n \in Number |-> "free"]

-----------------------------------------------------------------------------
(* The operations.  A failing close(2) has given the number back as well. *)

\* The table after close(2) of fd_, if there is one.
AfterClose(o) == [n \in Number |-> IF n = fd[o] THEN "free" ELSE table[n]]

\* The program's own calls, in any thread.
Open(n) ==
    /\ table[n] = "free"
    /\ table' = [table EXCEPT ![n] = "raw"]
    /\ UNCHANGED <<alive, fd>>
CloseRaw(n) ==
    /\ table[n] = "raw"
    /\ table' = [table EXCEPT ![n] = "free"]
    /\ UNCHANGED <<alive, fd>>

\* Descriptor(fd) takes a number of the program's over.
Construct(o, n) ==
    /\ o \notin alive /\ table[n] = "raw"
    /\ alive' = alive \union {o}
    /\ fd' = [fd EXCEPT ![o] = n]
    /\ table' = [table EXCEPT ![n] = "held"]

\* unistd::open, dup, epoll_create1 return a new object.
OpenNew(o, n) ==
    /\ o \notin alive /\ table[n] = "free"
    /\ alive' = alive \union {o}
    /\ fd' = [fd EXCEPT ![o] = n]
    /\ table' = [table EXCEPT ![n] = "held"]

\* Pipe(): pipe(2) gives two numbers at once, and both are assigned.
MakePipe(r, w, m, n) ==
    /\ r # w /\ {r, w} \intersect alive = {}
    /\ m # n /\ table[m] = "free" /\ table[n] = "free"
    /\ alive' = alive \union {r, w}
    /\ fd' = [fd EXCEPT ![r] = m, ![w] = n]
    /\ table' = [table EXCEPT ![m] = "held", ![n] = "held"]

AssignUnclosed(o, n) ==            \* mutant of Assign: the old number is forgotten
    /\ o \in alive /\ table[n] = "raw"
    /\ fd' = [fd EXCEPT ![o] = n]
    /\ table' = [table EXCEPT ![n] = "held"]
    /\ UNCHANGED alive
Assign(o, n) ==
    /\ o \in alive /\ table[n] = "raw"
    /\ fd' = [fd EXCEPT ![o] = n]
    /\ table' = [AfterClose(o) EXCEPT ![n] = "held"]
    /\ UNCHANGED alive

\* Both moves swap and close the source: a new object takes its number and
\* the source, with what the new object had, has nothing to close.
MoveConstruct(o, s) ==
    /\ o \notin alive /\ s \in alive
    /\ alive' = alive \union {o}
    /\ fd' = [fd EXCEPT ![o] = fd[s], ![s] = None]
    /\ UNCHANGED table

\* The target's number is closed at once; an object moved to itself loses its.
MoveAssign(o, s) ==
    /\ o \in alive /\ s \in alive
    /\ table' = AfterClose(o)
    /\ fd' = [fd EXCEPT ![o] = IF o = s THEN None ELSE fd[s], ![s] = None]
    /\ UNCHANGED alive

Swap(o, s) ==
    /\ o \in alive /\ s \in alive
    /\ fd' = [fd EXCEPT ![o] = fd[s], ![s] = fd[o]]
    /\ UNCHANGED <<alive, table>>

\* release() hands the number back; it asserts that there is one.
Release(o) ==
    /\ o \in alive /\ fd[o] # None
    /\ table' = [table EXCEPT ![fd[o]] = "raw"]
    /\ fd' = [fd EXCEPT ![o] = None]
    /\ UNCHANGED alive

CloseKeepsNumber(o) ==             \* mutant of Close: no fd_.reset()
    /\ o \in alive
    /\ table' = AfterClose(o)
    /\ UNCHANGED <<alive, fd>>
Close(o) ==
    /\ o \in alive
    /\ table' = AfterClose(o)
    /\ fd' = [fd EXCEPT ![o] = None]
    /\ UNCHANGED alive

Destroy(o) ==
    /\ o \in alive
    /\ table' = AfterClose(o)
    /\ fd' = [fd EXCEPT ![o] = None]
    /\ alive' = alive \ {o}

Next ==
    \/ \E n \in Number : Open(n) \/ CloseRaw(n)
    \/ \E o \in Object : Release(o) \/ Close(o) \/ Destroy(o)
    \/ \E o \in Object, n \in Number : Construct(o, n) \/ OpenNew(o, n) \/ Assign(o, n)
    \/ \E o, s \in Object : MoveConstruct(o, s) \/ MoveAssign(o, s) \/ Swap(o, s)
    \/ \E r, w \in Object, m, n \in Number : MakePipe(r, w, m, n)

Spec == Init /\ [][Next]_vars

-----------------------------------------------------------------------------
(* Ownership *)

\* A number has one owner: an object that has a number is the only one, and
\* the number is open and not the program's, so that no close(2) of an object
\* hits a file that somebody else has opened under a reused number
\* (Descriptor::close resets fd_, the moves empty the source).
OneOwner == \A o \in Object : fd[o] # None =>
    /\ o \in alive
    /\ table[fd[o]] = "held"
    /\ \A q \in Object : fd[q] = fd[o] => q = o

\* No number is lost: what was given to an object is still in one, whatever
\* was moved, swapped, assigned and destroyed since.
NoneLost == \A n \in Number : table[n] = "held" => \E o \in alive : fd[o] = n

\* The objects' numbers are those that were given to them, each once.
OwnedOnce == OneOwner /\ NoneLost
=============================================================================
