--------------------------- MODULE ChildProcesses ---------------------------
(***************************************************************************)
(* What a program sees of AsyncProcess: each child is one process of its   *)
(* own, told apart by its output file.  It is waited for exactly once, is  *)
(* killed only while it runs, and what is reported of it is its own.       *)
(* Process ids and their reuse, other processes, the objects' moves and    *)
(* the system calls of one call are not part of this.                      *)
(***************************************************************************)
EXTENDS Naturals

CONSTANTS Child, None, MaxOutput

VARIABLES
    running,   \* the children that run
    ended,     \* those that have ended and have not been waited for
    doomed,    \* the running ones with SIGKILL pending
    written,   \* Child -> how much it has written
    reports    \* what is reported of those that have been waited for

vars == <<running, ended, doomed, written, reports>>

\* A report on c, with the output out or without it yet.
Report(c, out) == <<c, [of |-> c, out |-> out]>>
Reported == {r[1] : r \in reports}

Init ==
    /\ running = {} /\ ended = {} /\ doomed = {} /\ reports = {}
    /\ written = [c \in Child |-> 0]

Start(c) ==
    /\ c \notin running \union ended \union Reported
    /\ running' = running \union {c}
    /\ UNCHANGED <<ended, doomed, written, reports>>

Write(c) ==
    /\ c \in running /\ written[c] < MaxOutput
    /\ written' = [written EXCEPT ![c] = @ + 1]
    /\ UNCHANGED <<running, ended, doomed, reports>>

Kill(c) ==
    /\ c \in running
    /\ doomed' = doomed \union {c}
    /\ UNCHANGED <<running, ended, written, reports>>

Exit(c) ==
    /\ c \in running
    /\ running' = running \ {c} /\ doomed' = doomed \ {c}
    /\ ended' = ended \union {c}
    /\ UNCHANGED <<written, reports>>

WaitFor(c) ==
    /\ c \in ended
    /\ ended' = ended \ {c}
    /\ reports' = reports \union {Report(c, None)}
    /\ UNCHANGED <<running, doomed, written>>

\* All the output is reported, in place of none.
Collect(c) ==
    /\ Report(c, None) \in reports
    /\ reports' = (reports \ {Report(c, None)}) \union {Report(c, written[c])}
    /\ UNCHANGED <<running, ended, doomed, written>>

\* Only a child that has been waited for is forgotten, with its file.
Forget(c) ==
    /\ c \in Reported
    /\ reports' = {r \in reports : r[1] # c}
    /\ written' = [written EXCEPT ![c] = 0]
    /\ UNCHANGED <<running, ended, doomed>>

Next == \E c \in Child :
    Start(c) \/ Write(c) \/ Kill(c) \/ Exit(c) \/ WaitFor(c) \/ Collect(c) \/ Forget(c)

Spec == Init /\ [][Next]_vars
=============================================================================
