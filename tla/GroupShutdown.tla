---------------------------- MODULE GroupShutdown ----------------------------
(***************************************************************************)
(* What a caller of cgroup::terminate() is promised, without freezer,      *)
(* listing or signals: at some point inside the call the group is closed,  *)
(* from then on it can only lose tasks, and the call returns only once it  *)
(* has lost all of them.                                                   *)
(***************************************************************************)
CONSTANT Task

VARIABLES
    group,    \* the tasks of the control group
    closing   \* a call of terminate() has closed the group

vars == <<group, closing>>

Init == group = {} /\ closing = FALSE

\* Tasks are attached, fork and exit as they like.
Change == ~closing /\ group' \in SUBSET Task /\ UNCHANGED closing

Close == ~closing /\ closing' = TRUE /\ UNCHANGED group

Shrink == closing /\ group' \in (SUBSET group) \ {group} /\ UNCHANGED closing

Return == closing /\ group = {} /\ closing' = FALSE /\ UNCHANGED group

Next == Change \/ Close \/ Shrink \/ Return

Spec == Init /\ [][Next]_vars

\* A closed group does become empty, and the call then returns.
FairSpec == Spec /\ WF_vars(Shrink \/ Return)
=============================================================================
