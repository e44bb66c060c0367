---------------------------- MODULE Termination ----------------------------
(***************************************************************************)
(* Terminating every task of a control group: FreezerBase::freeze and      *)
(* unfreeze, the function terminate() and the TerminationGuard that calls  *)
(* it, running against the kernel's freezer, against tasks that fork and   *)
(* exit on their own, and against callers of ControlGroup::attachTask.     *)
(*                                                                         *)
(* All guards watch one control group.  A SingleControlGroup has one       *)
(* hierarchy; a MultipleControlGroup has a directory in several, only one  *)
(* of which has the freezer.  Reading or writing one control file is one   *)
(* step, so every loop of the code over tasks or hierarchies can be        *)
(* interrupted between any two of its iterations.                          *)
(***************************************************************************)
CONSTANTS
    Task,              \* process ids
    Hierarchy,         \* hierarchies in which the control group has a directory
    FreezerHierarchy,  \* the one whose directory has freezer.state
    Guard,             \* TerminationGuard objects, all for this control group
    Attacher,          \* callers of attachTask() on this control group
    Serial,            \* TRUE: one thread makes all library calls, one at a time
    ReleaseAgent       \* TRUE: an empty directory may be removed by someone else

ASSUME HierarchyAssumption == FreezerHierarchy \in Hierarchy
ASSUME ModeAssumption == Serial \in BOOLEAN /\ ReleaseAgent \in BOOLEAN

VARIABLES
    status,     \* Task -> "free", "running" or "zombie"
    member,     \* Hierarchy -> the tasks its "tasks" file lists
    exists,     \* the hierarchies whose directory still exists
    freezing,   \* FROZEN was the last thing written to freezer.state
    frozen,     \* the tasks stopped by the freezer
    pending,    \* the running tasks with SIGKILL pending
    attaching,  \* Attacher -> the <<task, hierarchy>> writes still to do
    pc,         \* Guard -> where the guard is in its code
    via,        \* Guard -> who called terminate(): "call" or "dtor"
    todo,       \* Guard -> hierarchies tasks() has yet to read
    listed,     \* Guard -> tasks read so far, or still to be killed
    failed      \* Guard -> an exception is on its way out of terminate_()

kernel == <<status, member, exists, freezing, frozen, pending>>
guards == <<pc, via, todo, listed, failed>>
vars == <<kernel, attaching, guards>>

\* The steps of terminate() before the thaw, and all of them.
FreezeSteps == {"write", "confirm", "recheck", "list", "kill", "thaw"}
TerminateSteps == FreezeSteps \union {"confirmThaw", "wait"}

TypeOK ==
    /\ status \in [Task -> {"free", "running", "zombie"}]
    /\ member \in [Hierarchy -> SUBSET Task]
    /\ exists \in SUBSET Hierarchy
    /\ freezing \in BOOLEAN
    /\ frozen \in SUBSET Task
    /\ pending \in SUBSET Task
    /\ attaching \in [Attacher -> SUBSET (Task \X Hierarchy)]
    /\ pc \in [Guard -> TerminateSteps
                         \union {"armed", "detached", "destroyed", "aborted"}]
    /\ via \in [Guard -> {"call", "dtor"}]
    /\ todo \in [Guard -> SUBSET Hierarchy]
    /\ listed \in [Guard -> SUBSET Task]
    /\ failed \in [Guard -> BOOLEAN]

\* A program starts with its guards armed and nothing attached yet.
Init ==
    /\ status \in [Task -> {"free", "running"}]
    /\ member = [h \in Hierarchy |-> {}]
    /\ exists = Hierarchy
    /\ freezing = FALSE /\ frozen = {} /\ pending = {}
    /\ attaching = [a \in Attacher |-> {}]
    /\ pc = [g \in Guard |-> "armed"]
    /\ via = [g \in Guard |-> "call"]
    /\ todo = [g \in Guard |-> {}] /\ listed = [g \in Guard |-> {}]
    /\ failed = [g \in Guard |-> FALSE]

Inside(g) == pc[g] \in TerminateSteps

\* In a serial program a library call starts when no other one is running.
MayCall == Serial => /\ \A g \in Guard : ~Inside(g)
                     /\ \A a \in Attacher : attaching[a] = {}

-----------------------------------------------------------------------------
(* The kernel and the tasks *)

\* What reading freezer.state returns.
FreezerState ==
    IF ~freezing THEN "THAWED"
    ELSE IF member[FreezerHierarchy] \subseteq frozen THEN "FROZEN"
    ELSE "FREEZING"

\* A task of a freezing group enters the refrigerator.
TaskFreeze(t) ==
    /\ freezing /\ t \in member[FreezerHierarchy] \ frozen
    /\ frozen' = frozen \union {t}
    /\ UNCHANGED <<status, member, exists, freezing, pending, attaching, guards>>

\* A task that is not frozen ends, by itself or by SIGKILL.  It leaves its
\* control groups at once; its pid stays taken until its parent reaps it.
Exit(t) ==
    /\ status[t] = "running" /\ t \notin frozen
    /\ status' = [status EXCEPT ![t] = "zombie"]
    /\ member' = [h \in Hierarchy |-> member[h] \ {t}]
    /\ pending' = pending \ {t}
    /\ UNCHANGED <<exists, freezing, frozen, attaching, guards>>

Killed(t) == t \in pending /\ Exit(t)

\* In a serial program the caller of attachTask is the parent of the task it
\* attaches, so the task cannot be reaped in the middle of the call.
Reap(t) ==
    /\ status[t] = "zombie"
    /\ Serial => \A a \in Attacher : attaching[a] = {}
    /\ status' = [status EXCEPT ![t] = "free"]
    /\ UNCHANGED <<member, exists, freezing, frozen, pending, attaching, guards>>

\* An unrelated process gets the pid.
Spawn(t) ==
    /\ status[t] = "free"
    /\ status' = [status EXCEPT ![t] = "running"]
    /\ UNCHANGED <<member, exists, freezing, frozen, pending, attaching, guards>>

\* fork(2) fails while a signal is pending; the child starts unfrozen in the
\* control groups of its parent.
Fork(t, child) ==
    /\ status[t] = "running" /\ t \notin frozen \union pending
    /\ status[child] = "free"
    /\ status' = [status EXCEPT ![child] = "running"]
    /\ member' = [h \in Hierarchy |-> IF t \in member[h]
                                      THEN member[h] \union {child} ELSE member[h]]
    /\ UNCHANGED <<exists, freezing, frozen, pending, attaching, guards>>

\* notify_on_release: the release agent, or another owner, removes the
\* directory once it has no task.
Remove(h) ==
    /\ ReleaseAgent /\ h \in exists /\ member[h] = {}
    /\ exists' = exists \ {h}
    /\ freezing' = (freezing /\ h # FreezerHierarchy)
    /\ UNCHANGED <<status, member, frozen, pending, attaching, guards>>

-----------------------------------------------------------------------------
(* ControlGroup::attachTask: one write per hierarchy *)

AttachTask(a, t) ==
    /\ attaching[a] = {} /\ MayCall
    /\ attaching' = [attaching EXCEPT ![a] = {t} \X Hierarchy]
    /\ UNCHANGED <<kernel, guards>>

\* A write fails, and the call with it, when the pid has no task (ESRCH) or
\* the directory is gone.
AttachWrite(a) == \E t \in Task, h \in Hierarchy :
    /\ <<t, h>> \in attaching[a]
    /\ IF status[t] = "running" /\ h \in exists
       THEN /\ member' = [member EXCEPT ![h] = @ \union {t}]
            /\ attaching' = [attaching EXCEPT ![a] = @ \ {<<t, h>>}]
       ELSE /\ attaching' = [attaching EXCEPT ![a] = {}]
            /\ UNCHANGED member
    /\ UNCHANGED <<status, exists, freezing, frozen, pending, guards>>

-----------------------------------------------------------------------------
(* TerminationGuard *)

Goto(g, label) == pc' = [pc EXCEPT ![g] = label]

\* terminate() leaves controlGroup_ set; only the destructor ends the guard.
Terminate(g, caller) ==
    /\ pc[g] = "armed" /\ MayCall
    /\ Goto(g, "write")
    /\ via' = [via EXCEPT ![g] = caller]
    /\ failed' = [failed EXCEPT ![g] = FALSE]
    /\ UNCHANGED <<kernel, attaching, todo, listed>>

Detach(g) ==
    /\ pc[g] \in {"armed", "detached"} /\ MayCall
    /\ Goto(g, "detached")
    /\ UNCHANGED <<kernel, attaching, via, todo, listed, failed>>

DestroyDetached(g) ==
    /\ pc[g] = "detached" /\ MayCall
    /\ Goto(g, "destroyed")
    /\ UNCHANGED <<kernel, attaching, via, todo, listed, failed>>

\* The defaulted move assignment drops what the target held and never
\* terminates it.
MoveAssign(source, target) ==
    /\ source # target /\ MayCall
    /\ {pc[source], pc[target]} \subseteq {"armed", "detached"}
    /\ pc' = [pc EXCEPT ![source] = "detached", ![target] = pc[source]]
    /\ UNCHANGED <<kernel, attaching, via, todo, listed, failed>>

-----------------------------------------------------------------------------
(* terminate_(): freeze, list, kill, and the scope exit that unfreezes *)

FreezerExists == FreezerHierarchy \in exists

\* The guard's destructor swallows an exception, terminate() passes it on;
\* either way the call is over.
Return(g) == Goto(g, IF via[g] = "dtor" THEN "destroyed" ELSE "armed")

\* An exception leaves the body of terminate_(): the scope exit still thaws.
ThrowUnguarded(g) ==                  \* mutant of Throw: no scope exit
    Return(g) /\ failed' = [failed EXCEPT ![g] = TRUE]
Throw(g) == Goto(g, "thaw") /\ failed' = [failed EXCEPT ![g] = TRUE]

\* An exception out of unfreeze() leaves the destructor of the scope exit:
\* std::terminate, which no handler sees.
Abort(g) == Goto(g, "aborted") /\ UNCHANGED failed

\* setState(FROZEN) writes; a kernel that cannot freeze every task at once may
\* answer EBUSY, which freeze() swallows on its way to its own condition.
WriteFrozen(g) ==
    /\ pc[g] = "write"
    /\ \/ ~FreezerExists /\ Throw(g) /\ UNCHANGED freezing
       \/ /\ FreezerExists
          /\ freezing' = TRUE
          /\ \/ Goto(g, "confirm")
             \/ ~(member[FreezerHierarchy] \subseteq frozen) /\ Goto(g, "recheck")
          /\ UNCHANGED failed
    /\ UNCHANGED <<status, member, exists, frozen, pending, attaching,
                   via, todo, listed>>

\* The condition of the loop in setState, then the one in freeze().
FreezeRequested == FreezerState # "THAWED"   \* mutant of IsFrozen
IsFrozen == FreezerState = "FROZEN"

ConfirmFrozen(g) ==
    /\ pc[g] \in {"confirm", "recheck"}
    /\ IF ~FreezerExists
       THEN Throw(g) /\ UNCHANGED <<todo, listed>>
       ELSE /\ UNCHANGED failed
            /\ IF ~IsFrozen
               THEN Goto(g, "write") /\ UNCHANGED <<todo, listed>>
               ELSE IF pc[g] = "confirm"
               THEN Goto(g, "recheck") /\ UNCHANGED <<todo, listed>>
               ELSE /\ Goto(g, "list")
                    /\ todo' = [todo EXCEPT ![g] = Hierarchy]
                    /\ listed' = [listed EXCEPT ![g] = {}]
    /\ UNCHANGED <<kernel, attaching, via>>

\* tasks(): the union of the hierarchies, one file at a time.
ReadTasks(g, h) ==
    /\ h \in todo[g] /\ h \in exists
    /\ todo' = [todo EXCEPT ![g] = @ \ {h}]
    /\ listed' = [listed EXCEPT ![g] = @ \union member[h]]
    /\ UNCHANGED <<pc, failed>>

ReadTasksFails(g) ==
    /\ ~(todo[g] \subseteq exists)
    /\ UNCHANGED <<todo, listed>>

AnyRead(g) == todo[g] # Hierarchy     \* mutant of AllRead
AllRead(g) == todo[g] = {}

List(g) ==
    /\ pc[g] = "list"
    /\ \/ \E h \in Hierarchy : ReadTasks(g, h)
       \/ ReadTasksFails(g) /\ Throw(g)
       \/ AllRead(g) /\ Goto(g, "kill") /\ UNCHANGED <<todo, listed, failed>>
    /\ UNCHANGED <<kernel, attaching, via>>

\* kill(pid, SIGKILL) for each listed pid; a zombie accepts it, a pid that
\* has no process is an ESRCH exception.
WaitBeforeThaw(g) ==                  \* mutant of KillDone: waits frozen
    Goto(g, "wait") /\ todo' = [todo EXCEPT ![g] = Hierarchy]
KillDone(g) == Goto(g, "thaw") /\ UNCHANGED todo

Kill(g) ==
    /\ pc[g] = "kill"
    /\ \/ /\ UNCHANGED todo
          /\ \E t \in listed[g] :
               IF status[t] = "free"
               THEN Throw(g) /\ UNCHANGED <<pending, listed>>
               ELSE /\ pending' = IF status[t] = "running"
                                  THEN pending \union {t} ELSE pending
                    /\ listed' = [listed EXCEPT ![g] = @ \ {t}]
                    /\ UNCHANGED <<pc, failed>>
       \/ listed[g] = {} /\ KillDone(g) /\ UNCHANGED <<pending, listed, failed>>
    /\ UNCHANGED <<status, member, exists, freezing, frozen, attaching, via>>

\* setState(THAWED): the write wakes every task of the group.
WriteThawed(g) ==
    /\ pc[g] = "thaw"
    /\ IF FreezerExists
       THEN /\ freezing' = FALSE
            /\ frozen' = frozen \ member[FreezerHierarchy]
            /\ Goto(g, "confirmThaw") /\ UNCHANGED failed
       ELSE Abort(g) /\ UNCHANGED <<freezing, frozen>>
    /\ UNCHANGED <<status, member, exists, pending, attaching, via, todo, listed>>

ConfirmThawed(g) ==
    /\ pc[g] = "confirmThaw"
    /\ IF ~FreezerExists
       THEN Abort(g) /\ UNCHANGED <<todo, listed>>
       ELSE /\ UNCHANGED failed
            /\ IF FreezerState # "THAWED"
               THEN Goto(g, "thaw") /\ UNCHANGED <<todo, listed>>
               ELSE IF failed[g]
               THEN Return(g) /\ UNCHANGED <<todo, listed>>
               ELSE /\ Goto(g, "wait")
                    /\ todo' = [todo EXCEPT ![g] = Hierarchy]
                    /\ listed' = [listed EXCEPT ![g] = {}]
    /\ UNCHANGED <<kernel, attaching, via>>

\* waitEmpty_(): poll tasks() until it returns nothing.
AtMostOneLeft(g) == \A s, t \in listed[g] : s = t   \* mutant of NoneLeft
NoneLeft(g) == listed[g] = {}

WaitEmpty(g) ==
    /\ pc[g] = "wait"
    /\ \/ \E h \in Hierarchy : ReadTasks(g, h)
       \/ /\ ReadTasksFails(g) /\ Return(g)
          /\ failed' = [failed EXCEPT ![g] = TRUE]
       \/ /\ AllRead(g) /\ NoneLeft(g)
          /\ Return(g) /\ UNCHANGED <<todo, listed, failed>>
       \/ /\ AllRead(g) /\ ~NoneLeft(g)
          /\ todo' = [todo EXCEPT ![g] = Hierarchy]
          /\ listed' = [listed EXCEPT ![g] = {}]
          /\ UNCHANGED <<pc, failed>>
    /\ UNCHANGED <<kernel, attaching, via>>

TerminateStep(g) ==
    \/ WriteFrozen(g) \/ ConfirmFrozen(g) \/ List(g) \/ Kill(g)
    \/ WriteThawed(g) \/ ConfirmThawed(g) \/ WaitEmpty(g)

-----------------------------------------------------------------------------
TaskStep(t) ==
    \/ TaskFreeze(t) \/ Exit(t) \/ Reap(t) \/ Spawn(t)
    \/ \E child \in Task : Fork(t, child)

GuardCall(g) ==
    \/ \E caller \in {"call", "dtor"} : Terminate(g, caller)
    \/ Detach(g) \/ DestroyDetached(g)
    \/ \E target \in Guard : MoveAssign(g, target)

Next ==
    \/ \E t \in Task : TaskStep(t)
    \/ \E h \in Hierarchy : Remove(h)
    \/ \E a \in Attacher : AttachWrite(a) \/ \E t \in Task : AttachTask(a, t)
    \/ \E g \in Guard : GuardCall(g) \/ TerminateStep(g)

Spec == Init /\ [][Next]_vars

\* A thread inside terminate() keeps running and a killed task that is not
\* frozen ends.  A task that keeps being asked to freeze does so: a flagged
\* task cannot fork for ever instead (strong fairness, because a chain of
\* forks and exits disables TaskFreeze of each pid again and again).
Fairness ==
    /\ \A g \in Guard : WF_vars(TerminateStep(g))
    /\ \A t \in Task : SF_vars(TaskFreeze(t)) /\ WF_vars(Killed(t))

FairSpec == Spec /\ Fairness

-----------------------------------------------------------------------------
(* What terminate() promises *)

\* The group is frozen only while some call is between its freeze and its
\* thaw: whatever exception is thrown, and however calls of several threads
\* overlap, nobody leaves the tasks of the group frozen.
NobodyLeavesFrozen == freezing => \E g \in Guard : pc[g] \in FreezeSteps

\* When the kill loop is done, and until the call returns, every task in the
\* freezer's directory has SIGKILL pending: none was forked or attached behind
\* the listing.
Doomed(g) == pc[g] \in {"thaw", "confirmThaw", "wait"} /\ ~failed[g]
NoEscape == \A g \in Guard : Doomed(g) => member[FreezerHierarchy] \subseteq pending

\* Why NoEscape and EmptyOnReturn hold in a serial program.  No call overlaps another, so the
\* group frozen at the listing stays frozen, and neither attachTask nor fork
\* can add a task to it before every listed task has its SIGKILL.
OneCallAtATime ==
    /\ \A g, i \in Guard : Inside(g) /\ Inside(i) => g = i
    /\ \A g \in Guard : Inside(g) => \A a \in Attacher : attaching[a] = {}
MembersRun == \A h \in Hierarchy : \A t \in member[h] : status[t] = "running"
Caught(g) ==
    LET group == member[FreezerHierarchy] IN
    /\ pc[g] \in {"list", "kill"} => group \subseteq frozen
    /\ pc[g] = "list" => FreezerHierarchy \in todo[g] \/ group \subseteq listed[g]
    /\ pc[g] = "kill" => group \subseteq listed[g] \union pending
    /\ Doomed(g) => group \subseteq pending
    /\ pc[g] = "wait" =>
         \A h \in Hierarchy : h \in todo[g] \/ listed[g] # {} \/ member[h] = {}
SerialInv == OneCallAtATime /\ MembersRun /\ \A g \in Guard : Caught(g)

\* NoEscape and EmptyOnReturn seen by the caller: terminate() implements
\* GroupShutdown, for the tasks of the freezer's directory.
Shutdown == INSTANCE GroupShutdown WITH
    group <- member[FreezerHierarchy],
    closing <- \E g \in Guard : Doomed(g)
ImplementsShutdown == Shutdown!FairSpec

\* The same for every task tasks() returns: the words of Termination.hpp,
\* "Terminates all tasks in specified control group".
AllTasksDoomed ==
    \A g \in Guard : Doomed(g) => \A h \in Hierarchy : member[h] \subseteq pending

\* SIGKILL reaches only tasks of the control group: no pid of the listing has
\* been reused by an unrelated process when it is killed.
NoStrayKill ==
    [][\A t \in pending' \ pending : \E h \in Hierarchy : t \in member[h]]_vars

\* terminate() does not fail: no listed task vanishes before its kill.
NeverThrows == \A g \in Guard : ~failed[g]

\* A call that returns without an exception returns with every directory of
\* the group empty, so that the group can be removed.
EmptyOnReturn ==
    [][\A g \in Guard :
         pc[g] = "wait" /\ pc'[g] # "wait" /\ ~failed'[g] =>
            \A h \in Hierarchy : member[h] = {}]_vars

\* The guard's destructor, which catches everything, never takes the program
\* down.
GuardNeverAborts == \A g \in Guard : pc[g] # "aborted"

\* Every call of terminate() returns.
Returns == \A g \in Guard : pc[g] = "write" ~> pc[g] \in {"armed", "destroyed"}
=============================================================================
