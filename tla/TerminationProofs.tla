-------------------------- MODULE TerminationProofs --------------------------
(* Proofs about Termination, for any tasks, hierarchies, guards, attachers. *)
EXTENDS Termination, TLAPS

\* Every reachable state of the freezer, the tasks and the guards is well
\* typed; the other proofs rest on it.
THEOREM TypeCorrect == Spec => []TypeOK
<1>1. Init => TypeOK
  <2> SUFFICES ASSUME Init PROVE TypeOK
    OBVIOUS
  <2>1. /\ status \in [Task -> {"free", "running", "zombie"}]
        /\ pc \in [Guard -> {"armed"}] /\ via \in [Guard -> {"call"}]
        /\ failed \in [Guard -> {FALSE}]
    BY DEF Init
  <2>2. /\ member \in [Hierarchy -> SUBSET Task]
        /\ attaching \in [Attacher -> SUBSET (Task \X Hierarchy)]
        /\ todo \in [Guard -> SUBSET Hierarchy]
        /\ listed \in [Guard -> SUBSET Task]
    BY DEF Init
  <2> QED
    BY <2>1, <2>2 DEF Init, TypeOK
<1>2. TypeOK /\ [Next]_vars => TypeOK'
  <2> SUFFICES ASSUME TypeOK, [Next]_vars PROVE TypeOK'
    OBVIOUS
  <2> USE HierarchyAssumption DEF TypeOK, TerminateSteps, FreezeSteps
  <2>1. ASSUME NEW t \in Task, TaskStep(t) PROVE TypeOK'
    <3>1. CASE TaskFreeze(t)
      BY <3>1 DEF TaskFreeze, guards
    <3>2. CASE Exit(t)
      BY <3>2 DEF Exit, guards
    <3>3. CASE Reap(t)
      BY <3>3 DEF Reap, guards
    <3>4. CASE Spawn(t)
      BY <3>4 DEF Spawn, guards
    <3>5. ASSUME NEW child \in Task, Fork(t, child) PROVE TypeOK'
      BY <3>5 DEF Fork, guards
    <3> QED
      BY <2>1, <3>1, <3>2, <3>3, <3>4, <3>5 DEF TaskStep
  <2>2. ASSUME NEW h \in Hierarchy, Remove(h) PROVE TypeOK'
    BY <2>2 DEF Remove, guards
  <2>3. ASSUME NEW a \in Attacher,
               AttachWrite(a) \/ \E t \in Task : AttachTask(a, t)
        PROVE TypeOK'
    <3>1. ASSUME NEW t \in Task, AttachTask(a, t) PROVE TypeOK'
      <4>1. {t} \X Hierarchy \in SUBSET (Task \X Hierarchy)
        OBVIOUS
      <4> QED
        BY <3>1, <4>1 DEF AttachTask, kernel, guards
    <3>2. CASE AttachWrite(a)
      <4> PICK t \in Task, h \in Hierarchy :
            /\ \/ /\ member' = [member EXCEPT ![h] = @ \union {t}]
                  /\ attaching' = [attaching EXCEPT ![a] = @ \ {<<t, h>>}]
               \/ attaching' = [attaching EXCEPT ![a] = {}] /\ UNCHANGED member
            /\ UNCHANGED <<status, exists, freezing, frozen, pending, guards>>
        BY <3>2 DEF AttachWrite
      <4>1. member' \in [Hierarchy -> SUBSET Task]
        OBVIOUS
      <4>2. attaching' \in [Attacher -> SUBSET (Task \X Hierarchy)]
        <5>1. attaching[a] \ {<<t, h>>} \in SUBSET (Task \X Hierarchy)
          OBVIOUS
        <5> QED
          BY <5>1
      <4> QED
        BY <4>1, <4>2 DEF guards
    <3> QED
      BY <2>3, <3>1, <3>2
  <2>4. ASSUME NEW g \in Guard, GuardCall(g) PROVE TypeOK'
    <3> USE DEF Goto, kernel
    <3>1. ASSUME NEW caller \in {"call", "dtor"}, Terminate(g, caller) PROVE TypeOK'
      BY <3>1 DEF Terminate
    <3>2. CASE Detach(g)
      BY <3>2 DEF Detach
    <3>3. CASE DestroyDetached(g)
      BY <3>3 DEF DestroyDetached
    <3>4. ASSUME NEW target \in Guard, MoveAssign(g, target) PROVE TypeOK'
      <4>1. /\ pc' = [pc EXCEPT ![g] = "detached", ![target] = pc[g]]
            /\ UNCHANGED <<kernel, attaching, via, todo, listed, failed>>
        BY <3>4 DEF MoveAssign
      <4> QED
        BY <4>1
    <3> QED
      BY <2>4, <3>1, <3>2, <3>3, <3>4 DEF GuardCall
  <2>0. ASSUME NEW g \in Guard, NEW h \in Hierarchy, ReadTasks(g, h)
        PROVE  /\ todo' \in [Guard -> SUBSET Hierarchy]
               /\ listed' \in [Guard -> SUBSET Task]
               /\ pc' = pc /\ failed' = failed
    <3>1. /\ todo[g] \ {h} \in SUBSET Hierarchy
          /\ listed[g] \union member[h] \in SUBSET Task
      OBVIOUS
    <3> QED
      BY <2>0, <3>1 DEF ReadTasks
  <2>5. ASSUME NEW g \in Guard, TerminateStep(g) PROVE TypeOK'
    <3> USE DEF Goto, Throw, Abort, Return, kernel
    <3>1. CASE WriteFrozen(g)
      BY <3>1 DEF WriteFrozen
    <3>2. CASE ConfirmFrozen(g)
      BY <3>2 DEF ConfirmFrozen
    <3>3. CASE List(g)
      <4>1. /\ todo' \in [Guard -> SUBSET Hierarchy]
            /\ listed' \in [Guard -> SUBSET Task]
            /\ failed' \in [Guard -> BOOLEAN]
        BY <2>0, <3>3 DEF List, ReadTasksFails
      <4>2. pc' = pc \/ pc' = [pc EXCEPT ![g] = "thaw"] \/ pc' = [pc EXCEPT ![g] = "kill"]
        BY <2>0, <3>3 DEF List
      <4> QED
        BY <3>3, <4>1, <4>2 DEF List
    <3>4. CASE Kill(g)
      <4>1. /\ pending' \in SUBSET Task /\ listed' \in [Guard -> SUBSET Task]
            /\ failed' \in [Guard -> BOOLEAN] /\ UNCHANGED todo
        <5>1. ASSUME NEW t \in listed[g],
                     pending' = pending \/ pending' = pending \union {t},
                     listed' = listed \/ listed' = [listed EXCEPT ![g] = @ \ {t}]
              PROVE  /\ pending' \in SUBSET Task
                     /\ listed' \in [Guard -> SUBSET Task]
          BY <5>1
        <5>2. /\ failed' \in [Guard -> BOOLEAN] /\ UNCHANGED todo
              /\ \/ UNCHANGED <<pending, listed>>
                 \/ \E t \in listed[g] :
                       /\ pending' = pending \/ pending' = pending \union {t}
                       /\ listed' = [listed EXCEPT ![g] = @ \ {t}]
          BY <3>4 DEF Kill, KillDone
        <5> QED
          BY <5>1, <5>2
      <4>2. pc' = pc \/ pc' = [pc EXCEPT ![g] = "thaw"]
        BY <3>4 DEF Kill, KillDone
      <4> QED
        BY <3>4, <4>1, <4>2 DEF Kill
    <3>5. CASE WriteThawed(g)
      BY <3>5 DEF WriteThawed
    <3>6. CASE ConfirmThawed(g)
      BY <3>6 DEF ConfirmThawed
    <3>7. CASE WaitEmpty(g)
      <4>1. /\ todo' \in [Guard -> SUBSET Hierarchy]
            /\ listed' \in [Guard -> SUBSET Task]
            /\ failed' \in [Guard -> BOOLEAN]
        <5>1. CASE \E h \in Hierarchy : ReadTasks(g, h)
          BY <2>0, <5>1
        <5>2. CASE ReadTasksFails(g) /\ failed' = [failed EXCEPT ![g] = TRUE]
          BY <5>2 DEF ReadTasksFails
        <5>3. CASE UNCHANGED <<todo, listed, failed>>
          BY <5>3
        <5>4. CASE /\ todo' = [todo EXCEPT ![g] = Hierarchy]
                   /\ listed' = [listed EXCEPT ![g] = {}]
                   /\ UNCHANGED failed
          BY <5>4
        <5> QED
          BY <3>7, <5>1, <5>2, <5>3, <5>4 DEF WaitEmpty
      <4>2. pc' = pc \/ Return(g)
        BY <2>0, <3>7 DEF WaitEmpty
      <4> QED
        BY <3>7, <4>1, <4>2 DEF WaitEmpty
    <3> QED
      BY <2>5, <3>1, <3>2, <3>3, <3>4, <3>5, <3>6, <3>7 DEF TerminateStep
  <2>6. CASE UNCHANGED vars
    BY <2>6 DEF vars, kernel, guards
  <2> QED
    BY <2>1, <2>2, <2>3, <2>4, <2>5, <2>6 DEF Next
<1> QED
  BY <1>1, <1>2, PTL DEF Spec

-----------------------------------------------------------------------------
(* The scope exit *)

\* Inductive: a freezing group still exists, and somebody will thaw it.
SomebodyThaws ==
    freezing => FreezerExists /\ \E g \in Guard : pc[g] \in FreezeSteps

\* No program, serial or not, leaves the group frozen with nobody inside
\* terminate_() to thaw it.
THEOREM FrozenHasOwner == Spec => []NobodyLeavesFrozen
<1>1. Init => SomebodyThaws
  BY DEF Init, SomebodyThaws
<1>2. TypeOK /\ SomebodyThaws /\ [Next]_vars => SomebodyThaws'
  <2> SUFFICES ASSUME TypeOK, SomebodyThaws, [Next]_vars, freezing'
               PROVE  FreezerExists' /\ \E g \in Guard : pc'[g] \in FreezeSteps
    BY DEF SomebodyThaws
  <2> USE HierarchyAssumption DEF FreezerExists
  \* A step that leaves the freezer alone and moves no guard out of the
  \* freeze steps keeps the owner.
  <2>0. ASSUME UNCHANGED <<exists, freezing>>,
               \A g \in Guard : pc[g] \in FreezeSteps => pc'[g] \in FreezeSteps
        PROVE  FreezerExists' /\ \E g \in Guard : pc'[g] \in FreezeSteps
    BY <2>0 DEF SomebodyThaws
  <2>1. ASSUME NEW t \in Task, TaskStep(t)
        PROVE  FreezerExists' /\ \E g \in Guard : pc'[g] \in FreezeSteps
    BY <2>0, <2>1 DEF TaskStep, TaskFreeze, Exit, Reap, Spawn, Fork, guards
  <2>2. ASSUME NEW h \in Hierarchy, Remove(h)
        PROVE  FreezerExists' /\ \E g \in Guard : pc'[g] \in FreezeSteps
    BY <2>2 DEF Remove, guards, SomebodyThaws
  <2>3. ASSUME NEW a \in Attacher,
               AttachWrite(a) \/ \E t \in Task : AttachTask(a, t)
        PROVE  FreezerExists' /\ \E g \in Guard : pc'[g] \in FreezeSteps
    BY <2>0, <2>3 DEF AttachWrite, AttachTask, kernel, guards
  <2>4. ASSUME NEW g \in Guard, GuardCall(g)
        PROVE  FreezerExists' /\ \E i \in Guard : pc'[i] \in FreezeSteps
    <3>1. UNCHANGED <<exists, freezing>>
      BY <2>4 DEF GuardCall, Terminate, Detach, DestroyDetached, MoveAssign, kernel
    <3>2. \A i \in Guard : pc[i] \in FreezeSteps => pc'[i] \in FreezeSteps
      BY <2>4 DEF GuardCall, Terminate, Detach, DestroyDetached, MoveAssign,
                  Goto, TypeOK, FreezeSteps
    <3> QED
      BY <2>0, <3>1, <3>2
  <2>5. ASSUME NEW g \in Guard, TerminateStep(g)
        PROVE  FreezerExists' /\ \E i \in Guard : pc'[i] \in FreezeSteps
    <3> USE DEF Goto, Throw, Abort, Return, TypeOK, FreezeSteps
    <3>1. CASE WriteFrozen(g)
      <4>1. pc'[g] \in FreezeSteps /\ exists' = exists
        BY <3>1 DEF WriteFrozen
      <4>2. FreezerExists
        BY <3>1 DEF WriteFrozen, SomebodyThaws
      <4> QED
        BY <4>1, <4>2
    <3>2. CASE ConfirmFrozen(g)
      BY <2>0, <3>2 DEF ConfirmFrozen, kernel
    <3>3. CASE List(g)
      BY <2>0, <3>3 DEF List, ReadTasks, ReadTasksFails, kernel
    <3>4. CASE Kill(g)
      <4>1. pc' = pc \/ pc' = [pc EXCEPT ![g] = "thaw"]
        BY <3>4 DEF Kill, KillDone
      <4> QED
        BY <2>0, <3>4, <4>1 DEF Kill
    <3>5. CASE WriteThawed(g)
      BY <3>5 DEF WriteThawed, SomebodyThaws
    <3>6. CASE ConfirmThawed(g)
      BY <2>0, <3>6 DEF ConfirmThawed, kernel
    <3>7. CASE WaitEmpty(g)
      <4>1. pc' = pc \/ Return(g)
        BY <3>7 DEF WaitEmpty, ReadTasks
      <4> QED
        BY <2>0, <3>7, <4>1 DEF WaitEmpty, kernel
    <3> QED
      BY <2>5, <3>1, <3>2, <3>3, <3>4, <3>5, <3>6, <3>7 DEF TerminateStep
  <2>6. CASE UNCHANGED vars
    BY <2>0, <2>6 DEF vars, kernel, guards
  <2> QED
    BY <2>1, <2>2, <2>3, <2>4, <2>5, <2>6 DEF Next
<1>3. SomebodyThaws => NobodyLeavesFrozen
  BY DEF SomebodyThaws, NobodyLeavesFrozen
<1> QED
  BY <1>1, <1>2, <1>3, TypeCorrect, PTL DEF Spec

-----------------------------------------------------------------------------
(* Freeze, list, kill, thaw, wait: the serial program *)

\* Steps of tasks: a task that is frozen or has SIGKILL pending cannot fork,
\* so the group of a caught call only shrinks.
LEMMA TaskKeepsCaught ==
  ASSUME TypeOK, SerialInv, NEW t \in Task, TaskStep(t)
  PROVE  SerialInv'
<1> USE HierarchyAssumption DEF SerialInv, TypeOK
<1>1. CASE TaskFreeze(t)
  BY <1>1 DEF TaskFreeze, OneCallAtATime, Inside, MembersRun, Caught, Doomed, guards
<1>2. CASE Exit(t)
  <2>1. OneCallAtATime' /\ MembersRun'
    BY <1>2 DEF Exit, OneCallAtATime, Inside, MembersRun, guards
  <2>2. ASSUME NEW g \in Guard PROVE Caught(g)'
    BY <1>2 DEF Exit, Caught, Doomed, guards
  <2> QED
    BY <2>1, <2>2
<1>3. CASE Reap(t)
  BY <1>3 DEF Reap, OneCallAtATime, Inside, MembersRun, Caught, Doomed, guards
<1>4. CASE Spawn(t)
  BY <1>4 DEF Spawn, OneCallAtATime, Inside, MembersRun, Caught, Doomed, guards
<1>5. ASSUME NEW child \in Task, Fork(t, child) PROVE SerialInv'
  <2>1. OneCallAtATime'
    BY <1>5 DEF Fork, OneCallAtATime, Inside, guards
  <2>2. MembersRun'
    BY <1>5 DEF Fork, MembersRun
  <2>3. ASSUME NEW g \in Guard PROVE Caught(g)'
    <3>1. ASSUME t \in member[FreezerHierarchy], pc[g] \in TerminateSteps,
                 ~(pc[g] = "thaw" /\ failed[g]), ~(pc[g] = "confirmThaw" /\ failed[g]),
                 pc[g] \notin {"write", "confirm", "recheck"}, ~(pc[g] = "wait" /\ failed[g])
          PROVE  FALSE
      BY <1>5, <3>1 DEF Fork, Caught, Doomed, TerminateSteps, FreezeSteps
    <3>2. t \notin member[FreezerHierarchy]
             => member'[FreezerHierarchy] = member[FreezerHierarchy]
      BY <1>5 DEF Fork
    <3>3. \A h \in Hierarchy : member[h] = {} => member'[h] = {}
      BY <1>5 DEF Fork
    <3> QED
      BY <1>5, <3>1, <3>2, <3>3 DEF Fork, Caught, Doomed, TerminateSteps,
         FreezeSteps, guards
  <2> QED
    BY <2>1, <2>2, <2>3
<1> QED
  BY <1>1, <1>2, <1>3, <1>4, <1>5 DEF TaskStep

\* Steps of the callers and of the release agent: nothing is attached, and no
\* second call starts, while one is inside terminate().
LEMMA CallKeepsCaught ==
  ASSUME TypeOK, SerialInv, Serial,
         \/ \E h \in Hierarchy : Remove(h)
         \/ \E a \in Attacher : AttachWrite(a) \/ \E t \in Task : AttachTask(a, t)
         \/ \E g \in Guard : GuardCall(g)
  PROVE  SerialInv'
<1> USE DEF SerialInv, TypeOK
<1>1. ASSUME NEW h \in Hierarchy, Remove(h) PROVE SerialInv'
  BY <1>1 DEF Remove, OneCallAtATime, Inside, MembersRun, Caught, Doomed, guards
<1>2. ASSUME NEW a \in Attacher, NEW t \in Task, AttachTask(a, t) PROVE SerialInv'
  BY <1>2 DEF AttachTask, MayCall, OneCallAtATime, Inside, MembersRun, Caught,
              Doomed, TerminateSteps, FreezeSteps, kernel, guards
<1>3. ASSUME NEW a \in Attacher, AttachWrite(a) PROVE SerialInv'
  <2>1. \A g \in Guard : ~Inside(g)
    BY <1>3 DEF AttachWrite, OneCallAtATime
  <2>2. MembersRun'
    BY <1>3 DEF AttachWrite, MembersRun
  <2>3. pc' = pc
    BY <1>3 DEF AttachWrite, guards
  <2> QED
    BY <2>1, <2>2, <2>3 DEF OneCallAtATime, Inside, Caught, Doomed,
       TerminateSteps, FreezeSteps
<1>4. ASSUME NEW g \in Guard, GuardCall(g) PROVE SerialInv'
  <2>1. MayCall /\ UNCHANGED <<kernel, attaching>>
    BY <1>4 DEF GuardCall, Terminate, Detach, DestroyDetached, MoveAssign
  <2>2. \A i \in Guard : pc'[i] \in TerminateSteps => i = g /\ pc'[i] = "write"
    BY <1>4, <2>1 DEF GuardCall, Terminate, Detach, DestroyDetached, MoveAssign,
                      MayCall, Inside, Goto, TerminateSteps, FreezeSteps
  <2>3. OneCallAtATime'
    BY <2>1, <2>2 DEF MayCall, OneCallAtATime, Inside, kernel
  <2>4. MembersRun'
    BY <2>1 DEF MembersRun, kernel
  <2> QED
    BY <2>2, <2>3, <2>4 DEF Caught, Doomed, TerminateSteps, FreezeSteps
<1> QED
  BY <1>1, <1>2, <1>3, <1>4

\* Steps of terminate() itself.  No other guard is inside, so only Caught(g)
\* of the moving guard needs an argument.
LEMMA StepKeepsCaught ==
  ASSUME TypeOK, SerialInv, NEW g \in Guard, TerminateStep(g)
  PROVE  SerialInv'
<1> USE HierarchyAssumption DEF SerialInv, TypeOK
<1> USE DEF Goto, Throw, Abort, Return
<1>1. /\ Inside(g)
      /\ UNCHANGED <<status, member, attaching>>
      /\ \A i \in Guard \ {g} : pc'[i] = pc[i]
  <2>1. CASE WriteFrozen(g)
    BY <2>1 DEF WriteFrozen, Inside, TerminateSteps, FreezeSteps
  <2>2. CASE ConfirmFrozen(g)
    BY <2>2 DEF ConfirmFrozen, kernel, Inside, TerminateSteps, FreezeSteps
  <2>3. CASE List(g)
    BY <2>3 DEF List, ReadTasks, kernel, Inside, TerminateSteps, FreezeSteps
  <2>4. CASE Kill(g)
    <3>1. pc' = pc \/ pc' = [pc EXCEPT ![g] = "thaw"]
      BY <2>4 DEF Kill, KillDone
    <3> QED
      BY <2>4, <3>1 DEF Kill, Inside, TerminateSteps, FreezeSteps
  <2>5. CASE WriteThawed(g)
    BY <2>5 DEF WriteThawed, Inside, TerminateSteps, FreezeSteps
  <2>6. CASE ConfirmThawed(g)
    BY <2>6 DEF ConfirmThawed, kernel, Inside, TerminateSteps, FreezeSteps
  <2>7. CASE WaitEmpty(g)
    <3>1. pc' = pc \/ Return(g)
      BY <2>7 DEF WaitEmpty, ReadTasks
    <3> QED
      BY <2>7, <3>1 DEF WaitEmpty, kernel, Inside, TerminateSteps
  <2> QED
    BY <2>1, <2>2, <2>3, <2>4, <2>5, <2>6, <2>7 DEF TerminateStep
<1>2. \A i \in Guard \ {g} : ~Inside(i)
  BY <1>1 DEF OneCallAtATime
<1>3. OneCallAtATime' /\ MembersRun'
  BY <1>1, <1>2 DEF OneCallAtATime, Inside, MembersRun
<1>4. \A i \in Guard \ {g} : Caught(i)'
  BY <1>1, <1>2 DEF Caught, Doomed, Inside, TerminateSteps, FreezeSteps
<1>5. Caught(g)'
  <2>1. CASE WriteFrozen(g)
    BY <2>1 DEF WriteFrozen, Caught, Doomed
  <2>2. CASE ConfirmFrozen(g)
    BY <2>2 DEF ConfirmFrozen, IsFrozen, FreezerState, kernel, Caught, Doomed
  <2>3. CASE List(g)
    <3>1. ASSUME NEW h \in Hierarchy, ReadTasks(g, h) PROVE Caught(g)'
      BY <2>3, <3>1 DEF List, ReadTasks, kernel, Caught, Doomed
    <3>2. CASE Throw(g) /\ UNCHANGED <<kernel, todo, listed>>
      BY <3>2 DEF kernel, Caught, Doomed
    <3>3. CASE AllRead(g) /\ Goto(g, "kill") /\ UNCHANGED <<kernel, todo, listed, failed>>
      BY <2>3, <3>3 DEF List, AllRead, kernel, Caught, Doomed
    <3> QED
      BY <2>3, <3>1, <3>2, <3>3 DEF List, ReadTasksFails
  <2>4. CASE Kill(g)
    <3>1. ASSUME NEW t \in listed[g], status[t] = "free", Throw(g)
          PROVE  Caught(g)'
      BY <3>1 DEF Caught, Doomed
    <3>2. ASSUME NEW t \in listed[g], status[t] # "free",
                 pending' = IF status[t] = "running"
                            THEN pending \union {t} ELSE pending,
                 listed' = [listed EXCEPT ![g] = @ \ {t}]
          PROVE  Caught(g)'
      <4>1. member[FreezerHierarchy] \subseteq listed'[g] \union pending'
        BY <2>4, <3>2 DEF Kill, Caught, MembersRun
      <4> QED
        BY <2>4, <3>2, <4>1, <1>1 DEF Kill, Caught, Doomed
    <3>3. CASE listed[g] = {} /\ KillDone(g) /\ UNCHANGED <<pending, failed>>
      BY <2>4, <3>3, <1>1 DEF Kill, KillDone, Caught, Doomed
    <3> QED
      BY <2>4, <3>1, <3>2, <3>3 DEF Kill
  <2>5. CASE WriteThawed(g)
    BY <2>5 DEF WriteThawed, Caught, Doomed
  <2>6. CASE ConfirmThawed(g)
    BY <2>6 DEF ConfirmThawed, kernel, Caught, Doomed
  <2>7. CASE WaitEmpty(g)
    <3>1. ASSUME NEW h \in Hierarchy, ReadTasks(g, h) PROVE Caught(g)'
      BY <2>7, <3>1 DEF WaitEmpty, ReadTasks, kernel, Caught, Doomed
    <3>2. CASE Return(g)
      BY <2>7, <3>2 DEF WaitEmpty, Caught, Doomed
    <3>3. CASE todo' = [todo EXCEPT ![g] = Hierarchy] /\ UNCHANGED <<pc, failed>>
      BY <2>7, <3>3 DEF WaitEmpty, kernel, Caught, Doomed
    <3> QED
      BY <2>7, <3>1, <3>2, <3>3 DEF WaitEmpty
  <2> QED
    BY <2>1, <2>2, <2>3, <2>4, <2>5, <2>6, <2>7 DEF TerminateStep
<1> QED
  BY <1>3, <1>4, <1>5

LEMMA SerialInvariant ==
  ASSUME Serial PROVE Spec => []SerialInv
<1>1. Init => SerialInv
  BY DEF Init, SerialInv, OneCallAtATime, Inside, MembersRun, Caught, Doomed,
         TerminateSteps, FreezeSteps
<1>2. TypeOK /\ SerialInv /\ [Next]_vars => SerialInv'
  <2> SUFFICES ASSUME TypeOK, SerialInv, [Next]_vars PROVE SerialInv'
    OBVIOUS
  <2>1. CASE UNCHANGED vars
    BY <2>1 DEF vars, kernel, guards, SerialInv, OneCallAtATime, Inside,
                MembersRun, Caught, Doomed
  <2> QED
    BY <2>1, TaskKeepsCaught, CallKeepsCaught, StepKeepsCaught DEF Next
<1> QED
  BY <1>1, <1>2, TypeCorrect, PTL DEF Spec

\* In a serial program, for any number of tasks, hierarchies and guards, every
\* task of the freezer's directory is killed before the group is thawed.
THEOREM NothingEscapes ==
  ASSUME Serial PROVE Spec => []NoEscape
<1>1. SerialInv => NoEscape
  BY DEF SerialInv, Caught, NoEscape
<1> QED
  BY <1>1, SerialInvariant, PTL

\* In a serial program a call that returns without an exception leaves every
\* directory of the group empty, partially attached tasks included.
THEOREM ReturnsEmpty ==
  ASSUME Serial PROVE Spec => EmptyOnReturn
<1>1. TypeOK /\ SerialInv /\ [Next]_vars =>
        [\A g \in Guard :
           pc[g] = "wait" /\ pc'[g] # "wait" /\ ~failed'[g] =>
              \A h \in Hierarchy : member[h] = {}]_vars
  <2> SUFFICES ASSUME TypeOK, SerialInv, Next, NEW g \in Guard,
                      pc[g] = "wait", pc'[g] # "wait", ~failed'[g]
               PROVE  \A h \in Hierarchy : member[h] = {}
    OBVIOUS
  <2>1. WaitEmpty(g)
    <3>1. ASSUME NEW i \in Guard, TerminateStep(i) PROVE i = g
      <4>1. Inside(g) /\ Inside(i)
        BY <3>1 DEF Inside, TerminateSteps, FreezeSteps, TerminateStep,
           WriteFrozen, ConfirmFrozen, List, Kill, WriteThawed, ConfirmThawed,
           WaitEmpty
      <4> QED
        BY <4>1 DEF SerialInv, OneCallAtATime
    <3>2. ASSUME NEW i \in Guard, GuardCall(i) PROVE FALSE
      BY <3>2 DEF GuardCall, Terminate, Detach, DestroyDetached, MoveAssign,
         Goto, TypeOK
    <3>3. ~\E t \in Task : TaskStep(t)
      BY DEF TaskStep, TaskFreeze, Exit, Reap, Spawn, Fork, guards
    <3>4. ~\E h \in Hierarchy : Remove(h)
      BY DEF Remove, guards
    <3>5. ~\E a \in Attacher : AttachWrite(a) \/ \E t \in Task : AttachTask(a, t)
      BY DEF AttachWrite, AttachTask, guards
    <3>6. TerminateStep(g)
      BY <3>1, <3>2, <3>3, <3>4, <3>5 DEF Next
    <3> QED
      BY <3>6 DEF TerminateStep, WriteFrozen, ConfirmFrozen, List, Kill,
                  WriteThawed, ConfirmThawed
  <2>2. AllRead(g) /\ NoneLeft(g)
    BY <2>1 DEF WaitEmpty, ReadTasks, TypeOK
  <2> QED
    BY <2>2 DEF AllRead, NoneLeft, SerialInv, Caught
<1> QED
  BY <1>1, SerialInvariant, TypeCorrect, PTL DEF Spec, EmptyOnReturn
-----------------------------------------------------------------------------
(* No exception, and the abstract specification *)

\* What is listed is frozen, so no listed task leaves the group before its kill.
Listed(g) ==
    /\ ~failed[g]
    /\ pc[g] \in {"list", "kill"} =>
          listed[g] \subseteq {t \in frozen \intersect member[FreezerHierarchy] : status[t] = "running"}
ListedInv == exists = Hierarchy /\ \A g \in Guard : Listed(g)

LEMMA StepKeepsListed ==
  ASSUME TypeOK, SerialInv, ListedInv, Hierarchy = {FreezerHierarchy},
         NEW g \in Guard, TerminateStep(g)
  PROVE  ListedInv'
<1> USE DEF TypeOK, ListedInv, Goto, Return
<1>1. \A i \in Guard \ {g} : ~Inside(i)
  BY DEF SerialInv, OneCallAtATime, TerminateStep, WriteFrozen, ConfirmFrozen, List, Kill,
         WriteThawed, ConfirmThawed, WaitEmpty, Inside, TerminateSteps, FreezeSteps
<1>2. exists' = exists /\ status' = status
  BY DEF TerminateStep, WriteFrozen, ConfirmFrozen, List, Kill, WriteThawed, ConfirmThawed,
         WaitEmpty, kernel
<1>3. FreezerExists
  BY DEF FreezerExists
<1>4. ~failed'[g] /\ \A i \in Guard \ {g} : failed'[i] = failed[i] /\ pc'[i] = pc[i]
  <2>1. CASE WriteFrozen(g) BY <1>3, <2>1 DEF WriteFrozen, Listed
  <2>2. CASE ConfirmFrozen(g) BY <1>3, <2>2 DEF ConfirmFrozen, Listed
  <2>3. CASE List(g) BY <2>3 DEF List, ReadTasks, ReadTasksFails, Listed
  <2>4. CASE Kill(g)
    <3>1. \A t \in listed[g] : status[t] # "free" BY <2>4 DEF Kill, Listed
    <3>2. failed' = failed /\ (pc' = pc \/ pc' = [pc EXCEPT ![g] = "thaw"])
      BY <2>4, <3>1 DEF Kill, KillDone
    <3> QED BY <3>2 DEF Listed
  <2>5. CASE WriteThawed(g) BY <1>3, <2>5 DEF WriteThawed, Listed
  <2>6. CASE ConfirmThawed(g) BY <1>3, <2>6 DEF ConfirmThawed, Listed
  <2>7. CASE WaitEmpty(g)
    <3>1. ~ReadTasksFails(g) BY DEF ReadTasksFails
    <3>2. failed' = failed /\ (pc' = pc \/ Return(g))
      BY <2>7, <3>1 DEF WaitEmpty, ReadTasks
    <3> QED BY <3>2 DEF Listed
  <2> QED
    BY <2>1, <2>2, <2>3, <2>4, <2>5, <2>6, <2>7 DEF TerminateStep
<1>5. \A i \in Guard \ {g} : Listed(i)'
  BY <1>1, <1>4 DEF Listed, Inside, TerminateSteps, FreezeSteps
<1>6. Listed(g)'
  <2> SUFFICES ASSUME pc'[g] \in {"list", "kill"}
               PROVE  listed'[g] \subseteq
                        {t \in frozen' \intersect member'[FreezerHierarchy] : status'[t] = "running"}
    BY <1>4 DEF Listed
  <2>1. CASE ConfirmFrozen(g)
    <3>1. pc'[g] = "list" => listed'[g] = {} BY <1>3, <2>1 DEF ConfirmFrozen
    <3>2. pc'[g] # "kill" BY <1>3, <2>1 DEF ConfirmFrozen
    <3> QED BY <3>1, <3>2
  <2>2. CASE List(g)
    <3>1. \A t \in member[FreezerHierarchy] : t \in frozen /\ status[t] = "running"
      BY <2>2 DEF List, SerialInv, Caught, MembersRun
    <3>2. listed'[g] \subseteq listed[g] \union member[FreezerHierarchy]
      BY <2>2 DEF List, ReadTasks, ReadTasksFails
    <3>3. frozen' = frozen /\ member' = member BY <2>2 DEF List, kernel
    <3>4. listed[g] \subseteq {t \in frozen \intersect member[FreezerHierarchy] : status[t] = "running"}
      BY <2>2 DEF List, Listed
    <3> QED BY <1>2, <3>1, <3>2, <3>3, <3>4
  <2>3. CASE Kill(g)
    <3>1. listed'[g] \subseteq listed[g] /\ frozen' = frozen /\ member' = member BY <2>3 DEF Kill
    <3> QED BY <1>2, <2>3, <3>1 DEF Kill, Listed
  <2> QED
    BY <2>1, <2>2, <2>3
    DEF TerminateStep, WriteFrozen, Throw, WriteThawed, Abort, ConfirmThawed, WaitEmpty,
        ReadTasks
<1> QED
  BY <1>2, <1>5, <1>6

LEMMA ListedInvariant ==
  ASSUME Serial, ~ReleaseAgent, Hierarchy = {FreezerHierarchy}
  PROVE  Spec => []ListedInv
<1>1. Init => ListedInv
  BY DEF Init, ListedInv, Listed
<1>2. TypeOK /\ SerialInv /\ ListedInv /\ [Next]_vars => ListedInv'
  <2> SUFFICES ASSUME TypeOK, SerialInv, ListedInv, [Next]_vars PROVE ListedInv'
    OBVIOUS
  <2> USE DEF TypeOK, ListedInv
  <2>1. ASSUME NEW t \in Task, TaskStep(t) PROVE ListedInv'
    <3>1. /\ UNCHANGED <<exists, guards>> /\ frozen \subseteq frozen'
          /\ \A s \in frozen : s \in member[FreezerHierarchy] /\ status[s] = "running" =>
                              s \in member'[FreezerHierarchy] /\ status'[s] = "running"
      BY <2>1, HierarchyAssumption DEF TaskStep, TaskFreeze, Exit, Reap, Spawn, Fork
    <3> QED
      BY <3>1 DEF Listed, guards
  <2>2. ~\E h \in Hierarchy : Remove(h)
    BY DEF Remove
  <2>3. CASE \E a \in Attacher : AttachWrite(a) \/ \E t \in Task : AttachTask(a, t)
    <3>1. UNCHANGED <<status, exists, frozen, guards>>
      BY <2>3 DEF AttachWrite, AttachTask, kernel
    <3>2. \/ UNCHANGED member
          \/ \E t \in Task, h \in Hierarchy : member' = [member EXCEPT ![h] = @ \union {t}]
      BY <2>3 DEF AttachWrite, AttachTask, kernel
    <3>3. member[FreezerHierarchy] \subseteq member'[FreezerHierarchy]
      BY <3>2, HierarchyAssumption
    <3> QED
      BY <3>1, <3>3 DEF Listed, guards
  <2>4. ASSUME NEW g \in Guard, GuardCall(g) PROVE ListedInv'
    <3>1. UNCHANGED <<kernel, listed>> /\ \A i \in Guard : ~failed'[i]
      BY <2>4 DEF GuardCall, Terminate, Detach, DestroyDetached, MoveAssign, Listed
    <3>2. \A i \in Guard : pc'[i] \in {"list", "kill"} => pc[i] = pc'[i]
      BY <2>4 DEF GuardCall, Terminate, Detach, DestroyDetached, MoveAssign, Goto
    <3> QED
      BY <3>1, <3>2 DEF Listed, kernel
  <2>5. CASE UNCHANGED vars
    BY <2>5 DEF vars, kernel, guards, Listed
  <2> QED
    BY <2>1, <2>2, <2>3, <2>4, <2>5, StepKeepsListed DEF Next
<1> QED
  BY <1>1, <1>2, SerialInvariant, TypeCorrect, PTL DEF Spec

\* In a serial program, terminate() of a group with one hierarchy that nobody
\* else removes throws nothing, for any number of tasks and guards.
THEOREM NothingIsThrown ==
  ASSUME Serial, ~ReleaseAgent, Hierarchy = {FreezerHierarchy}
  PROVE  Spec => []NeverThrows
<1>1. ListedInv => NeverThrows
  BY DEF ListedInv, Listed, NeverThrows
<1> QED
  BY <1>1, ListedInvariant, PTL

\* And its SIGKILL goes to members of the group only: no listed pid has been
\* reused when it is killed.
THEOREM OnlyMembersAreKilled ==
  ASSUME Serial, ~ReleaseAgent, Hierarchy = {FreezerHierarchy}
  PROVE  Spec => NoStrayKill
<1>1. TypeOK /\ ListedInv /\ [Next]_vars =>
        [\A t \in pending' \ pending : \E h \in Hierarchy : t \in member[h]]_vars
  <2> SUFFICES ASSUME TypeOK, ListedInv, Next, NEW t \in pending' \ pending
               PROVE  t \in member[FreezerHierarchy]
    OBVIOUS
  <2>1. ~\E s \in Task : TaskStep(s)
    BY DEF TaskStep, TaskFreeze, Exit, Reap, Spawn, Fork
  <2>2. ~\E h \in Hierarchy : Remove(h)
    BY DEF Remove
  <2>3. ~\E a \in Attacher : AttachWrite(a) \/ \E s \in Task : AttachTask(a, s)
    BY DEF AttachWrite, AttachTask, kernel
  <2>4. PICK g \in Guard : Kill(g)
    BY <2>1, <2>2, <2>3 DEF Next, GuardCall, Terminate, Detach, DestroyDetached, MoveAssign,
       TerminateStep, WriteFrozen, ConfirmFrozen, List, WriteThawed, ConfirmThawed, WaitEmpty,
       kernel
  <2>5. t \in listed[g] /\ pc[g] = "kill"
    BY <2>4 DEF Kill
  <2> QED
    BY <2>5 DEF ListedInv, Listed
<1> QED
  BY <1>1, ListedInvariant, TypeCorrect, PTL DEF Spec, NoStrayKill
\* A closed group loses tasks only: those of the freezer's directory all have
\* SIGKILL pending and fork no more.
LEMMA TaskMapsToShutdown ==
  ASSUME TypeOK, SerialInv, NEW t \in Task, TaskStep(t)
  PROVE  Shutdown!Change \/ Shutdown!Shrink \/ UNCHANGED Shutdown!vars
<1> DEFINE group == member[FreezerHierarchy]
           closing == \E g \in Guard : Doomed(g)
<1> USE HierarchyAssumption DEF TypeOK
<1>1. group' \in SUBSET Task /\ UNCHANGED <<pc, failed>>
  BY DEF TaskStep, TaskFreeze, Exit, Reap, Spawn, Fork, guards
<1>2. closing' <=> closing
  BY <1>1 DEF Doomed
<1>3. ASSUME closing PROVE group' \subseteq group
  <2> PICK g \in Guard : Doomed(g) BY <1>3
  <2>1. group \subseteq pending BY DEF SerialInv, Caught
  <2> QED BY <2>1 DEF TaskStep, TaskFreeze, Exit, Reap, Spawn, Fork
<1>4. \/ ~closing /\ group' \in SUBSET Task
      \/ closing /\ group' \in (SUBSET group) \ {group}
      \/ group' = group
  <2> HIDE DEF group
  <2>1. CASE closing BY <1>3, <2>1
  <2>2. CASE ~closing BY <1>1, <2>2
  <2> QED BY <2>1, <2>2
<1> HIDE DEF group, closing
<1> QED
  BY <1>2, <1>4 DEF Shutdown!Change, Shutdown!Shrink, Shutdown!vars, group, closing

LEMMA StepMapsToShutdown ==
  ASSUME TypeOK, SerialInv, exists = Hierarchy, NEW g \in Guard, TerminateStep(g)
  PROVE  Shutdown!Close \/ Shutdown!Return \/ UNCHANGED Shutdown!vars
<1> DEFINE group == member[FreezerHierarchy]
           closing == \E i \in Guard : Doomed(i)
<1> USE HierarchyAssumption DEF TypeOK
<1>1. \A i \in Guard \ {g} : ~Inside(i)
  BY DEF SerialInv, OneCallAtATime, TerminateStep, WriteFrozen, ConfirmFrozen, List, Kill,
         WriteThawed, ConfirmThawed, WaitEmpty, Inside, TerminateSteps, FreezeSteps
<1>2. closing => Doomed(g)
  BY <1>1 DEF Inside, Doomed, TerminateSteps, FreezeSteps
<1>3. UNCHANGED member /\ \A i \in Guard \ {g} : pc'[i] = pc[i]
  <2> USE DEF Goto, Throw, Abort, Return
  <2>1. CASE Kill(g)
    <3>1. pc' = pc \/ pc' = [pc EXCEPT ![g] = "thaw"] BY <2>1 DEF Kill, KillDone
    <3> QED BY <2>1, <3>1 DEF Kill
  <2>2. CASE WaitEmpty(g)
    <3>1. pc' = pc \/ Return(g) BY <2>2 DEF WaitEmpty, ReadTasks
    <3> QED BY <2>2, <3>1 DEF WaitEmpty, kernel
  <2> QED
    BY <2>1, <2>2 DEF TerminateStep, WriteFrozen, ConfirmFrozen, List, ReadTasks, WriteThawed,
                      ConfirmThawed, kernel
<1>4. closing' => Doomed(g)'
  BY <1>1, <1>3 DEF Inside, Doomed, TerminateSteps, FreezeSteps
<1>5. Doomed(g) => Doomed(g)' \/ group = {}
  <2> SUFFICES ASSUME Doomed(g) PROVE Doomed(g)' \/ group = {} OBVIOUS
  <2>1. CASE WriteThawed(g) BY <2>1 DEF WriteThawed, FreezerExists, Goto, Doomed
  <2>2. CASE ConfirmThawed(g) BY <2>2 DEF ConfirmThawed, FreezerExists, Goto, Doomed
  <2>3. CASE WaitEmpty(g)
    <3>1. ~ReadTasksFails(g) BY DEF ReadTasksFails
    <3>2. CASE AllRead(g) /\ NoneLeft(g)
      BY <2>3, <3>2 DEF WaitEmpty, AllRead, NoneLeft, SerialInv, Caught
    <3>3. CASE UNCHANGED <<pc, failed>> BY <3>3 DEF Doomed
    <3> QED BY <2>3, <3>1, <3>2, <3>3 DEF WaitEmpty, ReadTasks
  <2> QED
    BY <2>1, <2>2, <2>3 DEF TerminateStep, WriteFrozen, ConfirmFrozen, List, Kill, Doomed
<1> HIDE DEF group
<1>6. closing /\ ~closing' => group = {}
  BY <1>2, <1>5
<1>7. closing \in BOOLEAN /\ closing' \in BOOLEAN
  OBVIOUS
<1>8. group' = group
  BY <1>3 DEF group
<1> HIDE DEF closing
<1> QED
  BY <1>6, <1>7, <1>8
  DEF Shutdown!Close, Shutdown!Return, Shutdown!vars, group, closing

\* In a serial program whose directories nobody else removes, terminate() only
\* does to the group what GroupShutdown allows, for any tasks, hierarchies and
\* guards.
THEOREM TerminateImplementsShutdown ==
  ASSUME Serial, ~ReleaseAgent PROVE Spec => Shutdown!Spec
<1>1. Init => Shutdown!Init /\ exists = Hierarchy
  BY HierarchyAssumption DEF Init, Shutdown!Init, Doomed
<1>2. exists = Hierarchy /\ [Next]_vars => (exists = Hierarchy)'
  BY DEF Next, vars, kernel, guards, TaskStep, TaskFreeze, Exit, Reap, Spawn, Fork, Remove,
         AttachWrite, AttachTask, GuardCall, Terminate, Detach, DestroyDetached, MoveAssign,
         TerminateStep, WriteFrozen, ConfirmFrozen, List, Kill, WriteThawed, ConfirmThawed,
         WaitEmpty
<1>3. TypeOK /\ SerialInv /\ exists = Hierarchy /\ [Next]_vars => [Shutdown!Next]_(Shutdown!vars)
  <2> SUFFICES ASSUME TypeOK, SerialInv, exists = Hierarchy, [Next]_vars
               PROVE  Shutdown!Next \/ UNCHANGED Shutdown!vars
    OBVIOUS
  <2> USE DEF Shutdown!Next, TypeOK
  <2>1. ASSUME NEW t \in Task, TaskStep(t)
        PROVE Shutdown!Next \/ UNCHANGED Shutdown!vars
    BY <2>1, TaskMapsToShutdown
  <2>2. ASSUME NEW g \in Guard, TerminateStep(g)
        PROVE Shutdown!Next \/ UNCHANGED Shutdown!vars
    BY <2>2, StepMapsToShutdown
  <2>3. ASSUME NEW a \in Attacher, AttachWrite(a)
        PROVE Shutdown!Next \/ UNCHANGED Shutdown!vars
    <3>1. \A g \in Guard : ~Inside(g)
      BY <2>3 DEF AttachWrite, SerialInv, OneCallAtATime
    <3>2. ~\E g \in Guard : Doomed(g)
      BY <3>1 DEF Inside, Doomed, TerminateSteps, FreezeSteps
    <3>3. UNCHANGED <<pc, failed>> /\ member'[FreezerHierarchy] \in SUBSET Task
      BY <2>3, HierarchyAssumption DEF AttachWrite, guards
    <3> QED BY <3>2, <3>3 DEF Shutdown!Change, Doomed
  <2>4. ASSUME UNCHANGED member, \A g \in Guard : Doomed(g) <=> Doomed(g)'
        PROVE UNCHANGED Shutdown!vars
    BY <2>4 DEF Shutdown!vars
  <2>5. CASE \E a \in Attacher, t \in Task : AttachTask(a, t)
    BY <2>4, <2>5 DEF AttachTask, kernel, guards, Doomed
  <2>6. ASSUME NEW g \in Guard, GuardCall(g) PROVE UNCHANGED Shutdown!vars
    <3>1. MayCall /\ UNCHANGED member
      BY <2>6 DEF GuardCall, Terminate, Detach, DestroyDetached, MoveAssign, kernel
    <3>2. \A i \in Guard : ~Doomed(i)
      BY <3>1 DEF MayCall, Inside, Doomed, TerminateSteps, FreezeSteps
    <3>3. \A i \in Guard : pc'[i] \notin {"thaw", "confirmThaw", "wait"}
      BY <2>6, <3>1 DEF GuardCall, Terminate, Detach, DestroyDetached, MoveAssign, Goto,
                        MayCall, Inside, TerminateSteps, FreezeSteps
    <3> QED BY <2>4, <3>1, <3>2, <3>3 DEF Doomed
  <2>7. ~\E h \in Hierarchy : Remove(h)
    BY DEF Remove
  <2>8. CASE UNCHANGED vars
    BY <2>4, <2>8 DEF vars, kernel, guards, Doomed
  <2> QED
    BY <2>1, <2>2, <2>3, <2>5, <2>6, <2>7, <2>8 DEF Next
<1> QED
  BY <1>1, <1>2, <1>3, SerialInvariant, TypeCorrect, PTL DEF Spec, Shutdown!Spec
=============================================================================
