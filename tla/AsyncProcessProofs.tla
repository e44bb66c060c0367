------------------------- MODULE AsyncProcessProofs -------------------------
(* Proofs about AsyncProcess, for any objects, process ids and output. *)
EXTENDS AsyncProcess, TLAPS

\* A call runs on an object that has a child, collects the output of one that
\* has a result, and waits for or kills the child of one that has none.
Calls == \A h \in Handle :
    /\ pid[h] = None => result[h] = None /\ pc[h] = "idle"
    /\ pc[h] = "collect" => result[h] # None
    /\ pc[h] \in {"kill", "waitpid"} => result[h] = None

Typed == TypeOK /\ Calls

\* What a call that is over does to its object.
LEMMA FinishTyped ==
    ASSUME Typed, NEW h \in Handle, Finish(h), UNCHANGED <<proc, ours, doomed, stdout, file, call>>
    PROVE Typed'
BY ModeAssumption DEF Finish, Goto, Typed, TypeOK, Calls

LEMMA CollectableTyped ==
    ASSUME Typed, NEW h \in Handle, Collectable(h) PROVE Typed' /\ result'[h] # None
<1> USE DEF Typed, TypeOK
<1>1. pid[h] \in Pid /\ stdout[pid[h]] \in Handle \union {None} BY DEF Collectable
<1> DEFINE status == [of |-> stdout[pid[h]], out |-> None]
<1>2. status \in Result BY <1>1 DEF Result
<1>3. status # None
  <2>1. status \in [of : Handle \union {None}, out : Nat \union {None}] BY <1>1
  <2> QED BY <2>1, NoneAssumption
<1>4. result' = [result EXCEPT ![h] = status] BY DEF Collectable
<1> HIDE DEF status
<1>5. TypeOK' BY <1>1, <1>2, <1>4 DEF Collectable, Reaped, Goto
<1>6. Calls' BY <1>1, <1>3, <1>4, NoneAssumption DEF Collectable, Goto, Calls
<1> QED BY <1>3, <1>4, <1>5, <1>6

LEMMA NotOursTyped == ASSUME Typed, NEW h \in Handle, NotOurs(h) PROVE Typed'
BY FinishTyped DEF NotOurs

LEMMA ProcessTyped == ASSUME Typed, NEW p \in Pid, ProcessStep(p) PROVE Typed'
<1> USE DEF Typed, TypeOK, Calls, kernel, handles
<1>1. CASE Write(p)
  <2>1. stdout[p] \in Handle => written' \in [Handle -> 0..MaxOutput]
    BY <1>1, ModeAssumption DEF Write
  <2>2. stdout[p] \notin Handle => written' = written
    BY <1>1 DEF Write
  <2> QED BY <1>1, <2>1, <2>2 DEF Write
<1>2. CASE Exit(p) BY <1>2 DEF Exit
<1>3. CASE ReapElsewhere(p) BY <1>3 DEF ReapElsewhere, Reaped
<1>4. CASE Spawn(p) BY <1>4 DEF Spawn
<1> QED BY <1>1, <1>2, <1>3, <1>4 DEF ProcessStep

LEMMA KillTyped == ASSUME Typed, NEW h \in Handle, Kill(h) PROVE Typed'
<1> USE DEF Typed, TypeOK, Calls
<1>1. doomed' \in SUBSET Pid BY DEF Kill
<1>2. pc' = [pc EXCEPT ![h] = "waitpid"] /\ result[h] = None /\ pid[h] # None
  BY DEF Kill, AfterKill, Goto
<1> QED BY <1>1, <1>2 DEF Kill, AfterKill

LEMMA PollTyped == ASSUME Typed, NEW h \in Handle, PollPid(h) PROVE Typed'
<1>1. CASE result[h] # None BY <1>1, FinishTyped DEF PollPid
<1>2. CASE result[h] = None /\ (NotOurs(h) \/ Collectable(h))
  BY <1>2, NotOursTyped, CollectableTyped
<1>3. CASE pc[h] = "poll" /\ result[h] = None /\ StillRunning(h)
           /\ UNCHANGED <<pid, result, written, proc, ours, doomed, stdout, file, call>>
  BY <1>3 DEF Typed, TypeOK, Calls, StillRunning, Goto
<1> QED BY <1>1, <1>2, <1>3, FinishTyped DEF PollPid

LEMMA CollectTyped == ASSUME Typed, NEW h \in Handle, CollectOutput(h) PROVE Typed'
<1>1. CASE call[h] = "dtor" BY <1>1, FinishTyped DEF CollectOutput
<1>2. CASE call[h] # "dtor" /\ result' = [result EXCEPT ![h].out = ReadAll(h)]
  <2> USE DEF Typed, TypeOK, Calls
  <2> DEFINE complete == [result[h] EXCEPT !.out = ReadAll(h)]
  <2>1. pc[h] = "collect" /\ result[h] \in Result BY DEF CollectOutput
  <2>2. complete \in Result BY <2>1 DEF Result, ReadAll
  <2>3. complete # None
    <3>1. complete \in [of : Handle \union {None}, out : Nat \union {None}]
      BY <2>2, ModeAssumption DEF Result
    <3> QED BY <3>1, NoneAssumption
  <2>4. result' = [result EXCEPT ![h] = complete] BY <1>2
  <2> HIDE DEF complete
  <2> QED BY <1>2, <2>1, <2>2, <2>3, <2>4 DEF CollectOutput, Goto
<1>3. CASE call[h] # "dtor" /\ UNCHANGED result
  BY <1>3 DEF CollectOutput, Goto, Typed, TypeOK, Calls
<1> QED BY <1>1, <1>2, <1>3 DEF CollectOutput

LEMMA StartTyped == ASSUME Typed, NEW h \in Handle, NEW p \in Pid, Start(h, p) PROVE Typed'
BY NoneAssumption DEF Start, Idle, Valid, Typed, TypeOK, Calls

LEMMA SwapTyped == ASSUME Typed, NEW g \in Handle, NEW h \in Handle, Swap(g, h) PROVE Typed'
BY DEF Swap, Exchange, Idle, kernel, Typed, TypeOK, Calls

LEMMA CallTyped ==
    ASSUME Typed, NEW h \in Handle, NEW function \in {"wait", "poll", "stop", "dtor"},
           Call(h, function)
    PROVE Typed'
BY DEF Call, Goto, Entry, Valid, kernel, Typed, TypeOK, Calls

LEMMA InitTyped == Init => Typed
BY ModeAssumption DEF Init, Typed, TypeOK, Calls

LEMMA NextTyped == Typed /\ [Next]_vars => Typed'
<1> SUFFICES ASSUME Typed, [Next]_vars PROVE Typed' OBVIOUS
<1>1. ASSUME NEW h \in Handle, Step(h) PROVE Typed'
  BY <1>1, NotOursTyped, CollectableTyped, PollTyped, KillTyped, CollectTyped DEF Step, WaitPid
<1>2. CASE UNCHANGED vars BY <1>2 DEF vars, kernel, handles, Typed, TypeOK, Calls
<1> QED BY <1>1, <1>2, ProcessTyped, StartTyped, SwapTyped, CallTyped DEF Next

\* Every reachable state is well typed, whoever else waits for children.
THEOREM TypeCorrect == Spec => []TypeOK
BY InitTyped, NextTyped, PTL DEF Spec, Typed

-----------------------------------------------------------------------------
(* Objects and their children, when no other code waits for any child *)

\* An object without a result has a child, which writes to the object's file;
\* the files tell the objects apart, and every child has its object.
Owners ==
    /\ \A g, h \in Handle : file[g] = file[h] => g = h
    /\ \A p \in ours : proc[p] # "free" /\ \E h \in Handle : pid[h] = p /\ result[h] = None
    /\ \A h \in Handle : pid[h] # None /\ result[h] = None =>
          pid[h] \in ours /\ stdout[pid[h]] = file[h]

\* A result is final: nobody writes to its file any more.
Results == \A h \in Handle : result[h] # None =>
    result[h].of = file[h] /\ (result[h].out # None => result[h].out = written[file[h]])

LEMMA InitOwners == Init => Owners /\ Results
BY DEF Init, Owners, Results

\* Two objects without a result have different children.
LEMMA OneOwner ==
    ASSUME Owners, NEW g \in Handle, NEW h \in Handle, pid[g] = pid[h], pid[g] # None,
           result[g] = None, result[h] = None
    PROVE g = h
BY DEF Owners

\* Only an object that has its result is done for good.
LEMMA FinishOwners ==
    ASSUME Typed, Owners, Results, NEW h \in Handle, Finish(h),
           call[h] = "dtor" => result[h] # None,
           UNCHANGED <<proc, ours, stdout, file>>
    PROVE Owners' /\ Results'
<1> USE DEF Typed, TypeOK
<1>1. CASE call[h] # "dtor" BY <1>1 DEF Finish, Owners, Results
<1>2. CASE call[h] = "dtor"
  <2>1. /\ pid' = [pid EXCEPT ![h] = None] /\ result' = [result EXCEPT ![h] = None]
        /\ written' = [written EXCEPT ![file[h]] = 0] /\ result[h] # None
    BY <1>2 DEF Finish
  <2>2. Owners' BY <2>1 DEF Owners
  <2>3. Results' BY <2>1 DEF Results, Owners
  <2> QED BY <2>2, <2>3
<1> QED BY <1>1, <1>2

\* A child that is waited for passes into the result of its object.
LEMMA CollectableOwners ==
    ASSUME Typed, Owners, Results, NEW h \in Handle, result[h] = None, Collectable(h)
    PROVE Owners' /\ Results'
<1> USE DEF Typed, TypeOK
<1> DEFINE p == pid[h]
           status == [of |-> stdout[p], out |-> None]
<1>1. p \in Pid /\ p # None /\ p \in ours BY NoneAssumption DEF Collectable
<1>2. /\ proc' = [proc EXCEPT ![p] = "free"] /\ ours' = ours \ {p}
      /\ stdout' = [stdout EXCEPT ![p] = None] /\ result' = [result EXCEPT ![h] = status]
      /\ UNCHANGED <<doomed, written, pid, file>>
  BY DEF Collectable, Reaped
<1>3. result'[h] # None BY CollectableTyped
<1>4. \A g \in Handle : pid[g] = p /\ result[g] = None => g = h BY <1>1, OneOwner
<1>5. status.of = file[h] /\ status.out = None BY <1>1 DEF Owners
<1> HIDE DEF status
<1>6. Owners' BY <1>1, <1>2, <1>3, <1>4 DEF Owners
<1>7. Results' BY <1>2, <1>3, <1>5 DEF Results
<1> QED BY <1>6, <1>7

LEMMA ProcessOwners ==
    ASSUME ~ForeignReaper, Typed, Owners, Results, NEW p \in Pid, ProcessStep(p)
    PROVE Owners' /\ Results'
<1> USE DEF Typed, TypeOK, handles
<1>1. CASE Write(p)
  <2>1. Owners' BY <1>1 DEF Write, Owners
  <2>2. PICK g \in Handle : pid[g] = p /\ result[g] = None /\ stdout[p] = file[g]
    BY <1>1, NoneAssumption DEF Write, Owners
  <2>3. \A h \in Handle : result[h] # None => written'[file[h]] = written[file[h]]
    BY <1>1, <2>2 DEF Write, Owners
  <2> QED BY <1>1, <2>1, <2>3 DEF Write, Results
<1>2. CASE Exit(p) BY <1>2 DEF Exit, Owners, Results
<1>3. CASE ReapElsewhere(p)
  <2>1. p \notin ours BY <1>3 DEF ReapElsewhere
  <2> QED BY <1>3, <2>1 DEF ReapElsewhere, Reaped, Owners, Results
<1>4. CASE Spawn(p) BY <1>4 DEF Spawn, Owners, Results
<1> QED BY <1>1, <1>2, <1>3, <1>4 DEF ProcessStep

LEMMA StepOwners ==
    ASSUME Typed, Owners, Results, NEW h \in Handle, Step(h) PROVE Owners' /\ Results'
<1> USE DEF Typed, TypeOK, Calls
<1>1. CASE WaitPid(h)
  <2>1. result[h] = None /\ pid[h] # None BY <1>1 DEF WaitPid
  <2>2. ~NotOurs(h) BY <2>1 DEF NotOurs, Owners
  <2> QED BY <1>1, <2>1, <2>2, CollectableOwners DEF WaitPid
<1>2. CASE PollPid(h)
  <2>0. pid[h] # None /\ pc[h] = "poll" BY <1>2 DEF PollPid
  <2>1. CASE result[h] # None BY <1>2, <2>1, FinishOwners DEF PollPid
  <2>2. CASE result[h] = None /\ (NotOurs(h) \/ Collectable(h))
    BY <2>0, <2>2, CollectableOwners DEF NotOurs, Owners
  <2>3. CASE call[h] = "poll" /\ Finish(h) /\ UNCHANGED <<proc, ours, stdout, file>>
    BY <2>3, FinishOwners
  <2>4. CASE UNCHANGED <<pid, result, written, proc, ours, stdout, file>>
    BY <2>4 DEF Owners, Results
  <2> QED BY <1>2, <2>1, <2>2, <2>3, <2>4 DEF PollPid
<1>3. CASE Kill(h) BY <1>3 DEF Kill, AfterKill, Owners, Results
<1>4. CASE CollectOutput(h)
  <2>0. pc[h] = "collect" /\ result[h] # None /\ result[h] \in Result
    BY <1>4 DEF CollectOutput
  <2>1. CASE call[h] = "dtor" BY <1>4, <2>0, <2>1, FinishOwners DEF CollectOutput
  <2>2. CASE call[h] # "dtor" /\ result' = [result EXCEPT ![h].out = ReadAll(h)]
    <3> DEFINE complete == [result[h] EXCEPT !.out = ReadAll(h)]
    <3>1. complete.of = file[h] /\ complete.out = written[file[h]]
      BY <2>0 DEF Result, Results, ReadAll
    <3>2. complete # None
      <4>1. complete \in [of : Handle \union {None}, out : Nat \union {None}]
        BY <2>0, ModeAssumption DEF Result, ReadAll
      <4> QED BY <4>1, NoneAssumption
    <3>3. result' = [result EXCEPT ![h] = complete] BY <2>2
    <3>4. UNCHANGED <<pid, written, proc, ours, stdout, file>> BY <1>4, <2>2 DEF CollectOutput
    <3> HIDE DEF complete
    <3>5. Owners' BY <2>0, <3>2, <3>3, <3>4 DEF Owners
    <3>6. Results' BY <3>1, <3>3, <3>4 DEF Results
    <3> QED BY <3>5, <3>6
  <2>3. CASE call[h] # "dtor" /\ UNCHANGED result
    BY <1>4, <2>3 DEF CollectOutput, Owners, Results
  <2> QED BY <1>4, <2>1, <2>2, <2>3 DEF CollectOutput
<1> QED BY <1>1, <1>2, <1>3, <1>4 DEF Step

LEMMA StartOwners ==
    ASSUME Typed, Owners, Results, NEW h \in Handle, NEW p \in Pid, Start(h, p)
    PROVE Owners' /\ Results'
<1> USE DEF Typed, TypeOK, Calls
<1>1. /\ pid[h] = None /\ result[h] = None /\ p \notin ours /\ p # None
      /\ \A g \in Handle : pid[g] # None /\ result[g] = None => pid[g] # p
  BY NoneAssumption DEF Start, Valid, Owners
<1>2. /\ proc' = [proc EXCEPT ![p] = "running"] /\ ours' = ours \union {p}
      /\ stdout' = [stdout EXCEPT ![p] = file[h]] /\ pid' = [pid EXCEPT ![h] = p]
      /\ UNCHANGED <<file, result, written>>
  BY DEF Start
<1>3. Owners'
  <2>1. ASSUME NEW q \in ours'
        PROVE proc'[q] # "free" /\ \E k \in Handle : pid'[k] = q /\ result'[k] = None
    <3>1. CASE q = p BY <1>1, <1>2, <3>1
    <3>2. CASE q # p
      <4> PICK k \in Handle : pid[k] = q /\ result[k] = None BY <1>2, <2>1, <3>2 DEF Owners
      <4>1. k # h BY <1>1, <2>1, <1>2, <3>2, NoneAssumption
      <4> QED BY <1>2, <2>1, <3>2, <4>1 DEF Owners
    <3> QED BY <3>1, <3>2
  <2>2. ASSUME NEW k \in Handle, pid'[k] # None, result'[k] = None
        PROVE pid'[k] \in ours' /\ stdout'[pid'[k]] = file'[k]
    BY <1>1, <1>2, <2>2 DEF Owners
  <2> QED BY <1>2, <2>1, <2>2 DEF Owners
<1>4. Results' BY <1>2 DEF Results
<1> QED BY <1>3, <1>4

LEMMA SwapOwners ==
    ASSUME Typed, Owners, Results, NEW g \in Handle, NEW h \in Handle, Swap(g, h)
    PROVE Owners' /\ Results'
<1> USE DEF Typed, TypeOK
<1> DEFINE other == [k \in Handle |-> IF k = g THEN h ELSE IF k = h THEN g ELSE k]
<1>0. \A k \in Handle : other[k] \in Handle /\ other[other[k]] = k OBVIOUS
<1>1. /\ \A k \in Handle : /\ pid'[k] = pid[other[k]] /\ file'[k] = file[other[k]]
                            /\ result'[k] = result[other[k]]
      /\ UNCHANGED <<proc, ours, stdout, written>>
  BY DEF Swap, Exchange, kernel
<1> HIDE DEF other
<1>2. Owners'
  <2>1. ASSUME NEW p \in ours'
        PROVE proc'[p] # "free" /\ \E k \in Handle : pid'[k] = p /\ result'[k] = None
    <3>1. p \in ours BY <1>1, <2>1
    <3> PICK k \in Handle : pid[k] = p /\ result[k] = None BY <3>1 DEF Owners
    <3>2. pid'[other[k]] = p /\ result'[other[k]] = None BY <1>0, <1>1
    <3> QED BY <1>0, <1>1, <3>1, <3>2 DEF Owners
  <2> QED BY <1>0, <1>1, <2>1 DEF Owners
<1>3. Results' BY <1>0, <1>1 DEF Results
<1> QED BY <1>2, <1>3

LEMMA NextOwners ==
    ASSUME ~ForeignReaper PROVE Typed /\ Owners /\ Results /\ [Next]_vars => (Owners /\ Results)'
<1> SUFFICES ASSUME Typed, Owners, Results, [Next]_vars PROVE Owners' /\ Results' OBVIOUS
<1>1. ASSUME NEW h \in Handle, NEW function \in {"wait", "poll", "stop", "dtor"},
             Call(h, function)
      PROVE Owners' /\ Results'
  BY <1>1 DEF Call, kernel, Owners, Results
<1>2. CASE UNCHANGED vars BY <1>2 DEF vars, kernel, handles, Owners, Results
<1> QED BY <1>1, <1>2, ProcessOwners, StartOwners, StepOwners, SwapOwners DEF Next

LEMMA OwnersInvariant == ASSUME ~ForeignReaper PROVE Spec => [](Typed /\ Owners /\ Results)
BY InitTyped, NextTyped, InitOwners, NextOwners, PTL DEF Spec

\* No child is forgotten, whatever is moved, polled, stopped and destroyed, as
\* long as no other code waits for it.
THEOREM ChildrenHaveOwners == ASSUME ~ForeignReaper PROVE Spec => []EveryChildHasOwner
<1>1. Typed /\ Owners => EveryChildHasOwner
  BY NoneAssumption DEF Typed, TypeOK, Owners, EveryChildHasOwner
<1> QED BY <1>1, OwnersInvariant, PTL

\* A result is that of the object's own child with all its output, through any
\* moves, as long as no other code waits for the child.
THEOREM ResultsAreComplete == ASSUME ~ForeignReaper PROVE Spec => []ResultIsComplete
<1>1. Results => ResultIsComplete BY DEF Results, ResultIsComplete
<1> QED BY <1>1, OwnersInvariant, PTL

\* SIGKILL is sent to an object's own child that has not been waited for.
THEOREM KillsOwnChild == ASSUME ~ForeignReaper PROVE Spec => OnlyOwnChildKilled
<1> DEFINE OwnChild == \A p \in doomed' \ doomed :
      \E h \in Handle : pid[h] = p /\ p \in ours /\ stdout[p] = file[h]
<1>1. Typed /\ Owners /\ [Next]_vars => [OwnChild]_vars
  <2> SUFFICES ASSUME Typed, Owners, [Next]_vars, NEW p \in doomed' \ doomed
               PROVE \E h \in Handle : pid[h] = p /\ p \in ours /\ stdout[p] = file[h]
    OBVIOUS
  <2>1. PICK h \in Handle : Kill(h)
    BY DEF Next, ProcessStep, Write, Exit, ReapElsewhere, Spawn, Start, Step, WaitPid, NotOurs,
           Collectable, PollPid, CollectOutput, Swap, Call, kernel, vars
  <2>2. p = pid[h] /\ pc[h] = "kill" BY <2>1 DEF Kill
  <2>3. pid[h] # None /\ result[h] = None BY <2>2 DEF Typed, Calls
  <2> QED BY <2>2, <2>3 DEF Owners
<1> QED BY <1>1, OwnersInvariant, PTL DEF Spec, OnlyOwnChildKilled

-----------------------------------------------------------------------------
(* AsyncProcess implements ChildProcesses *)

\* A signal is pending only for a child that runs.
DoomedRun == doomed \subseteq Running

LEMMA InitDoomed == Init => DoomedRun
BY DEF Init, DoomedRun

LEMMA NextDoomed ==
    ASSUME ~ForeignReaper PROVE Typed /\ Owners /\ DoomedRun /\ [Next]_vars => DoomedRun'
<1> SUFFICES ASSUME Typed, Owners, DoomedRun, [Next]_vars PROVE DoomedRun' OBVIOUS
<1> USE DEF Typed, TypeOK, DoomedRun, Running
<1>1. ASSUME NEW p \in Pid, ProcessStep(p) PROVE DoomedRun'
  BY <1>1 DEF ProcessStep, Write, Exit, ReapElsewhere, Reaped, Spawn
<1>2. ASSUME NEW h \in Handle, NEW p \in Pid, Start(h, p) PROVE DoomedRun'
  BY <1>2 DEF Start
<1>3. ASSUME NEW h \in Handle, Collectable(h) PROVE DoomedRun'
  BY <1>3 DEF Collectable, Reaped
<1>4. ASSUME NEW h \in Handle, Kill(h) PROVE DoomedRun'
  <2>1. pid[h] # None /\ result[h] = None BY <1>4 DEF Kill, Calls
  <2>2. pid[h] \in ours BY <2>1 DEF Owners
  <2> QED BY <1>4, <2>2 DEF Kill
<1>5. CASE UNCHANGED <<proc, ours, doomed>> BY <1>5
<1>6. ASSUME NEW h \in Handle, Step(h) PROVE DoomedRun'
  BY <1>3, <1>4, <1>5, <1>6 DEF Step, WaitPid, PollPid, CollectOutput, NotOurs
<1>7. ASSUME NEW g \in Handle, NEW h \in Handle, Swap(g, h) PROVE DoomedRun'
  BY <1>5, <1>7 DEF Swap, kernel
<1>8. ASSUME NEW h \in Handle, NEW function \in {"wait", "poll", "stop", "dtor"},
             Call(h, function)
      PROVE DoomedRun'
  BY <1>5, <1>8 DEF Call, kernel
<1>9. CASE UNCHANGED vars BY <1>5, <1>9 DEF vars, kernel
<1> QED BY <1>1, <1>2, <1>6, <1>7, <1>8, <1>9 DEF Next

\* All that the mapping rests on.
Inv == Typed /\ Owners /\ Results /\ DoomedRun

\* The children have files of their own, and nobody has a report on them yet.
LEMMA FilesApart ==
    ASSUME Inv
    PROVE /\ \A p \in ours : p \in Pid /\ stdout[p] \in Handle
          /\ \A p, q \in ours : stdout[p] = stdout[q] => p = q
          /\ \A p \in ours, h \in Handle : result[h] # None => stdout[p] # file[h]
<1> USE NoneAssumption DEF Inv, Typed, TypeOK
<1>1. \A p \in ours : \E g \in Handle : pid[g] = p /\ result[g] = None /\ stdout[p] = file[g]
  BY DEF Owners
<1> QED BY <1>1 DEF Owners

\* What the mapping makes of results.
Reports == {<<file[h], result[h]>> : h \in {g \in Handle : result[g] # None}}

LEMMA ReportedAre ==
    ASSUME Inv
    PROVE \A c : c \in Children!Reported <=> \E h \in Handle : result[h] # None /\ file[h] = c
<1> SUFFICES ASSUME NEW c
             PROVE c \in {r[1] : r \in Reports} <=>
                      \E h \in Handle : result[h] # None /\ file[h] = c
  BY DEF Children!Reported, Reports
<1>1. \A r : r \in Reports <=> \E h \in Handle : result[h] # None /\ r = <<file[h], result[h]>>
  BY DEF Reports
<1>2. \A h \in Handle : <<file[h], result[h]>>[1] = file[h] OBVIOUS
<1>3. ASSUME NEW r \in Reports, c = r[1]
      PROVE \E h \in Handle : result[h] # None /\ file[h] = c
  BY <1>1, <1>2, <1>3
<1>4. ASSUME NEW h \in Handle, result[h] # None, file[h] = c
      PROVE \E r \in Reports : c = r[1]
  <2>1. <<file[h], result[h]>> \in Reports BY <1>1, <1>4
  <2>2. c = <<file[h], result[h]>>[1] BY <1>2, <1>4
  <2> QED BY <2>1, <2>2
<1>5. c \in {r[1] : r \in Reports} <=> \E r \in Reports : c = r[1] BY Zenon
<1> QED BY <1>3, <1>4, <1>5

\* The program's children are the same, and so are their states.
LEMMA SameChildren ==
    ASSUME UNCHANGED <<proc, ours, doomed, stdout>>
    PROVE UNCHANGED <<Files(Running), Files(ours \ Running), Files(doomed)>>
BY DEF Files, Running

LEMMA SameReports == ASSUME UNCHANGED <<file, result>> PROVE UNCHANGED Reports
BY DEF Reports

\* A step that maps to none.
LEMMA Stutters ==
    ASSUME UNCHANGED <<proc, ours, doomed, stdout, written, file, result>>
    PROVE UNCHANGED Children!vars
BY SameChildren, SameReports DEF Children!vars, Reports

LEMMA WriteMaps == ASSUME Inv, NEW p \in Pid, Write(p) PROVE Children!Write(stdout[p])
<1>1. UNCHANGED <<proc, ours, doomed, stdout, file, result>> BY DEF Write, handles
<1>2. p \in Running BY DEF Write, Running
<1>3. stdout[p] \in Files(Running) BY <1>2 DEF Files
<1> QED BY <1>1, <1>3, SameChildren, SameReports DEF Write, Children!Write, Reports

LEMMA ExitMaps ==
    ASSUME Inv, NEW p \in Pid, Exit(p)
    PROVE (p \in ours /\ Children!Exit(stdout[p])) \/ UNCHANGED Children!vars
<1> USE DEF Inv, Typed, TypeOK
<1>1. /\ proc[p] = "running" /\ proc' = [proc EXCEPT ![p] = "zombie"]
      /\ doomed' = doomed \ {p} /\ UNCHANGED <<ours, stdout, written, file, result>>
  BY DEF Exit, handles
<1>2. UNCHANGED Reports BY <1>1, SameReports
<1>3. CASE p \notin ours
  <2>1. Running' = Running /\ doomed' = doomed BY <1>1, <1>3 DEF Running, DoomedRun
  <2>2. UNCHANGED <<Files(Running), Files(ours \ Running), Files(doomed)>>
    BY <1>1, <2>1 DEF Files
  <2> QED BY <1>1, <1>2, <2>2 DEF Children!vars, Reports
<1>4. CASE p \in ours
  <2>1. p \in Running /\ Running' = Running \ {p} /\ Running \subseteq ours
    BY <1>1, <1>4 DEF Running
  <2>2. \A q \in ours : stdout[q] = stdout[p] => q = p BY <1>4, FilesApart
  <2>3. Files(Running)' = Files(Running) \ {stdout[p]} BY <1>1, <2>1, <2>2 DEF Files
  <2>4. Files(doomed)' = Files(doomed) \ {stdout[p]}
    BY <1>1, <2>1, <2>2 DEF Files, DoomedRun
  <2>5. (ours \ Running)' = (ours \ Running) \union {p} BY <1>1, <1>4, <2>1
  <2>6. Files(ours \ Running)' = Files(ours \ Running) \union {stdout[p]}
    BY <1>1, <2>5 DEF Files
  <2>7. stdout[p] \in Files(Running) BY <2>1 DEF Files
  <2> QED BY <1>1, <1>2, <1>4, <2>3, <2>4, <2>6, <2>7 DEF Children!Exit, Reports
<1> QED BY <1>3, <1>4

\* Strangers come, and go when it is no child of the program that is reaped.
LEMMA StrangerMaps ==
    ASSUME Inv, NEW p \in Pid, p \notin ours, NEW state, proc' = [proc EXCEPT ![p] = state],
           stdout' = stdout \/ stdout' = [stdout EXCEPT ![p] = None],
           UNCHANGED <<ours, doomed, written, file, result>>
    PROVE UNCHANGED Children!vars
<1> USE DEF Inv, Typed, TypeOK
<1>1. \A q \in ours : proc'[q] = proc[q] /\ stdout'[q] = stdout[q] OBVIOUS
<1>2. Running' = Running /\ Running \subseteq ours BY <1>1 DEF Running
<1>3. UNCHANGED <<Files(Running), Files(ours \ Running), Files(doomed)>>
  BY <1>1, <1>2 DEF Files, DoomedRun
<1> QED BY <1>3, SameReports DEF Children!vars, Reports

LEMMA StartMaps ==
    ASSUME Inv, NEW h \in Handle, NEW p \in Pid, Start(h, p),
           NEW c \in Handle, c = file[h]
    PROVE Children!Start(c)
<1> USE DEF Inv, Typed, TypeOK
<1>1. /\ pid[h] = None /\ result[h] = None /\ proc[p] = "free"
      /\ proc' = [proc EXCEPT ![p] = "running"] /\ ours' = ours \union {p}
      /\ stdout' = [stdout EXCEPT ![p] = file[h]]
      /\ UNCHANGED <<doomed, written, file, result>>
  BY DEF Start, Valid, Calls
<1>2. p \notin ours BY <1>1 DEF Owners
<1>3. \A q \in ours : stdout[q] # file[h]
  <2>1. \A q \in ours : \E g \in Handle : pid[g] = q /\ q # None /\ stdout[q] = file[g]
    BY NoneAssumption DEF Owners
  <2> QED BY <1>1, <2>1 DEF Owners
<1>4. \A q \in ours : proc'[q] = proc[q] /\ stdout'[q] = stdout[q] BY <1>1, <1>2
<1>5. proc'[p] = "running" /\ stdout'[p] = file[h] BY <1>1
<1>6. Running' = Running \union {p} /\ Running \subseteq ours
  BY <1>1, <1>2, <1>4, <1>5 DEF Running
<1>7. (ours \ Running)' = ours \ Running BY <1>1, <1>2, <1>6
<1>8. Files(Running)' = Files(Running) \union {file[h]} BY <1>4, <1>5, <1>6 DEF Files
<1>9. Files(ours \ Running)' = Files(ours \ Running) BY <1>4, <1>7 DEF Files
<1>10. Files(doomed)' = Files(doomed) BY <1>1, <1>4, <1>6 DEF Files, DoomedRun
<1>11. file[h] \notin Files(Running) \union Files(ours \ Running)
  BY <1>3, <1>6 DEF Files
<1>12. file[h] \notin Children!Reported BY <1>1, ReportedAre DEF Owners
<1> QED BY <1>1, <1>8, <1>9, <1>10, <1>11, <1>12, SameReports DEF Children!Start, Reports

LEMMA CollectableMaps ==
    ASSUME Inv, NEW h \in Handle, result[h] = None, Collectable(h),
           NEW c \in Handle, c = file[h]
    PROVE Children!WaitFor(c)
<1> USE DEF Inv, Typed, TypeOK
<1> DEFINE p == pid[h]
           status == [of |-> file[h], out |-> None]
<1>1. p \in Pid /\ p # None /\ p \in ours /\ proc[p] = "zombie"
  BY NoneAssumption DEF Collectable
<1>2. stdout[p] = file[h] BY <1>1 DEF Owners
<1>3. /\ proc' = [proc EXCEPT ![p] = "free"] /\ ours' = ours \ {p}
      /\ stdout' = [stdout EXCEPT ![p] = None] /\ result' = [result EXCEPT ![h] = status]
      /\ UNCHANGED <<doomed, written, file>>
  BY <1>2 DEF Collectable, Reaped
<1>4. status # None
  <2>1. result'[h] # None BY CollectableTyped
  <2> QED BY <1>3, <2>1
<1> HIDE DEF p, status
<1>5. \A q \in ours' : q \in ours /\ q # p /\ proc'[q] = proc[q] /\ stdout'[q] = stdout[q]
  BY <1>3
<1>6. Running' = Running /\ Running \subseteq ours /\ p \in ours \ Running
      /\ p \notin Running
  BY <1>1, <1>3, <1>5 DEF Running
<1>7. \A q \in ours : stdout[q] = stdout[p] => q = p BY <1>1, FilesApart
<1>8. Files(Running)' = Files(Running) BY <1>3, <1>5, <1>6 DEF Files
<1>9. Files(doomed)' = Files(doomed) BY <1>3, <1>5, <1>6 DEF Files, DoomedRun
<1>10. (ours \ Running)' = (ours \ Running) \ {p} BY <1>3, <1>6
<1>11. Files(ours \ Running)' = Files(ours \ Running) \ {file[h]}
  BY <1>2, <1>5, <1>6, <1>7, <1>10 DEF Files
<1>12. file[h] \in Files(ours \ Running) BY <1>2, <1>6 DEF Files
<1>13. Reports' = Reports \union {<<file[h], status>>} BY <1>3, <1>4 DEF Reports
<1>14. Children!Report(file[h], None) = <<file[h], status>> BY DEF Children!Report, status
<1> QED BY <1>3, <1>8, <1>9, <1>11, <1>12, <1>13, <1>14 DEF Children!WaitFor, Reports

LEMMA CompleteMaps ==
    ASSUME Inv, NEW h \in Handle, result[h] # None, result[h].out = None,
           result' = [result EXCEPT ![h].out = ReadAll(h)],
           UNCHANGED <<proc, ours, doomed, stdout, written, file>>,
           NEW c \in Handle, c = file[h]
    PROVE Children!Collect(c)
<1> USE DEF Inv, Typed, TypeOK
<1> DEFINE old == [of |-> file[h], out |-> None]
           new == [of |-> file[h], out |-> written[file[h]]]
<1>1. result[h] \in Result /\ result[h] = old BY DEF Results, Result
<1>2. result' = [result EXCEPT ![h] = new]
  <2>1. [result[h] EXCEPT !.out = ReadAll(h)] = new BY <1>1 DEF ReadAll
  <2>2. result' = [result EXCEPT ![h] = [result[h] EXCEPT !.out = ReadAll(h)]] OBVIOUS
  <2> QED BY <2>1, <2>2
<1>3. new # None
  <2>1. new \in [of : Handle \union {None}, out : Nat \union {None}] BY ModeAssumption
  <2> QED BY <2>1, NoneAssumption
<1> HIDE DEF old, new
<1>4. \A g \in Handle : file[g] = file[h] => g = h BY DEF Owners
<1>5. <<file[h], old>> \in Reports BY <1>1 DEF Reports
<1>6. Reports' = (Reports \ {<<file[h], old>>}) \union {<<file[h], new>>}
  BY <1>1, <1>2, <1>3, <1>4 DEF Reports
<1>7. /\ Children!Report(file[h], None) = <<file[h], old>>
      /\ Children!Report(file[h], written[file[h]]) = <<file[h], new>>
  BY DEF Children!Report, old, new
<1> QED BY <1>5, <1>6, <1>7, SameChildren DEF Children!Collect, Reports

LEMMA FinishMaps ==
    ASSUME Inv, NEW h \in Handle, Finish(h), call[h] = "dtor" => result[h] # None,
           UNCHANGED <<proc, ours, doomed, stdout, file>>,
           NEW c \in Handle, c = file[h]
    PROVE Children!Forget(c) \/ UNCHANGED Children!vars
<1> USE DEF Inv, Typed, TypeOK
<1>1. CASE call[h] # "dtor" BY <1>1, Stutters DEF Finish
<1>2. CASE call[h] = "dtor"
  <2>1. /\ result' = [result EXCEPT ![h] = None] /\ result[h] # None
        /\ written' = [written EXCEPT ![file[h]] = 0]
    BY <1>2 DEF Finish
  <2>2. \A g \in Handle : file[g] = file[h] => g = h BY DEF Owners
  <2>3. Reports' = {r \in Reports : r[1] # file[h]} BY <2>1, <2>2 DEF Reports
  <2>4. file[h] \in Children!Reported BY <2>1, ReportedAre
  <2> QED BY <2>1, <2>3, <2>4, SameChildren DEF Children!Forget, Reports
<1> QED BY <1>1, <1>2

\* Moves exchange whole children.
LEMMA SwapMaps ==
    ASSUME Inv, NEW g \in Handle, NEW h \in Handle, Swap(g, h) PROVE UNCHANGED Children!vars
<1> USE DEF Inv, Typed, TypeOK
<1> DEFINE other == [k \in Handle |-> IF k = g THEN h ELSE IF k = h THEN g ELSE k]
<1>0. \A k \in Handle : other[k] \in Handle /\ other[other[k]] = k OBVIOUS
<1>1. /\ \A k \in Handle : file'[k] = file[other[k]] /\ result'[k] = result[other[k]]
      /\ UNCHANGED <<proc, ours, doomed, stdout, written>>
  BY DEF Swap, Exchange, kernel
<1> HIDE DEF other
<1>2. ASSUME NEW r PROVE r \in Reports' <=> r \in Reports
  <2>1. r \in Reports <=> \E k \in Handle : result[k] # None /\ r = <<file[k], result[k]>>
    BY DEF Reports
  <2>2. r \in Reports' <=> \E k \in Handle : result'[k] # None /\ r = <<file'[k], result'[k]>>
    BY DEF Reports
  <2> QED BY <1>0, <1>1, <2>1, <2>2
<1>3. Reports' = Reports BY <1>2
<1> QED BY <1>1, <1>3, SameChildren DEF Children!vars, Reports

LEMMA CollectMaps ==
    ASSUME Inv, NEW h \in Handle, CollectOutput(h),
           NEW c \in Handle, c = file[h]
    PROVE \/ Children!Collect(c) \/ Children!Forget(c) \/ UNCHANGED Children!vars
<1> USE DEF Inv, Typed, TypeOK
<1>1. /\ result[h] # None /\ result[h] \in Result
      /\ UNCHANGED <<proc, ours, doomed, stdout, file>>
  BY DEF CollectOutput, Calls
<1>2. CASE call[h] = "dtor" BY <1>1, <1>2, FinishMaps DEF CollectOutput
<1>3. CASE call[h] # "dtor" /\ result' = [result EXCEPT ![h].out = ReadAll(h)]
  <2>1. UNCHANGED written BY <1>3 DEF CollectOutput
  <2>2. CASE result[h].out = None BY <1>1, <1>3, <2>1, <2>2, CompleteMaps
  <2>3. CASE result[h].out # None
    <3>1. [result[h] EXCEPT !.out = ReadAll(h)] = result[h]
      BY <1>1, <2>3 DEF Results, Result, ReadAll
    <3>2. result' = [result EXCEPT ![h] = [result[h] EXCEPT !.out = ReadAll(h)]] BY <1>3
    <3>3. result' = result BY <3>1, <3>2
    <3> QED BY <1>1, <2>1, <3>3, Stutters
  <2> QED BY <2>2, <2>3
<1>4. CASE call[h] # "dtor" /\ UNCHANGED result
  BY <1>1, <1>4, Stutters DEF CollectOutput
<1> QED BY <1>2, <1>3, <1>4 DEF CollectOutput

LEMMA StepMaps ==
    ASSUME Inv, NEW h \in Handle, Step(h) PROVE [Children!Next]_(Children!vars)
<1> USE DEF Inv, Typed, TypeOK
<1> PICK c \in Handle : c = file[h] OBVIOUS
<1>0. ASSUME \/ Children!Kill(c) \/ Children!WaitFor(c) \/ Children!Collect(c)
             \/ Children!Forget(c) \/ UNCHANGED Children!vars
      PROVE [Children!Next]_(Children!vars)
  <2>1. ASSUME Children!Kill(c) \/ Children!WaitFor(c) \/ Children!Collect(c) \/ Children!Forget(c)
        PROVE Children!Next
    BY <2>1 DEF Children!Next
  <2> QED BY <1>0, <2>1
<1>2. CASE result[h] = None /\ pid[h] # None /\ (NotOurs(h) \/ Collectable(h))
  <2>1. ~NotOurs(h) BY <1>2 DEF NotOurs, Owners
  <2> QED BY <1>0, <1>2, <2>1, CollectableMaps
<1>3. CASE WaitPid(h) BY <1>2, <1>3 DEF WaitPid, Calls
<1>4. CASE PollPid(h)
  <2>1. pid[h] # None BY <1>4 DEF PollPid, Calls
  <2>2. CASE result[h] # None
    <3>1. Finish(h) /\ UNCHANGED <<proc, ours, doomed, stdout, file>> BY <1>4, <2>2 DEF PollPid
    <3> QED BY <1>0, <2>2, <3>1, FinishMaps
  <2>3. CASE result[h] = None /\ (NotOurs(h) \/ Collectable(h)) BY <1>2, <2>1, <2>3
  <2>4. CASE call[h] = "poll" /\ Finish(h) /\ UNCHANGED <<proc, ours, doomed, stdout, file>>
    BY <1>0, <2>4, FinishMaps
  <2>5. CASE UNCHANGED <<pid, result, written, proc, ours, doomed, stdout, file>>
    BY <2>5, <1>0, Stutters
  <2> QED BY <1>4, <2>2, <2>3, <2>4, <2>5 DEF PollPid
<1>5. CASE Kill(h)
  <2>1. /\ pid[h] # None /\ result[h] = None
        /\ UNCHANGED <<proc, ours, stdout, written, file, result>>
    BY <1>5 DEF Kill, AfterKill, Calls
  <2>2. CASE UNCHANGED doomed BY <2>1, <2>2, <1>0, Stutters
  <2>3. CASE proc[pid[h]] = "running" /\ doomed' = doomed \union {pid[h]}
    <3>1. pid[h] \in ours /\ stdout[pid[h]] = file[h] BY <2>1 DEF Owners
    <3>2. file[h] \in Files(Running) BY <2>3, <3>1 DEF Files, Running
    <3>3. Files(doomed)' = Files(doomed) \union {file[h]} BY <2>1, <2>3, <3>1 DEF Files
    <3>4. UNCHANGED <<Files(Running), Files(ours \ Running)>> BY <2>1 DEF Files, Running
    <3>5. Children!Kill(c)
      BY <2>1, <3>2, <3>3, <3>4, SameReports DEF Children!Kill, Reports
    <3> QED BY <1>0, <3>5
  <2> QED BY <1>5, <2>2, <2>3 DEF Kill
<1>6. CASE CollectOutput(h) BY <1>0, <1>6, CollectMaps
<1> QED BY <1>3, <1>4, <1>5, <1>6 DEF Step

LEMMA InitMaps == Init => Children!Init
BY NoneAssumption DEF Init, Children!Init, Files, Running

LEMMA NextMaps == ASSUME ~ForeignReaper PROVE Inv /\ [Next]_vars => [Children!Next]_(Children!vars)
<1> SUFFICES ASSUME Inv, [Next]_vars PROVE [Children!Next]_(Children!vars) OBVIOUS
<1>0. /\ \A h \in Handle : file[h] \in Handle
      /\ \A p \in ours : stdout[p] \in Handle
  BY FilesApart DEF Inv, Typed, TypeOK
<1>1. ASSUME NEW p \in Pid, ProcessStep(p) PROVE [Children!Next]_(Children!vars)
  <2>1. CASE Write(p)
    <3>1. p \in ours BY <2>1 DEF Write
    <3> QED BY <1>0, <2>1, <3>1, WriteMaps DEF Children!Next
  <2>2. CASE Exit(p) BY <1>0, <2>2, ExitMaps DEF Children!Next
  <2>3. CASE ReapElsewhere(p)
    BY <2>3, StrangerMaps DEF ReapElsewhere, Reaped, handles, Inv, Typed, TypeOK
  <2>4. CASE Spawn(p)
    <3>1. p \notin ours BY <2>4 DEF Spawn, Inv, Owners
    <3> QED BY <2>4, <3>1, StrangerMaps DEF Spawn, handles
  <2> QED BY <1>1, <2>1, <2>2, <2>3, <2>4 DEF ProcessStep
<1>2. ASSUME NEW h \in Handle, NEW p \in Pid, Start(h, p) PROVE [Children!Next]_(Children!vars)
  <2> PICK c \in Handle : c = file[h] BY <1>0
  <2>1. Children!Start(c) BY <1>2, StartMaps
  <2> QED BY <2>1 DEF Children!Next
<1>3. ASSUME NEW h \in Handle, NEW function \in {"wait", "poll", "stop", "dtor"},
             Call(h, function)
      PROVE [Children!Next]_(Children!vars)
  BY <1>3, Stutters DEF Call, kernel
<1>4. CASE UNCHANGED vars BY <1>4, Stutters DEF vars, kernel, handles
<1> QED BY <1>1, <1>2, <1>3, <1>4, StepMaps, SwapMaps DEF Next

\* A program that knows no pids and no moves sees the same children: each is
\* one process, waited for exactly once and killed only while it runs, and what
\* is reported of it is true, as long as no other code waits for it.
THEOREM ChildrenAreWhole == ASSUME ~ForeignReaper PROVE Spec => ImplementsChildren
<1>1. Spec => []Inv
  BY InitTyped, NextTyped, InitOwners, NextOwners, InitDoomed, NextDoomed, PTL DEF Spec, Inv
<1> QED BY <1>1, InitMaps, NextMaps, PTL DEF Spec, ImplementsChildren, Children!Spec
=============================================================================
