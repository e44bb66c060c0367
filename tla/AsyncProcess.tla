---------------------------- MODULE AsyncProcess ----------------------------
(***************************************************************************)
(* execution::AsyncProcess: objects that start a child process, wait for   *)
(* it or poll it, collect its output from temporary files, stop it, and    *)
(* swap their children when they are moved.                                *)
(*                                                                         *)
(* Several objects are used at once, each by one thread at a time.  A call *)
(* is interrupted between any two system calls it makes.  out_ and err_    *)
(* are one file here: both are written and collected alike.                *)
(***************************************************************************)
EXTENDS Naturals

CONSTANTS
    Handle,         \* AsyncProcess objects
    Pid,            \* process ids
    None,
    MaxOutput,      \* a child writes at most this much
    ForeignReaper,  \* TRUE: other code of the program waits for any child
    KillMayFail,    \* TRUE: kill(2) may fail on a child (EPERM)
    ReadMayFail     \* TRUE: an output file may be unreadable

ASSUME NoneAssumption ==
    None \notin Pid \union Handle \union Nat
        \union [of : Handle \union {None}, out : Nat \union {None}]
ASSUME ModeAssumption ==
    MaxOutput \in Nat /\ {ForeignReaper, KillMayFail, ReadMayFail} \subseteq BOOLEAN

VARIABLES
    proc,     \* Pid -> "free", "running" or "zombie"
    ours,     \* the pids whose process is a child of the program
    doomed,   \* running processes with SIGKILL pending
    stdout,   \* Pid -> the output file of the process, None if not ours
    written,  \* file -> how much it holds; files are named by their first owner
    pid,      \* Handle -> pid_, None for 0
    file,     \* Handle -> out_
    result,   \* Handle -> result_, None for boost::none
    pc,       \* Handle -> "idle" or the next system call
    call      \* Handle -> the member function that is running

kernel == <<proc, ours, doomed, stdout, written>>
handles == <<pid, file, result, pc, call>>
vars == <<kernel, handles>>

\* result_: whose termination status it holds, and the output, None until
\* collectOutput() has run.
Result == [of : Handle \union {None}, out : (0..MaxOutput) \union {None}]

TypeOK ==
    /\ proc \in [Pid -> {"free", "running", "zombie"}]
    /\ ours \in SUBSET Pid /\ doomed \in SUBSET Pid
    /\ stdout \in [Pid -> Handle \union {None}]
    /\ written \in [Handle -> 0..MaxOutput]
    /\ pid \in [Handle -> Pid \union {None}]
    /\ file \in [Handle -> Handle]
    /\ result \in [Handle -> Result \union {None}]
    /\ pc \in [Handle -> {"idle", "poll", "kill", "waitpid", "collect"}]
    /\ call \in [Handle -> {"wait", "poll", "stop", "dtor"}]

Init ==
    /\ proc \in [Pid -> {"free", "running"}]
    /\ ours = {} /\ doomed = {}
    /\ stdout = [p \in Pid |-> None]
    /\ written = [h \in Handle |-> 0]
    /\ pid = [h \in Handle |-> None]
    /\ file = [h \in Handle |-> h]
    /\ result = [h \in Handle |-> None]
    /\ pc = [h \in Handle |-> "idle"]
    /\ call = [h \in Handle |-> "wait"]

Idle(h) == pc[h] = "idle"
Valid(h) == pid[h] # None

-----------------------------------------------------------------------------
(* Processes *)

\* The child writes to its file while it runs.
Write(p) ==
    /\ proc[p] = "running" /\ p \in ours /\ written[stdout[p]] < MaxOutput
    /\ written' = [written EXCEPT ![stdout[p]] = @ + 1]
    /\ UNCHANGED <<proc, ours, doomed, stdout, handles>>

Exit(p) ==
    /\ proc[p] = "running"
    /\ proc' = [proc EXCEPT ![p] = "zombie"]
    /\ doomed' = doomed \ {p}
    /\ UNCHANGED <<ours, stdout, written, handles>>

Killed(p) == p \in doomed /\ Exit(p)

\* The pid of p is free again.
Reaped(p) ==
    /\ proc' = [proc EXCEPT ![p] = "free"]
    /\ ours' = ours \ {p}
    /\ stdout' = [stdout EXCEPT ![p] = None]

\* The process is waited for by somebody other than an AsyncProcess.
ReapElsewhere(p) ==
    /\ proc[p] = "zombie" /\ (p \in ours => ForeignReaper)
    /\ Reaped(p)
    /\ UNCHANGED <<doomed, written, handles>>

\* An unrelated process takes a free pid.
Spawn(p) ==
    /\ proc[p] = "free"
    /\ proc' = [proc EXCEPT ![p] = "running"]
    /\ UNCHANGED <<ours, doomed, stdout, written, handles>>

-----------------------------------------------------------------------------
(* Construction, moves and the entry of the member functions *)

\* AsyncProcess(options): fork and exec; exec's failure is one way to exit.
Start(h, p) ==
    /\ Idle(h) /\ ~Valid(h) /\ proc[p] = "free"
    /\ proc' = [proc EXCEPT ![p] = "running"]
    /\ ours' = ours \union {p}
    /\ stdout' = [stdout EXCEPT ![p] = file[h]]
    /\ pid' = [pid EXCEPT ![h] = p]
    /\ UNCHANGED <<doomed, written, file, result, pc, call>>

Exchange(f, g, h) == [f EXCEPT ![g] = f[h], ![h] = f[g]]

\* Move construction and move assignment both swap every member.
SwapForgetsFiles(g, h) ==           \* mutant of Swap
    /\ Idle(g) /\ Idle(h) /\ g # h
    /\ pid' = Exchange(pid, g, h) /\ result' = Exchange(result, g, h)
    /\ UNCHANGED <<kernel, file, pc, call>>
Swap(g, h) ==
    /\ Idle(g) /\ Idle(h) /\ g # h
    /\ pid' = Exchange(pid, g, h)
    /\ file' = Exchange(file, g, h)
    /\ result' = Exchange(result, g, h)
    /\ UNCHANGED <<kernel, pc, call>>

Goto(h, label) == pc' = [pc EXCEPT ![h] = label]

EntryUnpolled(function) ==          \* mutant of Entry: stop() kills first
    IF function = "wait" THEN "waitpid" ELSE IF function = "poll" THEN "poll" ELSE "kill"
Entry(function) == IF function = "wait" THEN "waitpid" ELSE "poll"

\* wait(), poll(), stop() and the destructor, on a valid object.  With a result
\* wait() makes no system call, and neither does the poll() of the others.
Call(h, function) ==
    /\ Idle(h) /\ Valid(h)
    /\ function = "dtor" \/ result[h] = None
    /\ Goto(h, Entry(function))
    /\ call' = [call EXCEPT ![h] = function]
    /\ UNCHANGED <<kernel, pid, file, result>>

\* The call is over, with or without an exception.  The destructor swallows
\* it and the members go: the object is as good as never constructed.
Finish(h) ==
    /\ Goto(h, "idle")
    /\ IF call[h] = "dtor"
       THEN /\ pid' = [pid EXCEPT ![h] = None]
            /\ result' = [result EXCEPT ![h] = None]
            /\ written' = [written EXCEPT ![file[h]] = 0]
       ELSE UNCHANGED <<pid, result, written>>

\* waitpid(2) fails with ECHILD: an exception, pid_ and result_ stay.
NotOurs(h) ==
    /\ pid[h] \notin ours /\ Finish(h)
    /\ UNCHANGED <<proc, ours, doomed, stdout, file, call>>

\* waitpid(2) returned pid_: the status goes to result_ before the output.
Collectable(h) ==
    /\ pid[h] \in ours /\ proc[pid[h]] = "zombie"
    /\ Reaped(pid[h])
    /\ result' = [result EXCEPT ![h] = [of |-> stdout[pid[h]], out |-> None]]
    /\ Goto(h, "collect")
    /\ UNCHANGED <<doomed, written, pid, file, call>>

-----------------------------------------------------------------------------
(* The system calls of wait(), poll() and stop() *)

\* waitpid(2) blocks while the child runs; EINTR only repeats it.
WaitPid(h) == pc[h] = "waitpid" /\ (NotOurs(h) \/ Collectable(h))

StillRunningNoKill(h) == Goto(h, "waitpid")   \* mutant of StillRunning
StillRunning(h) == Goto(h, "kill")

\* poll(): WNOHANG.  stop() goes on to kill a child that still runs.
PollPid(h) ==
    /\ pc[h] = "poll"
    /\ \/ result[h] # None /\ Finish(h)
          /\ UNCHANGED <<proc, ours, doomed, stdout, file, call>>
       \/ result[h] = None /\ (NotOurs(h) \/ Collectable(h))
       \/ /\ result[h] = None
          /\ pid[h] \in ours /\ proc[pid[h]] = "running"
          /\ IF call[h] = "poll"
             THEN Finish(h)
             ELSE StillRunning(h) /\ UNCHANGED <<pid, result, written>>
          /\ UNCHANGED <<proc, ours, doomed, stdout, file, call>>

\* kill(pid_, SIGKILL).  "!::kill(...) < 0" is never true: whatever kill
\* returns, stop() goes on to wait().
ReturnAfterKill(h) == Finish(h)     \* mutant of AfterKill: no wait()
AfterKill(h) == Goto(h, "waitpid") /\ UNCHANGED <<pid, result, written>>

KillFails(h) == KillMayFail \/ proc[pid[h]] = "free"

Kill(h) ==
    /\ pc[h] = "kill"
    /\ \/ /\ proc[pid[h]] # "free"
          /\ doomed' = IF proc[pid[h]] = "running" THEN doomed \union {pid[h]}
                                                   ELSE doomed
       \/ KillFails(h) /\ UNCHANGED doomed
    /\ AfterKill(h)
    /\ UNCHANGED <<proc, ours, stdout, file, call>>

\* collectOutput(), and the return to the caller.
ReadPastEnd(h) == written[file[h]] + 1   \* mutant of ReadAll
ReadAll(h) == written[file[h]]

CollectOutput(h) ==
    /\ pc[h] = "collect"
    /\ IF call[h] = "dtor"
       THEN Finish(h)
       ELSE /\ Goto(h, "idle")
            /\ \/ result' = [result EXCEPT ![h].out = ReadAll(h)]
               \/ ReadMayFail /\ UNCHANGED result
            /\ UNCHANGED <<pid, written>>
    /\ UNCHANGED <<proc, ours, doomed, stdout, file, call>>

Step(h) == WaitPid(h) \/ PollPid(h) \/ Kill(h) \/ CollectOutput(h)

-----------------------------------------------------------------------------
ProcessStep(p) == Write(p) \/ Exit(p) \/ ReapElsewhere(p) \/ Spawn(p)

Next ==
    \/ \E p \in Pid : ProcessStep(p) \/ \E h \in Handle : Start(h, p)
    \/ \E h \in Handle :
         \/ Step(h)
         \/ \E g \in Handle : Swap(g, h)
         \/ \E function \in {"wait", "poll", "stop", "dtor"} : Call(h, function)

Spec == Init /\ [][Next]_vars

\* A thread inside a call keeps running, and SIGKILL ends a process.
Fairness ==
    /\ \A h \in Handle : WF_vars(Step(h))
    /\ \A p \in Pid : WF_vars(Killed(p))

FairSpec == Spec /\ Fairness

-----------------------------------------------------------------------------
(* What an AsyncProcess guarantees *)

\* SIGKILL reaches only a child that the object itself started and that has
\* not been waited for, whatever was moved and whatever pids were reused.
OnlyOwnChildKilled ==
    [][\A p \in doomed' \ doomed :
         \E h \in Handle : pid[h] = p /\ p \in ours /\ stdout[p] = file[h]]_vars

\* No child is forgotten: each one, running or zombie, is still waited for by
\* one object, so none is left when every object is destroyed.
EveryChildHasOwner ==
    \A p \in ours : \E h \in Handle :
        /\ pid[h] = p /\ result[h] = None /\ file[h] = stdout[p]
        /\ \A g \in Handle : pid[g] = p /\ result[g] = None => g = h

\* A result is that of the object's own child, with all the child has written.
ResultIsComplete ==
    \A h \in Handle : result[h] # None =>
        /\ result[h].of = file[h]
        /\ result[h].out # None => result[h].out = written[file[h]]

\* All of this, seen by a program that knows no pids and no moves: each child is
\* one process, waited for exactly once and killed only while it runs, and what
\* a result says is true of it, whichever object has it by now.
Files(ps) == {stdout[p] : p \in ps}
Running == {p \in ours : proc[p] = "running"}
Children == INSTANCE ChildProcesses WITH
    Child <- Handle,
    running <- Files(Running),
    ended <- Files(ours \ Running),
    doomed <- Files(doomed),
    reports <- {<<file[h], result[h]>> : h \in {g \in Handle : result[g] # None}}
ImplementsChildren == Children!Spec

\* stop() and the destructor come to an end, when kill(2) does not fail, and
\* whoever else waits for the child.  Only when somebody else has done so and
\* the program has started a new child under the same pid does the call wait
\* for that one instead.
MistakesChild(h) == pid[h] \in ours /\ stdout[pid[h]] # file[h]
StopReturns ==
    \A h \in Handle :
        ~Idle(h) /\ call[h] \in {"stop", "dtor"} ~> Idle(h) \/ MistakesChild(h)

\* stop() reports that the child could not be killed instead of waiting for it
\* ("throw SystemError("kill")", AsyncProcess.cpp, line 173).
KillFailureReported ==
    [][\A h \in Handle :
         pc[h] = "kill" /\ pc'[h] = "waitpid" =>
            pid[h] \in doomed' \/ proc[pid[h]] = "zombie"]_vars
=============================================================================
