------------------------------ MODULE ErrCall ------------------------------
(***************************************************************************)
(* execution::getErrCallImpl: start a program, read what it writes to      *)
(* stderr up to MAX_ERR_SIZE bytes, wait for it.  The model has the        *)
(* descriptor tables of the processes, because the call turns on them: who *)
(* holds a write end keeps the reader waiting, who holds a read end keeps  *)
(* a writer from SIGPIPE, and the pipe is not opened with O_CLOEXEC.       *)
(*                                                                         *)
(* The processes are the library's "P", the child "C", a process "D" that  *)
(* C starts, and one, "F", that another thread of P forks meanwhile.       *)
(***************************************************************************)
EXTENDS Integers, FiniteSetsExt

CONSTANTS
    MaxErr,      \* MAX_ERR_SIZE, the capacity of result.err
    PipeSize,    \* bytes a pipe holds
    None

ASSUME NoneAssumption == None \notin 0..6
ASSUME SizeAssumption == MaxErr \in Nat \ {0} /\ PipeSize \in Nat \ {0}

Process == {"P", "C", "D", "F"}
Number == 0..6
File == {"tty", "null", "r", "w", "theirs", "free"}

VARIABLES
    tab,      \* Process -> Number -> the open file behind it
    life,     \* Process -> "none", "running", "zombie" or "gone"
    pc,       \* the next step of the caller
    init,     \* the next step of the child between fork and exec
    num,      \* the numbers pipe(2) gave to the ends "r" and "w"
    has,      \* the ends that errPipe of the caller still owns
    errBuf,   \* errBuf exists, and owns the number of the read end
    nul,      \* the number of devNull in the child
    theirs,   \* the numbers under which other threads of P opened a file
    buf,      \* bytes in the pipe
    err       \* result.err.size()

caller == <<pc, num, has, errBuf, err>>
child == <<init, nul>>
vars == <<tab, life, caller, child, theirs, buf>>

TypeOK ==
    /\ tab \in [Process -> [Number -> File]]
    /\ life \in [Process -> {"none", "running", "zombie", "gone"}]
    /\ pc \in {"pipe", "fork", "closeWrite", "read", "closeRead", "wait", "return", "throw",
               "returned", "thrown"}
    /\ init \in {"none", "open", "in", "out", "err", "closeRead", "closeWrite", "closeNull",
                 "exec", "done"}
    /\ num \in [{"r", "w"} -> Number \union {None}] /\ has \subseteq {"r", "w"}
    /\ errBuf \in BOOLEAN /\ nul \in Number \union {None} /\ theirs \subseteq Number
    /\ buf \in 0..PipeSize /\ err \in 0..MaxErr

\* The program may have closed some of its standard streams.
Closed == [n \in Number |-> "free"]
Init ==
    /\ \E open \in SUBSET (0..2) :
          tab = [p \in Process |->
                    [n \in Number |-> IF p = "P" /\ n \in open THEN "tty" ELSE "free"]]
    /\ life = [p \in Process |-> IF p = "P" THEN "running" ELSE "none"]
    /\ pc = "pipe" /\ init = "none"
    /\ num = [e \in {"r", "w"} |-> None] /\ has = {} /\ errBuf = FALSE /\ nul = None
    /\ theirs = {} /\ buf = 0 /\ err = 0

Holders(file) == {p \in Process : \E n \in Number : tab[p][n] = file}
FreeIn(p) == {n \in Number : tab[p][n] = "free"}
Lowest(p) == Min(FreeIn(p))
CloseIn(p, n) == tab' = [tab EXCEPT ![p][n] = "free"]

-----------------------------------------------------------------------------
(* The caller *)

At(here, next) == pc = here /\ pc' = next

Pipe ==
    LET r == Lowest("P")
        w == Min(FreeIn("P") \ {r})
    IN  /\ FreeIn("P") \ {r} # {} /\ At("pipe", "fork")
        /\ num' = [r |-> r, w |-> w] /\ has' = {"r", "w"}
        /\ tab' = [tab EXCEPT !["P"][r] = "r", !["P"][w] = "w"]
        /\ UNCHANGED <<life, child, errBuf, theirs, buf, err>>

PipeFails ==
    /\ At("pipe", "thrown")
    /\ UNCHANGED <<tab, life, child, num, has, errBuf, theirs, buf, err>>

Fork ==
    /\ At("fork", "closeWrite")
    /\ life' = [life EXCEPT !["C"] = "running"]
    /\ tab' = [tab EXCEPT !["C"] = tab["P"]]
    /\ init' = "open"
    /\ UNCHANGED <<num, has, errBuf, nul, theirs, buf, err>>

ForkFails ==
    /\ At("fork", "throw")
    /\ UNCHANGED <<tab, life, child, num, has, errBuf, theirs, buf, err>>

\* closeWriteEnd, then errBuf takes over the number of the read end as well.
ForgetWriteEnd ==                  \* mutant of CloseWriteEnd: ~Pipe closes it again
    /\ At("closeWrite", "read")
    /\ CloseIn("P", num["w"]) /\ errBuf' = TRUE
    /\ UNCHANGED <<life, child, num, has, theirs, buf, err>>
CloseWriteEnd ==
    /\ At("closeWrite", "read")
    /\ CloseIn("P", num["w"]) /\ has' = has \ {"w"} /\ errBuf' = TRUE
    /\ UNCHANGED <<life, child, num, theirs, buf, err>>

\* One read(2) of errS.read().
Read == \E n \in 1..buf :
    /\ pc = "read" /\ err + n <= MaxErr
    /\ buf' = buf - n /\ err' = err + n
    /\ pc' = IF err + n = MaxErr THEN "closeRead" ELSE "read"
    /\ UNCHANGED <<tab, life, child, num, has, errBuf, theirs>>

\* The loop ends when err is full or no process has the write end any more.
NothingToRead == buf = 0           \* mutant of EndOfFile: a short read ends the loop
EndOfFile == buf = 0 /\ Holders("w") = {}

ReadEnds ==
    /\ At("read", "closeRead") /\ EndOfFile
    /\ UNCHANGED <<tab, life, child, num, has, errBuf, theirs, buf, err>>

KeepReadEnd ==                     \* mutant of CloseReadEnd: it is left to ~Pipe
    /\ At("closeRead", "wait")
    /\ UNCHANGED <<tab, life, child, num, has, errBuf, theirs, buf, err>>
CloseReadEnd ==
    /\ At("closeRead", "wait")
    /\ CloseIn("P", num["r"]) /\ has' = has \ {"r"}
    /\ UNCHANGED <<life, child, num, errBuf, theirs, buf, err>>

\* waitpid(2); when somebody else has waited for the child it fails.
Wait ==
    /\ At("wait", "return") /\ life["C"] = "zombie"
    /\ life' = [life EXCEPT !["C"] = "gone"]
    /\ UNCHANGED <<tab, child, num, has, errBuf, theirs, buf, err>>

WaitFails ==
    /\ At("wait", "throw") /\ life["C"] = "gone"
    /\ UNCHANGED <<tab, life, child, num, has, errBuf, theirs, buf, err>>

\* ~stdio_filebuf closes its number, whatever has it now; ~Pipe what it owns.
LeavePipe == IF errBuf THEN {num["r"]} ELSE {}   \* mutant of ToClose: no ~Pipe
ToClose == {num[e] : e \in has} \union IF errBuf THEN {num["r"]} ELSE {}
Unwind ==
    /\ At("return", "returned") \/ At("throw", "thrown")
    /\ tab' = [tab EXCEPT !["P"] = [n \in Number |-> IF n \in ToClose THEN "free" ELSE @[n]]]
    /\ has' = {} /\ errBuf' = FALSE
    /\ UNCHANGED <<life, child, num, theirs, buf, err>>

Caller ==
    \/ Pipe \/ PipeFails \/ Fork \/ ForkFails \/ CloseWriteEnd
    \/ Read \/ ReadEnds \/ CloseReadEnd \/ Wait \/ WaitFails \/ Unwind

-----------------------------------------------------------------------------
(* executeChildInit, in the child, with the numbers of the caller's pipe *)

Ended(p, as) ==
    /\ life' = [life EXCEPT ![p] = as]
    /\ tab' = [tab EXCEPT ![p] = Closed]

InitStep(here, next) ==
    /\ life["C"] = "running" /\ init = here /\ init' = next
    /\ UNCHANGED <<life, caller, theirs, buf>>
Dup2(from, to) == tab' = [tab EXCEPT !["C"][to] = tab["C"][from]]

OpenNull ==
    /\ FreeIn("C") # {} /\ InitStep("open", "in")
    /\ nul' = Lowest("C")
    /\ tab' = [tab EXCEPT !["C"][nul'] = "null"]
DupIn == InitStep("in", "out") /\ Dup2(nul, 0) /\ UNCHANGED nul
DupOut == InitStep("out", "err") /\ Dup2(nul, 1) /\ UNCHANGED nul
DupReadEnd ==                      \* mutant of DupErr: the other end of the pipe
    InitStep("err", "closeRead") /\ Dup2(num["r"], 2) /\ UNCHANGED nul
DupErr == InitStep("err", "closeRead") /\ Dup2(num["w"], 2) /\ UNCHANGED nul
CloseRead == InitStep("closeRead", "closeWrite") /\ CloseIn("C", num["r"]) /\ UNCHANGED nul
CloseWrite == InitStep("closeWrite", "closeNull") /\ CloseIn("C", num["w"]) /\ UNCHANGED nul
CloseNull == InitStep("closeNull", "exec") /\ CloseIn("C", nul) /\ UNCHANGED nul
Exec == InitStep("exec", "done") /\ UNCHANGED <<tab, nul>>

\* A system call fails: the child aborts.
Abort ==
    /\ life["C"] = "running" /\ init # "done"
    /\ Ended("C", "zombie")
    /\ UNCHANGED <<child, caller, theirs, buf>>

ChildInit ==
    \/ OpenNull \/ DupIn \/ DupOut \/ DupErr
    \/ CloseRead \/ CloseWrite \/ CloseNull \/ Exec \/ Abort

-----------------------------------------------------------------------------
(* The programs, and the other threads of P *)

Program(p) == p # "P" /\ life[p] = "running" /\ (p = "C" => init = "done")

Write(p) ==
    /\ Program(p) /\ tab[p][2] = "w" /\ Holders("r") # {} /\ buf < PipeSize
    /\ buf' = buf + 1
    /\ UNCHANGED <<tab, life, caller, child, theirs>>

SigPipe(p) ==
    /\ Program(p) /\ tab[p][2] = "w" /\ Holders("r") = {}
    /\ Ended(p, IF p = "C" THEN "zombie" ELSE "gone")
    /\ UNCHANGED <<caller, child, theirs, buf>>

Exit(p) ==
    /\ Program(p)
    /\ Ended(p, IF p = "C" THEN "zombie" ELSE "gone")
    /\ UNCHANGED <<caller, child, theirs, buf>>

Start(p, from) ==
    /\ life[p] = "none" /\ life[from] = "running"
    /\ life' = [life EXCEPT ![p] = "running"]
    /\ tab' = [tab EXCEPT ![p] = tab[from]]
    /\ UNCHANGED <<caller, child, theirs, buf>>

\* Another thread of P forks, opens or closes a file, or waits for any child.
ForkOther == pc \notin {"returned", "thrown"} /\ Start("F", "P")
OpenOther ==
    /\ theirs = {} /\ FreeIn("P") # {}
    /\ theirs' = {Lowest("P")}
    /\ tab' = [tab EXCEPT !["P"][Lowest("P")] = "theirs"]
    /\ UNCHANGED <<life, caller, child, buf>>
CloseOther == \E n \in theirs :
    /\ theirs' = theirs \ {n}
    /\ tab' = [tab EXCEPT !["P"][n] = IF @ = "theirs" THEN "free" ELSE @]
    /\ UNCHANGED <<life, caller, child, buf>>
WaitOther ==
    /\ life["C"] = "zombie"
    /\ life' = [life EXCEPT !["C"] = "gone"]
    /\ UNCHANGED <<tab, caller, child, theirs, buf>>

Others == ForkOther \/ OpenOther \/ CloseOther \/ WaitOther

Next ==
    \/ Caller \/ ChildInit \/ Others
    \/ (Program("C") /\ Start("D", "C"))
    \/ \E p \in Process : Write(p) \/ SigPipe(p) \/ Exit(p)

\* The caller and the child's initialisation keep running.  A program that has
\* the pipe as stderr may write without end and need not end by itself; other
\* programs end, and so does what the child starts.
Works == Write("C") \/ SigPipe("C") \/ (tab["C"][2] # "w" /\ Exit("C"))
Fairness ==
    /\ WF_vars(Caller)
    /\ WF_vars(ChildInit)
    /\ WF_vars(Works)
    /\ \A p \in {"D", "F"} : WF_vars(SigPipe(p) \/ Exit(p))

Spec == Init /\ [][Next]_vars /\ Fairness

-----------------------------------------------------------------------------
(* What the call promises *)

\* Reading stops short of the capacity only when everything that the child and
\* the processes it started wrote has been read (the read loop, 70-76).
OutputComplete == pc \in {"closeRead", "wait", "return", "returned"} /\ err < MaxErr =>
    buf = 0 /\ Holders("w") = {}

\* However the call ends, no end of the pipe stays open in the caller and no
\* zombie is left.
NothingLeft == pc \in {"returned", "thrown"} =>
    Holders("r") \union Holders("w") \subseteq Process \ {"P"} /\ life["C"] \in {"none", "gone"}

\* The call closes files of other threads only under the number of its read
\* end, which ~stdio_filebuf closes after closeReadEnd has (67, 80).
OthersFilesStay == \A n \in theirs \ {num["r"]} : tab["P"][n] = "theirs"

\* A caller that has its standard streams starts the program with /dev/null
\* as input and output, the pipe as stderr, and no other end of the pipe
\* ("we do not allow child process to interfere with parent's stdin").
ChildStreams ==
    /\ init = "done" /\ life["C"] = "running"
    /\ \A n \in 0..2 : tab["P"][n] = "tty"
    => /\ tab["C"][0] = "null" /\ tab["C"][1] = "null" /\ tab["C"][2] = "w"
       /\ \A n \in Number \ (0..2) : tab["C"][n] \in {"free", "theirs"}

\* The call ends, however much the child writes and whoever has inherited the
\* pipe, as long as those processes end.
CallEnds == <>(pc \in {"returned", "thrown"})
=============================================================================
