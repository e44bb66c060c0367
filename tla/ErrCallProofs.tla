---------------------------- MODULE ErrCallProofs ----------------------------
(* Proofs about ErrCall, for any capacity of the buffer and of the pipe. *)
EXTENDS ErrCall, TLAPS

LEMMA MinIsMember == ASSUME NEW S \in SUBSET Number, S # {} PROVE Min(S) \in S
<1>1. \E x \in S : \A y \in S : x =< y
  <2> SUFFICES ASSUME \A x \in S : \E y \in S : y < x PROVE FALSE
    BY DEF Number
  <2>1. 0 \notin S BY DEF Number
  <2>2. 1 \notin S BY <2>1 DEF Number
  <2>3. 2 \notin S BY <2>1, <2>2 DEF Number
  <2>4. 3 \notin S BY <2>1, <2>2, <2>3 DEF Number
  <2>5. 4 \notin S BY <2>1, <2>2, <2>3, <2>4 DEF Number
  <2>6. 5 \notin S BY <2>1, <2>2, <2>3, <2>4, <2>5 DEF Number
  <2>7. 6 \notin S BY <2>1, <2>2, <2>3, <2>4, <2>5, <2>6 DEF Number
  <2> PICK x \in S : TRUE OBVIOUS
  <2>8. x \in {0, 1, 2, 3, 4, 5, 6} BY DEF Number
  <2> QED BY <2>1, <2>2, <2>3, <2>4, <2>5, <2>6, <2>7, <2>8
<1> QED BY <1>1 DEF Min

\* open(2), pipe(2) and the like take a number that is free.
LEMMA LowestIsFree == ASSUME NEW p \in Process, FreeIn(p) # {} PROVE Lowest(p) \in FreeIn(p)
BY MinIsMember DEF Lowest, FreeIn

\* pipe(2) gives two numbers that are free.
LEMMA PipeNumbers ==
    ASSUME Pipe
    PROVE \E r, w \in FreeIn("P") :
              /\ r # w
              /\ num' = [e \in {"r", "w"} |-> IF e = "r" THEN r ELSE w]
              /\ tab' = [tab EXCEPT !["P"][r] = "r", !["P"][w] = "w"]
<1> DEFINE r == Lowest("P")
           w == Min(FreeIn("P") \ {r})
<1>1. FreeIn("P") \ {r} # {} /\ FreeIn("P") # {} BY DEF Pipe
<1>2. r \in FreeIn("P") BY <1>1, LowestIsFree DEF Process
<1>3. w \in FreeIn("P") \ {r}
  <2> HIDE DEF r
  <2>1. FreeIn("P") \ {r} \in SUBSET Number BY DEF FreeIn
  <2> QED BY <1>1, <2>1, MinIsMember
<1>4. num' = [e \in {"r", "w"} |-> IF e = "r" THEN r ELSE w] BY DEF Pipe
<1>5. tab' = [tab EXCEPT !["P"][r] = "r", !["P"][w] = "w"] BY DEF Pipe
<1> HIDE DEF r, w
<1> QED BY <1>2, <1>3, <1>4, <1>5

-----------------------------------------------------------------------------
(* Types *)

\* dup2(2) copies from numbers that the child has: pipe(2) and open(2) gave them.
NumbersGiven ==
    /\ pc = "fork" => num \in [{"r", "w"} -> Number]
    /\ life["C"] = "running" =>
          num \in [{"r", "w"} -> Number] /\ (init \in {"none", "open"} \/ nul \in Number)

LEMMA InitTyped == Init => TypeOK /\ NumbersGiven
<1> SUFFICES ASSUME Init PROVE TypeOK /\ NumbersGiven OBVIOUS
<1>1. tab \in [Process -> [Number -> File]]
  BY DEF Init, File
<1>2. buf \in 0..PipeSize /\ err \in 0..MaxErr
  BY SizeAssumption DEF Init
<1>3. NumbersGiven BY DEF Init, NumbersGiven, Process
<1> QED BY <1>1, <1>2, <1>3 DEF Init, TypeOK

LEMMA CallerTyped == ASSUME TypeOK, NumbersGiven, Caller PROVE (TypeOK /\ NumbersGiven)'
<1> USE SizeAssumption DEF TypeOK, NumbersGiven, At, child, CloseIn
<1>1. CASE Pipe
  <2>1. /\ num' \in [{"r", "w"} -> Number]
        /\ tab' \in [Process -> [Number -> File]]
    <3> PICK r, w \in FreeIn("P") :
          /\ num' = [e \in {"r", "w"} |-> IF e = "r" THEN r ELSE w]
          /\ tab' = [tab EXCEPT !["P"][r] = "r", !["P"][w] = "w"]
      BY <1>1, PipeNumbers
    <3>1. r \in Number /\ w \in Number BY DEF FreeIn
    <3> QED BY <3>1 DEF Process, File
  <2> QED BY <1>1, <2>1 DEF Pipe
<1>2. CASE PipeFails BY <1>2 DEF PipeFails
<1>3. CASE Fork BY <1>3 DEF Fork, Process
<1>4. CASE ForkFails BY <1>4 DEF ForkFails
<1>5. CASE CloseWriteEnd BY <1>5 DEF CloseWriteEnd, Process, File
<1>6. CASE Read BY <1>6 DEF Read
<1>7. CASE ReadEnds BY <1>7 DEF ReadEnds
<1>8. CASE CloseReadEnd BY <1>8 DEF CloseReadEnd, Process, File
<1>9. CASE Wait BY <1>9 DEF Wait, Process
<1>10. CASE WaitFails BY <1>10 DEF WaitFails
<1>11. CASE Unwind
  <2>1. tab' \in [Process -> [Number -> File]]
    <3>1. [n \in Number |-> IF n \in ToClose THEN "free" ELSE tab["P"][n]] \in [Number -> File]
      BY DEF Process, File
    <3> QED BY <1>11, <3>1 DEF Unwind
  <2>2. /\ UNCHANGED <<life, num, theirs, buf, err, init, nul>>
        /\ has' = {} /\ errBuf' = FALSE /\ pc' \in {"returned", "thrown"}
    BY <1>11 DEF Unwind
  <2> QED BY <2>1, <2>2
<1> QED BY <1>1, <1>2, <1>3, <1>4, <1>5, <1>6, <1>7, <1>8, <1>9, <1>10, <1>11 DEF Caller

LEMMA ChildTyped == ASSUME TypeOK, NumbersGiven, ChildInit PROVE (TypeOK /\ NumbersGiven)'
<1> USE DEF TypeOK, NumbersGiven, caller, child, CloseIn, Closed, InitStep, Dup2, Process, File
<1>1. CASE OpenNull
  <2>1. Lowest("C") \in Number BY <1>1, LowestIsFree DEF OpenNull, FreeIn
  <2> QED BY <1>1, <2>1 DEF OpenNull
<1>2. CASE DupIn BY <1>2 DEF DupIn, Number
<1>3. CASE DupOut BY <1>3 DEF DupOut, Number
<1>4. CASE DupErr BY <1>4 DEF DupErr, Number
<1>5. CASE CloseRead BY <1>5 DEF CloseRead
<1>6. CASE CloseWrite BY <1>6 DEF CloseWrite
<1>7. CASE CloseNull BY <1>7 DEF CloseNull
<1>8. CASE Exec BY <1>8 DEF Exec
<1>9. CASE Abort BY <1>9 DEF Abort, Ended
<1> QED BY <1>1, <1>2, <1>3, <1>4, <1>5, <1>6, <1>7, <1>8, <1>9 DEF ChildInit

LEMMA StartTyped ==
    ASSUME TypeOK, NumbersGiven, NEW p \in {"D", "F"}, NEW q \in Process, Start(p, q)
    PROVE (TypeOK /\ NumbersGiven)'
BY DEF Start, TypeOK, NumbersGiven, caller, child, Process

LEMMA OthersTyped == ASSUME TypeOK, NumbersGiven, Others PROVE (TypeOK /\ NumbersGiven)'
<1> USE DEF TypeOK, NumbersGiven, caller, child, Process, File
<1>1. CASE ForkOther BY <1>1, StartTyped DEF ForkOther
<1>2. CASE OpenOther
  <2>1. Lowest("P") \in Number BY <1>2, LowestIsFree DEF OpenOther, FreeIn
  <2> QED BY <1>2, <2>1 DEF OpenOther
<1>3. CASE CloseOther BY <1>3 DEF CloseOther
<1>4. CASE WaitOther BY <1>4 DEF WaitOther
<1> QED BY <1>1, <1>2, <1>3, <1>4 DEF Others

LEMMA ProgramTyped ==
    ASSUME TypeOK, NumbersGiven, NEW p \in Process, Write(p) \/ SigPipe(p) \/ Exit(p)
    PROVE (TypeOK /\ NumbersGiven)'
<1> USE DEF TypeOK, NumbersGiven, caller, child, Process, Program
<1>1. CASE Write(p)
  <2>1. buf' \in 0..PipeSize BY <1>1, SizeAssumption DEF Write
  <2> QED BY <1>1, <2>1 DEF Write
<1>2. CASE SigPipe(p) BY <1>2 DEF SigPipe, Ended, Closed, File
<1>3. CASE Exit(p) BY <1>3 DEF Exit, Ended, Closed, File
<1> QED BY <1>1, <1>2, <1>3

LEMMA NextTyped == TypeOK /\ NumbersGiven /\ [Next]_vars => (TypeOK /\ NumbersGiven)'
<1> SUFFICES ASSUME TypeOK, NumbersGiven, [Next]_vars PROVE (TypeOK /\ NumbersGiven)' OBVIOUS
<1>1. CASE UNCHANGED vars BY <1>1 DEF vars, TypeOK, NumbersGiven, caller, child
<1> QED BY <1>1, CallerTyped, ChildTyped, StartTyped, OthersTyped, ProgramTyped DEF Next, Process

\* Every reachable state is well typed.
THEOREM TypeCorrect == Spec => []TypeOK
BY InitTyped, NextTyped, PTL DEF Spec

-----------------------------------------------------------------------------
(* The caller and its pipe *)

\* The caller has an end of the pipe under the number that pipe(2) gave it and
\* as long as it owns it, and what it owns follows from how far it is.
Ends ==
    /\ \A e \in {"r", "w"}, n \in Number : tab["P"][n] = e => e \in has /\ n = num[e]
    /\ \A e \in has : num[e] \in Number /\ tab["P"][num[e]] = e
    /\ pc = "pipe" => has = {} /\ num["r"] = None
    /\ pc \in {"fork", "closeWrite"} => has = {"r", "w"}
    /\ pc \in {"read", "closeRead"} => has = {"r"}
    /\ pc \in {"wait", "return", "returned", "thrown"} => has = {}

LEMMA InitEnds == Init => Ends
BY DEF Init, Ends, Process

LEMMA NextEnds == TypeOK /\ NumbersGiven /\ Ends /\ [Next]_vars => Ends'
<1> SUFFICES ASSUME TypeOK, NumbersGiven, Ends, [Next]_vars PROVE Ends' OBVIOUS
<1> USE DEF TypeOK, Ends, At, CloseIn, caller, child, Process
<1>1. CASE Caller
  <2>1. CASE Pipe
    <3> PICK r, w \in FreeIn("P") :
          /\ r # w
          /\ num' = [e \in {"r", "w"} |-> IF e = "r" THEN r ELSE w]
          /\ tab' = [tab EXCEPT !["P"][r] = "r", !["P"][w] = "w"]
      BY <2>1, PipeNumbers
    <3>1. r \in Number /\ w \in Number /\ pc = "pipe" /\ pc' = "fork" /\ has' = {"r", "w"}
      BY <2>1 DEF FreeIn, Pipe
    <3> QED BY <3>1
  <2>2. CASE PipeFails BY <2>2 DEF PipeFails
  <2>3. CASE Fork BY <2>3 DEF Fork
  <2>4. CASE ForkFails BY <2>4 DEF ForkFails
  <2>5. CASE CloseWriteEnd BY <2>5 DEF CloseWriteEnd
  <2>6. CASE Read BY <2>6 DEF Read
  <2>7. CASE ReadEnds BY <2>7 DEF ReadEnds
  <2>8. CASE CloseReadEnd BY <2>8 DEF CloseReadEnd
  <2>9. CASE Wait BY <2>9 DEF Wait
  <2>10. CASE WaitFails BY <2>10 DEF WaitFails
  <2>11. CASE Unwind BY <2>11 DEF Unwind, ToClose
  <2> QED BY <1>1, <2>1, <2>2, <2>3, <2>4, <2>5, <2>6, <2>7, <2>8, <2>9, <2>10, <2>11 DEF Caller
<1>2. ASSUME UNCHANGED <<tab["P"], pc, num, has>> PROVE Ends'
  BY <1>2
<1>3. CASE ChildInit
  BY <1>2, <1>3 DEF ChildInit, OpenNull, DupIn, DupOut, DupErr, CloseRead, CloseWrite,
                    CloseNull, Exec, Abort, InitStep, Dup2, Ended
<1>4. ASSUME NEW p \in {"D", "F"}, NEW q \in Process, Start(p, q) PROVE Ends'
  BY <1>2, <1>4 DEF Start
<1>5. CASE Others
  <2>1. CASE OpenOther
    <3>1. Lowest("P") \in FreeIn("P") BY <2>1, LowestIsFree DEF OpenOther
    <3> QED BY <2>1, <3>1 DEF OpenOther, FreeIn
  <2>2. CASE CloseOther BY <2>2 DEF CloseOther
  <2>3. CASE WaitOther BY <1>2, <2>3 DEF WaitOther
  <2>4. CASE ForkOther BY <1>4, <2>4 DEF ForkOther
  <2> QED BY <1>5, <2>1, <2>2, <2>3, <2>4 DEF Others
<1>6. ASSUME NEW p \in Process, Write(p) \/ SigPipe(p) \/ Exit(p) PROVE Ends'
  BY <1>2, <1>6 DEF Write, SigPipe, Exit, Ended, Program
<1>7. CASE UNCHANGED vars BY <1>2, <1>7 DEF vars
<1> QED BY <1>1, <1>3, <1>4, <1>5, <1>6, <1>7 DEF Next

LEMMA EndsInvariant == Spec => [](TypeOK /\ NumbersGiven /\ Ends)
BY InitTyped, NextTyped, InitEnds, NextEnds, PTL DEF Spec

\* The child is not started before fork(2) and has been waited for when the call
\* returns; it is not left behind by an exception either.
ChildWaited ==
    /\ pc \in {"pipe", "fork"} => life["C"] = "none"
    /\ pc \in {"return", "returned"} => life["C"] = "gone"
    /\ pc \in {"throw", "thrown"} => life["C"] \in {"none", "gone"}

LEMMA WaitedInvariant == Spec => []ChildWaited
<1>1. Init => ChildWaited BY DEF Init, ChildWaited, Process
<1>2. TypeOK /\ NumbersGiven /\ Ends /\ ChildWaited /\ [Next]_vars => ChildWaited'
  <2> SUFFICES ASSUME TypeOK, ChildWaited, [Next]_vars PROVE ChildWaited' OBVIOUS
  <2> USE DEF TypeOK, ChildWaited, At, caller, child, Process
  <2>1. CASE Caller
    BY <2>1 DEF Caller, Pipe, PipeFails, Fork, ForkFails, CloseWriteEnd, Read, ReadEnds,
                CloseReadEnd, Wait, WaitFails, Unwind
  <2>2. CASE ChildInit
    BY <2>2 DEF ChildInit, OpenNull, DupIn, DupOut, DupErr, CloseRead, CloseWrite,
                CloseNull, Exec, Abort, InitStep, Ended
  <2>3. ASSUME NEW p \in {"D", "F"}, NEW q \in Process, Start(p, q) PROVE ChildWaited'
    BY <2>3 DEF Start
  <2>4. CASE Others
    BY <2>3, <2>4 DEF Others, ForkOther, OpenOther, CloseOther, WaitOther
  <2>5. ASSUME NEW p \in Process, Write(p) \/ SigPipe(p) \/ Exit(p) PROVE ChildWaited'
    BY <2>5 DEF Write, SigPipe, Exit, Ended, Program
  <2>6. CASE UNCHANGED vars BY <2>6 DEF vars
  <2> QED BY <2>1, <2>2, <2>3, <2>4, <2>5, <2>6 DEF Next
<1> QED BY <1>1, <1>2, EndsInvariant, PTL DEF Spec

\* No end of the pipe stays open in the caller and no zombie is left, however
\* many bytes fit where.
THEOREM NothingIsLeft == Spec => []NothingLeft
<1>1. Ends /\ ChildWaited => NothingLeft
  BY DEF Ends, ChildWaited, NothingLeft, Holders, Process
<1> QED BY <1>1, WaitedInvariant, EndsInvariant, PTL

-----------------------------------------------------------------------------
(* Reading *)

\* Once no process has the write end, none gets it again but from fork(2) of a
\* process that has it, so what has been read is all there is.
THEOREM OutputIsComplete == Spec => []OutputComplete
<1>1. Init => OutputComplete BY DEF Init, OutputComplete
<1>2. TypeOK /\ NumbersGiven /\ OutputComplete /\ [Next]_vars => OutputComplete'
  <2> DEFINE read == pc \in {"closeRead", "wait", "return", "returned"} /\ err < MaxErr
             dry == buf = 0 /\ \A p \in Process, n \in Number : tab[p][n] # "w"
  <2>0. OutputComplete <=> (read => dry) BY DEF OutputComplete, Holders
  <2> SUFFICES ASSUME TypeOK, NumbersGiven, read => dry, [Next]_vars, read' PROVE dry'
    BY <2>0 DEF OutputComplete, Holders
  <2> USE DEF TypeOK, At, CloseIn, caller, child, Process
  <2>1. CASE Caller
    <3>1. CASE Read
      BY <3>1, SizeAssumption DEF Read
    <3>2. CASE ReadEnds BY <3>2 DEF ReadEnds, EndOfFile, Holders
    <3>3. CASE CloseReadEnd BY <3>3 DEF CloseReadEnd
    <3>4. CASE Wait BY <3>4 DEF Wait
    <3>5. CASE Unwind BY <3>5 DEF Unwind
    <3> QED
      BY <2>1, <3>1, <3>2, <3>3, <3>4, <3>5
      DEF Caller, Pipe, PipeFails, Fork, ForkFails, CloseWriteEnd, WaitFails
  <2> SUFFICES ASSUME dry, ~Caller PROVE dry'
    <3>1. ~Caller => read
      BY DEF Next, ChildInit, OpenNull, DupIn, DupOut, DupErr, CloseRead, CloseWrite, CloseNull,
             Exec, Abort, InitStep, Start, Others, ForkOther, OpenOther, CloseOther, WaitOther,
             Write, SigPipe, Exit, vars
    <3> QED BY <2>1, <3>1
  <2>2. CASE ChildInit
    <3> USE DEF InitStep, Dup2, NumbersGiven
    <3>1. CASE OpenNull
      <4>1. Lowest("C") \in FreeIn("C") BY <3>1, LowestIsFree DEF OpenNull
      <4> QED BY <3>1, <4>1 DEF OpenNull, FreeIn
    <3>2. CASE DupIn BY <3>2 DEF DupIn
    <3>3. CASE DupOut BY <3>3 DEF DupOut
    <3>4. CASE DupErr BY <3>4 DEF DupErr
    <3> QED BY <2>2, <3>1, <3>2, <3>3, <3>4
            DEF ChildInit, CloseRead, CloseWrite, CloseNull, Exec, Abort, Ended, Closed
  <2>3. ASSUME NEW p \in {"D", "F"}, NEW q \in Process, Start(p, q) PROVE dry'
    BY <2>3 DEF Start
  <2>4. CASE Others
    <3>1. CASE ForkOther BY <2>3, <3>1 DEF ForkOther
    <3>2. CASE OpenOther BY <3>2 DEF OpenOther
    <3>3. CASE CloseOther BY <3>3 DEF CloseOther
    <3>4. CASE WaitOther BY <3>4 DEF WaitOther
    <3> QED BY <2>4, <3>1, <3>2, <3>3, <3>4 DEF Others
  <2>5. ASSUME NEW p \in Process, Write(p) \/ SigPipe(p) \/ Exit(p) PROVE dry'
    <3>1. ~Write(p) BY DEF Write, Number
    <3> QED BY <2>5, <3>1 DEF SigPipe, Exit, Ended, Closed
  <2>6. CASE UNCHANGED vars BY <2>6 DEF vars
  <2> QED BY <2>2, <2>3, <2>4, <2>5, <2>6 DEF Next
<1> QED BY <1>1, <1>2, InitTyped, NextTyped, PTL DEF Spec

-----------------------------------------------------------------------------
(* Files of other threads *)

\* Whatever other threads open, the call closes it only under the number of the
\* read end.
THEOREM OthersKeepFiles == Spec => []OthersFilesStay
<1>1. Init => OthersFilesStay BY DEF Init, OthersFilesStay
<1>2. TypeOK /\ NumbersGiven /\ Ends /\ OthersFilesStay /\ [Next]_vars => OthersFilesStay'
  <2> SUFFICES ASSUME TypeOK, NumbersGiven, Ends, OthersFilesStay, [Next]_vars
               PROVE OthersFilesStay'
    OBVIOUS
  <2> USE DEF TypeOK, OthersFilesStay, At, CloseIn, caller, child, Process
  <2>1. CASE Caller
    <3>1. CASE Pipe
      <4> PICK r, w \in FreeIn("P") :
            /\ r # w
            /\ num' = [e \in {"r", "w"} |-> IF e = "r" THEN r ELSE w]
            /\ tab' = [tab EXCEPT !["P"][r] = "r", !["P"][w] = "w"]
        BY <3>1, PipeNumbers
      <4>1. \A n \in theirs : n # num["r"] /\ n # r /\ n # w
        BY <3>1, NoneAssumption DEF Ends, Pipe, FreeIn, Number
      <4> QED BY <3>1, <4>1 DEF Pipe, FreeIn
    <3>2. CASE CloseWriteEnd BY <3>2 DEF CloseWriteEnd, Ends
    <3>3. CASE CloseReadEnd BY <3>3 DEF CloseReadEnd
    <3>4. CASE Unwind BY <3>4 DEF Unwind, ToClose, Ends
    <3> QED BY <2>1, <3>1, <3>2, <3>3, <3>4
            DEF Caller, PipeFails, Fork, ForkFails, Read, ReadEnds, Wait, WaitFails
  <2>2. ASSUME UNCHANGED <<tab["P"], num, theirs>> PROVE OthersFilesStay'
    BY <2>2
  <2>3. CASE ChildInit
    BY <2>2, <2>3 DEF ChildInit, OpenNull, DupIn, DupOut, DupErr, CloseRead, CloseWrite,
                      CloseNull, Exec, Abort, InitStep, Dup2, Ended
  <2>4. ASSUME NEW p \in {"D", "F"}, NEW q \in Process, Start(p, q) PROVE OthersFilesStay'
    BY <2>2, <2>4 DEF Start
  <2>5. CASE Others
    <3>1. CASE OpenOther
      <4>1. Lowest("P") \in FreeIn("P") BY <3>1, LowestIsFree DEF OpenOther
      <4> QED BY <3>1, <4>1 DEF OpenOther, FreeIn
    <3>2. CASE CloseOther BY <3>2 DEF CloseOther
    <3>3. CASE WaitOther BY <2>2, <3>3 DEF WaitOther
    <3>4. CASE ForkOther BY <2>4, <3>4 DEF ForkOther
    <3> QED BY <2>5, <3>1, <3>2, <3>3, <3>4 DEF Others
  <2>6. ASSUME NEW p \in Process, Write(p) \/ SigPipe(p) \/ Exit(p) PROVE OthersFilesStay'
    BY <2>2, <2>6 DEF Write, SigPipe, Exit, Ended, Program
  <2>7. CASE UNCHANGED vars BY <2>2, <2>7 DEF vars
  <2> QED BY <2>1, <2>3, <2>4, <2>5, <2>6, <2>7 DEF Next
<1> QED BY <1>1, <1>2, EndsInvariant, PTL DEF Spec

-----------------------------------------------------------------------------
(* What the child starts with *)

Standard == \A n \in 0..2 : tab["P"][n] = "tty"

\* The caller's own files are its standard streams and those of its threads.
CallersFiles == \A n \in Number :
    /\ tab["P"][n] # "null"
    /\ tab["P"][n] = "tty" => n \in 0..2 /\ n # num["r"] /\ n # num["w"]

\* The numbers above the standard streams that the child has still to close.
ToBeClosed ==
    (IF init \in {"open", "in", "out", "err", "closeRead"} THEN {num["r"]} ELSE {})
    \union (IF init \in {"open", "in", "out", "err", "closeRead", "closeWrite"}
            THEN {num["w"]} ELSE {})
    \union (IF init \in {"open", "exec", "done"} THEN {} ELSE {nul})

\* How far the child of a caller with standard streams is: /dev/null and the
\* pipe got numbers above them, so dup2 and close do not meet.
ChildSetUp == Standard /\ life["C"] = "running" =>
    /\ init # "none"
    /\ num["r"] \in 3..6 /\ num["w"] \in 3..6 /\ num["r"] # num["w"]
    /\ \A n \in 3..6 : tab["C"][n] \in {"free", "theirs"} \/ n \in ToBeClosed
    /\ init = "open" => \A n \in 0..2 : tab["C"][n] # "free"
    /\ init # "open" => nul \in 3..6 /\ nul # num["w"]
    /\ init \in {"open", "in", "out", "err"} => tab["C"][num["w"]] = "w"
    /\ init \in {"in", "out"} => tab["C"][nul] = "null"
    /\ init \notin {"open", "in"} => tab["C"][0] = "null"
    /\ init \notin {"open", "in", "out"} => tab["C"][1] = "null"
    /\ init \notin {"open", "in", "out", "err"} => tab["C"][2] = "w"

LEMMA InitSetUp == Init => CallersFiles /\ ChildSetUp
BY NoneAssumption DEF Init, CallersFiles, ChildSetUp, Process, Number

LEMMA CallersFilesStay ==
    ASSUME TypeOK, NumbersGiven, Ends, CallersFiles, [Next]_vars
    PROVE CallersFiles' /\ (Standard' => Standard)
<1> USE DEF TypeOK, CallersFiles, Standard, At, CloseIn, caller, child, Process
<1>1. CASE Caller
  <2>1. CASE Pipe
    <3> PICK r, w \in FreeIn("P") :
          /\ r # w
          /\ num' = [e \in {"r", "w"} |-> IF e = "r" THEN r ELSE w]
          /\ tab' = [tab EXCEPT !["P"][r] = "r", !["P"][w] = "w"]
      BY <2>1, PipeNumbers
    <3>1. r \in Number /\ w \in Number /\ tab["P"][r] = "free" /\ tab["P"][w] = "free"
      BY DEF FreeIn
    <3> QED BY <2>1, <3>1 DEF Number
  <2>2. CASE CloseWriteEnd BY <2>2 DEF CloseWriteEnd, Number
  <2>3. CASE CloseReadEnd BY <2>3 DEF CloseReadEnd, Number
  <2>4. CASE Unwind BY <2>4 DEF Unwind, Number
  <2> QED BY <1>1, <2>1, <2>2, <2>3, <2>4
          DEF Caller, PipeFails, Fork, ForkFails, Read, ReadEnds, Wait, WaitFails
<1>2. ASSUME UNCHANGED <<tab["P"], num>> PROVE CallersFiles' /\ (Standard' => Standard)
  BY <1>2
<1>3. CASE ChildInit
  BY <1>2, <1>3 DEF ChildInit, OpenNull, DupIn, DupOut, DupErr, CloseRead, CloseWrite,
                    CloseNull, Exec, Abort, InitStep, Dup2, Ended
<1>4. ASSUME NEW p \in {"D", "F"}, NEW q \in Process, Start(p, q) PROVE UNCHANGED <<tab["P"], num>>
  BY <1>4 DEF Start
<1>5. CASE Others
  <2>1. CASE OpenOther
    <3>1. Lowest("P") \in FreeIn("P") BY <2>1, LowestIsFree DEF OpenOther
    <3> QED BY <2>1, <3>1 DEF OpenOther, FreeIn, Number
  <2>2. CASE CloseOther BY <2>2 DEF CloseOther, Number
  <2>3. CASE WaitOther BY <1>2, <2>3 DEF WaitOther
  <2>4. CASE ForkOther BY <1>2, <1>4, <2>4 DEF ForkOther
  <2> QED BY <1>5, <2>1, <2>2, <2>3, <2>4 DEF Others
<1>6. ASSUME NEW p \in Process, Write(p) \/ SigPipe(p) \/ Exit(p) PROVE UNCHANGED <<tab["P"], num>>
  BY <1>6 DEF Write, SigPipe, Exit, Ended, Program
<1>7. CASE UNCHANGED vars BY <1>2, <1>7 DEF vars
<1> QED BY <1>1, <1>2, <1>3, <1>4, <1>5, <1>6, <1>7 DEF Next

LEMMA ChildStaysSetUp ==
    ASSUME TypeOK, NumbersGiven, Ends, CallersFiles, ChildSetUp, ChildWaited, [Next]_vars
    PROVE ChildSetUp'
<1>1. Standard' => Standard BY CallersFilesStay
<1> SUFFICES ASSUME Standard, Standard', life'["C"] = "running" PROVE ChildSetUp'
  BY <1>1 DEF ChildSetUp
<1> USE DEF TypeOK, At, CloseIn, caller, child, Process
<1>2. ASSUME UNCHANGED <<tab["C"], num, init, nul, life["C"]>> PROVE ChildSetUp'
  BY <1>2 DEF ChildSetUp, ToBeClosed
<1>3. CASE Caller
  <2>1. CASE Fork
    <3>1. /\ init' = "open" /\ tab'["C"] = tab["P"] /\ UNCHANGED <<num, nul>>
          /\ has = {"r", "w"}
      BY <2>1 DEF Fork, Ends
    <3>2. /\ num["r"] \in Number /\ tab["P"][num["r"]] = "r"
          /\ num["w"] \in Number /\ tab["P"][num["w"]] = "w"
      BY <3>1 DEF Ends
    <3>3. num["r"] \in 3..6 /\ num["w"] \in 3..6 /\ num["r"] # num["w"]
      BY <3>2 DEF Standard, Number
    <3>4. \A n \in 3..6 : tab["P"][n] \in {"free", "theirs"} \/ n = num["r"] \/ n = num["w"]
      BY DEF CallersFiles, Ends, Number, File
    <3> QED BY <3>1, <3>2, <3>3, <3>4 DEF ChildSetUp, ToBeClosed, Standard
  <2>2. CASE ~Fork
    <3>1. ~Pipe /\ ~PipeFails BY DEF ChildWaited, Pipe, PipeFails
    <3> QED
      BY <1>2, <1>3, <2>2, <3>1
      DEF Caller, ForkFails, CloseWriteEnd, Read, ReadEnds, CloseReadEnd, Wait, WaitFails,
          Unwind
  <2> QED BY <2>1, <2>2
<1>4. CASE ChildInit
  <2> USE DEF InitStep, Dup2, ChildSetUp, ToBeClosed, Number
  <2>1. CASE OpenNull
    <3> DEFINE n == Lowest("C")
    <3>1. n \in FreeIn("C") BY <2>1, LowestIsFree DEF OpenNull
    <3>2. tab'["C"] = [tab["C"] EXCEPT ![n] = "null"] /\ nul' = n BY <2>1 DEF OpenNull
    <3>3. n \in Number /\ tab["C"][n] = "free" BY <3>1 DEF FreeIn
    <3> HIDE DEF n
    <3> QED BY <2>1, <3>2, <3>3 DEF OpenNull
  <2>2. CASE DupIn BY <2>2 DEF DupIn
  <2>3. CASE DupOut BY <2>3 DEF DupOut
  <2>4. CASE DupErr BY <2>4 DEF DupErr
  <2>5. CASE CloseRead BY <2>5 DEF CloseRead
  <2>6. CASE CloseWrite BY <2>6 DEF CloseWrite
  <2>7. CASE CloseNull BY <2>7 DEF CloseNull
  <2>8. CASE Exec BY <2>8 DEF Exec
  <2>9. CASE Abort BY <2>9 DEF Abort, Ended
  <2> QED BY <1>4, <2>1, <2>2, <2>3, <2>4, <2>5, <2>6, <2>7, <2>8, <2>9 DEF ChildInit
<1>5. ASSUME NEW p \in {"D", "F"}, NEW q \in Process, Start(p, q) PROVE ChildSetUp'
  BY <1>2, <1>5 DEF Start
<1>6. CASE Others
  BY <1>2, <1>5, <1>6 DEF Others, ForkOther, OpenOther, CloseOther, WaitOther
<1>7. ASSUME NEW p \in Process, Write(p) \/ SigPipe(p) \/ Exit(p) PROVE ChildSetUp'
  <2>1. CASE Write(p) BY <1>2, <2>1 DEF Write
  <2>2. CASE ~Write(p) /\ p # "C" BY <1>2, <1>7, <2>2 DEF SigPipe, Exit, Ended
  <2>3. CASE ~Write(p) /\ p = "C" BY <1>7, <2>3 DEF SigPipe, Exit, Ended
  <2> QED BY <2>1, <2>2, <2>3
<1>8. CASE UNCHANGED vars BY <1>2, <1>8 DEF vars
<1> QED BY <1>3, <1>4, <1>5, <1>6, <1>7, <1>8 DEF Next

\* A child of a caller with standard streams has /dev/null and the pipe as its
\* streams and no other end of the pipe, whatever other threads open meanwhile.
THEOREM ChildHasStreams == Spec => []ChildStreams
<1>1. ChildSetUp => ChildStreams
  BY DEF ChildSetUp, ChildStreams, Standard, ToBeClosed, Number
<1> QED BY <1>1, InitSetUp, CallersFilesStay, ChildStaysSetUp, EndsInvariant, WaitedInvariant,
           PTL DEF Spec
=============================================================================
