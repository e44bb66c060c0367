----------------------------- MODULE FileSystem -----------------------------
(***************************************************************************)
(* The wrappers of unistd::Operations that make, remove and look at files, *)
(* and what FileStatus says of a file, under several callers (threads or   *)
(* processes) and a symbolic link or two.  One call is one system call.    *)
(* Permissions, owners and the contents of directories are left out.       *)
(***************************************************************************)
EXTENDS Naturals

CONSTANTS Path, Caller, None

VARIABLES
    node,      \* Path -> the kind of file there is, or None
    target,    \* Path -> the path that a symbolic link there names
    closed,    \* the directory of the paths may not be searched (EACCES)
    answer     \* Caller -> [path, result, mode]: its last call that looked

vars == <<node, target, closed, answer>>

\* S_IFMT, as the set of its bits that are set.
Bits == [fifo |-> {12}, chr |-> {13}, dir |-> {14}, blk |-> {13, 14},
         reg |-> {15}, lnk |-> {13, 15}, sock |-> {14, 15}]
Kind == DOMAIN Bits

\* isFifo() ... isSocket() test whether any of the bits is set.
EitherBits(kind, mode) == mode \union Bits[kind] # {}   \* mutant of Is: | for &
Is(kind, mode) == mode \intersect Bits[kind] # {}

TypeOK ==
    /\ node \in [Path -> Kind \union {None}] /\ target \in [Path -> Path]
    /\ closed \in BOOLEAN
    /\ \A c \in Caller : answer[c].path \in Path

Nothing(p) == [path |-> p, result |-> "throws", mode |-> {}]

Init ==
    /\ node = [p \in Path |-> None] /\ target \in {[p \in Path |-> q] : q \in Path}
    /\ closed = FALSE
    /\ answer \in {[c \in Caller |-> Nothing(p)] : p \in Path}

-----------------------------------------------------------------------------
(* Looking *)

\* The paths that path resolution comes through: those in every set that has p
\* and the target of each link in it.
Through(p) == {q \in Path : \A S \in SUBSET Path :
    (p \in S /\ \A l \in S : node[l] = "lnk" => target[l] \in S) => q \in S}
\* What it ends at: a kind, None (ENOENT) or "loop" (ELOOP).
Ends(p) == {node[q] : q \in Through(p)} \ {"lnk"}
Resolved(p) == IF Ends(p) = {} THEN "loop" ELSE CHOOSE found \in Ends(p) : TRUE

Answer(c, p, result, mode) ==
    /\ answer' = [answer EXCEPT ![c] = [path |-> p, result |-> result, mode |-> mode]]
    /\ UNCHANGED <<node, target, closed>>

\* The status of what was found, or an exception.
Report(c, p, found) ==
    IF closed \/ found \in {None, "loop"} THEN Answer(c, p, "throws", {})
    ELSE Answer(c, p, "status", Bits[found])

Stat(c, p) == Report(c, p, Resolved(p))
Lstat(c, p) == Report(c, p, node[p])

\* Only ENOENT and ENOTDIR are an answer.
NotFound(p) == ~closed /\ Resolved(p) = None
StatOptional(c, p) ==
    IF NotFound(p) THEN Answer(c, p, "absent", {}) ELSE Report(c, p, Resolved(p))

-----------------------------------------------------------------------------
(* Making and removing; a call that throws changes nothing *)

Free(p) == ~closed /\ node[p] = None
Put(p, kind) == node' = [node EXCEPT ![p] = kind]

\* create_directory() is mkdir() but for EEXIST, which changes nothing either;
\* ControlGroupTree has what its callers make of the answer.
Mknod(p, kind) == Free(p) /\ Put(p, kind) /\ UNCHANGED <<target, closed, answer>>
Mkdir(p) == Mknod(p, "dir")
Mkfifo(p) == Mknod(p, "fifo")
Symlink(value, p) ==
    /\ Free(p) /\ Put(p, "lnk") /\ target' = [target EXCEPT ![p] = value]
    /\ UNCHANGED <<closed, answer>>

Rmdir(p) ==
    /\ ~closed /\ node[p] = "dir" /\ Put(p, None)
    /\ UNCHANGED <<target, closed, answer>>

\* Other programs.
Unlink(p) ==
    /\ node[p] \notin {None, "dir"} /\ Put(p, None)
    /\ UNCHANGED <<target, closed, answer>>
Chmod == closed' = ~closed /\ UNCHANGED <<node, target, answer>>

Next ==
    \/ \E c \in Caller, p \in Path :
        Stat(c, p) \/ Lstat(c, p) \/ StatOptional(c, p)
    \/ \E p \in Path : Mkdir(p) \/ Mkfifo(p) \/ Rmdir(p) \/ Unlink(p)
    \/ \E p \in Path, kind \in {"chr", "blk", "reg", "sock"} : Mknod(p, kind)
    \/ \E value, p \in Path : Symlink(value, p)
    \/ Chmod

Spec == Init /\ [][Next]_vars

-----------------------------------------------------------------------------
(* What a caller may conclude *)

\* FileStatus misses no file of its kind: a directory is isDirectory(), although
\* each function tests bits that several kinds share.  Nor is a directory taken
\* for a FIFO, a device with characters, a regular file or a link, or anything
\* but a FIFO for a FIFO.  More cannot be said: a block device isDirectory() as
\* well, and every regular file isSymbolicLink().
KindsSeen == \A c \in Caller : answer[c].result = "status" => LET mode == answer[c].mode IN
    /\ \A kind \in Kind : mode = Bits[kind] => Is(kind, mode)
    /\ mode = Bits["dir"] => \A kind \in {"fifo", "chr", "reg", "lnk"} : ~Is(kind, mode)
    /\ Is("fifo", mode) => mode = Bits["fifo"]
=============================================================================
