# A TLA+ model of yandex_contest_system

`yandex_contest_system` is a C++ library for running and controlling processes
on Linux: it manages version 1 control groups, terminates everything that runs
in one, starts child processes and collects what they print, and wraps a
number of system calls. This directory holds TLA+ modules for the parts of it
that keep state and meet concurrency or failure, the TLC configurations that
check them on small instances, and theorems proved with TLAPS.

Paths below are relative to the repository; `cgroup/`, `execution/` and
`unistd/` stand for `src/cgroup/` and so on.

## 1. Inventory

| Component | State it keeps | Operations | What is hard | What makes it correct |
|---|---|---|---|---|
| **Group termination**: `cgroup/Freezer.cpp`, `cgroup/Termination.cpp` | the guard's `controlGroup_`; in the kernel `freezer.state`, the tasks of the group, their pending signals | `freeze`, `unfreeze`, `terminate`, the guard's `terminate`, `detach`, moves and destructor | tasks fork, exit and are attached between any two steps; pids are reused; other threads thaw; control files fail in the middle | nobody escapes, no stranger is killed, the group is never left frozen, the call returns with the group empty |
| **Objects of one hierarchy**: `cgroup/SingleControlGroup.cpp`, `cgroup/detail/` | per object `parent_` (counted), `children_` (raw pointers), the path; the directories | `root`, `attach`, `attachChild`, `createChild`, `parent`, destruction | raw back pointers, destructors in any order, creation that fails half way, other creators and removers of the same directory | pointers never dangle, one object per group and root, directories made are removed |
| **AsyncProcess**: `execution/AsyncProcess.cpp` | `pid_`, `result_`, temporary files; in the kernel the child and its pid | constructor, moves, `wait`, `poll`, `stop`, destructor | kill against exit and reap, pid reuse, other reapers, moves that must carry the files along | no child is lost, only own children are killed, results are complete, `stop` returns |
| **getErrCall**: `execution/ErrCall.cpp` | a pipe, the child, the bytes read | one synchronous call | a write end inherited by somebody else, bounded read, a descriptor that is closed twice, standard streams that are closed | the call ends, nothing is left behind, what was written is read, the child gets the right streams |
| **Several hierarchies**: `cgroup/MultipleControlGroup.cpp` | hierarchy id to object, cache of field paths | `tasks`, `attachTask`, `attachChild`, `createChild`, `parent`, `unite`, `add`, `replace`, `remove`, folded fields | every operation is a loop of single operations that can be overtaken or fail in the middle | roll back, an answer that belongs to some moment, a fresh cache |
| **SystemInfo**: `cgroup/SystemInfo.cpp` | the shared `instance_`; three maps | `instance(forceUpdate)`, look-ups, the functions of other classes that walk over it | check then act on the shared pointer, references into a replaced object, two `/proc` files read one after the other | maps agree with each other and the kernel, one stable object, no reference outlives it |
| **ProcessInfo, ProcPidCgroup** | map from hierarchy to path | `forPid`, `forSelf`, look-ups | read against an older `SystemInfo` | the group is of the hierarchy that was asked for |
| **Control files**: `cgroup/ControlGroup.cpp` | none | read and write a field: check the path, open, transfer | check and use are apart | a value read was the file's during the call |
| **Subsystem wrappers** | none | one control file each | pairs of values, conversion of ticks and counters | values of one moment, exact times |
| **Descriptor, Pipe** | descriptor number | moves, `close`, `release` | numbers are reused by other threads | each number is closed once, by its owner |
| **System call wrappers**: `unistd/Operations.cpp`, `FileStatus` | none | one system call each | which errors are an answer; mode bits that kinds of files share | absence is reported only of what is absent |
| **MountEntry, Fstab** | entries | parse, print, load, save | escaping; uninitialised `mntent` in `save` | what is printed can be parsed; a list that is saved and loaded keeps what can be kept |
| **access::Operations** | process credentials | `dropId` and the wrappers of `setuid(2)` and its kin | order of uid and gid calls | root can drop its ids, and they do not come back |
| **DynamicLoader** | `handle_` | open, moves, `close` | `close` keeps the handle | each reference has an owner |
| **Exec, Trace, error classes** | none | - | nothing beyond the call | - |

How they interact. `MultipleControlGroup` holds one `SingleControlGroup` per
hierarchy and forwards to them; both are `ControlGroup`s, and everything they
know of the kernel goes through `readFieldByReader` / `writeFieldByWriter`.
`terminate()` uses a `ControlGroup` twice: through `Freezer`, whose file exists
in one hierarchy only, and through `tasks()`, which covers all of them.
`SingleControlGroup` and `ProcessInfo` look hierarchies up in the shared
`SystemInfo`, which reads `/proc` through `ProcPidCgroup` and `Fstab`.
`AsyncProcess` and `getErrCall` fork and exec through `Exec` and talk to the
child by files and by a `Pipe`. The library starts no threads; concurrency
comes from the program's threads, from other processes and from the kernel.
`ControlGroup.hpp:36-46` allows concurrent use of objects that have different
roots.

## 2. The modules

| Module | What it is |
|---|---|
| `Termination` | `FreezerBase`, `terminate()`, `TerminationGuard`, with the kernel's freezer, the tasks and callers of `attachTask` |
| `GroupShutdown` | what a caller of `terminate()` is promised, in four actions; `Termination` implements it |
| `ControlGroupTree` | `SingleControlGroup`, `AttachedControlGroup`, `CreatedControlGroup` and the directories of one hierarchy |
| `GroupPaths` | what a program sees of those objects, in terms of paths; `ControlGroupTree` implements it |
| `AsyncProcess` | `execution::AsyncProcess` and its children |
| `ChildProcesses` | what a program sees of those children, without pids and moves; `AsyncProcess` implements it |
| `ErrCall` | `getErrCallImpl`, both sides of its fork, the descriptor tables and the pipe |
| `SystemInfo` | the catalogue, the threads that load it and those that walk over it |
| `MultipleControlGroup` | the loops over several hierarchies, and the cache of field paths |
| `GroupSets` | what a program sees of those objects between its calls, as sets of groups; `MultipleControlGroup` implements it |
| `ControlFiles` | `fieldPath`, field readers and writers, `Memory`, `CpuAccounting` |
| `Descriptor` | `Descriptor` and the construction of `Pipe` against the process's descriptor table |
| `DynamicLoader` | `DynamicLibrary` against the loader's reference counts |
| `Credentials` | `dropId` and the setters of ids against the kernel's rules |
| `MountTable` | `MountEntry` as text and back, `Fstab` as a file and back |
| `FileSystem` | the calls that make, remove and look at files, and `FileStatus` |
| `Parts` | the eight components that have no part in each other, side by side |
| `MCTermination`, `MCControlGroupTree`, `MCAsyncProcess`, `MCParts` | values and symmetry for TLC |
| `TerminationProofs`, `ControlGroupTreeProofs`, `AsyncProcessProofs`, `ErrCallProofs`, `SystemInfoProofs`, `MultipleControlGroupProofs`, `MountTableProofs`, `PartsProofs` | theorems |

`Parts` puts the eight small components that have no part in each other into one
run. It is a sum, not a product: the variable `part` is chosen in the initial
state, names the component the behaviour is about, and never changes; the
variables of the others are `None`. Each component is an instance with
constants of its own, and each property applies where `part` says so. What the
components assume of their constants is assumed there, under a name for each,
so that TLC evaluates it and the theorems need no hypotheses. `MCParts` only
gives the constants values.

### Termination

*State.* `status` is the life of a pid: `free`, `running`, `zombie`. `member[h]`
is what the `tasks` file of the group's directory in hierarchy `h` lists,
`exists` which directories are there, `freezing` the last word written to
`freezer.state`, `frozen` the tasks in the refrigerator, `pending` those with
SIGKILL pending. Per caller of `attachTask`, `attaching` holds the writes still
to do. Per guard, `pc` is the place in `terminate()`, `todo` the hierarchies
`tasks()` has still to read, `listed` the set it builds and the kill loop then
consumes, `failed` that an exception is under way, `via` whether the guard's
destructor or a plain call of `terminate()` receives it.

*Actions.* A step reads or writes one control file or makes one system call.

| Action | Code |
|---|---|
| `WriteFrozen`, `ConfirmFrozen` | the write of `setState(FROZEN)` with the swallowed EBUSY, then the condition of `setState` (`confirm`) and that of `freeze` (`recheck`) |
| `List` | `controlGroup->tasks()` in `terminate_`, one hierarchy per step |
| `Kill` | the loop of `unistd::kill`; ESRCH is an exception |
| `Throw` | an exception from the body: control goes to the scope exit |
| `WriteThawed`, `ConfirmThawed` | `unfreeze()` in the scope exit; its own failure is `Abort` |
| `WaitEmpty` | `waitEmpty_`; the growing delay is left out |
| `Terminate`, `Detach`, `DestroyDetached`, `MoveAssign` | the operations of `TerminationGuard`; an armed guard is destroyed by `Terminate(g, "dtor")` |
| `AttachTask`, `AttachWrite` | `MultipleControlGroup::attachTask`, one hierarchy per step |
| `TaskFreeze`, `Exit`, `Reap`, `Spawn`, `Fork`, `Remove` | the kernel, other processes, the release agent |

*Modes.* `Serial` says that one thread makes all the library calls, so no two
overlap, and that this thread is the parent that would reap a task it attaches.
`ReleaseAgent` says that somebody removes empty directories. What `terminate()`
promises needs `Serial` without `ReleaseAgent`: a second thread's thaw undoes
the freeze, which the code does nothing about. What must hold in any case is
that the group is not left frozen.

### GroupShutdown

Two variables: the tasks of the group, and whether a call has closed it. Before
that, tasks change freely; after it they can only become fewer, and the call
returns when there are none. The mapping takes for `group` the tasks of the
freezer's directory and for `closing` the states from the end of the kill loop
to the return (`Doomed`).

### ControlGroupTree

*State.* An object has `owner` (the thread it belongs to), `path`, `parent`,
`created`, `child`; the program holds `handles[o]` pointers to it. A thread in
the loop of `attachChild` or `createChild` has `cur`, the components `rest`
still to visit, and `fresh`, a group that exists but whose cpuset has not been
configured. `dirs` are the directories, `busy` those with a task. Two history
variables serve the properties: `lost`, the objects whose directory somebody
else removed, and `kept`, the directories that somebody else made or that a
destructor could not remove because of a task or a group that is not its own.

*Actions.* `Root`, `Call`, `Return`, `Parent`, `Release` are the program's
operations; `AttachDots`, `AttachKnown`, `AttachNew` are the branches of
`attachDirectChild`; `CreateRefused`, `MkdirFails`, `Mkdir`, `ConfigureCpuSet`,
`ConfigureFails` those of `createDirectChild`. `Destroy` runs the destructor of
an object whose last reference is gone, which drops the reference to its
parent; no other step of that thread comes before it. An exception drops
`current`, and with it every group created so far on the path. `static attach()`
is `Root` followed by `Call` and `Release`. `Occupy`, `Vacate`, `OthersMkdir`
and `OthersRmdir` are tasks and other programs.

*Directories and paths.* `known`, `held`, `claims`, `sound` and `at` at the end of the
module are the mapping to `GroupPaths`.

*Left out.* Names are model values; the check for absolute paths and the
refusal of control file names are covered by `MkdirFails`, which is possible
at any name. A group that cannot be made for want of memory is not modelled.

### GroupPaths

A program that uses `SingleControlGroup` deals in paths: it has a root, walks
down by names and up by `..`, keeps some of the groups it has met, and makes
and loses directories. This module says so without objects, counts and
`children_`: per thread the paths it knows, holds and has made, and where its
call is. A name is walked to if its directory exists or the thread knows it
already; `..` of the root is the root; a call returns the path at the end of its
walk or fails with nothing held. What a thread knows it may forget, but only if
it neither holds it, nor is at it, nor knows a group below it, and a directory
goes only with a group that the thread has made, or through somebody else. The
claim to a directory is `sound` as long as nobody else has removed it; a sound
claim is not given up without an attempt to remove the directory. In the
mapping a path stands for all the thread's objects of it, so that making a
second object of a group, dropping one of several pointers and destroying one of
several objects are stuttering steps.

### AsyncProcess

*State.* `proc`, `ours`, `doomed` and `stdout` describe pids: what runs under
one, whether it is a child of the program, whether SIGKILL is pending, and the
file it writes to. `pid`, `file`, `result` are members of the object, `pc` and
`call` the next system call of a running member function. `out_` and `err_` are
one file, because the code treats them alike; `in_` never changes.

*Actions.* `Start` is the constructor (failing exec is a child that exits),
`Swap` both moves, `Call` the entry of `wait`, `poll`, `stop` or the destructor,
`WaitPid`, `PollPid`, `Kill`, `CollectOutput` the system calls, in the code's
order. `result_` is set before the output is read, so a failing read leaves a
result without output.

### ChildProcesses

*State.* The children that run, those that have ended, the doomed ones, what each
has written, and the reports on those that have been waited for. A child is named
by its output file, which stays the same in every move, so `Swap` maps to no step.

*Actions.* `Start`, `Write`, `Kill`, `Exit`, `WaitFor`, `Collect`, `Forget`: a
child goes through them in this order, and cannot be killed once it has ended,
reported before it has been waited for, or forgotten before it is reported.

### ErrCall

*State.* `tab` is the descriptor table of each process: the caller `P`, the
child `C`, a process `D` that the child starts and `F` that another thread of
`P` forks. The numbers matter: `pipe(2)` and `open(2)` take the lowest free
ones, any of the standard streams may be closed at the start, the pipe is
inherited by every fork. `has` and `errBuf` say who believes to own which end;
`theirs` are numbers under which another thread of `P` has opened a file.

*Actions.* `Pipe` to `Unwind` are the caller's, in the code's order, `Unwind`
with both destructors, whether by return or exception; `OpenNull` to `Abort`
are `executeChildInit` in the child; `Write`, `SigPipe`, `Exit`, `Start` what
the started programs do; `ForkOther`, `OpenOther`, `CloseOther`, `WaitOther`
the other threads of `P`. A number that its thread believes to own may have
been closed under it by the call: that is why `theirs` and `tab` are two
variables.

### SystemInfo

*State.* The kernel's hierarchies (`subs`) and mounts (`mnt`), which `Mount` and
`Unmount` change up to `MaxChanges` times; `instance`; per catalogue its maps;
per thread the counted pointer `ptr`, the reference `ref` that a range-for keeps
without one, the hierarchies still to visit and the groups made.

*Actions.* `Begin` with the atomic load, `LoadHierarchies` and
`LoadMountpoints` for the two files of the constructor, `Store`, then `Got`,
`Visit`, `MakeSingle`, `Return` for what the callers in `MultipleControlGroup`,
`SingleControlGroup` and `ProcessInfo` do with it. A catalogue without a
pointer is freed: its maps are emptied and it may be allocated again.

### MultipleControlGroup

Groups of depth one, each in one hierarchy; what a `SingleControlGroup` does
with deeper paths is in `ControlGroupTree`. An operation is a record `op` with
the hierarchies still to do; `AttachOne`, `CreateOne`, `SetOne`, `GetOne` do
one of them, `ChildFails` and `FieldFails` are an exception at any of them.
`Assign` drops what an assignment to `id2cgroup_` leaves without a pointer, and
with it a created directory. `notify_on_release`, `release_agent` and
`clone_children` have one shape, and the model has one of them.

### GroupSets

Between its calls a program has objects that are sets of groups, no two of a set in
one hierarchy. A call makes an object of existing groups, adds, replaces or removes
a group, or makes an object of all the parents or of all the children of one name;
it does so at once and for all hierarchies. What is created is nobody's before the
call, and `created`, the groups that the objects will remove, are those that some
object still has. There are no loops, no half-made objects and no failures: in the
mapping (`sets`, `created` at the end of `MultipleControlGroup`) the steps of a loop
are stuttering steps, and so is an exception, with all it takes back.

### ControlFiles

`Check` and `Read` or `Write` are the two halves of every access, with the group
removed or made again in between. `family` chooses the files: a limit with its
counters, the two bits of `move_charge_at_immigrate`, the keys of
`oom_control`, the two clocks of `cpuacct.stat`. `countToUnits` multiplies in an
unsigned type of width `Modulus` and divides after it.

### Descriptor, DynamicLoader, Credentials, MountTable, FileSystem

`Descriptor`: a number is free, the program's or an object's; `Open` may give a
closed number to anybody. `DynamicLoader`: `refs` are the loader's counts,
`refused` the references that a refused constructor loses; the move
constructor's swap with an uninitialised `handle_` may have any outcome.
`Credentials`: the wrappers are one step, `dropId` two, with the kernel's rules
for real, effective and saved ids. `MountTable`: a character is its code;
`escape` and `unescape` are functions on sequences of codes. The file of an
`Fstab` is a sequence of lines, a line the six texts that `addmntent(3)` writes with a
blank after each, the last line what has arrived of it. `Fstab::save` leaves three
pointers uninitialised, so that for each line any texts of `Garbage`, the empty one
included, come in the places of directory, type and options; a crash is the other outcome.
`Load` reads like `getmntent_r(3)`: blanks in a row separate once, so that an
empty text is not seen and those behind it move up, and a line that is blank or
begins with `#` is skipped. A line is taken to fit the reader's 8 KiB.
`FileSystem`: kinds of files as sets of mode bits, symbolic links that may
dangle or loop, a directory that may not be searched.

## 3. The runs

| Run | Question | Instance | States | Time |
|---|---|---|---|---|
| `termination_multi` | does anyone escape the kill, is the group empty on return | 3 tasks, 2 hierarchies, 1 guard, 1 attacher, serial | 46 932 | seconds |
| `termination_live` | does the call return, fail, kill a stranger; does it implement `GroupShutdown` | 3 tasks, 1 hierarchy, 2 guards, serial, fair | 23 728 | seconds |
| `termination_threads` | can a group stay frozen | 2 tasks, 2 guards in 2 threads, 1 attacher, directories may go | 513 229 | half a minute |
| `termination_union` | *violated*: "Terminates all tasks in specified control group" | 2 tasks, 2 hierarchies | - | |
| `termination_release` | *violated*: the guard's destructor lets no exception out | directories may go | - | |
| `tree_shared` | dangling pointers, duplicate objects, two creators, directories left behind; does it implement `GroupPaths` | 2 threads, 4 objects, tasks, other programs, cpuset | 369 584 | two minutes |
| `process_safe` | lost children, mixed results, wrong kill | 2 objects, 3 pids, kill and reads may fail | 93 484 | seconds |
| `process_live` | does `stop` return | 2 objects, 2 pids, foreign reaper, fair | 595 202 | a minute or two |
| `process_killfails` | *violated*: a failing kill is reported | 1 object, 2 pids | - | |
| `errcall` | is the output complete, is something left open, do other files stay, which streams has the child, does the call end | 7 numbers, 4 processes, pipe of 1 byte, capacity 2, any standard streams closed, fair | 150 060 | 20 s |
| `parts` | the eight components of `Parts` | see *Bounds* | 1 400 412 | three minutes |
| `catalogue_shared` | *violated*: objects of different threads are independent | 2 threads, no mounts | - | |

Deadlock checking is off in all of them: a program may destroy its objects, or
simply make no further call.

### Properties

*Termination.* `NoEscape`: from the end of the kill loop to the return, every
task of the freezer's directory has SIGKILL pending. `NoStrayKill`: a SIGKILL
goes to a member of the group. `NeverThrows`: no listed pid is gone when it is
killed. `EmptyOnReturn`: a call that returns normally does so with every
directory empty, although `tasks()` reads them one after the other.
`NobodyLeavesFrozen`: when the group is frozen, some call is on its way to the
thaw. `Returns` and `ImplementsShutdown`: the call ends and looks to its caller
like `GroupShutdown`. `NoStrayKill` and `NeverThrows` are checked with one
hierarchy because they do not hold with two: a task that is in the other
hierarchy only is listed, not frozen, and may be gone when its turn comes.

*ControlGroupTree.* `NoDanglingPointer`: the raw pointers of `children_` and
the counted ones of `parent_` agree and are alive. `OneObjectPerGroup`: below
one root a control group has one object, and the parent finds it.
`OneCreator`: of objects whose directory nobody else removed, one created it,
and it is there. `NothingLeftBehind`: a directory that the program made has an
object that will remove it, unless its rmdir was refused for something that is
not the program's; this covers creations that fail half way. `ActsOnPaths`: every
behaviour is one of `GroupPaths`, so that a program may think in paths whatever
order pointers go in.

*AsyncProcess.* `EveryChildHasOwner`: each unreaped child is waited for by one
object. `OnlyOwnChildKilled`: SIGKILL goes to a child the object started and has
not reaped. `ResultIsComplete`: a result is that of the object's own child, with
all it has written, whatever was moved in between. `ImplementsChildren`: every
behaviour is one of `ChildProcesses`. `StopReturns`: `stop()` and the
destructor end.

*ErrCall.* `OutputComplete`: reading stops before the capacity only when the
pipe is empty and nobody can write to it. `NothingLeft`: whichever step fails,
no end of the pipe stays open and no zombie is left. `OthersFilesStay`: the
call closes files of other threads only under the number of its read end, which
it closes twice (`ErrCall.cpp:67` and `80`): in between another thread may have
been given the number, and the model shows that it then loses its file.
`ChildStreams`: a caller that has its standard streams starts the program with
the right three and no other end of the pipe. It does not hold for a caller
without, as the descriptors that are set up have numbers that are then
overwritten; no document promises that. `CallEnds`.

*The parts.* `OwnedOnce`: a descriptor number that was given to an object is in
exactly one. `Accounted`: the
loader's count is what the objects, others and refused constructors have, as
long as the program closes nothing that it keeps. `DroppedForGood`,
`RootMayDrop`: after `dropId` of root the old ids are gone for good, and
nothing refuses it half way. `WrittenIsRead`: a printed entry is parsed back
unless its device begins with white space that `escape` leaves; a saved list does
not grow, and keeps its numbers if no line was cut short, had an empty text or
begins with `#`. `KindsSeen`: what may be concluded from a file's mode.
`ReadIsCurrent`: a getter's value was in the file during
the call, both parts of a pair at once, and no tick is lost. `CatalogueTrue`,
`AskedFor`, `StableUnlessForced`: what a catalogue says of the kernel, that a
group asked for by subsystem has it, and that `instance()` changes only when
forced. `CacheIsCurrent`, `GroupsNothingLeft`, `AnswerTrue`: remembered paths
are of groups the object still has, a creation that failed is rolled back, and
a folded value is true of all hierarchies. `ActsLikeSets`: every behaviour is one
of `GroupSets`.

What some of these leave out on purpose: `Accounted` is of programs that close
nothing they keep; `ReadIsCurrent` excludes products of ticks that wrap; `CatalogueTrue` is of
catalogues under which nothing has changed, and `AnswerTrue` of calls with which
nobody interfered; `StableUnlessForced` and `AskedFor` are for one thread;
`OneCreator` excuses a directory that others have removed, also when they have made it again.
The code promises no more in these cases, and section 5 says what it does in some.

Each property has a mutant in `PROJECT.json`: a plausible error in one mapped
definition under which the run finds the property violated. `TypeOK` and
`PartsTypeOK` are the type invariants; that of `Termination` is proved, not run.

### Bounds

*Termination.* Three tasks are a task that is listed, one that is forked or
attached behind it, and a stranger that takes a freed pid. Two guards are needed
for moves, and for overlapping calls in `termination_threads`; a third would
repeat what the second does, since they share only the kernel's state. Two
hierarchies are the one with the freezer and one without.

*Tree.* One name at two depths gives a parent, a child, creations that fail
after a first success, and requests through `.` and `..`; two pointers to an object
are one that stays when the other goes; four objects are two threads'
trees of depth one or one tree of depth two beside a root. The theorems are for
any number of names, threads and objects and any depth.

*Processes.* Two objects swap, and two or three pids allow a reuse; `MaxOutput`
1 tells empty from complete. *ErrCall.* Numbers 0 to 6 are the three standard
streams, two ends, `/dev/null` and one file of another thread; a capacity of 2
over a pipe of 1 makes the writer wait and the reader stop with the writer
still at work.

*Parts.* Descriptors: three objects and numbers, a pipe beside one object.
Loader: three objects, two libraries. Credentials: root and one user. Mount
table: names of up to two of three characters, a blank, a form feed and a backslash;
two entries, one with options and one without; an uninitialised pointer points to nothing or
to `#`, which with entries without options gives every way of losing a text or a line. A
file that has lines is not written once more (`MaxKept` = 0: opening empties it, so a second
save starts from the same state as the first). Files: two paths,
two callers. Control files: limits 1 and 2, three ticks at rates 2 and 3, a
count modulo 8, so that a product wraps; the property excludes what wraps.
Catalogue: two ids, subsystems and directories, two mounts or unmounts, one
thread (`catalogue_shared` has two). Groups: two objects, two hierarchies, one
name, one field that only one hierarchy has. Two hierarchies are one where a
loop has been and one where it fails; two objects are an object and the one that
a call makes, or two that share their groups.

`MaxDepth`, `MaxHandles`, `MaxTrees`, `MaxOutput`, `MaxRefs`, `MaxEntries`,
`MaxKept`, `MaxTicks`, `MaxSeen`, `MaxChanges` appear in guards of environment or program
steps only, so that they limit how much is asked of the code, never what it
does. `MaxHandles` is in the guard of a call (`Room`): with fewer pointers than
that to each of its objects a thread may call, and whatever object the call ends at,
it returns, the second pointer to one that the program already holds
included.

### Fairness

`termination_live`: a thread inside `terminate()` keeps running (`WF` of its
steps: the scheduler); a task with SIGKILL that is not frozen ends (`WF` of
`Killed`: the kernel); a task of a freezing group that is asked again and again
enters the refrigerator (`SF` of `TaskFreeze`). The last must be strong: with
weak fairness a chain of tasks, each forking the next and exiting, keeps every
single `TaskFreeze` disabled infinitely often and the call never returns. The
kernel flags each new child of a freezing group and it freezes before it
returns to user mode, so such a chain cannot outrun it. Nothing is assumed of
tasks outside that: they need not exit by themselves. No fairness is assumed
of several callers of `freeze` and `unfreeze` against each other.

`process_live`: a thread inside a call keeps running, a process with SIGKILL
ends. Nothing else ends by itself, so `stop()` really depends on its kill. A
foreign reaper may wait for the child first; the one way in which `stop()` may
then wait for ever is that the pid has been given to another child of the
program, and the property says so.

`errcall`: the caller keeps running, and so does the child up to its exec. A
child that has the pipe as its stderr need not end: it may write for ever, and
the call ends because it stops reading at the capacity, closes its end and the
child meets SIGPIPE. A child that has no pipe there (the caller had no standard
streams), and other processes that have inherited the write end, are assumed to
end; the code has no time limit, and with a process that keeps the write end
open and silent it does wait for ever.

## 4. What is proved

All theorems are for any finite or infinite sets in place of the constants, from
the named assumptions of the modules: `None` is none of the values it stands
beside, bounds are natural numbers, modes are Boolean. Where a theorem needs a
mode, it says so with `ASSUME`.

**`TerminationProofs`.** `TypeCorrect`. `FrozenHasOwner`:
`Spec => []NobodyLeavesFrozen`, in every mode; the proof follows the one guard
that is between freeze and thaw. With `Serial`, `NothingEscapes` and
`ReturnsEmpty`: `NoEscape` and `EmptyOnReturn`. They rest on `SerialInv`, which
is inductive where they are not. It has three parts. `OneCallAtATime`: calls of
the library do not overlap, so nobody thaws or attaches between freeze and kill.
`MembersRun`: a member of the group runs, so a kill of a listed task that is
still a member leaves a signal pending. `Caught(g)`: at the listing the group is
frozen; a hierarchy has been read completely or is still to be read; in the kill
loop every task is in the rest of the list or has its signal; after it all have
it, and a task that has a signal does not fork; and a directory that
`waitEmpty_` has read as empty stays empty while the others are read, because a
forked task comes into a directory only with its parent. The last is what makes
the piecewise `tasks()` in `waitEmpty_` safe. With `Serial`, no release agent
and one hierarchy, `NothingIsThrown` and `OnlyMembersAreKilled`: `NeverThrows`
and `NoStrayKill`, from `ListedInv` (what is listed is frozen, so no listed task
leaves the group, and no listed pid becomes free, before its kill). With `Serial`
and no release agent, `TerminateImplementsShutdown`: every step of `Termination`
is a step of `GroupShutdown` or leaves its variables alone.

**`ControlGroupTreeProofs`.** `TypeCorrect` with lemmas about paths.
`PointersAreValid` and `ObjectsAreShared` (`NoDanglingPointer`,
`OneObjectPerGroup`) rest on `Tree`, the conjunction of two parts. `Pointers`
adds to the first property what makes it inductive: what is not allocated has no
children; `current` and the object that is being configured are live and of the
same thread, and the latter's place in `children_` is empty. `Entries` says of an
object that is in no `children_` that nothing but `fresh` refers to it, that its
place is empty, and that it is the one its thread is configuring if there is
one: without it the destructor of a half created object could erase the entry
of another, since it erases by name (`SingleControlGroup.cpp:56`). That a
thread's destructors come before its next step (`Ready`) is what excludes a
second such object. `CreatorsAreUnique` and `DirectoriesAreRemoved`
(`OneCreator`, `NothingLeftBehind`) are inductive over the types alone: mkdir
makes only what is absent, and an rmdir that fails has an excuse.
`ObjectsActOnPaths`: every step of `ControlGroupTree` is one of `GroupPaths` or leaves
its variables alone. Besides the invariants above this needs `Ancestry`: the
path of a child is its parent's and one more name, and that of an object
without parent is the root. From it `..` leads to the right path, a group that
is known has its ancestors known, and a destructor takes a path away
only if no object below it is left. `OneCreator` makes the path stand for
its creator: what a destructor takes from `sound` is one claim.

**`AsyncProcessProofs`.** `TypeCorrect`. If no other code waits for the
children (`~ForeignReaper`), `ChildrenHaveOwners`, `ResultsAreComplete` and
`KillsOwnChild`, from `Owners` (files tell objects apart; an object without
result has a child, which writes to that object's file; every child has its
object) and `Results` (a result is final). `Calls` ties the place in a call to
the members of the object. `ChildrenAreWhole`: under the same assumption
`AsyncProcess` implements `ChildProcesses`, one lemma for each action. It needs
`DoomedRun` besides, that a signal is pending only for a child that runs, or a
reused pid would be doomed; `FilesApart`, that the files of the children and of
the results differ, makes each step one of a single abstract child.

**`ErrCallProofs`.** `TypeCorrect`; `NothingIsLeft` from `Ends` (the caller has
an end exactly under the number that it owns, as far as it has got) and
`ChildWaited`; `OutputIsComplete`, since without a holder of the write end
nobody gets it again; `OthersKeepFiles`; `ChildHasStreams` from `CallersFiles`
and `ChildSetUp`, which follows the child of a caller with standard streams
through `dup2` and `close`. They hold for any capacity and pipe size; the numbers
0 to 6 and the four processes are those of the module.

**`SystemInfoProofs`.** `TypeCorrect`, and `CatalogueIsTrue` for any number of
threads. The kernel may change between the two files of the constructor and at
any time after it, so the invariant keeps apart what is true and what merely
fits together. `Told` says of every catalogue: as long as nothing has changed
since its first file was read, the maps from that file are the kernel's
(`FirstTrue`), and so are those from the second, unless a thread is still
between the two (`SecondTrue`); and changed or not, subsystems and
directories in it agree with each other (`Fits`). `Loading` says that a catalogue that
is between its files belongs to one thread and is neither `instance_` nor in any
group's past, so nobody can see it half done. `Hierarchies` is the kernel's own
rule, a subsystem is in one hierarchy; `Published` that `instance_` stays set.
`OneThreadIsSafe`: with one thread a walk never meets a freed catalogue, a group
asked for by subsystem has it, and `instance()` changes only when forced; from
`Fetched` and `Asked` (between `instance()` and the end of the call that thread's
pointer, its reference and `instance_` are one catalogue). The run
`catalogue_shared` shows that the hypothesis is needed.

**`MultipleControlGroupProofs`.** `TypeCorrect`, `CacheNeverStale`,
`FailureIsUndone` and `GetterIsTrue`: the types, `CacheIsCurrent`,
`GroupsNothingLeft` and `AnswerTrue`. Besides the types and `CacheIsCurrent`, the
invariant has five parts. `Child`: the
object that a running call fills is not yet one of the program's and has the child
in the hierarchies that the loop has done, and no group in the others. `Fresh`: what
a running `createChild` has made is in no other object. `Vacant`: storage
without an object has neither groups nor paths. `Owned`: every group that would
remove its directory is pointed to by an object, or by the call that has created it,
whatever is assigned to `id2cgroup_`. `Told`:
the hierarchies that a getter or a setter has done with have its value; a write
to one leaves the others, as an object's groups are of different hierarchies.
`ObjectsActLikeSets`: `MultipleControlGroup` implements `GroupSets`, one lemma for
each action. `AssignBecomes` does most of it: an assignment to `id2cgroup_` removes
just the created groups that no object has any more. `ChildFailsActs` needs `Fresh`
and `Owned`: a failed `createChild` drops all that it made, as nobody else can have
it, and nothing else, as the rest has an object.

The properties of these two are stated of the instances in `Parts`, under the
same names; their assumptions on constants are `Constants` in each.

**`MountTableProofs`.** What an entry is printed as is parsed back, for names of any
length over any bytes. The code walks over characters, the model folds over them,
and a fold is, by its definition, what a `CHOOSE` picks. So the proof has
three layers.

* *Folds and induction.* The induction theorems of the library cannot be
  instantiated by the provers, as their parameter is an operator. A set can
  be: `Induct` says that a set with 0 and all successors has every number, and is
  derived from `Least` and that from the well-foundedness of `<`. `FoldExists` shows that
  the function that a fold chooses exists, `FoldRun` that its value is the last
  state of a run with one step for each character. `UnescapeRun`, `SplitRun`,
  `FlattenRun` and `EscapeRun` are the runs of the code's four loops.
* *Texts.* `EscapeReturns`: `unescape` undoes `escape`, by induction over
  the characters; an escaped one is four steps that go from `octal` 0 to `octal` 0 and
  add that byte (`TakePiece`). `EscapeFacts`: no blank and no new line is left in an escaped field, and it
  is empty only if the field is. Hence `SplitLine`, the six fields of a line
  come apart where they were put together, and `TrimText`, white space is taken
  from around a line and not from within.
* *The state machine.* `ConvInv`: a text was made of a complete entry that the program has made,
  and a parsed entry of a text with white space around it. `EntriesReturn` and
  `ConvTyped` follow from it.
* *Lists.* `ListInv`: rows in memory are well formed, and line k of the file has the
  numbers of row k of what was saved, if it is whole. `WordsRun` and `LoadRun` are the runs of the
  two loops of the reader; `Adds` says that a line adds one row or none, so a loaded list
  cannot be longer than the file, and `PlainIsRead` that a line with six texts
  and no `#` adds one that has its numbers. `FileLoadKeeps` is then an induction over the lines
  (`Holds`).

The exceptions in `EntryComesBack` and `ListComesBack` are needed: see section 5.

**`PartsProofs`.** The properties of the run `parts`, one theorem for each, from
one invariant: `PartsInv` says of each component that the behaviour is either not
about it or keeps that component's invariant. For `SystemInfo` and `MultipleControlGroup` the invariant and
the proof that steps keep it are those of the modules above, instantiated as
`SP` and `GP`; the lemmas called `...Same` say that these instances have
the actions and properties of `S` and `G`. `PartSteps` takes a step of
`Parts` apart. The invariants of the other five are in the module itself:

* *Descriptor*, `Owned`: the two halves of `OwnedOnce`, `OneOwner` and `NoneLost`, with
  the types are inductive together, none of them is alone.
* *DynamicLoader*, `LoaderInv`: the count of references, by counting the objects that
  have a library (a load adds one, the destructor takes one, a swap puts one in the
  place of another), and the types. That no count of others passes the loader's bound follows
  from the accounting and not from a guard (`CountedBounded`).
* *Credentials*, `IdsInv`: besides `DroppedForGood` and `RootMayDrop` it has
  `RootIsDropping`, a `dropId` of root keeps root's privileges up to its last call,
  since the group ids go first. `OneIdStays` says of each of the kernel's rules
  that who has one id in all three places, not root's, keeps it.
* *FileSystem*, `FileInv`: an answer with a status has the mode bits of some kind of
  file. `KindsAreSeen`.
* *ControlFiles*, `ControlInv`: what a file of each family may hold (`Fits`) and where
  a call stands (`CallInv`: `seen` has the content of now and a result
  is a getter's value of something in it). With it go two lemmas of arithmetic:
  `CountIsExact`, the conversion of ticks loses less than one unit as long as the
  product fits the counter, and `MaskComesBack`, the two bits of a configuration
  are read as they were written. `ReadsAreCurrent`.

`AskedForIsFound` and `CatalogueIsStable` have the hypothesis that one thread uses
the catalogue, as the run has.

`PartsAreTyped` is about the types of all eight components together; they are parts
of the invariants above.

Only model-checked: liveness (`Returns`, `StopReturns`, `CallEnds`) and the
fairness of `GroupShutdown`, which are beyond the prover. Every invariant and every
action property of the passing runs is a theorem, some under the hypothesis of a mode
that the run has too.

## 5. Where the code and its words differ

* `termination_union`. `terminate_()` lists the tasks of all hierarchies and
  freezes one. `attachTask` writes one hierarchy after the other; a task forked
  in between, or attached only in part, is in the group but not in the freezer,
  keeps forking, and its children are not killed. `Termination.hpp:11` says
  that all tasks are terminated.
* `termination_release`. `unfreeze()` runs in the destructor of the scope exit.
  If the directory is gone by then, its exception ends the program, past the `catch (...)` in `~TerminationGuard` that was to log it.
* `process_killfails`. `if (!::kill(pid_, SIGKILL) < 0)` (`AsyncProcess.cpp:171`)
  is never true; the exception below it is never thrown.
* `catalogue_shared`. `for (... : *SystemInfo::instance())` in
  `MultipleControlGroup.cpp` drops the counted pointer before the loop runs. If
  two threads find no catalogue, each loads and stores one, and the second store
  frees the one the first thread is walking over. `ControlGroup.hpp:45-46` says
  that objects of different hierarchies of objects may be used in different
  threads.

Seen while modelling, without a run of their own:

* `FileStatus.cpp:14-40` tests bits of `S_IFMT` that kinds share: every regular
  file `isSymbolicLink()`, a block device `isDirectory()`. `KindsSeen` states what
  remains true.
* `Fstab::save` (`Fstab.cpp:53-60`) stores directory, type and options all in
  `mnt_fsname` and leaves the other pointers of the entry uninitialised. What
  is written as device are the options. If one of the other pointers happens to point to an
  empty text, the fields behind it move up when the line is read, and the
  numbers are lost; options that are empty do the same, and a line that begins
  with `#` is not read at all. `WrittenIsRead` states what remains true of a saved list.
* A group asked for by subsystem is found with two
  look-ups, each with its own `instance()` (`SingleControlGroup.cpp:217`, `212`). If another thread forces an update
  between them and the kernel has moved the subsystem to another hierarchy, the
  group is of the old one. `AskedFor` and `StableUnlessForced` are therefore
  checked and proved for one thread.
* `trim_copy` (`MountEntry.cpp:19`) removes every kind of white space, `escape`
  takes care of blanks, tabs and new lines only: a vertical tab, form feed or carriage
  return at the beginning of a device is lost. `EntryComesBack` excepts such devices.
* `DynamicLibrary::close` keeps `handle_`, the move constructor swaps with an
  uninitialised one, and a refused constructor loses the reference it got.

## 6. Not modelled

* `Exec`, `ExecImpl`, `CharStarStar`: argument arrays that are built once. `Trace`
  and the error classes: formatting.
* Calls of `unistd::Operations` that are one system call without state of the
  library: chmod and chown, fstat, sendfile, epoll, rlimits, timers, usage.
  `Operations.cpp:338` narrows a long timeout to the `int` of `epoll_wait(2)`.
* `setId`, `setEffectiveId`, `setRealEffectiveSavedId` (`access/Operations.cpp`):
  declared in no header, so no program can call them. `attach()` for given
  hierarchies in `MultipleControlGroup.hpp:86` cannot be instantiated.
* `MemorySwap`, `usage_percpu`, the other fields of `CpuSet`, the other setters of
  control groups: each has the shape of one that is modelled. `hasOpt`, `symbol`,
  `dladdr`: look-ups. The iterators of `ProcessInfo`, and its ids that may be
  stale (`ProcessInfo.cpp:85`), beyond the single look-up in `SystemInfo`.
* Formatting, logging and error details, permissions and modes of directories,
  the counts and delays of `terminate()`, nested freezers. A frozen ancestor, and
  two threads that freeze and thaw against each other, keep `freeze` or `unfreeze`
  waiting for ever; this is the kernel's or the program's doing and listed as a
  hazard without a property.
* `attachChild` hands out an entry of `children_` without looking whether its
  directory is still there; the model has this behaviour, and no document
  promises more.
* Numbers 0 to 2 in the child of `AsyncProcess` (`AsyncProcess.cpp:48`): the like
  is in `ErrCall`. Move assignment of `TerminationGuard` drops the target's group
  without terminating it; this is in `Termination` (`MoveAssign`).

## 7. Plan

1. Done: all components of the inventory that have state, as above.
2. Done: every safety property of the runs is a theorem.
3. Done: abstract specifications of `Termination`, `ControlGroupTree`,
   `MultipleControlGroup` and `AsyncProcess`, and the proofs that they are
   implemented; of `GroupShutdown` the safety part.
4. Left: the system calls of `unistd::Operations` that are not used by the parts
   above, and the iterators of `ProcessInfo`.
