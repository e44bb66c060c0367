---------------------------- MODULE Credentials ----------------------------
(***************************************************************************)
(* access::dropId and the wrappers of setuid(2) ... setresgid(2): the real,*)
(* effective and saved ids of a process and what it may still do with them.*)
(* The kernel's rules are Linux's; the wrappers throw when it refuses.     *)
(* Supplementary groups are left alone by this library.                    *)
(***************************************************************************)
EXTENDS Naturals

CONSTANTS
    Id,            \* user ids, and group ids; 0 is root in both
    None

VARIABLES
    uid, gid,      \* the three ids: <<real, effective, saved>>
    op,            \* "idle", or the next step of dropId: "setgid", "setuid"
    want,          \* the id given to dropId: <<uid, gid>>
    from,          \* history: the last dropId was called with root's privileges
    end,           \* history: how it ended
    dropped        \* history: the id that the last dropId of root has set

drop == <<op, want, from, end, dropped>>
vars == <<uid, gid, drop>>

Triple == Id \X Id \X Id
All(i) == <<i, i, i>>
Holds(i, ids3) == \E k \in 1..3 : ids3[k] = i

TypeOK ==
    /\ uid \in Triple /\ gid \in Triple
    /\ op \in {"idle", "setgid", "setuid"} /\ want \in Id \X Id
    /\ from \in BOOLEAN /\ end \in {"none", "done", "refused", "busy"}
    /\ dropped \in (Id \X Id) \union {None}

\* A program of root, a program of a user, or one with the set-user-ID bit.
Init ==
    /\ \E u \in Id, e \in Id : (e = 0 \/ e = u) /\ uid = <<u, e, e>> /\ gid = <<u, e, e>>
    /\ op = "idle" /\ want = <<0, 0>> /\ from = FALSE /\ end = "none" /\ dropped = None

Privileged == uid[2] = 0

-----------------------------------------------------------------------------
(* What the kernel makes of a call; a set without elements is EPERM. *)

\* setuid(2) and setgid(2): a privileged process sets all three.
SetAll(old, i) ==
    IF Privileged THEN {All(i)}
    ELSE IF i \in {old[1], old[3]} THEN {<<old[1], i, old[3]>>} ELSE {}

\* seteuid(2), setegid(2).
SetEffective(old, i) ==
    IF Privileged \/ i \in {old[1], old[3]} THEN {<<old[1], i, old[3]>>} ELSE {}

\* setreuid(2), setregid(2): the saved id follows the effective one when the
\* real one is set or the effective one becomes other than the real one was.
SetRealEffective(old, r, e) ==
    IF Privileged \/ (r \in {old[1], old[2]} /\ Holds(e, old)) THEN {<<r, e, e>>} ELSE {}

\* setresuid(2), setresgid(2).
SetThree(old, new) ==
    IF Privileged \/ \A k \in 1..3 : Holds(new[k], old) THEN {new} ELSE {}

-----------------------------------------------------------------------------
(* The wrappers, called by the program; a refused call changes nothing *)

Uid(S) == op = "idle" /\ uid' \in S /\ UNCHANGED <<gid, drop>>
Gid(S) == op = "idle" /\ gid' \in S /\ UNCHANGED <<uid, drop>>

Setuid(i) == Uid(SetAll(uid, i))
Setgid(i) == Gid(SetAll(gid, i))
Seteuid(i) == Uid(SetEffective(uid, i))
Setegid(i) == Gid(SetEffective(gid, i))
Setreuid(r, e) == Uid(SetRealEffective(uid, r, e))
Setregid(r, e) == Gid(SetRealEffective(gid, r, e))
Setresuid(new) == Uid(SetThree(uid, new))
Setresgid(new) == Gid(SetThree(gid, new))

-----------------------------------------------------------------------------
(* dropId: "order matters" *)

UidFirst == <<"setuid", "setgid">> \* mutant of Order
Order == <<"setgid", "setuid">>

DropId(u, g) ==
    /\ op = "idle" /\ op' = Order[1]
    /\ want' = <<u, g>> /\ from' = Privileged /\ end' = "none"
    /\ UNCHANGED <<uid, gid, dropped>>

Step(step) ==
    /\ op = step
    /\ IF step = Order[1]
       THEN op' = Order[2] /\ UNCHANGED <<end, dropped>>
       ELSE op' = "idle" /\ end' = "done" /\ dropped' = IF from THEN want ELSE dropped
    /\ UNCHANGED <<want, from>>

DropGid == Step("setgid") /\ gid' \in SetAll(gid, want[2]) /\ UNCHANGED uid
SetEuid ==                         \* mutant of DropUid: seteuid, not setuid
    Step("setuid") /\ uid' \in SetEffective(uid, want[1]) /\ UNCHANGED gid
DropUid == Step("setuid") /\ uid' \in SetAll(uid, want[1]) /\ UNCHANGED gid

\* An exception: EPERM, or setuid(2) fails with EAGAIN at the limit of processes.
DropThrows ==
    /\ \/ op = "setgid" /\ SetAll(gid, want[2]) = {} /\ end' = "refused"
       \/ op = "setuid" /\ SetAll(uid, want[1]) = {} /\ end' = "refused"
       \/ op = "setuid" /\ end' = "busy"
    /\ op' = "idle" /\ UNCHANGED <<uid, gid, want, from, dropped>>

Next ==
    \/ DropGid \/ DropUid \/ DropThrows
    \/ \E i, j \in Id : DropId(i, j) \/ Setreuid(i, j) \/ Setregid(i, j)
    \/ \E i \in Id : Setuid(i) \/ Setgid(i) \/ Seteuid(i) \/ Setegid(i)
    \/ \E new \in Triple : Setresuid(new) \/ Setresgid(new)

Spec == Init /\ [][Next]_vars

-----------------------------------------------------------------------------
(* What dropId promises *)

\* After a dropId of root to a user the process has that user's ids only, and
\* keeps them whatever it calls later: no saved id leads back.
DroppedForGood == (dropped # None /\ dropped[1] # 0) =>
    uid = All(dropped[1]) /\ gid = All(dropped[2])

\* With root's privileges dropId is never refused half way ("should successfully
\* drop privileges from root", access/Operations.hpp:23-26).
RootMayDrop == from => end # "refused"
=============================================================================
