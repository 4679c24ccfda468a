---------------------------- MODULE UmountRace ----------------------------
(***************************************************************************)
(* kunit/xfstests/generic/604.c: a kthread unmounts XFS_SCRATCH_MNT while  *)
(* the case, 10 ms later, mounts it again; then the deferred action        *)
(* unmounts what is left with xfs_scratch_umount() of nfs_fixture.c.       *)
(*                                                                         *)
(* xfs_umount() and xfs_mount_at() each look the mount point up, which     *)
(* takes a reference on the topmost mount, and then work on what they      *)
(* found.  Nothing but the sleep orders the two.                           *)
(***************************************************************************)
EXTENDS Integers, Sequences

CONSTANTS
    Files,       \* G604_FILES
    SweepTries   \* sweeps of xfs_scratch_umount() (8)

\* Two mounts can be left to sweep, and one more sweep finds that none is.
ASSUME UmountRaceAssumption ==
    Files \in Nat \ {0} /\ SweepTries \in Nat /\ SweepTries > 2

VARIABLES
    main,      \* where the case is
    written,   \* the files written so far
    pending,   \* delayed fputs that pin the first mount
    stack,     \* the mounts on XFS_SCRATCH_MNT, the topmost first
    path,      \* the mount each thread has looked up and holds, 0: none
    refs,      \* the threads that hold a reference on what they looked up
    um,        \* where the umount kthread is
    umErr,     \* u.err
    mountErr,  \* err of the second xfs_scratch_mount()
    sweeps     \* xfs_scratch_umount()'s counter

vars == <<main, written, pending, stack, path, refs, um, umErr, mountErr, sweeps>>

OK == 0
EBUSY == -16
EINVAL == -22

Init ==
    /\ main = "write" /\ written = 0 /\ pending = 0
    /\ stack = <<1>>
    /\ path = [main |-> 0, um |-> 0] /\ refs = {}
    /\ um = "unborn" /\ umErr = OK /\ mountErr = OK
    /\ sweeps = 0

-----------------------------------------------------------------------------
(***************************************************************************)
(* The kernel's mounts (external).                                         *)
(***************************************************************************)

\* kern_path() crosses into the topmost mount, if any.
Top == IF stack = <<>> THEN 0 ELSE Head(stack)

\* path_umount() refuses a mount that someone else has a reference on, or
\* that has another mount on top.
Busy(m, other) == Top # m \/ (other \in refs /\ path[other] = m) \/ (m = 1 /\ pending > 0)

\* The mounts without m and what is stacked on it.
Without(m) == SelectSeq(stack, LAMBDA x : x < m)

DelayedFput ==
    /\ pending > 0
    /\ pending' = pending - 1
    /\ UNCHANGED <<main, written, stack, path, refs, um, umErr, mountErr, sweeps>>

-----------------------------------------------------------------------------
(***************************************************************************)
(* g604_do_umount() in its kthread.                                        *)
(***************************************************************************)

UmountLookup ==
    /\ um = "lookup"
    /\ path' = [path EXCEPT !.um = Top] /\ refs' = refs \cup {"um"}
    /\ um' = "umount"
    /\ UNCHANGED <<main, written, pending, stack, umErr, mountErr, sweeps>>

\* Defect: the unmount is lazy and takes whatever is on top along.
FaultyUmount ==
    /\ um = "umount"
    /\ IF path["um"] = 0
         THEN umErr' = EINVAL /\ UNCHANGED stack
         ELSE umErr' = OK /\ stack' = Without(path["um"])
    /\ path' = [path EXCEPT !.um = 0] /\ refs' = refs \ {"um"}
    /\ um' = "complete"
    /\ UNCHANGED <<main, written, pending, mountErr, sweeps>>

Umount ==
    /\ um = "umount"
    /\ IF path["um"] = 0
         THEN umErr' = EINVAL /\ UNCHANGED stack
         ELSE IF Busy(path["um"], "main")
                THEN umErr' = EBUSY /\ UNCHANGED stack
                ELSE umErr' = OK /\ stack' = Tail(stack)
    /\ path' = [path EXCEPT !.um = 0] /\ refs' = refs \ {"um"}
    /\ um' = "complete"
    /\ UNCHANGED <<main, written, pending, mountErr, sweeps>>

Complete ==
    /\ um = "complete"
    /\ um' = "exited"
    /\ UNCHANGED <<main, written, pending, stack, path, refs, umErr, mountErr, sweeps>>

-----------------------------------------------------------------------------
(***************************************************************************)
(* umount_races_mount().                                                   *)
(***************************************************************************)

\* One file written and closed.
WriteFile ==
    /\ main = "write" /\ written < Files
    /\ written' = written + 1 /\ pending' = pending + 1
    /\ UNCHANGED <<main, stack, path, refs, um, umErr, mountErr, sweeps>>

\* Defect: the closes are not settled.
FaultySettled == pending

\* "the closes above left delayed fputs that would make umount EBUSY"
Settled == 0

SettleAndStart ==
    /\ main = "write" /\ written = Files
    /\ pending' = Settled
    /\ um' = "lookup"
    /\ main' = "sleep"
    /\ UNCHANGED <<written, stack, path, refs, umErr, mountErr, sweeps>>

\* msleep(10) ends, however far the kthread has come.
Sleep ==
    /\ main = "sleep"
    /\ main' = "lookup"
    /\ UNCHANGED <<written, pending, stack, path, refs, um, umErr, mountErr, sweeps>>

\* Defect: the lookup's reference is dropped before the mount.
FaultyMountRefs == refs

MountRefs == refs \cup {"main"}

\* xfs_scratch_mount(): the lookup, which keeps its reference ...
MountLookup ==
    /\ main = "lookup"
    /\ path' = [path EXCEPT !.main = Top]
    /\ refs' = MountRefs
    /\ main' = "mount"
    /\ UNCHANGED <<written, pending, stack, um, umErr, mountErr, sweeps>>

\* ... and, when the server has answered, path_mount() on what it found.
Mount ==
    /\ main = "mount"
    /\ IF path["main"] \in {0} \cup {stack[k] : k \in 1..Len(stack)}
         THEN stack' = <<2>> \o stack /\ mountErr' = OK
         ELSE mountErr' = EINVAL /\ UNCHANGED stack
    /\ path' = [path EXCEPT !.main = 0] /\ refs' = refs \ {"main"}
    /\ main' = "wait"
    /\ UNCHANGED <<written, pending, um, umErr, sweeps>>

\* Defect: the unmount is not waited for.
FaultyJoinable == TRUE

\* wait_for_completion(&u.done)
Joinable == um = "exited"

\* The wait, the expectations and the return; u is gone with the stack frame.
Join ==
    /\ main = "wait"
    /\ Joinable
    /\ main' = "sweep"
    /\ UNCHANGED <<written, pending, stack, path, refs, um, umErr, mountErr, sweeps>>

\* Defect: the loop stops after its first unmount.
FaultySweepAgain == FALSE

\* xfs_umount_settled() unmounted something, and sweeps are left.
SweepAgain == stack # <<>> /\ sweeps + 1 < SweepTries

\* Defect: neither the counter nor the result ends the loop.
FaultySweep ==
    /\ main = "sweep"
    /\ pending' = 0
    /\ stack' = IF stack = <<>> THEN stack ELSE Tail(stack)
    /\ UNCHANGED <<main, written, path, refs, um, umErr, mountErr, sweeps>>

\* g604_remove_tree(): xfs_scratch_umount() sweep by sweep, then the files.
Sweep ==
    /\ main = "sweep"
    /\ pending' = 0
    /\ stack' = IF stack = <<>> THEN stack ELSE Tail(stack)
    /\ IF SweepAgain THEN sweeps' = sweeps + 1 /\ UNCHANGED main
                     ELSE main' = "over" /\ UNCHANGED sweeps
    /\ UNCHANGED <<written, path, refs, um, umErr, mountErr>>

Over == main = "over" /\ UNCHANGED vars

Case == WriteFile \/ SettleAndStart \/ Sleep \/ MountLookup \/ Mount \/ Join \/ Sweep
Umounter == UmountLookup \/ Umount \/ Complete

Next == Case \/ Umounter \/ DelayedFput \/ Over

Spec == Init /\ [][Next]_vars

\* Both threads run; the unmount and the mount end because the server,
\* which stays up until suite_exit, answers.
FairSpec == Spec /\ WF_vars(Case) /\ WF_vars(Umounter)

-----------------------------------------------------------------------------
\* The types of the variables.
TypeOK ==
    /\ main \in {"write", "sleep", "lookup", "mount", "wait", "sweep", "over"}
    /\ written \in 0..Files /\ pending \in 0..Files
    /\ stack \in {<<>>, <<1>>, <<2>>, <<2, 1>>}
    /\ path \in [{"main", "um"} -> 0..2] /\ refs \subseteq {"main", "um"}
    /\ um \in {"unborn", "lookup", "umount", "complete", "exited"}
    /\ umErr \in {OK, EBUSY, EINVAL} /\ mountErr \in {OK, EINVAL}
    /\ sweeps \in 0..SweepTries

\* The mount succeeds however the two interleave: what it looked up cannot
\* be unmounted under it.
MountSucceeds == mountErr = OK

\* "the filesystem the mount produced is usable": after the race something
\* is mounted, whichever of the two mounts the unmount took.
UsableAfterRace == (main = "sweep" /\ sweeps = 0) => stack # <<>>

\* The kthread is through with u, which lives on the case's stack, before
\* the case returns.
FrameOutlivesUmount == main \in {"sweep", "over"} => um = "exited" /\ refs = {}

\* The deferred action leaves no scratch mount, also when the unmount of the
\* race was refused and two are stacked.
NoScratchLeft == main = "over" => stack = <<>>

\* "nothing hangs"
NothingHangs == <>(main = "over")

\* An unmount that reaches its check while the case sleeps succeeds: the
\* closes before it are settled.
UmountOnTimeSucceeds == [][main = "sleep" /\ um = "umount" /\ um' = "complete" => umErr' = OK]_vars

\* "The pass criterion is that both commands succeed".
BothCommandsSucceed == umErr = OK /\ mountErr = OK
=============================================================================
