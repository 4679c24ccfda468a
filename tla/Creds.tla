------------------------------- MODULE Creds -------------------------------
(***************************************************************************)
(* The credential switching of kunit/xfstests/nfs_fixture.c:               *)
(* xfs_switch_creds(), xfs_seteuid(), xfs_restore_creds() and              *)
(* xfs_access(), over the kernel's reference-counted struct cred.          *)
(*                                                                         *)
(* KUnit runs a case in a kthread of its own and the case's deferred       *)
(* actions (the ports register one that calls xfs_restore_creds()) in      *)
(* another, after the first has exited; the two globals outlive both.      *)
(* Threads run one at a time ("Serial use only").                          *)
(*                                                                         *)
(* The code is written for two kernels: in one, override_creds() and       *)
(* revert_creds() count references of their own, in the other they do not. *)
(***************************************************************************)
EXTENDS Integers, FiniteSets

CONSTANTS
    Users,          \* the unprivileged uids the ports switch to
    CredIds,        \* bound: the cred objects that exist at a time
    NoCred          \* the null pointer

\* uid 0 is nobody's but root's.
ASSUME CredsAssumption == 0 \notin Users /\ NoCred \notin CredIds

VARIABLES
    counted,    \* this kernel's override_creds() and revert_creds() count
    thread,     \* what runs: a "case", its "cleanup", or nothing
    current,    \* current->cred and current->real_cred of the running thread
    saved,      \* xfs_saved_creds
    override,   \* xfs_override
    frame,      \* old_cred and override of the xfs_access() call under way
    usage,      \* the reference count of each cred, 0: free
    attr        \* the identity each cred gives

vars == <<counted, thread, current, saved, override, frame, usage, attr>>

\* The real, effective and filesystem uid and whether CAP_DAC_OVERRIDE is
\* permitted and effective.
Identity == [uid : Users \cup {0}, euid : Users \cup {0}, fsuid : Users \cup {0},
             permitted : BOOLEAN, effective : BOOLEAN]
Root == [uid |-> 0, euid |-> 0, fsuid |-> 0, permitted |-> TRUE, effective |-> TRUE]
Task == [cred : CredIds \cup {NoCred}, real : CredIds \cup {NoCred}]
Frame == [old : CredIds \cup {NoCred}, new : CredIds \cup {NoCred}]
NoTask == [cred |-> NoCred, real |-> NoCred]
NoFrame == [old |-> NoCred, new |-> NoCred]

Init ==
    /\ counted \in BOOLEAN
    /\ thread = "none"
    /\ current = NoTask
    /\ saved = NoCred /\ override = NoCred
    /\ frame = NoFrame
    /\ usage = [c \in CredIds |-> 0]
    /\ attr = [c \in CredIds |-> Root]

-----------------------------------------------------------------------------
(***************************************************************************)
(* The kernel's creds (external).                                          *)
(***************************************************************************)

\* put_cred(): the last reference frees the object, which then says nothing.
Put(u, c) == [u EXCEPT ![c] = @ - 1]
Forget(u) == [c \in CredIds |-> IF u[c] <= 0 THEN Root ELSE attr[c]]

\* override_creds(new) counts a reference on new, or lets the task take over
\* its caller's; revert_creds() is the reverse.
Overridden(u, new) == IF counted THEN [u EXCEPT ![new] = @ + 1] ELSE u
Reverted(u) == IF counted THEN Put(u, current.cred) ELSE u

\* prepare_creds() found c free, and id is written to the new object.
Prepared(c, id) ==
    /\ usage[c] = 0
    /\ attr' = [attr EXCEPT ![c] = id]

\* security_task_fix_setuid(): leaving euid 0 loses the effective set.
FixSetuid(id) == [id EXCEPT !.effective = id.effective /\ id.euid = 0]

-----------------------------------------------------------------------------
\* KUnit starts the thread of a case, or of its deferred actions, as root
\* with a cred of its own, counted once for each of the task's pointers.
StartThread(next) ==
    /\ \E c \in CredIds : /\ Prepared(c, Root)
                          /\ usage' = [usage EXCEPT ![c] = 2]
                          /\ current' = [cred |-> c, real |-> c]
    /\ thread' = next
    /\ UNCHANGED <<counted, saved, override, frame>>

StartCase == thread = "none" /\ StartThread("case")

\* The identity xfs_switch_creds(u, u) builds, and a defect: capabilities
\* are kept, so that CAP_DAC_OVERRIDE bypasses the checks.
FaultySwitched(id, u) == [id EXCEPT !.uid = u, !.euid = u, !.fsuid = u]
Switched(id, u) == [uid |-> u, euid |-> u, fsuid |-> u,
                    permitted |-> FALSE, effective |-> FALSE]

\* Defect: a switch while switched is not refused.
FaultySwitchAllowed == TRUE

\* WARN_ON(xfs_saved_creds): one switch at a time, else -EBUSY.
SwitchAllowed == saved = NoCred

\* The common end of xfs_switch_creds() and xfs_seteuid().
Install(id) ==
    \E c \in CredIds :
      /\ Prepared(c, id)
      /\ usage' = Overridden([usage EXCEPT ![c] = 1], c)
      /\ override' = c
      /\ saved' = current.cred
      /\ current' = [current EXCEPT !.cred = c]

SwitchCreds(u) ==
    /\ thread = "case" /\ frame = NoFrame
    /\ SwitchAllowed
    /\ Install(Switched(attr[current.cred], u))
    /\ UNCHANGED <<counted, thread, frame>>

\* Only the effective and filesystem uid move.
SetEuid(u) ==
    /\ thread = "case" /\ frame = NoFrame
    /\ SwitchAllowed
    /\ Install(FixSetuid([attr[current.cred] EXCEPT !.euid = u, !.fsuid = u]))
    /\ UNCHANGED <<counted, thread, frame>>

\* Defect: the reference of prepare_creds() is not dropped.
FaultyRestored == Reverted(usage)

\* The counts after revert_creds() and put_cred().
Restored == Put(Reverted(usage), override)

\* xfs_restore_creds(), called by the case or by its deferred action.
RestoreCreds ==
    /\ thread \in {"case", "cleanup"} /\ frame = NoFrame
    /\ saved # NoCred
    /\ usage' = Restored
    /\ attr' = Forget(usage')
    /\ current' = [current EXCEPT !.cred = saved]
    /\ saved' = NoCred /\ override' = NoCred
    /\ UNCHANGED <<counted, thread, frame>>

\* The identity xfs_access() checks with: the real uid, with root's
\* capabilities only for a real root.
AccessIdentity(id) == [id EXCEPT !.fsuid = id.uid,
                                 !.effective = id.uid = 0 /\ id.permitted]

\* Defect: put_cred() right after override_creds().
FaultyAccessUsage(c) == Put(Overridden([usage EXCEPT ![c] = 1], c), c)

\* The counts inside xfs_access(): "exactly one put_cred()", and only after
\* revert_creds().
AccessUsage(c) == Overridden([usage EXCEPT ![c] = 1], c)

\* xfs_access() up to and after its lookup and permission check.
AccessBegin ==
    /\ thread = "case" /\ frame = NoFrame
    /\ \E c \in CredIds :
         /\ Prepared(c, AccessIdentity(attr[current.cred]))
         /\ usage' = AccessUsage(c)
         /\ frame' = [old |-> current.cred, new |-> c]
         /\ current' = [current EXCEPT !.cred = c]
    /\ UNCHANGED <<counted, thread, saved, override>>

AccessEnd ==
    /\ frame # NoFrame
    /\ usage' = Put(Reverted(usage), frame.new)
    /\ attr' = Forget(usage')
    /\ current' = [current EXCEPT !.cred = frame.old]
    /\ frame' = NoFrame
    /\ UNCHANGED <<counted, thread, saved, override>>

\* The running thread exits and its two pointers are put.
ExitThread(next) ==
    /\ frame = NoFrame
    /\ usage' = Put(Put(usage, current.real), current.cred)
    /\ attr' = Forget(usage')
    /\ current' = NoTask
    /\ thread' = next
    /\ UNCHANGED <<counted, saved, override, frame>>

\* A case returns having restored its creds, or dies in an assertion.  On a
\* kernel that does not count it must not die while it is switched, and the
\* ports make no fatal assertion between a switch and its restore.
CaseExit == thread = "case" /\ (saved = NoCred \/ counted) /\ ExitThread("exited")

StartCleanup == thread = "exited" /\ StartThread("cleanup")

\* The deferred actions have run; xfs_restore_creds() was one of them.
CleanupExit == thread = "cleanup" /\ saved = NoCred /\ ExitThread("none")

Next == \/ StartCase \/ CaseExit \/ StartCleanup \/ CleanupExit
        \/ \E u \in Users : SwitchCreds(u) \/ SetEuid(u)
        \/ RestoreCreds \/ AccessBegin \/ AccessEnd

Spec == Init /\ [][Next]_vars

-----------------------------------------------------------------------------
\* The types of the variables; counts never fall below 0.
TypeOK ==
    /\ counted \in BOOLEAN
    /\ thread \in {"none", "case", "exited", "cleanup"}
    /\ current \in Task /\ frame \in Frame
    /\ saved \in CredIds \cup {NoCred} /\ override \in CredIds \cup {NoCred}
    /\ usage \in [CredIds -> Nat]
    /\ attr \in [CredIds -> Identity]

\* No cred is freed while a task, a global or an xfs_access() under way
\* still points to it, under either reference contract: kernel/cred.c's
\* "BUG_ON(cred == current->cred)" and worse.
CurrentNeverFreed ==
    \A c \in {current.cred, current.real, saved, override, frame.old, frame.new} \ {NoCred} :
      usage[c] > 0

\* When a case and its deferred actions are over every reference has been
\* dropped: each prepare_creds() is matched by one put_cred(), whichever
\* thread made it.
NothingLeaks ==
    thread = "none" => saved = NoCred /\ \A c \in CredIds : usage[c] = 0

\* "only if capabilities are dropped": as long as a thread acts for another
\* uid it has no CAP_DAC_OVERRIDE, so that the permission checks really
\* happen; inside xfs_access() this holds for the real uid.
DacApplies ==
    current.cred # NoCred =>
      LET id == attr[current.cred]
      IN  /\ id.fsuid # 0 => ~id.effective
          /\ frame # NoFrame => id.fsuid = attr[frame.old].uid

\* Once restored, a thread is root again, whatever it switched to before and
\* also when the deferred action restores what a dead case left.
RootWhenRestored ==
    (current.cred # NoCred /\ saved = NoCred /\ frame = NoFrame) => attr[current.cred] = Root
=============================================================================
