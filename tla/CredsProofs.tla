---------------------------- MODULE CredsProofs ----------------------------
(***************************************************************************)
(* Proofs about Creds, for every set of users and of cred objects and for  *)
(* both reference contracts of the kernel.                                 *)
(***************************************************************************)
EXTENDS Creds, TLAPS

One(b) == IF b THEN 1 ELSE 0

\* The references that exist on c: the pointers of the running task, the
\* displaced ones that xfs_saved_creds and old_cred keep and, where the
\* kernel counts its own, the ones that prepare_creds() gave the caller.
Refs(c) ==
    One(current.cred = c) + One(current.real = c) + One(saved = c) + One(frame.old = c)
      + (IF counted THEN One(override = c) + One(frame.new = c) ELSE 0)

Exact == \A c \in CredIds : usage[c] = Refs(c)

\* The cred the thread has outside xfs_access().
Base == IF frame = NoFrame THEN current.cred ELSE frame.old

Shape ==
    /\ thread \in {"none", "exited"} => current = NoTask
    /\ thread \in {"case", "cleanup"} => current.cred \in CredIds /\ current.real \in CredIds
    /\ saved = NoCred <=> override = NoCred
    /\ thread = "none" => saved = NoCred
    /\ frame # NoFrame => /\ thread = "case"
                          /\ frame.old \in CredIds /\ frame.new = current.cred
    /\ (~counted /\ saved # NoCred) => thread = "case" /\ override = Base

\* A usable identity: not root's filesystem uid only without the capability.
Dropped(id) == id.fsuid # 0 => ~id.effective

Identities ==
    /\ saved # NoCred => attr[saved] = Root
    /\ (Base # NoCred /\ saved = NoCred) => attr[Base] = Root
    /\ Base # NoCred => Dropped(attr[Base])
    /\ frame # NoFrame => /\ Dropped(attr[frame.new])
                          /\ attr[frame.new].fsuid = attr[frame.old].uid

CInv == TypeOK /\ Exact /\ Shape /\ Identities

\* What the exact count says: whatever is pointed to is alive.
LEMMA Alive ==
    ASSUME TypeOK, Exact, Shape
    PROVE  CurrentNeverFreed
<1> SUFFICES ASSUME NEW c \in {current.cred, current.real, saved, override, frame.old, frame.new},
                    c # NoCred
             PROVE  usage[c] > 0
  BY DEF CurrentNeverFreed
<1>1. c \in CredIds
  BY DEF TypeOK, Task, Frame
<1>2. usage[c] = Refs(c)
  BY <1>1 DEF Exact
<1>3. CASE counted
  BY <1>2, <1>3 DEF Refs, One
<1>4. CASE ~counted
  <2>1. c \in {current.cred, current.real, saved, frame.old}
    BY <1>4, CredsAssumption DEF Shape, Base, NoFrame, TypeOK, Frame
  <2> QED
    BY <1>2, <1>4, <2>1 DEF Refs, One
<1> QED
  BY <1>3, <1>4

\* The initial states satisfy the invariant.
THEOREM InitCInv == Init => CInv
<1> SUFFICES ASSUME Init PROVE CInv
  OBVIOUS
<1>1. TypeOK
  BY DEF Init, TypeOK, Task, Frame, NoTask, NoFrame, Identity, Root
<1>2. Exact
  BY CredsAssumption DEF Init, Exact, Refs, One, NoTask, NoFrame
<1>3. Shape /\ Identities
  BY DEF Init, Shape, Identities, Base, NoTask, NoFrame
<1> QED
  BY <1>1, <1>2, <1>3 DEF CInv

\* A free cred is nobody's.
LEMMA Fresh ==
    ASSUME CInv, NEW c \in CredIds, usage[c] = 0
    PROVE  c \notin {current.cred, current.real, saved, override, frame.old, frame.new}
<1>1. CurrentNeverFreed
  BY Alive DEF CInv
<1>2. c # NoCred
  BY CredsAssumption
<1> QED
  BY <1>1, <1>2 DEF CurrentNeverFreed

\* What is still pointed to keeps its identity when others are freed.
LEMMA Kept ==
    ASSUME TypeOK, usage' \in [CredIds -> Int], attr' = Forget(usage'), Exact', Shape',
           counted' = counted, thread' \in {"none", "case", "exited", "cleanup"},
           current' \in Task, frame' \in Frame, saved' \in CredIds \cup {NoCred},
           override' \in CredIds \cup {NoCred}
    PROVE  /\ TypeOK'
           /\ \A c \in {current.cred, current.real, saved, override, frame.old, frame.new}' \ {NoCred} :
                attr'[c] = attr[c]
<1>1. usage' \in [CredIds -> Nat]
  <2>1. \A c \in CredIds : Refs(c)' \in Nat
    BY CredsAssumption DEF Refs, One
  <2> QED
    BY <2>1 DEF Exact
<1>2. attr' \in [CredIds -> Identity]
  BY DEF Forget, TypeOK, Identity, Root
<1>3. TypeOK'
  BY <1>1, <1>2 DEF TypeOK
<1>4. CurrentNeverFreed'
  BY <1>3, Alive, PTL
<1>5. ASSUME NEW c \in {current'.cred, current'.real, saved', override', frame'.old, frame'.new} \ {NoCred}
      PROVE  attr'[c] = attr[c]
  <2>1. c \in CredIds
    BY DEF Task, Frame
  <2>2. usage'[c] > 0
    BY <1>4 DEF CurrentNeverFreed
  <2> QED
    BY <1>1, <2>1, <2>2 DEF Forget
<1> QED
  BY <1>3, <1>5

\* Starting a thread for a case or for its deferred actions.
LEMMA StartStep ==
    ASSUME CInv, NEW next \in {"case", "cleanup"}, StartThread(next),
           thread \in {"none", "exited"}, next = "case" => thread = "none"
    PROVE  CInv'
<1>1. PICK c \in CredIds : /\ usage[c] = 0 /\ attr' = [attr EXCEPT ![c] = Root]
                           /\ usage' = [usage EXCEPT ![c] = 2]
                           /\ current' = [cred |-> c, real |-> c]
  BY DEF StartThread, Prepared
<1>2. /\ c \notin {current.cred, current.real, saved, override, frame.old, frame.new}
      /\ c # NoCred
  BY <1>1, Fresh, CredsAssumption
<1>3. UNCHANGED <<counted, saved, override, frame>> /\ thread' = next
  BY DEF StartThread
<1>4. TypeOK'
  BY <1>1, <1>3 DEF CInv, TypeOK, Task, Frame, Identity, Root
<1>5. current = NoTask /\ frame = NoFrame
  BY DEF CInv, Shape
<1>6. Exact'
  BY <1>1, <1>2, <1>3, <1>5, CredsAssumption DEF CInv, TypeOK, Exact, Refs, One, NoTask
<1>7. ~(~counted /\ saved # NoCred)
  BY DEF CInv, Shape
<1>8. Shape'
  BY <1>1, <1>2, <1>3, <1>5, <1>7 DEF CInv, Shape
<1>9. Identities'
  BY <1>1, <1>2, <1>3, <1>5 DEF CInv, TypeOK, Identities, Base, Dropped, Root
<1> QED
  BY <1>4, <1>6, <1>8, <1>9 DEF CInv

\* xfs_switch_creds() and xfs_seteuid(): a new identity without root's
\* capability, and root's cred saved.
LEMMA InstallStep ==
    ASSUME CInv, NEW id \in Identity, Dropped(id), saved = NoCred,
           thread = "case", frame = NoFrame, Install(id), UNCHANGED <<counted, thread, frame>>
    PROVE  CInv'
<1>1. PICK c \in CredIds : /\ usage[c] = 0 /\ attr' = [attr EXCEPT ![c] = id]
                           /\ usage' = Overridden([usage EXCEPT ![c] = 1], c)
                           /\ override' = c /\ saved' = current.cred
                           /\ current' = [current EXCEPT !.cred = c]
  BY DEF Install, Prepared
<1>2. /\ c \notin {current.cred, current.real, saved, override, frame.old, frame.new}
      /\ c # NoCred
  BY <1>1, Fresh, CredsAssumption
<1>3. /\ current.cred \in CredIds /\ current.real \in CredIds /\ override = NoCred
      /\ current \in Task
  BY DEF CInv, Shape, TypeOK
<1>4. current'.cred = c /\ current'.real = current.real /\ current' \in Task
  BY <1>1, <1>3 DEF Task
<1>5. usage' \in [CredIds -> Nat]
  BY <1>1 DEF CInv, TypeOK, Overridden
<1>6. TypeOK'
  BY <1>1, <1>3, <1>4, <1>5 DEF CInv, TypeOK
<1>7. Exact'
  <2> SUFFICES ASSUME NEW d \in CredIds PROVE usage'[d] = Refs(d)'
    BY DEF Exact
  <2>1. usage[d] = Refs(d) /\ usage \in [CredIds -> Nat]
    BY DEF CInv, Exact, TypeOK
  <2>2. CASE counted
    BY <1>1, <1>2, <1>3, <1>4, <2>1, <2>2, CredsAssumption DEF Overridden, Refs, One, NoFrame
  <2>3. CASE ~counted
    BY <1>1, <1>2, <1>3, <1>4, <2>1, <2>3, CredsAssumption DEF Overridden, Refs, One, NoFrame
  <2> QED
    BY <2>2, <2>3
<1>8. Shape'
  BY <1>1, <1>2, <1>3, <1>4, CredsAssumption DEF CInv, Shape, Base
<1>9. Identities'
  BY <1>1, <1>2, <1>3, <1>4, CredsAssumption DEF CInv, TypeOK, Identities, Base, Dropped
<1> QED
  BY <1>6, <1>7, <1>8, <1>9 DEF CInv

\* xfs_restore_creds(), by the case or by its deferred action.
LEMMA RestoreStep == CInv /\ RestoreCreds => CInv'
<1> SUFFICES ASSUME CInv, RestoreCreds PROVE CInv'
  OBVIOUS
<1>1. /\ saved \in CredIds /\ override \in CredIds /\ current \in Task /\ frame = NoFrame
      /\ current.cred \in CredIds /\ current.real \in CredIds
      /\ usage \in [CredIds -> Nat] /\ thread \in {"case", "cleanup"}
  BY DEF CInv, RestoreCreds, TypeOK, Shape
<1>2. /\ current'.cred = saved /\ current'.real = current.real /\ current' \in Task
      /\ saved' = NoCred /\ override' = NoCred /\ UNCHANGED <<counted, thread, frame>>
      /\ usage' = Restored /\ attr' = Forget(usage')
  BY <1>1 DEF RestoreCreds, Task
<1>3. usage' \in [CredIds -> Int]
  BY <1>1, <1>2 DEF Restored, Reverted, Put
<1>4. Exact'
  <2> SUFFICES ASSUME NEW d \in CredIds PROVE usage'[d] = Refs(d)'
    BY DEF Exact
  <2>1. usage[d] = Refs(d)
    BY DEF CInv, Exact
  <2>2. CASE counted
    BY <1>1, <1>2, <2>1, <2>2, CredsAssumption DEF Restored, Reverted, Put, Refs, One, NoFrame
  <2>3. CASE ~counted
    <3>1. override = current.cred
      BY <1>1, <2>3, CredsAssumption DEF CInv, Shape, Base
    <3> QED
      BY <1>1, <1>2, <2>1, <2>3, <3>1, CredsAssumption
         DEF Restored, Reverted, Put, Refs, One, NoFrame
  <2> QED
    BY <2>2, <2>3
<1>5. Shape'
  BY <1>1, <1>2 DEF CInv, Shape
<1>6. /\ TypeOK'
      /\ \A c \in {current'.cred, current'.real, saved', override', frame'.old, frame'.new} \ {NoCred} :
           attr'[c] = attr[c]
  <2>1. TypeOK
    BY DEF CInv
  <2> QED
    BY <1>1, <1>2, <1>3, <1>4, <1>5, <2>1, Kept DEF TypeOK
<1>7. attr'[saved] = attr[saved] /\ attr[saved] = Root
  BY <1>1, <1>2, <1>6, CredsAssumption DEF CInv, Identities
<1>8. Identities'
  BY <1>1, <1>2, <1>7 DEF Identities, Base, Dropped, Root
<1> QED
  BY <1>4, <1>5, <1>6, <1>8 DEF CInv

\* The first half of xfs_access().
LEMMA AccessBeginStep == CInv /\ AccessBegin => CInv'
<1> SUFFICES ASSUME CInv, AccessBegin PROVE CInv'
  OBVIOUS
<1> DEFINE id == AccessIdentity(attr[current.cred])
<1>1. PICK c \in CredIds : /\ usage[c] = 0 /\ attr' = [attr EXCEPT ![c] = id]
                           /\ usage' = AccessUsage(c)
                           /\ frame' = [old |-> current.cred, new |-> c]
                           /\ current' = [current EXCEPT !.cred = c]
  BY DEF AccessBegin, Prepared
<1>2. /\ c \notin {current.cred, current.real, saved, override, frame.old, frame.new}
      /\ c # NoCred
  BY <1>1, Fresh, CredsAssumption
<1>3. /\ current.cred \in CredIds /\ current.real \in CredIds /\ current \in Task
      /\ frame = NoFrame /\ thread = "case" /\ UNCHANGED <<counted, thread, saved, override>>
      /\ attr \in [CredIds -> Identity]
  BY DEF CInv, Shape, TypeOK, AccessBegin
<1>4. /\ current'.cred = c /\ current'.real = current.real /\ current' \in Task
      /\ frame'.old = current.cred /\ frame'.new = c /\ frame' \in Frame /\ frame' # NoFrame
  BY <1>1, <1>2, <1>3 DEF Task, Frame, NoFrame
<1>5. /\ id \in Identity /\ id.fsuid = attr[current.cred].uid
      /\ Dropped(id)
  <2>1. attr[current.cred] \in Identity
    BY <1>3
  <2> QED
    BY <2>1 DEF AccessIdentity, Identity, Dropped
<1>6. usage' \in [CredIds -> Nat]
  BY <1>1 DEF CInv, TypeOK, AccessUsage, Overridden
<1>7. TypeOK'
  BY <1>1, <1>3, <1>4, <1>5, <1>6 DEF CInv, TypeOK
<1>8. Exact'
  <2> SUFFICES ASSUME NEW d \in CredIds PROVE usage'[d] = Refs(d)'
    BY DEF Exact
  <2>1. usage[d] = Refs(d) /\ usage \in [CredIds -> Nat]
    BY DEF CInv, Exact, TypeOK
  <2>2. CASE counted
    BY <1>1, <1>2, <1>3, <1>4, <2>1, <2>2, CredsAssumption
       DEF AccessUsage, Overridden, Refs, One, NoFrame
  <2>3. CASE ~counted
    BY <1>1, <1>2, <1>3, <1>4, <2>1, <2>3, CredsAssumption
       DEF AccessUsage, Overridden, Refs, One, NoFrame
  <2> QED
    BY <2>2, <2>3
<1>9. Base = current.cred /\ Base' = current.cred
  BY <1>3, <1>4 DEF Base
<1>10. Shape'
  BY <1>2, <1>3, <1>4, <1>9 DEF CInv, Shape
<1>11. attr'[c] = id /\ \A d \in CredIds \ {c} : attr'[d] = attr[d]
  BY <1>1, <1>3
<1>12. saved \in CredIds \cup {NoCred}
  BY DEF CInv, TypeOK
<1>13. Identities'
  <2> HIDE DEF id
  <2> QED
    BY <1>2, <1>3, <1>4, <1>5, <1>9, <1>11, <1>12, CredsAssumption DEF CInv, Identities
<1> QED
  BY <1>7, <1>8, <1>10, <1>13 DEF CInv

\* The second half of xfs_access().
LEMMA AccessEndStep == CInv /\ AccessEnd => CInv'
<1> SUFFICES ASSUME CInv, AccessEnd PROVE CInv'
  OBVIOUS
<1>1. /\ frame \in Frame /\ frame.old \in CredIds /\ frame.new = current.cred /\ frame # NoFrame
      /\ current \in Task /\ current.cred \in CredIds /\ current.real \in CredIds
      /\ usage \in [CredIds -> Nat] /\ thread = "case"
  BY DEF CInv, AccessEnd, TypeOK, Shape
<1>2. /\ current'.cred = frame.old /\ current'.real = current.real /\ current' \in Task
      /\ frame' = NoFrame /\ frame' \in Frame /\ UNCHANGED <<counted, thread, saved, override>>
      /\ usage' = Put(Reverted(usage), frame.new) /\ attr' = Forget(usage')
  BY <1>1 DEF AccessEnd, Task, Frame, NoFrame
<1>3. usage' \in [CredIds -> Int]
  BY <1>1, <1>2 DEF Reverted, Put
<1>4. Exact'
  <2> SUFFICES ASSUME NEW d \in CredIds PROVE usage'[d] = Refs(d)'
    BY DEF Exact
  <2>1. usage[d] = Refs(d)
    BY DEF CInv, Exact
  <2>2. CASE counted
    BY <1>1, <1>2, <2>1, <2>2, CredsAssumption DEF Reverted, Put, Refs, One, NoFrame
  <2>3. CASE ~counted
    BY <1>1, <1>2, <2>1, <2>3, CredsAssumption DEF Reverted, Put, Refs, One, NoFrame
  <2> QED
    BY <2>2, <2>3
<1>5. Base' = Base /\ Base = frame.old
  BY <1>1, <1>2 DEF Base
<1>6. Shape'
  BY <1>1, <1>2, <1>5 DEF CInv, Shape
<1>7. /\ TypeOK'
      /\ \A c \in {current'.cred, current'.real, saved', override', frame'.old, frame'.new} \ {NoCred} :
           attr'[c] = attr[c]
  <2>1. TypeOK
    BY DEF CInv
  <2> QED
    BY <1>1, <1>2, <1>3, <1>4, <1>6, <2>1, Kept DEF TypeOK
<1>8. Identities'
  BY <1>1, <1>2, <1>5, <1>7, CredsAssumption DEF CInv, Identities
<1> QED
  BY <1>4, <1>6, <1>7, <1>8 DEF CInv

\* The end of a thread.  A case that dies switched leaves its two globals,
\* which only the kernel that counts its own references survives.
LEMMA ExitStep ==
    ASSUME CInv, NEW next \in {"exited", "none"}, ExitThread(next),
           thread \in {"case", "cleanup"}, saved # NoCred => counted /\ next = "exited"
    PROVE  CInv'
<1>1. /\ frame = NoFrame /\ current \in Task
      /\ current.cred \in CredIds /\ current.real \in CredIds
      /\ usage \in [CredIds -> Nat]
  BY DEF CInv, ExitThread, TypeOK, Shape
<1>2. /\ current' = NoTask /\ current' \in Task /\ UNCHANGED <<counted, saved, override, frame>>
      /\ usage' = Put(Put(usage, current.real), current.cred) /\ attr' = Forget(usage')
      /\ thread' = next
  BY DEF ExitThread, Task, NoTask
<1>3. usage' \in [CredIds -> Int]
  BY <1>1, <1>2 DEF Put
<1>4. Exact'
  <2> SUFFICES ASSUME NEW d \in CredIds PROVE usage'[d] = Refs(d)'
    BY DEF Exact
  <2>1. usage[d] = Refs(d)
    BY DEF CInv, Exact
  <2>2. CASE counted
    BY <1>1, <1>2, <2>1, <2>2, CredsAssumption DEF Put, Refs, One, NoFrame, NoTask
  <2>3. CASE ~counted
    BY <1>1, <1>2, <2>1, <2>3, CredsAssumption DEF Put, Refs, One, NoFrame, NoTask
  <2> QED
    BY <2>2, <2>3
<1>5. Shape'
  BY <1>1, <1>2 DEF CInv, Shape, NoTask
<1>6. /\ TypeOK'
      /\ \A c \in {current'.cred, current'.real, saved', override', frame'.old, frame'.new} \ {NoCred} :
           attr'[c] = attr[c]
  <2>1. TypeOK
    BY DEF CInv
  <2> QED
    BY <1>1, <1>2, <1>3, <1>4, <1>5, <2>1, Kept DEF TypeOK
<1>7. Identities'
  BY <1>1, <1>2, <1>6 DEF CInv, Identities, Base, NoTask
<1> QED
  BY <1>4, <1>5, <1>6, <1>7 DEF CInv

\* Every step keeps the invariant.
THEOREM NextCInv == CInv /\ [Next]_vars => CInv'
<1> SUFFICES ASSUME CInv, [Next]_vars PROVE CInv'
  OBVIOUS
<1>1. CASE StartCase
  BY <1>1, StartStep DEF StartCase
<1>2. CASE StartCleanup
  BY <1>2, StartStep DEF StartCleanup
<1>3. ASSUME NEW u \in Users, SwitchCreds(u) PROVE CInv'
  <2>1. Switched(attr[current.cred], u) \in Identity /\ Dropped(Switched(attr[current.cred], u))
    BY DEF Switched, Identity, Dropped
  <2> QED
    BY <1>3, <2>1, InstallStep DEF SwitchCreds, SwitchAllowed
<1>4. ASSUME NEW u \in Users, SetEuid(u) PROVE CInv'
  <2> DEFINE id == FixSetuid([attr[current.cred] EXCEPT !.euid = u, !.fsuid = u])
  <2>1. current.cred \in CredIds /\ attr[current.cred] \in Identity
    BY <1>4 DEF SetEuid, CInv, Shape, TypeOK
  <2>2. id \in Identity /\ Dropped(id)
    BY <2>1, CredsAssumption DEF FixSetuid, Identity, Dropped
  <2> QED
    BY <1>4, <2>2, InstallStep DEF SetEuid, SwitchAllowed
<1>5. CASE RestoreCreds
  BY <1>5, RestoreStep
<1>6. CASE AccessBegin
  BY <1>6, AccessBeginStep
<1>7. CASE AccessEnd
  BY <1>7, AccessEndStep
<1>8. CASE CaseExit
  BY <1>8, ExitStep, CredsAssumption DEF CaseExit
<1>9. CASE CleanupExit
  BY <1>9, ExitStep DEF CleanupExit
<1>10. CASE UNCHANGED vars
  <2>1. UNCHANGED <<counted, thread, current, saved, override, frame, usage, attr>>
    BY <1>10 DEF vars
  <2> QED
    BY <2>1 DEF CInv, TypeOK, Exact, Refs, Shape, Base, Identities
<1> QED
  BY <1>1, <1>2, <1>3, <1>4, <1>5, <1>6, <1>7, <1>8, <1>9, <1>10 DEF Next

\* Every reachable state satisfies the inductive invariant.
THEOREM CredsInvariance == Spec => []CInv
  BY InitCInv, NextCInv, PTL DEF Spec

\* Under either reference contract no cred is freed while the running task,
\* xfs_saved_creds, xfs_override or an xfs_access() under way points to it.
THEOREM NeverFreedWhileUsed == Spec => []CurrentNeverFreed
<1>1. CInv => CurrentNeverFreed
  BY Alive DEF CInv
<1> QED
  BY <1>1, CredsInvariance, PTL

\* A case and its deferred actions leave no cred behind.
THEOREM NoCredLeaks == Spec => []NothingLeaks
<1>1. CInv => NothingLeaks
  <2> SUFFICES ASSUME CInv, thread = "none", NEW c \in CredIds
               PROVE  saved = NoCred /\ usage[c] = 0
    BY DEF CInv, Shape, NothingLeaks
  <2>1. current = NoTask /\ saved = NoCred /\ override = NoCred /\ frame = NoFrame
    BY DEF CInv, Shape
  <2> QED
    BY <2>1, CredsAssumption DEF CInv, Exact, Refs, One, NoTask, NoFrame
<1> QED
  BY <1>1, CredsInvariance, PTL

\* A thread that acts for another uid never has CAP_DAC_OVERRIDE.
THEOREM DacAlwaysApplies == Spec => []DacApplies
<1>1. CInv => DacApplies
  BY DEF CInv, TypeOK, Shape, Identities, Base, Dropped, DacApplies
<1> QED
  BY <1>1, CredsInvariance, PTL

\* Whoever restores, and whatever was switched to, ends as root.
THEOREM AlwaysRootAgain == Spec => []RootWhenRestored
<1>1. CInv => RootWhenRestored
  BY DEF CInv, Identities, Base, RootWhenRestored
<1> QED
  BY <1>1, CredsInvariance, PTL
=============================================================================
