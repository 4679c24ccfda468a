-------------------------- MODULE UmountRaceProofs --------------------------
(***************************************************************************)
(* Proofs about UmountRace, for every number of files and every number of  *)
(* sweeps that the assumption allows.                                      *)
(***************************************************************************)
EXTENDS UmountRace, SequenceTheorems, TLAPS

\* A thread has looked a mount up, and holds it, exactly while it works on
\* it.
Held ==
    /\ "main" \in refs <=> main = "mount"
    /\ main # "mount" => path["main"] = 0
    /\ "um" \in refs <=> um = "umount"
    /\ um # "umount" => path["um"] = 0

\* Before the race there is the first mount; from its start on nothing but
\* the two threads holds it.
Start ==
    /\ um = "unborn" <=> main = "write"
    /\ main = "write" => stack = <<1>>
    /\ pending <= written
    /\ main # "write" => pending = 0

\* Until the case mounts, only a completed unmount can have removed the
\* first mount; once the case has looked it up, nothing can.
BeforeMount ==
    /\ main \in {"sleep", "lookup", "mount"} =>
         /\ stack \in {<<1>>, <<>>}
         /\ um \in {"lookup", "umount"} => stack = <<1>>
         /\ um = "umount" => path["um"] = 1
    /\ main = "mount" => path["main"] = IF stack = <<>> THEN 0 ELSE 1

\* After it the unmount finds two mounts and takes at most the upper one.
AfterMount ==
    main = "wait" =>
      /\ stack # <<>>
      /\ um \in {"lookup", "umount"} => stack = <<2, 1>>
      /\ um = "umount" => path["um"] \in {1, 2}

\* The sweeps done and the mounts left are at most two.
Sweeping ==
    /\ main \in {"sweep", "over"} => um = "exited"
    /\ main \notin {"sweep", "over"} => sweeps = 0
    /\ main = "sweep" => sweeps + Len(stack) <= 2
    /\ main = "over" => stack = <<>>

UInv ==
    /\ TypeOK /\ Held /\ Start /\ BeforeMount /\ AfterMount /\ Sweeping
    /\ MountSucceeds /\ UsableAfterRace
-----------------------------------------------------------------------------
\* The stacks of at most two mounts, computed once.
LEMMA Stacks ==
    /\ <<1>> # <<>> /\ <<2>> # <<>> /\ <<2, 1>> # <<>>
    /\ <<1>> # <<2>> /\ <<1>> # <<2, 1>> /\ <<2>> # <<2, 1>>
    /\ Head(<<1>>) = 1 /\ Head(<<2>>) = 2 /\ Head(<<2, 1>>) = 2
    /\ Tail(<<1>>) = <<>> /\ Tail(<<2>>) = <<>> /\ Tail(<<2, 1>>) = <<1>>
    /\ Len(<<>>) = 0 /\ Len(<<1>>) = 1 /\ Len(<<2>>) = 1 /\ Len(<<2, 1>>) = 2
    /\ <<2>> \o <<>> = <<2>> /\ <<2>> \o <<1>> = <<2, 1>>
<1>1. /\ <<1>> # <<>> /\ <<2>> # <<>> /\ <<2, 1>> # <<>>
      /\ <<1>> # <<2>> /\ <<1>> # <<2, 1>> /\ <<2>> # <<2, 1>>
  OBVIOUS
<1>2. /\ Head(<<1>>) = 1 /\ Head(<<2>>) = 2 /\ Head(<<2, 1>>) = 2
      /\ Len(<<>>) = 0 /\ Len(<<1>>) = 1 /\ Len(<<2>>) = 1 /\ Len(<<2, 1>>) = 2
  OBVIOUS
<1>3. Tail(<<1>>) = <<>> /\ Tail(<<2>>) = <<>> /\ Tail(<<2, 1>>) = <<1>>
  OBVIOUS
<1>4. <<2>> \o <<>> = <<2>> /\ <<2>> \o <<1>> = <<2, 1>>
  <2>1. <<2>> \in Seq(Nat) /\ <<1>> \in Seq(Nat) /\ <<2, 1>> \in Seq(Nat)
    OBVIOUS
  <2>2. <<2>> \o <<>> = <<2>>
    BY <2>1, ConcatEmptySeq
  <2>3. /\ <<2>> \o <<1>> \in Seq(Nat)
        /\ Len(<<2>> \o <<1>>) = 2
        /\ (<<2>> \o <<1>>)[1] = 2 /\ (<<2>> \o <<1>>)[2] = 1
    BY <2>1, ConcatProperties
  <2>4. \A i \in 1..Len(<<2>> \o <<1>>) : (<<2>> \o <<1>>)[i] = <<2, 1>>[i]
    BY <2>3
  <2>5. \A s, t \in Seq(Nat) : (Len(s) = Len(t) /\ \A i \in 1..Len(s) : s[i] = t[i]) => s = t
    BY SeqEqual
  <2>6. <<2>> \o <<1>> = <<2, 1>>
    <3>1. Len(<<2>> \o <<1>>) = Len(<<2, 1>>)
      BY <2>3, <1>2
    <3> QED
      BY <2>1, <2>3, <2>4, <2>5, <3>1, Zenon
  <2> QED
    BY <2>2, <2>6
<1> QED
  BY <1>1, <1>2, <1>3, <1>4

\* The initial state satisfies the invariant.
THEOREM InitUInv == Init => UInv
<1> SUFFICES ASSUME Init PROVE UInv
  OBVIOUS
<1>1. TypeOK
  BY UmountRaceAssumption DEF Init, TypeOK
<1>2. Held /\ Start
  BY DEF Init, Held, Start
<1>3. BeforeMount /\ AfterMount /\ Sweeping /\ MountSucceeds /\ UsableAfterRace
  BY DEF Init, BeforeMount, AfterMount, Sweeping, MountSucceeds, UsableAfterRace
<1> QED
  BY <1>1, <1>2, <1>3 DEF UInv

\* A delayed fput only releases the first mount.
LEMMA DelayedFputStep ==
    ASSUME UInv, DelayedFput
    PROVE  UInv'
<1> USE UmountRaceAssumption, Stacks DEF UInv, TypeOK, DelayedFput
<1>1. TypeOK'
  BY DEF Start, BeforeMount, AfterMount, Sweeping, Held
<1>2. Held'
  BY DEF Held, Start, BeforeMount
<1>3. Start'
  BY DEF Start
<1>4. BeforeMount'
  BY DEF BeforeMount, Held, Start
<1>5. AfterMount'
  BY DEF AfterMount, BeforeMount, Held
<1>6. Sweeping'
  BY DEF Sweeping, AfterMount
<1>7. MountSucceeds' /\ UsableAfterRace'
  BY DEF MountSucceeds, UsableAfterRace, Sweeping, AfterMount, BeforeMount, Held
<1> QED
  BY <1>1, <1>2, <1>3, <1>4, <1>5, <1>6, <1>7

\* The kthread holds what it found on top.
LEMMA UmountLookupStep ==
    ASSUME UInv, UmountLookup
    PROVE  UInv'
<1> USE UmountRaceAssumption, Stacks DEF UInv, TypeOK, UmountLookup, Top
<1>1. TypeOK'
  BY DEF Start, BeforeMount, AfterMount, Sweeping, Held
<1>2. Held'
  BY DEF Held, Start, BeforeMount
<1>3. Start'
  BY DEF Start
<1>4. BeforeMount'
  BY DEF BeforeMount, Held, Start
<1>5. AfterMount'
  BY DEF AfterMount, BeforeMount, Held
<1>6. Sweeping'
  BY DEF Sweeping, AfterMount
<1>7. MountSucceeds' /\ UsableAfterRace'
  BY DEF MountSucceeds, UsableAfterRace, Sweeping, AfterMount, BeforeMount, Held
<1> QED
  BY <1>1, <1>2, <1>3, <1>4, <1>5, <1>6, <1>7

\* The unmount is refused where the case holds the mount or has covered it.
LEMMA UmountStep ==
    ASSUME UInv, Umount
    PROVE  UInv'
<1> USE UmountRaceAssumption, Stacks DEF UInv, TypeOK, Umount, Busy, Top
<1>1. TypeOK'
  <2>1. stack' \in {stack, Tail(stack)} /\ umErr' \in {OK, EBUSY, EINVAL}
    OBVIOUS
  <2>2. stack' # stack => stack # <<>>
    BY DEF Start, BeforeMount, AfterMount, Sweeping
  <2>3. stack' \in {<<>>, <<1>>, <<2>>, <<2, 1>>}
    BY <2>1, <2>2
  <2>4. path' \in [{"main", "um"} -> 0..2] /\ refs' \subseteq {"main", "um"}
    OBVIOUS
  <2> QED
    BY <2>1, <2>3, <2>4
<1>2. Held'
  BY DEF Held, Start, BeforeMount
<1>3. Start'
  BY DEF Start
<1>4. BeforeMount'
  BY DEF BeforeMount, Held, Start
<1>5. AfterMount'
  BY DEF AfterMount, BeforeMount, Held
<1>6. Sweeping'
  BY DEF Sweeping, AfterMount
<1>7. MountSucceeds' /\ UsableAfterRace'
  BY DEF MountSucceeds, UsableAfterRace, Sweeping, AfterMount, BeforeMount, Held
<1> QED
  BY <1>1, <1>2, <1>3, <1>4, <1>5, <1>6, <1>7

\* The kthread signals the case.
LEMMA CompleteStep ==
    ASSUME UInv, Complete
    PROVE  UInv'
<1> USE UmountRaceAssumption, Stacks DEF UInv, TypeOK, Complete
<1>1. TypeOK'
  BY DEF Start, BeforeMount, AfterMount, Sweeping, Held
<1>2. Held'
  BY DEF Held, Start, BeforeMount
<1>3. Start'
  BY DEF Start
<1>4. BeforeMount'
  BY DEF BeforeMount, Held, Start
<1>5. AfterMount'
  BY DEF AfterMount, BeforeMount, Held
<1>6. Sweeping'
  BY DEF Sweeping, AfterMount
<1>7. MountSucceeds' /\ UsableAfterRace'
  BY DEF MountSucceeds, UsableAfterRace, Sweeping, AfterMount, BeforeMount, Held
<1> QED
  BY <1>1, <1>2, <1>3, <1>4, <1>5, <1>6, <1>7

\* A write pins the first mount.
LEMMA WriteFileStep ==
    ASSUME UInv, WriteFile
    PROVE  UInv'
<1> USE UmountRaceAssumption, Stacks DEF UInv, TypeOK, WriteFile
<1>1. TypeOK'
  BY DEF Start, BeforeMount, AfterMount, Sweeping, Held
<1>2. Held'
  BY DEF Held, Start, BeforeMount
<1>3. Start'
  BY DEF Start
<1>4. BeforeMount'
  BY DEF BeforeMount, Held, Start
<1>5. AfterMount'
  BY DEF AfterMount, BeforeMount, Held
<1>6. Sweeping'
  BY DEF Sweeping, AfterMount
<1>7. MountSucceeds' /\ UsableAfterRace'
  BY DEF MountSucceeds, UsableAfterRace, Sweeping, AfterMount, BeforeMount, Held
<1> QED
  BY <1>1, <1>2, <1>3, <1>4, <1>5, <1>6, <1>7

\* After the settling nothing pins the first mount.
LEMMA SettleAndStartStep ==
    ASSUME UInv, SettleAndStart
    PROVE  UInv'
<1> USE UmountRaceAssumption, Stacks DEF UInv, TypeOK, SettleAndStart, Settled
<1>1. TypeOK'
  BY DEF Start, BeforeMount, AfterMount, Sweeping, Held
<1>2. Held'
  BY DEF Held, Start, BeforeMount
<1>3. Start'
  BY DEF Start
<1>4. BeforeMount'
  BY DEF BeforeMount, Held, Start
<1>5. AfterMount'
  BY DEF AfterMount, BeforeMount, Held
<1>6. Sweeping'
  BY DEF Sweeping, AfterMount
<1>7. MountSucceeds' /\ UsableAfterRace'
  BY DEF MountSucceeds, UsableAfterRace, Sweeping, AfterMount, BeforeMount, Held
<1> QED
  BY <1>1, <1>2, <1>3, <1>4, <1>5, <1>6, <1>7

\* The sleep changes nothing but time.
LEMMA SleepStep ==
    ASSUME UInv, Sleep
    PROVE  UInv'
<1> USE UmountRaceAssumption, Stacks DEF UInv, TypeOK, Sleep
<1>1. TypeOK'
  BY DEF Start, BeforeMount, AfterMount, Sweeping, Held
<1>2. Held'
  BY DEF Held, Start, BeforeMount
<1>3. Start'
  BY DEF Start
<1>4. BeforeMount'
  BY DEF BeforeMount, Held, Start
<1>5. AfterMount'
  BY DEF AfterMount, BeforeMount, Held
<1>6. Sweeping'
  BY DEF Sweeping, AfterMount
<1>7. MountSucceeds' /\ UsableAfterRace'
  BY DEF MountSucceeds, UsableAfterRace, Sweeping, AfterMount, BeforeMount, Held
<1> QED
  BY <1>1, <1>2, <1>3, <1>4, <1>5, <1>6, <1>7

\* The case holds what it found, the first mount or none.
LEMMA MountLookupStep ==
    ASSUME UInv, MountLookup
    PROVE  UInv'
<1> USE UmountRaceAssumption, Stacks DEF UInv, TypeOK, MountLookup, MountRefs, Top
<1>1. TypeOK'
  BY DEF Start, BeforeMount, AfterMount, Sweeping, Held
<1>2. Held'
  BY DEF Held, Start, BeforeMount
<1>3. Start'
  BY DEF Start
<1>4. BeforeMount'
  BY DEF BeforeMount, Held, Start
<1>5. AfterMount'
  BY DEF AfterMount, BeforeMount, Held
<1>6. Sweeping'
  BY DEF Sweeping, AfterMount
<1>7. MountSucceeds' /\ UsableAfterRace'
  BY DEF MountSucceeds, UsableAfterRace, Sweeping, AfterMount, BeforeMount, Held
<1> QED
  BY <1>1, <1>2, <1>3, <1>4, <1>5, <1>6, <1>7

\* What the case holds is still there, so the mount succeeds.
LEMMA MountStep ==
    ASSUME UInv, Mount
    PROVE  UInv'
<1> USE UmountRaceAssumption, Stacks DEF UInv, TypeOK, Mount
<1>0. mountErr' = OK /\ stack' \in {<<2>>, <<2, 1>>} /\ stack' = <<2>> \o stack
  <2>1. stack \in {<<>>, <<1>>} /\ path["main"] = IF stack = <<>> THEN 0 ELSE 1
    BY DEF BeforeMount
  <2>2. CASE stack = <<>>
    BY <2>1, <2>2
  <2>3. CASE stack = <<1>>
    <3>1. 1 \in {stack[k] : k \in 1..Len(stack)}
      BY <2>3
    <3> QED
      BY <2>1, <2>3, <3>1
  <2> QED
    BY <2>1, <2>2, <2>3
<1>1. TypeOK'
  <2>0. path \in [{"main", "um"} -> 0..2] /\ path' = [path EXCEPT !["main"] = 0]
    OBVIOUS
  <2>1. path' \in [{"main", "um"} -> 0..2] /\ refs' \subseteq {"main", "um"}
    <3>1. 0 \in 0..2
      OBVIOUS
    <3>2. \A k \in {"main", "um"} : path'[k] \in 0..2
      BY <2>0, <3>1
    <3> QED
      BY <2>0, <3>2
  <2>2. stack' \in {<<>>, <<1>>, <<2>>, <<2, 1>>} /\ mountErr' \in {OK, EINVAL}
    BY <1>0
  <2> QED
    BY <2>1, <2>2
<1>2. Held'
  BY DEF Held, Start, BeforeMount
<1>3. Start'
  BY DEF Start
<1>4. BeforeMount'
  BY DEF BeforeMount, Held, Start
<1>5. AfterMount'
  <2>1. um \in {"lookup", "umount"} => stack = <<1>>
    BY DEF BeforeMount
  <2>2. um = "umount" => path'["um"] = 1
    BY DEF BeforeMount
  <2> QED
    BY <1>0, <2>1, <2>2 DEF AfterMount
<1>6. Sweeping'
  BY DEF Sweeping, AfterMount
<1>7. MountSucceeds' /\ UsableAfterRace'
  BY DEF MountSucceeds, UsableAfterRace, Sweeping, AfterMount, BeforeMount, Held
<1> QED
  BY <1>1, <1>2, <1>3, <1>4, <1>5, <1>6, <1>7

\* The kthread has exited.
LEMMA JoinStep ==
    ASSUME UInv, Join
    PROVE  UInv'
<1> USE UmountRaceAssumption, Stacks DEF UInv, TypeOK, Join, Joinable
<1>1. TypeOK'
  BY DEF Start, BeforeMount, AfterMount, Sweeping, Held
<1>2. Held'
  BY DEF Held, Start, BeforeMount
<1>3. Start'
  BY DEF Start
<1>4. BeforeMount'
  BY DEF BeforeMount, Held, Start
<1>5. AfterMount'
  BY DEF AfterMount, BeforeMount, Held
<1>6. Sweeping'
  <2>1. sweeps = 0
    BY DEF Sweeping
  <2>2. Len(stack) <= 2
    <3>1. stack \in {<<>>, <<1>>, <<2>>, <<2, 1>>}
      OBVIOUS
    <3>2. 0 <= 2 /\ 1 <= 2 /\ 2 <= 2
      OBVIOUS
    <3> QED
      BY <3>1, <3>2, Zenon
  <2> QED
    BY <2>1, <2>2 DEF Sweeping
<1>7. MountSucceeds' /\ UsableAfterRace'
  BY DEF MountSucceeds, UsableAfterRace, Sweeping, AfterMount, BeforeMount, Held
<1> QED
  BY <1>1, <1>2, <1>3, <1>4, <1>5, <1>6, <1>7

\* A sweep removes the topmost mount, if any.
LEMMA SweepStep ==
    ASSUME UInv, Sweep
    PROVE  UInv'
<1> USE UmountRaceAssumption, Stacks DEF UInv, TypeOK, Sweep, SweepAgain
<1>1. TypeOK'
  <2>1. stack' \in {<<>>, <<1>>, <<2>>, <<2, 1>>}
    OBVIOUS
  <2>2. sweeps' \in 0..SweepTries /\ pending' \in 0..Files
    OBVIOUS
  <2> QED
    BY <2>1, <2>2
<1>2. Held'
  BY DEF Held, Start, BeforeMount
<1>3. Start'
  BY DEF Start
<1>4. BeforeMount'
  BY DEF BeforeMount, Held, Start
<1>5. AfterMount'
  BY DEF AfterMount, BeforeMount, Held
<1>6. Sweeping'
  BY DEF Sweeping, AfterMount
<1>7. MountSucceeds' /\ UsableAfterRace'
  BY DEF MountSucceeds, UsableAfterRace, Sweeping, AfterMount, BeforeMount, Held
<1> QED
  BY <1>1, <1>2, <1>3, <1>4, <1>5, <1>6, <1>7

\* Every step keeps the invariant.
THEOREM NextUInv == UInv /\ [Next]_vars => UInv'
<1> SUFFICES ASSUME UInv, [Next]_vars PROVE UInv'
  OBVIOUS
<1>1. CASE Case
  BY <1>1, WriteFileStep, SettleAndStartStep, SleepStep, MountLookupStep, MountStep, JoinStep,
     SweepStep DEF Case
<1>2. CASE Umounter
  BY <1>2, UmountLookupStep, UmountStep, CompleteStep DEF Umounter
<1>3. CASE DelayedFput
  BY <1>3, DelayedFputStep
<1>4. CASE Over \/ UNCHANGED vars
  <2>1. UNCHANGED vars
    BY <1>4 DEF Over
  <2> QED
    BY <2>1 DEF vars, UInv, TypeOK, Held, Start, BeforeMount, AfterMount, Sweeping,
                MountSucceeds, UsableAfterRace
<1> QED
  BY <1>1, <1>2, <1>3, <1>4 DEF Next

\* Every reachable state satisfies the inductive invariant.
THEOREM UmountRaceInvariance == Spec => []UInv
<1> QED
  BY InitUInv, NextUInv, PTL DEF Spec

\* At most two mounts are ever stacked, and the sweeps stay within the loop.
THEOREM UmountRaceTypes == Spec => []TypeOK
<1> QED
  BY UmountRaceInvariance, PTL DEF UInv

\* The second xfs_scratch_mount() succeeds in every interleaving.
THEOREM MountAlwaysSucceeds == Spec => []MountSucceeds
<1> QED
  BY UmountRaceInvariance, PTL DEF UInv

\* After the race something is mounted on XFS_SCRATCH_MNT.
THEOREM AlwaysUsable == Spec => []UsableAfterRace
<1> QED
  BY UmountRaceInvariance, PTL DEF UInv

\* The case returns only when the kthread is through with its frame.
THEOREM FrameAlwaysOutlives == Spec => []FrameOutlivesUmount
<1>1. UInv => FrameOutlivesUmount
  BY DEF UInv, TypeOK, Held, Sweeping, FrameOutlivesUmount
<1> QED
  BY <1>1, UmountRaceInvariance, PTL

\* Two mounts can be left, and SweepTries is enough for them.
THEOREM ScratchAlwaysSwept == Spec => []NoScratchLeft
<1>1. UInv => NoScratchLeft
  BY DEF UInv, Sweeping, NoScratchLeft
<1> QED
  BY <1>1, UmountRaceInvariance, PTL

\* An unmount that runs within the sleep is never refused.
THEOREM OnTimeUmount == Spec => UmountOnTimeSucceeds
<1>1. UInv /\ [Next]_vars => [main = "sleep" /\ um = "umount" /\ um' = "complete" => umErr' = OK]_vars
  <2> SUFFICES ASSUME UInv, Next, main = "sleep", um = "umount", um' = "complete"
               PROVE  umErr' = OK
    BY DEF vars
  <2>1. Umount
    BY DEF Next, Case, Umounter, DelayedFput, Over, vars, UmountLookup, Complete, WriteFile,
           SettleAndStart, Sleep, MountLookup, Mount, Join, Sweep
  <2>2. stack = <<1>> /\ path["um"] = 1 /\ "main" \notin refs /\ pending = 0
    BY DEF UInv, BeforeMount, Held, Start
  <2> QED
    BY <2>1, <2>2, Stacks DEF Umount, Busy, Top
<1> QED
  BY <1>1, UmountRaceInvariance, PTL DEF Spec, UmountOnTimeSucceeds
=============================================================================
